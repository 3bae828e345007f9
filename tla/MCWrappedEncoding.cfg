SPECIFICATION Spec
CONSTANTS
  MaxInput = 40
  Wrapcols <- MCWrapcols
  DirectThreshold = 20
  Slack = 2
INVARIANTS IInv WrapsText WritesFit SourceIntact
PROPERTIES Terminates
