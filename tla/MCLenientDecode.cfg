CONSTANTS
  Calls <- MCCalls
  Block <- MCBlock
  InlineLimit <- MCInlineLimit
  DetachThreshold <- MCDetachThreshold
SPECIFICATION Spec
INVARIANTS
  IInv
  ResultIsReference
  UndersizedUntouched
