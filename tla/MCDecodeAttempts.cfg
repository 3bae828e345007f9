CONSTANTS
  Calls <- MCCalls
  DetachThreshold <- MCDetachThreshold
  Edge <- MCEdge
SPECIFICATION Spec
INVARIANTS
  OutcomeIsReference
  OutputAsPromised
