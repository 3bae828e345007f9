CONSTANTS
  Calls <- UnpaddedCalls
  DetachThreshold <- MCDetachThreshold
  Edge <- MCEdge
SPECIFICATION Spec
INVARIANTS
  SuffixUntouched
