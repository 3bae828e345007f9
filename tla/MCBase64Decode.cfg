CONSTANTS
  Machines <- MCMachines
  Calls <- MCCalls
  ErrorInterval <- MCErrorInterval
SPECIFICATION Spec
INVARIANTS
  IInv
  ResultIsReference
  FootprintsFit
  ValidatedPrefixOnly
