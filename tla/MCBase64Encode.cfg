CONSTANTS
  Machines <- MCMachines
  Calls <- MCCalls
  Addresses <- MCAddresses
SPECIFICATION Spec
INVARIANTS
  IInv
  TextIsReference
  FootprintsFit
