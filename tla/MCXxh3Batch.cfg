CONSTANTS
  Machines <- MCMachines
  Calls <- MCCalls
SPECIFICATION Spec
INVARIANTS
  IInv
  DigestsAreReference
  KernelsStaySafe
  ShortInputsCovered
