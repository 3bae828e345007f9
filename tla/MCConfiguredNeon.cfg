SPECIFICATION Spec
CONSTANTS
  Byte <- MCByte
  Standard <- MCStandard
  Alphanumeric <- MCAlphanumeric
  StandardValue <- MCStandardValue
  Plus = "+"
  Slash = "/"
  Equals = "="
  Calls <- MCKernelCalls
  SmallInput = 4
  DetachThreshold = 3
  Capacity = 8
  KernelGroup = 4
  StoresBeforeCheck = TRUE
INVARIANTS WithinCapacity
