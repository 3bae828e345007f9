SPECIFICATION Spec
CONSTANTS
  Byte <- MCByte
  Standard <- MCStandard
  Alphanumeric <- MCAlphanumeric
  StandardValue <- MCStandardValue
  Plus = "+"
  Slash = "/"
  Equals = "="
  Calls <- MCPolicyCalls
  SmallInput = 3
  DetachThreshold = 3
  Capacity = 4
  KernelGroup = 4
  StoresBeforeCheck = FALSE
INVARIANTS IInv ResultIsReference PassesAgree WithinCapacity
PROPERTIES Terminates
