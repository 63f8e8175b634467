\* FirstMisalignmentRepaired on the same programs
SPECIFICATION Spec
CONSTANTS
  W <- MCW
  Programs <- MCPrograms
  RegValues <- MCRegValues
  Rsp <- MCRsp
  HeapBase <- MCHeapBase
  StackSize <- MCStackSize
  MaxMemory <- MCMaxMemory
  MaxAttempts <- MCMaxAttempts
  ByteBits <- MCByteBits
  RegBytes <- MCRegBytes
  Limits <- MCLimits
PROPERTY FirstMisalignmentRepaired
