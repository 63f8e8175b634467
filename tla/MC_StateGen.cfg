\* StateGen::get(cs, cfg) on every program, register value and alignment mode
SPECIFICATION Spec
CONSTANTS
  W <- MCW
  Programs <- MCPrograms
  RegValues <- MCRegValues
  Rsp <- MCRsp
  HeapBase <- MCHeapBase
  StackSize <- MCStackSize
  MaxMemory <- MCMaxMemory
  MaxAttempts <- MCMaxAttempts
  ByteBits <- MCByteBits
  RegBytes <- MCRegBytes
  Limits <- MCLimits
INVARIANT TypeOK
INVARIANT StackHeapDisjoint
INVARIANT RegistersRespectLimits
PROPERTY Termination
