SPECIFICATION Spec
CONSTANTS
  W <- MCW
  Concretes <- MCConcretes
  Rsp <- MCRsp
  HeapBase <- MCHeapBase
INVARIANT EachByteMappedOnce
