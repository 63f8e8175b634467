\* memory_map_to_testcase on disjoint reads, and inline_functions, interleaved
SPECIFICATION ValidatorSpec
CONSTANTS
  W <- MCW
  Concretes <- MCDisjointConcretes
  Rsp <- MCRsp
  HeapBase <- MCHeapBase
  Inlined <- [InlineFunctions] MCInlined
INVARIANT AllBytesMapped
PROPERTY ImplementsCallRet
