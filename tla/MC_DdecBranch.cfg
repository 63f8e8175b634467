\* verify on the branch pairs whose ZF is a def-in and a live-out
INIT Init
NEXT Next
CONSTANTS
  Width <- MCWidth
  TcBound <- MCTcBound
  MaxJumps <- MCMaxJumps
  Corpora <- MCCorpora
  Pairs <- BranchPairsFlagsLive
INVARIANT Soundness
