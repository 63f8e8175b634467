\* verify on every pair of the straight-line, loop and branch families, on
\* every one-input corpus, with and without make_tcs
SPECIFICATION Spec
CONSTANTS
  Width <- MCWidth
  TcBound <- MCTcBound
  MaxJumps <- MCMaxJumps
  Corpora <- MCCorpora
  Pairs <- AllPairs
INVARIANT TypeOK
INVARIANT Soundness
PROPERTY HoudiniFindsGreatestInductive
PROPERTY Termination
