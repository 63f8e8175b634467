SPECIFICATION Spec
CONSTANTS
  a = a
  b = b
  f = f
  Atoms <- MCAtoms
  FalseAtom = f
  MaxConj <- MCMaxConj
  MaxDisj <- MCMaxDisj
INVARIANT ExtractedExactlyOnce
