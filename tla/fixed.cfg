SPECIFICATION Spec
CONSTANTS
  Blocks = {b1, b2, b3}
  b1 = b1
  b2 = b2
  b3 = b3
  Cap = 9
  Wrap = 32
  Word = 4
  Sizes = {0, 1, 2, 3, 5}
  Aligns = {1, 2, 4}
  NoBlock = "no block"
INVARIANT SameOutcome
PROPERTY KeepsPromise
CHECK_DEADLOCK FALSE
SYMMETRY Symmetry
