SPECIFICATION Spec
CONSTANTS
  Texts <- MCTexts
  MaxNest = 8
  MaxChain = 9
  MaxParens = 1
  MaxIdle = 120
INVARIANT NothingInSilence
INVARIANT LevelsClosed
INVARIANT PrecedenceRespected
INVARIANT BlocksPair
INVARIANT Terminates
CHECK_DEADLOCK FALSE
