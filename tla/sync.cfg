SPECIFICATION FairSpec
CONSTANTS
  t1 = t1
  t2 = t2
  t3 = t3
  Threads = {t1, t2, t3}
  Permits = 1
  Wrap = 8
  MaxOps = 1
INVARIANT MutualExclusion
INVARIANT PermitsConserved
PROPERTY OnceRunsOnce
PROPERTY EveryoneFinishes
CHECK_DEADLOCK FALSE
