SPECIFICATION Spec
CONSTANTS
  Runs <- MCRuns
  MaxOut <- MCMaxOut
  PipeCap = 1
  Machines <- MCMachines
INVARIANT CapturesAll
INVARIANT NothingHeld
PROPERTY EveryCallReturns
