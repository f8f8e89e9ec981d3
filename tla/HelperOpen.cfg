\* Opens and closes of one node overlap; the bus may refuse a resource.
SPECIFICATION FairSpec
CONSTANTS
  t1 = t1
  t2 = t2
  Threads <- Two
  MaxPci = 1
  MaxOpen = 3
  MaxDrift = 0
  MayFail = TRUE
INVARIANTS HandlerOwnsSoftc NoLeakedHandler SleeperHasHandler OpenHasHandler
PROPERTIES WaitReturns UnloadCompletes
\* An unloaded module and a stopped kernel take no step.
CHECK_DEADLOCK FALSE
