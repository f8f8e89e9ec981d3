\* Everything overlaps, and the bus may refuse a resource.
SPECIFICATION Spec
CONSTANTS
  t1 = t1
  t2 = t2
  Threads <- Two
  MaxPci = 2
  MaxOpen = 0
  MaxDrift = 0
  MayFail = TRUE
SYMMETRY Symmetry
INVARIANTS TypeOK NoUseAfterFree NoEarlyUse BarReleased
PROPERTIES ImplementsLifetime
\* An unloaded module and a stopped kernel take no step.
CHECK_DEADLOCK FALSE
