\* WAITRETRACE on slot 0, against the comment in svga_ioctl.
SPECIFICATION Spec
CONSTANTS
  t1 = t1
  t2 = t2
  Threads <- Two
  MaxPci = 2
  MaxOpen = 0
  MaxDrift = 0
  MayFail = FALSE
INVARIANTS WaitsForAnyVsync
CHECK_DEADLOCK FALSE
