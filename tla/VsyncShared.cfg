\* Two waiters and the filter of one adapter, on a shared line; nv4 also on its own.
SPECIFICATION FairSpec
CONSTANTS
  t1 = t1
  t2 = t2
  p1 = p1
  PortUsers <- OneUser
  MaxPairs = 1
  Threads <- Two
  Adapters <- AllAdapters
INVARIANTS TypeOK EnableEnables AckSilences RestPreserved
PROPERTIES LineDrops
