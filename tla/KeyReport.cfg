\* Every key of a PC keyboard, next to Escape and to a neighbour.
SPECIFICATION FairSpec
CONSTANTS
  Pairs <- EveryKey
  MaxQueue = 2
INVARIANTS TypeOK Reported Named OwnCode
PROPERTIES EscapeQuits
\* The program ends.
CHECK_DEADLOCK FALSE
