\* Every history of at most eleven messages, stopped by a signal anywhere.
SPECIFICATION Spec
CONSTANTS
  Texts <- ShortAndLong
  Cut <- First
  Empty = "empty"
  MaxSent = 11
INVARIANTS TypeOK Faithful NothingPending
\* After log_abort the process takes no step.
CHECK_DEADLOCK FALSE
