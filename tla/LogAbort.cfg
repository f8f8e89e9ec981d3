\* A signal during log_done, against the comment on log_abort.
SPECIFICATION Spec
CONSTANTS
  Texts <- ShortAndLong
  Cut <- First
  Empty = "empty"
  MaxSent = 1
PROPERTIES AbortSafe
CHECK_DEADLOCK FALSE
