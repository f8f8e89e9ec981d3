\* What the sync flag does, against the comment on log_init.
SPECIFICATION Spec
CONSTANTS
  Texts <- ShortAndLong
  Cut <- First
  Empty = "empty"
  MaxSent = 1
INVARIANTS FilesystemFlushed
CHECK_DEADLOCK FALSE
