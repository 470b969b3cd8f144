SPECIFICATION Spec
CONSTANTS
  Bang = 1
  QueueSize = 3
  PostponeMax = 2
  EnableCrypt = TRUE
  MaxData = 4
  MaxAV = 4
\* the thread ends
CHECK_DEADLOCK FALSE
INVARIANTS RecheckCompletes
