CONSTANTS
  N = 1
  WND = 2
  RWND = 2
  ExactMultiple = FALSE
  Cap = 1
  Reorder = FALSE
  Faults = FALSE
SPECIFICATION FairSpec
PROPERTIES
  WorkerSeesEnd
CHECK_DEADLOCK FALSE
