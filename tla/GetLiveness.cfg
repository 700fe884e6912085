CONSTANTS
  N = 3
  WND = 2
  RWND = 2
  ExactMultiple = TRUE
  Cap = 2
  Reorder = FALSE
  Faults = FALSE
SPECIFICATION DownloadSpec
INVARIANTS
  EndedIsReceived
PROPERTIES
  FileArrives
  ListEnds
CHECK_DEADLOCK FALSE
