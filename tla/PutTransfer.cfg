SPECIFICATION FairSpec
CONSTANTS
  N = 4
  WND = 3
  RWND = 3
  Cap = 3
  Reorder = FALSE
  Faults = TRUE
INVARIANTS
  TypeOK WrittenIsAcked DiscardedIsReceived BufferAhead BaseIsFirst UploadedIsWritten
PROPERTIES ImplementsStream FileUploaded UploadEnds
CHECK_DEADLOCK FALSE
