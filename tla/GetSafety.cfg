CONSTANTS
  N = 4
  WND = 3
  RWND = 3
  ExactMultiple = FALSE
  Cap = 3
  Reorder = FALSE
  Faults = FALSE
SPECIFICATION Spec
INVARIANTS
  TypeOK
  GetInv
  WrittenIsAcked
  DiscardedIsReceived
  BufferAhead
  OutstandingIsTimed
PROPERTIES
  ImplementsStream
CHECK_DEADLOCK FALSE
