CONSTANTS
  N = 3
  WND = 2
  RWND = 2
  ExactMultiple = FALSE
  Cap = 2
  Reorder = TRUE
  Faults = TRUE
SPECIFICATION Spec
INVARIANTS
  WrittenIsAcked
PROPERTIES
  ImplementsStream
CHECK_DEADLOCK FALSE
