CONSTANTS
  N = 2
  WND = 2
  RWND = 2
  ExactMultiple = FALSE
  Cap = 2
  Reorder = FALSE
  Faults = FALSE
SPECIFICATION Spec
INVARIANTS
  PacketToRetransmit
CHECK_DEADLOCK FALSE
