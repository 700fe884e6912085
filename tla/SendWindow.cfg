CONSTANTS
  N = 4
  WND = 3
  RWND = 3
  Null = Null
SPECIFICATION Spec
INVARIANTS
  TypeOK
  ArrayIsWindow
  BaseIsFirst
  RoomIsThere
  SearchIsInside
  ArrayInv
PROPERTY
  RefreshIsAtomic
CHECK_DEADLOCK FALSE
