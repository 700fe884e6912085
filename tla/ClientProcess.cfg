SPECIFICATION Spec
CONSTANT MaxChoices = 4
INVARIANTS
  WalkIsAligned
  ExitWaits
CHECK_DEADLOCK FALSE
