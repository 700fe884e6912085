SPECIFICATION Spec
CONSTANT MaxChoices = 2
INVARIANT
  TimerOfTimeout
CHECK_DEADLOCK FALSE
