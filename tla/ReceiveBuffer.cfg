SPECIFICATION FairSpec
CONSTANTS
  N = 8
  WND = 3
  RWND = 4
  Null = Null
INVARIANTS
  TypeOK ArrayIsQueue OverrunIsPredicted AheadUnlessRepeated
PROPERTIES LoopsEnd
CHECK_DEADLOCK FALSE
