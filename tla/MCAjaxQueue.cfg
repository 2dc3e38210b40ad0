SPECIFICATION FairSpec
CONSTANTS
  MaxCalls = 3
  Phases = {2}
INVARIANTS RightCaller InOrder BacklogHasCause
PROPERTIES Drains
