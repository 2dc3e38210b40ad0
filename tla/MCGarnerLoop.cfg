SPECIFICATION FairLoopSpec
CONSTANTS
  Consumers = {"trigger", "rotate", "threshold"}
  Interval <- IntervalTable
  Period = 1
  BufLen = 2
  PipeCap = 3
  Signals = {"term", "hup"}
  MaxSignals = 1
INVARIANTS LoopInv
PROPERTIES QuitHonoured ConsumersServed
