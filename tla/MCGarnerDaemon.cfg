SPECIFICATION FairDaemonSpec
CONSTANTS
  Launches = {1, 2}
  Builds = {TRUE, FALSE}
  Transport = "tcp"
  NoFile = NoFile
  Empty = Empty
  MaxFails = 3
  MaxFaults = 1
  MaxStops = 1
INVARIANTS DaemonInv
PROPERTIES RestartedAfterCrash ShutdownSticks
CHECK_DEADLOCK FALSE
