SPECIFICATION FairSpec
CONSTANTS
  MaxSize = 2
  Lengths = {1, 2}
  Stamps = {7}
  Null = Null
  MaxTime = 2
  MaxEvents = 3
  MaxFaults = 2
INVARIANTS FilesInv IndexExact
PROPERTIES EventuallyRotated
