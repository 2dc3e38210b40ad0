SPECIFICATION FairSpec
CONSTANTS
  Reports = {r1, r2}
  Single = r1
  Indexed = {r2}
  NoReport = NoReport
  Sizes = {2, 4}
  GroupSize = 2
  GraphLimit = 2
  Cols = {c1}
  TotalRows = 5
  FoundRows = 4
  MaxPending = 2
INVARIANTS PageInv ViewIsCurrent ExportsThePage StallsHaveCause
PROPERTIES LoadingEnds
CHECK_DEADLOCK FALSE
