SPECIFICATION FairSpec
CONSTANTS
  Readers = {r1, r2}
  Objects = 5
  Null = Null
  Size = 2
  Limit = 2
  UseCount = 2
  Attempts = 2
  MaxOutages = 2
INVARIANTS ConnectionsInv
PROPERTIES NeverPulled RefusedOnlyWhenFull MinimumRestored
