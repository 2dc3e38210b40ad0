SPECIFICATION Spec
CONSTANTS
  Categories <- MCCategories
  Records <- MCRecords
  Texts <- MCTexts
  Starts <- MCStarts
  Finds <- MCFinds
  Forms = {"new", "one", "all", "group"}
  Stored <- MCStored
  Items = {"i1", "i2"}
  MaxEvents = 6
  MaxTimers = 2
INVARIANTS PopupInv OpenIsCurrent FormIsAskedFor
PROPERTIES TicksKept
CHECK_DEADLOCK FALSE
