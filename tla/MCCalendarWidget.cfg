SPECIFICATION FairSpec
CONSTANTS
  MinYear = 1900
  MaxYear = 2999
  Fields = {from}
  NowFields = {}
  Today <- MCToday
  Yesterday <- MCYesterday
  StartDates <- MCStartDates
  Typed <- MCTyped
  Days = {29, 31}
  Picks = {1}
  FirstDays = {6}
  HourInputs = {9}
  MaxEvents = 4
INVARIANTS GridInv FieldAgrees PressedCell
PROPERTIES MovesLand Opens
CHECK_DEADLOCK FALSE
