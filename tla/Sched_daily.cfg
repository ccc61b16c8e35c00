SPECIFICATION SlotSpec
CONSTANTS
  DayHours = 24
  Late = 1
  Shifts <- AllShifts
  ChangeHours = {0, 2, 23}
  ChangeDay = 3
  LastDay = 8
CHECK_DEADLOCK FALSE
INVARIANTS
  NextIsASlot
  FirstButForTheGapsEve
PROPERTY OncePerDate
