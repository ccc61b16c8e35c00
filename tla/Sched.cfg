SPECIFICATION FairSpec
CONSTANTS
  Ids = {s1, s2}
  NoRow = NoRow
  Kinds <- SomeKinds
  Policies <- SomePolicies
  TickLen = 2
  DayLen = 3
  MaxNow = 3
  MaxFaults = 1
  MaxRev = 2
CHECK_DEADLOCK FALSE
INVARIANTS
  NoExtraFires
PROPERTIES
  FiresBeforeAdvance
  CancelledStays
  NeverSpins
  DueIsServiced
