SPECIFICATION Spec
CONSTANTS
  single = single
  parent = parent
  child1 = child1
  child2 = child2
  Singles = {}
  Parent = parent
  Children = {child1, child2}
  MaxParallelism = 0
  MaxAttempts = 2
  MaxCommands = 3
  MaxFailures = 1
  MaxBoots = 1
INVARIANTS
  CreditedOnce
  ParentFollowsChildren
PROPERTIES
  TerminalStays
  DriversEnd
CHECK_DEADLOCK FALSE
