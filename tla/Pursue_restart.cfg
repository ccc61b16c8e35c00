SPECIFICATION Spec
CONSTANTS
  single = single
  parent = parent
  child1 = child1
  child2 = child2
  Singles = {single}
  Parent = parent
  Children = {child1, child2}
  MaxParallelism = 3
  MaxAttempts = 2
  MaxCommands = 0
  MaxFailures = 0
  MaxBoots = 1
PROPERTY
  PendingIsDrained
CHECK_DEADLOCK FALSE
