SPECIFICATION Spec
CONSTANTS
  a = a
  b = b
  x = x
  y = y
  z = z
  Ids = {a, b}
  Versions = {1, 2, 3}
  Caps = {x, y, z}
  NoOne = NoOne
  Entries <- SomeEntries
  Declared <- SomeDeclared
  Needs <- SomeNeeds
  Ceiling = {x, y, z}
  MaxHistory = 2
  MaxFaults = 3
INVARIANTS
  ZeroOrphan
  NoComeback
PROPERTIES
  AllOrNothing
