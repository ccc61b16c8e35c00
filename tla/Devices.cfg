SPECIFICATION Spec
CONSTANTS
  k1 = k1
  k2 = k2
  pc = pc
  phone = phone
  c1 = c1
  c2 = c2
  r1 = r1
  r2 = r2
  None = None
  Torn = Torn
  Calls = {k1, k2}
  Devices = {pc}
  Codes = {c1, c2}
  Ids = {r1, r2}
  MaxRevision = 1
  MaxBoots = 1
  MaxFailures = 1
SYMMETRY Symmetry
INVARIANTS
  OneRequestPerCode
  AckedIsDurable
PROPERTIES
  AnswerStands
CHECK_DEADLOCK FALSE
