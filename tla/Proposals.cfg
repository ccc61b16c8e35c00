SPECIFICATION Spec
CONSTANTS
  free = free
  keyed = keyed
  locked = locked
  k1 = k1
  k2 = k2
  toml = toml
  short = short
  None = None
  NoModels = NoModels
  Torn = Torn
  p1 = p1
  p2 = p2
  onModel = onModel
  onRuntime = onRuntime
  mounted = mounted
  Mounted = mounted
  Ids = {p1, p2}
  Payloads <- SomePayloads
  Models = {free, keyed, locked}
  Ladders = {toml, short, NoModels}
  Backends = {onModel, onRuntime}
  Keys = {k1, k2}
  KeyOf <- SomeKeyOf
  ProcessEnv = {k1}
  TomlModel = free
  TomlLadder = toml
  TomlRule = None
  TomlBackend = onModel
  MaxSwitches = 2
  MaxHarm = 2
INVARIANTS
  EffectsAreApproved
  LiveFollowsTheLog
  LadderSurvives
  AppliedWhole
  SecretIsAccountedFor
PROPERTIES
  SoulIsBackedUp
CHECK_DEADLOCK FALSE
