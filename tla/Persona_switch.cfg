CONSTANTS
  s1 = s1
  s2 = s2
  ada = ada
  leo = leo
  None = None
  Sessions <- TwoSessions
  Personas <- TwoPersonas
  Heaviest <- ada
  MaxSwitches = 2
  MaxPrompts = 3
  MaxFaults = 1
SPECIFICATION Spec
PROPERTY EffectiveFromNextPrompt
CHECK_DEADLOCK FALSE
