SPECIFICATION Spec
CONSTANTS
  c1 = c1
  c2 = c2
  c3 = c3
  Tasks = {k1}
  Pursued = {}
  Calls = {c1, c2}
  Console = {}
  VerbsOf <- FewVerbs
  Subs = {s1}
  Wants <- EndTypes
  Engine = Engine
  Learner = Learner
  MaxRev = 1
  Deliveries <- AllDeliveries
  MaxAttempts = 2
  MaxFaults = 1
CHECK_DEADLOCK FALSE
INVARIANTS
  AttemptsAreSpent
  TakenOnce
PROPERTIES
  Settles
