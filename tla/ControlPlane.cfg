SPECIFICATION ApiSpec
CONSTANTS
  c1 = c1
  c2 = c2
  c3 = c3
  Tasks = {k1}
  Pursued = {k1}
  Calls = {c1, c2, c3}
  Console = {c2}
  VerbsOf <- ManyVerbs
  Subs = {s1}
  Wants <- AllTypes
  Engine = Engine
  Learner = Learner
  MaxRev = 3
  Deliveries <- AllDeliveries
  MaxAttempts = 1
  MaxFaults = 1
CHECK_DEADLOCK FALSE
INVARIANTS
  AnnouncedIsCommitted
  NothingClobbered
  TerminalIsLast
  RepliedMeansQueued
