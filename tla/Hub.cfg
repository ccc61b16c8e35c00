SPECIFICATION FairSpec
CONSTANTS
  alice = alice
  bob = bob
  ka = ka
  kb = kb
  c1 = c1
  c2 = c2
  c3 = c3
  app = app
  screen = screen
  bobs = bobs
  Owners = {alice, bob}
  Keys = {ka, kb}
  Calls = {c1, c2}
  Surfaces = {app, screen, bobs}
  OwnerOf <- MCOwnerOf
  KeyOf <- MCKeyOf
  Complete <- MCComplete
  SurfaceOwner <- MCSurfaceOwner
  MayAnswer <- MCMayAnswer
  Impatient = {c1}
  MaxSeq = 3
CHECK_DEADLOCK FALSE
INVARIANTS
  AnsweredOnce
  WaitingHasCause
PROPERTIES
  KeepsPromise
  LastAnswerRestores
  PatientCallsEnd
