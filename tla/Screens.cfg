CONSTANTS
  o1 = o1
  o2 = o2
  None = None
  Owners <- TwoOwners
  Pro = TRUE
  MaxWrong = 2
  MaxPairings = 2
  MaxVersion = 1
  MaxRemovals = 1
  MaxUnstored = 1
  MaxFaults = 1
SPECIFICATION Spec
INVARIANTS
  StoredTokensAgree
  SettledIsPosted
  AnswersLast
PROPERTY
  ScreenCatchesUp
