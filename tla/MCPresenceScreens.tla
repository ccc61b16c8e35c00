------------------------- MODULE MCPresenceScreens -------------------------
(* The instance of PresenceScreens that TLC explores.                      *)
EXTENDS PresenceScreens
CONSTANTS o1, o2
TwoOwners == {o1, o2}
=============================================================================
