-------------------------- MODULE MCPersonaSwitch --------------------------
(* The instances of PersonaSwitch that TLC explores.                       *)
EXTENDS PersonaSwitch
CONSTANTS s1, s2, ada, leo
OneSession == {s1}
TwoSessions == {s1, s2}
TwoPersonas == {ada, leo}
=============================================================================
