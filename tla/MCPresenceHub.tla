--------------------------- MODULE MCPresenceHub ---------------------------
(***************************************************************************)
(* Small instances of PresenceHub: two owners; alice has a session, two    *)
(* calls of which one cannot be shown whole, a client and a screen that    *)
(* may not answer; bob has a session, a call and a client.                 *)
(***************************************************************************)
EXTENDS PresenceHub

CONSTANTS alice, bob, ka, kb, c1, c2, c3, app, screen, bobs

MCOwnerOf == [k \in Keys |-> IF k = ka THEN alice ELSE bob]
MCKeyOf == [c \in Calls |-> IF c = c3 THEN kb ELSE ka]
MCComplete == [c \in Calls |-> c # c2]
MCSurfaceOwner == [s \in Surfaces |-> IF s = bobs THEN bob ELSE alice]
MCMayAnswer == [s \in Surfaces |-> s # screen]
=============================================================================
