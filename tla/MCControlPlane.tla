--------------------------- MODULE MCControlPlane ---------------------------
(***************************************************************************)
(* Small instances of ControlPlane, with one task and one subscription: a  *)
(* task of the daemon's own, which runs while an API client and the        *)
(* cockpit change it; and a key that two clients create at the same time.  *)
(***************************************************************************)
EXTENDS ControlPlane, TLC

CONSTANTS c1, c2, c3

AllDeliveries == [call : Calls, type : Types, sub : Subs]
AllTypes == [s \in Subs |-> Types]
EndTypes == [s \in Subs |-> {"task.created", "task.terminal"}]
ManyVerbs == (c1 :> {"resume", "steer", "cancel"}) @@ (c2 :> {"pause", "steer"})
               @@ (c3 :> {"record"})
FewVerbs == (c1 :> {"create"}) @@ (c2 :> {"create", "cancel"})
=============================================================================
