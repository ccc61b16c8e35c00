---------------------------- MODULE MCScheduler ----------------------------
(***************************************************************************)
(* Small instances of Scheduler: a one-shot, intervals shorter and longer  *)
(* than the tick, a degenerate one and a daily slot.                       *)
(***************************************************************************)
EXTENDS Scheduler

Every(n) == [type |-> "every", interval |-> n]
Once == [type |-> "once"]
Daily(n) == [type |-> "daily", at |-> n]
Skip == [name |-> "skip"]
RunOnce == [name |-> "run_once"]
CatchUp(n) == [name |-> "catch_up", max |-> n]

SomeKinds == {Once, Every(0), Every(2), Daily(1)}
SomePolicies == {Skip, CatchUp(2)}
=============================================================================
