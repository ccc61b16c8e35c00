---------------------------- MODULE MCProposals ----------------------------
(***************************************************************************)
(* A small instance of Proposals: three models, of which one needs no key, *)
(* one a key the process has and one a key it has not; a payload of every  *)
(* kind.                                                                   *)
(***************************************************************************)
EXTENDS Proposals, TLC

CONSTANTS free, keyed, locked, k1, k2, toml, short, p1, p2, onModel, onRuntime, mounted

SomeKeyOf == (free :> None) @@ (keyed :> k1) @@ (locked :> k2)
SomePayloads ==
  {[kind |-> "persona"],
   [kind |-> "model", model |-> locked, ladder |-> short],
   [kind |-> "model", model |-> None, ladder |-> NoModels],
   [kind |-> "model", model |-> free, ladder |-> None],
   [kind |-> "secret", key |-> k2],
   [kind |-> "routing", rule |-> locked],
   [kind |-> "routing", rule |-> None]}
=============================================================================
