-------------------------- MODULE MCExtensionHost --------------------------
(***************************************************************************)
(* A small instance of ExtensionHost: two extensions that may claim the    *)
(* same capability, one version that registers an undeclared name half-way *)
(* and one that asks for more than the ceiling.                            *)
(***************************************************************************)
EXTENDS ExtensionHost, TLC

CONSTANTS a, b, x, y, z

SomeEntries ==
  (a :> (1 :> <<x, y>> @@ 2 :> <<x>> @@ 3 :> <<x, z>>)) @@
  (b :> (1 :> <<y>> @@ 2 :> <<z, x>> @@ 3 :> <<y, z>>))
SomeDeclared ==
  (a :> (1 :> {x, y} @@ 2 :> {x} @@ 3 :> {x})) @@
  (b :> (1 :> {y} @@ 2 :> {z, x} @@ 3 :> {y, z}))
SomeNeeds ==
  (a :> (1 :> {} @@ 2 :> {} @@ 3 :> {})) @@
  (b :> (1 :> {<<a, 2>>, <<a, 3>>} @@ 2 :> {} @@ 3 :> {}))
=============================================================================
