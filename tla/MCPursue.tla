------------------------------ MODULE MCPursue ------------------------------
(***************************************************************************)
(* A small instance of Pursue: one task of a single cycle next to one that *)
(* is split in two, with max_parallelism 0.                                *)
(***************************************************************************)
EXTENDS Pursue

CONSTANTS single, parent, child1, child2
=============================================================================
