----------------------------- MODULE MCManagement -----------------------------
(***************************************************************************)
(* Management on small instances.                                          *)
(***************************************************************************)
EXTENDS Management, TLC

AllContents == SUBSET Calls

Symmetry == Permutations(Updates) \cup Permutations(Creators)

===============================================================================
