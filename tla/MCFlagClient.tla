----------------------------- MODULE MCFlagClient -----------------------------
(***************************************************************************)
(* FlagClient, and the provider over it, on small instances.               *)
(***************************************************************************)
EXTENDS FlagProvider, TLC

Symmetry == Permutations(Waiters) \cup Permutations(Contents)

===============================================================================
