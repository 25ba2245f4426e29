-------------------------- MODULE MCFileRulesetStore --------------------------
(***************************************************************************)
(* FileRulesetStore on small instances.                                    *)
(***************************************************************************)
EXTENDS FileRulesetStore, TLC

Symmetry ==
  Permutations(Callers) \cup Permutations(Contents) \cup Permutations(Envs)

===============================================================================
