------------------------------ MODULE MCRelease ------------------------------
(***************************************************************************)
(* Release with two commits: one packs to the same bytes each time, the    *)
(* other differs from itself and shares its first package with the first.  *)
(***************************************************************************)
EXTENDS Release

CONSTANTS c1, c2, a, b

TheBuilds(commit, isDirty) ==
  CASE isDirty -> {[p \in Packages |-> b]}
    [] commit = c1 -> {[p \in Packages |-> a]}
    [] OTHER -> {[p \in Packages |-> IF p = 1 THEN a ELSE b],
                 [p \in Packages |-> IF p = Last THEN b ELSE a]}

===============================================================================
