----------------------------- MODULE RulesetStore -----------------------------
(***************************************************************************)
(* What a ruleset store promises (the RulesetStore interface of            *)
(* packages/server/src/store.ts), as MemoryRulesetStore keeps it: one      *)
(* ruleset per environment, replaced only by a compare-and-set on its      *)
(* revision.  Every operation is one uninterrupted step.                   *)
(***************************************************************************)
EXTENDS RulesetData

VARIABLE rulesets

Init == rulesets = Empty

Put(e, next, expected) ==
  /\ Verifies(rulesets[e], next, expected)
  /\ rulesets' = [rulesets EXCEPT ![e] = next]

Next ==
  \E e \in Envs, next \in Ruleset, expected \in Revisions \cup {None} :
    Put(e, next, expected)

Spec == Init /\ [][Next]_rulesets

===============================================================================
