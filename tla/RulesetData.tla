------------------------------ MODULE RulesetData ------------------------------
(***************************************************************************)
(* Rulesets as the stores and the clients compare them.  A ruleset is      *)
(* abstracted to its revision and a content; the revision is bounded       *)
(* because a valid ruleset carries a positive safe integer.                *)
(***************************************************************************)
EXTENDS Integers

CONSTANTS
  Envs,         \* the environments
  Contents,     \* what tells two rulesets of one revision apart
  MaxRevision,  \* Number.MAX_SAFE_INTEGER in the code, a small bound in a run
  None          \* no ruleset; also the null of expectedRevision

ASSUME MaxRevisionAssumption == MaxRevision \in Nat

Revisions == 1 .. MaxRevision

Ruleset == [revision : Revisions, content : Contents]

ASSUME NoneAssumption == None \notin Ruleset /\ None \notin Revisions

Rulesets == [Envs -> Ruleset \cup {None}]

Empty == [e \in Envs |-> None]

(***************************************************************************)
(* verifyRevision: the first ruleset of an environment has revision 1 and  *)
(* expects nothing; a later one names the revision it edited and carries   *)
(* the next one.                                                           *)
(***************************************************************************)
Verifies(current, next, expected) ==
  \/ /\ current = None
     /\ expected = None
     /\ next.revision = 1
  \/ /\ current # None
     /\ expected = current.revision
     /\ next.revision = current.revision + 1

(***************************************************************************)
(* a is b or a later revision of it.                                       *)
(***************************************************************************)
AtLeast(a, b) ==
  \/ b = None
  \/ a = b
  \/ a # None /\ a.revision > b.revision

Newest(a, b) == IF AtLeast(a, b) THEN a ELSE b

===============================================================================
