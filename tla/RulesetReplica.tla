---------------------------- MODULE RulesetReplica ----------------------------
(***************************************************************************)
(* What delivery promises: every client serves a revision the store holds  *)
(* or held, and moves only forward, to the newest or to one in between.    *)
(***************************************************************************)
EXTENDS Integers

CONSTANTS Clients, MaxRevision

ASSUME LastRevisionAssumption == MaxRevision \in Nat

VARIABLES
  stored,   \* the newest revision, 0 before the first
  snapshot  \* the revision each client serves, 0 before the first

Init == stored = 0 /\ snapshot = [c \in Clients |-> 0]

Publish ==
  /\ stored < MaxRevision
  /\ stored' = stored + 1
  /\ UNCHANGED snapshot

CatchUp(c) ==
  /\ \E r \in snapshot[c] + 1 .. stored : snapshot' = [snapshot EXCEPT ![c] = r]
  /\ UNCHANGED stored

Next == Publish \/ \E c \in Clients : CatchUp(c)

Spec == Init /\ [][Next]_<<stored, snapshot>>

===============================================================================
