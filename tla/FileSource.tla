------------------------------ MODULE FileSource ------------------------------
(***************************************************************************)
(* A client on fileSource, packages/sdk/src/sources.ts: a file that people *)
(* replace or rewrite, a watcher that may miss it, a poll timer, and reads *)
(* that take time.  Of the client, packages/sdk/src/client.ts, it has what *)
(* accepting and refusing a ruleset do to its snapshot and its staleness;  *)
(* FlagClient has the rest.                                                *)
(***************************************************************************)
EXTENDS Naturals

CONSTANTS
  MaxRevision,  \* bound: revisions in the file
  Contents,     \* what tells two rulesets of one revision apart
  Refused,      \* JSON that is no valid ruleset for this client
  Unreadable,   \* no file, no JSON, or longer than maxBytes
  None

Rulesets == [revision : 1 .. MaxRevision, content : Contents]
Texts == Rulesets \cup {Refused, Unreadable}

ASSUME FileSourceAssumption ==
  /\ MaxRevision \in Nat
  /\ {Refused, Unreadable, None} \cap Rulesets = {}
  /\ None \notin Texts /\ Refused # Unreadable

VARIABLES
  file,     \* what the file holds
  reading,  \* the read that is under way: no, begun, or done
  text,     \* what it has read and not delivered yet
  watching, \* there is a watcher, and it has not failed
  changed,  \* the watcher has an event for the file
  closed,   \* the connection and the client are closed
  snapshot, \* what the client serves
  stale     \* whether the client calls it stale

client == <<snapshot, stale>>
vars == <<file, reading, text, watching, changed, closed, client>>

(***************************************************************************)
(* connect starts a first read.  The watcher is not wanted, or cannot be   *)
(* set up, or runs.                                                        *)
(***************************************************************************)
Init ==
  /\ file \in Texts
  /\ reading = "begun"
  /\ text = None
  /\ watching \in BOOLEAN
  /\ changed = FALSE
  /\ closed = FALSE
  /\ snapshot = None
  /\ stale = FALSE

-------------------------------------------------------------------------------
(* The file and its watcher                                                *)

(***************************************************************************)
(* A rename, or a part of a write in place; the system may report it.      *)
(***************************************************************************)
Write(content) ==
  /\ file' = content
  /\ changed' \in {changed, watching}
  /\ UNCHANGED <<reading, text, watching, closed, client>>

WatcherFails ==
  /\ watching
  /\ watching' = FALSE
  /\ UNCHANGED <<file, reading, text, changed, closed, client>>

-------------------------------------------------------------------------------
(* refresh                                                                 *)

(***************************************************************************)
(* A call while a read is under way joins it, whatever it has read.        *)
(***************************************************************************)
Refresh == reading' = IF reading = "no" /\ ~closed THEN "begun" ELSE reading

ChangeEvent ==
  /\ changed
  /\ ~closed
  /\ changed' = FALSE
  /\ Refresh
  /\ UNCHANGED <<file, text, watching, closed, client>>

\* Mutant: the timer is only for those who have no watcher.
PollUnlessWatching ==
  /\ ~closed
  /\ ~watching
  /\ Refresh
  /\ UNCHANGED <<file, text, watching, changed, closed, client>>

(***************************************************************************)
(* The timer, or the application's own refresh().                          *)
(***************************************************************************)
Poll ==
  /\ ~closed
  /\ Refresh
  /\ UNCHANGED <<file, text, watching, changed, closed, client>>

ReadFile ==
  /\ reading = "begun"
  /\ reading' = "done"
  /\ text' = file
  /\ UNCHANGED <<file, watching, changed, closed, client>>

(***************************************************************************)
(* The system refuses the read: onError, and the next refresh reads again. *)
(***************************************************************************)
ReadFails ==
  /\ reading = "begun"
  /\ reading' = "no"
  /\ UNCHANGED <<file, text, watching, changed, closed, client>>

-------------------------------------------------------------------------------
(* What the client makes of it                                             *)

Rejected(next) ==
  \/ next = Refused
  \/ /\ next \in Rulesets /\ snapshot # None
     /\ next.revision = snapshot.revision /\ next # snapshot

Older(next) ==
  next \in Rulesets /\ snapshot # None /\ next.revision < snapshot.revision

\* Mutant: whatever can be read shows that the source is healthy.
DeliverHealthy(next) ==
  /\ snapshot' = IF Rejected(next) \/ Older(next) \/ next = Unreadable
                 THEN snapshot ELSE next
  /\ stale' = (next = Unreadable /\ stale)

(***************************************************************************)
(* What cannot be read or is older is only reported; what is refused, or   *)
(* has changed without a new revision, makes the snapshot stale; anything  *)
(* else confirms it or replaces it.                                        *)
(***************************************************************************)
Deliver(next) ==
  CASE next = Unreadable \/ Older(next) -> UNCHANGED client
    [] Rejected(next) -> stale' = TRUE /\ UNCHANGED snapshot
    [] OTHER -> snapshot' = next /\ stale' = FALSE

FinishRead ==
  /\ reading = "done"
  /\ reading' = "no"
  /\ text' = None
  /\ IF closed THEN UNCHANGED client ELSE Deliver(text)
  /\ UNCHANGED <<file, watching, changed, closed>>

(***************************************************************************)
(* staleAfterMs have passed since the snapshot was last confirmed.         *)
(***************************************************************************)
CheckStaleness ==
  /\ ~closed
  /\ snapshot # None
  /\ ~stale
  /\ stale' = TRUE
  /\ UNCHANGED <<file, reading, text, watching, changed, closed, snapshot>>

Close ==
  /\ ~closed
  /\ closed' = TRUE
  /\ watching' = FALSE
  /\ changed' = FALSE
  /\ UNCHANGED <<file, reading, text, client>>

-------------------------------------------------------------------------------

Next ==
  \/ \E content \in Texts : Write(content)
  \/ WatcherFails
  \/ ChangeEvent \/ Poll \/ ReadFile \/ ReadFails \/ FinishRead
  \/ CheckStaleness
  \/ Close

Spec == Init /\ [][Next]_vars

(***************************************************************************)
(* The timers run, a read ends, and not every read fails.  Nothing is      *)
(* asked of the watcher.                                                   *)
(***************************************************************************)
FairSpec ==
  /\ Spec
  /\ WF_vars(Poll)
  /\ SF_vars(ReadFile)
  /\ WF_vars(FinishRead)
  /\ WF_vars(CheckStaleness)

-------------------------------------------------------------------------------
(* Properties                                                              *)

(***************************************************************************)
(* A ruleset that stays in the file is served in the end and confirmed     *)
(* again and again, whatever the watcher misses and whichever reads are    *)
(* joined; unless the client is at that revision or beyond with something  *)
(* else, and then it ends up stale.                                        *)
(***************************************************************************)
FileIsServed ==
  \A r \in Rulesets :
    <>[](file = r /\ ~closed) =>
      \/ <>[](snapshot = r) /\ []<>~stale
      \/ <>[](snapshot # None /\ snapshot # r /\ snapshot.revision >= r.revision /\ stale)

(***************************************************************************)
(* A client whose file is lost, broken or refused for good never serves    *)
(* its snapshot as current for ever.                                       *)
(***************************************************************************)
BrokenFileIsReported ==
  <>[](file \in {Refused, Unreadable} /\ ~closed) => <>[](snapshot = None \/ stale)

===============================================================================
