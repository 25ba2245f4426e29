------------------------------ MODULE Management ------------------------------
(***************************************************************************)
(* Many writers edit one environment through the management client,        *)
(* packages/management/src/index.ts: update reads the ruleset, applies its *)
(* mutation to a copy and publishes it with If-Match; a 409 makes it start *)
(* again, any other failure is thrown.  Requests and responses are lost or *)
(* late, so a request may reach the server after its caller has given up.  *)
(*                                                                         *)
(* A content is the set of the updates it contains.  The server's PUT is   *)
(* a put of the store, RulesetStore, which FileRulesetStore implements.    *)
(***************************************************************************)
EXTENDS RulesetData

CONSTANTS
  Updates,   \* calls of update, and of what is built on it
  Creators,  \* calls of createEnvironment
  Retries    \* options.retries

Calls == Updates \cup Creators

ASSUME ManagementAssumption ==
  /\ Contents = SUBSET Calls
  /\ Updates \cap Creators = {}
  /\ Retries \in Nat
  /\ MaxRevision # 0

VARIABLES
  ruleset,   \* the environment's ruleset in the store
  at,        \* where each call stands
  attempt,   \* update's attempt
  current,   \* what its getRuleset returned
  requests,  \* PUT requests on their way to the server
  response,  \* the response to a call's PUT
  puts,      \* how often a call's ruleset was stored
  began      \* the stored revision when the call was made

vars == <<ruleset, at, attempt, current, requests, response, puts, began>>

Settled == {"done", "conflict", "failed", "unknown"}

Requests == [call : Calls, next : Ruleset, expected : Revisions \cup {None}]

Init ==
  /\ ruleset = None
  /\ at = [c \in Calls |-> "uncalled"]
  /\ attempt = [c \in Calls |-> 0]
  /\ current = [c \in Calls |-> None]
  /\ requests = {}
  /\ response = [c \in Calls |-> "none"]
  /\ puts = [c \in Calls |-> 0]
  /\ began = [c \in Calls |-> 0]

Goes(c, where) == at' = [at EXCEPT ![c] = where]

StoredRevision == IF ruleset = None THEN 0 ELSE ruleset.revision

-------------------------------------------------------------------------------
(* update                                                                  *)

CallUpdate(u) ==
  /\ at[u] = "uncalled"
  /\ Goes(u, "reading")
  /\ began' = [began EXCEPT ![u] = StoredRevision]
  /\ UNCHANGED <<ruleset, attempt, current, requests, response, puts>>

(***************************************************************************)
(* getRuleset: what the server read is what arrives, however late.         *)
(***************************************************************************)
Read(u) ==
  /\ at[u] = "reading"
  /\ ruleset # None
  /\ current' = [current EXCEPT ![u] = ruleset]
  /\ Goes(u, "read")
  /\ UNCHANGED <<ruleset, attempt, requests, response, puts, began>>

(***************************************************************************)
(* getRuleset throws, also when there is no ruleset; or the mutation does. *)
(***************************************************************************)
GivesUp(u) ==
  /\ at[u] \in {"reading", "read"}
  /\ Goes(u, "failed")
  /\ UNCHANGED <<ruleset, attempt, current, requests, response, puts, began>>

Edited(u) == [revision |-> current[u].revision + 1,
              content |-> current[u].content \cup {u}]

Send(c, next, expected) ==
  /\ requests' = requests \cup {[call |-> c, next |-> next, expected |-> expected]}
  /\ response' = [response EXCEPT ![c] = "none"]
  /\ Goes(c, "putting")

\* Mutant: publish on top of whatever the server holds now.
PublishUnconditionally(u) ==
  /\ at[u] = "read"
  /\ current[u].revision < MaxRevision
  /\ Send(u, [Edited(u) EXCEPT !.revision = StoredRevision + 1], StoredRevision)
  /\ UNCHANGED <<ruleset, attempt, current, puts, began>>

(***************************************************************************)
(* publishRuleset of the edited copy, unless assertRuleset refuses its     *)
(* revision.                                                               *)
(***************************************************************************)
Publish(u) ==
  /\ at[u] = "read"
  /\ current[u].revision < MaxRevision
  /\ Send(u, Edited(u), current[u].revision)
  /\ UNCHANGED <<ruleset, attempt, current, puts, began>>

\* Mutant: publish again what was read before the conflict.
RetryWithoutReading(c) ==
  /\ at[c] = "putting"
  /\ response[c] = "409"
  /\ IF c \in Updates /\ attempt[c] < Retries
     THEN Goes(c, "read") /\ attempt' = [attempt EXCEPT ![c] = @ + 1]
     ELSE Goes(c, "conflict") /\ UNCHANGED attempt
  /\ UNCHANGED <<ruleset, current, requests, response, puts, began>>

(***************************************************************************)
(* The response arrives.  Only a 409 is retried, and only by update.       *)
(***************************************************************************)
HearConflict(c) ==
  /\ at[c] = "putting"
  /\ response[c] = "409"
  /\ IF c \in Updates /\ attempt[c] < Retries
     THEN Goes(c, "reading") /\ attempt' = [attempt EXCEPT ![c] = @ + 1]
     ELSE Goes(c, "conflict") /\ UNCHANGED attempt
  /\ UNCHANGED <<ruleset, current, requests, response, puts, began>>

HearStored(c) ==
  /\ at[c] = "putting"
  /\ response[c] = "200"
  /\ Goes(c, "done")
  /\ UNCHANGED <<ruleset, attempt, current, requests, response, puts, began>>

\* Mutant: a timeout is retried like a conflict.
RetryAfterTimeout(c) ==
  /\ at[c] = "putting"
  /\ IF c \in Updates /\ attempt[c] < Retries
     THEN Goes(c, "reading") /\ attempt' = [attempt EXCEPT ![c] = @ + 1]
     ELSE Goes(c, "unknown") /\ UNCHANGED attempt
  /\ UNCHANGED <<ruleset, current, requests, response, puts, began>>

(***************************************************************************)
(* request throws: a timeout or a network error.                           *)
(***************************************************************************)
TimesOut(c) ==
  /\ at[c] = "putting"
  /\ Goes(c, "unknown")
  /\ UNCHANGED <<ruleset, attempt, current, requests, response, puts, began>>

-------------------------------------------------------------------------------
(* createEnvironment                                                       *)

CreateEnvironment(c) ==
  /\ at[c] = "uncalled"
  /\ Send(c, [revision |-> 1, content |-> {c}], None)
  /\ began' = [began EXCEPT ![c] = StoredRevision]
  /\ UNCHANGED <<ruleset, attempt, current, puts>>

-------------------------------------------------------------------------------
(* The server and the network                                              *)

(***************************************************************************)
(* handle, PUT: 200 or 201 if the store takes it, 409 if its revision does *)
(* not verify.                                                             *)
(***************************************************************************)
ServePut(m) ==
  /\ m \in requests
  /\ requests' = requests \ {m}
  /\ IF Verifies(ruleset, m.next, m.expected)
     THEN /\ ruleset' = m.next
          /\ response' = [response EXCEPT ![m.call] = "200"]
          /\ puts' = [puts EXCEPT ![m.call] = @ + 1]
     ELSE /\ response' = [response EXCEPT ![m.call] = "409"]
          /\ UNCHANGED <<ruleset, puts>>
  /\ UNCHANGED <<at, attempt, current, began>>

LoseRequest(m) ==
  /\ m \in requests
  /\ requests' = requests \ {m}
  /\ UNCHANGED <<ruleset, at, attempt, current, response, puts, began>>

LoseResponse(c) ==
  /\ response[c] # "none"
  /\ response' = [response EXCEPT ![c] = "none"]
  /\ UNCHANGED <<ruleset, at, attempt, current, requests, puts, began>>

-------------------------------------------------------------------------------

Next ==
  \/ \E u \in Updates :
       CallUpdate(u) \/ Read(u) \/ GivesUp(u) \/ Publish(u)
  \/ \E c \in Creators : CreateEnvironment(c)
  \/ \E c \in Calls :
       HearConflict(c) \/ HearStored(c) \/ TimesOut(c) \/ LoseResponse(c)
  \/ \E m \in requests : ServePut(m) \/ LoseRequest(m)

Spec == Init /\ [][Next]_vars

-------------------------------------------------------------------------------
(* Properties                                                              *)

(***************************************************************************)
(* No call makes more attempts than options.retries allows, and no request *)
(* names a revision that is not one.                                       *)
(***************************************************************************)
TypeOK ==
  /\ ruleset \in Ruleset \cup {None}
  /\ at \in [Calls -> Settled \cup {"uncalled", "reading", "read", "putting"}]
  /\ attempt \in [Calls -> 0 .. Retries]
  /\ current \in [Calls -> Ruleset \cup {None}]
  /\ requests \subseteq Requests
  /\ response \in [Calls -> {"none", "200", "409"}]
  /\ puts \in [Calls -> Nat]
  /\ began \in [Calls -> 0 .. MaxRevision]

(***************************************************************************)
(* packages/management/README.md:31: conflicts are retried "without        *)
(* silently overwriting another writer".  Every ruleset contains all that  *)
(* were stored before it, whoever wrote it and however late its request.   *)
(***************************************************************************)
NoUpdateIsLost ==
  [][ruleset # None =>
       /\ ruleset' # None
       /\ ruleset.content \subseteq ruleset'.content]_vars

(***************************************************************************)
(* What a caller is told is true, after any number of conflicts: a call    *)
(* that resolves was stored once, one that ends in a conflict or before    *)
(* its request never, and one that times out at most once.                 *)
(***************************************************************************)
OutcomesAreTrue ==
  \A c \in Calls :
    /\ puts[c] <= 1
    /\ at[c] = "done" => puts[c] = 1 /\ ruleset # None /\ c \in ruleset.content
    /\ at[c] \in {"conflict", "failed"} => puts[c] = 0

(***************************************************************************)
(* update gives up on conflicts only if, for each of its attempts, another *)
(* writer's ruleset was stored since the call.                             *)
(***************************************************************************)
ConflictMeansProgress ==
  \A u \in Updates :
    at[u] = "conflict" => StoredRevision - began[u] > Retries

(***************************************************************************)
(* One creation of an environment wins.                                    *)
(***************************************************************************)
OneCreatorWins ==
  \A c, d \in Creators : puts[c] > 0 /\ puts[d] > 0 => c = d

===============================================================================
