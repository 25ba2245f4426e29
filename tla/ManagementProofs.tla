--------------------------- MODULE ManagementProofs ---------------------------
(***************************************************************************)
(* Proofs about Management, for any number of writers, any number of       *)
(* retries and any bound on revisions.                                     *)
(***************************************************************************)
EXTENDS Management, TLAPS

(***************************************************************************)
(* What a call has read is what the store holds, or an earlier revision    *)
(* whose updates the store still contains.                                 *)
(***************************************************************************)
Preserved(r) ==
  /\ ruleset # None
  /\ r.revision <= ruleset.revision
  /\ r.content \subseteq ruleset.content
  /\ r.revision = ruleset.revision => r = ruleset

ReadInv ==
  \A u \in Updates :
    /\ current[u] # None => Preserved(current[u])
    /\ at[u] \in {"read", "putting"} => current[u] # None

(***************************************************************************)
(* A request on its way is the last its call made, and was never stored.   *)
(***************************************************************************)
RequestInv ==
  \A m \in requests :
    /\ at[m.call] \in {"putting", "unknown"}
    /\ response[m.call] = "none"
    /\ puts[m.call] = 0
    /\ m.call \in Updates => /\ current[m.call] # None
                             /\ m.next = Edited(m.call)
                             /\ m.expected = current[m.call].revision
    /\ m.call \in Creators => /\ m.next = [revision |-> 1, content |-> {m.call}]
                              /\ m.expected = None

(***************************************************************************)
(* A response says what happened to the request.                           *)
(***************************************************************************)
PutsInv ==
  \A c \in Calls :
    /\ puts[c] \in {0, 1}
    /\ puts[c] = 1 => ruleset # None /\ c \in ruleset.content
    /\ at[c] \notin {"putting", "unknown", "done"} => puts[c] = 0
    /\ at[c] = "done" => puts[c] = 1
    /\ response[c] = "200" => puts[c] = 1
    /\ response[c] = "409" => puts[c] = 0

(***************************************************************************)
(* Each attempt that ended in a conflict saw the store advance.            *)
(***************************************************************************)
ProgressInv ==
  \A u \in Updates :
    /\ at[u] = "uncalled" => attempt[u] = 0
    /\ at[u] = "reading" => StoredRevision - began[u] >= attempt[u]
    /\ at[u] \in {"read", "putting"} =>
         current[u].revision - began[u] >= attempt[u]
    /\ at[u] = "putting" /\ response[u] = "409" =>
         StoredRevision > current[u].revision
    /\ at[u] = "conflict" => StoredRevision - began[u] > Retries

ManagementInv ==
  /\ TypeOK
  /\ ReadInv
  /\ RequestInv
  /\ PutsInv
  /\ ProgressInv
  /\ OneCreatorWins

-------------------------------------------------------------------------------
(* Types                                                                   *)

\* A ruleset is a revision and a content.
LEMMA RulesetType ==
  ASSUME NEW r \in Ruleset
  PROVE  /\ r.revision \in 1 .. MaxRevision
         /\ r.revision \in Int
         /\ r.content \in SUBSET Calls
         /\ r # None
BY MaxRevisionAssumption, NoneAssumption, ManagementAssumption DEF Ruleset, Revisions

\* An edit below the bound is a ruleset, the next of what was read.
LEMMA EditedType ==
  ASSUME TypeOK, NEW u \in Updates, current[u] # None,
         current[u].revision < MaxRevision
  PROVE  /\ Edited(u) \in Ruleset
         /\ Edited(u).revision = current[u].revision + 1
         /\ Edited(u).content = current[u].content \cup {u}
         /\ current[u] \in Ruleset
<1>1. u \in Calls /\ current[u] \in Ruleset
  BY DEF TypeOK, Calls
<1>2. /\ current[u].revision + 1 \in Revisions
      /\ current[u].content \cup {u} \in Contents
  BY <1>1, RulesetType, MaxRevisionAssumption, ManagementAssumption DEF Revisions
<1> QED BY <1>1, <1>2 DEF Edited, Ruleset

\* A creation's ruleset is a ruleset.
LEMMA CreationType ==
  ASSUME NEW c \in Creators
  PROVE  [revision |-> 1, content |-> {c}] \in Ruleset
BY MaxRevisionAssumption, ManagementAssumption DEF Ruleset, Revisions, Calls

\* The stored revision is a number.
LEMMA StoredRevisionType ==
  ASSUME TypeOK
  PROVE  /\ StoredRevision \in 0 .. MaxRevision
         /\ StoredRevision \in Int
BY RulesetType, MaxRevisionAssumption DEF StoredRevision, TypeOK

-------------------------------------------------------------------------------
(* The steps of a caller                                                   *)

\* A new call keeps the invariant.
LEMMA CallUpdateStep ==
  ASSUME ManagementInv, NEW u \in Updates, CallUpdate(u)
  PROVE  ManagementInv'
<1> USE DEF ManagementInv, CallUpdate, Goes
<1>1. u \in Calls
  BY DEF Calls
<1>2. TypeOK'
  BY StoredRevisionType DEF TypeOK, Calls
<1>3. ReadInv' /\ OneCreatorWins'
  BY DEF ReadInv, Preserved, OneCreatorWins, TypeOK, Calls
<1>4. RequestInv'
  BY DEF RequestInv, Edited, TypeOK, Calls
<1>5. PutsInv'
  BY DEF PutsInv, TypeOK, Calls
<1>6. ProgressInv'
  BY StoredRevisionType DEF ProgressInv, StoredRevision, TypeOK, Calls
<1> QED BY <1>2, <1>3, <1>4, <1>5, <1>6

\* A read keeps the invariant.
LEMMA ReadStep ==
  ASSUME ManagementInv, NEW u \in Updates, Read(u)
  PROVE  ManagementInv'
<1> USE DEF ManagementInv, Read, Goes
<1>1. u \in Calls /\ ruleset \in Ruleset
  BY DEF Calls, TypeOK
<1>2. TypeOK'
  BY <1>1 DEF TypeOK
<1>3. ReadInv' /\ OneCreatorWins'
  BY <1>1, RulesetType DEF ReadInv, Preserved, OneCreatorWins, TypeOK, Calls
<1>4. RequestInv'
  <2>1. ASSUME NEW m \in requests
        PROVE  m.call \in Calls /\ m.call # u
    BY DEF RequestInv, TypeOK, Requests
  <2>2. ASSUME NEW m \in requests
        PROVE  /\ at'[m.call] = at[m.call]
               /\ current'[m.call] = current[m.call]
               /\ Edited(m.call)' = Edited(m.call)
    BY <1>1, <2>1 DEF TypeOK, Edited
  <2> QED BY <2>2 DEF RequestInv
<1>5. PutsInv'
  BY <1>1 DEF PutsInv, TypeOK
<1>6. ProgressInv'
  BY <1>1 DEF ProgressInv, StoredRevision, TypeOK, Calls
<1> QED BY <1>2, <1>3, <1>4, <1>5, <1>6

\* A call that gives up keeps the invariant.
LEMMA GivesUpStep ==
  ASSUME ManagementInv, NEW u \in Updates, GivesUp(u)
  PROVE  ManagementInv'
<1> USE DEF ManagementInv, GivesUp, Goes
<1>1. u \in Calls
  BY DEF Calls
<1>2. TypeOK'
  BY <1>1 DEF TypeOK, Settled
<1>3. ReadInv' /\ OneCreatorWins'
  BY <1>1 DEF ReadInv, Preserved, OneCreatorWins, TypeOK, Calls
<1>4. RequestInv'
  BY <1>1 DEF RequestInv, Edited, TypeOK, Calls
<1>5. PutsInv'
  BY <1>1 DEF PutsInv, TypeOK
<1>6. ProgressInv'
  BY <1>1 DEF ProgressInv, StoredRevision, TypeOK, Calls
<1> QED BY <1>2, <1>3, <1>4, <1>5, <1>6

(***************************************************************************)
(* What both publishing actions do to a call that has no request on its    *)
(* way.                                                                    *)
(***************************************************************************)
LEMMA SendStep ==
  ASSUME ManagementInv, NEW c \in Calls, NEW next \in Ruleset,
         NEW expected \in Revisions \cup {None},
         at[c] \in {"uncalled", "read"}, Send(c, next, expected),
         UNCHANGED <<ruleset, attempt, current, puts>>,
         c \in Updates => /\ current[c] # None
                          /\ next = Edited(c)
                          /\ expected = current[c].revision,
         c \in Creators => /\ next = [revision |-> 1, content |-> {c}]
                             /\ expected = None
  PROVE  /\ requests' \subseteq Requests
         /\ response' \in [Calls -> {"none", "200", "409"}]
         /\ at' \in [Calls -> Settled \cup {"uncalled", "reading", "read", "putting"}]
         /\ ReadInv'
         /\ RequestInv'
         /\ PutsInv'
         /\ OneCreatorWins'
<1> USE DEF ManagementInv, Send, Goes
<1>1. requests' \subseteq Requests
  BY DEF Requests, TypeOK
<1>2. /\ response' \in [Calls -> {"none", "200", "409"}]
      /\ at' \in [Calls -> Settled \cup {"uncalled", "reading", "read", "putting"}]
  BY DEF TypeOK
<1>3. ReadInv' /\ OneCreatorWins'
  BY DEF ReadInv, Preserved, OneCreatorWins, TypeOK, Calls
<1>4. puts[c] = 0
  BY DEF PutsInv
<1>5. RequestInv'
  <2> SUFFICES ASSUME NEW m \in requests'
               PROVE  /\ at'[m.call] \in {"putting", "unknown"}
                      /\ response'[m.call] = "none"
                      /\ puts'[m.call] = 0
                      /\ m.call \in Updates => /\ current'[m.call] # None
                                               /\ m.next = Edited(m.call)'
                                               /\ m.expected = current'[m.call].revision
                      /\ m.call \in Creators =>
                           /\ m.next = [revision |-> 1, content |-> {m.call}]
                           /\ m.expected = None
    BY DEF RequestInv
  <2>1. CASE m \in requests
    <3>1. m.call \in Calls
      BY <2>1 DEF TypeOK, Requests
    <3> QED BY <2>1, <3>1 DEF RequestInv, Edited, TypeOK
  <2>2. CASE m = [call |-> c, next |-> next, expected |-> expected]
    BY <1>4, <2>2 DEF TypeOK, Edited
  <2> QED BY <2>1, <2>2
<1>6. PutsInv'
  BY <1>4 DEF PutsInv, TypeOK
<1> QED BY <1>1, <1>2, <1>3, <1>5, <1>6

\* publishRuleset keeps the invariant.
LEMMA PublishStep ==
  ASSUME ManagementInv, NEW u \in Updates, Publish(u)
  PROVE  ManagementInv'
<1>1. /\ u \in Calls /\ u \notin Creators /\ at[u] = "read"
      /\ current[u] # None /\ current[u].revision < MaxRevision
      /\ UNCHANGED <<ruleset, attempt, current, puts, began>>
      /\ Send(u, Edited(u), current[u].revision)
  BY ManagementAssumption DEF ManagementInv, ReadInv, Publish, Calls
<1>2. /\ Edited(u) \in Ruleset /\ current[u] \in Ruleset
      /\ current[u].revision \in Revisions \cup {None}
  BY <1>1, EditedType DEF ManagementInv, Ruleset
<1>3. /\ requests' \subseteq Requests
      /\ response' \in [Calls -> {"none", "200", "409"}]
      /\ at' \in [Calls -> Settled \cup {"uncalled", "reading", "read", "putting"}]
      /\ ReadInv' /\ RequestInv' /\ PutsInv' /\ OneCreatorWins'
  BY <1>1, <1>2, SendStep
<1>4. TypeOK'
  BY <1>1, <1>3 DEF ManagementInv, TypeOK
<1>5. ProgressInv'
  BY <1>1 DEF ManagementInv, ProgressInv, StoredRevision, Send, Goes, TypeOK, Calls
<1> QED BY <1>3, <1>4, <1>5 DEF ManagementInv

\* createEnvironment keeps the invariant.
LEMMA CreateStep ==
  ASSUME ManagementInv, NEW c \in Creators, CreateEnvironment(c)
  PROVE  ManagementInv'
<1>1. /\ c \in Calls /\ c \notin Updates /\ at[c] = "uncalled"
      /\ UNCHANGED <<ruleset, attempt, current, puts>>
      /\ Send(c, [revision |-> 1, content |-> {c}], None)
      /\ began' = [began EXCEPT ![c] = StoredRevision]
  BY ManagementAssumption DEF CreateEnvironment, Calls
<1>2. /\ requests' \subseteq Requests
      /\ response' \in [Calls -> {"none", "200", "409"}]
      /\ at' \in [Calls -> Settled \cup {"uncalled", "reading", "read", "putting"}]
      /\ ReadInv' /\ RequestInv' /\ PutsInv' /\ OneCreatorWins'
  BY <1>1, CreationType, SendStep
<1>3. TypeOK'
  BY <1>1, <1>2, StoredRevisionType DEF ManagementInv, TypeOK
<1>4. ProgressInv'
  BY <1>1 DEF ManagementInv, ProgressInv, StoredRevision, Send, Goes, TypeOK, Calls
<1> QED BY <1>2, <1>3, <1>4 DEF ManagementInv

\* A 409 keeps the invariant.
LEMMA HearConflictStep ==
  ASSUME ManagementInv, NEW c \in Calls, HearConflict(c)
  PROVE  ManagementInv'
<1> USE DEF ManagementInv, Goes
<1>1. /\ at[c] = "putting" /\ response[c] = "409" /\ puts[c] = 0
      /\ UNCHANGED <<ruleset, current, requests, response, puts, began>>
      /\ \A m \in requests : m.call # c
  BY DEF HearConflict, PutsInv, RequestInv
<1>2. CASE c \in Updates /\ attempt[c] < Retries
  <2>1. /\ at' = [at EXCEPT ![c] = "reading"]
        /\ attempt' = [attempt EXCEPT ![c] = attempt[c] + 1]
    BY <1>2 DEF HearConflict
  <2>2. /\ attempt[c] \in Int /\ attempt[c] + 1 \in 0 .. Retries
        /\ current[c] \in Ruleset /\ began[c] \in Int
    BY <1>1, <1>2, ManagementAssumption DEF TypeOK, ReadInv
  <2>3. TypeOK'
    BY <1>1, <2>1, <2>2 DEF TypeOK
  <2>4. ReadInv' /\ OneCreatorWins'
    BY <1>1, <2>1 DEF ReadInv, Preserved, OneCreatorWins, TypeOK, Calls
  <2>5. RequestInv'
    BY <1>1, <2>1 DEF RequestInv, Edited, TypeOK, Requests
  <2>6. PutsInv'
    BY <1>1, <2>1 DEF PutsInv, TypeOK
  <2>7. StoredRevision - began[c] >= attempt[c] + 1
    BY <1>1, <1>2, <2>2, StoredRevisionType, RulesetType DEF ProgressInv
  <2>8. ProgressInv'
    BY <1>1, <2>1, <2>7 DEF ProgressInv, StoredRevision, TypeOK, Calls
  <2> QED BY <2>3, <2>4, <2>5, <2>6, <2>8
<1>3. CASE ~(c \in Updates /\ attempt[c] < Retries)
  <2>1. at' = [at EXCEPT ![c] = "conflict"] /\ attempt' = attempt
    BY <1>3 DEF HearConflict
  <2>2. TypeOK'
    BY <1>1, <2>1 DEF TypeOK, Settled
  <2>3. ReadInv' /\ OneCreatorWins'
    BY <1>1, <2>1 DEF ReadInv, Preserved, OneCreatorWins, TypeOK, Calls
  <2>4. RequestInv'
    BY <1>1, <2>1 DEF RequestInv, Edited, TypeOK, Requests
  <2>5. PutsInv'
    BY <1>1, <2>1 DEF PutsInv, TypeOK
  <2>6. c \in Updates => StoredRevision - began[c] > Retries
    <3> SUFFICES ASSUME c \in Updates
                 PROVE  StoredRevision - began[c] > Retries
      OBVIOUS
    <3>1. /\ attempt[c] = Retries /\ current[c] \in Ruleset /\ began[c] \in Int
      BY <1>1, <1>3, ManagementAssumption DEF TypeOK, ReadInv
    <3> QED BY <1>1, <3>1, StoredRevisionType, RulesetType, ManagementAssumption
            DEF ProgressInv
  <2>7. ProgressInv'
    BY <1>1, <2>1, <2>6 DEF ProgressInv, StoredRevision, TypeOK, Calls
  <2> QED BY <2>2, <2>3, <2>4, <2>5, <2>7
<1> QED BY <1>2, <1>3

\* A 200 keeps the invariant.
LEMMA HearStoredStep ==
  ASSUME ManagementInv, NEW c \in Calls, HearStored(c)
  PROVE  ManagementInv'
<1> USE DEF ManagementInv, HearStored, Goes
<1>1. puts[c] = 1 /\ \A m \in requests : m.call # c
  BY DEF PutsInv, RequestInv
<1>2. TypeOK'
  BY DEF TypeOK, Settled
<1>3. ReadInv' /\ OneCreatorWins'
  BY DEF ReadInv, Preserved, OneCreatorWins, TypeOK, Calls
<1>4. RequestInv'
  BY <1>1 DEF RequestInv, Edited, TypeOK, Requests
<1>5. PutsInv'
  BY <1>1 DEF PutsInv, TypeOK
<1>6. ProgressInv'
  BY DEF ProgressInv, StoredRevision, TypeOK, Calls
<1> QED BY <1>2, <1>3, <1>4, <1>5, <1>6

\* A timeout keeps the invariant.
LEMMA TimesOutStep ==
  ASSUME ManagementInv, NEW c \in Calls, TimesOut(c)
  PROVE  ManagementInv'
<1> USE DEF ManagementInv, TimesOut, Goes
<1>1. TypeOK'
  BY DEF TypeOK, Settled
<1>2. ReadInv' /\ OneCreatorWins'
  BY DEF ReadInv, Preserved, OneCreatorWins, TypeOK, Calls
<1>3. RequestInv'
  BY DEF RequestInv, Edited, TypeOK, Requests
<1>4. PutsInv'
  BY DEF PutsInv, TypeOK
<1>5. ProgressInv'
  BY DEF ProgressInv, StoredRevision, TypeOK, Calls
<1> QED BY <1>1, <1>2, <1>3, <1>4, <1>5

-------------------------------------------------------------------------------
(* The server and the network                                              *)

\* Losing a request or a response keeps the invariant.
LEMMA LoseStep ==
  ASSUME ManagementInv,
         \/ \E m \in requests : LoseRequest(m)
         \/ \E c \in Calls : LoseResponse(c)
  PROVE  ManagementInv'
<1> USE DEF ManagementInv
<1>1. /\ requests' \subseteq requests
      /\ UNCHANGED <<ruleset, at, attempt, current, puts, began>>
      /\ response' = response \/ \E c \in Calls : response' = [response EXCEPT ![c] = "none"]
  BY DEF LoseRequest, LoseResponse
<1>2. /\ response' \in [Calls -> {"none", "200", "409"}]
      /\ \A c \in Calls : response'[c] = response[c] \/ response'[c] = "none"
  BY <1>1 DEF TypeOK
<1>3. TypeOK' /\ ReadInv' /\ OneCreatorWins'
  BY <1>1, <1>2 DEF TypeOK, ReadInv, Preserved, OneCreatorWins
<1>4. RequestInv'
  BY <1>1, <1>2 DEF RequestInv, Edited, TypeOK, Requests
<1>5. PutsInv'
  BY <1>1, <1>2 DEF PutsInv
<1>6. ProgressInv'
  BY <1>1, <1>2 DEF ProgressInv, StoredRevision, Calls
<1> QED BY <1>3, <1>4, <1>5, <1>6

(***************************************************************************)
(* The heart of the matter: what the store takes contains what it holds.   *)
(* An update that verifies edited exactly that; a creation verifies only   *)
(* where there is nothing.                                                 *)
(***************************************************************************)
LEMMA VerifiedExtends ==
  ASSUME ManagementInv, NEW m \in requests,
         Verifies(ruleset, m.next, m.expected)
  PROVE  /\ m.call \in m.next.content
         /\ ruleset # None => /\ m.call \in Updates
                              /\ m.next.revision = ruleset.revision + 1
                              /\ ruleset.content \subseteq m.next.content
<1> USE DEF ManagementInv
<1>1. m.call \in Calls /\ m.next \in Ruleset
  BY DEF TypeOK, Requests
<1>2. CASE m.call \in Updates
  <2>1. /\ current[m.call] \in Ruleset /\ m.next = Edited(m.call)
        /\ m.expected = current[m.call].revision
        /\ Preserved(current[m.call])
    BY <1>1, <1>2 DEF RequestInv, ReadInv, TypeOK
  <2>2. ruleset # None /\ m.expected = ruleset.revision
    BY <2>1 DEF Preserved, Verifies
  <2>3. current[m.call] = ruleset
    BY <2>1, <2>2 DEF Preserved
  <2> QED BY <1>2, <2>1, <2>2, <2>3 DEF Verifies, Edited
<1>3. CASE m.call \in Creators
  <2>1. m.next = [revision |-> 1, content |-> {m.call}] /\ m.expected = None
    BY <1>3 DEF RequestInv
  <2>2. ruleset = None
    BY <2>1, RulesetType, NoneAssumption DEF Verifies, TypeOK, Ruleset
  <2> QED BY <2>1, <2>2
<1> QED BY <1>1, <1>2, <1>3 DEF Calls

\* A put that the store takes keeps the invariant.
LEMMA ServePutStored ==
  ASSUME ManagementInv, NEW m \in requests, ServePut(m),
         Verifies(ruleset, m.next, m.expected)
  PROVE  ManagementInv'
<1> USE DEF ManagementInv
<1>1. /\ m.call \in Calls /\ m.next \in Ruleset
      /\ requests' = requests \ {m} /\ ruleset' = m.next
      /\ response' = [response EXCEPT ![m.call] = "200"]
      /\ puts' = [puts EXCEPT ![m.call] = puts[m.call] + 1]
      /\ UNCHANGED <<at, attempt, current, began>>
  BY DEF ServePut, TypeOK, Requests
<1>2. /\ m.call \in m.next.content
      /\ ruleset # None => /\ m.call \in Updates
                           /\ m.next.revision = ruleset.revision + 1
                           /\ ruleset.content \subseteq m.next.content
  BY VerifiedExtends
<1>3. /\ puts[m.call] = 0 /\ at[m.call] \in {"putting", "unknown"}
      /\ puts'[m.call] = 1 /\ response'[m.call] = "200"
      /\ \A c \in Calls \ {m.call} : puts'[c] = puts[c] /\ response'[c] = response[c]
  <2>1. puts[m.call] = 0 /\ at[m.call] \in {"putting", "unknown"}
    BY DEF RequestInv
  <2>2. puts \in [Calls -> Nat] /\ response \in [Calls -> {"none", "200", "409"}]
    BY DEF TypeOK
  <2> QED BY <1>1, <2>1, <2>2
<1>4. TypeOK'
  BY <1>1 DEF TypeOK
<1>5. ruleset' # None /\ ruleset'.revision \in Int
  BY <1>1, RulesetType
<1>6. ASSUME NEW r \in Ruleset, Preserved(r)
      PROVE  Preserved(r)'
  BY <1>1, <1>2, <1>5, <1>6, RulesetType DEF Preserved, TypeOK
<1>7. ReadInv'
  <2> SUFFICES ASSUME NEW u \in Updates
               PROVE  /\ current'[u] # None => Preserved(current[u])'
                      /\ at'[u] \in {"read", "putting"} => current'[u] # None
    BY <1>1 DEF ReadInv
  <2>1. current'[u] # None => current[u] \in Ruleset /\ Preserved(current[u])
    BY <1>1 DEF ReadInv, TypeOK, Calls
  <2> QED BY <1>1, <1>6, <2>1 DEF ReadInv
<1>8. RequestInv'
  <2>1. ASSUME NEW n \in requests'
        PROVE  n \in requests /\ n.call \in Calls /\ n.call # m.call
    <3>1. n \in requests /\ n # m /\ n.call \in Calls
      BY <1>1 DEF TypeOK, Requests
    <3>2. n.call # m.call
      <4> SUFFICES ASSUME n.call = m.call
                   PROVE  FALSE
        OBVIOUS
      <4>1. n.next = m.next /\ n.expected = m.expected
        BY <1>1, <3>1 DEF RequestInv, Calls
      <4> QED BY <3>1, <4>1 DEF TypeOK, Requests
    <3> QED BY <3>1, <3>2
  <2> QED BY <1>1, <1>3, <2>1 DEF RequestInv, Edited
<1>9. PutsInv'
  <2> SUFFICES ASSUME NEW c \in Calls
               PROVE  /\ puts'[c] \in {0, 1}
                      /\ puts'[c] = 1 => ruleset' # None /\ c \in ruleset'.content
                      /\ at'[c] \notin {"putting", "unknown", "done"} => puts'[c] = 0
                      /\ at'[c] = "done" => puts'[c] = 1
                      /\ response'[c] = "200" => puts'[c] = 1
                      /\ response'[c] = "409" => puts'[c] = 0
    BY DEF PutsInv
  <2>1. CASE c = m.call
    BY <1>1, <1>2, <1>3, <1>5, <2>1
  <2>2. CASE c # m.call
    BY <1>1, <1>2, <1>3, <1>5, <2>2 DEF PutsInv
  <2> QED BY <2>1, <2>2
<1>10. /\ StoredRevision' = ruleset'.revision
       /\ StoredRevision' >= StoredRevision
       /\ StoredRevision' \in Int /\ StoredRevision \in Int
  BY <1>1, <1>2, <1>5, RulesetType, StoredRevisionType DEF StoredRevision, TypeOK
<1>11. ProgressInv'
  <2> SUFFICES ASSUME NEW u \in Updates
               PROVE  /\ at'[u] = "uncalled" => attempt'[u] = 0
                      /\ at'[u] = "reading" => StoredRevision' - began'[u] >= attempt'[u]
                      /\ at'[u] \in {"read", "putting"} =>
                           current'[u].revision - began'[u] >= attempt'[u]
                      /\ at'[u] = "putting" /\ response'[u] = "409" =>
                           StoredRevision' > current'[u].revision
                      /\ at'[u] = "conflict" => StoredRevision' - began'[u] > Retries
    BY DEF ProgressInv
  <2>1. /\ u \in Calls /\ began[u] \in Int /\ attempt[u] \in Int /\ Retries \in Int
        /\ at[u] = "putting" => current[u].revision \in Int
    BY RulesetType, ManagementAssumption, MaxRevisionAssumption
    DEF TypeOK, Calls, ReadInv
  <2>2. response'[u] = "409" => response[u] = "409"
    BY <1>3, <2>1
  <2> QED BY <1>1, <1>10, <2>1, <2>2 DEF ProgressInv
<1>12. OneCreatorWins'
  <2>1. CASE ruleset = None
    <3>1. \A c \in Calls : puts[c] = 0
      BY <2>1 DEF PutsInv
    <3>2. \A c \in Calls : puts'[c] > 0 => c = m.call
      BY <1>3, <3>1
    <3> QED BY <3>2 DEF OneCreatorWins, Calls
  <2>2. CASE ruleset # None
    <3>1. m.call \notin Creators
      BY <1>2, <2>2, ManagementAssumption
    <3>2. \A c \in Creators : puts'[c] = puts[c]
      BY <1>3, <3>1 DEF Calls
    <3> QED BY <3>2 DEF OneCreatorWins
  <2> QED BY <2>1, <2>2
<1> QED BY <1>4, <1>7, <1>8, <1>9, <1>11, <1>12

\* A put that the store refuses keeps the invariant.
LEMMA ServePutRefused ==
  ASSUME ManagementInv, NEW m \in requests, ServePut(m),
         ~Verifies(ruleset, m.next, m.expected)
  PROVE  ManagementInv'
<1> USE DEF ManagementInv
<1>1. /\ m.call \in Calls /\ m.next \in Ruleset
      /\ requests' = requests \ {m}
      /\ response' = [response EXCEPT ![m.call] = "409"]
      /\ UNCHANGED <<ruleset, puts, at, attempt, current, began>>
  BY DEF ServePut, TypeOK, Requests
<1>2. puts[m.call] = 0 /\ at[m.call] \in {"putting", "unknown"}
  BY DEF RequestInv
<1>3. TypeOK' /\ ReadInv' /\ OneCreatorWins'
  BY <1>1 DEF TypeOK, ReadInv, Preserved, OneCreatorWins
<1>4. RequestInv'
  <2>1. ASSUME NEW n \in requests'
        PROVE  n \in requests /\ n.call \in Calls /\ n.call # m.call
    <3>1. n \in requests /\ n # m /\ n.call \in Calls
      BY <1>1 DEF TypeOK, Requests
    <3>2. n.call # m.call
      <4> SUFFICES ASSUME n.call = m.call
                   PROVE  FALSE
        OBVIOUS
      <4>1. n.next = m.next /\ n.expected = m.expected
        BY <1>1, <3>1 DEF RequestInv, Calls
      <4> QED BY <3>1, <4>1 DEF TypeOK, Requests
    <3> QED BY <3>1, <3>2
  <2>2. \A c \in Calls \ {m.call} : response'[c] = response[c]
    BY <1>1 DEF TypeOK
  <2> QED BY <1>1, <2>1, <2>2 DEF RequestInv, Edited
<1>5. PutsInv'
  BY <1>1, <1>2 DEF PutsInv, TypeOK
<1>6. m.call \in Updates => StoredRevision > current[m.call].revision
  <2> SUFFICES ASSUME m.call \in Updates
               PROVE  StoredRevision > current[m.call].revision
    OBVIOUS
  <2>1. /\ current[m.call] \in Ruleset /\ m.next = Edited(m.call)
        /\ m.expected = current[m.call].revision
        /\ Preserved(current[m.call])
    BY <1>1 DEF RequestInv, ReadInv, TypeOK
  <2>2. m.next.revision = current[m.call].revision + 1
    BY <2>1 DEF Edited
  <2>3. ruleset \in Ruleset /\ ruleset.revision # current[m.call].revision
    BY <2>1, <2>2 DEF Verifies, Preserved, TypeOK
  <2> QED BY <2>1, <2>3, RulesetType DEF Preserved, StoredRevision
<1>7. ProgressInv'
  BY <1>1, <1>6 DEF ProgressInv, StoredRevision, TypeOK, Calls
<1> QED BY <1>3, <1>4, <1>5, <1>7

-------------------------------------------------------------------------------
(* The theorems                                                            *)

\* The first state satisfies the inductive invariant.
LEMMA ManagementInit ==
  ASSUME Init
  PROVE  ManagementInv
<1>1. TypeOK
  BY MaxRevisionAssumption, ManagementAssumption DEF Init, TypeOK
<1>2. ReadInv /\ RequestInv /\ OneCreatorWins
  BY DEF Init, ReadInv, RequestInv, OneCreatorWins, Calls
<1>3. PutsInv /\ ProgressInv
  BY DEF Init, PutsInv, ProgressInv, Calls
<1> QED BY <1>1, <1>2, <1>3 DEF ManagementInv

\* Every step keeps the inductive invariant.
LEMMA ManagementStep ==
  ASSUME ManagementInv, [Next]_vars
  PROVE  ManagementInv'
<1>1. CASE UNCHANGED vars
  BY <1>1 DEF vars, ManagementInv, TypeOK, ReadInv, Preserved, RequestInv, Edited,
              PutsInv, ProgressInv, StoredRevision, OneCreatorWins
<1>2. ASSUME NEW m \in requests, ServePut(m)
      PROVE  ManagementInv'
  BY <1>2, ServePutStored, ServePutRefused
<1> QED BY <1>1, <1>2, CallUpdateStep, ReadStep, GivesUpStep, PublishStep, CreateStep,
           HearConflictStep, HearStoredStep, TimesOutStep, LoseStep DEF Next

(***************************************************************************)
(* The inductive invariant of the management clients and the server.       *)
(***************************************************************************)
THEOREM ManagementCorrect == Spec => []ManagementInv
<1> QED BY ManagementInit, ManagementStep, PTL DEF Spec

(***************************************************************************)
(* The variables keep their types, for any number of calls and retries.    *)
(***************************************************************************)
THEOREM TypeCorrect == Spec => []TypeOK
<1>1. ManagementInv => TypeOK
  BY DEF ManagementInv
<1> QED BY <1>1, ManagementCorrect, PTL

(***************************************************************************)
(* A resolved call was stored once and is in every later ruleset; one that *)
(* ended in a conflict, or failed before its request, was never stored.    *)
(***************************************************************************)
THEOREM OutcomesCorrect == Spec => []OutcomesAreTrue
<1>1. ManagementInv => OutcomesAreTrue
  BY DEF ManagementInv, PutsInv, OutcomesAreTrue
<1> QED BY <1>1, ManagementCorrect, PTL

(***************************************************************************)
(* For any number of retries, update gives up on conflicts only after as   *)
(* many rulesets of others as it made attempts.                            *)
(***************************************************************************)
THEOREM ConflictsCorrect == Spec => []ConflictMeansProgress
<1>1. ManagementInv => ConflictMeansProgress
  BY DEF ManagementInv, ProgressInv, ConflictMeansProgress
<1> QED BY <1>1, ManagementCorrect, PTL

(***************************************************************************)
(* However many calls race to create the environment, at most one is       *)
(* stored.                                                                 *)
(***************************************************************************)
THEOREM CreationsCorrect == Spec => []OneCreatorWins
<1>1. ManagementInv => OneCreatorWins
  BY DEF ManagementInv
<1> QED BY <1>1, ManagementCorrect, PTL

\* Every step keeps the content of what was stored.
LEMMA KeepsUpdatesStep ==
  ASSUME ManagementInv, [Next]_vars, ruleset # None
  PROVE  ruleset' # None /\ ruleset.content \subseteq ruleset'.content
<1>1. ASSUME NEW m \in requests, ServePut(m)
      PROVE  ruleset' # None /\ ruleset.content \subseteq ruleset'.content
  <2>1. CASE Verifies(ruleset, m.next, m.expected)
    <3>1. ruleset' = m.next /\ m.next \in Ruleset
      BY <1>1, <2>1 DEF ServePut, ManagementInv, TypeOK, Requests
    <3> QED BY <2>1, <3>1, VerifiedExtends, RulesetType
  <2>2. CASE ~Verifies(ruleset, m.next, m.expected)
    BY <1>1, <2>2 DEF ServePut
  <2> QED BY <2>1, <2>2
<1>2. CASE UNCHANGED ruleset
  BY <1>2
<1>3. UNCHANGED ruleset \/ \E m \in requests : ServePut(m)
  BY DEF Next, vars, CallUpdate, Read, GivesUp, Publish, CreateEnvironment,
         HearConflict, HearStored, TimesOut, LoseRequest, LoseResponse
<1> QED BY <1>1, <1>2, <1>3

(***************************************************************************)
(* However many writers race, retry and time out, no stored ruleset drops  *)
(* an update that an earlier one contained.                                *)
(***************************************************************************)
THEOREM NothingLost == Spec => NoUpdateIsLost
<1>1. ManagementInv /\ [Next]_vars =>
        [ruleset # None => /\ ruleset' # None
                           /\ ruleset.content \subseteq ruleset'.content]_vars
  BY KeepsUpdatesStep
<1> QED BY <1>1, ManagementCorrect, PTL DEF Spec, NoUpdateIsLost

===============================================================================
