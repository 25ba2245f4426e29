--------------------------- MODULE FlagClientProofs ---------------------------
(***************************************************************************)
(* Proofs about FlagClient, for every set of environments, contents and    *)
(* waiters, every bound on revisions and all options.                      *)
(***************************************************************************)
EXTENDS FlagClient, TLAPS

\* What remains of a queue of saves are saves.
LEMMA TailType ==
  ASSUME NEW T, NEW s \in Seq(T), s # << >>
  PROVE  /\ Tail(s) \in Seq(T)
         /\ Head(s) \in T
         /\ Len(s) \in Nat \ {0}
         /\ Head(s) = s[1]
         /\ Len(Tail(s)) = Len(s) - 1
         /\ \A i \in 1 .. Len(s) - 1 : Tail(s)[i] = s[i + 1]
  OBVIOUS

\* A save joins the queue.
LEMMA AppendType ==
  ASSUME NEW T, NEW s \in Seq(T), NEW e \in T
  PROVE  /\ Append(s, e) \in Seq(T)
         /\ Append(s, e) # << >>
         /\ Len(Append(s, e)) = Len(s) + 1
         /\ Len(s) \in Nat
         /\ Append(s, e)[Len(Append(s, e))] = e
         /\ \A i \in 1 .. Len(s) : Append(s, e)[i] = s[i]
  OBVIOUS

\* The bootstrap is accepted or there is none.
LEMMA BootedType ==
  ASSUME NEW b
  PROVE  Booted(b) \in Snapshots \cup {None}
BY DEF Booted

\* getStatus returns a status.
LEMMA StatusType ==
  ASSUME NEW s, NEW t \in BOOLEAN
  PROVE  Status(s, t) \in [ready : BOOLEAN, stale : BOOLEAN]
BY DEF Status

Confirms ==
  /\ sourceName' = "live"
  /\ ConfirmHealthy
  /\ UNCHANGED <<snapshot, waiter, writes>>

(***************************************************************************)
(* What acceptSnapshot may do: refuse, ignore, confirm or replace.         *)
(***************************************************************************)
LEMMA AcceptCases ==
  ASSUME NEW s, NEW from \in {"cache", "live"}, AcceptSnapshot(s, from)
  PROVE  \/ Rejects(s) /\ Reject
         \/ ~Rejects(s) /\ Older(s) /\ Ignore
         \/ ~Rejects(s) /\ s = snapshot /\ from = "live" /\ Confirms
         \/ ~Rejects(s) /\ s = snapshot /\ from = "cache" /\ Ignore
         \/ ~Rejects(s) /\ Newer(s) /\ Replace(s, from)
<1>1. CASE from = "live"
  BY <1>1 DEF AcceptSnapshot, Confirms
<1>2. CASE from = "cache"
  BY <1>2 DEF AcceptSnapshot
<1> QED BY <1>1, <1>2

\* acceptSnapshot keeps the types of what it writes.
LEMMA AcceptType ==
  ASSUME TypeOK, NEW s, NEW from \in {"cache", "live"}, AcceptSnapshot(s, from)
  PROVE  /\ snapshot' \in Snapshots \cup {None}
         /\ sourceName' \in {"none", "bootstrap", "cache", "live"}
         /\ confirmed' \in {"never", "recent", "expired"}
         /\ stale' \in BOOLEAN
         /\ waiter' \in [Waiters -> {"none", "waiting", "resolved", "rejected"}]
         /\ writes' \in Seq(Snapshots)
         /\ observed' \in [ready : BOOLEAN, stale : BOOLEAN]
<1>1. CASE Reject
  BY <1>1, StatusType DEF Reject, TypeOK
<1>2. CASE Ignore
  BY <1>2 DEF Ignore, TypeOK
<1>3. CASE Confirms
  BY <1>3, StatusType DEF Confirms, ConfirmHealthy, TypeOK
<1>4. CASE ~Rejects(s) /\ Replace(s, from)
  <2>1. s \in Snapshots
    BY <1>4 DEF Rejects, ForThisClient
  <2>2. stale' \in BOOLEAN /\ observed' = Status(s, stale')
    BY <1>4 DEF Replace
  <2>3. writes' \in Seq(Snapshots)
    BY <1>4, <2>1, AppendType DEF Replace, TypeOK
  <2>4. observed' \in [ready : BOOLEAN, stale : BOOLEAN]
    BY <2>2, StatusType
  <2>5. waiter' \in [Waiters -> {"none", "waiting", "resolved", "rejected"}]
    BY <1>4 DEF Replace, ResolveWaiters, TypeOK
  <2> QED BY <1>4, <2>1, <2>2, <2>3, <2>4, <2>5 DEF Replace
<1>5. Reject \/ Ignore \/ Confirms \/ (~Rejects(s) /\ Replace(s, from))
  BY AcceptCases
<1> QED BY <1>1, <1>2, <1>3, <1>4, <1>5

\* Every step keeps the types.
LEMMA TypeStep ==
  ASSUME TypeOK, [Next]_vars
  PROVE  TypeOK'
<1>1. CASE Loaded
  <2>1. initializing' \in {"connecting", "done"} /\ loadFailed' \in BOOLEAN
    BY <1>1, Zenon DEF Loaded, Rejects, TypeOK
  <2>2. CASE closed \/ cacheFile = None
    BY <1>1, <2>1, <2>2 DEF Loaded, Ignore, TypeOK
  <2>3. CASE ~(closed \/ cacheFile = None)
    BY <1>1, <2>1, <2>3, AcceptType DEF Loaded, TypeOK
  <2> QED BY <2>2, <2>3
<1>2. CASE LoadFails
  BY <1>2 DEF LoadFails, Ignore, TypeOK
<1>3. CASE ConnectReturns
  BY <1>3 DEF ConnectReturns, Ignore, TypeOK
<1>4. CASE ConnectThrows
  BY <1>4 DEF ConnectThrows, Ignore, TypeOK
<1>5. ASSUME NEW s \in Snapshots \cup {Invalid}, OnSnapshot(s)
      PROVE  TypeOK'
  <2>1. accepted' \in BOOLEAN
    BY <1>5, Zenon DEF OnSnapshot, TypeOK
  <2>2. initializing' \in {"loading", "connecting", "heard", "done"}
    BY <1>5 DEF OnSnapshot, Heard, TypeOK
  <2>3. AcceptSnapshot(s, "live")
    BY <1>5 DEF OnSnapshot
  <2>4. /\ snapshot' \in Snapshots \cup {None}
        /\ sourceName' \in {"none", "bootstrap", "cache", "live"}
        /\ confirmed' \in {"never", "recent", "expired"}
        /\ stale' \in BOOLEAN
        /\ waiter' \in [Waiters -> {"none", "waiting", "resolved", "rejected"}]
        /\ writes' \in Seq(Snapshots)
        /\ observed' \in [ready : BOOLEAN, stale : BOOLEAN]
    BY <2>3, AcceptType, Zenon
  <2> QED BY <1>5, <2>1, <2>2, <2>4 DEF OnSnapshot, TypeOK
<1>6. CASE OnHealthy
  <2>1. observed' \in [ready : BOOLEAN, stale : BOOLEAN]
    BY <1>6, StatusType DEF OnHealthy, ConfirmHealthy, TypeOK
  <2>2. initializing' \in {"loading", "connecting", "heard", "done"}
    BY <1>6 DEF OnHealthy, Heard, TypeOK
  <2> QED BY <1>6, <2>1, <2>2 DEF OnHealthy, ConfirmHealthy, TypeOK
<1>7. CASE ConfirmationExpires
  BY <1>7 DEF ConfirmationExpires, TypeOK
<1>8. CASE CheckStaleness
  <2>1. stale' = TRUE /\ observed' = Status(snapshot, TRUE)
    BY <1>8 DEF CheckStaleness
  <2>2. observed' \in [ready : BOOLEAN, stale : BOOLEAN]
    BY <2>1, StatusType
  <2>3. UNCHANGED <<snapshot, sourceName, confirmed, closed, closing,
                    initializing, connection, waiter, writes, accepted,
                    saveFailed, loadFailed, bootstrap, cacheFile>>
    BY <1>8 DEF CheckStaleness
  <2>4. stale' \in BOOLEAN
    BY <2>1
  <2> QED BY <2>2, <2>3, <2>4 DEF TypeOK
<1>9. ASSUME NEW w \in Waiters, WaitUntilReady(w) \/ WaiterTimesOut(w)
      PROVE  TypeOK'
  BY <1>9 DEF WaitUntilReady, WaiterTimesOut, SetWaiter, TypeOK
<1>10. CASE Save
  <2>1. SaveSettles(Head(writes), FALSE) /\ writes # << >>
    BY <1>10 DEF Save
  <2>2. /\ saveFailed' = FALSE /\ writes' = Tail(writes) /\ cacheFile' = Head(writes)
        /\ UNCHANGED <<snapshot, sourceName, confirmed, stale, closed, closing,
                       initializing, connection, waiter, accepted, loadFailed,
                       observed, bootstrap>>
    BY <2>1 DEF SaveSettles
  <2>3. saveFailed' \in BOOLEAN
    BY <2>2
  <2>4. writes' \in Seq(Snapshots) /\ cacheFile' \in Snapshots
    BY <2>1, <2>2, TailType DEF TypeOK
  <2> QED BY <2>2, <2>3, <2>4 DEF TypeOK
<1>11. CASE SaveFails
  BY <1>11, TailType DEF SaveFails, SaveSettles, TypeOK
<1>12. CASE Close
  BY <1>12 DEF Close, TypeOK
<1>13. CASE AwaitsInitialization
  BY <1>13 DEF AwaitsInitialization, TypeOK
<1>14. CASE AwaitsWrites
  BY <1>14 DEF AwaitsWrites, TypeOK
<1>16. ASSUME NEW b \in Bootstraps, Restart(b)
       PROVE  TypeOK'
  <2>1. stale' \in BOOLEAN /\ observed' = Status(Booted(b), stale')
    BY <1>16 DEF Restart
  <2>2. writes' \in Seq(Snapshots)
    BY <1>16 DEF Restart
  <2>3. observed' \in [ready : BOOLEAN, stale : BOOLEAN]
    BY <2>1, StatusType
  <2>4. snapshot' \in Snapshots \cup {None}
    BY <1>16, BootedType DEF Restart
  <2>5. /\ sourceName' \in {"none", "bootstrap"}
        /\ confirmed' \in {"never", "recent"}
        /\ initializing' \in {"loading", "connecting"}
    BY <1>16 DEF Restart
  <2>6. waiter' \in [Waiters -> {"none", "waiting", "resolved", "rejected"}]
    BY <1>16 DEF Restart
  <2> QED BY <1>16, <2>1, <2>2, <2>3, <2>4, <2>5, <2>6 DEF Restart, TypeOK
<1>17. CASE UNCHANGED vars
  BY <1>17 DEF vars, process, TypeOK
<1> QED BY <1>1, <1>2, <1>3, <1>4, <1>5, <1>6, <1>7, <1>8, <1>9, <1>10, <1>11,
           <1>12, <1>13, <1>14, <1>16, <1>17 DEF Next

\* The first client of a process has the types.
LEMMA TypeInit ==
  ASSUME Init
  PROVE  TypeOK
<1>1. stale \in BOOLEAN /\ writes \in Seq(Snapshots)
  BY DEF Init
<1> QED BY <1>1, BootedType, StatusType DEF Init, TypeOK

(***************************************************************************)
(* The client's variables keep their types, whatever calls and crashes     *)
(* come.                                                                   *)
(***************************************************************************)
THEOREM TypeCorrect == Spec => []TypeOK
<1> QED BY TypeInit, TypeStep, PTL DEF Spec

-------------------------------------------------------------------------------
(* Where the snapshot comes from, and what the listeners know.             *)

SourceInv ==
  /\ sourceName = "none" <=> snapshot = None
  /\ sourceName = "bootstrap" => snapshot = bootstrap
  /\ accepted => sourceName = "live"
  /\ initializing = "loading" =>
       connection = "none" /\ ~accepted /\ sourceName # "live"

(***************************************************************************)
(* The two parts of a step: those that deliver or confirm a snapshot, and  *)
(* the rest, which leave the source alone.                                 *)
(***************************************************************************)
SourceSame ==
  UNCHANGED <<snapshot, sourceName, bootstrap, accepted>>

\* acceptSnapshot keeps what the served snapshot and its source say of each other.
LEMMA AcceptSource ==
  ASSUME TypeOK, SourceInv, NEW s, NEW from \in {"cache", "live"},
         AcceptSnapshot(s, from)
  PROVE  /\ sourceName' = "none" <=> snapshot' = None
         /\ sourceName' = "bootstrap" => snapshot' = bootstrap
         /\ from = "cache" /\ sourceName # "live" => sourceName' # "live"
         /\ sourceName = "live" => sourceName' = "live" \/ from = "cache"
         /\ from = "live" /\ ~Rejects(s) /\ ~Older(s) => sourceName' = "live"
<1>1. CASE Rejects(s) /\ Reject
  BY <1>1 DEF Reject, SourceInv
<1>2. CASE ~Rejects(s) /\ Older(s) /\ Ignore
  BY <1>2 DEF Ignore, SourceInv
<1>3. CASE ~Rejects(s) /\ s = snapshot /\ from = "live" /\ Confirms
  <2>1. snapshot # None
    BY <1>3, SnapshotsAssumption DEF Rejects, ForThisClient
  <2> QED BY <1>3, <2>1 DEF Confirms, SourceInv
<1>4. CASE ~Rejects(s) /\ s = snapshot /\ from = "cache" /\ Ignore
  BY <1>4 DEF Ignore, SourceInv
<1>5. CASE ~Rejects(s) /\ Newer(s) /\ Replace(s, from)
  <2>1. s # None
    BY <1>5, SnapshotsAssumption DEF Rejects, ForThisClient
  <2> QED BY <1>5, <2>1 DEF Replace
<1> QED BY <1>1, <1>2, <1>3, <1>4, <1>5, AcceptCases

\* A step keeps a snapshot and its source together.
LEMMA SourceStep ==
  ASSUME TypeOK, SourceInv, [Next]_vars
  PROVE  SourceInv'
<1>1. CASE Loaded
  <2>1. /\ initializing = "loading" /\ initializing' # "loading"
        /\ UNCHANGED <<accepted, bootstrap>>
    BY <1>1 DEF Loaded
  <2>2. CASE closed \/ cacheFile = None
    BY <1>1, <2>1, <2>2 DEF Loaded, Ignore, SourceInv
  <2>3. CASE ~(closed \/ cacheFile = None)
    <3>1. AcceptSnapshot(cacheFile, "cache")
      BY <1>1, <2>3 DEF Loaded
    <3> QED BY <2>1, <3>1, AcceptSource DEF SourceInv
  <2> QED BY <2>2, <2>3
<1>2. CASE LoadFails
  BY <1>2 DEF LoadFails, Ignore, SourceInv
<1>3. CASE ConnectReturns \/ ConnectThrows
  BY <1>3 DEF ConnectReturns, ConnectThrows, Ignore, SourceInv
<1>4. ASSUME NEW s \in Snapshots \cup {Invalid}, OnSnapshot(s)
      PROVE  SourceInv'
  <2>1. AcceptSnapshot(s, "live") /\ SourceRuns /\ UNCHANGED bootstrap
    BY <1>4 DEF OnSnapshot
  <2>2. initializing # "loading" /\ initializing' # "loading"
    BY <1>4, <2>1 DEF SourceRuns, Connecting, SourceInv, OnSnapshot, Heard
  <2>3. accepted' => accepted \/ (~Rejects(s) /\ ~Older(s))
    BY <1>4, Zenon DEF OnSnapshot
  <2>4. accepted' => sourceName' = "live"
    BY <2>1, <2>3, AcceptSource DEF SourceInv
  <2> QED BY <2>1, <2>2, <2>4, AcceptSource DEF SourceInv
<1>5. CASE OnHealthy
  <2>1. SourceSame
    BY <1>5 DEF OnHealthy, SourceSame
  <2>2. initializing' # "loading"
    BY <1>5 DEF OnHealthy, Heard, SourceRuns, Connecting, SourceInv
  <2> QED BY <2>1, <2>2 DEF SourceSame, SourceInv
<1>6. CASE ConfirmationExpires \/ CheckStaleness
  BY <1>6 DEF ConfirmationExpires, CheckStaleness, Status, SourceInv
<1>7. ASSUME NEW w \in Waiters, WaitUntilReady(w) \/ WaiterTimesOut(w)
      PROVE  SourceInv'
  BY <1>7 DEF WaitUntilReady, WaiterTimesOut, SetWaiter, SourceInv
<1>8. CASE Save \/ SaveFails
  BY <1>8 DEF Save, SaveFails, SaveSettles, SourceInv
<1>9. CASE Close
  BY <1>9 DEF Close, SourceInv
<1>10. CASE AwaitsInitialization \/ AwaitsWrites
  BY <1>10 DEF AwaitsInitialization, AwaitsWrites, SourceInv
<1>11. ASSUME NEW b \in Bootstraps, Restart(b)
       PROVE  SourceInv'
  <2>1. Booted(b) # None => Booted(b) = b
    BY DEF Booted
  <2>2. /\ bootstrap' = b /\ snapshot' = Booted(b) /\ ~accepted'
        /\ connection' = "none"
        /\ sourceName' = IF Booted(b) = None THEN "none" ELSE "bootstrap"
    BY <1>11 DEF Restart
  <2>3. CASE Booted(b) = None
    BY <2>1, <2>2, <2>3 DEF SourceInv
  <2>4. CASE Booted(b) # None
    BY <2>1, <2>2, <2>4 DEF SourceInv
  <2> QED BY <2>3, <2>4
<1>12. CASE UNCHANGED vars
  BY <1>12 DEF vars, process, SourceInv
<1> QED BY <1>1, <1>2, <1>3, <1>4, <1>5, <1>6, <1>7, <1>8, <1>9, <1>10, <1>11,
           <1>12 DEF Next

(***************************************************************************)
(* A snapshot known only from the cache is stale.                          *)
(***************************************************************************)
LEMMA CachedStep ==
  ASSUME TypeOK, SourceInv, CachedIsStale, [Next]_vars
  PROVE  CachedIsStale'
<1>1. ASSUME NEW s, NEW from \in {"cache", "live"}, AcceptSnapshot(s, from)
      PROVE  CachedIsStale'
  <2>1. CASE Reject
    BY <2>1 DEF Reject, CachedIsStale
  <2>2. CASE Ignore
    BY <2>2 DEF Ignore, CachedIsStale
  <2>3. CASE Confirms
    BY <2>3 DEF Confirms, CachedIsStale
  <2>4. CASE Replace(s, from)
    BY <2>4 DEF Replace, CachedIsStale
  <2> QED BY <1>1, <2>1, <2>2, <2>3, <2>4, AcceptCases
<1>2. CASE Loaded
  <2>1. CASE closed \/ cacheFile = None
    BY <1>2, <2>1 DEF Loaded, Ignore, CachedIsStale
  <2>2. CASE ~(closed \/ cacheFile = None)
    BY <1>1, <1>2, <2>2 DEF Loaded
  <2> QED BY <2>1, <2>2
<1>3. ASSUME NEW s \in Snapshots \cup {Invalid}, OnSnapshot(s)
      PROVE  CachedIsStale'
  BY <1>1, <1>3 DEF OnSnapshot
<1>4. CASE OnHealthy
  BY <1>4 DEF OnHealthy, SourceInv, CachedIsStale
<1>5. CASE LoadFails \/ ConnectReturns \/ ConnectThrows
  BY <1>5 DEF LoadFails, ConnectReturns, ConnectThrows, Ignore, CachedIsStale
<1>6. CASE ConfirmationExpires \/ CheckStaleness
  BY <1>6 DEF ConfirmationExpires, CheckStaleness, Status, CachedIsStale
<1>7. ASSUME NEW w \in Waiters, WaitUntilReady(w) \/ WaiterTimesOut(w)
      PROVE  CachedIsStale'
  BY <1>7 DEF WaitUntilReady, WaiterTimesOut, SetWaiter, CachedIsStale
<1>8. CASE Save \/ SaveFails
  BY <1>8 DEF Save, SaveFails, SaveSettles, CachedIsStale
<1>9. CASE Close \/ AwaitsInitialization \/ AwaitsWrites
  BY <1>9 DEF Close, AwaitsInitialization, AwaitsWrites, CachedIsStale
<1>10. ASSUME NEW b \in Bootstraps, Restart(b)
       PROVE  CachedIsStale'
  BY <1>10 DEF Restart, CachedIsStale
<1>11. CASE UNCHANGED vars
  BY <1>11 DEF vars, process, CachedIsStale
<1> QED BY <1>2, <1>3, <1>4, <1>5, <1>6, <1>7, <1>8, <1>9, <1>10, <1>11 DEF Next

(***************************************************************************)
(* What a listener heard last is the status.                               *)
(***************************************************************************)
LEMMA ListenersStep ==
  ASSUME TypeOK, ListenersKnowTheStatus, [Next]_vars
  PROVE  ListenersKnowTheStatus'
<1>1. ASSUME NEW s, NEW from \in {"cache", "live"}, ~closed, ~closed',
             AcceptSnapshot(s, from)
      PROVE  ListenersKnowTheStatus'
  <2>1. CASE Reject
    BY <1>1, <2>1 DEF Reject, ListenersKnowTheStatus, Status, TypeOK
  <2>2. CASE Ignore
    BY <1>1, <2>2 DEF Ignore, ListenersKnowTheStatus, Status
  <2>3. CASE Confirms
    BY <1>1, <2>3 DEF Confirms, ConfirmHealthy, ListenersKnowTheStatus, Status, TypeOK
  <2>4. CASE Replace(s, from)
    BY <1>1, <2>4 DEF Replace, ListenersKnowTheStatus, Status
  <2> QED BY <1>1, <2>1, <2>2, <2>3, <2>4, AcceptCases
<1>2. CASE Loaded
  <2>1. UNCHANGED closed
    BY <1>2 DEF Loaded
  <2>2. CASE closed \/ cacheFile = None
    BY <1>2, <2>2 DEF Loaded, Ignore, ListenersKnowTheStatus, Status
  <2>3. CASE ~(closed \/ cacheFile = None)
    BY <1>1, <1>2, <2>1, <2>3 DEF Loaded
  <2> QED BY <2>2, <2>3
<1>3. ASSUME NEW s \in Snapshots \cup {Invalid}, OnSnapshot(s)
      PROVE  ListenersKnowTheStatus'
  <2>1. ~closed /\ ~closed' /\ AcceptSnapshot(s, "live")
    BY <1>3 DEF OnSnapshot
  <2> QED BY <1>1, <2>1
<1>4. CASE OnHealthy
  BY <1>4 DEF OnHealthy, ConfirmHealthy, ListenersKnowTheStatus, Status, TypeOK
<1>5. CASE LoadFails \/ ConnectReturns \/ ConnectThrows
  BY <1>5 DEF LoadFails, ConnectReturns, ConnectThrows, Ignore,
              ListenersKnowTheStatus, Status
<1>6. CASE ConfirmationExpires \/ CheckStaleness
  BY <1>6 DEF ConfirmationExpires, CheckStaleness, ListenersKnowTheStatus, Status
<1>7. ASSUME NEW w \in Waiters, WaitUntilReady(w) \/ WaiterTimesOut(w)
      PROVE  ListenersKnowTheStatus'
  BY <1>7 DEF WaitUntilReady, WaiterTimesOut, SetWaiter, ListenersKnowTheStatus,
              Status
<1>8. CASE Save \/ SaveFails
  BY <1>8 DEF Save, SaveFails, SaveSettles, ListenersKnowTheStatus, Status
<1>9. CASE Close \/ AwaitsInitialization \/ AwaitsWrites
  BY <1>9 DEF Close, AwaitsInitialization, AwaitsWrites,
              ListenersKnowTheStatus, Status
<1>10. ASSUME NEW b \in Bootstraps, Restart(b)
       PROVE  ListenersKnowTheStatus'
  BY <1>10 DEF Restart, ListenersKnowTheStatus, Status
<1>11. CASE UNCHANGED vars
  BY <1>11 DEF vars, process, ListenersKnowTheStatus, Status
<1> QED BY <1>2, <1>3, <1>4, <1>5, <1>6, <1>7, <1>8, <1>9, <1>10, <1>11 DEF Next

(***************************************************************************)
(* A promise that waits belongs to a client that is neither ready nor      *)
(* closed.                                                                 *)
(***************************************************************************)
LEMMA WaitersStep ==
  ASSUME TypeOK, NoWaiterIsForgotten, [Next]_vars
  PROVE  NoWaiterIsForgotten'
<1>1. ASSUME NEW s, NEW from \in {"cache", "live"}, UNCHANGED closed,
             AcceptSnapshot(s, from)
      PROVE  NoWaiterIsForgotten'
  <2>1. CASE Reject
    BY <1>1, <2>1 DEF Reject, NoWaiterIsForgotten
  <2>2. CASE Ignore
    BY <1>1, <2>2 DEF Ignore, NoWaiterIsForgotten
  <2>3. CASE Confirms
    BY <1>1, <2>3 DEF Confirms, NoWaiterIsForgotten
  <2>4. CASE Replace(s, from)
    BY <2>4 DEF Replace, ResolveWaiters, NoWaiterIsForgotten
  <2> QED BY <1>1, <2>1, <2>2, <2>3, <2>4, AcceptCases
<1>2. CASE Loaded
  <2>1. UNCHANGED closed
    BY <1>2 DEF Loaded
  <2>2. CASE closed \/ cacheFile = None
    BY <1>2, <2>2 DEF Loaded, Ignore, NoWaiterIsForgotten
  <2>3. CASE ~(closed \/ cacheFile = None)
    BY <1>1, <1>2, <2>1, <2>3 DEF Loaded
  <2> QED BY <2>2, <2>3
<1>3. ASSUME NEW s \in Snapshots \cup {Invalid}, OnSnapshot(s)
      PROVE  NoWaiterIsForgotten'
  BY <1>1, <1>3 DEF OnSnapshot
<1>4. CASE OnHealthy
  BY <1>4 DEF OnHealthy, NoWaiterIsForgotten
<1>5. CASE LoadFails \/ ConnectReturns \/ ConnectThrows
  BY <1>5 DEF LoadFails, ConnectReturns, ConnectThrows, Ignore,
              NoWaiterIsForgotten
<1>6. CASE ConfirmationExpires \/ CheckStaleness
  BY <1>6 DEF ConfirmationExpires, CheckStaleness, Status, NoWaiterIsForgotten
<1>7. ASSUME NEW w \in Waiters, WaitUntilReady(w) \/ WaiterTimesOut(w)
      PROVE  NoWaiterIsForgotten'
  BY <1>7 DEF WaitUntilReady, WaiterTimesOut, SetWaiter, NoWaiterIsForgotten, TypeOK
<1>8. CASE Save \/ SaveFails
  BY <1>8 DEF Save, SaveFails, SaveSettles, NoWaiterIsForgotten
<1>9. CASE Close
  BY <1>9 DEF Close, NoWaiterIsForgotten
<1>10. CASE AwaitsInitialization \/ AwaitsWrites
  BY <1>10 DEF AwaitsInitialization, AwaitsWrites, NoWaiterIsForgotten
<1>11. ASSUME NEW b \in Bootstraps, Restart(b)
       PROVE  NoWaiterIsForgotten'
  BY <1>11 DEF Restart, NoWaiterIsForgotten
<1>12. CASE UNCHANGED vars
  BY <1>12 DEF vars, process, NoWaiterIsForgotten
<1> QED BY <1>2, <1>3, <1>4, <1>5, <1>6, <1>7, <1>8, <1>9, <1>10, <1>11, <1>12
        DEF Next

-------------------------------------------------------------------------------
(* close                                                                   *)

(***************************************************************************)
(* close leaves its first await only after initialization, its second only *)
(* when no save is outstanding; a closed client accepts nothing that would *)
(* queue another.                                                          *)
(***************************************************************************)
ClosingInv ==
  /\ closed <=> closing # "no"
  /\ closing \in {"writes", "done"} => initializing = "done"
  /\ closing = "done" => writes = << >>

\* A step keeps what a close waits for.
LEMMA ClosingStep ==
  ASSUME TypeOK, ClosingInv, [Next]_vars
  PROVE  ClosingInv'
<1>1. CASE Loaded \/ LoadFails
  <2>1. initializing = "loading" /\ UNCHANGED <<closed, closing>>
    BY <1>1 DEF Loaded, LoadFails
  <2> QED BY <2>1 DEF ClosingInv
<1>2. CASE ConnectReturns \/ ConnectThrows
  <2>1. Connecting /\ UNCHANGED <<closed, closing>>
    BY <1>2 DEF ConnectReturns, ConnectThrows
  <2> QED BY <2>1 DEF Connecting, ClosingInv
<1>3. ASSUME NEW s \in Snapshots \cup {Invalid}, OnSnapshot(s)
      PROVE  ClosingInv'
  <2>1. ~closed /\ UNCHANGED <<closed, closing>>
    BY <1>3 DEF OnSnapshot
  <2> QED BY <2>1 DEF ClosingInv
<1>4. CASE OnHealthy
  BY <1>4 DEF OnHealthy, ClosingInv
<1>5. CASE ConfirmationExpires \/ CheckStaleness
  BY <1>5 DEF ConfirmationExpires, CheckStaleness, Status, ClosingInv
<1>6. ASSUME NEW w \in Waiters, WaitUntilReady(w) \/ WaiterTimesOut(w)
      PROVE  ClosingInv'
  BY <1>6 DEF WaitUntilReady, WaiterTimesOut, SetWaiter, ClosingInv
<1>7. CASE Save \/ SaveFails
  BY <1>7 DEF Save, SaveFails, SaveSettles, ClosingInv
<1>8. CASE Close
  BY <1>8 DEF Close, ClosingInv
<1>9. CASE AwaitsInitialization \/ AwaitsWrites
  BY <1>9 DEF AwaitsInitialization, AwaitsWrites, ClosingInv
<1>10. ASSUME NEW b \in Bootstraps, Restart(b)
       PROVE  ClosingInv'
  <2>1. ~closed' /\ closing' = "no"
    BY <1>10 DEF Restart
  <2> QED BY <2>1 DEF ClosingInv
<1>11. CASE UNCHANGED vars
  BY <1>11 DEF vars, process, ClosingInv
<1> QED BY <1>1, <1>2, <1>3, <1>4, <1>5, <1>6, <1>7, <1>8, <1>9, <1>10, <1>11
        DEF Next

(***************************************************************************)
(* When no listener calls close(), a closed client is not connecting and   *)
(* has no open connection.                                                 *)
(***************************************************************************)
ConnectionInv == closed => ~Connecting /\ connection # "open"

\* Without closing listeners, a closed client comes to no connection.
LEMMA ConnectionStep ==
  ASSUME TypeOK, ConnectionInv, ~ListenersMayClose, [Next]_vars
  PROVE  ConnectionInv'
<1>1. CASE Loaded \/ LoadFails
  <2>1. /\ closed' => initializing' = "done"
        /\ UNCHANGED <<closed, connection>>
    BY <1>1 DEF Loaded, LoadFails
  <2> QED BY <2>1 DEF Connecting, ConnectionInv
<1>2. CASE ConnectReturns \/ ConnectThrows
  <2>1. ~closed
    BY <1>2 DEF ConnectReturns, ConnectThrows, ConnectionInv
  <2> QED BY <1>2, <2>1 DEF ConnectReturns, ConnectThrows, ConnectionInv
<1>3. ASSUME NEW s \in Snapshots \cup {Invalid}, OnSnapshot(s)
      PROVE  ConnectionInv'
  BY <1>3 DEF OnSnapshot, ConnectionInv
<1>4. CASE OnHealthy
  BY <1>4 DEF OnHealthy, ConnectionInv
<1>5. CASE ConfirmationExpires \/ CheckStaleness
  BY <1>5 DEF ConfirmationExpires, CheckStaleness, Status, ConnectionInv,
              Connecting
<1>6. ASSUME NEW w \in Waiters, WaitUntilReady(w) \/ WaiterTimesOut(w)
      PROVE  ConnectionInv'
  BY <1>6 DEF WaitUntilReady, WaiterTimesOut, SetWaiter, ConnectionInv, Connecting
<1>7. CASE Save \/ SaveFails
  BY <1>7 DEF Save, SaveFails, SaveSettles, ConnectionInv, Connecting
<1>8. CASE Close
  BY <1>8 DEF Close, ConnectionInv, Connecting
<1>9. CASE AwaitsInitialization \/ AwaitsWrites
  BY <1>9 DEF AwaitsInitialization, AwaitsWrites, ConnectionInv,
              Connecting
<1>10. ASSUME NEW b \in Bootstraps, Restart(b)
       PROVE  ConnectionInv'
  BY <1>10 DEF Restart, ConnectionInv
<1>11. CASE UNCHANGED vars
  BY <1>11 DEF vars, process, ConnectionInv, Connecting
<1> QED BY <1>1, <1>2, <1>3, <1>4, <1>5, <1>6, <1>7, <1>8, <1>9, <1>10, <1>11
        DEF Next

-------------------------------------------------------------------------------
(* The cache file and the saves on their way to it.                        *)

(***************************************************************************)
(* Only what the source delivered is saved, in the order it was accepted,  *)
(* and the last of it is what the client serves.                           *)
(***************************************************************************)
SavesInv ==
  /\ sourceName # "live" \/ ~HasCache => writes = << >>
  /\ sourceName = "cache" => snapshot = cacheFile
  /\ \A i, j \in 1 .. Len(writes) :
       i < j => writes[i].revision < writes[j].revision
  /\ writes # << >> => writes[Len(writes)] = snapshot
  /\ LastKnownGoodIsCached

(***************************************************************************)
(* Once the cache has been read and used, nothing older than it is served  *)
(* or saved.                                                               *)
(***************************************************************************)
CacheInv ==
  HasCache /\ cacheFile # None /\ ~loadFailed /\ initializing # "loading" =>
    /\ ~closed => snapshot # None /\ snapshot.revision >= cacheFile.revision
    /\ writes # << >> => writes[1].revision > cacheFile.revision

\* Revisions are numbers that can be compared.
LEMMA RevisionType ==
  ASSUME NEW s \in Snapshots
  PROVE  s.revision \in Int /\ s # None
BY MaxRevisionAssumption, SnapshotsAssumption DEF Snapshots, Revisions

(***************************************************************************)
(* A snapshot that replaces another is valid, newer and of the same        *)
(* environment.                                                            *)
(***************************************************************************)
LEMMA ReplaceIsNewer ==
  ASSUME TypeOK, NEW s, ~Rejects(s), Newer(s)
  PROVE  /\ s \in Snapshots
         /\ snapshot # None => /\ s.revision > snapshot.revision
                               /\ s.env = snapshot.env
BY DEF Rejects, ForThisClient, Newer

\* acceptSnapshot queues saves in the order of their revisions.
LEMMA AcceptSaves ==
  ASSUME TypeOK, SourceInv, SavesInv, NEW s, NEW from \in {"cache", "live"},
         AcceptSnapshot(s, from),
         UNCHANGED <<cacheFile, bootstrap, saveFailed>>,
         from = "cache" => initializing = "loading" /\ s = cacheFile
  PROVE  SavesInv'
<1>1. CASE Reject \/ Ignore
  BY <1>1 DEF Reject, Ignore, SavesInv, LastKnownGoodIsCached
<1>2. CASE ~Rejects(s) /\ s = snapshot /\ from = "live" /\ Confirms
  <2>1. sourceName' = "live" /\ UNCHANGED <<snapshot, writes>>
    BY <1>2 DEF Confirms
  <2>2. sourceName \in {"bootstrap", "cache", "live"}
    BY <1>2, SnapshotsAssumption DEF TypeOK, SourceInv, Rejects, ForThisClient
  <2>3. CASE sourceName = "live"
    BY <2>1, <2>3 DEF SavesInv, LastKnownGoodIsCached
  <2>4. CASE sourceName # "live"
    <3>1. writes = << >>
      BY <2>4 DEF SavesInv
    <3>2. snapshot = bootstrap \/ snapshot = cacheFile
      BY <2>2, <2>4 DEF SavesInv, SourceInv
    <3> QED BY <2>1, <3>1, <3>2 DEF SavesInv, LastKnownGoodIsCached
  <2> QED BY <2>3, <2>4
<1>3. CASE ~Rejects(s) /\ Newer(s) /\ Replace(s, from)
  <2>1. /\ s \in Snapshots
        /\ snapshot # None => s.revision > snapshot.revision
    BY <1>3, ReplaceIsNewer
  <2>2. snapshot' = s /\ sourceName' = from
    BY <1>3 DEF Replace
  <2>3. CASE from = "cache"
    <3>1. writes = << >> /\ writes' = << >> /\ s = cacheFile
      BY <1>3, <2>3 DEF Replace, SourceInv, SavesInv
    <3> QED BY <2>2, <2>3, <3>1 DEF SavesInv, LastKnownGoodIsCached
  <2>4. CASE from = "live" /\ ~HasCache
    <3>1. writes = << >> /\ writes' = << >>
      BY <1>3, <2>4 DEF Replace, SavesInv
    <3> QED BY <2>2, <2>4, <3>1 DEF SavesInv, LastKnownGoodIsCached
  <2>5. CASE from = "live" /\ HasCache
    <3>1. writes' = Append(writes, s)
      BY <1>3, <2>5 DEF Replace
    <3>2. /\ writes' # << >>
          /\ Len(writes) \in Nat
          /\ Len(writes') = Len(writes) + 1
          /\ writes'[Len(writes')] = s
          /\ \A i \in 1 .. Len(writes) : writes'[i] = writes[i]
      BY <2>1, <3>1, AppendType DEF TypeOK
    <3>3. ASSUME NEW i \in 1 .. Len(writes'), NEW j \in 1 .. Len(writes'), i < j
          PROVE  writes'[i].revision < writes'[j].revision
      <4>1. i \in 1 .. Len(writes) /\ writes'[i] = writes[i] /\ writes[i] \in Snapshots
        BY <3>2, <3>3 DEF TypeOK
      <4>2. CASE j # Len(writes')
        BY <3>2, <3>3, <4>1, <4>2 DEF SavesInv
      <4>3. CASE j = Len(writes')
        <5>1. writes # << >> /\ Len(writes) \in 1 .. Len(writes)
          BY <3>2, <4>1
        <5>2. snapshot = writes[Len(writes)] /\ snapshot \in Snapshots
          BY <5>1 DEF SavesInv, TypeOK
        <5>3. i = Len(writes) \/ writes[i].revision < snapshot.revision
          BY <3>2, <4>1, <5>1, <5>2 DEF SavesInv
        <5> QED BY <2>1, <3>2, <4>1, <4>3, <5>2, <5>3, RevisionType
      <4> QED BY <4>2, <4>3
    <3> QED BY <2>2, <2>5, <3>2, <3>3 DEF SavesInv, LastKnownGoodIsCached
  <2> QED BY <2>3, <2>4, <2>5
<1> QED BY <1>1, <1>2, <1>3, AcceptCases

\* A step keeps the queue of saves ordered, the newest last.
LEMMA SavesStep ==
  ASSUME TypeOK, SourceInv, SavesInv, [Next]_vars
  PROVE  SavesInv'
<1>1. CASE Loaded
  <2>1. initializing = "loading" /\ UNCHANGED <<cacheFile, bootstrap, saveFailed>>
    BY <1>1 DEF Loaded
  <2>2. CASE closed \/ cacheFile = None
    BY <1>1, <2>1, <2>2 DEF Loaded, Ignore, SavesInv, LastKnownGoodIsCached
  <2>3. CASE ~(closed \/ cacheFile = None)
    <3>1. AcceptSnapshot(cacheFile, "cache")
      BY <1>1, <2>3 DEF Loaded
    <3> QED BY <2>1, <3>1, AcceptSaves
  <2> QED BY <2>2, <2>3
<1>2. ASSUME NEW s \in Snapshots \cup {Invalid}, OnSnapshot(s)
      PROVE  SavesInv'
  BY <1>2, AcceptSaves DEF OnSnapshot
<1>3. CASE OnHealthy
  BY <1>3 DEF OnHealthy, SavesInv, LastKnownGoodIsCached
<1>4. CASE LoadFails \/ ConnectReturns \/ ConnectThrows
  BY <1>4 DEF LoadFails, ConnectReturns, ConnectThrows, Ignore, SavesInv,
              LastKnownGoodIsCached
<1>5. CASE ConfirmationExpires \/ CheckStaleness
  BY <1>5 DEF ConfirmationExpires, CheckStaleness, Status, SavesInv,
              LastKnownGoodIsCached
<1>6. ASSUME NEW w \in Waiters, WaitUntilReady(w) \/ WaiterTimesOut(w)
      PROVE  SavesInv'
  BY <1>6 DEF WaitUntilReady, WaiterTimesOut, SetWaiter, SavesInv,
              LastKnownGoodIsCached
<1>7. CASE Save \/ SaveFails
  <2>1. /\ writes # << >>
        /\ writes' = Tail(writes)
        /\ UNCHANGED <<snapshot, sourceName, bootstrap>>
        /\ cacheFile' = Head(writes) \/ saveFailed'
    BY <1>7 DEF Save, SaveFails, SaveSettles
  <2>2. /\ Len(writes) \in Nat \ {0}
        /\ Head(writes) = writes[1]
        /\ Len(writes') = Len(writes) - 1
        /\ \A i \in 1 .. Len(writes) - 1 : writes'[i] = writes[i + 1]
        /\ writes' \in Seq(Snapshots)
    BY <2>1, TailType DEF TypeOK
  <2>3. sourceName = "live" /\ HasCache
    BY <2>1 DEF SavesInv
  <2>4. \A i, j \in 1 .. Len(writes') :
          i < j => writes'[i].revision < writes'[j].revision
    BY <2>2 DEF SavesInv
  <2>5. CASE writes' = << >>
    <3>1. Len(writes) = 1
      BY <2>2, <2>5
    <3>2. writes[1] = snapshot
      BY <2>1, <3>1 DEF SavesInv
    <3> QED BY <2>1, <2>2, <2>3, <2>4, <2>5, <3>2 DEF SavesInv, LastKnownGoodIsCached
  <2>6. CASE writes' # << >>
    <3>1. Len(writes') \in 1 .. Len(writes) - 1
      BY <2>2, <2>6
    <3>2. writes'[Len(writes')] = snapshot
      BY <2>1, <2>2, <3>1 DEF SavesInv
    <3> QED BY <2>1, <2>3, <2>4, <2>6, <3>2 DEF SavesInv, LastKnownGoodIsCached
  <2> QED BY <2>5, <2>6
<1>8. CASE Close
  BY <1>8 DEF Close, SavesInv, LastKnownGoodIsCached
<1>9. CASE AwaitsInitialization \/ AwaitsWrites
  BY <1>9 DEF AwaitsInitialization, AwaitsWrites, SavesInv,
              LastKnownGoodIsCached
<1>10. ASSUME NEW b \in Bootstraps, Restart(b)
       PROVE  SavesInv'
  <2>1. sourceName' \in {"none", "bootstrap"} /\ writes' = << >>
    BY <1>10, Zenon DEF Restart
  <2> QED BY <2>1 DEF SavesInv, LastKnownGoodIsCached
<1>11. CASE UNCHANGED vars
  BY <1>11 DEF vars, process, SavesInv, LastKnownGoodIsCached
<1> QED BY <1>1, <1>2, <1>3, <1>4, <1>5, <1>6, <1>7, <1>8, <1>9, <1>10, <1>11
        DEF Next

\* acceptSnapshot leaves the cache at most as new as what it queues.
LEMMA AcceptCache ==
  ASSUME TypeOK, SavesInv, CacheInv, NEW s, NEW from \in {"cache", "live"},
         AcceptSnapshot(s, from), ~closed, UNCHANGED <<cacheFile, closed>>,
         initializing' # "loading",
         \/ from = "live" /\ UNCHANGED loadFailed /\ initializing # "loading"
         \/ /\ from = "cache" /\ s = cacheFile /\ cacheFile # None
            /\ writes = << >> /\ loadFailed' = Rejects(s)
  PROVE  CacheInv'
<1> SUFFICES ASSUME HasCache, cacheFile # None, ~loadFailed'
             PROVE  /\ snapshot' # None /\ snapshot'.revision >= cacheFile.revision
                    /\ writes' # << >> => writes'[1].revision > cacheFile.revision
  BY DEF CacheInv
<1> USE RevisionType DEF TypeOK
<1>1. CASE from = "live"
  <2>1. /\ snapshot \in Snapshots /\ snapshot.revision >= cacheFile.revision
        /\ writes # << >> => writes[1].revision > cacheFile.revision
    BY <1>1 DEF CacheInv
  <2>2. CASE Reject \/ Ignore \/ Confirms
    BY <2>1, <2>2 DEF Reject, Ignore, Confirms
  <2>3. CASE ~Rejects(s) /\ Newer(s) /\ Replace(s, from)
    <3>1. /\ s \in Snapshots /\ snapshot' = s
          /\ s.revision > snapshot.revision
          /\ writes' = Append(writes, s)
      BY <1>1, <2>1, <2>3, ReplaceIsNewer DEF Replace
    <3>2. s.revision > cacheFile.revision
      BY <2>1, <3>1
    <3>3. CASE writes = << >>
      BY <3>1, <3>2, <3>3
    <3>4. CASE writes # << >>
      <4>1. 1 \in 1 .. Len(writes)
        BY <3>4
      <4>2. writes'[1] = writes[1]
        BY <3>1, <4>1, AppendType
      <4> QED BY <2>1, <3>1, <3>2, <3>4, <4>2
    <3> QED BY <3>3, <3>4
  <2> QED BY <2>2, <2>3, AcceptCases
<1>2. CASE from = "cache"
  <2>1. /\ s = cacheFile /\ s \in Snapshots /\ ~Rejects(s) /\ writes = << >>
    BY <1>2
  <2>2. CASE Older(s) /\ Ignore
    BY <2>1, <2>2 DEF Older, Ignore
  <2>3. CASE s = snapshot /\ Ignore
    BY <2>1, <2>3 DEF Ignore
  <2>4. CASE Replace(s, from)
    BY <1>2, <2>1, <2>4 DEF Replace
  <2> QED BY <1>2, <2>1, <2>2, <2>3, <2>4, AcceptCases
<1> QED BY <1>1, <1>2

\* A step keeps the cache behind the saves and the saves behind the served.
LEMMA CacheStep ==
  ASSUME TypeOK, SourceInv, SavesInv, CacheInv, [Next]_vars
  PROVE  CacheInv'
<1>1. CASE Loaded
  <2>1. /\ initializing = "loading" /\ initializing' \in {"connecting", "done"}
        /\ UNCHANGED <<cacheFile, closed>>
    BY <1>1 DEF Loaded
  <2>2. writes = << >>
    BY <2>1 DEF SourceInv, SavesInv
  <2>3. CASE closed \/ cacheFile = None
    BY <1>1, <2>1, <2>2, <2>3 DEF Loaded, Ignore, CacheInv
  <2>4. CASE ~(closed \/ cacheFile = None)
    <3>1. AcceptSnapshot(cacheFile, "cache") /\ loadFailed' = Rejects(cacheFile)
      BY <1>1, <2>4, Zenon DEF Loaded
    <3> QED BY <2>1, <2>2, <2>4, <3>1, AcceptCache
  <2> QED BY <2>3, <2>4
<1>2. ASSUME NEW s \in Snapshots \cup {Invalid}, OnSnapshot(s)
      PROVE  CacheInv'
  <2>1. /\ initializing # "loading" /\ initializing' # "loading"
    BY <1>2 DEF OnSnapshot, SourceRuns, Connecting, Heard, SourceInv
  <2> QED BY <1>2, <2>1, AcceptCache DEF OnSnapshot
<1>3. CASE OnHealthy
  <2>1. initializing # "loading"
    BY <1>3 DEF OnHealthy, SourceRuns, Connecting, SourceInv
  <2> QED BY <1>3, <2>1 DEF OnHealthy, CacheInv
<1>4. CASE LoadFails
  BY <1>4 DEF LoadFails, CacheInv
<1>5. CASE ConnectReturns \/ ConnectThrows
  BY <1>5 DEF ConnectReturns, ConnectThrows, Connecting, Ignore, CacheInv
<1>6. CASE ConfirmationExpires \/ CheckStaleness
  BY <1>6 DEF ConfirmationExpires, CheckStaleness, Status, CacheInv
<1>7. ASSUME NEW w \in Waiters, WaitUntilReady(w) \/ WaiterTimesOut(w)
      PROVE  CacheInv'
  BY <1>7 DEF WaitUntilReady, WaiterTimesOut, SetWaiter, CacheInv
<1>8. CASE Save \/ SaveFails
  <2>1. /\ writes # << >>
        /\ writes' = Tail(writes)
        /\ UNCHANGED <<snapshot, sourceName, closed, initializing, loadFailed>>
        /\ cacheFile' = Head(writes) \/ cacheFile' = cacheFile
    BY <1>8 DEF Save, SaveFails, SaveSettles
  <2>2. /\ Len(writes) \in Nat \ {0}
        /\ Head(writes) = writes[1]
        /\ Len(writes') = Len(writes) - 1
        /\ \A i \in 1 .. Len(writes) - 1 : writes'[i] = writes[i + 1]
        /\ writes' \in Seq(Snapshots)
    BY <2>1, TailType DEF TypeOK
  <2>3. writes[1] \in Snapshots /\ writes[1].revision \in Int
    BY <2>2, RevisionType DEF TypeOK
  <2>4. snapshot \in Snapshots /\ snapshot.revision >= writes[1].revision
    <3>1. snapshot = writes[Len(writes)] /\ snapshot \in Snapshots
      BY <2>1, <2>2 DEF SavesInv, TypeOK
    <3>2. Len(writes) = 1 \/ writes[1].revision < snapshot.revision
      BY <2>2, <3>1 DEF SavesInv
    <3> QED BY <2>3, <3>1, <3>2, RevisionType
  <2>5. writes' # << >> => /\ writes'[1].revision > writes[1].revision
                           /\ writes'[1].revision \in Int
    <3> SUFFICES ASSUME writes' # << >>
                 PROVE  /\ writes'[1].revision > writes[1].revision
                        /\ writes'[1].revision \in Int
      OBVIOUS
    <3>1. Len(writes) > 1 /\ writes'[1] = writes[2] /\ writes[2] \in Snapshots
      BY <2>2 DEF TypeOK
    <3> QED BY <2>2, <3>1, RevisionType DEF SavesInv
  <2>6. CASE cacheFile' = Head(writes)
    BY <2>1, <2>2, <2>3, <2>4, <2>5, <2>6, RevisionType DEF CacheInv
  <2>7. CASE cacheFile' = cacheFile
    <3> SUFFICES ASSUME HasCache, cacheFile # None, ~loadFailed,
                        initializing # "loading"
                 PROVE  /\ ~closed => /\ snapshot # None
                                      /\ snapshot.revision >= cacheFile.revision
                        /\ writes' # << >> =>
                             writes'[1].revision > cacheFile.revision
      BY <2>1, <2>7 DEF CacheInv
    <3>1. cacheFile.revision \in Int
      BY RevisionType DEF TypeOK
    <3> QED BY <2>1, <2>3, <2>5, <3>1 DEF CacheInv
  <2> QED BY <2>1, <2>6, <2>7
<1>9. CASE Close
  BY <1>9 DEF Close, CacheInv
<1>10. CASE AwaitsInitialization \/ AwaitsWrites
  BY <1>10 DEF AwaitsInitialization, AwaitsWrites, CacheInv
<1>11. ASSUME NEW b \in Bootstraps, Restart(b)
       PROVE  CacheInv'
  BY <1>11, Zenon DEF Restart, CacheInv
<1>12. CASE UNCHANGED vars
  BY <1>12 DEF vars, process, CacheInv
<1> QED BY <1>1, <1>2, <1>3, <1>4, <1>5, <1>6, <1>7, <1>8, <1>9, <1>10, <1>11,
           <1>12 DEF Next

-------------------------------------------------------------------------------
(* Steps that change what evaluations see                                  *)

(***************************************************************************)
(* Only Loaded, the source's calls and a restart touch the snapshot, and   *)
(* the first two only while the client is open.                            *)
(***************************************************************************)
LEMMA SnapshotSteps ==
  ASSUME TypeOK, [Next]_vars
  PROVE  \/ UNCHANGED <<snapshot, sourceName>> /\ (UNCHANGED stale \/ ~closed)
         \/ \E s : \E from \in {"cache", "live"} :
              AcceptSnapshot(s, from) /\ ~closed
         \/ UNCHANGED snapshot /\ ~closed
         \/ \E b \in Bootstraps : Restart(b)
<1>1. CASE Loaded
  <2>1. CASE closed \/ cacheFile = None
    BY <1>1, <2>1 DEF Loaded, Ignore
  <2>2. CASE ~(closed \/ cacheFile = None)
    BY <1>1, <2>2 DEF Loaded
  <2> QED BY <2>1, <2>2
<1>2. CASE LoadFails \/ ConnectReturns \/ ConnectThrows
  BY <1>2 DEF LoadFails, ConnectReturns, ConnectThrows, Ignore
<1>3. ASSUME NEW s \in Snapshots \cup {Invalid}, OnSnapshot(s)
      PROVE  AcceptSnapshot(s, "live") /\ ~closed
  BY <1>3 DEF OnSnapshot
<1>4. CASE OnHealthy
  BY <1>4 DEF OnHealthy
<1>5. CASE ConfirmationExpires \/ CheckStaleness
  BY <1>5 DEF ConfirmationExpires, CheckStaleness, Status
<1>6. ASSUME NEW w \in Waiters, WaitUntilReady(w) \/ WaiterTimesOut(w)
      PROVE  UNCHANGED <<snapshot, sourceName, stale>>
  BY <1>6 DEF WaitUntilReady, WaiterTimesOut, SetWaiter
<1>7. CASE Save \/ SaveFails
  BY <1>7 DEF Save, SaveFails, SaveSettles
<1>8. CASE Close \/ AwaitsInitialization \/ AwaitsWrites
  BY <1>8 DEF Close, AwaitsInitialization, AwaitsWrites
<1>9. CASE UNCHANGED vars
  BY <1>9 DEF vars, process
<1> QED BY <1>1, <1>2, <1>3, <1>4, <1>5, <1>6, <1>7, <1>8, <1>9 DEF Next

\* A step that replaces the snapshot takes a newer one.
LEMMA AdvanceStep ==
  ASSUME TypeOK, [Next]_vars
  PROVE  snapshot' # snapshot /\ snapshot # None
           /\ ~(\E b \in Bootstraps : Restart(b)) =>
           /\ snapshot'.env = snapshot.env
           /\ snapshot'.revision > snapshot.revision
<1> SUFFICES ASSUME NEW s, NEW from \in {"cache", "live"},
                    AcceptSnapshot(s, from), snapshot' # snapshot, snapshot # None
             PROVE  /\ snapshot'.env = snapshot.env
                    /\ snapshot'.revision > snapshot.revision
  BY SnapshotSteps
<1>1. ~(Reject \/ Ignore \/ Confirms)
  BY DEF Reject, Ignore, Confirms
<1>2. ~Rejects(s) /\ Newer(s) /\ Replace(s, from)
  BY <1>1, AcceptCases
<1> QED BY <1>2, ReplaceIsNewer DEF Replace

\* A step of a closed client leaves the served snapshot.
LEMMA FrozenStep ==
  ASSUME TypeOK, [Next]_vars, closed, closed'
  PROVE  UNCHANGED <<snapshot, sourceName, stale>>
<1>1. ~(\E b \in Bootstraps : Restart(b))
  BY Zenon DEF Restart
<1> QED BY <1>1, SnapshotSteps

(***************************************************************************)
(* The cache file changes only when a save succeeds.                       *)
(***************************************************************************)
LEMMA CacheFileStep ==
  ASSUME TypeOK, SourceInv, SavesInv, CacheInv, [Next]_vars,
         cacheFile' # cacheFile, cacheFile # None, ~loadFailed
  PROVE  cacheFile'.revision > cacheFile.revision
<1>1. Save
  <2>1. /\ ~Loaded /\ ~LoadFails /\ ~ConnectReturns /\ ~ConnectThrows
        /\ ~OnHealthy /\ ~SaveFails
        /\ \A s \in Snapshots \cup {Invalid} : ~OnSnapshot(s)
    BY DEF Loaded, LoadFails, ConnectReturns, ConnectThrows, OnHealthy, SaveFails,
           SaveSettles, OnSnapshot
  <2>2. ~ConfirmationExpires /\ ~CheckStaleness
    BY DEF ConfirmationExpires, CheckStaleness, Status
  <2>3. /\ ~Close /\ ~AwaitsInitialization /\ ~AwaitsWrites
        /\ \A b \in Bootstraps : ~Restart(b)
    BY Zenon DEF Close, AwaitsInitialization, AwaitsWrites, Restart
  <2>4. /\ \A w \in Waiters : ~WaitUntilReady(w) /\ ~WaiterTimesOut(w)
        /\ ~UNCHANGED vars
    BY DEF WaitUntilReady, WaiterTimesOut, SetWaiter, vars
  <2> QED BY <2>1, <2>2, <2>3, <2>4 DEF Next
<1>2. writes # << >> /\ cacheFile' = Head(writes)
  BY <1>1 DEF Save, SaveSettles
<1>3. cacheFile' = writes[1]
  BY <1>2, TailType DEF TypeOK
<1>4. HasCache /\ initializing # "loading"
  BY <1>2 DEF SavesInv, SourceInv
<1> QED BY <1>2, <1>3, <1>4 DEF CacheInv

-------------------------------------------------------------------------------
(* The theorems                                                            *)

ClientInv ==
  /\ TypeOK
  /\ SourceInv
  /\ CachedIsStale
  /\ ListenersKnowTheStatus
  /\ NoWaiterIsForgotten
  /\ ClosingInv
  /\ SavesInv
  /\ CacheInv

\* The first state satisfies the inductive invariant.
LEMMA ClientInit ==
  ASSUME Init
  PROVE  ClientInv /\ ConnectionInv
<1>1. TypeOK
  BY TypeInit
<1>2. SourceInv
  <2>1. snapshot = None \/ snapshot = bootstrap
    BY DEF Init, Booted
  <2>2. sourceName = IF snapshot = None THEN "none" ELSE "bootstrap"
    BY DEF Init
  <2>3. ~accepted /\ connection = "none"
    BY DEF Init
  <2> QED BY <2>1, <2>2, <2>3 DEF SourceInv
<1>3. sourceName # "cache" /\ sourceName # "live" /\ writes = << >>
  BY Zenon DEF Init
<1>4. CachedIsStale /\ SavesInv
  BY <1>3 DEF CachedIsStale, SavesInv, LastKnownGoodIsCached
<1>5. ListenersKnowTheStatus /\ NoWaiterIsForgotten
  BY DEF Init, ListenersKnowTheStatus, NoWaiterIsForgotten, Status
<1>6. ClosingInv /\ CacheInv /\ ConnectionInv
  BY Zenon DEF Init, ClosingInv, CacheInv, ConnectionInv
<1> QED BY <1>1, <1>2, <1>4, <1>5, <1>6 DEF ClientInv

\* Every step keeps the inductive invariant.
LEMMA ClientStep ==
  ASSUME ClientInv, [Next]_vars
  PROVE  ClientInv'
BY TypeStep, SourceStep, CachedStep, ListenersStep, WaitersStep, ClosingStep,
   SavesStep, CacheStep DEF ClientInv

(***************************************************************************)
(* The inductive invariant of the client.                                  *)
(***************************************************************************)
THEOREM ClientCorrect == Spec => []ClientInv
<1> QED BY ClientInit, ClientStep, PTL DEF Spec

(***************************************************************************)
(* Whatever the bootstrap, the cache and the source deliver, and in        *)
(* whatever order, every listener was last told of the status that         *)
(* getStatus reports.                                                      *)
(***************************************************************************)
THEOREM StatusCorrect == Spec => []ListenersKnowTheStatus
<1>1. ClientInv => ListenersKnowTheStatus
  BY DEF ClientInv
<1> QED BY <1>1, ClientCorrect, PTL

(***************************************************************************)
(* What comes from the cache alone is reported stale and was never         *)
(* confirmed by the source.                                                *)
(***************************************************************************)
THEOREM CachedCorrect == Spec => []CachedIsStale
<1>1. ClientInv => CachedIsStale
  BY DEF ClientInv
<1> QED BY <1>1, ClientCorrect, PTL

(***************************************************************************)
(* No waitUntilReady is left waiting by a client that is ready or closed.  *)
(***************************************************************************)
THEOREM WaitersCorrect == Spec => []NoWaiterIsForgotten
<1>1. ClientInv => NoWaiterIsForgotten
  BY DEF ClientInv
<1> QED BY <1>1, ClientCorrect, PTL

(***************************************************************************)
(* What the client serves is in the cache, or on its way to it, unless its *)
(* save failed.                                                            *)
(***************************************************************************)
THEOREM CacheCorrect == Spec => []LastKnownGoodIsCached
<1>1. ClientInv => LastKnownGoodIsCached
  BY DEF ClientInv, SavesInv
<1> QED BY <1>1, ClientCorrect, PTL

(***************************************************************************)
(* When the first close() returns, no save is outstanding and              *)
(* initialization has ended.                                               *)
(***************************************************************************)
THEOREM CloseCorrect == Spec => []CloseDrains
<1>1. ClientInv => CloseDrains
  BY DEF ClientInv, ClosingInv, CloseDrains
<1> QED BY <1>1, ClientCorrect, PTL

(***************************************************************************)
(* If no listener calls close(), close() leaves no connection open.        *)
(***************************************************************************)
THEOREM SourceClosed ==
  ASSUME ~ListenersMayClose
  PROVE  Spec => []CloseClosesTheSource
<1>1. Init => ConnectionInv
  BY ClientInit
<1>2. ClientInv /\ ConnectionInv /\ [Next]_vars => ConnectionInv'
  BY ConnectionStep DEF ClientInv
<1>3. ClientInv /\ ConnectionInv => CloseClosesTheSource
  BY DEF ClientInv, ClosingInv, ConnectionInv, CloseClosesTheSource
<1> QED BY <1>1, <1>2, <1>3, ClientCorrect, PTL DEF Spec

(***************************************************************************)
(* No rollback and no edit in place of the served snapshot.                *)
(***************************************************************************)
THEOREM Advances == Spec => SnapshotsOnlyAdvance
<1>1. ClientInv /\ [Next]_vars =>
        [snapshot' # snapshot /\ snapshot # None
           /\ ~(\E b \in Bootstraps : Restart(b)) =>
           /\ snapshot'.env = snapshot.env
           /\ snapshot'.revision > snapshot.revision]_vars
  BY AdvanceStep DEF ClientInv
<1> QED BY <1>1, ClientCorrect, PTL DEF Spec, SnapshotsOnlyAdvance

(***************************************************************************)
(* What happens after close changes nothing an evaluation sees.            *)
(***************************************************************************)
THEOREM Frozen == Spec => ClosedIsFrozen
<1>1. ClientInv /\ [Next]_vars =>
        [closed /\ closed' => UNCHANGED <<snapshot, sourceName, stale>>]_vars
  BY FrozenStep DEF ClientInv
<1> QED BY <1>1, ClientCorrect, PTL DEF Spec, ClosedIsFrozen

(***************************************************************************)
(* Over crashes and restarts, a cache that can be used never goes back.    *)
(***************************************************************************)
THEOREM CacheAdvances == Spec => CacheNeverGoesBack
<1>1. ClientInv /\ [Next]_vars =>
        [cacheFile' # cacheFile /\ cacheFile # None /\ ~loadFailed =>
           cacheFile'.revision > cacheFile.revision]_vars
  BY CacheFileStep DEF ClientInv
<1> QED BY <1>1, ClientCorrect, PTL DEF Spec, CacheNeverGoesBack

===============================================================================
