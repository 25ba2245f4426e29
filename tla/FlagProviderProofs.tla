-------------------------- MODULE FlagProviderProofs --------------------------
(***************************************************************************)
(* Proofs about FlagProvider, from the invariant of the client it wraps.   *)
(***************************************************************************)
EXTENDS FlagProvider, FlagClientProofs

(***************************************************************************)
(* A wait that was resolved has a snapshot behind it.                      *)
(***************************************************************************)
ResolvedIsReady == \A w \in Waiters : waiter[w] = "resolved" => snapshot # None

(***************************************************************************)
(* However acceptSnapshot ends, no snapshot is given up and waits are      *)
(* resolved only by one.                                                   *)
(***************************************************************************)
LEMMA AcceptKeepsReady ==
  ASSUME TypeOK, ResolvedIsReady, NEW s, NEW from \in {"cache", "live"},
         AcceptSnapshot(s, from)
  PROVE  ResolvedIsReady'
<1>1. CASE Reject
  BY <1>1 DEF Reject, ResolvedIsReady
<1>2. CASE Ignore
  BY <1>2 DEF Ignore, ResolvedIsReady
<1>3. CASE Confirms
  BY <1>3 DEF Confirms, ResolvedIsReady
<1>4. CASE ~Rejects(s) /\ Newer(s) /\ Replace(s, from)
  <2>1. snapshot' = s /\ s # None
    BY <1>4, ReplaceIsNewer, SnapshotsAssumption DEF Replace
  <2> QED BY <2>1 DEF ResolvedIsReady
<1> QED BY <1>1, <1>2, <1>3, <1>4, AcceptCases

\* No step takes the snapshot away from those who were told it is there.
LEMMA ReadyStep ==
  ASSUME TypeOK, ResolvedIsReady, [Next]_vars
  PROVE  ResolvedIsReady'
<1>1. CASE Loaded
  <2>1. CASE closed \/ cacheFile = None
    BY <1>1, <2>1 DEF Loaded, Ignore, ResolvedIsReady
  <2>2. CASE ~(closed \/ cacheFile = None)
    BY <1>1, <2>2, AcceptKeepsReady DEF Loaded
  <2> QED BY <2>1, <2>2
<1>2. ASSUME NEW s \in Snapshots \cup {Invalid}, OnSnapshot(s)
      PROVE  ResolvedIsReady'
  BY <1>2, AcceptKeepsReady DEF OnSnapshot
<1>3. CASE OnHealthy
  BY <1>3 DEF OnHealthy, ResolvedIsReady
<1>4. CASE LoadFails \/ ConnectReturns \/ ConnectThrows
  BY <1>4 DEF LoadFails, ConnectReturns, ConnectThrows, Ignore, ResolvedIsReady
<1>5. CASE ConfirmationExpires \/ CheckStaleness
  BY <1>5 DEF ConfirmationExpires, CheckStaleness, Status, ResolvedIsReady
<1>6. ASSUME NEW w \in Waiters, WaitUntilReady(w) \/ WaiterTimesOut(w)
      PROVE  ResolvedIsReady'
  BY <1>6 DEF WaitUntilReady, WaiterTimesOut, SetWaiter, ResolvedIsReady, TypeOK
<1>7. CASE Save \/ SaveFails
  BY <1>7 DEF Save, SaveFails, SaveSettles, ResolvedIsReady
<1>8. CASE Close
  BY <1>8 DEF Close, ResolvedIsReady
<1>9. CASE AwaitsInitialization \/ AwaitsWrites
  BY <1>9 DEF AwaitsInitialization, AwaitsWrites, ResolvedIsReady
<1>10. ASSUME NEW b \in Bootstraps, Restart(b)
       PROVE  ResolvedIsReady'
  BY <1>10 DEF Restart, ResolvedIsReady
<1>11. CASE UNCHANGED vars
  BY <1>11 DEF vars, process, ResolvedIsReady
<1> QED BY <1>1, <1>2, <1>3, <1>4, <1>5, <1>6, <1>7, <1>8, <1>9, <1>10, <1>11
        DEF Next

\* Of a ruleset, evaluateFlag never says that there is none.
LEMMA OutcomeCodes ==
  ASSUME NEW outcome \in Outcomes
  PROVE  outcome.code \notin {"INVALID_CONFIGURATION", "PARSE_ERROR"}
BY DEF Outcomes

\* An answer that stands on a snapshot is no PARSE_ERROR and has its revision.
LEMMA AnswerWithSnapshot ==
  ASSUME TypeOK, snapshot # None, NEW outcome \in Outcomes
  PROVE  /\ Resolve(outcome).errorCode # "PARSE_ERROR"
         /\ Resolve(outcome).revision # None
<1>1. snapshot \in Snapshots
  BY DEF TypeOK
<1>2. snapshot.revision # None
  BY <1>1, NoneAssumption DEF Snapshots
<1>3. /\ Resolve(outcome).errorCode = ErrorCode(outcome.code)
      /\ Resolve(outcome).revision = snapshot.revision
  BY DEF Resolve, Details, Evaluate
<1> QED BY <1>2, <1>3, OutcomeCodes DEF ErrorCode

\* What the client guarantees gives the provider its word.
LEMMA ProviderFollows ==
  ASSUME TypeOK, CachedIsStale, ResolvedIsReady
  PROVE  ProviderKeepsItsWord
<1> SUFFICES ASSUME NEW outcome \in Outcomes
             PROVE  /\ (\E w \in Waiters : Initialize(w) = "resolved") =>
                         /\ Resolve(outcome).errorCode # "PARSE_ERROR"
                         /\ Resolve(outcome).revision # None
                         /\ ProviderStatus # "NOT_READY"
                    /\ Resolve(outcome).reason # "STALE" => sourceName # "cache"
  BY DEF ProviderKeepsItsWord
<1>1. ASSUME NEW w \in Waiters, Initialize(w) = "resolved"
      PROVE  snapshot # None
  BY <1>1 DEF Initialize, ResolvedIsReady
<1>2. snapshot # None => ProviderStatus # "NOT_READY"
  BY DEF ProviderStatus
<1>3. Resolve(outcome).reason # "STALE" => sourceName # "cache"
  BY DEF Resolve, Details, CachedIsStale
<1> QED BY <1>1, <1>2, <1>3, AnswerWithSnapshot

(***************************************************************************)
(* A provider whose initialize() has resolved never answers as if it had   *)
(* no ruleset, and marks what it knows from the cache alone, whatever the  *)
(* source, the cache, crashes and close do.                                *)
(***************************************************************************)
THEOREM ProviderCorrect == Spec => []ProviderKeepsItsWord
<1>1. Init => ResolvedIsReady
  BY DEF Init, ResolvedIsReady
<1>2. ClientInv /\ ResolvedIsReady /\ [Next]_vars => ResolvedIsReady'
  BY ReadyStep DEF ClientInv
<1>3. ClientInv /\ ResolvedIsReady => ProviderKeepsItsWord
  BY ProviderFollows DEF ClientInv
<1> QED BY <1>1, <1>2, <1>3, ClientCorrect, PTL DEF Spec

===============================================================================
