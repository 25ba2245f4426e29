------------------------------ MODULE FlagClient ------------------------------
(***************************************************************************)
(* The runtime of the SDK, packages/sdk/src/client.ts, with the file cache *)
(* of sources.ts: which snapshot it serves, whether it calls it stale, how *)
(* it starts, closes and survives a crash of its process.                  *)
(*                                                                         *)
(* The source is any FlagSource of contracts.ts: once connect is called it *)
(* delivers snapshots in any order, errors, and health confirmations after *)
(* the client has accepted a snapshot of it; some call the handlers while  *)
(* connect still runs.  The clock is abstracted to whether the last        *)
(* confirmation is older than staleAfterMs.                                *)
(***************************************************************************)
EXTENDS RulesetData, Sequences

CONSTANTS
  Waiters,           \* callers of waitUntilReady
  Invalid,           \* what validateRuleset refuses
  Environment,       \* options.environment, or None
  HasCache,          \* options.cache is given
  ListenersMayClose  \* may an event listener call close()?  The code allows it

ASSUME OptionsAssumption ==
  /\ Environment \in Envs \cup {None}
  /\ HasCache \in BOOLEAN
  /\ ListenersMayClose \in BOOLEAN

Snapshots == [env : Envs, revision : Revisions, content : Contents]

ASSUME SnapshotsAssumption == {None, Invalid} \cap Snapshots = {} /\ None # Invalid

VARIABLES
  snapshot,      \* this.snapshot
  sourceName,    \* this.sourceName, "live" for the kind of the source
  confirmed,     \* this.lastConfirmedAt: never, recent or expired
  stale,         \* this.stale
  closed,        \* this.closed
  closing,       \* where the first close() stands
  initializing,  \* where initialize() stands
  connection,    \* this.connection
  waiter,        \* each waiter's promise
  writes,        \* this.cacheWrite: the saves that have not settled
  cacheFile,     \* content of the cache file
  bootstrap,     \* options.bootstrap
  accepted,      \* the source had a snapshot accepted
  saveFailed,    \* the last save to settle in this process failed
  loadFailed,    \* the cache could not be used in this process
  observed       \* the last status a listener got from an event

process == <<snapshot, sourceName, confirmed, stale, closed, closing,
             initializing, connection, waiter, writes, accepted, saveFailed,
             loadFailed, observed, bootstrap>>

vars == <<process, cacheFile>>

Status(s, t) == [ready |-> s # None, stale |-> t]

-------------------------------------------------------------------------------
(* acceptSnapshot                                                          *)

(***************************************************************************)
(* The snapshot is valid and for the client's environment, which the first *)
(* one fixes if the options do not.                                        *)
(***************************************************************************)
ForThisClient(s) ==
  /\ s \in Snapshots
  /\ Environment # None => s.env = Environment
  /\ snapshot # None => s.env = snapshot.env

ChangedInPlace(s) ==
  snapshot # None /\ s.revision = snapshot.revision /\ s # snapshot

Older(s) == snapshot # None /\ s.revision < snapshot.revision

\* Mutant: any other revision counts as newer.
NewerOrOlder(s) == snapshot # None => s.revision # snapshot.revision

Newer(s) == snapshot # None => s.revision > snapshot.revision

Rejects(s) == ForThisClient(s) => ChangedInPlace(s)

(***************************************************************************)
(* rejectSnapshot: keep the snapshot, call it stale.                       *)
(***************************************************************************)
Reject ==
  /\ stale' = TRUE
  /\ observed' = IF stale THEN observed ELSE Status(snapshot, TRUE)
  /\ UNCHANGED <<snapshot, sourceName, confirmed, waiter, writes>>

ConfirmHealthy ==
  /\ confirmed' = "recent"
  /\ stale' = FALSE
  /\ observed' = IF stale THEN Status(snapshot, FALSE) ELSE observed

ResolveWaiters ==
  waiter' = [w \in Waiters |-> IF waiter[w] = "waiting" THEN "resolved"
                                                        ELSE waiter[w]]

\* Mutant: whatever is accepted counts as confirmed.
ReplaceConfirms(s, from) ==
  /\ snapshot' = s
  /\ sourceName' = from
  /\ confirmed' = "recent"
  /\ stale' = FALSE
  /\ writes' = IF HasCache /\ from = "live" THEN Append(writes, s) ELSE writes
  /\ ResolveWaiters
  /\ observed' = Status(s, stale')

(***************************************************************************)
(* A newer snapshot replaces the current one.  One from the cache is       *)
(* served as stale; one from the source is confirmed and queued for the    *)
(* cache.                                                                  *)
(***************************************************************************)
Replace(s, from) ==
  /\ snapshot' = s
  /\ sourceName' = from
  /\ confirmed' = IF from = "cache" THEN "never" ELSE "recent"
  /\ stale' = (from = "cache")
  /\ writes' = IF HasCache /\ from = "live" THEN Append(writes, s) ELSE writes
  /\ ResolveWaiters
  /\ observed' = Status(s, stale')

Ignore == UNCHANGED <<snapshot, sourceName, confirmed, stale, waiter, writes,
                      observed>>

AcceptSnapshot(s, from) ==
  \/ Rejects(s) /\ Reject
  \/ ~Rejects(s) /\ Older(s) /\ Ignore
  \/ /\ ~Rejects(s) /\ s = snapshot
     /\ IF from = "live"
        THEN /\ sourceName' = from
             /\ ConfirmHealthy
             /\ UNCHANGED <<snapshot, waiter, writes>>
        ELSE Ignore
  \/ ~Rejects(s) /\ Newer(s) /\ Replace(s, from)

-------------------------------------------------------------------------------
(* The constructor and initialize                                          *)

(***************************************************************************)
(* The snapshot the constructor takes from options.bootstrap.              *)
(***************************************************************************)
Booted(b) ==
  IF b \in Snapshots /\ (Environment # None => b.env = Environment)
  THEN b ELSE None

Bootstraps == Snapshots \cup {None, Invalid}

Init ==
  /\ bootstrap \in Bootstraps
  /\ snapshot = Booted(bootstrap)
  /\ sourceName = IF snapshot = None THEN "none" ELSE "bootstrap"
  /\ confirmed = IF snapshot = None THEN "never" ELSE "recent"
  /\ stale = (bootstrap # None /\ snapshot = None)
  /\ closed = FALSE
  /\ closing = "no"
  /\ initializing = IF HasCache THEN "loading" ELSE "connecting"
  /\ connection = "none"
  /\ waiter = [w \in Waiters |-> "none"]
  /\ writes = << >>
  /\ cacheFile = None
  /\ accepted = FALSE
  /\ saveFailed = FALSE
  /\ loadFailed = FALSE
  /\ observed = Status(snapshot, stale)

\* Mutant: initialize does not check for close after its await.
LoadedThenConnects ==
  /\ initializing = "loading"
  /\ initializing' = "connecting"
  /\ IF closed \/ cacheFile = None
     THEN Ignore /\ UNCHANGED loadFailed
     ELSE /\ AcceptSnapshot(cacheFile, "cache")
          /\ loadFailed' = Rejects(cacheFile)
  /\ UNCHANGED <<closed, closing, connection, accepted, saveFailed,
                 bootstrap, cacheFile>>

\* Mutant: a client with a bootstrap does not look at its cache.
LoadedWithoutBootstrap ==
  /\ initializing = "loading"
  /\ initializing' = IF closed THEN "done" ELSE "connecting"
  /\ IF closed \/ cacheFile = None \/ snapshot # None
     THEN Ignore /\ UNCHANGED loadFailed
     ELSE /\ AcceptSnapshot(cacheFile, "cache")
          /\ loadFailed' = Rejects(cacheFile)
  /\ UNCHANGED <<closed, closing, connection, accepted, saveFailed,
                 bootstrap, cacheFile>>

(***************************************************************************)
(* cache.load() resolves, with what the file holds, or rejects.  A client  *)
(* closed meanwhile takes nothing and does not connect.                    *)
(***************************************************************************)
Loaded ==
  /\ initializing = "loading"
  /\ initializing' = IF closed THEN "done" ELSE "connecting"
  /\ IF closed \/ cacheFile = None
     THEN Ignore /\ UNCHANGED loadFailed
     ELSE /\ AcceptSnapshot(cacheFile, "cache")
          /\ loadFailed' = Rejects(cacheFile)
  /\ UNCHANGED <<closed, closing, connection, accepted, saveFailed,
                 bootstrap, cacheFile>>

LoadFails ==
  /\ initializing = "loading"
  /\ initializing' = IF closed THEN "done" ELSE "connecting"
  /\ loadFailed' = TRUE
  /\ Ignore
  /\ UNCHANGED <<closed, closing, connection, accepted, saveFailed,
                 bootstrap, cacheFile>>

(***************************************************************************)
(* source.connect returns its connection, whatever happened meanwhile; or  *)
(* it throws.                                                              *)
(***************************************************************************)
Connecting == initializing \in {"connecting", "heard"}

ConnectReturns ==
  /\ Connecting
  /\ initializing' = "done"
  /\ connection' = "open"
  /\ Ignore
  /\ UNCHANGED <<closed, closing, accepted, saveFailed, loadFailed,
                 bootstrap, cacheFile>>

ConnectThrows ==
  /\ Connecting
  /\ initializing' = "done"
  /\ Ignore
  /\ UNCHANGED <<closed, closing, connection, accepted, saveFailed, loadFailed,
                 bootstrap, cacheFile>>

-------------------------------------------------------------------------------
(* What the source calls, also while connect runs and after close.         *)

Heard == initializing' = IF Connecting THEN "heard" ELSE initializing

SourceRuns == Connecting \/ connection # "none"

OnSnapshot(s) ==
  /\ SourceRuns
  /\ ~closed
  /\ AcceptSnapshot(s, "live")
  /\ accepted' = (accepted \/ (~Rejects(s) /\ ~Older(s)))
  /\ Heard
  /\ UNCHANGED <<closed, closing, connection, saveFailed, loadFailed,
                 bootstrap, cacheFile>>

OnHealthy ==
  /\ SourceRuns
  /\ ~closed
  /\ accepted
  /\ ConfirmHealthy
  /\ Heard
  /\ UNCHANGED <<snapshot, sourceName, closed, closing, connection, waiter,
                 writes, accepted, saveFailed, loadFailed, bootstrap,
                 cacheFile>>

-------------------------------------------------------------------------------
(* Timers                                                                  *)

ConfirmationExpires ==
  /\ ~Connecting
  /\ confirmed = "recent"
  /\ confirmed' = "expired"
  /\ UNCHANGED <<snapshot, sourceName, stale, closed, closing, initializing,
                 connection, waiter, writes, accepted, saveFailed, loadFailed,
                 observed, bootstrap, cacheFile>>

\* Mutant: no event when the confirmation expires.
CheckStalenessSilently ==
  /\ ~Connecting
  /\ ~closed
  /\ snapshot # None
  /\ confirmed = "expired"
  /\ ~stale
  /\ stale' = TRUE
  /\ UNCHANGED <<snapshot, sourceName, confirmed, closed, closing, initializing,
                 connection, waiter, writes, accepted, saveFailed, loadFailed,
                 observed, bootstrap, cacheFile>>

\* Mutant: only what the source delivered can become stale.
CheckStalenessOfSource ==
  /\ ~Connecting
  /\ ~closed
  /\ sourceName = "live"
  /\ confirmed = "expired"
  /\ ~stale
  /\ stale' = TRUE
  /\ observed' = Status(snapshot, TRUE)
  /\ UNCHANGED <<snapshot, sourceName, confirmed, closed, closing, initializing,
                 connection, waiter, writes, accepted, saveFailed, loadFailed,
                 bootstrap, cacheFile>>

CheckStaleness ==
  /\ ~Connecting
  /\ ~closed
  /\ snapshot # None
  /\ confirmed = "expired"
  /\ ~stale
  /\ stale' = TRUE
  /\ observed' = Status(snapshot, TRUE)
  /\ UNCHANGED <<snapshot, sourceName, confirmed, closed, closing, initializing,
                 connection, waiter, writes, accepted, saveFailed, loadFailed,
                 bootstrap, cacheFile>>

-------------------------------------------------------------------------------
(* waitUntilReady                                                          *)

SetWaiter(w, outcome) ==
  /\ waiter' = [waiter EXCEPT ![w] = outcome]
  /\ UNCHANGED <<snapshot, sourceName, confirmed, stale, closed, closing,
                 initializing, connection, writes, accepted, saveFailed,
                 loadFailed, observed, bootstrap, cacheFile>>

\* Mutant: a client that is connected counts as ready.
WaitUntilConnected(w) ==
  /\ ~Connecting
  /\ waiter[w] # "waiting"
  /\ SetWaiter(w, IF closed THEN "rejected"
                  ELSE IF snapshot # None \/ connection = "open" THEN "resolved"
                  ELSE "waiting")

WaitUntilReady(w) ==
  /\ ~Connecting
  /\ waiter[w] # "waiting"
  /\ SetWaiter(w, IF closed THEN "rejected"
                  ELSE IF snapshot # None THEN "resolved" ELSE "waiting")

WaiterTimesOut(w) ==
  /\ ~Connecting
  /\ waiter[w] = "waiting"
  /\ SetWaiter(w, "rejected")

-------------------------------------------------------------------------------
(* The cache's saves, one after the other.                                 *)

SaveSettles(file, failed) ==
  /\ ~Connecting
  /\ writes # << >>
  /\ writes' = Tail(writes)
  /\ cacheFile' = file
  /\ saveFailed' = failed
  /\ UNCHANGED <<snapshot, sourceName, confirmed, stale, closed, closing,
                 initializing, connection, waiter, accepted, loadFailed,
                 observed, bootstrap>>

\* Mutant: a save that failed keeps the one behind it from being made.
SaveUnlessOneFailed ==
  writes # << >> /\ SaveSettles(IF saveFailed THEN cacheFile ELSE Head(writes), FALSE)

Save == writes # << >> /\ SaveSettles(Head(writes), FALSE)

SaveFails == SaveSettles(cacheFile, TRUE)

-------------------------------------------------------------------------------
(* close                                                                   *)

\* Mutant: close does not reject the readiness waits.
CloseLeavesWaiters ==
  /\ ~closed
  /\ Connecting => ListenersMayClose /\ HasCache /\ initializing = "heard"
  /\ closed' = TRUE
  /\ closing' = "initialization"
  /\ connection' = IF connection = "open" THEN "closed" ELSE connection
  /\ UNCHANGED <<snapshot, sourceName, confirmed, stale, initializing, writes,
                 waiter, accepted, saveFailed, loadFailed, observed,
                 bootstrap, cacheFile>>

(***************************************************************************)
(* The first call, up to its first await; later ones return at once.  A    *)
(* listener can make it only in a turn that emitted an event; only a       *)
(* client with a cache is in the application's hands while connect runs.   *)
(***************************************************************************)
Close ==
  /\ ~closed
  /\ Connecting => ListenersMayClose /\ HasCache /\ initializing = "heard"
  /\ closed' = TRUE
  /\ closing' = "initialization"
  /\ connection' = IF connection = "open" THEN "closed" ELSE connection
  /\ waiter' = [w \in Waiters |-> IF waiter[w] = "waiting" THEN "rejected"
                                                          ELSE waiter[w]]
  /\ UNCHANGED <<snapshot, sourceName, confirmed, stale, initializing, writes,
                 accepted, saveFailed, loadFailed, observed,
                 bootstrap, cacheFile>>

\* Mutant: close waits for a connection that may not exist.
AwaitsConnection ==
  /\ closing = "initialization"
  /\ initializing = "done"
  /\ connection = "closed"
  /\ closing' = "writes"
  /\ UNCHANGED <<snapshot, sourceName, confirmed, stale, closed, initializing,
                 connection, waiter, writes, accepted, saveFailed, loadFailed,
                 observed, bootstrap, cacheFile>>

AwaitsInitialization ==
  /\ closing = "initialization"
  /\ initializing = "done"
  /\ closing' = "writes"
  /\ UNCHANGED <<snapshot, sourceName, confirmed, stale, closed, initializing,
                 connection, waiter, writes, accepted, saveFailed, loadFailed,
                 observed, bootstrap, cacheFile>>

AwaitsWrites ==
  /\ closing = "writes"
  /\ writes = << >>
  /\ closing' = "done"
  /\ UNCHANGED <<snapshot, sourceName, confirmed, stale, closed, initializing,
                 connection, waiter, writes, accepted, saveFailed, loadFailed,
                 observed, bootstrap, cacheFile>>

-------------------------------------------------------------------------------

(***************************************************************************)
(* The process ends at any point and another starts on the same cache      *)
(* file, with a bootstrap of its own.                                      *)
(***************************************************************************)
Restart(b) ==
  /\ bootstrap' = b
  /\ snapshot' = Booted(b)
  /\ sourceName' = IF Booted(b) = None THEN "none" ELSE "bootstrap"
  /\ confirmed' = IF Booted(b) = None THEN "never" ELSE "recent"
  /\ stale' = (b # None /\ Booted(b) = None)
  /\ closed' = FALSE
  /\ closing' = "no"
  /\ initializing' = IF HasCache THEN "loading" ELSE "connecting"
  /\ connection' = "none"
  /\ waiter' = [w \in Waiters |-> "none"]
  /\ writes' = << >>
  /\ accepted' = FALSE
  /\ saveFailed' = FALSE
  /\ loadFailed' = FALSE
  /\ observed' = Status(Booted(b), stale')
  /\ UNCHANGED cacheFile

Next ==
  \/ Loaded \/ LoadFails \/ ConnectReturns \/ ConnectThrows
  \/ \E s \in Snapshots \cup {Invalid} : OnSnapshot(s)
  \/ OnHealthy
  \/ ConfirmationExpires \/ CheckStaleness
  \/ \E w \in Waiters : WaitUntilReady(w) \/ WaiterTimesOut(w)
  \/ Save \/ SaveFails
  \/ Close \/ AwaitsInitialization \/ AwaitsWrites
  \/ \E b \in Bootstraps : Restart(b)

Spec == Init /\ [][Next]_vars

(***************************************************************************)
(* The cache's promises settle, connect returns, the staleness timer runs  *)
(* and the event loop resumes close.                                       *)
(***************************************************************************)
FairSpec ==
  /\ Spec
  /\ WF_vars(Loaded \/ LoadFails)
  /\ WF_vars(ConnectReturns \/ ConnectThrows)
  /\ WF_vars(Save \/ SaveFails)
  /\ WF_vars(CheckStaleness)
  /\ WF_vars(AwaitsInitialization)
  /\ WF_vars(AwaitsWrites)

-------------------------------------------------------------------------------
(* Properties                                                              *)

(***************************************************************************)
(* Snapshots that were accepted are valid, and each wait, call and save is *)
(* in a state of its life.                                                 *)
(***************************************************************************)
TypeOK ==
  /\ snapshot \in Snapshots \cup {None}
  /\ sourceName \in {"none", "bootstrap", "cache", "live"}
  /\ confirmed \in {"never", "recent", "expired"}
  /\ stale \in BOOLEAN
  /\ closed \in BOOLEAN
  /\ closing \in {"no", "initialization", "writes", "done"}
  /\ initializing \in {"loading", "connecting", "heard", "done"}
  /\ connection \in {"none", "open", "closed"}
  /\ waiter \in [Waiters -> {"none", "waiting", "resolved", "rejected"}]
  /\ writes \in Seq(Snapshots)
  /\ cacheFile \in Snapshots \cup {None}
  /\ bootstrap \in Bootstraps
  /\ accepted \in BOOLEAN
  /\ saveFailed \in BOOLEAN
  /\ loadFailed \in BOOLEAN
  /\ observed \in [ready : BOOLEAN, stale : BOOLEAN]

(***************************************************************************)
(* Within a process, whatever order bootstrap, cache, poll and stream      *)
(* deliver in, the served snapshot keeps its environment and changes only  *)
(* to a higher revision: no rollback, no edit in place.                    *)
(***************************************************************************)
SnapshotsOnlyAdvance ==
  [][snapshot' # snapshot /\ snapshot # None /\ ~(\E b \in Bootstraps : Restart(b)) =>
       /\ snapshot'.env = snapshot.env
       /\ snapshot'.revision > snapshot.revision]_vars

(***************************************************************************)
(* A snapshot known only from the cache is served as stale until the       *)
(* source delivers it or a newer one: errors, timers and health            *)
(* confirmations never make it look current.                               *)
(***************************************************************************)
CachedIsStale == sourceName = "cache" => stale /\ confirmed = "never"

(***************************************************************************)
(* An application that listens to the client's events has the readiness    *)
(* and staleness getStatus would return.                                   *)
(***************************************************************************)
ListenersKnowTheStatus == ~closed => observed = Status(snapshot, stale)

(***************************************************************************)
(* No one waits for readiness on a client that is ready or closed.         *)
(***************************************************************************)
NoWaiterIsForgotten ==
  \A w \in Waiters : waiter[w] = "waiting" => snapshot = None /\ ~closed

(***************************************************************************)
(* After close, callbacks still in flight in the source, the cache or the  *)
(* timers leave what evaluations see as it was.                            *)
(***************************************************************************)
ClosedIsFrozen ==
  [][closed /\ closed' => UNCHANGED <<snapshot, sourceName, stale>>]_vars

(***************************************************************************)
(* The last snapshot the source delivered is in the cache file or on its   *)
(* way there, unless it was the bootstrap or its own save failed: a save   *)
(* that fails stops none behind it (client.ts:141-144).                    *)
(***************************************************************************)
LastKnownGoodIsCached ==
  HasCache /\ sourceName = "live" /\ snapshot # bootstrap /\ ~saveFailed =>
    snapshot = IF writes = << >> THEN cacheFile ELSE writes[Len(writes)]

(***************************************************************************)
(* Over any number of crashes and restarts the cache file never goes back  *)
(* to a lower revision, unless this process could not use what it held.    *)
(***************************************************************************)
CacheNeverGoesBack ==
  [][cacheFile' # cacheFile /\ cacheFile # None /\ ~loadFailed =>
       cacheFile'.revision > cacheFile.revision]_vars

(***************************************************************************)
(* packages/sdk/README.md:54: when close() resolves, the saves have been   *)
(* drained.  For the first call.                                           *)
(***************************************************************************)
CloseDrains == closing = "done" => writes = << >> /\ initializing = "done"

(***************************************************************************)
(* packages/sdk/README.md:54: close() closes the source.                   *)
(***************************************************************************)
CloseClosesTheSource == closing = "done" => connection # "open"

(***************************************************************************)
(* close() resolves, whatever the cache and the source are doing.          *)
(***************************************************************************)
CloseResolves == closed ~> closing = "done" \/ ~closed

(***************************************************************************)
(* A client whose source has gone silent comes to say so.                  *)
(***************************************************************************)
SilenceIsReported ==
  snapshot # None /\ confirmed = "expired" ~> stale \/ closed \/ confirmed # "expired"

===============================================================================
