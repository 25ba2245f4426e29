------------------------------ MODULE FlagServer ------------------------------
(***************************************************************************)
(* The life of one FlagServer, packages/server/src/server.ts: start, stop, *)
(* the heartbeat, and the PUTs and event streams that are under way        *)
(* meanwhile.  Delivery has what the streams carry; here they are counted. *)
(*                                                                         *)
(* Each start makes a Node server of its own, numbered.  Of Node: a server *)
(* that is closed while it binds never listens, and one that closes waits  *)
(* for its connections.  A Set of this.clients is named by the response it *)
(* was made for, since two Sets of one environment may be alive.           *)
(***************************************************************************)
EXTENDS Naturals, FiniteSets

CONSTANTS
  Responses,  \* responses to PUT /v1/rulesets/:environment and to GET of its
              \* stream
  Envs,       \* environments
  MaxStarts,  \* bound: calls of start that get past its guard
  None

ASSUME FlagServerAssumption ==
  /\ None \notin Responses
  /\ MaxStarts \in Nat

Servers == 1 .. MaxStarts

VARIABLES
  server,   \* this.server, 0 if undefined
  timers,   \* the servers whose heartbeat interval runs
  net,      \* each Node server: none, binding, listening, closing or closed
  starting, \* each start(): none, pending, resolved or rejected
  stopping, \* each stop(): none, pending or settled
  clients,  \* this.clients: the Set of an environment, or None
  at,       \* each response: idle or closed; of a PUT: body (readJson is under
            \* way), storing (waits in store.put) or orphaned (that, without a
            \* connection); of a stream: reading (waits in store.get), left
            \* (that, without a connection), open or destroyed; of both: ended,
            \* and the client has yet to read the rest or to go
  via,      \* the server a response came through
  env,      \* its environment, or None
  home,     \* the Set it is in, or None
  late,     \* the responses registered after stop() cleared this.clients
  rushed    \* a start() was called while a stop() was pending

calls == <<server, timers, net, starting, stopping, rushed>>
streams == <<clients, at, via, env, home, late>>
vars == <<calls, streams>>

Members(set) == {r \in Responses : set # None /\ home[r] = set}

(***************************************************************************)
(* What a broadcast or a heartbeat writes to.                              *)
(***************************************************************************)
Reached == UNION {Members(clients[e]) : e \in Envs}

Init ==
  /\ server = 0
  /\ timers = {}
  /\ net = [s \in Servers |-> "none"]
  /\ starting = [s \in Servers |-> "none"]
  /\ stopping = [s \in Servers |-> "none"]
  /\ clients = [e \in Envs |-> None]
  /\ at = [r \in Responses |-> "idle"]
  /\ via = [r \in Responses |-> 0]
  /\ env = [r \in Responses |-> None]
  /\ home = [r \in Responses |-> None]
  /\ late = {}
  /\ rushed = FALSE

-------------------------------------------------------------------------------
(* start                                                                   *)

Started == Cardinality({s \in Servers : net[s] # "none"})

(***************************************************************************)
(* The interval runs before the server is bound.                           *)
(***************************************************************************)
Start ==
  /\ server = 0
  /\ Started < MaxStarts
  /\ LET s == Started + 1
     IN  /\ server' = s
         /\ timers' = timers \cup {s}
         /\ net' = [net EXCEPT ![s] = "binding"]
         /\ starting' = [starting EXCEPT ![s] = "pending"]
  /\ rushed' = (rushed \/ \E s \in Servers : stopping[s] = "pending")
  /\ UNCHANGED <<stopping, streams>>

Listening(s) ==
  /\ net[s] = "binding"
  /\ net' = [net EXCEPT ![s] = "listening"]
  /\ starting' = [starting EXCEPT ![s] = "resolved"]
  /\ UNCHANGED <<server, timers, stopping, rushed, streams>>

\* Mutant: the catch clause leaves the interval.
BindFailsQuietly(s) ==
  /\ net[s] = "binding"
  /\ net' = [net EXCEPT ![s] = "closed"]
  /\ server' = 0
  /\ starting' = [starting EXCEPT ![s] = "rejected"]
  /\ UNCHANGED <<timers, stopping, rushed, streams>>

(***************************************************************************)
(* The catch clause undoes what start has done.                            *)
(***************************************************************************)
BindFails(s) ==
  /\ net[s] = "binding"
  /\ net' = [net EXCEPT ![s] = "closed"]
  /\ timers' = timers \ {server}
  /\ server' = 0
  /\ starting' = [starting EXCEPT ![s] = "rejected"]
  /\ UNCHANGED <<stopping, rushed, streams>>

-------------------------------------------------------------------------------
(* stop                                                                    *)

EndReached == at' = [r \in Responses |-> IF r \in Reached /\ at[r] = "open"
                                         THEN "ended" ELSE at[r]]

CloseServer ==
  /\ server' = 0
  /\ net' = [net EXCEPT ![server] = IF @ = "listening" THEN "closing" ELSE "closed"]
  /\ stopping' = [stopping EXCEPT ![server] =
                    IF net[server] = "listening" THEN "pending" ELSE "settled"]

\* Mutant: the streams that were ended stay in this.clients.
StopKeepsClients ==
  /\ server # 0
  /\ timers' = timers \ {server}
  /\ EndReached
  /\ CloseServer
  /\ UNCHANGED <<starting, rushed, clients, via, env, home, late>>

\* Mutant: this.clients is cleared before its streams are ended.
StopClearsFirst ==
  /\ server # 0
  /\ timers' = timers \ {server}
  /\ clients' = [e \in Envs |-> None]
  /\ CloseServer
  /\ UNCHANGED <<starting, rushed, at, via, env, home, late>>

(***************************************************************************)
(* End and forget every stream, then close the Node server: at once if it  *)
(* does not listen yet, and else when its connections have ended.          *)
(***************************************************************************)
Stop ==
  /\ server # 0
  /\ timers' = timers \ {server}
  /\ EndReached
  /\ clients' = [e \in Envs |-> None]
  /\ CloseServer
  /\ UNCHANGED <<starting, rushed, via, env, home, late>>

ServerCloses(s) ==
  /\ net[s] = "closing"
  /\ \A r \in Responses :
       via[r] = s => at[r] \in {"idle", "left", "orphaned", "closed"}
  /\ net' = [net EXCEPT ![s] = "closed"]
  /\ stopping' = [stopping EXCEPT ![s] = "settled"]
  /\ UNCHANGED <<server, timers, starting, rushed, streams>>

-------------------------------------------------------------------------------
(* GET of a stream                                                         *)

(***************************************************************************)
(* A request that is routed and authorized: a GET waits for store.get, a   *)
(* PUT for its body.                                                       *)
(***************************************************************************)
Request(r) ==
  /\ at[r] = "idle"
  /\ \E s \in Servers : net[s] = "listening" /\ via' = [via EXCEPT ![r] = s]
  /\ \E e \in Envs : env' = [env EXCEPT ![r] = e]
  /\ \E wait \in {"reading", "body"} : at' = [at EXCEPT ![r] = wait]
  /\ UNCHANGED <<calls, clients, home, late>>

(***************************************************************************)
(* A JSON answer ends the response: its connection, if there still is one, *)
(* is the client's until it has read that.                                 *)
(***************************************************************************)
Answered(r) == IF at[r] \in {"left", "orphaned"} THEN "closed" ELSE "ended"

(***************************************************************************)
(* The store fails or has no such environment: a JSON answer.              *)
(***************************************************************************)
NotFound(r) ==
  /\ at[r] \in {"reading", "left"} /\ home[r] = None
  /\ at' = [at EXCEPT ![r] = Answered(r)]
  /\ UNCHANGED <<calls, clients, via, env, home, late>>

(***************************************************************************)
(* store.get answers: into the environment's Set, or a new one.  A client  *)
(* that left meanwhile is registered too.                                  *)
(***************************************************************************)
Register(r) ==
  /\ \/ at[r] = "reading" /\ at' = [at EXCEPT ![r] = "open"]
     \/ at[r] = "left" /\ home[r] = None /\ UNCHANGED at
  /\ LET set == IF clients[env[r]] = None THEN r ELSE clients[env[r]]
     IN  /\ home' = [home EXCEPT ![r] = set]
         /\ clients' = [clients EXCEPT ![env[r]] = set]
  /\ late' = IF net[via[r]] = "closing" THEN late \cup {r} ELSE late
  /\ UNCHANGED <<calls, via, env>>

(***************************************************************************)
(* The connection ends while the handler waits for the store.              *)
(***************************************************************************)
LeavesEarly(r) ==
  /\ at[r] \in {"reading", "storing"}
  /\ at' = [at EXCEPT ![r] = IF @ = "reading" THEN "left" ELSE "orphaned"]
  /\ UNCHANGED <<calls, clients, via, env, home, late>>

\* Mutant: the handler takes the environment out whoever else is in its Set.
CloseEventTakesAll(r) ==
  /\ at[r] \in {"open", "ended", "destroyed"}
  /\ at' = [at EXCEPT ![r] = "closed"]
  /\ home' = [home EXCEPT ![r] = None]
  /\ clients' = [clients EXCEPT ![env[r]] = None]
  /\ UNCHANGED <<calls, via, env, late>>

(***************************************************************************)
(* The connection has ended, by itself or not.  The handler knows the Set  *)
(* it put the response in, and takes whatever Set the environment has now. *)
(* A JSON answer has no such handler, and is in no Set.                    *)
(***************************************************************************)
CloseEvent(r) ==
  /\ at[r] \in {"open", "ended", "destroyed"}
  /\ at' = [at EXCEPT ![r] = "closed"]
  /\ home' = [home EXCEPT ![r] = None]
  /\ clients' = IF Members(home[r]) = {r} THEN [clients EXCEPT ![env[r]] = None]
                                          ELSE clients
  /\ UNCHANGED <<calls, via, env, late>>

-------------------------------------------------------------------------------
(* PUT, and what is written to the streams                                 *)

(***************************************************************************)
(* readJson throws: the body is too large, missing or no JSON, the client  *)
(* has gone, or Node's requestTimeout has passed.  Or it is no ruleset.    *)
(* None of it must happen: closing a server ends its watch over timeouts.  *)
(***************************************************************************)
RefuseBody(r) ==
  /\ at[r] = "body"
  /\ at' = [at EXCEPT ![r] = Answered(r)]
  /\ UNCHANGED <<calls, clients, via, env, home, late>>

TakeBody(r) ==
  /\ at[r] = "body"
  /\ at' = [at EXCEPT ![r] = "storing"]
  /\ UNCHANGED <<calls, clients, via, env, home, late>>

(***************************************************************************)
(* Any of those written to may be slow, and is destroyed.                  *)
(***************************************************************************)
AfterWriteTo(written, before) ==
  {[r \in Responses |-> IF r \in slow THEN "destroyed" ELSE before[r]] :
     slow \in SUBSET {r \in written : at[r] = "open"}}

(***************************************************************************)
(* store.put settles: broadcast what is stored, and answer.  The server    *)
(* may have been stopped, and started again, since the request came.       *)
(***************************************************************************)
FinishPut(r) ==
  /\ at[r] \in {"storing", "orphaned"}
  /\ LET answered == [at EXCEPT ![r] = Answered(r)]
     IN  at' \in {answered} \cup AfterWriteTo(Members(clients[env[r]]), answered)
  /\ UNCHANGED <<calls, clients, via, env, home, late>>

Heartbeat ==
  /\ timers # {}
  /\ at' \in AfterWriteTo(Reached, at)
  /\ UNCHANGED <<calls, clients, via, env, home, late>>

-------------------------------------------------------------------------------

Next ==
  \/ Start
  \/ Stop
  \/ \E s \in Servers : Listening(s) \/ BindFails(s) \/ ServerCloses(s)
  \/ \E r \in Responses :
       \/ Request(r) \/ LeavesEarly(r)
       \/ NotFound(r) \/ Register(r) \/ CloseEvent(r)
       \/ RefuseBody(r) \/ TakeBody(r) \/ FinishPut(r)
  \/ Heartbeat

Spec == Init /\ [][Next]_vars

(***************************************************************************)
(* The store settles what it is asked, a destroyed response closes, and    *)
(* Node says when a server has closed.  Clients owe nothing: a body may    *)
(* stall, an ended response may never be read out, and a stream may stay.  *)
(***************************************************************************)
FairSpec ==
  /\ Spec
  /\ \A r \in Responses :
       /\ WF_vars(NotFound(r) \/ Register(r) \/ FinishPut(r))
       /\ WF_vars(at[r] = "destroyed" /\ CloseEvent(r))
  /\ \A s \in Servers : WF_vars(ServerCloses(s))

-------------------------------------------------------------------------------
(* Properties                                                              *)

TypeOK ==
  /\ server \in Servers \cup {0}
  /\ timers \subseteq Servers
  /\ net \in [Servers -> {"none", "binding", "listening", "closing", "closed"}]
  /\ starting \in [Servers -> {"none", "pending", "resolved", "rejected"}]
  /\ stopping \in [Servers -> {"none", "pending", "settled"}]
  /\ clients \in [Envs -> Responses \cup {None}]
  /\ at \in [Responses -> {"idle", "closed", "body", "storing", "orphaned", "reading",
                           "left", "open", "ended", "destroyed"}]
  /\ via \in [Responses -> Servers \cup {0}]
  /\ env \in [Responses -> Envs \cup {None}]
  /\ home \in [Responses -> Responses \cup {None}]
  /\ late \subseteq Responses
  /\ rushed \in BOOLEAN

(***************************************************************************)
(* start and stop, in any order and at any point of each other, leave no   *)
(* heartbeat and no listening server behind that stop can no longer end.   *)
(***************************************************************************)
NothingRunsUnheld ==
  timers \cup {s \in Servers : net[s] \in {"binding", "listening"}} \subseteq {server}

(***************************************************************************)
(* An open stream of the running server gets every broadcast and every     *)
(* heartbeat, unless the server was started again before it had stopped.   *)
(***************************************************************************)
OpenStreamsAreReached ==
  \A r \in Responses :
    at[r] = "open" /\ via[r] = server /\ ~rushed => r \in Reached

(***************************************************************************)
(* Nothing is written to a response that stop has ended: Node would raise  *)
(* an error that nobody handles, and end the process.                      *)
(***************************************************************************)
NoWriteAfterEnd == \A r \in Reached : at[r] # "ended"

(***************************************************************************)
(* Clients that can keep a server from closing: one that has not sent its  *)
(* body or not read its answer to the end, and one with a stream that stop *)
(* did not end, because it was registered later or in a rushed start.      *)
(***************************************************************************)
HeldByClient(r) ==
  \/ at[r] \in {"body", "ended"}
  \/ at[r] = "open" /\ (r \in late \/ rushed)

(***************************************************************************)
(* stop() stays pending only while such a client holds on: once all have   *)
(* gone it settles, whatever the store, the heartbeat and other servers    *)
(* were doing when it was called.                                          *)
(***************************************************************************)
StopWaitsOnlyForClients ==
  \A s \in Servers :
    <>[](stopping[s] = "pending") =>
      <>[](\E r \in Responses : via[r] = s /\ HeldByClient(r))

===============================================================================
