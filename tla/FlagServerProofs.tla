--------------------------- MODULE FlagServerProofs ---------------------------
(***************************************************************************)
(* Proofs about FlagServer, for any number of starts, requests and         *)
(* environments.                                                           *)
(***************************************************************************)
EXTENDS FlagServer, FiniteSetTheorems, TLAPS

(***************************************************************************)
(* A request or a response that holds its connection.                      *)
(***************************************************************************)
Active(r) == at[r] \notin {"idle", "left", "orphaned", "closed"}

(***************************************************************************)
(* Servers are numbered in the order they are made.                        *)
(***************************************************************************)
Numbered == Started \in Nat /\ {s \in Servers : net[s] # "none"} = 1 .. Started

(***************************************************************************)
(* Every response that is not idle came through a server and names an      *)
(* environment; one that has not been registered is in no Set.             *)
(***************************************************************************)
Routed ==
  \A r \in Responses :
    /\ at[r] # "idle" => via[r] \in Servers /\ env[r] \in Envs
    /\ at[r] \in {"idle", "reading", "body", "storing"} => home[r] = None

(***************************************************************************)
(* A response that has made a Set makes no other.                          *)
(***************************************************************************)
Made(r) == at[r] \in {"open", "ended", "destroyed", "closed"} \/ home[r] # None

SetsAreMade ==
  /\ \A r \in Responses : home[r] # None => Made(home[r])
  /\ \A e \in Envs : clients[e] # None => Made(clients[e])

(***************************************************************************)
(* An ended stream is in no Set of this.clients, a JSON answer in none.    *)
(***************************************************************************)
EndedAreForgotten ==
  \A r \in Responses : at[r] = "ended" =>
    home[r] = None \/ \A e \in Envs : clients[e] # home[r]

(***************************************************************************)
(* A Node server that has connections is not closed, one that closes has a *)
(* stop() that waits for it, and this.server has not been closed.          *)
(***************************************************************************)
ServersWait ==
  /\ \A r \in Responses : Active(r) => net[via[r]] \in {"listening", "closing"}
  /\ \A s \in Servers : net[s] = "closing" => stopping[s] = "pending"
  /\ server # 0 => net[server] \in {"binding", "listening"}

(***************************************************************************)
(* Unless start() was rushed, the running server has all connections, its  *)
(* streams are in the Sets of this.clients, and what has ended on it are   *)
(* JSON answers.                                                           *)
(***************************************************************************)
StreamsAreHeld ==
  ~rushed /\ server # 0 =>
    \A r \in Responses :
      /\ Active(r) => via[r] = server
      /\ at[r] = "ended" => home[r] = None
      /\ at[r] \in {"open", "destroyed"} => home[r] # None /\ clients[env[r]] = home[r]

ServerInv ==
  /\ TypeOK /\ Numbered /\ Routed
  /\ NothingRunsUnheld
  /\ SetsAreMade /\ EndedAreForgotten
  /\ ServersWait /\ StreamsAreHeld

-------------------------------------------------------------------------------
(* The servers                                                             *)

\* Servers that are as new as before are numbered as before.
LEMMA NumberedKept ==
  ASSUME Numbered, \A s \in Servers : net'[s] = "none" <=> net[s] = "none"
  PROVE  Numbered'
<1>1. {s \in Servers : net'[s] # "none"} = {s \in Servers : net[s] # "none"}
  OBVIOUS
<1> QED BY <1>1 DEF Numbered, Started

\* Before the first start no server has a number.
LEMMA InitHolds == Init => ServerInv
<1> SUFFICES ASSUME Init PROVE ServerInv
  OBVIOUS
<1>1. {s \in Servers : net[s] # "none"} = {}
  BY DEF Init
<1>2. Started = 0
  BY <1>1, FS_EmptySet DEF Started
<1>3. Numbered
  BY <1>1, <1>2 DEF Numbered
<1>4. TypeOK /\ Routed /\ NothingRunsUnheld
  BY DEF Init, TypeOK, Routed, NothingRunsUnheld
<1>5. SetsAreMade /\ EndedAreForgotten /\ ServersWait /\ StreamsAreHeld
  BY DEF Init, SetsAreMade, EndedAreForgotten, ServersWait, StreamsAreHeld, Active
<1> QED BY <1>3, <1>4, <1>5 DEF ServerInv

\* A start makes a server nobody has used.
LEMMA StartNumbers ==
  ASSUME TypeOK, Numbered, Start
  PROVE  /\ Started + 1 \in Servers /\ net[Started + 1] = "none"
         /\ Numbered'
<1> DEFINE s == Started + 1
           started == {t \in Servers : net[t] # "none"}
<1>1. s \in Servers /\ s \notin started
  BY FlagServerAssumption DEF Start, Numbered, Servers
<1>2. {t \in Servers : net'[t] # "none"} = started \cup {s}
  BY <1>1 DEF Start, TypeOK
<1>3. started \cup {s} = 1 .. s
  BY DEF Numbered
<1>4. Cardinality(1 .. s) = s
  BY FS_Interval DEF Numbered
<1>5. Started' = s
  BY <1>2, <1>3, <1>4 DEF Started
<1>6. Numbered'
  BY <1>2, <1>3, <1>5 DEF Numbered
<1> QED BY <1>1, <1>6

\* A start that is not rushed finds no connection of an earlier server.
LEMMA StartStep ==
  ASSUME ServerInv, Start
  PROVE  ServerInv'
<1> DEFINE s == Started + 1
<1> USE DEF ServerInv
<1>1. s \in Servers /\ net[s] = "none" /\ Numbered'
  BY StartNumbers
<1>2. /\ server = 0 /\ server' = s /\ timers' = timers \cup {s}
      /\ net' = [net EXCEPT ![s] = "binding"]
      /\ starting' = [starting EXCEPT ![s] = "pending"]
      /\ rushed' = (rushed \/ \E t \in Servers : stopping[t] = "pending")
      /\ UNCHANGED <<stopping, clients, at, via, env, home, late>>
  BY DEF Start, streams
<1>3. TypeOK'
  BY <1>1, <1>2 DEF TypeOK
<1>4. Routed' /\ SetsAreMade' /\ EndedAreForgotten'
  BY <1>2 DEF Routed, SetsAreMade, Made, EndedAreForgotten
<1>5. NothingRunsUnheld'
  <2>1. timers = {} /\ \A t \in Servers : net[t] \notin {"binding", "listening"}
    BY <1>2 DEF NothingRunsUnheld, TypeOK, Servers
  <2> QED BY <1>1, <1>2, <2>1 DEF NothingRunsUnheld, TypeOK
<1>6. ServersWait'
  <2>1. \A r \in Responses : Active(r) => via[r] \in Servers /\ via[r] # s
    BY <1>1 DEF Routed, Active, ServersWait
  <2>2. \A r \in Responses : Active(r)' <=> Active(r)
    BY <1>2 DEF Active
  <2> QED BY <1>1, <1>2, <2>1, <2>2 DEF ServersWait, TypeOK
<1>7. StreamsAreHeld'
  <2>1. SUFFICES ASSUME ~rushed' PROVE \A r \in Responses : ~Active(r)
    BY <1>2, <2>1 DEF StreamsAreHeld, Active
  <2>2. \A t \in Servers : stopping[t] # "pending"
    BY <1>2, <2>1, Zenon
  <2>3. \A t \in Servers : net[t] \notin {"listening", "closing"}
    BY <1>2, <2>2 DEF ServersWait, NothingRunsUnheld, Servers
  <2> QED BY <2>3 DEF ServersWait, Routed, Active
<1> QED BY <1>1, <1>3, <1>4, <1>5, <1>6, <1>7

\* A server that binds has no connections yet, and is the one this.server holds.
LEMMA BindStep ==
  ASSUME ServerInv, NEW s \in Servers, Listening(s) \/ BindFails(s)
  PROVE  ServerInv'
<1> USE DEF ServerInv
<1>1. /\ net[s] = "binding" /\ s = server /\ server # 0
      /\ UNCHANGED <<stopping, rushed, clients, at, via, env, home, late>>
  BY DEF Listening, BindFails, streams, NothingRunsUnheld, Servers
<1>2. \/ /\ net' = [net EXCEPT ![s] = "listening"]
         /\ starting' = [starting EXCEPT ![s] = "resolved"]
         /\ UNCHANGED <<server, timers>>
      \/ /\ net' = [net EXCEPT ![s] = "closed"]
         /\ starting' = [starting EXCEPT ![s] = "rejected"]
         /\ server' = 0 /\ timers' = timers \ {server}
  BY DEF Listening, BindFails
<1>3. TypeOK'
  BY <1>1, <1>2 DEF TypeOK
<1>4. Numbered'
  <2>1. \A t \in Servers : net'[t] = "none" <=> net[t] = "none"
    BY <1>1, <1>2 DEF TypeOK
  <2> QED BY <2>1, NumberedKept
<1>5. Routed' /\ SetsAreMade' /\ EndedAreForgotten'
  BY <1>1 DEF Routed, SetsAreMade, Made, EndedAreForgotten
<1>6. NothingRunsUnheld'
  BY <1>1, <1>2 DEF NothingRunsUnheld, TypeOK
<1>7. ServersWait'
  <2>1. \A r \in Responses : Active(r)' => via[r] \in Servers /\ via[r] # s /\ Active(r)
    BY <1>1 DEF Routed, Active, ServersWait
  <2> QED BY <1>1, <1>2, <2>1 DEF ServersWait, TypeOK
<1>8. StreamsAreHeld'
  BY <1>1, <1>2 DEF StreamsAreHeld, Active
<1> QED BY <1>3, <1>4, <1>5, <1>6, <1>7, <1>8

\* stop ends what it finds in the Sets, and leaves no Set.
LEMMA StopStep ==
  ASSUME ServerInv, Stop
  PROVE  ServerInv'
<1> USE DEF ServerInv
<1>1. /\ server \in Servers /\ net[server] \in {"binding", "listening"}
      /\ server' = 0 /\ timers' = timers \ {server}
      /\ clients' = [e \in Envs |-> None]
      /\ UNCHANGED <<starting, rushed, via, env, home, late>>
  BY DEF Stop, CloseServer, TypeOK, ServersWait
<1>2. /\ net' = [net EXCEPT ![server] = IF @ = "listening" THEN "closing" ELSE "closed"]
      /\ stopping' = [stopping EXCEPT ![server] =
                        IF net[server] = "listening" THEN "pending" ELSE "settled"]
  BY DEF Stop, CloseServer
<1>3. at' = [r \in Responses |-> IF r \in Reached /\ at[r] = "open"
                                 THEN "ended" ELSE at[r]]
  BY DEF Stop, EndReached
<1>4. TypeOK'
  BY <1>1, <1>2, <1>3 DEF TypeOK
<1>5. Numbered'
  <2>1. \A t \in Servers : net'[t] = "none" <=> net[t] = "none"
    BY <1>1, <1>2 DEF TypeOK
  <2> QED BY <2>1, NumberedKept
<1>6. Routed'
  BY <1>1, <1>3 DEF Routed
<1>7. NothingRunsUnheld'
  BY <1>1, <1>2 DEF NothingRunsUnheld, TypeOK
<1>8. SetsAreMade'
  <2>1. \A r \in Responses : Made(r) => Made(r)'
    BY <1>1, <1>3 DEF Made
  <2> QED BY <1>1, <2>1 DEF SetsAreMade, TypeOK
<1>9. EndedAreForgotten'
  <2>1. \A r \in Reached : home[r] # None
    BY DEF Reached, Members
  <2> QED BY <1>1, <1>3, <2>1 DEF EndedAreForgotten
<1>10. ServersWait'
  <2>1. \A r \in Responses : Active(r)' => via[r] \in Servers /\ Active(r)
    BY <1>3 DEF Routed, Active
  <2> QED BY <1>1, <1>2, <2>1 DEF ServersWait, TypeOK
<1>11. StreamsAreHeld'
  BY <1>1 DEF StreamsAreHeld
<1> QED BY <1>4, <1>5, <1>6, <1>7, <1>8, <1>9, <1>10, <1>11

\* A server closes when nothing holds a connection of it.
LEMMA ServerClosesStep ==
  ASSUME ServerInv, NEW s \in Servers, ServerCloses(s)
  PROVE  ServerInv'
<1> USE DEF ServerInv
<1>1. /\ net[s] = "closing" /\ \A r \in Responses : via[r] = s => ~Active(r)
      /\ net' = [net EXCEPT ![s] = "closed"]
      /\ stopping' = [stopping EXCEPT ![s] = "settled"]
      /\ UNCHANGED <<server, timers, starting, rushed>>
      /\ UNCHANGED <<clients, at, via, env, home, late>>
  BY DEF ServerCloses, streams, Active
<1>2. TypeOK'
  BY <1>1 DEF TypeOK
<1>3. Numbered'
  <2>1. \A t \in Servers : net'[t] = "none" <=> net[t] = "none"
    BY <1>1 DEF TypeOK
  <2> QED BY <2>1, NumberedKept
<1>4. Routed' /\ SetsAreMade' /\ EndedAreForgotten'
  BY <1>1 DEF Routed, SetsAreMade, Made, EndedAreForgotten
<1>5. NothingRunsUnheld'
  BY <1>1 DEF NothingRunsUnheld, TypeOK
<1>6. ServersWait'
  <2>1. \A r \in Responses : Active(r)' => via[r] \in Servers /\ via[r] # s /\ Active(r)
    BY <1>1 DEF Routed, Active
  <2> QED BY <1>1, <2>1 DEF ServersWait, TypeOK
<1>7. StreamsAreHeld'
  BY <1>1 DEF StreamsAreHeld, Active
<1> QED BY <1>2, <1>3, <1>4, <1>5, <1>6, <1>7

-------------------------------------------------------------------------------
(* The requests and streams                                                *)

(***************************************************************************)
(* What a response may become while no Set changes.                        *)
(***************************************************************************)
Moves(r) ==
  \/ at'[r] = at[r]
  \/ at[r] \in {"reading", "left"} /\ home[r] = None /\ at'[r] = Answered(r)
  \/ at[r] = "reading" /\ at'[r] = "left"
  \/ at[r] \in {"body", "storing"} /\ at'[r] \in {"storing", "orphaned", "closed"}
  \/ at[r] \in {"body", "storing"} /\ home[r] = None /\ at'[r] = "ended"
  \/ at[r] = "orphaned" /\ at'[r] = "closed"
  \/ at[r] = "open" /\ at'[r] = "destroyed"

\* Such moves end no stream, and make no connection or Set.
LEMMA MovesStep ==
  ASSUME ServerInv, UNCHANGED <<calls, clients, via, env, home, late>>,
         at' \in [Responses -> {at'[r] : r \in Responses}],
         \A r \in Responses : Moves(r)
  PROVE  ServerInv'
<1> USE DEF ServerInv
<1>1. /\ UNCHANGED <<server, timers, net, starting, stopping, rushed>>
      /\ UNCHANGED <<clients, via, env, home, late>>
  BY DEF calls
<1>2. TypeOK'
  <2>1. \A r \in Responses :
          at'[r] \in {"idle", "closed", "body", "storing", "orphaned", "reading",
                      "left", "open", "ended", "destroyed"}
    BY DEF TypeOK, Moves, Answered
  <2>2. at' \in [Responses -> {"idle", "closed", "body", "storing", "orphaned",
                               "reading", "left", "open", "ended", "destroyed"}]
    BY <2>1
  <2> QED BY <1>1, <2>2 DEF TypeOK
<1>3. Numbered' /\ NothingRunsUnheld'
  BY <1>1 DEF Numbered, Started, NothingRunsUnheld
<1>4. Routed'
  BY <1>1 DEF Routed, Moves, Answered
<1>5. SetsAreMade'
  <2>1. \A r \in Responses : Made(r) => Made(r)'
    BY <1>1 DEF Made, Moves, Answered
  <2> QED BY <1>1, <2>1 DEF SetsAreMade, TypeOK
<1>6. EndedAreForgotten'
  BY <1>1 DEF EndedAreForgotten, Moves, Answered
<1>7. \A r \in Responses : Active(r)' => Active(r)
  BY DEF Active, Moves, Answered
<1>8. ServersWait'
  BY <1>1, <1>7 DEF ServersWait
<1>9. StreamsAreHeld'
  BY <1>1, <1>7 DEF StreamsAreHeld, Moves, Answered
<1> QED BY <1>2, <1>3, <1>4, <1>5, <1>6, <1>8, <1>9

\* What is written to streams leaves them open or destroyed.
LEMMA WritesMove ==
  ASSUME NEW written, NEW before, NEW next \in AfterWriteTo(written, before)
  PROVE  \A r \in Responses :
           next[r] = before[r] \/ (at[r] = "open" /\ next[r] = "destroyed")
<1>1. PICK slow \in SUBSET {r \in written : at[r] = "open"} :
        next = [r \in Responses |-> IF r \in slow THEN "destroyed" ELSE before[r]]
  BY DEF AfterWriteTo
<1> QED BY <1>1

\* A request takes the running server, the only one that listens.
LEMMA RequestStep ==
  ASSUME ServerInv, NEW r \in Responses, Request(r)
  PROVE  ServerInv'
<1> USE DEF ServerInv
<1>1. PICK s \in Servers : net[s] = "listening" /\ via' = [via EXCEPT ![r] = s]
  BY DEF Request
<1>2. PICK e \in Envs : env' = [env EXCEPT ![r] = e]
  BY DEF Request
<1>3. PICK wait \in {"reading", "body"} : at' = [at EXCEPT ![r] = wait]
  BY DEF Request
<1>4. /\ at[r] = "idle" /\ home[r] = None
      /\ UNCHANGED <<server, timers, net, starting, stopping, rushed>>
      /\ UNCHANGED <<clients, home, late>>
  BY DEF Request, calls, Routed
<1>5. s = server
  BY <1>1 DEF NothingRunsUnheld
<1>6. TypeOK'
  BY <1>1, <1>2, <1>3, <1>4 DEF TypeOK
<1>7. Numbered' /\ NothingRunsUnheld'
  BY <1>4 DEF Numbered, Started, NothingRunsUnheld
<1>8. Routed'
  BY <1>1, <1>2, <1>3, <1>4 DEF Routed, TypeOK
<1>9. SetsAreMade'
  <2>1. \A q \in Responses : Made(q) => Made(q)'
    BY <1>3, <1>4 DEF Made, TypeOK
  <2> QED BY <1>4, <2>1 DEF SetsAreMade, TypeOK
<1>10. EndedAreForgotten'
  BY <1>3, <1>4 DEF EndedAreForgotten, TypeOK
<1>11. ServersWait'
  <2>1. \A q \in Responses : Active(q)' => q = r \/ (Active(q) /\ via'[q] = via[q])
    BY <1>1, <1>3 DEF Active, TypeOK
  <2> QED BY <1>1, <1>4, <2>1 DEF ServersWait, TypeOK
<1>12. StreamsAreHeld'
  <2>1. \A q \in Responses \ {r} :
          at'[q] = at[q] /\ via'[q] = via[q] /\ env'[q] = env[q]
    BY <1>1, <1>2, <1>3 DEF TypeOK
  <2>2. via'[r] = server /\ at'[r] \in {"reading", "body"}
    BY <1>1, <1>3, <1>5 DEF TypeOK
  <2> QED BY <1>4, <2>1, <2>2 DEF StreamsAreHeld, Active
<1> QED BY <1>6, <1>7, <1>8, <1>9, <1>10, <1>11, <1>12

\* A stream is put in its environment's Set, or in one nobody else is in.
LEMMA RegisterStep ==
  ASSUME ServerInv, NEW r \in Responses, Register(r)
  PROVE  ServerInv'
<1> DEFINE set == IF clients[env[r]] = None THEN r ELSE clients[env[r]]
<1> USE DEF ServerInv
<1>1. /\ at[r] \in {"reading", "left"} /\ home[r] = None /\ env[r] \in Envs
      /\ home' = [home EXCEPT ![r] = set]
      /\ clients' = [clients EXCEPT ![env[r]] = set]
      /\ late' \in {late, late \cup {r}}
      /\ UNCHANGED <<server, timers, net, starting, stopping, rushed, via, env>>
  BY DEF Register, Routed, calls
<1>2. at' = at \/ (at[r] = "reading" /\ at' = [at EXCEPT ![r] = "open"])
  BY DEF Register
<1>3. set \in Responses /\ set # None
  BY <1>1, FlagServerAssumption DEF TypeOK
<1>4. TypeOK'
  BY <1>1, <1>2, <1>3 DEF TypeOK
<1>5. Numbered' /\ NothingRunsUnheld'
  BY <1>1 DEF Numbered, Started, NothingRunsUnheld
<1>6. Routed'
  <2>1. CASE at[r] = "reading"
    <3>1. at' = [at EXCEPT ![r] = "open"]
      BY <2>1 DEF Register
    <3> QED BY <1>1, <3>1 DEF Routed, TypeOK
  <2>2. CASE at[r] = "left"
    <3>1. at' = at
      BY <1>2, <2>2
    <3> QED BY <1>1, <2>2, <3>1 DEF Routed, TypeOK
  <2> QED BY <1>1, <2>1, <2>2
<1>7. Made(r)' /\ \A q \in Responses : Made(q) => Made(q)'
  BY <1>1, <1>2, <1>3 DEF Made, TypeOK
<1>8. set = r \/ (clients[env[r]] # None /\ set = clients[env[r]])
  OBVIOUS
<1>9. SetsAreMade'
  <2>1. Made(set)'
    BY <1>1, <1>3, <1>7, <1>8 DEF SetsAreMade
  <2>2. \A q \in Responses : (home[q] # None => Made(home[q]))'
    BY <1>1, <1>7, <2>1 DEF SetsAreMade, TypeOK
  <2>3. \A e \in Envs : (clients[e] # None => Made(clients[e]))'
    BY <1>1, <1>7, <2>1 DEF SetsAreMade, TypeOK
  <2> QED BY <2>2, <2>3 DEF SetsAreMade
<1>10. EndedAreForgotten'
  <2>1. ~Made(r)
    BY <1>1 DEF Made
  <2>2. \A q \in Responses : at'[q] = "ended" => q # r /\ at[q] = "ended"
    BY <1>1, <1>2 DEF TypeOK
  <2>3. \A q \in Responses : at[q] = "ended" => home[q] # r
    BY <2>1, FlagServerAssumption DEF SetsAreMade, EndedAreForgotten
  <2>4. \A q \in Responses : at[q] = "ended" => home[q] # set
    BY <1>1, <1>8, <2>3 DEF EndedAreForgotten
  <2> QED BY <1>1, <2>2, <2>4 DEF EndedAreForgotten, TypeOK
<1>11. \A q \in Responses : Active(q)' => Active(q)
  BY <1>1, <1>2 DEF Active, TypeOK
<1>12. ServersWait'
  BY <1>1, <1>11 DEF ServersWait
<1>13. StreamsAreHeld'
  <2>1. \A q \in Responses \ {r} : at'[q] = at[q] /\ home'[q] = home[q]
    BY <1>1, <1>2 DEF TypeOK
  <2>2. at'[r] # "ended" /\ home'[r] # None /\ clients'[env[r]] = home'[r]
    BY <1>1, <1>2, <1>3 DEF TypeOK
  <2>3. \A q \in Responses :
          home[q] # None /\ clients[env[q]] = home[q] /\ at[q] \in {"open", "destroyed"}
            => clients'[env[q]] = clients[env[q]]
    BY <1>1, <1>8 DEF TypeOK, Routed
  <2> QED BY <1>1, <1>11, <2>1, <2>2, <2>3 DEF StreamsAreHeld
<1> QED BY <1>4, <1>5, <1>6, <1>9, <1>10, <1>12, <1>13

\* A stream that closes takes a Set of this.clients only if it is its last.
LEMMA CloseEventStep ==
  ASSUME ServerInv, NEW r \in Responses, CloseEvent(r)
  PROVE  ServerInv'
<1> USE DEF ServerInv
<1>1. /\ at[r] \in {"open", "ended", "destroyed"} /\ env[r] \in Envs
      /\ at' = [at EXCEPT ![r] = "closed"]
      /\ home' = [home EXCEPT ![r] = None]
      /\ UNCHANGED <<server, timers, net, starting, stopping, rushed, via, env, late>>
  BY DEF CloseEvent, Routed, calls
<1>2. \/ clients' = clients
      \/ Members(home[r]) = {r} /\ clients' = [clients EXCEPT ![env[r]] = None]
  BY DEF CloseEvent
<1>3. TypeOK'
  BY <1>1, <1>2 DEF TypeOK
<1>4. Numbered' /\ NothingRunsUnheld'
  BY <1>1 DEF Numbered, Started, NothingRunsUnheld
<1>5. Routed'
  BY <1>1 DEF Routed, TypeOK
<1>6. \A e \in Envs : clients'[e] \in {clients[e], None}
  BY <1>1, <1>2 DEF TypeOK
<1>7. SetsAreMade'
  <2>1. \A q \in Responses : Made(q) => Made(q)'
    BY <1>1 DEF Made, TypeOK
  <2> QED BY <1>1, <1>6, <2>1 DEF SetsAreMade, TypeOK
<1>8. EndedAreForgotten'
  BY <1>1, <1>6 DEF EndedAreForgotten, TypeOK
<1>9. \A q \in Responses : Active(q)' => Active(q) /\ q # r
  BY <1>1 DEF Active, TypeOK
<1>10. ServersWait'
  BY <1>1, <1>9 DEF ServersWait
<1>11. StreamsAreHeld'
  <2>1. SUFFICES ASSUME ~rushed, server # 0, NEW q \in Responses,
                        q # r, at[q] \in {"open", "destroyed"}
                 PROVE  home[q] # None /\ clients'[env[q]] = home[q]
    BY <1>1, <1>9, <2>1 DEF StreamsAreHeld, TypeOK
  <2>2. /\ home[q] # None /\ clients[env[q]] = home[q]
        /\ home[r] = None \/ clients[env[r]] = home[r]
    BY <1>1, <2>1 DEF StreamsAreHeld, Active
  <2>3. CASE env[q] = env[r]
    <3>1. CASE home[r] = None
      BY <1>2, <2>2, <3>1 DEF Members
    <3>2. CASE home[r] # None
      <4>1. q \in Members(home[r])
        BY <2>2, <2>3, <3>2 DEF Members
      <4> QED BY <1>2, <2>1, <2>2, <4>1
    <3> QED BY <3>1, <3>2
  <2>4. CASE env[q] # env[r]
    BY <1>1, <1>2, <2>1, <2>2, <2>4 DEF Routed, TypeOK
  <2> QED BY <2>3, <2>4
<1> QED BY <1>3, <1>4, <1>5, <1>7, <1>8, <1>10, <1>11

-------------------------------------------------------------------------------
(* The theorems                                                            *)

\* No step of the server breaks the invariant.
LEMMA StepHolds == ServerInv /\ [Next]_vars => ServerInv'
<1> SUFFICES ASSUME ServerInv, [Next]_vars PROVE ServerInv'
  OBVIOUS
<1>1. CASE Start
  BY <1>1, StartStep
<1>2. CASE Stop
  BY <1>2, StopStep
<1>3. ASSUME NEW s \in Servers, Listening(s) \/ BindFails(s)
      PROVE  ServerInv'
  BY <1>3, BindStep
<1>4. ASSUME NEW s \in Servers, ServerCloses(s)
      PROVE  ServerInv'
  BY <1>4, ServerClosesStep
<1>5. ASSUME NEW r \in Responses, Request(r) \/ Register(r) \/ CloseEvent(r)
      PROVE  ServerInv'
  BY <1>5, RequestStep, RegisterStep, CloseEventStep
<1>6. ASSUME NEW r \in Responses,
             LeavesEarly(r) \/ NotFound(r) \/ RefuseBody(r) \/ TakeBody(r)
      PROVE  ServerInv'
  <2>1. PICK next : at' = [at EXCEPT ![r] = next] /\ Moves(r)
    BY <1>6 DEF LeavesEarly, NotFound, RefuseBody, TakeBody, Moves, Answered, TypeOK,
                Routed, ServerInv
  <2>2. \A q \in Responses : Moves(q)
    BY <2>1 DEF Moves, TypeOK, ServerInv
  <2>3. at' \in [Responses -> {at'[q] : q \in Responses}]
    BY <2>1 DEF TypeOK, ServerInv
  <2>4. UNCHANGED <<calls, clients, via, env, home, late>>
    BY <1>6 DEF LeavesEarly, NotFound, RefuseBody, TakeBody
  <2> QED BY <2>2, <2>3, <2>4, MovesStep
<1>7. ASSUME NEW r \in Responses, FinishPut(r)
      PROVE  ServerInv'
  <2> DEFINE answered == [at EXCEPT ![r] = Answered(r)]
  <2>1. at' = answered \/ at' \in AfterWriteTo(Members(clients[env[r]]), answered)
    BY <1>7 DEF FinishPut
  <2>2. \A q \in Responses :
          at'[q] = answered[q] \/ (at[q] = "open" /\ at'[q] = "destroyed")
    <3>1. CASE at' = answered
      BY <3>1
    <3>2. CASE at' \in AfterWriteTo(Members(clients[env[r]]), answered)
      <4> HIDE DEF answered
      <4> QED BY <3>2, WritesMove
    <3> QED BY <2>1, <3>1, <3>2
  <2>3. \A q \in Responses : Moves(q)
    BY <1>7, <2>2 DEF FinishPut, Moves, Answered, TypeOK, Routed, ServerInv
  <2>4. at' \in [Responses -> {at'[q] : q \in Responses}]
    BY <2>1 DEF AfterWriteTo, TypeOK, ServerInv
  <2> QED BY <1>7, <2>3, <2>4, MovesStep DEF FinishPut
<1>8. CASE Heartbeat
  <2>1. \A q \in Responses : Moves(q)
    BY <1>8, WritesMove DEF Heartbeat, Moves
  <2>2. at' \in [Responses -> {at'[q] : q \in Responses}]
    BY <1>8 DEF Heartbeat, AfterWriteTo
  <2> QED BY <1>8, <2>1, <2>2, MovesStep DEF Heartbeat
<1>9. CASE UNCHANGED vars
  <2>1. \A q \in Responses : Moves(q)
    BY <1>9 DEF vars, streams, Moves
  <2>2. at' \in [Responses -> {at'[q] : q \in Responses}]
    BY <1>9 DEF vars, streams, TypeOK, ServerInv
  <2> QED BY <1>9, <2>1, <2>2, MovesStep DEF vars, streams
<1> QED BY <1>1, <1>2, <1>3, <1>4, <1>5, <1>6, <1>7, <1>8, <1>9 DEF Next

\* The invariant holds in every state of every run.
LEMMA ServerCorrect == Spec => []ServerInv
BY InitHolds, StepHolds, PTL DEF Spec

(***************************************************************************)
(* start and stop leave no heartbeat and no listening server behind that   *)
(* stop can no longer end: the catch clause of start and stop itself undo  *)
(* all that start did.                                                     *)
(***************************************************************************)
THEOREM NothingLeftRunning == Spec => []NothingRunsUnheld
<1>1. ServerInv => NothingRunsUnheld
  BY DEF ServerInv
<1> QED BY <1>1, ServerCorrect, PTL

(***************************************************************************)
(* An open stream of a running server that was not started too early is in *)
(* the Set that broadcasts and heartbeats go through.                      *)
(***************************************************************************)
THEOREM StreamsHearBroadcasts == Spec => []OpenStreamsAreReached
<1>1. ASSUME ServerInv PROVE OpenStreamsAreReached
  <2>1. SUFFICES ASSUME NEW r \in Responses,
                        at[r] = "open", via[r] = server, ~rushed
                 PROVE  r \in Reached
    BY DEF OpenStreamsAreReached
  <2>2. server # 0 /\ env[r] \in Envs
    BY <1>1, <2>1 DEF ServerInv, Routed, Servers
  <2>3. home[r] # None /\ clients[env[r]] = home[r]
    BY <1>1, <2>1, <2>2 DEF ServerInv, StreamsAreHeld
  <2> QED BY <2>2, <2>3 DEF Reached, Members
<1> QED BY <1>1, ServerCorrect, PTL

(***************************************************************************)
(* Neither a broadcast nor a heartbeat writes to a stream that stop ended, *)
(* however often the server is started again.                              *)
(***************************************************************************)
THEOREM EndedIsNotWritten == Spec => []NoWriteAfterEnd
<1>1. ASSUME ServerInv PROVE NoWriteAfterEnd
  BY <1>1 DEF ServerInv, EndedAreForgotten, NoWriteAfterEnd, Reached, Members
<1> QED BY <1>1, ServerCorrect, PTL

===============================================================================
