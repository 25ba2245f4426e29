------------------------------- MODULE Delivery -------------------------------
(***************************************************************************)
(* How a stored ruleset reaches the clients: the server's GET, stream and  *)
(* PUT handlers with their broadcast (server.ts), and the HTTP source's    *)
(* conditional polling and event stream (sources.ts), which hand every     *)
(* snapshot to the client (client.ts).                                     *)
(*                                                                         *)
(* One environment.  The store is durable and serial, so a revision stands *)
(* for its ruleset; FileRulesetStore is the module about that.  Polls and  *)
(* streams fail at any point; a stream may die on one side only.           *)
(***************************************************************************)
EXTENDS RulesetReplica, Sequences

CONSTANTS
  MaxFrames,  \* what a response buffers before write() returns false
  Streams     \* options.stream is not false

ASSUME DeliveryAssumption ==
  /\ MaxFrames \in Nat \ {0}
  /\ Streams \in BOOLEAN

VARIABLES
  unannounced,     \* stored, and handle has not broadcast it yet
  registered,      \* this.clients: the streams the server writes to
  reading,         \* what a stream handler has read and not yet sent, or 0
  frames,          \* written to a stream and not consumed
  stream,          \* the source's stream: waiting, requested or open; or the
                   \* source is closed
  acceptedLatest,  \* consumeStream's acceptedLatestSnapshot
  poll,            \* the conditional GET on its way
  refreshing,      \* refreshing # undefined
  etag,            \* the source's etag, or 0
  fresh,           \* confirmed less than staleAfterMs ago
  answersAtOnce    \* store.get settles within one turn, as that of both stores
                   \* does; it never changes

server == <<stored, unannounced, registered, reading, answersAtOnce>>
streaming == <<frames, stream, acceptedLatest>>
polling == <<poll, refreshing, etag>>
vars == <<server, snapshot, streaming, polling, fresh>>

Known == 1 .. MaxRevision
Heartbeat == 0

Idle == [at |-> "idle"]
Request(e) == [at |-> "request", etag |-> e]
NotModified(e) == [at |-> "304", etag |-> e]
Body(r) == [at |-> "200", revision |-> r]

DeliveryInit ==
  /\ Init
  /\ unannounced = {}
  /\ registered = {}
  /\ reading = [c \in Clients |-> 0]
  /\ frames = [c \in Clients |-> << >>]
  /\ stream = [c \in Clients |-> "waiting"]
  /\ acceptedLatest = [c \in Clients |-> FALSE]
  /\ poll = [c \in Clients |-> Idle]
  /\ refreshing = [c \in Clients |-> FALSE]
  /\ etag = [c \in Clients |-> 0]
  /\ fresh = [c \in Clients |-> FALSE]
  /\ answersAtOnce \in BOOLEAN

-------------------------------------------------------------------------------
(* The server                                                              *)

(***************************************************************************)
(* handle, PUT: store.put has resolved and handle will resume.             *)
(***************************************************************************)
Put ==
  /\ Publish
  /\ unannounced' = unannounced \cup {stored'}
  /\ UNCHANGED <<registered, reading, streaming, polling, fresh, answersAtOnce>>

\* Mutant: a write that returns false is lost and the response lives on.
WriteToAllButSlow(frame) ==
  /\ frames' = [c \in Clients |-> IF c \in registered /\ Len(frames[c]) < MaxFrames
                                  THEN Append(frames[c], frame) ELSE frames[c]]
  /\ UNCHANGED registered

(***************************************************************************)
(* Write to every registered response; one whose buffer is full is         *)
(* destroyed, which unregisters it.                                        *)
(***************************************************************************)
WriteToAll(frame) ==
  LET taking == {c \in registered : Len(frames[c]) < MaxFrames}
  IN  /\ registered' = taking
      /\ frames' = [c \in Clients |-> IF c \in taking THEN Append(frames[c], frame)
                                                      ELSE frames[c]]

(***************************************************************************)
(* broadcast.  Puts may resume in any order.  If the store answers at      *)
(* once, a stream handler resumes before the broadcast of what it missed.  *)
(***************************************************************************)
Broadcast(r) ==
  /\ r \in unannounced
  /\ answersAtOnce => \A c \in Clients : reading[c] = 0 \/ r <= reading[c]
  /\ WriteToAll(r)
  /\ unannounced' = unannounced \ {r}
  /\ UNCHANGED <<stored, snapshot, reading, stream, acceptedLatest, polling, fresh,
                 answersAtOnce>>

SendHeartbeat ==
  /\ registered # {}
  /\ WriteToAll(Heartbeat)
  /\ UNCHANGED <<stored, snapshot, unannounced, reading, stream, acceptedLatest,
                 polling, fresh, answersAtOnce>>

(***************************************************************************)
(* handle, GET stream: the store's answer, then registration and the first *)
(* frame.                                                                  *)
(***************************************************************************)
ReadForStream(c) ==
  /\ stream[c] = "requested"
  /\ reading[c] = 0
  /\ stored # 0
  /\ reading' = [reading EXCEPT ![c] = stored]
  /\ UNCHANGED <<stored, snapshot, unannounced, registered, streaming, polling, fresh,
                 answersAtOnce>>

OpenStream(c) ==
  /\ reading[c] # 0
  /\ registered' = registered \cup {c}
  /\ frames' = [frames EXCEPT ![c] = <<reading[c]>>]
  /\ stream' = [stream EXCEPT ![c] = "open"]
  /\ reading' = [reading EXCEPT ![c] = 0]
  /\ UNCHANGED <<stored, snapshot, unannounced, acceptedLatest, polling, fresh,
                 answersAtOnce>>

\* Mutant: any tag at all counts as that of the stored ruleset.
AnswerAnyTag(c) ==
  /\ poll[c].at = "request"
  /\ stored # 0
  /\ poll' = [poll EXCEPT ![c] = IF poll[c].etag # 0 THEN NotModified(stored)
                                                      ELSE Body(stored)]
  /\ UNCHANGED <<server, snapshot, streaming, refreshing, etag, fresh>>

(***************************************************************************)
(* handle, GET: the whole ruleset unless the tag is that of the stored.    *)
(***************************************************************************)
Answer(c) ==
  /\ poll[c].at = "request"
  /\ stored # 0
  /\ poll' = [poll EXCEPT ![c] = IF poll[c].etag = stored THEN NotModified(stored)
                                                          ELSE Body(stored)]
  /\ UNCHANGED <<server, snapshot, streaming, refreshing, etag, fresh>>

(***************************************************************************)
(* The server's process ends and another starts on the same store.         *)
(***************************************************************************)
RestartServer ==
  /\ unannounced' = {}
  /\ registered' = {}
  /\ reading' = [c \in Clients |-> 0]
  /\ UNCHANGED <<stored, snapshot, streaming, polling, fresh, answersAtOnce>>

-------------------------------------------------------------------------------
(* The client                                                              *)

Accepts(c, r) == r >= snapshot[c]

\* Mutant: acceptSnapshot takes an older ruleset.
OnSnapshotInAnyOrder(c, r) ==
  /\ snapshot' = [snapshot EXCEPT ![c] = r]
  /\ fresh' = [fresh EXCEPT ![c] = TRUE]

(***************************************************************************)
(* acceptSnapshot on a valid ruleset: an older one is ignored, the same or *)
(* a newer one confirms, and the newer one is served.                      *)
(***************************************************************************)
OnSnapshot(c, r) ==
  /\ snapshot' = IF Accepts(c, r) THEN [snapshot EXCEPT ![c] = r] ELSE snapshot
  /\ fresh' = [fresh EXCEPT ![c] = @ \/ Accepts(c, r)]

OnHealthy(c) ==
  /\ fresh' = [fresh EXCEPT ![c] = TRUE]
  /\ UNCHANGED snapshot

ConfirmationExpires(c) ==
  /\ fresh[c]
  /\ fresh' = [fresh EXCEPT ![c] = FALSE]
  /\ UNCHANGED <<server, snapshot, streaming, polling>>

-------------------------------------------------------------------------------
(* Polling                                                                 *)

Settle(c) ==
  /\ poll' = [poll EXCEPT ![c] = Idle]
  /\ refreshing' = [refreshing EXCEPT ![c] = FALSE]

(***************************************************************************)
(* refresh, called by the timer or the application, while none is under    *)
(* way.                                                                    *)
(***************************************************************************)
StartPoll(c) ==
  /\ stream[c] # "closed"
  /\ ~refreshing[c]
  /\ refreshing' = [refreshing EXCEPT ![c] = TRUE]
  /\ poll' = [poll EXCEPT ![c] = Request(etag[c])]
  /\ UNCHANGED <<server, snapshot, streaming, etag, fresh>>

(***************************************************************************)
(* Everything before the first await throws: the finally clause clears     *)
(* refreshing, and then the outer assignment sets it to the promise that   *)
(* has settled.                                                            *)
(***************************************************************************)
FetchThrows(c) ==
  /\ stream[c] # "closed"
  /\ ~refreshing[c]
  /\ refreshing' = [refreshing EXCEPT ![c] = TRUE]
  /\ UNCHANGED <<server, snapshot, streaming, poll, etag, fresh>>

\* Mutant: no finally clause, so a failure leaves refreshing set.
PollFailsUnsettled(c) ==
  /\ poll[c] # Idle
  /\ poll' = [poll EXCEPT ![c] = Idle]
  /\ UNCHANGED <<server, snapshot, streaming, refreshing, etag, fresh>>

PollFails(c) ==
  /\ poll[c] # Idle
  /\ Settle(c)
  /\ UNCHANGED <<server, snapshot, streaming, etag, fresh>>

\* Mutant: a 304 does not reach the client.
HearNotModifiedSilently(c) ==
  /\ poll[c].at = "304"
  /\ Settle(c)
  /\ UNCHANGED <<server, snapshot, streaming, etag, fresh>>

HearNotModified(c) ==
  /\ poll[c].at = "304"
  /\ OnHealthy(c)
  /\ Settle(c)
  /\ UNCHANGED <<server, streaming, etag>>

HearBody(c) ==
  /\ poll[c].at = "200"
  /\ OnSnapshot(c, poll[c].revision)
  /\ etag' = IF Accepts(c, poll[c].revision)
             THEN [etag EXCEPT ![c] = poll[c].revision] ELSE etag
  /\ Settle(c)
  /\ UNCHANGED <<server, streaming>>

-------------------------------------------------------------------------------
(* The stream                                                              *)

Connect(c) ==
  /\ Streams
  /\ stream[c] = "waiting"
  /\ stream' = [stream EXCEPT ![c] = "requested"]
  /\ UNCHANGED <<server, snapshot, frames, acceptedLatest, polling, fresh>>

(***************************************************************************)
(* consumeStream: a heartbeat confirms only if the last snapshot of this   *)
(* stream was accepted.                                                    *)
(***************************************************************************)
HearHeartbeat(c) ==
  /\ stream[c] = "open"
  /\ frames[c] # << >>
  /\ Head(frames[c]) = Heartbeat
  /\ frames' = [frames EXCEPT ![c] = Tail(@)]
  /\ IF acceptedLatest[c] THEN OnHealthy(c) ELSE UNCHANGED <<snapshot, fresh>>
  /\ UNCHANGED <<server, stream, acceptedLatest, polling>>

HearFrame(c) ==
  /\ stream[c] = "open"
  /\ frames[c] # << >>
  /\ Head(frames[c]) # Heartbeat
  /\ frames' = [frames EXCEPT ![c] = Tail(@)]
  /\ OnSnapshot(c, Head(frames[c]))
  /\ acceptedLatest' = [acceptedLatest EXCEPT ![c] = Accepts(c, Head(frames[c]))]
  /\ UNCHANGED <<server, stream, polling>>

(***************************************************************************)
(* The connection ends, for the server too.                                *)
(***************************************************************************)
EndStream(c, next) ==
  /\ stream' = [stream EXCEPT ![c] = next]
  /\ frames' = [frames EXCEPT ![c] = << >>]
  /\ acceptedLatest' = [acceptedLatest EXCEPT ![c] = FALSE]
  /\ registered' = registered \ {c}
  /\ reading' = [reading EXCEPT ![c] = 0]
  /\ UNCHANGED <<stored, snapshot, unannounced, fresh, answersAtOnce>>

(***************************************************************************)
(* The request or the stream fails, and the source waits to try again.     *)
(***************************************************************************)
StreamFails(c) ==
  /\ stream[c] \in {"requested", "open"}
  /\ EndStream(c, "waiting")
  /\ UNCHANGED polling

(***************************************************************************)
(* close of the connection: the poll, the stream and the wait before the   *)
(* next one are aborted, and the timer is cleared.                         *)
(***************************************************************************)
CloseSource(c) ==
  /\ stream[c] # "closed"
  /\ EndStream(c, "closed")
  /\ Settle(c)
  /\ UNCHANGED etag

(***************************************************************************)
(* The server loses the connection and the client does not notice.         *)
(***************************************************************************)
HalfOpen(c) ==
  /\ c \in registered
  /\ registered' = registered \ {c}
  /\ UNCHANGED <<stored, snapshot, unannounced, reading, streaming, polling, fresh,
                 answersAtOnce>>

-------------------------------------------------------------------------------

DeliveryNext ==
  \/ Put \/ SendHeartbeat \/ RestartServer
  \/ \E r \in Known : Broadcast(r)
  \/ \E c \in Clients :
       \/ ReadForStream(c) \/ OpenStream(c) \/ Answer(c)
       \/ ConfirmationExpires(c)
       \/ StartPoll(c) \/ PollFails(c)
       \/ HearNotModified(c) \/ HearBody(c)
       \/ Connect(c) \/ HearHeartbeat(c) \/ HearFrame(c)
       \/ StreamFails(c) \/ HalfOpen(c) \/ CloseSource(c)

DeliverySpec == DeliveryInit /\ [][DeliveryNext]_vars

(***************************************************************************)
(* The poll timer runs, a request times out, and polls are not lost for    *)
(* ever.  Nothing is assumed of the stream.                                *)
(***************************************************************************)
PollsGoOn ==
  \A c \in Clients :
    /\ WF_vars(StartPoll(c))
    /\ WF_vars(PollFails(c))
    /\ SF_vars(Answer(c))
    /\ SF_vars(HearNotModified(c) \/ HearBody(c))

FairDeliverySpec == DeliverySpec /\ PollsGoOn

(***************************************************************************)
(* The same where fetch may throw before it returns a promise.             *)
(***************************************************************************)
ThrowingSpec ==
  /\ DeliveryInit
  /\ [][DeliveryNext \/ \E c \in Clients : FetchThrows(c)]_vars
  /\ PollsGoOn

-------------------------------------------------------------------------------
(* Properties                                                              *)

(***************************************************************************)
(* Polls, frames and broadcasts overtake each other, and still every       *)
(* client only moves forward through what the store has held.              *)
(***************************************************************************)
DeliversStoredRulesets == Spec

(***************************************************************************)
(* A 304 on its way says nothing is newer than what the client serves,     *)
(* although the tag was taken when the poll started and the stream has     *)
(* gone on since.                                                          *)
(***************************************************************************)
NotModifiedIsServed ==
  \A c \in Clients : poll[c].at = "304" => poll[c].etag <= snapshot[c]

(***************************************************************************)
(* A stream the server writes to misses nothing: whatever was broadcast is *)
(* served or on its way.  For stores that answer at once.                  *)
(***************************************************************************)
StreamMissesNothing ==
  answersAtOnce =>
    \A c \in registered : \A r \in (1 .. stored) \ unannounced :
      \/ r <= snapshot[c]
      \/ \E i \in 1 .. Len(frames[c]) : r <= frames[c][i]

(***************************************************************************)
(* SPEC.md:69: "conditional polling recovers missed changes", until the    *)
(* source is closed.                                                       *)
(***************************************************************************)
PollingRecovers ==
  \A c \in Clients : \A r \in Known :
    stored >= r ~> snapshot[c] >= r \/ stream[c] = "closed"

(***************************************************************************)
(* However often a client loses contact, it comes to be confirmed again,   *)
(* until the source is closed.                                             *)
(***************************************************************************)
HealthRecovers ==
  \A c \in Clients : stored # 0 ~> fresh[c] \/ stream[c] = "closed"

===============================================================================
