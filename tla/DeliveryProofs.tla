---------------------------- MODULE DeliveryProofs ----------------------------
(***************************************************************************)
(* Proofs about Delivery, for any number of clients and any bounds.        *)
(***************************************************************************)
EXTENDS Delivery, SequenceTheorems, TLAPS

Revisions == 0 .. MaxRevision

Polls ==
  {Idle} \cup {Request(e) : e \in Revisions} \cup {NotModified(e) : e \in Revisions}
         \cup {Body(r) : r \in Revisions}

TypeOK ==
  /\ stored \in Revisions
  /\ snapshot \in [Clients -> Revisions]
  /\ unannounced \subseteq Known
  /\ registered \subseteq Clients
  /\ reading \in [Clients -> Revisions]
  /\ frames \in [Clients -> Seq(Revisions)]
  /\ stream \in [Clients -> {"waiting", "requested", "open", "closed"}]
  /\ acceptedLatest \in [Clients -> BOOLEAN]
  /\ poll \in [Clients -> Polls]
  /\ refreshing \in [Clients -> BOOLEAN]
  /\ etag \in [Clients -> Revisions]
  /\ fresh \in [Clients -> BOOLEAN]
  /\ answersAtOnce \in BOOLEAN

(***************************************************************************)
(* Among the frames s is one of revision r or later; none is later than n. *)
(***************************************************************************)
Reaches(s, r) == \E i \in 1 .. Len(s) : r <= s[i]
Within(s, n) == \A i \in 1 .. Len(s) : s[i] <= n

(***************************************************************************)
(* Whatever is on its way to a client, the store holds it or held it.      *)
(***************************************************************************)
WasStored ==
  /\ \A r \in unannounced : r <= stored
  /\ \A c \in Clients :
       /\ snapshot[c] <= stored
       /\ reading[c] <= stored
       /\ Within(frames[c], stored)
       /\ poll[c].at = "200" => poll[c].revision <= stored

(***************************************************************************)
(* A source's tag, and the one its poll carries, is of a ruleset that the  *)
(* client took: the client serves it or a newer one.                       *)
(***************************************************************************)
TagsAreServed ==
  \A c \in Clients :
    /\ etag[c] <= snapshot[c]
    /\ poll[c].at \in {"request", "304"} => poll[c].etag <= snapshot[c]

(***************************************************************************)
(* A handler reads only for a request that waits for its answer, and the   *)
(* server writes only to streams that are open at their source.            *)
(***************************************************************************)
ServerKnowsTheStream ==
  /\ \A c \in Clients : reading[c] # 0 => stream[c] = "requested"
  /\ \A c \in registered : stream[c] = "open"

(***************************************************************************)
(* What was announced while a stream handler reads is what it has read or  *)
(* older, so its first frame makes up for the broadcast it missed.         *)
(***************************************************************************)
Announced == (1 .. stored) \ unannounced

ReadingIsUpToDate ==
  answersAtOnce =>
    \A c \in Clients : reading[c] # 0 => \A r \in Announced : r <= reading[c]

DeliveryInv ==
  /\ TypeOK
  /\ WasStored
  /\ TagsAreServed
  /\ ServerKnowsTheStream
  /\ ReadingIsUpToDate
  /\ StreamMissesNothing

-------------------------------------------------------------------------------
(* Frames                                                                  *)

\* A frame that is written joins the ones before it.
LEMMA AppendedFrames ==
  ASSUME NEW s \in Seq(Revisions), NEW f \in Revisions
  PROVE  /\ Append(s, f) \in Seq(Revisions)
         /\ \A r \in Nat : Reaches(s, r) => Reaches(Append(s, f), r)
         /\ \A r \in Nat : r <= f => Reaches(Append(s, f), r)
         /\ \A n \in Nat : Within(s, n) /\ f <= n => Within(Append(s, f), n)
<1>1. /\ Append(s, f) \in Seq(Revisions)
      /\ Len(Append(s, f)) = Len(s) + 1
      /\ \A i \in 1 .. Len(s) : Append(s, f)[i] = s[i]
      /\ Append(s, f)[Len(s) + 1] = f
  BY AppendProperties
<1>2. Len(s) \in Nat
  BY LenProperties
<1> QED BY <1>1, <1>2 DEF Reaches, Within

\* A frame that is consumed was the first.
LEMMA ConsumedFrames ==
  ASSUME NEW s \in Seq(Revisions), s # << >>
  PROVE  /\ Head(s) \in Revisions
         /\ Tail(s) \in Seq(Revisions)
         /\ \A r \in Nat : Reaches(s, r) => r <= Head(s) \/ Reaches(Tail(s), r)
         /\ \A n \in Nat : Within(s, n) => Head(s) <= n /\ Within(Tail(s), n)
<1>1. /\ Head(s) \in Revisions
      /\ Tail(s) \in Seq(Revisions)
      /\ Len(Tail(s)) = Len(s) - 1
      /\ \A i \in 1 .. Len(Tail(s)) : Tail(s)[i] = s[i + 1]
  BY HeadTailProperties
<1>2. Len(s) \in Nat /\ Len(s) # 0 /\ Head(s) = s[1]
  BY LenProperties, EmptySeq
<1>3. ASSUME NEW r \in Nat, Reaches(s, r)
      PROVE  r <= Head(s) \/ Reaches(Tail(s), r)
  <2>1. PICK i \in 1 .. Len(s) : r <= s[i]
    BY <1>3 DEF Reaches
  <2>2. CASE i = 1
    BY <1>2, <2>1, <2>2
  <2>3. CASE i # 1
    <3>1. i - 1 \in 1 .. Len(Tail(s)) /\ Tail(s)[i - 1] = s[i]
      BY <1>1, <1>2, <2>3
    <3> QED BY <2>1, <3>1 DEF Reaches
  <2> QED BY <2>2, <2>3
<1>4. ASSUME NEW n \in Nat, Within(s, n)
      PROVE  Head(s) <= n /\ Within(Tail(s), n)
  <2>1. \A i \in 1 .. Len(Tail(s)) : i + 1 \in 1 .. Len(s)
    BY <1>1, <1>2
  <2> QED BY <1>1, <1>2, <1>4, <2>1 DEF Within
<1> QED BY <1>1, <1>3, <1>4

\* What a write does to the frames and to the registered streams.
LEMMA WriteFacts ==
  ASSUME TypeOK, NEW f \in Revisions, WriteToAll(f)
  PROVE  /\ registered' \subseteq registered
         /\ frames' \in [Clients -> Seq(Revisions)]
         /\ \A c \in Clients : frames'[c] \in {frames[c], Append(frames[c], f)}
         /\ \A c \in registered' : frames'[c] = Append(frames[c], f)
<1>1. \A c \in Clients : Append(frames[c], f) \in Seq(Revisions)
  BY AppendedFrames DEF TypeOK
<1> QED BY <1>1 DEF TypeOK, WriteToAll

\* Each action, with the client it is about.
Serving(c) == ReadForStream(c) \/ OpenStream(c) \/ HalfOpen(c)

Polling(c) ==
  StartPoll(c) \/ Answer(c) \/ PollFails(c) \/ HearNotModified(c) \/ HearBody(c)

Listening(c) == Connect(c) \/ HearHeartbeat(c) \/ HearFrame(c)

Ending(c) == StreamFails(c) \/ CloseSource(c)

LEMMA Cases ==
  ASSUME [DeliveryNext]_vars
  PROVE  \/ Put \/ SendHeartbeat \/ RestartServer
         \/ \E r \in Known : Broadcast(r)
         \/ \E c \in Clients : \/ Serving(c) \/ Polling(c) \/ Listening(c)
                               \/ Ending(c) \/ ConfirmationExpires(c)
         \/ UNCHANGED vars
BY DEF DeliveryNext, Serving, Polling, Listening, Ending

-------------------------------------------------------------------------------
(* The types                                                               *)

\* What a poll may be, and what it carries.
LEMMA PollTypes ==
  /\ Idle \in Polls
  /\ \A e \in Revisions : /\ Request(e) \in Polls
                         /\ NotModified(e) \in Polls
                         /\ Body(e) \in Polls
  /\ \A p \in Polls :
       /\ p.at = "200" => p.revision \in Revisions
       /\ p.at \in {"request", "304"} => p.etag \in Revisions
<1>1. ASSUME NEW e \in Revisions
      PROVE  Request(e) \in Polls /\ NotModified(e) \in Polls /\ Body(e) \in Polls
  BY DEF Polls
<1>2. ASSUME NEW p \in Polls
      PROVE  /\ p.at = "200" => p.revision \in Revisions
             /\ p.at \in {"request", "304"} => p.etag \in Revisions
  <2>1. CASE p = Idle
    BY <2>1 DEF Idle
  <2>2. ASSUME NEW e \in Revisions, p = Request(e) \/ p = NotModified(e)
        PROVE  p.at \in {"request", "304"} /\ p.etag \in Revisions
    BY <2>2 DEF Request, NotModified
  <2>3. ASSUME NEW r \in Revisions, p = Body(r)
        PROVE  p.at = "200" /\ p.revision \in Revisions
    BY <2>3 DEF Body
  <2> QED BY <2>1, <2>2, <2>3 DEF Polls
<1> QED BY <1>1, <1>2 DEF Polls

LEMMA TypeStep ==
  ASSUME TypeOK, [DeliveryNext]_vars
  PROVE  TypeOK'
<1>1. CASE Put
  BY <1>1, LastRevisionAssumption DEF Put, Publish, TypeOK, Revisions, Known, streaming,
     polling
<1>2. CASE SendHeartbeat
  <2>1. Heartbeat \in Revisions
    BY LastRevisionAssumption DEF Heartbeat, Revisions
  <2> QED BY <1>2, <2>1, WriteFacts DEF SendHeartbeat, TypeOK, polling
<1>3. CASE RestartServer
  <2>1. 0 \in Revisions
    BY LastRevisionAssumption DEF Revisions
  <2> QED BY <1>3, <2>1 DEF RestartServer, TypeOK, streaming, polling
<1>4. ASSUME NEW r \in Known, Broadcast(r)
      PROVE  TypeOK'
  <2>1. r \in Revisions
    BY LastRevisionAssumption DEF Revisions, Known
  <2> QED BY <1>4, <2>1, WriteFacts DEF Broadcast, TypeOK, polling
<1>5. ASSUME NEW c \in Clients, Serving(c)
      PROVE  TypeOK'
  <2>1. CASE ReadForStream(c)
    BY <2>1 DEF ReadForStream, TypeOK, streaming, polling
  <2>2. CASE OpenStream(c)
    <3>1. <<reading[c]>> \in Seq(Revisions) /\ 0 \in Revisions
      BY LastRevisionAssumption DEF TypeOK, Revisions
    <3> QED BY <2>2, <3>1 DEF OpenStream, TypeOK, polling
  <2>3. CASE HalfOpen(c)
    BY <2>3 DEF HalfOpen, TypeOK, streaming, polling
  <2> QED BY <1>5, <2>1, <2>2, <2>3 DEF Serving
<1>6. ASSUME NEW c \in Clients, Polling(c)
      PROVE  TypeOK'
  <2>1. CASE StartPoll(c)
    BY <2>1, PollTypes DEF StartPoll, TypeOK, server, streaming
  <2>2. CASE Answer(c)
    BY <2>2, PollTypes DEF Answer, TypeOK, server, streaming
  <2>3. CASE PollFails(c)
    BY <2>3, PollTypes DEF PollFails, Settle, TypeOK, server, streaming
  <2>4. CASE HearNotModified(c)
    BY <2>4, PollTypes DEF HearNotModified, OnHealthy, Settle, TypeOK, server, streaming
  <2>5. CASE HearBody(c)
    <3>1. poll[c].revision \in Revisions
      BY <2>5, PollTypes DEF HearBody, TypeOK
    <3> QED BY <2>5, <3>1, PollTypes DEF HearBody, OnSnapshot, Accepts, Settle,
               TypeOK, server, streaming
  <2> QED BY <1>6, <2>1, <2>2, <2>3, <2>4, <2>5 DEF Polling
<1>7. ASSUME NEW c \in Clients, Listening(c)
      PROVE  TypeOK'
  <2>1. CASE Connect(c)
    BY <2>1 DEF Connect, TypeOK, server, polling
  <2>2. CASE HearHeartbeat(c)
    <3>1. Tail(frames[c]) \in Seq(Revisions)
      BY <2>2, ConsumedFrames DEF HearHeartbeat, TypeOK
    <3> QED BY <2>2, <3>1 DEF HearHeartbeat, OnHealthy, TypeOK, server, polling
  <2>3. CASE HearFrame(c)
    <3>1. Tail(frames[c]) \in Seq(Revisions) /\ Head(frames[c]) \in Revisions
      BY <2>3, ConsumedFrames DEF HearFrame, TypeOK
    <3> QED BY <2>3, <3>1 DEF HearFrame, OnSnapshot, Accepts, TypeOK, server, polling
  <2> QED BY <1>7, <2>1, <2>2, <2>3 DEF Listening
<1>8. ASSUME NEW c \in Clients, Ending(c)
      PROVE  TypeOK'
  <2>1. << >> \in Seq(Revisions) /\ 0 \in Revisions
    BY LastRevisionAssumption DEF Revisions
  <2>2. CASE StreamFails(c)
    BY <2>1, <2>2 DEF StreamFails, EndStream, TypeOK, polling
  <2>3. CASE CloseSource(c)
    BY <2>1, <2>3, PollTypes DEF CloseSource, EndStream, Settle, TypeOK
  <2> QED BY <1>8, <2>2, <2>3 DEF Ending
<1>9. ASSUME NEW c \in Clients, ConfirmationExpires(c)
      PROVE  TypeOK'
  BY <1>9 DEF ConfirmationExpires, TypeOK, server, streaming, polling
<1>10. CASE UNCHANGED vars
  BY <1>10 DEF vars, TypeOK, server, streaming, polling
<1> QED BY <1>1, <1>2, <1>3, <1>4, <1>5, <1>6, <1>7, <1>8, <1>9, <1>10, Cases

-------------------------------------------------------------------------------
(* The replicas                                                            *)

\* Comparisons of revisions are comparisons of numbers.
LEMMA Numbers ==
  ASSUME TypeOK
  PROVE  /\ Revisions \subseteq Nat /\ stored \in Nat
         /\ \A c \in Clients : /\ snapshot[c] \in Nat /\ reading[c] \in Nat
                               /\ etag[c] \in Nat /\ frames[c] \in Seq(Revisions)
         /\ \A c \in Clients : poll[c].at = "200" => poll[c].revision \in Nat
         /\ \A c \in Clients : poll[c].at \in {"request", "304"} => poll[c].etag \in Nat
<1>1. Revisions \subseteq Nat
  BY LastRevisionAssumption DEF Revisions
<1> QED BY <1>1, PollTypes DEF TypeOK

\* The revision that a frame or a body brings to a client was stored.
LEMMA BroughtWasStored ==
  ASSUME TypeOK, WasStored, NEW c \in Clients
  PROVE  /\ HearFrame(c) => /\ Head(frames[c]) \in Nat
                            /\ Head(frames[c]) <= stored
                            /\ Within(Tail(frames[c]), stored)
         /\ HearBody(c) => poll[c].revision \in Nat /\ poll[c].revision <= stored
<1>1. ASSUME HearFrame(c)
      PROVE  /\ Head(frames[c]) \in Nat
             /\ Head(frames[c]) <= stored
             /\ Within(Tail(frames[c]), stored)
  BY <1>1, Numbers, ConsumedFrames DEF HearFrame, WasStored
<1>2. ASSUME HearBody(c)
      PROVE  poll[c].revision \in Nat /\ poll[c].revision <= stored
  BY <1>2, Numbers DEF HearBody, WasStored
<1> QED BY <1>1, <1>2

\* A client takes a stored ruleset: what it serves stays or moves forward.
LEMMA TakeSnapshot ==
  ASSUME TypeOK, NEW c \in Clients, NEW r \in Nat, r <= stored,
         OnSnapshot(c, r), stored' = stored
  PROVE  /\ [Next]_<<stored, snapshot>>
         /\ r <= snapshot'[c]
         /\ \A d \in Clients : snapshot[d] <= snapshot'[d]
         /\ \A d \in Clients : snapshot'[d] \in {snapshot[d], r}
<1>1. CASE snapshot' = snapshot
  BY <1>1, Numbers DEF OnSnapshot, Accepts, TypeOK
<1>2. CASE snapshot' # snapshot
  <2>1. Accepts(c, r) /\ snapshot' = [snapshot EXCEPT ![c] = r] /\ snapshot[c] # r
    BY <1>2 DEF OnSnapshot, TypeOK
  <2>2. r \in snapshot[c] + 1 .. stored
    BY <2>1, Numbers DEF Accepts
  <2>3. CatchUp(c)
    BY <2>1, <2>2 DEF CatchUp
  <2> QED BY <2>1, <2>2, <2>3, Numbers DEF Next, TypeOK
<1> QED BY <1>1, <1>2

\* Every step is a publication, one client that catches up, or none of both.
LEMMA ReplicaStep ==
  ASSUME TypeOK, WasStored, [DeliveryNext]_vars
  PROVE  /\ [Next]_<<stored, snapshot>>
         /\ stored <= stored'
         /\ \A c \in Clients : snapshot[c] <= snapshot'[c]
<1>1. CASE Put
  BY <1>1, Numbers DEF Put, Publish, Next
<1>2. ASSUME NEW c \in Clients, HearBody(c) \/ HearFrame(c)
      PROVE  /\ [Next]_<<stored, snapshot>>
             /\ stored <= stored'
             /\ \A d \in Clients : snapshot[d] <= snapshot'[d]
  <2>1. PICK r \in Nat : r <= stored /\ OnSnapshot(c, r) /\ stored' = stored
    BY <1>2, BroughtWasStored DEF HearBody, HearFrame, server
  <2> QED BY <2>1, TakeSnapshot, Numbers
<1>3. CASE UNCHANGED <<stored, snapshot>>
  BY <1>3, Numbers
<1>4. \/ Put \/ UNCHANGED <<stored, snapshot>>
      \/ \E c \in Clients : HearBody(c) \/ HearFrame(c)
  BY DEF DeliveryNext, vars, server, SendHeartbeat, RestartServer, Broadcast,
     ReadForStream, OpenStream, Answer, ConfirmationExpires, StartPoll, PollFails,
     HearNotModified, OnHealthy, Connect, HearHeartbeat, StreamFails, CloseSource,
     EndStream, HalfOpen
<1> QED BY <1>1, <1>2, <1>3, <1>4

\* What is on its way was stored.
LEMMA WasStoredStep ==
  ASSUME TypeOK, WasStored, [DeliveryNext]_vars
  PROVE  WasStored'
<1> DEFINE Sent(c) == Within(frames[c], stored)
           Polled(c) == poll[c].at = "200" => poll[c].revision <= stored
<1>1. CASE Put
  <2>1. stored' = stored + 1 /\ unannounced' = unannounced \cup {stored'}
    BY <1>1 DEF Put, Publish
  <2>2. \A c \in Clients : Sent(c)'
    <3>1. \A c \in Clients : \A i \in 1 .. Len(frames[c]) : frames[c][i] \in Nat
      BY Numbers, LenProperties
    <3> QED BY <1>1, <2>1, <3>1, Numbers DEF Put, streaming, WasStored, Within
  <2>3. \A r \in unannounced : r \in Nat
    BY DEF TypeOK, Known
  <2> QED BY <1>1, <2>1, <2>2, <2>3, Numbers DEF Put, Publish, polling, WasStored
<1>2. ASSUME NEW f \in Revisions, f <= stored, WriteToAll(f), stored' = stored
      PROVE  \A c \in Clients : Sent(c)'
  <2>1. ASSUME NEW c \in Clients
        PROVE  Within(frames'[c], stored)
    <3>1. frames[c] \in Seq(Revisions) /\ Within(frames[c], stored) /\ stored \in Nat
      BY Numbers DEF WasStored
    <3>2. Within(Append(frames[c], f), stored)
      BY <1>2, <3>1, AppendedFrames
    <3> QED BY <1>2, <3>1, <3>2, WriteFacts
  <2> QED BY <1>2, <2>1
<1>3. CASE SendHeartbeat
  <2>1. Heartbeat \in Revisions /\ Heartbeat <= stored
    BY LastRevisionAssumption, Numbers DEF Heartbeat, Revisions
  <2> QED BY <1>2, <1>3, <2>1 DEF SendHeartbeat, polling, WasStored
<1>4. CASE RestartServer
  BY <1>4, Numbers DEF RestartServer, streaming, polling, WasStored
<1>5. ASSUME NEW r \in Known, Broadcast(r)
      PROVE  WasStored'
  <2>1. r \in Revisions /\ r <= stored
    BY <1>5, LastRevisionAssumption DEF Broadcast, WasStored, Known, Revisions
  <2> QED BY <1>2, <1>5, <2>1 DEF Broadcast, polling, WasStored
<1>6. ASSUME NEW c \in Clients, Serving(c)
      PROVE  WasStored'
  <2>1. CASE ReadForStream(c)
    BY <2>1, Numbers DEF ReadForStream, TypeOK, streaming, polling, WasStored
  <2>2. CASE OpenStream(c)
    <3>1. Within(<<reading[c]>>, stored)
      BY DEF WasStored, Within
    <3> QED BY <2>2, <3>1, Numbers DEF OpenStream, TypeOK, polling, WasStored
  <2>3. CASE HalfOpen(c)
    BY <2>3 DEF HalfOpen, streaming, polling, WasStored
  <2> QED BY <1>6, <2>1, <2>2, <2>3 DEF Serving
<1>7. ASSUME NEW c \in Clients, Polling(c)
      PROVE  WasStored'
  <2>1. PICK p \in Polls : /\ p.at = "200" => p.revision <= stored
                          /\ poll' = [poll EXCEPT ![c] = p]
    <3>1. /\ Idle.at # "200"
          /\ \A e \in Revisions : Request(e).at # "200" /\ NotModified(e).at # "200"
          /\ Body(stored).revision <= stored
      BY Numbers DEF Idle, Request, NotModified, Body
    <3> QED BY <1>7, <3>1, PollTypes DEF Polling, StartPoll, Answer, PollFails,
               HearNotModified, HearBody, Settle, TypeOK
  <2>2. stored' = stored /\ \A d \in Clients : Polled(d)'
    BY <1>7, <2>1 DEF Polling, StartPoll, Answer, PollFails, HearNotModified,
       HearBody, TypeOK, WasStored, server
  <2>3. \A d \in Clients : snapshot'[d] <= stored
    <3>1. CASE HearBody(c)
      BY <3>1, BroughtWasStored, TakeSnapshot DEF HearBody, server, WasStored
    <3>2. CASE ~HearBody(c)
      BY <1>7, <3>2 DEF Polling, StartPoll, Answer, PollFails, HearNotModified,
         OnHealthy, WasStored
    <3> QED BY <3>1, <3>2
  <2> QED BY <1>7, <2>2, <2>3 DEF Polling, StartPoll, Answer, PollFails,
             HearNotModified, HearBody, WasStored, server, streaming
<1>8. ASSUME NEW c \in Clients, Listening(c)
      PROVE  WasStored'
  <2>1. CASE Connect(c)
    BY <2>1 DEF Connect, WasStored, server, polling
  <2>2. CASE HearHeartbeat(c)
    <3>1. Within(Tail(frames[c]), stored)
      BY <2>2, ConsumedFrames, Numbers DEF HearHeartbeat, WasStored
    <3> QED BY <2>2, <3>1 DEF HearHeartbeat, OnHealthy, TypeOK, WasStored, server,
               polling
  <2>3. CASE HearFrame(c)
    <3>1. \A d \in Clients : snapshot'[d] <= stored
      BY <2>3, BroughtWasStored, TakeSnapshot DEF HearFrame, server, WasStored
    <3> QED BY <2>3, <3>1, BroughtWasStored DEF HearFrame, TypeOK, WasStored, server,
               polling
  <2> QED BY <1>8, <2>1, <2>2, <2>3 DEF Listening
<1>9. ASSUME NEW c \in Clients, Ending(c)
      PROVE  WasStored'
  <2>1. Within(<< >>, stored) /\ 0 <= stored /\ Idle.at # "200"
    BY Numbers DEF Within, Idle
  <2>2. /\ UNCHANGED <<stored, snapshot, unannounced>>
        /\ frames' = [frames EXCEPT ![c] = << >>]
        /\ reading' = [reading EXCEPT ![c] = 0]
        /\ poll' \in {poll, [poll EXCEPT ![c] = Idle]}
    BY <1>9 DEF Ending, StreamFails, CloseSource, EndStream, Settle, polling
  <2> QED BY <2>1, <2>2 DEF TypeOK, WasStored
<1>10. ASSUME NEW c \in Clients, ConfirmationExpires(c)
       PROVE  WasStored'
  BY <1>10 DEF ConfirmationExpires, WasStored, server, streaming, polling
<1>11. CASE UNCHANGED vars
  BY <1>11 DEF vars, WasStored, server, streaming, polling
<1> QED BY <1>1, <1>3, <1>4, <1>5, <1>6, <1>7, <1>8, <1>9, <1>10, <1>11, Cases

\* Clients only move forward.
LEMMA ClientsAdvance ==
  ASSUME TypeOK, WasStored, [DeliveryNext]_vars
  PROVE  \A c \in Clients : /\ snapshot[c] \in Nat
                            /\ snapshot'[c] \in Nat
                            /\ snapshot[c] <= snapshot'[c]
<1>1. TypeOK'
  BY TypeStep
<1>2. \A c \in Clients : snapshot'[c] \in Nat
  BY <1>1, LastRevisionAssumption DEF TypeOK, Revisions
<1> QED BY <1>2, Numbers, ReplicaStep

-------------------------------------------------------------------------------
(* Polls                                                                   *)

\* The tag of a poll stays behind what the client serves.
LEMMA TagsStep ==
  ASSUME TypeOK, WasStored, TagsAreServed, [DeliveryNext]_vars
  PROVE  TagsAreServed'
<1>1. \A c \in Clients : /\ etag[c] \in Nat /\ snapshot[c] \in Nat
                         /\ snapshot'[c] \in Nat /\ snapshot[c] <= snapshot'[c]
  BY Numbers, ClientsAdvance
<1>2. CASE UNCHANGED polling
  BY <1>1, <1>2, Numbers DEF TagsAreServed, polling
<1>3. ASSUME NEW c \in Clients, Polling(c)
      PROVE  TagsAreServed'
  <2>1. CASE StartPoll(c)
    BY <2>1, Numbers DEF StartPoll, Request, TypeOK, TagsAreServed
  <2>2. CASE Answer(c)
    <3>1. poll[c].etag = stored => stored <= snapshot[c]
      BY <2>2 DEF Answer, TagsAreServed
    <3>2. CASE poll[c].etag = stored
      BY <2>2, <3>1, <3>2 DEF Answer, NotModified, TypeOK, TagsAreServed
    <3>3. CASE poll[c].etag # stored
      BY <2>2, <3>3 DEF Answer, Body, TypeOK, TagsAreServed
    <3> QED BY <3>2, <3>3
  <2>3. CASE PollFails(c)
    BY <2>3 DEF PollFails, Settle, Idle, TypeOK, TagsAreServed
  <2>4. CASE HearNotModified(c)
    BY <2>4 DEF HearNotModified, OnHealthy, Settle, Idle, TypeOK, TagsAreServed
  <2>5. CASE HearBody(c)
    <3>1. Accepts(c, poll[c].revision) => poll[c].revision <= snapshot'[c]
      BY <2>5, Numbers DEF HearBody, OnSnapshot, TypeOK
    <3>2. \A d \in Clients : etag'[d] <= snapshot'[d]
      BY <1>1, <2>5, <3>1, Numbers DEF HearBody, TypeOK, TagsAreServed
    <3>3. poll' = [poll EXCEPT ![c] = Idle]
      BY <2>5 DEF HearBody, Settle
    <3>4. \A d \in Clients :
            poll'[d].at \in {"request", "304"} => poll'[d].etag <= snapshot'[d]
      BY <1>1, <3>3, Numbers DEF Idle, TypeOK, TagsAreServed
    <3> QED BY <3>2, <3>4 DEF TagsAreServed
  <2> QED BY <1>3, <2>1, <2>2, <2>3, <2>4, <2>5 DEF Polling
<1>4. ASSUME NEW c \in Clients, CloseSource(c)
      PROVE  TagsAreServed'
  BY <1>4 DEF CloseSource, EndStream, Settle, Idle, TypeOK, TagsAreServed
<1>5. \/ UNCHANGED polling
      \/ \E c \in Clients : Polling(c) \/ CloseSource(c)
  BY Cases DEF Put, SendHeartbeat, RestartServer, Broadcast, Serving, ReadForStream,
     OpenStream, HalfOpen, Listening, Connect, HearHeartbeat, HearFrame, Ending,
     StreamFails, ConfirmationExpires, vars
<1> QED BY <1>2, <1>3, <1>4, <1>5

-------------------------------------------------------------------------------
(* Streams                                                                 *)

\* What a step does to the streams; the other steps leave all of it alone.
StreamState == <<registered, reading, frames, stream>>

LEMMA StreamCases ==
  ASSUME [DeliveryNext]_vars
  PROVE  \/ UNCHANGED StreamState
         \/ SendHeartbeat \/ RestartServer \/ \E r \in Known : Broadcast(r)
         \/ \E c \in Clients : Serving(c) \/ Listening(c) \/ Ending(c)
BY Cases DEF StreamState, Put, Polling, StartPoll, Answer, PollFails,
   HearNotModified, HearBody, ConfirmationExpires, server, streaming, vars

\* The server's side of a stream follows its source's.
LEMMA ServerKnowsStep ==
  ASSUME TypeOK, ServerKnowsTheStream, [DeliveryNext]_vars
  PROVE  ServerKnowsTheStream'
<1>1. CASE UNCHANGED StreamState
  BY <1>1 DEF StreamState, ServerKnowsTheStream
<1>2. CASE SendHeartbeat \/ \E r \in Known : Broadcast(r)
  BY <1>2 DEF SendHeartbeat, Broadcast, WriteToAll, ServerKnowsTheStream
<1>3. CASE RestartServer
  BY <1>3 DEF RestartServer, streaming, ServerKnowsTheStream
<1>4. ASSUME NEW c \in Clients, Serving(c)
      PROVE  ServerKnowsTheStream'
  <2>1. CASE ReadForStream(c)
    BY <2>1 DEF ReadForStream, streaming, TypeOK, ServerKnowsTheStream
  <2>2. CASE OpenStream(c)
    BY <2>2 DEF OpenStream, TypeOK, ServerKnowsTheStream
  <2>3. CASE HalfOpen(c)
    BY <2>3 DEF HalfOpen, streaming, ServerKnowsTheStream
  <2> QED BY <1>4, <2>1, <2>2, <2>3 DEF Serving
<1>5. ASSUME NEW c \in Clients, Listening(c)
      PROVE  ServerKnowsTheStream'
  BY <1>5 DEF Listening, Connect, HearHeartbeat, HearFrame, server, TypeOK,
              ServerKnowsTheStream
<1>6. ASSUME NEW c \in Clients, Ending(c)
      PROVE  ServerKnowsTheStream'
  BY <1>6 DEF Ending, StreamFails, CloseSource, EndStream, TypeOK,
              ServerKnowsTheStream
<1> QED BY <1>1, <1>2, <1>3, <1>4, <1>5, <1>6, StreamCases

\* What a step announces: a broadcast its revision, a restart all of them.
LEMMA AnnouncedStep ==
  ASSUME TypeOK, WasStored, [DeliveryNext]_vars
  PROVE  /\ Announced \subseteq Nat
         /\ \/ Announced' = Announced
            \/ RestartServer
            \/ \E r \in Known : Broadcast(r) /\ Announced' \subseteq Announced \cup {r}
<1>1. CASE Put
  BY <1>1, Numbers DEF Put, Publish, Announced
<1>2. ASSUME NEW r \in Known, Broadcast(r)
      PROVE  Announced' \subseteq Announced \cup {r}
  BY <1>2 DEF Broadcast, Announced
<1>3. CASE UNCHANGED <<stored, unannounced>>
  BY <1>3 DEF Announced
<1>4. \/ Put \/ RestartServer \/ UNCHANGED <<stored, unannounced>>
      \/ \E r \in Known : Broadcast(r)
  BY Cases DEF SendHeartbeat, Serving, ReadForStream, OpenStream, HalfOpen, Polling,
     StartPoll, Answer, PollFails, HearNotModified, HearBody, Listening, Connect,
     HearHeartbeat, HearFrame, Ending, StreamFails, CloseSource, EndStream,
     ConfirmationExpires, server, vars
<1> QED BY <1>1, <1>2, <1>3, <1>4, Numbers DEF Announced

\* answersAtOnce is a property of the store, which does not change.
LEMMA AnswersStep ==
  ASSUME [DeliveryNext]_vars
  PROVE  answersAtOnce' = answersAtOnce
BY Cases DEF Put, SendHeartbeat, RestartServer, Broadcast, Serving, ReadForStream,
   OpenStream, HalfOpen, Polling, StartPoll, Answer, PollFails, HearNotModified,
   HearBody, Listening, Connect, HearHeartbeat, HearFrame, Ending, StreamFails,
   CloseSource, EndStream, ConfirmationExpires, server, vars

\* A stream handler has read all that was announced.
LEMMA ReadingStep ==
  ASSUME TypeOK, WasStored, ReadingIsUpToDate, [DeliveryNext]_vars
  PROVE  ReadingIsUpToDate'
<1> SUFFICES ASSUME answersAtOnce
             PROVE  \A c \in Clients : reading'[c] # 0 =>
                      \A r \in Announced' : r <= reading'[c]
  BY AnswersStep DEF ReadingIsUpToDate
<1>1. \A c \in Clients : reading[c] # 0 => \A r \in Announced : r <= reading[c]
  BY DEF ReadingIsUpToDate
<1>2. CASE RestartServer
  BY <1>2 DEF RestartServer
<1>3. ASSUME NEW r \in Known, Broadcast(r), Announced' \subseteq Announced \cup {r}
      PROVE  \A c \in Clients : reading'[c] # 0 =>
               \A q \in Announced' : q <= reading'[c]
  BY <1>1, <1>3 DEF Broadcast
<1>4. ASSUME NEW d \in Clients, ReadForStream(d), Announced' = Announced
      PROVE  \A c \in Clients : reading'[c] # 0 =>
               \A q \in Announced' : q <= reading'[c]
  <2>1. \A q \in Announced : q <= stored
    BY Numbers DEF Announced
  <2> QED BY <1>1, <1>4, <2>1 DEF ReadForStream, TypeOK
<1>5. CASE /\ \A c \in Clients : reading'[c] \in {0, reading[c]}
           /\ Announced' = Announced
  BY <1>1, <1>5
<1>6. \/ RestartServer
      \/ \E r \in Known : Broadcast(r)
      \/ \E d \in Clients : ReadForStream(d)
      \/ \A c \in Clients : reading'[c] \in {0, reading[c]}
  BY StreamCases DEF StreamState, SendHeartbeat, Serving, OpenStream, HalfOpen,
     Listening, Connect, HearHeartbeat, HearFrame, Ending, StreamFails, CloseSource,
     EndStream, server, TypeOK
<1>7. ASSUME NEW d \in Clients, ReadForStream(d)
      PROVE  Announced' = Announced
  BY <1>7 DEF ReadForStream, Announced
<1>8. ASSUME NEW r \in Known, Broadcast(r)
      PROVE  Announced' \subseteq Announced \cup {r}
  BY <1>8 DEF Broadcast, Announced
<1> QED BY <1>2, <1>3, <1>4, <1>5, <1>6, <1>7, <1>8, AnnouncedStep

\* A registered stream has, served or on its way, all that was announced.
LEMMA StreamStep ==
  ASSUME TypeOK, WasStored, ServerKnowsTheStream, ReadingIsUpToDate,
         StreamMissesNothing, [DeliveryNext]_vars
  PROVE  StreamMissesNothing'
<1> DEFINE Has(c, r) == r <= snapshot[c] \/ Reaches(frames[c], r)
<1>1. StreamMissesNothing <=>
        (answersAtOnce => \A c \in registered : \A r \in Announced : Has(c, r))
  BY DEF StreamMissesNothing, Announced, Reaches
<1>2. StreamMissesNothing' <=>
        (answersAtOnce' => \A c \in registered' : \A r \in Announced' : Has(c, r)')
  BY DEF StreamMissesNothing, Announced, Reaches
<1> HIDE DEF Has
<1> SUFFICES ASSUME answersAtOnce
             PROVE  \A c \in registered' : \A r \in Announced' : Has(c, r)'
  BY <1>2, AnswersStep
<1>3. \A c \in registered : \A r \in Announced : Has(c, r)
  BY <1>1
<1>4. ASSUME NEW c \in registered, NEW r \in Announced, frames'[c] = frames[c]
      PROVE  Has(c, r)'
  BY <1>3, <1>4, ClientsAdvance, AnnouncedStep DEF Has, TypeOK
<1>5. ASSUME NEW f \in Revisions, WriteToAll(f), NEW c \in registered'
      PROVE  /\ c \in registered
             /\ \A r \in Announced : Has(c, r)'
             /\ Has(c, f)'
  <2>1. c \in registered /\ c \in Clients /\ frames'[c] = Append(frames[c], f)
    BY <1>5, WriteFacts DEF TypeOK
  <2>2. frames[c] \in Seq(Revisions)
    BY <2>1, Numbers
  <2>3. ASSUME NEW r \in Announced
        PROVE  Has(c, r)'
    <3>1. Has(c, r) /\ r \in Nat
      BY <1>3, <2>1, AnnouncedStep
    <3>2. Reaches(frames[c], r) => Reaches(frames'[c], r)
      BY <2>1, <2>2, <3>1, AppendedFrames
    <3>3. r <= snapshot[c] => r <= snapshot'[c]
      BY <2>1, <3>1, ClientsAdvance
    <3> QED BY <3>1, <3>2, <3>3 DEF Has
  <2>4. Reaches(frames'[c], f)
    BY <2>1, <2>2, AppendedFrames, Numbers
  <2> QED BY <2>1, <2>3, <2>4 DEF Has
<1>6. CASE UNCHANGED StreamState
  <2>1. ~RestartServer \/ registered' = {}
    BY DEF RestartServer
  <2>2. ASSUME NEW q \in Known, Broadcast(q)
        PROVE  \A c \in registered' : Has(c, q)'
    <3>1. q \in Revisions
      BY LastRevisionAssumption DEF Known, Revisions
    <3> QED BY <1>5, <2>2, <3>1 DEF Broadcast
  <2> QED BY <1>4, <1>6, <2>1, <2>2, AnnouncedStep DEF StreamState
<1>7. CASE SendHeartbeat
  <2>1. Heartbeat \in Revisions /\ Announced' = Announced
    BY <1>7, LastRevisionAssumption DEF Heartbeat, Revisions, SendHeartbeat, Announced
  <2> QED BY <1>5, <1>7, <2>1 DEF SendHeartbeat
<1>8. CASE RestartServer
  BY <1>8 DEF RestartServer
<1>9. ASSUME NEW q \in Known, Broadcast(q)
      PROVE  \A c \in registered' : \A r \in Announced' : Has(c, r)'
  <2>1. q \in Revisions /\ Announced' \subseteq Announced \cup {q}
    BY <1>9, LastRevisionAssumption DEF Known, Revisions, Broadcast, Announced
  <2> QED BY <1>5, <1>9, <2>1 DEF Broadcast
<1>10. ASSUME NEW d \in Clients, Serving(d)
       PROVE  \A c \in registered' : \A r \in Announced' : Has(c, r)'
  <2>1. Announced' = Announced
    BY <1>10 DEF Serving, ReadForStream, OpenStream, HalfOpen, Announced
  <2>2. CASE OpenStream(d)
    <3>1. \A r \in Announced : r <= reading[d]
      BY <2>2 DEF OpenStream, ReadingIsUpToDate
    <3>2. \A r \in Announced : Has(d, r)'
      <4>1. frames'[d] = <<reading[d]>>
        BY <2>2 DEF OpenStream, TypeOK
      <4> QED BY <3>1, <4>1 DEF Has, Reaches
    <3>3. \A c \in registered' : c = d \/ (c \in registered /\ frames'[c] = frames[c])
      BY <2>2 DEF OpenStream, TypeOK
    <3> QED BY <1>4, <2>1, <3>2, <3>3
  <2>3. CASE ReadForStream(d) \/ HalfOpen(d)
    BY <1>4, <2>1, <2>3 DEF ReadForStream, HalfOpen, streaming
  <2> QED BY <1>10, <2>2, <2>3 DEF Serving
<1>11. ASSUME NEW d \in Clients, Listening(d)
       PROVE  \A c \in registered' : \A r \in Announced' : Has(c, r)'
  <2>1. Announced' = Announced /\ registered' = registered
    BY <1>11 DEF Listening, Connect, HearHeartbeat, HearFrame, Announced, server
  <2>2. \A c \in registered : c # d => frames'[c] = frames[c]
    BY <1>11 DEF Listening, Connect, HearHeartbeat, HearFrame, TypeOK
  <2>3. ASSUME d \in registered, NEW r \in Announced
        PROVE  Has(d, r)'
    <3>1. Has(d, r) /\ r \in Nat
      BY <1>3, <2>3, AnnouncedStep
    <3>2. CASE Connect(d)
      BY <1>4, <2>3, <3>2 DEF Connect
    <3>3. CASE HearHeartbeat(d)
      <4>1. Reaches(frames[d], r) => Reaches(frames'[d], r)
        <5>1. frames'[d] = Tail(frames[d]) /\ frames[d] # << >> /\ Head(frames[d]) = 0
          BY <3>3 DEF HearHeartbeat, Heartbeat, TypeOK
        <5>2. r # 0
          BY Numbers DEF Announced
        <5> QED BY <3>1, <5>1, <5>2, ConsumedFrames, Numbers
      <4>2. snapshot' = snapshot
        BY <3>3 DEF HearHeartbeat, OnHealthy
      <4> QED BY <3>1, <4>1, <4>2 DEF Has
    <3>4. CASE HearFrame(d)
      <4>1. /\ frames'[d] = Tail(frames[d])
            /\ frames[d] # << >>
            /\ OnSnapshot(d, Head(frames[d]))
            /\ stored' = stored
        BY <3>4 DEF HearFrame, server, TypeOK
      <4>2. Reaches(frames[d], r) => r <= Head(frames[d]) \/ Reaches(frames'[d], r)
        BY <3>1, <4>1, ConsumedFrames, Numbers
      <4>3. Head(frames[d]) \in Nat /\ Head(frames[d]) <= stored
        BY <3>4, BroughtWasStored
      <4>4. Head(frames[d]) <= snapshot'[d] /\ snapshot[d] <= snapshot'[d]
        BY <4>1, <4>3, TakeSnapshot
      <4>5. snapshot[d] \in Nat /\ snapshot'[d] \in Nat
        BY ClientsAdvance
      <4> QED BY <3>1, <4>2, <4>3, <4>4, <4>5 DEF Has
    <3> QED BY <1>11, <3>2, <3>3, <3>4 DEF Listening
  <2> QED BY <1>4, <2>1, <2>2, <2>3
<1>12. ASSUME NEW d \in Clients, Ending(d)
       PROVE  \A c \in registered' : \A r \in Announced' : Has(c, r)'
  <2>1. Announced' = Announced /\ registered' = registered \ {d}
    BY <1>12 DEF Ending, StreamFails, CloseSource, EndStream, Announced
  <2>2. \A c \in registered' : frames'[c] = frames[c]
    BY <1>12, <2>1 DEF Ending, StreamFails, CloseSource, EndStream, TypeOK
  <2> QED BY <1>4, <2>1, <2>2
<1> QED BY <1>6, <1>7, <1>8, <1>9, <1>10, <1>11, <1>12, StreamCases

-------------------------------------------------------------------------------
(* The theorems                                                            *)

LEMMA DeliveryStarts ==
  ASSUME DeliveryInit
  PROVE  DeliveryInv
<1>1. /\ 0 \in Revisions
      /\ << >> \in Seq(Revisions)
      /\ Len(<< >>) = 0
  BY LastRevisionAssumption, EmptySeq DEF Revisions
<1>2. TypeOK
  BY <1>1, PollTypes DEF DeliveryInit, Init, TypeOK
<1>3. WasStored /\ TagsAreServed
  BY DEF DeliveryInit, Init, WasStored, TagsAreServed, Within, Idle
<1>4. ServerKnowsTheStream /\ ReadingIsUpToDate /\ StreamMissesNothing
  BY DEF DeliveryInit, Init, ServerKnowsTheStream, ReadingIsUpToDate,
         StreamMissesNothing
<1> QED BY <1>2, <1>3, <1>4 DEF DeliveryInv

LEMMA DeliveryStep ==
  ASSUME DeliveryInv, [DeliveryNext]_vars
  PROVE  DeliveryInv'
BY TypeStep, WasStoredStep, TagsStep, ServerKnowsStep, ReadingStep, StreamStep
   DEF DeliveryInv

(***************************************************************************)
(* The inductive invariant of delivery.                                    *)
(***************************************************************************)
THEOREM DeliveryCorrect == DeliverySpec => []DeliveryInv
<1> QED BY DeliveryStarts, DeliveryStep, PTL DEF DeliverySpec

(***************************************************************************)
(* A 304 on its way to any client says nothing is newer than what that     *)
(* client serves, although its tag is from when the poll started.          *)
(***************************************************************************)
THEOREM NotModifiedCorrect == DeliverySpec => []NotModifiedIsServed
<1>1. DeliveryInv => NotModifiedIsServed
  BY DEF DeliveryInv, TagsAreServed, NotModifiedIsServed
<1> QED BY <1>1, DeliveryCorrect, PTL

(***************************************************************************)
(* Over a store that answers at once, no broadcast passes a stream that    *)
(* the server still writes to.                                             *)
(***************************************************************************)
THEOREM StreamsCorrect == DeliverySpec => []StreamMissesNothing
<1>1. DeliveryInv => StreamMissesNothing
  BY DEF DeliveryInv
<1> QED BY <1>1, DeliveryCorrect, PTL

(***************************************************************************)
(* Polls, frames and broadcasts in any order, lost, late or repeated, over *)
(* restarts: every client is a replica that only catches up.               *)
(***************************************************************************)
THEOREM Replicates == DeliverySpec => DeliversStoredRulesets
<1>1. DeliveryInit => Init
  BY DEF DeliveryInit
<1>2. DeliveryInv /\ [DeliveryNext]_vars => [Next]_<<stored, snapshot>>
  BY ReplicaStep DEF DeliveryInv
<1> QED BY <1>1, <1>2, DeliveryCorrect, PTL
        DEF DeliverySpec, DeliversStoredRulesets, Spec

===============================================================================
