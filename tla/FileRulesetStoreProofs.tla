------------------------ MODULE FileRulesetStoreProofs ------------------------
(***************************************************************************)
(* Proofs about FileRulesetStore, for every set of callers, environments   *)
(* and contents, and every bound on revisions.                             *)
(***************************************************************************)
EXTENDS FileRulesetStore, TLAPS

(***************************************************************************)
(* Removing the first element of a sequence.                               *)
(***************************************************************************)
LEMMA TailElements ==
  ASSUME NEW T, NEW s \in Seq(T), s # << >>
  PROVE  /\ Tail(s) \in Seq(T)
         /\ Head(s) \in T
         /\ Head(s) = s[1]
         /\ Len(Tail(s)) = Len(s) - 1
         /\ \A i \in 1 .. Len(s) - 1 : Tail(s)[i] = s[i + 1]
         /\ Len(s) \in Nat \ {0}
  OBVIOUS

\* What verify decides has its type.
LEMMA VerifyType ==
  ASSUME TypeOK, NEW c \in Callers, call[c] \in Calls, operation # << >>,
         NEW m \in Rulesets, Verify(c, m)
  PROVE  /\ operation' \in Seq(Callers)
         /\ pc' \in [Callers -> Settled \cup Reading \cup Putting]
         /\ call' \in [Callers -> Calls \cup {None}]
         /\ ahead' \in [Callers -> SUBSET Callers]
         /\ staged' \in [Callers -> Rulesets]
<1>1. CASE Settle(c)
  <2>1. operation' \in Seq(Callers)
    BY <1>1, TailElements DEF Settle, TypeOK
  <2>2. staged' \in [Callers -> Rulesets]
    BY <1>1 DEF Settle, TypeOK, Empty, Rulesets
  <2> QED BY <1>1, <2>1, <2>2 DEF Settle, TypeOK, Settled, Reading, Putting
<1>2. CASE ~Settle(c)
  <2>1. [m EXCEPT ![call[c].env] = call[c].next] \in Rulesets
    BY DEF Calls, Rulesets
  <2> QED BY <1>2, <2>1 DEF Verify, TypeOK, Settled, Reading, Putting
<1> QED BY <1>1, <1>2

-------------------------------------------------------------------------------
(***************************************************************************)
(* The promise chain holds each unsettled put once, and only the oldest    *)
(* one has started.                                                        *)
(***************************************************************************)
Started == Putting \ {"queued"}

ChainOK ==
  /\ \A i, j \in 1 .. Len(operation) : operation[i] = operation[j] => i = j
  /\ \A c \in Callers :
       /\ pc[c] \in Putting <=> \E i \in 1 .. Len(operation) : operation[i] = c
       /\ pc[c] \in Putting => call[c] \in Calls
       /\ pc[c] \in Started => Running(c)
       /\ pc[c] = "commit" => disk = staged[c]

\* A put that settles leaves the chain of puts.
LEMMA SettleChain ==
  ASSUME TypeOK, ChainOK, NEW c \in Callers, Running(c), Settle(c)
  PROVE  ChainOK'
<1>1. /\ operation' = Tail(operation)
      /\ Len(operation') = Len(operation) - 1
      /\ Len(operation) \in Nat \ {0}
      /\ c = operation[1]
      /\ \A i \in 1 .. Len(operation) - 1 : operation'[i] = operation[i + 1]
  BY TailElements DEF Running, Settle, TypeOK
<1>2. \A i, j \in 1 .. Len(operation') : operation'[i] = operation'[j] => i = j
  <2> SUFFICES ASSUME NEW i \in 1 .. Len(operation'), NEW j \in 1 .. Len(operation'),
                      operation'[i] = operation'[j]
               PROVE  i = j
    OBVIOUS
  <2>1. i + 1 \in 1 .. Len(operation) /\ j + 1 \in 1 .. Len(operation)
    BY <1>1
  <2> QED BY <1>1, <2>1 DEF ChainOK
<1>3. ASSUME NEW d \in Callers
      PROVE  /\ pc'[d] \in Putting <=> \E i \in 1 .. Len(operation') : operation'[i] = d
             /\ pc'[d] \in Putting => call'[d] \in Calls
             /\ pc'[d] \in Started => Running(d)'
             /\ pc'[d] = "commit" => disk' = staged'[d]
  <2>1. CASE d = c
    <3>1. pc'[d] = "idle"
      BY <2>1 DEF Settle, TypeOK
    <3>2. \A i \in 1 .. Len(operation') : operation'[i] # d
      <4> SUFFICES ASSUME NEW i \in 1 .. Len(operation'), operation'[i] = d
                   PROVE  FALSE
        OBVIOUS
      <4>1. i + 1 \in 1 .. Len(operation) /\ 1 \in 1 .. Len(operation) /\ i + 1 # 1
        BY <1>1
      <4> QED BY <1>1, <2>1, <4>1 DEF ChainOK
    <3> QED BY <3>1, <3>2 DEF Putting, Started
  <2>2. CASE d # c
    <3>1. pc'[d] = pc[d] /\ call'[d] = call[d] /\ staged'[d] = staged[d]
      BY <2>2 DEF Settle, TypeOK
    <3>2. pc[d] \notin Started
      BY <2>2 DEF ChainOK, Running
    <3>3. ASSUME NEW i \in 1 .. Len(operation), operation[i] = d
          PROVE  \E k \in 1 .. Len(operation') : operation'[k] = d
      <4>1. i # 1
        BY <1>1, <2>2, <3>3
      <4>2. i - 1 \in 1 .. Len(operation') /\ operation'[i - 1] = operation[(i - 1) + 1]
        BY <1>1, <4>1
      <4> QED BY <3>3, <4>2
    <3>4. ASSUME NEW i \in 1 .. Len(operation'), operation'[i] = d
          PROVE  \E k \in 1 .. Len(operation) : operation[k] = d
      <4>1. i + 1 \in 1 .. Len(operation)
        BY <1>1
      <4> QED BY <1>1, <3>4, <4>1
    <3>5. pc[d] # "commit" /\ pc'[d] \notin Started
      BY <3>1, <3>2 DEF Started, Putting
    <3>6. pc'[d] \in Putting <=> \E i \in 1 .. Len(operation') : operation'[i] = d
      BY <3>1, <3>3, <3>4 DEF ChainOK
    <3>7. pc'[d] \in Putting => call'[d] \in Calls
      BY <3>1 DEF ChainOK
    <3> QED BY <3>1, <3>5, <3>6, <3>7
  <2> QED BY <2>1, <2>2
<1> QED BY <1>2, <1>3 DEF ChainOK

(***************************************************************************)
(* A step that leaves the chain and the calls alone and starts no put.     *)
(***************************************************************************)
LEMMA SameChain ==
  ASSUME TypeOK, ChainOK, UNCHANGED <<operation, call>>,
         \A d \in Callers : /\ pc'[d] \in Putting <=> pc[d] \in Putting
                            /\ pc'[d] \in Started => Running(d)
                            /\ pc'[d] = "commit" => disk' = staged'[d]
  PROVE  ChainOK'
BY DEF ChainOK, Running

-------------------------------------------------------------------------------
(* TypeOK and ChainOK are preserved together.                              *)

\* The newest stored ruleset is a ruleset or none.
LEMMA NewestType ==
  ASSUME NEW a \in Ruleset \cup {None}, NEW b \in Ruleset \cup {None}
  PROVE  Newest(a, b) \in Ruleset \cup {None}
BY DEF Newest

\* Every step keeps the types.
LEMMA TypeStep ==
  ASSUME TypeOK, ChainOK, [Next]_vars
  PROVE  TypeOK'
<1> USE DEF Settled, Reading, Putting
<1>1. ASSUME NEW c \in Callers, ReadCall(c)
      PROVE  TypeOK'
  <2>1. \A i \in DOMAIN operation : operation[i] \in Callers
    BY DEF TypeOK
  <2> QED BY <1>1, <2>1 DEF ReadCall, TypeOK, Empty, Rulesets
<1>2. ASSUME NEW c \in Callers, NEW e \in Envs, NEW n \in Ruleset,
             NEW x \in Revisions \cup {None}, PutCall(c, e, n, x)
      PROVE  TypeOK'
  <2>1. [env |-> e, next |-> n, expected |-> x] \in Calls
    BY DEF Calls
  <2>2. operation' \in Seq(Callers)
    BY <1>2 DEF PutCall, TypeOK
  <2>3. reply' \in [Callers -> Rulesets]
    BY <1>2 DEF PutCall, TypeOK, Empty, Rulesets
  <2> QED BY <1>2, <2>1, <2>2, <2>3 DEF PutCall, TypeOK
<1>3. ASSUME NEW c \in Callers, NEW m \in Rulesets, ReplyWith(c, m)
      PROVE  /\ pc' \in [Callers -> Settled \cup Reading \cup Putting]
             /\ reply' \in [Callers -> Rulesets]
             /\ told' \in Rulesets
  <2>1. \A e \in Envs : Newest(m[e], told[e]) \in Ruleset \cup {None}
    BY NewestType DEF TypeOK, Rulesets
  <2>2. told' \in Rulesets
    BY <1>3, <2>1 DEF ReplyWith, Rulesets
  <2> QED BY <1>3, <2>2 DEF ReplyWith, TypeOK
<1>4. \A c \in Callers : Loaded(c) \in Rulesets
  BY DEF Loaded, TypeOK
<1>5. ASSUME NEW c \in Callers, Step(c)
      PROVE  TypeOK'
  <2>1. CASE ReadFromMemory(c)
    <3>1. ReplyWith(c, memory) /\ memory \in Rulesets
      BY <2>1 DEF ReadFromMemory, TypeOK
    <3> QED BY <2>1, <3>1, <1>3 DEF ReadFromMemory, TypeOK
  <2>2. CASE ReadIssuesReadFile(c)
    BY <2>2 DEF ReadIssuesReadFile, TypeOK
  <2>3. CASE ReadLoads(c)
    <3>1. ReplyWith(c, Loaded(c)) /\ Loaded(c) \in Rulesets
      BY <2>3, <1>4 DEF ReadLoads
    <3> QED BY <2>3, <3>1, <1>3 DEF ReadLoads, TypeOK
  <2>4. CASE ReadFile(c)
    BY <2>4 DEF ReadFile, TypeOK
  <2>5. Settle(c) /\ pc[c] \in Started =>
          /\ operation' \in Seq(Callers)
          /\ pc' \in [Callers -> Settled \cup Reading \cup Putting]
          /\ call' \in [Callers -> Calls \cup {None}]
          /\ ahead' \in [Callers -> SUBSET Callers]
          /\ staged' \in [Callers -> Rulesets]
    <3> SUFFICES ASSUME Settle(c), pc[c] \in Started
                 PROVE  /\ operation' \in Seq(Callers)
                        /\ pc' \in [Callers -> Settled \cup Reading \cup Putting]
                        /\ call' \in [Callers -> Calls \cup {None}]
                        /\ ahead' \in [Callers -> SUBSET Callers]
                        /\ staged' \in [Callers -> Rulesets]
      OBVIOUS
    <3>1. operation # << >>
      BY DEF ChainOK, Running
    <3>2. operation' \in Seq(Callers)
      BY <3>1, TailElements DEF Settle, TypeOK
    <3>3. staged' \in [Callers -> Rulesets]
      BY DEF Settle, TypeOK, Empty, Rulesets
    <3> QED BY <3>2, <3>3 DEF Settle, TypeOK
  <2>6. CASE ReadFileFails(c)
    <3>1. CASE pc[c] = "readFile"
      BY <2>6, <3>1 DEF ReadFileFails, TypeOK
    <3>2. CASE pc[c] = "putReadFile"
      BY <2>5, <2>6, <3>2 DEF ReadFileFails, TypeOK, Started
    <3> QED BY <2>6, <3>1, <3>2 DEF ReadFileFails
  <2>7. CASE PutVerifies(c)
    <3>1. call[c] \in Calls /\ operation # << >> /\ memory \in Rulesets
      BY <2>7 DEF PutVerifies, ChainOK, Running, TypeOK
    <3>2. Verify(c, memory)
      BY <2>7 DEF PutVerifies
    <3> QED BY <2>7, <3>1, <3>2, VerifyType DEF PutVerifies, TypeOK
  <2>8. CASE PutIssuesReadFile(c)
    BY <2>8 DEF PutIssuesReadFile, TypeOK
  <2>9. CASE PutLoads(c)
    <3>1. call[c] \in Calls /\ operation # << >>
      BY <2>9 DEF PutLoads, ChainOK, Running, Started
    <3>2. Verify(c, Loaded(c)) /\ Loaded(c) \in Rulesets
      BY <2>9, <1>4 DEF PutLoads
    <3> QED BY <2>9, <3>1, <3>2, VerifyType DEF PutLoads, TypeOK
  <2>10. CASE WriteFile(c)
    BY <2>10 DEF WriteFile, TypeOK
  <2>11. CASE Rename(c)
    BY <2>11 DEF Rename, TypeOK
  <2>12. CASE PersistFails(c)
    BY <2>5, <2>12 DEF PersistFails, TypeOK, Started
  <2>13. CASE Commit(c)
    <3>1. call[c] \in Calls
      BY <2>13 DEF Commit, ChainOK
    <3>2. \A e \in Envs : Newest(call[c].next, told[e]) \in Ruleset \cup {None}
      BY <3>1, NewestType DEF Calls, TypeOK, Rulesets
    <3>3. told' \in Rulesets
      BY <2>13, <3>1, <3>2 DEF Commit, TypeOK, Rulesets, Calls
    <3>4. memory' \in Rulesets
      BY <2>13 DEF Commit, TypeOK
    <3> QED BY <2>5, <2>13, <3>3, <3>4 DEF Commit, TypeOK, Started
  <2> QED BY <1>5, <2>1, <2>2, <2>3, <2>4, <2>6, <2>7, <2>8, <2>9, <2>10,
             <2>11, <2>12, <2>13 DEF Step
<1>6. CASE Crash
  <2>1. Empty \in Rulesets /\ operation' \in Seq(Callers)
    BY <1>6 DEF Crash, Empty, Rulesets
  <2> QED BY <1>6, <2>1 DEF Crash, TypeOK
<1>7. CASE UNCHANGED vars
  BY <1>7 DEF vars, TypeOK
<1> QED BY <1>1, <1>2, <1>5, <1>6, <1>7 DEF Next

\* verify keeps the chain.
LEMMA VerifyChain ==
  ASSUME TypeOK, ChainOK, NEW c \in Callers, Running(c), NEW m, Verify(c, m),
         UNCHANGED disk
  PROVE  ChainOK'
<1>1. CASE Settle(c)
  BY <1>1, SettleChain
<1>2. CASE ~Settle(c)
  <2>1. pc' = [pc EXCEPT ![c] = "writeFile"] /\ UNCHANGED <<operation, call>>
    BY <1>2 DEF Verify
  <2>2. \A d \in Callers : staged'[d] = staged[d] \/ d = c
    BY <1>2 DEF Verify, TypeOK
  <2>3. pc[c] \in Putting
    BY TailElements DEF Running, ChainOK, TypeOK
  <2>4. \A d \in Callers \ {c} : pc'[d] = pc[d]
    BY <2>1 DEF TypeOK
  <2>5. pc'[c] = "writeFile"
    BY <2>1 DEF TypeOK
  <2>6. \A d \in Callers : /\ pc'[d] \in Putting <=> pc[d] \in Putting
                           /\ pc'[d] \in Started => Running(d)
                           /\ pc'[d] = "commit" => disk' = staged'[d]
    BY <2>2, <2>3, <2>4, <2>5 DEF ChainOK, Putting, Started
  <2> QED BY <2>1, <2>6, SameChain
<1> QED BY <1>1, <1>2

\* Every step keeps the chain of puts.
LEMMA ChainStep ==
  ASSUME TypeOK, ChainOK, [Next]_vars
  PROVE  ChainOK'
<1>1. ASSUME NEW c \in Callers, ReadCall(c)
      PROVE  ChainOK'
  <2>1. \A d \in Callers : /\ pc'[d] \in Putting <=> pc[d] \in Putting
                           /\ pc'[d] \in Started => Running(d)
                           /\ pc'[d] = "commit" => disk' = staged'[d]
    BY <1>1 DEF ReadCall, TypeOK, ChainOK, Settled, Putting, Started
  <2> QED BY <1>1, <2>1, SameChain DEF ReadCall
<1>2. ASSUME NEW c \in Callers, NEW e \in Envs, NEW n \in Ruleset,
             NEW x \in Revisions \cup {None}, PutCall(c, e, n, x)
      PROVE  ChainOK'
  <2>1. /\ Len(operation) \in Nat
        /\ Len(operation') = Len(operation) + 1
        /\ operation'[Len(operation) + 1] = c
        /\ \A i \in 1 .. Len(operation) : operation'[i] = operation[i]
    BY <1>2 DEF PutCall, TypeOK
  <2>2. \A i \in 1 .. Len(operation) : operation[i] # c
    BY <1>2 DEF PutCall, ChainOK, Settled, Putting
  <2>3. \A i, j \in 1 .. Len(operation') : operation'[i] = operation'[j] => i = j
    BY <2>1, <2>2 DEF ChainOK
  <2>4. \A d \in Callers : Running(d) => Running(d)'
    BY <1>2 DEF PutCall, TypeOK, Running
  <2>5. ASSUME NEW d \in Callers
        PROVE  /\ pc'[d] \in Putting <=> \E i \in 1 .. Len(operation') : operation'[i] = d
               /\ pc'[d] \in Putting => call'[d] \in Calls
               /\ pc'[d] \in Started => Running(d)'
               /\ pc'[d] = "commit" => disk' = staged'[d]
    <3>1. CASE d = c
      <4>1. pc'[d] = "queued" /\ call'[d] = [env |-> e, next |-> n, expected |-> x]
        BY <1>2, <3>1 DEF PutCall, TypeOK
      <4>2. call'[d] \in Calls
        BY <4>1 DEF Calls
      <4>3. Len(operation) + 1 \in 1 .. Len(operation') /\ operation'[Len(operation) + 1] = d
        BY <2>1, <3>1
      <4> QED BY <4>1, <4>2, <4>3 DEF Putting, Started
    <3>2. CASE d # c
      <4>1. pc'[d] = pc[d] /\ call'[d] = call[d] /\ staged' = staged /\ disk' = disk
        BY <1>2, <3>2 DEF PutCall, TypeOK
      <4>2. (\E i \in 1 .. Len(operation') : operation'[i] = d)
              <=> \E i \in 1 .. Len(operation) : operation[i] = d
        BY <2>1, <3>2
      <4> QED BY <2>4, <4>1, <4>2 DEF ChainOK
    <3> QED BY <3>1, <3>2
  <2> QED BY <2>3, <2>5 DEF ChainOK
<1>3. ASSUME NEW c \in Callers, Step(c)
      PROVE  ChainOK'
  <2>1. \A d \in Callers : pc[d] \in Started => Running(d)
    BY DEF ChainOK
  <2>2. ASSUME UNCHANGED <<operation, call, disk, staged>>, NEW p,
               pc' = [pc EXCEPT ![c] = p],
               \/ pc[c] \in Reading /\ p \in Reading \cup Settled
               \/ Running(c) /\ pc[c] \in Putting /\ p \in Putting /\ p # "commit"
        PROVE  ChainOK'
    <3>1. \A d \in Callers : /\ pc'[d] \in Putting <=> pc[d] \in Putting
                             /\ pc'[d] \in Started => Running(d)
                             /\ pc'[d] = "commit" => disk' = staged'[d]
      BY <2>1, <2>2 DEF TypeOK, ChainOK, Reading, Settled, Putting, Started
    <3> QED BY <2>2, <3>1, SameChain
  <2>3. CASE ReadFromMemory(c)
    BY <2>2, <2>3 DEF ReadFromMemory, ReplyWith, Reading, Settled
  <2>4. CASE ReadIssuesReadFile(c)
    BY <2>2, <2>4 DEF ReadIssuesReadFile, Reading
  <2>5. CASE ReadLoads(c)
    BY <2>2, <2>5 DEF ReadLoads, ReplyWith, Reading, Settled
  <2>6. CASE ReadFile(c)
    <3>1. CASE pc[c] = "readFile"
      BY <2>2, <2>6, <3>1 DEF ReadFile, Reading
    <3>2. CASE pc[c] = "putReadFile"
      BY <2>1, <2>2, <2>6, <3>2 DEF ReadFile, Putting, Started
    <3> QED BY <2>6, <3>1, <3>2 DEF ReadFile
  <2>7. CASE ReadFileFails(c)
    <3>1. CASE pc[c] = "readFile"
      BY <2>2, <2>7, <3>1 DEF ReadFileFails, Reading, Settled
    <3>2. CASE pc[c] = "putReadFile"
      BY <2>1, <2>7, <3>2, SettleChain DEF ReadFileFails, Putting, Started
    <3> QED BY <2>7, <3>1, <3>2 DEF ReadFileFails
  <2>8. CASE PutVerifies(c)
    BY <2>8, VerifyChain DEF PutVerifies
  <2>9. CASE PutIssuesReadFile(c)
    BY <2>2, <2>9 DEF PutIssuesReadFile, Putting
  <2>10. CASE PutLoads(c)
    BY <2>1, <2>10, VerifyChain DEF PutLoads, Putting, Started
  <2>11. CASE WriteFile(c)
    BY <2>1, <2>2, <2>11 DEF WriteFile, Putting, Started
  <2>12. CASE Rename(c)
    <3>1. \A d \in Callers \ {c} : pc[d] \notin Started
      BY <2>1, <2>12 DEF Rename, Running, Started, Putting
    <3>2. \A d \in Callers : /\ pc'[d] \in Putting <=> pc[d] \in Putting
                             /\ pc'[d] \in Started => Running(d)
                             /\ pc'[d] = "commit" => disk' = staged'[d]
      BY <2>1, <2>12, <3>1 DEF Rename, TypeOK, Putting, Started
    <3> QED BY <2>12, <3>2, SameChain DEF Rename
  <2>13. CASE PersistFails(c)
    BY <2>1, <2>13, SettleChain DEF PersistFails, Putting, Started
  <2>14. CASE Commit(c)
    BY <2>1, <2>14, SettleChain DEF Commit, Putting, Started
  <2> QED BY <1>3, <2>3, <2>4, <2>5, <2>6, <2>7, <2>8, <2>9, <2>10, <2>11,
             <2>12, <2>13, <2>14 DEF Step
<1>4. CASE Crash
  BY <1>4 DEF Crash, ChainOK, Putting, Started
<1>5. CASE UNCHANGED vars
  BY <1>5 DEF vars, ChainOK, Running
<1> QED BY <1>1, <1>2, <1>3, <1>4, <1>5 DEF Next

\* An empty store has the types and no chain.
LEMMA InitOK ==
  ASSUME Init
  PROVE  TypeOK /\ ChainOK
<1>1. TypeOK
  <2>1. Empty \in Rulesets /\ operation \in Seq(Callers)
    BY DEF Init, Empty, Rulesets
  <2> QED BY <2>1 DEF Init, TypeOK, Settled
<1>2. ChainOK
  BY DEF Init, ChainOK, Putting, Started
<1> QED BY <1>1, <1>2

(***************************************************************************)
(* Every variable stays in its range, under any interleaving of the calls, *)
(* failures and crashes.                                                   *)
(***************************************************************************)
THEOREM TypeCorrect == Spec => []TypeOK
<1>1. TypeOK /\ ChainOK /\ [Next]_vars => (TypeOK /\ ChainOK)'
  BY TypeStep, ChainStep
<1> QED BY <1>1, InitOK, PTL DEF Spec

(***************************************************************************)
(* At all times the puts of an environment form a chain.                   *)
(***************************************************************************)
THEOREM ChainCorrect == Spec => [](TypeOK /\ ChainOK)
<1>1. TypeOK /\ ChainOK /\ [Next]_vars => (TypeOK /\ ChainOK)'
  BY TypeStep, ChainStep
<1> QED BY <1>1, InitOK, PTL DEF Spec

(***************************************************************************)
(* serialize lets one put at a time past its verification, and a put that  *)
(* is about to be acknowledged is the one on disk, also when reads load    *)
(* the file concurrently.                                                  *)
(***************************************************************************)
THEOREM PutsAreSerialAlways == Spec => []PutsAreSerial
<1>1. TypeOK /\ ChainOK => PutsAreSerial
  BY DEF ChainOK, PutsAreSerial, Running, Started
<1> QED BY <1>1, ChainCorrect, PTL

-------------------------------------------------------------------------------
(***************************************************************************)
(* When no other call overlaps a read that loads the file, more holds.     *)
(*                                                                         *)
(* LoadOK: whoever loads the file is alone or the oldest put, so what it   *)
(* has read is still the file.                                             *)
(***************************************************************************)
LoadOK ==
  /\ ~loaded => memory = Empty
  /\ ~loaded => \A c \in Callers : pc[c] \in Reading => Quiet(c)
  /\ \A c \in Callers :
       /\ pc[c] \in {"readFile", "load", "putReadFile", "putLoad"} => ~loaded
       /\ pc[c] \in {"load", "putLoad"} => buffer[c] = disk

(***************************************************************************)
(* StagedOK: a put past its verification edits this.memory, still.         *)
(***************************************************************************)
Writing == {"writeFile", "rename", "commit"}

StagedOK ==
  \A c \in Callers : pc[c] \in Writing =>
    /\ loaded
    /\ Verifies(memory[call[c].env], call[c].next, call[c].expected)
    /\ staged[c] = [memory EXCEPT ![call[c].env] = call[c].next]

(***************************************************************************)
(* ToldOK: what was told is no newer than the disk, nor than the memory    *)
(* the next read resolves with.                                            *)
(***************************************************************************)
ToldOK ==
  /\ loaded => \A e \in Envs : AtLeast(memory[e], told[e])
  /\ \A c \in Callers : pc[c] \in Reading =>
       \A e \in Envs : AtLeast(told[e], floor[c][e])

StoreInv ==
  /\ TypeOK
  /\ ChainOK
  /\ LoadOK
  /\ StagedOK
  /\ ToldOK
  /\ MemoryTracksDisk
  /\ NothingToldIsLost
  /\ ReadsNeverGoBack

\* At least as new is transitive.
LEMMA AtLeastTransitive ==
  ASSUME NEW a \in Ruleset \cup {None}, NEW b \in Ruleset \cup {None},
         NEW d \in Ruleset \cup {None}, AtLeast(a, b), AtLeast(b, d)
  PROVE  AtLeast(a, d)
BY NoneAssumption DEF AtLeast, Ruleset, Revisions

\* The newest is at least as new as both.
LEMMA NewestAtLeast ==
  ASSUME NEW a \in Ruleset \cup {None}, NEW b \in Ruleset \cup {None}
  PROVE  /\ AtLeast(Newest(a, b), b)
         /\ AtLeast(a, b) => Newest(a, b) = a
         /\ \A d : AtLeast(d, a) /\ AtLeast(d, b) => AtLeast(d, Newest(a, b))
         /\ AtLeast(a, a)
BY DEF AtLeast, Newest

\* A ruleset that verifies is newer than the stored.
LEMMA VerifiedIsNewer ==
  ASSUME NEW a \in Ruleset \cup {None}, NEW n \in Ruleset,
         NEW x \in Revisions \cup {None}, Verifies(a, n, x)
  PROVE  AtLeast(n, a)
BY NoneAssumption DEF AtLeast, Verifies, Ruleset, Revisions

\* The durable state is a ruleset or none.
LEMMA DurableType ==
  ASSUME TypeOK
  PROVE  /\ Durable \in Rulesets
         /\ \A m \in Rulesets : m # NoFile
BY NoFileAssumption DEF TypeOK, Durable, Empty, Rulesets

(***************************************************************************)
(* Only one put is past its verification.                                  *)
(***************************************************************************)
LEMMA AloneWriting ==
  ASSUME ChainOK, NEW c \in Callers, Running(c)
  PROVE  \A d \in Callers \ {c} : pc[d] \notin Writing
                                  /\ pc[d] \notin {"putReadFile", "putLoad"}
BY DEF ChainOK, Running, Started, Putting, Writing

(***************************************************************************)
(* A load gives memory the content of the file.                            *)
(***************************************************************************)
LEMMA LoadedIsDurable ==
  ASSUME StoreInv, NEW c \in Callers, pc[c] \in {"load", "putLoad"}
  PROVE  Loaded(c) = Durable
BY DEF StoreInv, LoadOK, Loaded, Durable

(***************************************************************************)
(* A step that only moves one call, neither to nor from a commit.          *)
(***************************************************************************)
LEMMA MoveInv ==
  ASSUME StoreInv, NEW c \in Callers, NEW p, pc' = [pc EXCEPT ![c] = p],
         UNCHANGED <<disk, memory, loaded, call, staged, told, reply, floor>>,
         pc[c] # "commit", p # "replied",
         p \in Writing => pc[c] \in Writing,
         p \in Reading => pc[c] \in Reading
  PROVE  /\ StagedOK' /\ ToldOK' /\ MemoryTracksDisk'
         /\ NothingToldIsLost' /\ ReadsNeverGoBack'
<1>1. \A d \in Callers : /\ pc'[d] \in Writing => pc[d] \in Writing
                         /\ pc'[d] \in Reading => pc[d] \in Reading
                         /\ pc'[d] = "replied" => pc[d] = "replied"
                         /\ pc[d] = "commit" => pc'[d] = "commit"
  BY DEF StoreInv, TypeOK
<1>2. StagedOK'
  BY <1>1 DEF StoreInv, StagedOK
<1>3. ToldOK'
  BY <1>1 DEF StoreInv, ToldOK
<1>4. MemoryTracksDisk'
  BY <1>1 DEF StoreInv, MemoryTracksDisk, Durable
<1>5. NothingToldIsLost'
  BY DEF StoreInv, NothingToldIsLost, Durable
<1>6. ReadsNeverGoBack'
  BY <1>1 DEF StoreInv, ReadsNeverGoBack
<1> QED BY <1>2, <1>3, <1>4, <1>5, <1>6

(***************************************************************************)
(* A put that rejects.                                                     *)
(***************************************************************************)
LEMMA RejectInv ==
  ASSUME StoreInv, NEW c \in Callers, Settle(c), pc[c] # "commit",
         UNCHANGED <<disk, memory, loaded, told, reply, floor>>
  PROVE  /\ StagedOK' /\ ToldOK' /\ MemoryTracksDisk'
         /\ NothingToldIsLost' /\ ReadsNeverGoBack'
<1>1. pc'[c] = "idle"
  BY DEF StoreInv, TypeOK, Settle
<1>2. \A d \in Callers \ {c} : /\ pc'[d] = pc[d]
                               /\ call'[d] = call[d]
                               /\ staged'[d] = staged[d]
  BY DEF StoreInv, TypeOK, Settle
<1>3. StagedOK'
  BY <1>1, <1>2 DEF StoreInv, StagedOK, Writing
<1>4. ToldOK'
  BY <1>1, <1>2 DEF StoreInv, ToldOK, Reading
<1>5. MemoryTracksDisk'
  BY <1>1, <1>2 DEF StoreInv, MemoryTracksDisk, Durable
<1>6. NothingToldIsLost'
  BY DEF StoreInv, NothingToldIsLost, Durable
<1>7. ReadsNeverGoBack'
  BY <1>1, <1>2 DEF StoreInv, ReadsNeverGoBack
<1> QED BY <1>3, <1>4, <1>5, <1>6, <1>7

(***************************************************************************)
(* A put that verifies against a memory that is the file.                  *)
(***************************************************************************)
LEMMA VerifyInv ==
  ASSUME StoreInv, NEW c \in Callers, Running(c), Verify(c, memory'),
         pc[c] \notin Writing, loaded', memory' = Durable,
         \A d \in Callers : pc[d] \in Writing => memory' = memory,
         UNCHANGED <<disk, told, reply, floor>>
  PROVE  /\ StagedOK' /\ ToldOK' /\ MemoryTracksDisk'
         /\ NothingToldIsLost' /\ ReadsNeverGoBack'
<1>1. \A d \in Callers \ {c} : /\ pc'[d] = pc[d]
                               /\ call'[d] = call[d]
                               /\ staged'[d] = staged[d]
                               /\ pc[d] \notin Writing
  BY AloneWriting DEF StoreInv, TypeOK, Settle, Verify
<1>2. pc'[c] \in {"idle", "writeFile"}
  BY DEF StoreInv, TypeOK, Settle, Verify
<1>3. pc'[c] = "writeFile" =>
        /\ Verifies(memory'[call'[c].env], call'[c].next, call'[c].expected)
        /\ staged'[c] = [memory' EXCEPT ![call'[c].env] = call'[c].next]
  BY DEF StoreInv, TypeOK, Settle, Verify
<1>4. StagedOK'
  BY <1>1, <1>2, <1>3 DEF StagedOK, Writing
<1>5. NothingToldIsLost'
  BY DEF StoreInv, NothingToldIsLost, Durable
<1>6. ToldOK'
  BY <1>1, <1>2 DEF StoreInv, ToldOK, NothingToldIsLost, Reading
<1>7. MemoryTracksDisk'
  BY DEF MemoryTracksDisk, Durable
<1>8. ReadsNeverGoBack'
  BY <1>1, <1>2 DEF StoreInv, ReadsNeverGoBack
<1> QED BY <1>4, <1>5, <1>6, <1>7, <1>8

(***************************************************************************)
(* A read that resolves with a memory no older than what was told.         *)
(***************************************************************************)
LEMMA ReplyInv ==
  ASSUME StoreInv, NEW c \in Callers, pc[c] \in Reading, ReplyWith(c, memory'),
         loaded', memory' \in Rulesets,
         \A e \in Envs : AtLeast(memory'[e], told[e]),
         \A e \in Envs : AtLeast(Durable[e], memory'[e]),
         \A d \in Callers : pc[d] \in Writing => memory' = memory,
         (\A d \in Callers : pc[d] # "commit") => memory' = Durable,
         UNCHANGED <<disk, call, staged, floor>>
  PROVE  /\ StagedOK' /\ ToldOK' /\ MemoryTracksDisk'
         /\ NothingToldIsLost' /\ ReadsNeverGoBack'
<1>1. /\ pc' = [pc EXCEPT ![c] = "replied"]
      /\ \A d \in Callers \ {c} : pc'[d] = pc[d]
      /\ pc'[c] = "replied"
  BY DEF StoreInv, TypeOK, ReplyWith
<1>2. told' \in Rulesets
  BY NewestType DEF StoreInv, TypeOK, ReplyWith, Rulesets
<1>3. \A e \in Envs : /\ told'[e] = memory'[e]
                      /\ AtLeast(told'[e], told[e])
                      /\ AtLeast(memory'[e], told'[e])
                      /\ AtLeast(Durable[e], told'[e])
  BY NewestAtLeast DEF StoreInv, TypeOK, ReplyWith, Rulesets
<1>4. StagedOK'
  BY <1>1 DEF StoreInv, StagedOK, Writing
<1>5. ToldOK'
  <2>1. ASSUME NEW d \in Callers, pc'[d] \in Reading, NEW e \in Envs
        PROVE  AtLeast(told'[e], floor'[d][e])
    <3>1. AtLeast(told[e], floor[d][e])
      BY <1>1, <2>1 DEF StoreInv, ToldOK, Reading
    <3>2. /\ told'[e] \in Ruleset \cup {None}
          /\ told[e] \in Ruleset \cup {None}
          /\ floor[d][e] \in Ruleset \cup {None}
          /\ floor' = floor
      BY <1>2 DEF StoreInv, TypeOK, Rulesets
    <3> QED BY <1>3, <3>1, <3>2, AtLeastTransitive
  <2> QED BY <1>3, <2>1 DEF ToldOK
<1>6. MemoryTracksDisk'
  BY <1>1 DEF MemoryTracksDisk, Durable, Reading
<1>7. NothingToldIsLost'
  BY <1>3 DEF NothingToldIsLost, Durable
<1>8. ReadsNeverGoBack'
  <2>1. \A d \in Callers \ {c} : reply'[d] = reply[d]
    BY DEF StoreInv, TypeOK, ReplyWith
  <2>2. ASSUME NEW e \in Envs
        PROVE  AtLeast(reply'[c][e], floor'[c][e])
    <3>1. AtLeast(told[e], floor[c][e])
      BY DEF StoreInv, ToldOK
    <3>2. reply'[c] = memory'
      BY DEF StoreInv, TypeOK, ReplyWith
    <3>3. /\ memory'[e] \in Ruleset \cup {None}
          /\ told[e] \in Ruleset \cup {None}
          /\ floor[c][e] \in Ruleset \cup {None}
      BY DEF StoreInv, TypeOK, Rulesets
    <3> QED BY <3>1, <3>2, <3>3, AtLeastTransitive
  <2> QED BY <1>1, <2>1, <2>2 DEF StoreInv, ReadsNeverGoBack
<1> QED BY <1>4, <1>5, <1>6, <1>7, <1>8

(***************************************************************************)
(* LoadOK survives a step that moves only c, along its own call.           *)
(***************************************************************************)
LEMMA MoveLoadOK ==
  ASSUME StoreInv, NEW c \in Callers, NEW p, pc'[c] = p,
         \A d \in Callers \ {c} : pc'[d] = pc[d],
         UNCHANGED <<memory, loaded, buffer>>, disk' = disk \/ loaded,
         p \in Reading => pc[c] \in Reading,
         p \in {"readFile", "putReadFile"} => ~loaded,
         p \notin {"load", "putLoad"},
         pc[c] \in Settled => p \in Settled
  PROVE  LoadOK'
<1>1. ~loaded => \A d \in Callers : pc'[d] \in Reading => Quiet(d)'
  <2> SUFFICES ASSUME ~loaded, NEW d \in Callers, pc'[d] \in Reading,
                      NEW b \in Callers \ {d}
               PROVE  pc'[b] \in Settled
    BY DEF Quiet
  <2>1. pc[d] \in Reading
    OBVIOUS
  <2>2. pc[b] \in Settled
    BY <2>1 DEF StoreInv, LoadOK, Quiet
  <2> QED BY <2>2
<1>2. ASSUME NEW d \in Callers
      PROVE  /\ pc'[d] \in {"readFile", "load", "putReadFile", "putLoad"} => ~loaded
             /\ pc'[d] \in {"load", "putLoad"} => buffer[d] = disk'
  BY DEF StoreInv, LoadOK
<1> QED BY <1>1, <1>2 DEF StoreInv, LoadOK

\* A step keeps what loads have read behind what is durable.
LEMMA LoadStep ==
  ASSUME StoreInv, ~ConcurrentColdReads, [Next]_vars
  PROVE  LoadOK'
<1> DEFINE Loads == {"readFile", "load", "putReadFile", "putLoad"}
<1>1. ASSUME NEW c \in Callers, ReadCall(c)
      PROVE  LoadOK'
  <2>1. pc'[c] = "await" /\ \A d \in Callers \ {c} : pc'[d] = pc[d]
    BY <1>1 DEF ReadCall, StoreInv, TypeOK
  <2>2. ~loaded => Quiet(c)
    BY <1>1 DEF ReadCall
  <2>3. ~loaded => \A d \in Callers : pc'[d] \in Reading => Quiet(d)'
    BY <2>1, <2>2 DEF Quiet, Settled, Reading
  <2> QED BY <1>1, <2>1, <2>3 DEF ReadCall, StoreInv, LoadOK
<1>2. ASSUME NEW c \in Callers, NEW e \in Envs, NEW n \in Ruleset,
             NEW x \in Revisions \cup {None}, PutCall(c, e, n, x)
      PROVE  LoadOK'
  <2>1. pc'[c] = "queued" /\ \A d \in Callers \ {c} : pc'[d] = pc[d]
    BY <1>2 DEF PutCall, StoreInv, TypeOK
  <2>2. ~loaded => \A d \in Callers : pc'[d] \notin Reading
    BY <1>2, <2>1 DEF PutCall, Reading
  <2> QED BY <1>2, <2>1, <2>2 DEF PutCall, StoreInv, LoadOK
<1>3. ASSUME NEW c \in Callers, Step(c)
      PROVE  LoadOK'
  <2>1. \A d \in Callers : pc[d] \in Started => Running(d)
    BY DEF StoreInv, ChainOK
  <2>2. ASSUME Settle(c)
        PROVE  pc'[c] = "idle" /\ \A d \in Callers \ {c} : pc'[d] = pc[d]
    BY <2>2 DEF Settle, StoreInv, TypeOK
  <2>3. ASSUME NEW m, Verify(c, m)
        PROVE  /\ pc'[c] \in {"idle", "writeFile"}
               /\ \A d \in Callers \ {c} : pc'[d] = pc[d]
    BY <2>2, <2>3 DEF Verify, StoreInv, TypeOK
  <2>4. CASE ReadFromMemory(c)
    <3>1. pc'[c] = "replied" /\ \A d \in Callers \ {c} : pc'[d] = pc[d]
      BY <2>4 DEF ReadFromMemory, ReplyWith, StoreInv, TypeOK
    <3> QED BY <2>4, <3>1, MoveLoadOK DEF ReadFromMemory, Settled, Reading
  <2>5. CASE ReadIssuesReadFile(c)
    <3>1. pc'[c] = "readFile" /\ \A d \in Callers \ {c} : pc'[d] = pc[d]
      BY <2>5 DEF ReadIssuesReadFile, StoreInv, TypeOK
    <3> QED BY <2>5, <3>1, MoveLoadOK DEF ReadIssuesReadFile, Settled, Reading
  <2>6. CASE ReadLoads(c)
    <3>1. pc'[c] = "replied" /\ \A d \in Callers \ {c} : pc'[d] = pc[d]
      BY <2>6 DEF ReadLoads, ReplyWith, StoreInv, TypeOK
    <3>2. Quiet(c)
      BY <2>6 DEF ReadLoads, StoreInv, LoadOK, Reading
    <3>3. \A d \in Callers : pc'[d] \notin Loads
      BY <3>1, <3>2 DEF Quiet, Settled
    <3> QED BY <2>6, <3>3 DEF ReadLoads, LoadOK
  <2>7. CASE ReadFile(c)
    <3>1. /\ \A d \in Callers \ {c} : pc'[d] = pc[d] /\ buffer'[d] = buffer[d]
          /\ buffer'[c] = disk /\ disk' = disk
          /\ pc'[c] = IF pc[c] = "readFile" THEN "load" ELSE "putLoad"
          /\ UNCHANGED <<memory, loaded>>
      BY <2>7 DEF ReadFile, StoreInv, TypeOK
    <3>2. pc[c] \in {"readFile", "putReadFile"} /\ ~loaded
      BY <2>7 DEF ReadFile, StoreInv, LoadOK
    <3>3. \A d \in Callers : pc'[d] \in Reading => pc[d] \in Reading
      BY <3>1, <3>2 DEF Reading
    <3>4. \A d \in Callers : pc[d] \in Settled => pc'[d] \in Settled
      BY <3>1, <3>2 DEF Settled
    <3>5. \A d \in Callers : pc'[d] \in Reading => Quiet(d)'
      BY <3>2, <3>3, <3>4 DEF StoreInv, LoadOK, Quiet
    <3> QED BY <3>1, <3>2, <3>5 DEF StoreInv, LoadOK
  <2>8. CASE ReadFileFails(c)
    <3>1. pc'[c] = "idle" /\ \A d \in Callers \ {c} : pc'[d] = pc[d]
      BY <2>2, <2>8 DEF ReadFileFails, StoreInv, TypeOK
    <3> QED BY <2>8, <3>1, MoveLoadOK DEF ReadFileFails, Settled, Reading
  <2>9. CASE PutVerifies(c)
    <3>1. /\ pc'[c] \in {"idle", "writeFile"}
          /\ \A d \in Callers \ {c} : pc'[d] = pc[d]
      BY <2>3, <2>9 DEF PutVerifies
    <3> QED BY <2>9, <3>1, MoveLoadOK DEF PutVerifies, Settled, Reading
  <2>10. CASE PutIssuesReadFile(c)
    <3>1. pc'[c] = "putReadFile" /\ \A d \in Callers \ {c} : pc'[d] = pc[d]
      BY <2>10 DEF PutIssuesReadFile, StoreInv, TypeOK
    <3> QED BY <2>10, <3>1, MoveLoadOK DEF PutIssuesReadFile, Settled, Reading
  <2>11. CASE PutLoads(c)
    <3>1. /\ pc'[c] \in {"idle", "writeFile"}
          /\ \A d \in Callers \ {c} : pc'[d] = pc[d]
      BY <2>3, <2>11 DEF PutLoads
    <3>2. ~loaded
      BY <2>11 DEF PutLoads, StoreInv, LoadOK
    <3>3. \A d \in Callers \ {c} : pc[d] \notin Reading
      BY <2>11, <3>2 DEF PutLoads, StoreInv, LoadOK, Quiet, Settled
    <3>4. \A d \in Callers \ {c} : pc[d] \notin {"putReadFile", "putLoad"}
      BY <2>1, <2>11, AloneWriting DEF PutLoads, StoreInv, Started, Putting
    <3>5. \A d \in Callers : pc'[d] \notin Loads
      BY <3>1, <3>3, <3>4 DEF Reading
    <3> QED BY <2>11, <3>5 DEF PutLoads, LoadOK
  <2>12. CASE WriteFile(c)
    <3>1. pc'[c] = "rename" /\ \A d \in Callers \ {c} : pc'[d] = pc[d]
      BY <2>12 DEF WriteFile, StoreInv, TypeOK
    <3> QED BY <2>12, <3>1, MoveLoadOK DEF WriteFile, Settled, Reading
  <2>13. CASE Rename(c)
    <3>1. pc'[c] = "commit" /\ \A d \in Callers \ {c} : pc'[d] = pc[d]
      BY <2>13 DEF Rename, StoreInv, TypeOK
    <3>2. loaded
      BY <2>13 DEF Rename, StoreInv, StagedOK, Writing
    <3> QED BY <2>13, <3>1, <3>2, MoveLoadOK DEF Rename, Settled, Reading
  <2>14. CASE PersistFails(c)
    <3>1. pc'[c] = "idle" /\ \A d \in Callers \ {c} : pc'[d] = pc[d]
      BY <2>2, <2>14 DEF PersistFails
    <3> QED BY <2>14, <3>1, MoveLoadOK DEF PersistFails, Settled, Reading
  <2>15. CASE Commit(c)
    <3>1. pc'[c] = "idle" /\ \A d \in Callers \ {c} : pc'[d] = pc[d]
      BY <2>2, <2>15 DEF Commit
    <3>2. loaded
      BY <2>15 DEF Commit, StoreInv, StagedOK, Writing
    <3> QED BY <2>15, <3>1, <3>2 DEF Commit, StoreInv, LoadOK
  <2> QED BY <1>3, <2>4, <2>5, <2>6, <2>7, <2>8, <2>9, <2>10, <2>11, <2>12,
             <2>13, <2>14, <2>15 DEF Step
<1>4. CASE Crash
  BY <1>4 DEF Crash, LoadOK, Reading
<1>5. CASE UNCHANGED vars
  BY <1>5 DEF vars, StoreInv, LoadOK, Quiet
<1> QED BY <1>1, <1>2, <1>3, <1>4, <1>5 DEF Next

\* The commit of a put keeps the invariant.
LEMMA CommitInv ==
  ASSUME StoreInv, NEW c \in Callers, Commit(c)
  PROVE  /\ StagedOK' /\ ToldOK' /\ MemoryTracksDisk'
         /\ NothingToldIsLost' /\ ReadsNeverGoBack'
<1> DEFINE e0 == call[c].env
           n0 == call[c].next
<1>1. /\ pc'[c] = "idle"
      /\ \A d \in Callers \ {c} : pc'[d] = pc[d] /\ pc[d] \notin Writing
  <2>1. Running(c)
    BY DEF Commit, StoreInv, ChainOK, Started, Putting
  <2> QED BY <2>1, AloneWriting DEF Commit, Settle, StoreInv, TypeOK
<1>2. /\ loaded /\ loaded'
      /\ Verifies(memory[e0], n0, call[c].expected)
      /\ memory' = [memory EXCEPT ![e0] = n0]
      /\ memory' = disk /\ disk' = disk
      /\ e0 \in Envs /\ n0 \in Ruleset /\ call[c].expected \in Revisions \cup {None}
  BY DEF Commit, StoreInv, StagedOK, ChainOK, Writing, Putting, Calls
<1>3. disk # NoFile /\ Durable = memory' /\ Durable' = memory'
  BY <1>2, DurableType DEF StoreInv, Durable, TypeOK, Commit
<1>4. /\ memory \in Rulesets
      /\ told \in Rulesets
      /\ told' = [told EXCEPT ![e0] = Newest(n0, @)]
  BY DEF Commit, StoreInv, TypeOK
<1>5. AtLeast(n0, told[e0])
  <2>1. AtLeast(n0, memory[e0])
    BY <1>2, <1>4, VerifiedIsNewer DEF Rulesets
  <2>2. AtLeast(memory[e0], told[e0])
    BY <1>2 DEF StoreInv, ToldOK
  <2>3. /\ n0 \in Ruleset \cup {None}
        /\ memory[e0] \in Ruleset \cup {None}
        /\ told[e0] \in Ruleset \cup {None}
    BY <1>2, <1>4 DEF Rulesets
  <2> QED BY <2>1, <2>2, <2>3, AtLeastTransitive
<1>6. told' = [told EXCEPT ![e0] = n0]
  BY <1>4, <1>5 DEF Newest
<1>7. \A e \in Envs : AtLeast(memory'[e], told'[e])
  <2>1. \A e \in Envs : AtLeast(memory[e], told[e])
    BY <1>2 DEF StoreInv, ToldOK
  <2> QED BY <1>2, <1>4, <1>6, <2>1 DEF AtLeast, Rulesets
<1>8. \A e \in Envs : told'[e] = told[e] \/ AtLeast(told'[e], told[e])
  BY <1>2, <1>4, <1>5, <1>6 DEF Rulesets
<1>9. ToldOK'
  <2>1. ASSUME NEW d \in Callers, pc'[d] \in Reading, NEW e \in Envs
        PROVE  AtLeast(told'[e], floor'[d][e])
    <3>1. AtLeast(told[e], floor[d][e]) /\ floor' = floor
      BY <1>1, <2>1 DEF StoreInv, ToldOK, Reading, Commit
    <3>2. /\ told'[e] \in Ruleset \cup {None}
          /\ told[e] \in Ruleset \cup {None}
          /\ floor[d][e] \in Ruleset \cup {None}
      BY <1>2, <1>4, <1>6 DEF StoreInv, TypeOK, Rulesets
    <3> QED BY <1>8, <3>1, <3>2, AtLeastTransitive
  <2> QED BY <1>7, <2>1 DEF ToldOK
<1>10. StagedOK'
  BY <1>1 DEF StagedOK, Writing
<1>11. MemoryTracksDisk'
  BY <1>3 DEF MemoryTracksDisk
<1>12. NothingToldIsLost'
  BY <1>3, <1>7 DEF NothingToldIsLost
<1>13. ReadsNeverGoBack'
  BY <1>1 DEF Commit, StoreInv, ReadsNeverGoBack
<1> QED BY <1>9, <1>10, <1>11, <1>12, <1>13

(***************************************************************************)
(* A put renames exactly the map its verification promised.                *)
(***************************************************************************)
LEMMA RenameFacts ==
  ASSUME StoreInv, NEW c \in Callers, Rename(c)
  PROVE  /\ Durable = memory
         /\ Durable' = [Durable EXCEPT ![call[c].env] = call[c].next]
         /\ call[c] \in Calls
         /\ Verifies(Durable[call[c].env], call[c].next, call[c].expected)
         /\ \A d \in Callers \ {c} : pc[d] \notin Writing
         /\ loaded
<1>1. Running(c) /\ call[c] \in Calls /\ pc[c] \in Writing
  BY DEF Rename, StoreInv, ChainOK, Started, Putting, Writing
<1>2. \A d \in Callers \ {c} : pc[d] \notin Writing
  BY <1>1, AloneWriting DEF StoreInv
<1>3. loaded /\ memory = Durable
  BY <1>1, <1>2 DEF StoreInv, StagedOK, MemoryTracksDisk, Writing, Rename
<1>4. disk' = [memory EXCEPT ![call[c].env] = call[c].next] /\ disk' \in Rulesets
  BY <1>1 DEF Rename, StoreInv, StagedOK, TypeOK
<1>5. Durable' = disk'
  BY <1>4, DurableType DEF StoreInv, Durable
<1>6. Verifies(memory[call[c].env], call[c].next, call[c].expected)
  BY <1>1 DEF StoreInv, StagedOK
<1> QED BY <1>1, <1>2, <1>3, <1>4, <1>5, <1>6

\* The rename keeps the invariant.
LEMMA RenameInv ==
  ASSUME StoreInv, NEW c \in Callers, Rename(c)
  PROVE  /\ StagedOK' /\ ToldOK' /\ MemoryTracksDisk'
         /\ NothingToldIsLost' /\ ReadsNeverGoBack'
<1>1. pc'[c] = "commit" /\ \A d \in Callers \ {c} : pc'[d] = pc[d]
  BY DEF Rename, StoreInv, TypeOK
<1>2. StagedOK'
  BY <1>1 DEF Rename, StoreInv, StagedOK, Writing
<1>3. ToldOK'
  BY <1>1 DEF Rename, StoreInv, ToldOK, Reading
<1>4. MemoryTracksDisk'
  BY <1>1 DEF MemoryTracksDisk
<1>5. NothingToldIsLost'
  <2> SUFFICES ASSUME NEW e \in Envs
               PROVE  AtLeast(Durable'[e], told[e])
    BY DEF Rename, NothingToldIsLost
  <2>1. AtLeast(Durable[e], told[e])
    BY DEF StoreInv, NothingToldIsLost
  <2>2. CASE e # call[c].env
    BY <2>1, <2>2, RenameFacts, DurableType DEF StoreInv, Rulesets
  <2>3. CASE e = call[c].env
    <3>1. /\ Durable'[e] \in Ruleset \cup {None}
          /\ Durable[e] \in Ruleset \cup {None}
          /\ told[e] \in Ruleset \cup {None}
          /\ Durable'[e] = call[c].next
          /\ call[c].next \in Ruleset
          /\ call[c].expected \in Revisions \cup {None}
      BY <2>3, RenameFacts, DurableType DEF StoreInv, TypeOK, Rulesets, Calls
    <3>2. AtLeast(Durable'[e], Durable[e])
      BY <2>3, <3>1, RenameFacts, VerifiedIsNewer
    <3> QED BY <2>1, <3>1, <3>2, AtLeastTransitive
  <2> QED BY <2>2, <2>3
<1>6. ReadsNeverGoBack'
  BY <1>1 DEF Rename, StoreInv, ReadsNeverGoBack
<1> QED BY <1>2, <1>3, <1>4, <1>5, <1>6

\* A new call keeps the invariant.
LEMMA CallInv ==
  ASSUME StoreInv, NEW c \in Callers,
         \/ ReadCall(c)
         \/ \E e \in Envs, n \in Ruleset, x \in Revisions \cup {None} :
              PutCall(c, e, n, x)
  PROVE  /\ StagedOK' /\ ToldOK' /\ MemoryTracksDisk'
         /\ NothingToldIsLost' /\ ReadsNeverGoBack'
<1>1. /\ pc[c] \in Settled
      /\ pc'[c] \in {"await", "queued"}
      /\ UNCHANGED <<disk, memory, loaded, staged, told>>
      /\ \A d \in Callers \ {c} : /\ pc'[d] = pc[d]
                                  /\ call'[d] = call[d]
                                  /\ reply'[d] = reply[d]
                                  /\ floor'[d] = floor[d]
      /\ pc'[c] = "await" => floor'[c] = told
  BY DEF ReadCall, PutCall, StoreInv, TypeOK
<1>2. StagedOK'
  BY <1>1 DEF StoreInv, StagedOK, Writing
<1>3. ToldOK'
  BY <1>1 DEF StoreInv, ToldOK, Reading, AtLeast
<1>4. MemoryTracksDisk' /\ NothingToldIsLost'
  BY <1>1 DEF StoreInv, MemoryTracksDisk, NothingToldIsLost, Durable, Settled
<1>5. ReadsNeverGoBack'
  BY <1>1 DEF StoreInv, ReadsNeverGoBack
<1> QED BY <1>2, <1>3, <1>4, <1>5

\* Every step keeps the inductive invariant.
LEMMA StoreStep ==
  ASSUME StoreInv, ~ConcurrentColdReads, [Next]_vars
  PROVE  StoreInv'
<1> DEFINE Rest == /\ StagedOK' /\ ToldOK' /\ MemoryTracksDisk'
                   /\ NothingToldIsLost' /\ ReadsNeverGoBack'
<1>1. TypeOK' /\ ChainOK' /\ LoadOK'
  BY TypeStep, ChainStep, LoadStep DEF StoreInv
<1>2. ASSUME NEW c \in Callers, Step(c)
      PROVE  Rest
  <2>1. CASE ReadFromMemory(c)
    <3>1. /\ pc[c] \in Reading
          /\ ReplyWith(c, memory')
          /\ loaded' /\ memory' = memory /\ memory' \in Rulesets
          /\ UNCHANGED <<disk, call, staged, floor>>
      BY <2>1 DEF ReadFromMemory, Reading, StoreInv, TypeOK
    <3>2. /\ \A e \in Envs : AtLeast(memory'[e], told[e])
          /\ (\A d \in Callers : pc[d] # "commit") => memory' = Durable
      BY <2>1, <3>1 DEF ReadFromMemory, StoreInv, ToldOK, MemoryTracksDisk
    <3>3. ASSUME NEW e \in Envs
          PROVE  AtLeast(Durable[e], memory'[e])
      <4>1. CASE \A d \in Callers : pc[d] # "commit"
        BY <3>2, <4>1 DEF AtLeast
      <4>2. ASSUME NEW d \in Callers, pc[d] = "commit"
            PROVE  AtLeast(Durable[e], memory'[e])
        <5>1. /\ call[d] \in Calls
              /\ disk = staged[d]
              /\ disk = [memory EXCEPT ![call[d].env] = call[d].next]
              /\ Verifies(memory[call[d].env], call[d].next, call[d].expected)
          BY <4>2 DEF StoreInv, ChainOK, StagedOK, Writing, Putting
        <5>2. Durable = disk
          BY <5>1, DurableType DEF StoreInv, TypeOK, Durable
        <5>3. CASE e # call[d].env
          BY <3>1, <5>1, <5>2, <5>3 DEF AtLeast, Rulesets
        <5>4. CASE e = call[d].env
          <6>1. Durable[e] = call[d].next /\ memory[e] \in Ruleset \cup {None}
            BY <3>1, <5>1, <5>2, <5>4 DEF Rulesets
          <6> QED BY <3>1, <5>1, <5>4, <6>1, VerifiedIsNewer DEF Calls
        <5> QED BY <5>3, <5>4
      <4> QED BY <4>1, <4>2
    <3> QED BY <3>1, <3>2, <3>3, ReplyInv
  <2>2. CASE ReadIssuesReadFile(c)
    BY <2>2, MoveInv DEF ReadIssuesReadFile, Writing, Reading
  <2>3. CASE ReadLoads(c)
    <3>1. /\ pc[c] \in Reading
          /\ memory' = Durable
          /\ ReplyWith(c, memory')
          /\ loaded' /\ ~loaded
          /\ UNCHANGED <<disk, call, staged, floor>>
      BY <2>3, LoadedIsDurable DEF ReadLoads, Reading, StoreInv, LoadOK
    <3>2. memory' \in Rulesets
      BY <3>1, DurableType DEF StoreInv
    <3>3. \A d \in Callers : pc[d] \notin Writing
      BY <3>1 DEF StoreInv, StagedOK
    <3>4. \A e \in Envs : /\ AtLeast(memory'[e], told[e])
                          /\ AtLeast(Durable[e], memory'[e])
      BY <3>1 DEF StoreInv, NothingToldIsLost, AtLeast
    <3> QED BY <3>1, <3>2, <3>3, <3>4, ReplyInv
  <2>4. CASE ReadFile(c)
    BY <2>4, MoveInv DEF ReadFile, Writing, Reading
  <2>5. CASE ReadFileFails(c)
    <3>1. CASE pc[c] = "readFile"
      BY <2>5, <3>1, MoveInv DEF ReadFileFails, Writing, Reading
    <3>2. CASE pc[c] = "putReadFile"
      BY <2>5, <3>2, RejectInv DEF ReadFileFails
    <3> QED BY <2>5, <3>1, <3>2 DEF ReadFileFails
  <2>6. CASE PutVerifies(c)
    <3>1. \A d \in Callers : pc[d] # "commit"
      BY <2>6, AloneWriting DEF PutVerifies, StoreInv, Writing
    <3>2. memory' = memory /\ memory' = Durable /\ loaded'
      BY <2>6, <3>1 DEF PutVerifies, StoreInv, MemoryTracksDisk
    <3> QED BY <2>6, <3>2, VerifyInv DEF PutVerifies, Writing
  <2>7. CASE PutIssuesReadFile(c)
    BY <2>7, MoveInv DEF PutIssuesReadFile, Writing, Reading
  <2>8. CASE PutLoads(c)
    <3>1. Running(c)
      BY <2>8 DEF PutLoads, StoreInv, ChainOK, Started, Putting
    <3>2. memory' = Durable /\ ~loaded
      BY <2>8, LoadedIsDurable DEF PutLoads, StoreInv, LoadOK
    <3>3. \A d \in Callers : pc[d] \notin Writing
      BY <3>2 DEF StoreInv, StagedOK
    <3>4. Verify(c, memory') /\ loaded' /\ UNCHANGED <<disk, told, reply, floor>>
      BY <2>8 DEF PutLoads, StoreInv, TypeOK
    <3> QED BY <3>1, <3>2, <3>3, <3>4, VerifyInv
  <2>9. CASE WriteFile(c)
    BY <2>9, MoveInv DEF WriteFile, Writing, Reading
  <2>10. CASE Rename(c)
    BY <2>10, RenameInv
  <2>11. CASE PersistFails(c)
    BY <2>11, RejectInv DEF PersistFails
  <2>12. CASE Commit(c)
    BY <2>12, CommitInv
  <2> QED BY <1>2, <2>1, <2>2, <2>3, <2>4, <2>5, <2>6, <2>7, <2>8, <2>9,
             <2>10, <2>11, <2>12 DEF Step
<1>3. ASSUME Crash
      PROVE  Rest
  <2>1. NothingToldIsLost'
    BY <1>3 DEF Crash, StoreInv, NothingToldIsLost, Durable
  <2> QED BY <1>3, <2>1 DEF Crash, StagedOK, ToldOK, MemoryTracksDisk,
             ReadsNeverGoBack, Writing, Reading
<1>4. ASSUME UNCHANGED vars
      PROVE  Rest
  BY <1>4 DEF vars, StoreInv, StagedOK, ToldOK, MemoryTracksDisk, Durable,
              NothingToldIsLost, ReadsNeverGoBack
<1>5. Rest
  BY <1>2, <1>3, <1>4, CallInv DEF Next
<1> QED BY <1>1, <1>5 DEF StoreInv

\* An empty store satisfies the inductive invariant.
LEMMA StoreInit ==
  ASSUME Init
  PROVE  StoreInv
<1>1. TypeOK /\ ChainOK
  BY InitOK
<1>2. LoadOK /\ StagedOK /\ ToldOK
  BY DEF Init, LoadOK, StagedOK, ToldOK, Reading, Writing
<1>3. MemoryTracksDisk /\ NothingToldIsLost /\ ReadsNeverGoBack
  BY DEF Init, MemoryTracksDisk, NothingToldIsLost, ReadsNeverGoBack, AtLeast,
         Durable, Empty
<1> QED BY <1>1, <1>2, <1>3 DEF StoreInv

(***************************************************************************)
(* When no other call overlaps a read that loads the file: memory is the   *)
(* file, nothing a caller was told is lost, and reads never go back.       *)
(***************************************************************************)
THEOREM StoreCorrect ==
  ASSUME ~ConcurrentColdReads
  PROVE  Spec => [](MemoryTracksDisk /\ NothingToldIsLost /\ ReadsNeverGoBack)
<1>1. StoreInv /\ [Next]_vars => StoreInv'
  BY StoreStep
<1>2. StoreInv => MemoryTracksDisk /\ NothingToldIsLost /\ ReadsNeverGoBack
  BY DEF StoreInv
<1> QED BY <1>1, <1>2, StoreInit, PTL DEF Spec

(***************************************************************************)
(* What the store answers reads from is what the file holds, except while  *)
(* a put sits between its rename and its assignment to memory.             *)
(***************************************************************************)
THEOREM MemoryCorrect ==
  ASSUME ~ConcurrentColdReads
  PROVE  Spec => []MemoryTracksDisk
<1> QED BY StoreCorrect, PTL

(***************************************************************************)
(* A read resolves with at least what any caller had been told of when it  *)
(* was called.                                                             *)
(***************************************************************************)
THEOREM ReadsCorrect ==
  ASSUME ~ConcurrentColdReads
  PROVE  Spec => []ReadsNeverGoBack
<1> QED BY StoreCorrect, PTL

(***************************************************************************)
(* Every change of the file is a put that replaces the revision it named,  *)
(* at the moment of the rename.                                            *)
(***************************************************************************)
LEMMA UpdateStep ==
  ASSUME StoreInv, [Next]_vars, Durable' # Durable
  PROVE  \E c \in Callers : /\ pc[c] = "rename"
                            /\ call[c] \in Calls
                            /\ S!Put(call[c].env, call[c].next, call[c].expected)
<1>1. disk' # disk
  BY DEF Durable
<1>2. PICK c \in Callers : Rename(c)
  BY <1>1 DEF Next, Step, ReadCall, PutCall, ReadFromMemory, ReadIssuesReadFile,
     ReadLoads, ReadFile, ReadFileFails, PutVerifies, PutIssuesReadFile, PutLoads,
     WriteFile, PersistFails, Commit, Crash, vars
<1>3. S!Put(call[c].env, call[c].next, call[c].expected)
  BY <1>2, RenameFacts DEF S!Put, S!Verifies, Verifies
<1> QED BY <1>2, <1>3, RenameFacts DEF Rename

(***************************************************************************)
(* Every change of the stored ruleset is a put that verified against what  *)
(* it replaces.                                                            *)
(***************************************************************************)
THEOREM UpdatesAreVerifiedPuts ==
  ASSUME ~ConcurrentColdReads
  PROVE  Spec => EveryUpdateIsAVerifiedPut
<1>1. StoreInv /\ [Next]_vars => StoreInv'
  BY StoreStep
<1>2. StoreInv /\ [Next]_vars =>
        [Durable' # Durable =>
           \E c \in Callers : /\ pc[c] = "rename"
                              /\ S!Put(call[c].env, call[c].next, call[c].expected)]_vars
  BY UpdateStep
<1> QED BY <1>1, <1>2, StoreInit, PTL DEF Spec, EveryUpdateIsAVerifiedPut

(***************************************************************************)
(* The file, seen across crashes and concurrent calls, is a RulesetStore.  *)
(***************************************************************************)
THEOREM Implements ==
  ASSUME ~ConcurrentColdReads
  PROVE  Spec => ImplementsRulesetStore
<1>1. StoreInv /\ [Next]_vars => StoreInv'
  BY StoreStep
<1>2. Init => S!Init
  BY DEF Init, Durable, S!Init, S!Empty, Empty
<1>3. ASSUME StoreInv, [Next]_vars
      PROVE  [S!Next]_Durable
  <2>1. CASE Durable' = Durable
    BY <2>1
  <2>2. CASE Durable' # Durable
    <3>1. PICK c \in Callers : /\ call[c] \in Calls
                               /\ S!Put(call[c].env, call[c].next, call[c].expected)
      BY <1>3, <2>2, UpdateStep
    <3>2. /\ call[c].env \in Envs
          /\ call[c].next \in S!Ruleset
          /\ call[c].expected \in S!Revisions \cup {None}
      BY <3>1 DEF Calls, Ruleset, Revisions, S!Ruleset, S!Revisions
    <3> QED BY <3>1, <3>2 DEF S!Next
  <2> QED BY <2>1, <2>2
<1> QED BY <1>1, <1>2, <1>3, StoreInit, PTL DEF Spec, ImplementsRulesetStore, S!Spec

===============================================================================
