--------------------------- MODULE FileRulesetStore ---------------------------
(***************************************************************************)
(* FileRulesetStore of packages/server/src/store.ts: a ruleset store kept  *)
(* in one JSON file, loaded lazily, replaced by writing a temporary file   *)
(* and renaming it, with puts serialised on a promise chain and reads that *)
(* only wait for the puts queued before them.                              *)
(*                                                                         *)
(* An action is what runs between two waits for the file system or for the *)
(* promise chain.  A caller has one call outstanding at a time.  get and   *)
(* list differ only in what they project out of this.memory, so both are   *)
(* Read, and the reply is the whole map.                                   *)
(***************************************************************************)
EXTENDS RulesetData, Sequences

CONSTANTS
  Callers,                            \* concurrent callers of get, list, put
  NoFile,                             \* readFile rejects with ENOENT
  ConcurrentColdReads                 \* may other calls overlap a read that
                                      \* loads the file?  The code allows it

ASSUME ColdReadsAssumption == ConcurrentColdReads \in BOOLEAN

VARIABLES
  disk,       \* content of the store file
  memory,     \* this.memory
  loaded,     \* this.loaded
  operation,  \* this.operation: the callers of unsettled puts, oldest first
  pc,         \* where each caller's call stands
  call,       \* the arguments of its put
  ahead,      \* the puts its read still waits for: `await this.operation`
  buffer,     \* what its readFile has read
  staged,     \* the map its put is writing
  reply,      \* what its last read resolved with
  told,       \* per environment, the newest ruleset any caller was told of
  floor       \* told, when its read was called

vars == <<disk, memory, loaded, operation, pc, call, ahead, buffer, staged,
          reply, told, floor>>

ASSUME NoFileAssumption == NoFile \notin Rulesets

(***************************************************************************)
(* What a new process would serve; RulesetStore's map in the refinement.   *)
(***************************************************************************)
Durable == IF disk = NoFile THEN Empty ELSE disk

S == INSTANCE RulesetStore WITH rulesets <- Durable

Calls == [env : Envs, next : Ruleset, expected : Revisions \cup {None}]

Settled == {"idle", "replied"}
Reading == {"await", "readFile", "load"}
Putting == {"queued", "putReadFile", "putLoad", "writeFile", "rename", "commit"}

Init ==
  /\ disk = NoFile
  /\ memory = Empty
  /\ loaded = FALSE
  /\ operation = << >>
  /\ pc = [c \in Callers |-> "idle"]
  /\ call = [c \in Callers |-> None]
  /\ ahead = [c \in Callers |-> {}]
  /\ buffer = [c \in Callers |-> NoFile]
  /\ staged = [c \in Callers |-> Empty]
  /\ reply = [c \in Callers |-> Empty]
  /\ told = Empty
  /\ floor = [c \in Callers |-> Empty]

\* Mutant: ensureLoaded does not assign what it parsed.
LoadedIgnoresFile(c) == memory

(***************************************************************************)
(* ensureLoaded, after readFile: a missing file leaves memory alone.       *)
(***************************************************************************)
Loaded(c) == IF buffer[c] = NoFile THEN memory ELSE buffer[c]

-------------------------------------------------------------------------------
(* Reads: get and list.                                                    *)

Quiet(c) == \A d \in Callers \ {c} : pc[d] \in Settled

ReadCall(c) ==
  /\ pc[c] \in Settled
  /\ ConcurrentColdReads \/ loaded \/ Quiet(c)
  /\ pc' = [pc EXCEPT ![c] = "await"]
  /\ ahead' = [ahead EXCEPT ![c] = {operation[i] : i \in DOMAIN operation}]
  /\ floor' = [floor EXCEPT ![c] = told]
  /\ reply' = [reply EXCEPT ![c] = Empty]
  /\ UNCHANGED <<disk, memory, loaded, operation, call, buffer, staged, told>>

(***************************************************************************)
(* The read resolves with what it finds in m.                              *)
(***************************************************************************)
ReplyWith(c, m) ==
  /\ pc' = [pc EXCEPT ![c] = "replied"]
  /\ reply' = [reply EXCEPT ![c] = m]
  /\ told' = [e \in Envs |-> Newest(m[e], told[e])]

ReadFromMemory(c) ==
  /\ pc[c] = "await"
  /\ ahead[c] = {}
  /\ loaded
  /\ ReplyWith(c, memory)
  /\ UNCHANGED <<disk, memory, loaded, operation, call, ahead, buffer, staged,
                 floor>>

ReadIssuesReadFile(c) ==
  /\ pc[c] = "await"
  /\ ahead[c] = {}
  /\ ~loaded
  /\ pc' = [pc EXCEPT ![c] = "readFile"]
  /\ UNCHANGED <<disk, memory, loaded, operation, call, ahead, buffer, staged,
                 reply, told, floor>>

ReadLoads(c) ==
  /\ pc[c] = "load"
  /\ memory' = Loaded(c)
  /\ loaded' = TRUE
  /\ buffer' = [buffer EXCEPT ![c] = NoFile]
  /\ ReplyWith(c, Loaded(c))
  /\ UNCHANGED <<disk, operation, call, ahead, staged, floor>>

-------------------------------------------------------------------------------
(* The file system, for either kind of call.                               *)

ReadFile(c) ==
  /\ pc[c] \in {"readFile", "putReadFile"}
  /\ buffer' = [buffer EXCEPT ![c] = disk]
  /\ pc' = [pc EXCEPT ![c] = IF pc[c] = "readFile" THEN "load" ELSE "putLoad"]
  /\ UNCHANGED <<disk, memory, loaded, operation, call, ahead, staged, reply,
                 told, floor>>

\* Mutant: reads queued behind the put are not woken.
SettleForgetsReads(c) ==
  /\ pc' = [pc EXCEPT ![c] = "idle"]
  /\ operation' = Tail(operation)
  /\ call' = [call EXCEPT ![c] = None]
  /\ staged' = [staged EXCEPT ![c] = Empty]
  /\ UNCHANGED ahead

(***************************************************************************)
(* The put of c, the oldest one, settles; reads stop waiting for it.       *)
(***************************************************************************)
Settle(c) ==
  /\ pc' = [pc EXCEPT ![c] = "idle"]
  /\ operation' = Tail(operation)
  /\ ahead' = [d \in Callers |-> ahead[d] \ {c}]
  /\ call' = [call EXCEPT ![c] = None]
  /\ staged' = [staged EXCEPT ![c] = Empty]

(***************************************************************************)
(* readFile fails other than with ENOENT, or the file does not parse: the  *)
(* call rejects and the store stays unloaded.                              *)
(***************************************************************************)
ReadFileFails(c) ==
  /\ \/ /\ pc[c] = "readFile"
        /\ pc' = [pc EXCEPT ![c] = "idle"]
        /\ UNCHANGED <<operation, ahead, call, staged>>
     \/ /\ pc[c] = "putReadFile"
        /\ Settle(c)
  /\ UNCHANGED <<disk, memory, loaded, buffer, reply, told, floor>>

-------------------------------------------------------------------------------
(* Puts.                                                                   *)

PutCall(c, e, n, x) ==
  /\ pc[c] \in Settled
  /\ ConcurrentColdReads \/ loaded \/ \A d \in Callers : pc[d] \notin Reading
  /\ pc' = [pc EXCEPT ![c] = "queued"]
  /\ call' = [call EXCEPT ![c] = [env |-> e, next |-> n, expected |-> x]]
  /\ operation' = Append(operation, c)
  /\ reply' = [reply EXCEPT ![c] = Empty]
  /\ UNCHANGED <<disk, memory, loaded, ahead, buffer, staged, told, floor>>

\* Mutant: the other environments are not carried over.
VerifyDropsOthers(c, m) ==
  IF Verifies(m[call[c].env], call[c].next, call[c].expected)
  THEN /\ staged' = [staged EXCEPT ![c] = [Empty EXCEPT ![call[c].env] = call[c].next]]
       /\ pc' = [pc EXCEPT ![c] = "writeFile"]
       /\ UNCHANGED <<operation, ahead, call>>
  ELSE Settle(c)

(***************************************************************************)
(* With the file loaded as m: verifyRevision, then stage the new map; a    *)
(* conflict rejects.  A ruleset that does not validate rejects at the same *)
(* point and with the same effect as a conflict.                           *)
(***************************************************************************)
Verify(c, m) ==
  IF Verifies(m[call[c].env], call[c].next, call[c].expected)
  THEN /\ staged' = [staged EXCEPT ![c] = [m EXCEPT ![call[c].env] = call[c].next]]
       /\ pc' = [pc EXCEPT ![c] = "writeFile"]
       /\ UNCHANGED <<operation, ahead, call>>
  ELSE Settle(c)

\* Mutant: puts are not serialised.
RunningAtOnce(c) == operation # << >>

(***************************************************************************)
(* serialize runs a put when every earlier one has settled.                *)
(***************************************************************************)
Running(c) == operation # << >> /\ c = Head(operation)

PutVerifies(c) ==
  /\ pc[c] = "queued"
  /\ Running(c)
  /\ loaded
  /\ Verify(c, memory)
  /\ UNCHANGED <<disk, memory, loaded, buffer, reply, told, floor>>

PutIssuesReadFile(c) ==
  /\ pc[c] = "queued"
  /\ Running(c)
  /\ ~loaded
  /\ pc' = [pc EXCEPT ![c] = "putReadFile"]
  /\ UNCHANGED <<disk, memory, loaded, operation, call, ahead, buffer, staged,
                 reply, told, floor>>

PutLoads(c) ==
  /\ pc[c] = "putLoad"
  /\ memory' = Loaded(c)
  /\ loaded' = TRUE
  /\ buffer' = [buffer EXCEPT ![c] = NoFile]
  /\ Verify(c, Loaded(c))
  /\ UNCHANGED <<disk, reply, told, floor>>

\* Mutant: memory takes the new map before the rename.
WriteFileCommits(c) ==
  /\ pc[c] = "writeFile"
  /\ pc' = [pc EXCEPT ![c] = "rename"]
  /\ memory' = staged[c]
  /\ UNCHANGED <<disk, loaded, operation, call, ahead, buffer, staged, reply,
                 told, floor>>

WriteFile(c) ==
  /\ pc[c] = "writeFile"
  /\ pc' = [pc EXCEPT ![c] = "rename"]
  /\ UNCHANGED <<disk, memory, loaded, operation, call, ahead, buffer, staged,
                 reply, told, floor>>

Rename(c) ==
  /\ pc[c] = "rename"
  /\ disk' = staged[c]
  /\ pc' = [pc EXCEPT ![c] = "commit"]
  /\ UNCHANGED <<memory, loaded, operation, call, ahead, buffer, staged, reply,
                 told, floor>>

(***************************************************************************)
(* mkdir, writeFile or rename fails: the put rejects, memory is untouched. *)
(***************************************************************************)
PersistFails(c) ==
  /\ pc[c] \in {"writeFile", "rename"}
  /\ Settle(c)
  /\ UNCHANGED <<disk, memory, loaded, buffer, reply, told, floor>>

\* Mutant: memory is not replaced.
CommitKeepsMemory(c) ==
  /\ pc[c] = "commit"
  /\ told' = [told EXCEPT ![call[c].env] = Newest(call[c].next, @)]
  /\ Settle(c)
  /\ UNCHANGED <<disk, memory, loaded, buffer, reply, floor>>

Commit(c) ==
  /\ pc[c] = "commit"
  /\ memory' = staged[c]
  /\ told' = [told EXCEPT ![call[c].env] = Newest(call[c].next, @)]
  /\ Settle(c)
  /\ UNCHANGED <<disk, loaded, buffer, reply, floor>>

-------------------------------------------------------------------------------

(***************************************************************************)
(* The process dies and a new one opens the same path.                     *)
(***************************************************************************)
Crash ==
  /\ memory' = Empty
  /\ loaded' = FALSE
  /\ operation' = << >>
  /\ pc' = [c \in Callers |-> "idle"]
  /\ call' = [c \in Callers |-> None]
  /\ ahead' = [c \in Callers |-> {}]
  /\ buffer' = [c \in Callers |-> NoFile]
  /\ staged' = [c \in Callers |-> Empty]
  /\ reply' = [c \in Callers |-> Empty]
  /\ UNCHANGED <<disk, told, floor>>

(***************************************************************************)
(* What the event loop does for the call of c once it is made.             *)
(***************************************************************************)
Step(c) ==
  \/ ReadFromMemory(c) \/ ReadIssuesReadFile(c) \/ ReadLoads(c)
  \/ ReadFile(c) \/ ReadFileFails(c)
  \/ PutVerifies(c) \/ PutIssuesReadFile(c) \/ PutLoads(c)
  \/ WriteFile(c) \/ Rename(c) \/ PersistFails(c) \/ Commit(c)

Next ==
  \/ \E c \in Callers :
       \/ ReadCall(c)
       \/ \E e \in Envs, n \in Ruleset, x \in Revisions \cup {None} :
            PutCall(c, e, n, x)
       \/ Step(c)
  \/ Crash

Spec == Init /\ [][Next]_vars

(***************************************************************************)
(* Every file operation settles and the event loop runs every callback.    *)
(***************************************************************************)
FairSpec == Spec /\ \A c \in Callers : WF_vars(Step(c))

-------------------------------------------------------------------------------
(* Properties.                                                             *)

(***************************************************************************)
(* Files, memory, calls and what they wait for are what the code can hold. *)
(***************************************************************************)
TypeOK ==
  /\ disk \in Rulesets \cup {NoFile}
  /\ memory \in Rulesets
  /\ loaded \in BOOLEAN
  /\ operation \in Seq(Callers)
  /\ pc \in [Callers -> Settled \cup Reading \cup Putting]
  /\ call \in [Callers -> Calls \cup {None}]
  /\ ahead \in [Callers -> SUBSET Callers]
  /\ buffer \in [Callers -> Rulesets \cup {NoFile}]
  /\ staged \in [Callers -> Rulesets]
  /\ reply \in [Callers -> Rulesets]
  /\ told \in Rulesets
  /\ floor \in [Callers -> Rulesets]

(***************************************************************************)
(* Once the file is loaded, memory is what is on disk, except between a    *)
(* put's rename and its assignment to this.memory.                         *)
(***************************************************************************)
MemoryTracksDisk ==
  loaded /\ (\A c \in Callers : pc[c] # "commit") => memory = Durable

(***************************************************************************)
(* A ruleset that any caller was ever told of, by an acknowledged put or   *)
(* by a read, is on disk or was replaced there by a later revision; no     *)
(* crash, failed write or concurrent put takes it back.                    *)
(***************************************************************************)
NothingToldIsLost == \A e \in Envs : AtLeast(Durable[e], told[e])

(***************************************************************************)
(* A read resolves with at least what any caller had been told when it was *)
(* called: a put's author reads its own write, and two reads in a row      *)
(* never go back.                                                          *)
(***************************************************************************)
ReadsNeverGoBack ==
  \A c \in Callers : pc[c] = "replied" =>
    \A e \in Envs : AtLeast(reply[c][e], floor[c][e])

(***************************************************************************)
(* The file changes only as RulesetStore does: one environment at a time,  *)
(* by one revision, on a put that named the revision it replaced.          *)
(***************************************************************************)
ImplementsRulesetStore == S!Spec

(***************************************************************************)
(* The put that renames its file over the store replaces, at that moment   *)
(* and not only when it was verified, the ruleset whose revision it        *)
(* expected, and nothing else changes the file.                            *)
(***************************************************************************)
EveryUpdateIsAVerifiedPut ==
  [][Durable' # Durable =>
       \E c \in Callers : /\ pc[c] = "rename"
                          /\ S!Put(call[c].env, call[c].next, call[c].expected)]_vars

(***************************************************************************)
(* SPEC.md:13-14: an update is rejected unless its revision is exactly one *)
(* greater than the stored revision.                                       *)
(***************************************************************************)
UpdatesAdvanceTheStoredRevision ==
  [][\A e \in Envs : Durable'[e] # Durable[e] =>
       Durable'[e].revision = IF Durable[e] = None THEN 1
                              ELSE Durable[e].revision + 1]_vars

(***************************************************************************)
(* At most one put at a time is past its verification, and what it staged  *)
(* is on disk when it resolves, however reads and failures interleave.     *)
(***************************************************************************)
PutsAreSerial ==
  \A c \in Callers : pc[c] \in Putting \ {"queued"} =>
    /\ \A d \in Callers \ {c} : pc[d] \notin Putting \ {"queued"}
    /\ pc[c] = "commit" => disk = staged[c]

(***************************************************************************)
(* No put or read waits for ever, whichever of the calls before it fail.   *)
(***************************************************************************)
EveryCallSettles ==
  \A c \in Callers : pc[c] \notin Settled ~> pc[c] \in Settled

===============================================================================
