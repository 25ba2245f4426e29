# Verification of CoDuckAI flags

Feature flags for Node: a server keeps one JSON *ruleset* per environment, a
management client edits it with compare-and-set, SDK clients receive it by
polling and by an event stream and evaluate flags locally. This directory holds
TLA+ models of those parts, TLC runs that check them on small instances, and
TLAPS proofs of the properties that matter most for any instance.

Paths below are relative to `src/packages/` unless they start with `src/`.

    tlc -workers 2 -config store.cfg MCFileRulesetStore   # any run: its cfg and MC module
    tlapm FileRulesetStoreProofs.tla                      # any *Proofs module


## 1. The system

| Component | State it keeps | Operations | Talks to |
|---|---|---|---|
| `FileRulesetStore`, `MemoryRulesetStore` (`server/src/store.ts`) | the file, `memory`, `loaded`, the promise chain `operation` | `get`, `list`, `put` | called by the server |
| HTTP server (`server/src/server.ts`) | `server`: the Node server; `clients`: a Set of streams for each environment; the heartbeat timer | GET with a tag, GET of a stream, PUT, broadcast, heartbeat, `start`, `stop` | the store; clients over HTTP |
| Management client (`management/src/index.ts`) | none beyond a call | `getRuleset`, `publishRuleset`, `createEnvironment`, `update`; on `update`: `setEnabled`, `setBooleanRollout`, `setTarget` | GET and PUT of the server |
| HTTP source (`sdk/src/sources.ts`) | `etag`, `refreshing`, the timers, the stream with `acceptedLatestSnapshot` | `refresh`, `consumeStream`, `connectStream` | the server; calls `onSnapshot`, `onHealthy`, `onError` of the client |
| `FlagClient` (`sdk/src/client.ts`) | snapshot, its source, `lastConfirmedAt`, `stale`, `closed`, readiness waits, queued saves | constructor, `initialize`, `acceptSnapshot`, `confirmHealthy`, the staleness timer, `waitUntilReady`, `close`, evaluation | the source's callbacks, the cache, event listeners |
| File cache (`sdk/src/sources.ts`) | one file | `load`, `save` | the client |
| Evaluation, validation (`core/src`) | none | `evaluateFlag`, `bucketFor`, `validateRuleset` | the client, the server, the management client |
| Static and file sources (`sdk/src/sources.ts`) | `refreshing`: the read under way; the watcher, the poll timer | `connect`, `refresh`, `close` | the client; the file system |
| OpenFeature provider (`openfeature/src`) | none beyond the client it wraps | `initialize`, `onClose`, `status`, four `resolve...Evaluation` | the client |
| Release scripts (`src/scripts`) | `release/<version>`: archives and their receipt | pack, validate, publish, resume | git, npm |

Everything runs on Node's event loop: between two `await`s nothing interleaves,
so an action of a model is what runs from one wait to the next. What makes
the system hard is what happens *between* the waits, and over the network:

- **Store.** A put verifies against memory, then waits for a temporary file and
  a rename before it changes either. Puts are chained, reads are not: a
  read waits only for the puts queued before it and may load the file itself.
  Crashes and failing file operations fall anywhere in between. *Correct* means:
  what anyone was told is never lost, reads do not go back, the file changes only
  by compare-and-set.
- **Delivery.** A poll, a stream frame and a broadcast of the same environment
  overtake each other; a stream can be dead for one side only; a slow reader is
  cut off; the server may end between storing and announcing. *Correct* means:
  clients move only forward through stored rulesets, and get to each of them.
- **Server life cycle.** `start` and `stop` meet each other, and meet handlers that
  wait for a body or for the store. *Correct* means: nothing is left that `stop`
  cannot end, a stream of the running server hears every broadcast, nothing is
  written after its end, and `stop` settles once no client holds a connection.
- **File source.** A file is replaced or rewritten while a read of it is under
  way, and a watcher may miss it. *Correct* means: what stays in the file is
  served in the end, and a file that stays broken is reported.
- **Client.** Bootstrap, cache and source deliver in any order; `close()` may
  meet any of them half way; the process crashes between accepting a snapshot
  and saving it. *Correct* means: never an older configuration, never a cached
  one that looks current, nothing after close, nothing left open or unsaved.
- **Management.** Requests and responses get lost, requests arrive after their
  caller has given up, writers race. *Correct* means: no writer's edit is
  overwritten, and what a caller is told is true.
- **Release.** Pack and publish die half way, the registry lags, and tags,
  checkouts and archives change in between. *Correct* means: what npm has is one
  verified pack, in the order of the packages, and a release that is resumed
  completes.
- **Evaluation and edits.** Flags are written by hand and by helpers in any
  order. *Correct* means: helpers do what their documentation says and nothing
  else, and a valid flag evaluates in every context.

`PROJECT.json` lists each hazard at its line, with the properties that would
catch it.


## 2. Modules

    RulesetData                     rulesets, revisions, verifyRevision
      |-- RulesetStore              what a store promises (= MemoryRulesetStore)
      |-- FileRulesetStore          implements RulesetStore            MCFileRulesetStore, FileRulesetStoreProofs
      |-- FlagClient                the SDK runtime and its cache      FlagClientProofs
      |     `-- FlagProvider        OpenFeature over it                MCFlagClient, FlagProviderProofs
      `-- Management                writers against one store          MCManagement, ManagementProofs
    RulesetReplica                  what delivery promises
      `-- Delivery                  implements RulesetReplica          MCDelivery, DeliveryProofs
    FlagServer                      start, stop, what is under way     MCFlagServer, FlagServerProofs
    FileSource                      a client on a file                 MCFileSource
    Conditions                      JSON values and operators
      `-- Evaluation                evaluateFlag, validateRuleset
            `-- FlagEdits           one flag under every edit          MCFlagEdits, FlagEditsProofs
    Release                         pack and publish                   MCRelease, ReleaseProofs

How they fit: `FileRulesetStore` is shown to implement `RulesetStore`, whose
`Put` is one compare-and-set. `Management` and `Delivery` stand on that: their
store is one variable that only a verified put changes. `Delivery` is shown to
implement `RulesetReplica`. Its `snapshot` is what `FlagClient` serves:
`FlagClient` takes *any* source, so its properties hold behind the HTTP source,
and `Delivery` uses of the client only the rule `FlagClient` states in
`AcceptSnapshot`. `FileSource` is another source, with the whole rule.
`FlagProvider` is a view of `FlagClient`'s state and is checked in its run.
`FlagServer` and `Delivery` are two cuts through one server: which streams there
are, and what they carry. `FlagEdits` is what the mutations that `Management` leaves
abstract do to a flag.

### RulesetData

A ruleset is a revision and a `Contents` value that tells two rulesets of one
revision apart. `Verifies` is `verifyRevision`. `MaxRevision` stands for the
largest safe integer. Not all modules need contents: `Management` takes the set
of updates a ruleset contains as its content, `Delivery` has a durable store
where a revision says it all.

### FileRulesetStore

| Model | Code (`server/src/store.ts`) |
|---|---|
| `disk`, `memory`, `loaded`, `operation` | the file, `this.memory`, `this.loaded`, the promise chain `this.operation` |
| `pc`, `call`, `ahead`, `buffer`, `staged`, `reply` | where a call stands, its arguments, the puts its `await this.operation` waits for, what `readFile` read, the new map, the result |
| `told`, `floor` | history: the newest ruleset anyone was told of, and its value when a read began |
| `ReadCall`, `ReadFromMemory`, `ReadIssuesReadFile`, `ReadLoads` | `get` and `list`, through `ensureLoaded` |
| `PutCall`, `PutVerifies`, `PutIssuesReadFile`, `PutLoads`, `WriteFile`, `Rename`, `Commit` | `put` inside `serialize`, and `persist` |
| `ReadFile`, `ReadFileFails`, `PersistFails`, `Crash` | the file system and the end of the process |

The mkdir and the writing of the temporary file are one step, since nobody reads
that file. A rename is atomic. A ruleset that fails validation rejects
as a conflict does.

`ConcurrentColdReads = FALSE` restricts the *environment*: no other call overlaps
a read that loads the file, as when a server awaits one `get` before it listens.
The code does not enforce it, which is finding 1.

### FlagClient

The constructor is `Init` (and `Restart`), `initialize` is `Loaded`,
`LoadFails`, `ConnectReturns` and `ConnectThrows`; `OnSnapshot` and `OnHealthy`
are the callbacks given to `connect`; `CheckStaleness` is the timer; `Save` and
`SaveFails` are the chain `cacheWrite`; `Close`, `AwaitsInitialization` and
`AwaitsWrites` are the first `close()` from one await to the next; a later call
returns at once and changes nothing. A variable is a field of the class of the
same name, except the history variables `accepted`, `saveFailed` (the last save to
settle in this process failed), `loadFailed` and `observed`, the last status an
event gave a listener. The clock is abstracted
to whether the last confirmation is older than `staleAfterMs` (`confirmed`).
`initializing = "heard"` says that the source called a handler while `connect`
runs, which is the only time a listener can call `close()` before
`this.connection` is assigned; `ListenersMayClose` allows that.

The source is any `FlagSource`: it delivers valid, invalid, foreign, older and
changed-in-place snapshots, confirms, fails, or is silent. `refresh()` asks it to
do what it may do anyway.

### FlagProvider

`Resolve` is a `resolve...Evaluation` method for a flag whose evaluation has a given
outcome, or for a client without a ruleset (the branch of `evaluateFlag` that
`Evaluation`, where there always is one, leaves to this module), `Details` the
private method of that name, `ProviderStatus` the getter
`status`, `Initialize` the method `initialize`, which is one of the client's
`Waiters`, and `onClose` is the client's `Close`. `Evaluation` says when an
evaluation has which outcome.

### Delivery

The server's variables are `stored`, `unannounced` (stored, `handle` has yet to
broadcast it), `registered` (`this.clients`) and `reading` (what a stream
handler got from `store.get` and has not sent). The source's are `poll` (the
conditional GET on its way, with the tag it was sent with), `refreshing`, `etag`,
`stream`, `frames` (written and not consumed) and `acceptedLatest`. The client's
are `snapshot` and `fresh` (confirmed less than `staleAfterMs` ago).

`Put` is the PUT handler up to its `await store.put`, `Broadcast` the rest;
`ReadForStream` and `OpenStream` are the stream handler on both sides of its
`await store.get`; `Answer` is the conditional GET. `StartPoll`, `FetchThrows`,
`PollFails`, `HearNotModified` and `HearBody` are `refresh`; `Connect`,
`HearFrame`, `HearHeartbeat` and `StreamFails` are `connectStream` and
`consumeStream`. `HalfOpen` is a connection that ends on the server only.
A status such as 404, an oversized body and a body that does not parse are
`PollFails`. `StreamFails` is a stream that ends, fails or answers 404, after
which the source waits to connect again; `CloseSource` closes the connection for
good. A client that restarts is another client. `answersAtOnce` says that
`store.get` settles in the turn it was asked in, which both stores do once
loaded; an application's own store need not, so both are checked. What
`StreamMissesNothing` says rests on it: the guards assume the order in which the
promises of these stores settle, they do not derive it.

### FlagServer

| Model | Code (`server/src/server.ts`) |
|---|---|
| `server`, `timers`, `clients` | `this.server`, the heartbeat intervals that run, `this.clients` |
| `net`, `starting`, `stopping` | Node's state of each server that `start` made, and the promises of `start` and `stop` |
| `at`, `via`, `env`, `home` | where a PUT or a GET of a stream stands (`ended`: `res.end` was called, and its client has yet to read the rest), the server and the environment it came through, the Set it was put in |
| `late`, `rushed` | history: streams registered after `stop` cleared `this.clients`; a `start` called while a `stop` was pending |
| `Start`, `Listening`, `BindFails` | `start` up to its await, and its two ends |
| `Stop`, `ServerCloses` | `stop` up to its await, and the callback of `server.close` |
| `Request`, `NotFound`, `Register`, `LeavesEarly`, `CloseEvent` | the GET of a stream on both sides of its `await store.get`, and the close event |
| `RefuseBody`, `TakeBody`, `FinishPut` | the PUT: `readJson`, up to `await store.put`, and the broadcast with the answer (`Answered`, as in `NotFound`) |
| `Heartbeat` | the interval's callback |

A Set is named by the response it was made for: `stop` drops the Sets, streams
keep theirs, and a server that starts again makes new ones for the same
environments. A client that leaves while its handler waits in `store.get` has had
its close event when it is registered, and stays in its Set until `stop`. A
server that is stopped while it binds never listens, and the promise of its
`start` stays pending. The callers in the repository await `stop` before they
`start` again; nothing in the code makes them, so `rushed` states are part of the
model and two properties except them.

### FileSource

`Write` replaces the file or shows a part of a rewrite, and the watcher may report
it (`changed`). `ChangeEvent` and `Poll` are the two callers of `refresh`, which
joins a read that is under way; `ReadFile`, `ReadFails` and `FinishRead` are the
read and its delivery. `Deliver` is the client: what is refused makes the snapshot
stale, what is older or unreadable is only reported. `staticSource` delivers once
inside `connect` and is one of the sources of `FlagClient`.

### Management

`at` is where a call stands, `requests` the PUTs on their way (each may be
served late, after its caller has timed out, or lost), `response` what came back
and may be lost too. `CallUpdate`, `Read`, `GivesUp`, `Publish` and
`HearConflict` are `update` with its retry loop; `CreateEnvironment` is a PUT
with `If-None-Match: *`; `ServePut` is the handler and the store's put. `puts`
and `began` are history.

### Conditions, Evaluation and FlagEdits

`Conditions` has JSON values, the fourteen operators of `matchRegularCondition`
and the checks of `validateCondition`. A value is a record with the field of its
kind; -0 is told from 0 by equality, as `Object.is` does, and not by an order.
`Evaluation` has `evaluateFlag` (kill switch, targets, rules, conditions,
segments, missing attributes, rollouts, the types of its answers) and the checks
of `validateRuleset` that decide what it may meet. A flag is of any of the four
types, and its variations are the entries of its object in their order; the
ruleset's segments are fixed. The hash is any function from
identities and salts to buckets. What recurses in the code is a recursive function
here: `Cursors` sums weights, `Left` filters targets, and `IsJsonValue`
goes through a value level by level. `FlagEdits` is a state machine of one flag: it is
published by hand (`PublishRuleset`) or edited by `SetEnabled`,
`SetBooleanRollout`, `SetTarget`; each of them runs `assertRuleset` and is refused
if that fails.

### Release

`Verify`, `Copy` and `WriteReceipt` are `release-pack.mjs` from one file to the
next, `PackDies` its end at any point. `StartPublish` is `publish.mjs` up to its
loop, with `ValidateRelease` of `release-policy.mjs`; `View`, `NpmPublish` and
`Confirm` are the loop, `JobDies` its end at any point, with a publication that may
still `Arrive`. `Appear` is a registry that shows a version later. `NewRunner`,
`MoveTag`, `Edit`, `Checkout` and `ChangeArchive` are what people and CI do in
between. Pack and publish run one at a time: they are steps of one workflow job in
one concurrency group. `Builds` says what a commit packs to, and need not be
reproducible.


## 3. Runs

Twelve runs; 9 pass, 3 exhibit findings.

| Run | Question | Instance | Distinct states |
|---|---|---|---|
| `store` | With no call overlapping the first load: is memory the file, is nothing told lost, do reads never go back, and does the file behave as `RulesetStore`? | 2 environments, 2 contents, 2 callers, 2 revisions, symmetric | 1.7 M |
| `store_cold` | With reads racing the first load: are puts still serial, does every call settle? (`FairSpec`) | 1 environment, else as above | 170 k |
| `client` | All of the client's safety and liveness (`FairSpec`), and what a provider over it says | 2 environments, 2 contents, 2 revisions, 1 waiter, a cache, crashes, any bootstrap | 90 k |
| `delivery` | Does delivery implement `RulesetReplica`, is a 304 true, does a registered stream miss nothing, do polls alone recover everything? (`FairDeliverySpec`) | 1 client, 3 revisions, 2 frames, a slow store and one that answers at once | 64 k |
| `management_writers` | Is no edit lost, is what callers are told true, does a conflict mean that others went on? | 3 updates with 1 retry, 1 creator, 4 revisions, symmetric | 547 k |
| `flag_edits` | Do stored flags evaluate, do the operators agree, do the helpers do what they say and no more? | flags of all four types, see below | 37 k |
| `server` | Is nothing left running, are streams reached, is nothing written after its end, does `stop` wait for clients only? (`FairSpec`) | 3 requests, 2 environments, 2 starts | 1.1 M |
| `file_source` | Is what stays in a file served, and a broken file reported? (`FairSpec`) | 3 revisions, 2 contents | 5.6 k |
| `release` | Is only one verified pack published, in order, and does a resumed release complete? (`FairSpec`) | 3 packages, 2 commits, 2 contents of an archive, 2 troubles | 85 k |
| `store_cold_lost_update`, `client_listener_close`, `delivery_fetch_throws` | Findings 1 to 3 | the smallest that shows it | |

**Why the bounds are enough.**

- *Store*: two callers make every pair of operations overlap; since puts are
  chained, a third only waits longer. Two revisions contain a creation, an edit,
  a stale edit and an edit of what does not exist; a second environment is what
  the rewrite of the whole file could damage; two contents make a lost and redone
  revision visible. The theorems cover every number of each.
- *Client*: two revisions and two contents give older, same, newer and changed in
  place; two environments give a foreign snapshot. The environment is not fixed by
  the options, so the first accepted snapshot fixes it. The theorems cover any
  option.
- *Delivery*: three revisions are the least at which a client can be two behind
  while a tag, a poll and a frame name different ones; two frames let a heartbeat
  queue behind a snapshot and still fill up. Clients share nothing but the
  store: a broadcast writes to each stream by that stream's state alone.
- *Management*: a creation and three edits fill four revisions, so every writer can
  lose each of its two attempts to the others and still have somebody after it.
- *Server*: two starts give an old and a new Set of one environment, and a `stop`
  that is pending when `start` is called; three requests are two streams in one
  Set and a PUT, or an old stream and two new ones; the second environment is what
  a broadcast must not reach. The theorems cover every number of each.
- *FileSource*: three revisions and two contents give older, newer and changed in
  place, one after the other.
- *Release*: three packages are a first, a middle and a last; two troubles are a
  death and a change made in between, or a death of each script; of the commits
  one packs reproducibly and one does not, and their first packages agree.
- *FlagEdits*: `Total = 3` stands for 10,000 buckets: 0, everything, and two
  fractions with distinct boundaries. A boolean flag has three variations, two of
  which serve the same value; two targeting keys and the empty string; a number and
  a list as further values; a segment. Seven flags written by hand are valid: three
  boolean ones with keys in several targets and variations in several splits, one
  of each other type with a rule, a rollout or a target, and one with nothing but its
  off variation. Fourteen are refused, each for a different reason. Of two
  option sets one buckets by an attribute under a segment condition. The operators
  are checked over strings of up to three letters, numbers with both zeros, and
  lists and objects of these; `MaxDepth = 2` stands for 32.

**Fairness**, each assumed only where the code guarantees it:

- `FileRulesetStore!FairSpec`: each file operation settles, with success or not, and the
  event loop runs its callback. Nobody is made to call, and crashes are free.
- `FlagClient!FairSpec`: the cache's promises settle, `connect` returns or throws, the
  staleness timer fires, the event loop resumes `close`. The source and the
  application owe nothing. `CloseResolves` and `SilenceIsReported` rest on it.
- `Delivery!FairDeliverySpec`: the poll timer runs (`setInterval`), a request times out
  (`AbortSignal.timeout`), and polls that are tried for ever are answered and
  heard again and again (strong fairness: a network that loses every request for
  ever delivers nothing). Nothing is assumed of the stream, for which the code has
  no read timeout.
- `FlagServer!FairSpec`: the store settles what it is asked, a destroyed response
  closes, and Node reports a closed server. Clients owe nothing, not even while
  `stop` waits: `server.close` ends the interval by which Node enforces
  `requestTimeout` (`server.ts:246`, `server.ts:285`), so a PUT whose body stalls is
  then never refused, and nothing limits how long an answer may stay unread or a
  stream open that was registered after `stop` cleared `this.clients`. Each of
  these keeps `stop` pending, for ever if its client likes. No document
  promises otherwise, so this is no finding; `StopWaitsOnlyForClients` says that
  nothing else does.
- `FileSource!FairSpec`: the poll and staleness timers run, a read that has begun
  ends, and not every read fails (strong fairness). Nothing is asked of the watcher.
- `Release!FairSpec`: the workflow is run again after it has failed, its scripts go
  on, and npm shows in the end what it has. Troubles are bounded, so they end.

Deadlock is checked except in `management_writers`, where every call settles and
the system stops, and in `server`, where a server that is stopped for the last
time has nothing left to do.

**Mutants.** Each property of a passing run has a mutant of the
code in `PROJECT.json` that breaks it: a dropped guard, a swapped order, a
forgotten reset. The mutated definitions stand before the ones they mutate, under
`\* Mutant:`.


## 4. Findings

1. **A late cold read loses an update** (`server/src/store.ts:97`, run
   `store_cold_lost_update`). `get` and `list` call `ensureLoaded` outside the
   promise chain. One that issued its `readFile` before a put assigns
   `this.memory` from the old file after the put committed. The next put that
   names the old revision is accepted and replaces the newer ruleset on disk,
   against `SPEC.md:13-14`.
2. **A listener that closes leaves the source running**
   (`sdk/src/client.ts:302`, run `client_listener_close`). With a cache, the
   source may deliver inside `connect`; a listener that then calls `close()`
   finds `this.connection` undefined, and `initialize` assigns the connection
   afterwards. `sdk/README.md:54` says `close()` closes sources.
3. **A fetch that throws ends polling** (`sdk/src/sources.ts:271`, run
   `delivery_fetch_throws`). `finally` clears `refreshing` before the
   assignment sets it to a promise that has settled, so no poll is sent again;
   against `SPEC.md:69`.


## 5. Proofs

All proofs are checked by `tlapm`; no step is taken on trust. Every safety
property that a passing run checks is also the statement of a theorem, which holds
for any number of callers, clients, environments, retries, packages, targets, rules
and buckets.

The assumptions on the constants are those named `...Assumption` in the modules,
and each run evaluates the ones of its instance: bounds are naturals, `None` and
the like are none of the values they stand beside, an option is one of its
documented values. Those of `FlagEdits` say that values are JSON and
that what is published by hand has the shape that `types.ts` declares, of whatever
type; whether it is valid `ValidRuleset` decides in the model. Beyond these a
theorem assumes what its statement says: `~ConcurrentColdReads` and `~ListenersMayClose` exclude findings 1 and 2, and
`NoneIsNoFlag` says that `undefined` is no flag, which TLA+ does not settle by itself
and TLC cannot ask of a model value.

**FileRulesetStoreProofs.** `TypeCorrect` and `PutsAreSerialAlways` hold of
`Spec` as the code is. Their invariant is `ChainOK`: the chain lists each
unsettled put once, only its head has started, and what a put that has renamed
staged is on disk. `StoreCorrect` (nothing told is lost) with `MemoryCorrect`
(memory is the disk) and `ReadsCorrect` (reads never go back),
`UpdatesAreVerifiedPuts` and `Implements` (the refinement of
`RulesetStore`) assume `~ConcurrentColdReads`, without which finding 1 refutes
them. Their invariant `StoreInv` adds
 - `LoadOK`: who loads the file is alone or the oldest put, so that what it read
   is still the file when it assigns it;
 - `StagedOK`: what a put past its verification staged is still `memory` with one
   ruleset replaced, and still verifies. This is the step from "verified
   earlier" to "verified when the file is renamed";
 - `ToldOK`: what was told is no newer than the memory the next read answers
   from, and a read under way was told no less at its start.

None of the three invariants is inductive alone: `NothingToldIsLost` breaks at
`Rename` without `StagedOK`, and that at `PutLoads` without `LoadOK`.

**FlagClientProofs.** `ClientInv` is the conjunction of `TypeOK`; `SourceInv`
(where the snapshot came from); `CachedIsStale`, `ListenersKnowTheStatus` and
`NoWaiterIsForgotten`, which are inductive beside it; `ClosingInv` (what each
stage of `close` has behind it); `SavesInv` (queued saves have growing
revisions and end in the snapshot served); and `CacheInv` (after the cache was
read, nothing served or queued is older than it). From it follow
`StatusCorrect`, `CachedCorrect`, `WaitersCorrect`, `CacheCorrect`, `CloseCorrect`,
and the action properties
`Advances`, `Frozen` and `CacheAdvances`. `SourceClosed` needs `ConnectionInv`
and assumes `~ListenersMayClose`, without which finding 2 refutes it.

**ManagementProofs.** `ManagementInv`: what an update read is what is stored, or
an earlier revision whose updates are all still stored (`ReadInv`); a request on its way
is the last its call made and was never served (`RequestInv`); a response says what
happened to it (`PutsInv`); each conflict was an advance of the store
(`ProgressInv`). From it `OutcomesCorrect`, `ConflictsCorrect`,
`CreationsCorrect` and `NothingLost`, for any number of calls and retries.

**FlagProviderProofs.** `ProviderCorrect`: from `ClientInv` and one more invariant,
`ResolvedIsReady` (a wait that was resolved has a snapshot behind it).

**FlagServerProofs.** `ServerInv` is the conjunction of `TypeOK`; `Numbered` (a
start makes a server nobody has used); `Routed` and `SetsAreMade` (a response
makes at most one Set, so a new Set is nobody's old one); `NothingRunsUnheld`,
inductive beside them; `EndedAreForgotten` (an ended stream is in no Set of
`this.clients`, although its own Set may live on, and a JSON answer is in none);
`ServersWait` (a server with connections is not closed, and one that closes has its
`stop` pending); and
`StreamsAreHeld` (unless a start was rushed, the running server has all
connections, and `this.clients` their Sets). `OpenStreamsAreReached` is not
inductive without the last: `CloseEvent` may delete the Set of an environment, and
that no open stream is then left out is known only because all of them are in one
Set. From it `NothingLeftRunning`, `StreamsHearBroadcasts` and
`EndedIsNotWritten`, for any number of starts, requests and environments.

**DeliveryProofs.** `DeliveryInv` is the conjunction of `TypeOK`; `WasStored` (what
is read, framed, answered, announced or served was stored); `TagsAreServed` (a tag,
and the one a poll carries, is of what the client serves or older);
`ServerKnowsTheStream` (the server reads for a stream that waits, and writes to
one that is open at its source); `ReadingIsUpToDate` (over a store that answers at
once, what was announced while a handler reads is no newer than what it read); and
`StreamMissesNothing`, inductive beside them. `NotModifiedCorrect` follows from the
second of these and `StreamsCorrect` is the last. `Replicates` is the refinement of
`RulesetReplica`: only `Put` moves `stored`, only `HearFrame` and `HearBody` move a
snapshot, and what they accept is newer and was stored; every other step of the
server, the network or a source is a stutter.

**ReleaseProofs.** `ReleaseInv`: a receipt of a clean tree lists what was packed and
verified as a whole at its commit (`OnePack`); a job works on what it validated, and
npm has that of the packages before (`JobInv`); so it is for a publication that
may still arrive after its job died (`InFlightInv`); `ValidatedIsOnePack` and
`OnePackInOrder` beside them. Neither is inductive alone: a receipt is validated
long after `Verify`, and an archive may arrive after two later jobs. What makes that
harmless: npm replaces nothing, so what it has of a pack up to a package it
keeps (`HasBeforeStays`), and who publishes a package that npm lacks names a pack
whose archives of all packages before npm has (`FillsInOrder`).

**FlagEditsProofs.** The invariant is short: `FlagInv` says that the stored flag has its
declared shape and passes `assertRuleset`, since every edit ends there. The work is in
the operators, of which the theorems say what the runs say, for any flag, context and
hash:

 - *Recursion and searches.* `Cursors`, `Left` and `SelectInSeq` are characterised by
   lemmas (`CursorFacts`, `LeftFacts`, `FirstPlace`). Their inductions are made over
   sets: by `Induction`, a set with 0 and with the successor of each of its
   members has every natural up to n, for its complement would have a least element
   (`LeastExists`, from the well-foundedness of <); and `RecursionExists` shows
   in the same way that such a function exists.
 - *Shares.* `BucketsOfSplit` and `ShareOfSplit`: the buckets of split i are the interval
   from its cursor up to the next one, so their number is its weight; the
   fallback to the last split is not reached, for the last cursor is `Total`.
   Hence `SharesCorrect`.
 - *Edits.* `RulesAfter` and `TargetsAfter` say which rule or target stands where after an
   edit. With them, `RolloutKeepsValid` and `TargetKeepsValid` go through the checks
   of `ValidFlag` (`HelpersCorrect`).
 - *Evaluation.* `Outcome` and `EvaluateDecides` say what a valid flag evaluates to and
   that this never fails; `ValidIsTyped` and `OneType`, that asked for the flag's own
   type it answers a value of that type, and for another one a mismatch. So
   it does for flags of all four types (`EvaluationCorrect`). `KeyMoved`, with
   `LeftDecides` and `JoinedDecides`, says who decides for a key after `setTarget` (`TargetCorrect`);
   `RuleAfter` and `DecideAfter`, which rule does after `setBooleanRollout`
   (`RolloutCorrect`). `TwoSplits` and `GrowingRule`: a rule's two splits
   are the buckets below the percentage and the rest, so the lower part only grows
   (`CohortCorrect`).
 - *Operators.* `PartOfText`, `PrefixIsPart` and `SuffixIsPart` relate the
   ends of a text to its parts; `OperatorsCorrect` joins them with the orders and the
   kinds of values.

Some of what is proved no run repeats: the inductive invariants beyond the
properties, `EveryUpdateIsAVerifiedPut` of the store, `CloseDrains` and
`ClosedIsFrozen` of the client, `OneCreatorWins` of management.

**Model-checked only.** Liveness: `EveryCallSettles`, `CloseResolves`,
`SilenceIsReported`, `PollingRecovers`, `HealthRecovers`, `StopWaitsOnlyForClients`,
`FileIsServed`, `BrokenFileIsReported`, `ResumedReleaseCompletes`. It rests on fairness,
whose meaning (ENABLED) the prover does not have. The file source is checked for
liveness alone and has no theorem. What `IsJsonValue` computes for a nested
value is only evaluated: no theorem unfolds it.


## 6. Not modelled

- The bytes of the hash, for which the repository has test vectors.
- Shape checks of `validateRuleset`: the characters and lengths of names, unknown
  properties, timestamps, size limits. They refuse before anything is evaluated.
- Authorization, routing and body limits of the server: they answer before any
  state is touched, which a caller sees as a failure it may have anyway.
- The parser of stream frames: a frame that is too large or no JSON is a stream
  that fails.
- The provider's conversion of OpenFeature contexts and JSON values. The model does
  show that a refused first snapshot makes a client stale that never had a ruleset,
  so that the reason of its answers is `STALE` beside their error.
- `MemoryRulesetStore` over a restart: the store of the models is durable. A
  memory store that starts over comes back to an old revision with another
  content and answers 304 to a tag of the former one; the documentation keeps it
  for tests.
- Revisions near 2^53: the bound of every model, at which writing stops.
- What the release scripts look at inside an archive, and the check of the workflow
  and of `publish.mjs` that the commit is on the main branch (`git merge-base`). For
  safety a model without it only runs more releases than the code does; that a
  resumed release completes is said of commits on that branch.
- Benchmarks, examples, the demonstration harness and the test vectors: no state
  of the program's own.


## 7. Plan

Done: every component that keeps state, each with its run, and a proof of every
safety property that a run checks.

1. Safety of `FileSource` beyond what its liveness shows: that what a client on a file
   serves is some earlier or present content of the file and never goes back, as a
   refinement of `RulesetReplica`, checked first and proved after.
2. Composition: the `stored` of `Delivery` as the refined `RulesetStore`, so that the
   chain from the file to the client's snapshot is one theorem.
3. Type invariants as theorems of their own for the modules whose inductive
   invariant contains them.
