------------------------------- MODULE Release -------------------------------
(***************************************************************************)
(* A release of one version: scripts/release-pack.mjs packs and verifies   *)
(* the archives, scripts/release-policy.mjs validates them against their   *)
(* receipt, scripts/publish.mjs publishes one after the other.             *)
(*                                                                         *)
(* release/<version> outlives the scripts, and so does npm, which never    *)
(* replaces a version and may show it late.  Pack and publish run one at a *)
(* time, as the steps and the concurrency group of publish.yml have it.    *)
(***************************************************************************)
EXTENDS Naturals

CONSTANTS
  Last,         \* packages are numbered in the order of PACKAGE_NAMES; 6 in the code
  Commits,      \* source commits the tag may name
  Bytes,        \* contents of an archive
  Builds(_, _), \* what a commit, dirty or not, may pack to
  MaxTroubles,  \* bound: crashes, failures, and what people do in between
  None

Packages == 1 .. Last
Archives == [Packages -> Bytes]

ASSUME ReleaseAssumption ==
  /\ Last \in Nat \ {0}
  /\ MaxTroubles \in Nat
  /\ None \notin Bytes
  /\ \A c \in Commits, d \in BOOLEAN :
       Builds(c, d) # {} /\ Builds(c, d) \subseteq Archives

VARIABLES
  tag,       \* the commit of the version's tag
  head,      \* the commit that is checked out
  dirty,     \* git status --porcelain says something
  pack,      \* release-pack.mjs: no, or copying
  packed,    \* the archives it has packed and verified
  copied,    \* how many of them it has copied
  directory, \* the archives in release/<version>
  receipt,   \* manifest.json there
  job,       \* publish.mjs: no, view, publish or confirm
  package,   \* the package it is at
  registry,  \* the bytes npm has of each package
  visible,   \* the packages npm view shows
  inFlight,  \* publications whose npm process was killed
  troubles,  \* how many there have been
  verified,  \* history: the clean packs
  validated  \* history: what validateRelease has accepted

source == <<tag, head, dirty>>
packing == <<pack, packed, copied, verified>>
output == <<directory, receipt>>
publishing == <<job, package, validated>>
npm == <<registry, visible, inFlight>>
vars == <<source, packing, output, publishing, npm, troubles>>

NoArchives == [p \in Packages |-> None]

Init ==
  /\ tag \in Commits
  /\ head = tag
  /\ dirty = FALSE
  /\ pack = "no" /\ packed = NoArchives /\ copied = 0
  /\ directory = NoArchives /\ receipt = None
  /\ job = "no" /\ package = 1
  /\ registry = NoArchives /\ visible = {} /\ inFlight = {}
  /\ troubles = 0
  /\ verified = {} /\ validated = {}

Quiet == pack = "no" /\ job = "no"

Trouble == troubles < MaxTroubles /\ troubles' = troubles + 1

-------------------------------------------------------------------------------
(* What people do between the scripts                                      *)

(***************************************************************************)
(* publish.yml: a new runner checks out the tag.                           *)
(***************************************************************************)
NewRunner ==
  /\ Quiet
  /\ head' = tag
  /\ dirty' = FALSE
  /\ directory' = NoArchives
  /\ receipt' = None
  /\ UNCHANGED <<tag, packing, publishing, npm, troubles>>

MoveTag ==
  /\ Quiet /\ Trouble
  /\ tag' \in Commits \ {tag}
  /\ UNCHANGED <<head, dirty, packing, output, publishing, npm>>

Edit ==
  /\ Quiet /\ Trouble
  /\ dirty' = ~dirty
  /\ UNCHANGED <<tag, head, packing, output, publishing, npm>>

Checkout ==
  /\ Quiet /\ Trouble
  /\ head' \in Commits \ {head}
  /\ UNCHANGED <<tag, dirty, packing, output, publishing, npm>>

ChangeArchive(p) ==
  /\ Quiet /\ Trouble
  /\ \E b \in Bytes : directory' = [directory EXCEPT ![p] = b]
  /\ UNCHANGED <<source, packing, receipt, publishing, npm>>

-------------------------------------------------------------------------------
(* release-pack.mjs                                                        *)

(***************************************************************************)
(* Every package is packed, inspected, installed and run in a temporary    *)
(* directory, which is removed however it ends.                            *)
(***************************************************************************)
Verify ==
  /\ Quiet
  /\ packed' \in Builds(head, dirty)
  /\ pack' = "copying"
  /\ copied' = 0
  /\ verified' = IF dirty THEN verified
                          ELSE verified \cup {[commit |-> head, archives |-> packed']}
  /\ UNCHANGED <<source, output, publishing, npm, troubles>>

Copy ==
  /\ pack = "copying"
  /\ copied < Last
  /\ copied' = copied + 1
  /\ directory' = [directory EXCEPT ![copied'] = packed[copied']]
  /\ UNCHANGED <<source, pack, packed, receipt, verified, publishing, npm, troubles>>

WriteReceipt ==
  /\ pack = "copying"
  /\ copied = Last
  /\ pack' = "no"
  /\ packed' = NoArchives
  /\ copied' = 0
  /\ receipt' = [commit |-> head, dirty |-> dirty, archives |-> packed]
  /\ UNCHANGED <<source, directory, verified, publishing, npm, troubles>>

(***************************************************************************)
(* At any point; a receipt that is half written is none.                   *)
(***************************************************************************)
PackDies ==
  /\ pack = "copying" /\ Trouble
  /\ pack' = "no"
  /\ packed' = NoArchives
  /\ copied' = 0
  /\ receipt' \in {receipt} \cup IF copied = Last THEN {None} ELSE {}
  /\ UNCHANGED <<source, directory, verified, publishing, npm>>

-------------------------------------------------------------------------------
(* publish.mjs                                                             *)

\* Mutant: the archives are not compared with their checksums.
ValidateReceiptOnly ==
  /\ receipt # None
  /\ receipt.commit = head
  /\ ~receipt.dirty

(***************************************************************************)
(* validateRelease: the receipt is for this commit, clean and complete,    *)
(* and the archives are those it lists.                                    *)
(***************************************************************************)
ValidateRelease ==
  /\ receipt # None
  /\ receipt.commit = head
  /\ ~receipt.dirty
  /\ receipt.archives = directory

StartPublish ==
  /\ Quiet
  /\ ~dirty
  /\ head = tag
  /\ ValidateRelease
  /\ job' = "view"
  /\ package' = 1
  /\ validated' = validated \cup {[commit |-> head, archives |-> directory]}
  /\ UNCHANGED <<source, packing, output, npm, troubles>>

StopJob == job' = "no" /\ package' = 1

NextPackage ==
  IF package = Last THEN StopJob ELSE job' = "view" /\ package' = package + 1

Matches == registry[package] = receipt.archives[package]

\* Mutant: a version that is there is skipped, whatever its integrity.
ViewSkipsAny ==
  /\ job = "view"
  /\ IF package \in visible THEN NextPackage ELSE job' = "publish" /\ UNCHANGED package
  /\ UNCHANGED <<source, packing, output, validated, npm, troubles>>

\* Mutant: a run does not go on where another has stopped.
ViewStopsAtAny ==
  /\ job = "view"
  /\ IF package \in visible THEN StopJob ELSE job' = "publish" /\ UNCHANGED package
  /\ UNCHANGED <<source, packing, output, validated, npm, troubles>>

(***************************************************************************)
(* npm view: not there, so publish; there, so skip it or stop.             *)
(***************************************************************************)
View ==
  /\ job = "view"
  /\ CASE package \notin visible -> job' = "publish" /\ UNCHANGED package
       [] package \in visible /\ Matches -> NextPackage
       [] package \in visible /\ ~Matches -> StopJob
  /\ UNCHANGED <<source, packing, output, validated, npm, troubles>>

(***************************************************************************)
(* npm publish: npm refuses a version that it has.                         *)
(***************************************************************************)
NpmPublish ==
  /\ job = "publish"
  /\ IF registry[package] = None
     THEN /\ registry' = [registry EXCEPT ![package] = directory[package]]
          /\ job' = "confirm"
          /\ UNCHANGED package
     ELSE StopJob /\ UNCHANGED registry
  /\ UNCHANGED <<source, packing, output, validated, visible, inFlight, troubles>>

(***************************************************************************)
(* npm view again: it must show what was published, and at once.           *)
(***************************************************************************)
Confirm ==
  /\ job = "confirm"
  /\ IF package \in visible /\ Matches THEN NextPackage ELSE StopJob
  /\ UNCHANGED <<source, packing, output, validated, npm, troubles>>

(***************************************************************************)
(* npm fails or takes too long, or the job is cancelled or times out.  A   *)
(* publication that was sent may still arrive.                             *)
(***************************************************************************)
JobDies ==
  /\ job # "no" /\ Trouble
  /\ StopJob
  /\ inFlight' \in {inFlight} \cup IF job # "publish" THEN {}
                                   ELSE {inFlight \cup {<<package, directory[package]>>}}
  /\ UNCHANGED <<source, packing, output, validated, registry, visible>>

-------------------------------------------------------------------------------
(* npm                                                                     *)

Arrive ==
  /\ \E m \in inFlight :
       /\ inFlight' = inFlight \ {m}
       /\ registry' = IF registry[m[1]] = None THEN [registry EXCEPT ![m[1]] = m[2]]
                                               ELSE registry
  /\ UNCHANGED <<source, packing, output, publishing, visible, troubles>>

Appear(p) ==
  /\ registry[p] # None
  /\ p \notin visible
  /\ visible' = visible \cup {p}
  /\ UNCHANGED <<source, packing, output, publishing, registry, inFlight, troubles>>

-------------------------------------------------------------------------------

Packing == Verify \/ Copy \/ WriteReceipt
Publishing == View \/ NpmPublish \/ Confirm

Next ==
  \/ NewRunner \/ MoveTag \/ Edit \/ Checkout
  \/ \E p \in Packages : ChangeArchive(p) \/ Appear(p)
  \/ Packing \/ PackDies
  \/ StartPublish \/ Publishing \/ JobDies
  \/ Arrive

Spec == Init /\ [][Next]_vars

(***************************************************************************)
(* The workflow is run again until it succeeds: on a new runner, and a     *)
(* script that has started goes on unless it dies.  npm shows in the end   *)
(* what it has.                                                            *)
(***************************************************************************)
FairSpec ==
  /\ Spec
  /\ SF_vars(NewRunner)
  /\ SF_vars(directory = NoArchives /\ Verify)
  /\ SF_vars(StartPublish)
  /\ WF_vars(Copy \/ WriteReceipt)
  /\ WF_vars(Publishing)
  /\ \A p \in Packages : WF_vars(Appear(p))

-------------------------------------------------------------------------------
(* Properties                                                              *)

(***************************************************************************)
(* release-policy.test.mjs:34, "only complete, clean, verified and         *)
(* unchanged archives can publish": what validateRelease accepts was       *)
(* packed and verified together, from the commit of the tag.               *)
(***************************************************************************)
ValidatedIsOnePack == validated \subseteq verified

(***************************************************************************)
(* However often a release is interrupted and resumed, npm has archives of *)
(* one pack, and none without those before it, on which it may depend.     *)
(***************************************************************************)
OnePackInOrder ==
  \/ registry = NoArchives
  \/ \E v \in validated : \E p \in Packages :
       \A q \in Packages : registry[q] = IF q <= p THEN v.archives[q] ELSE None

Published == \A p \in Packages : registry[p] # None

PacksTo(archives) == Builds(tag, FALSE) = {archives}

(***************************************************************************)
(* RELEASING.md:108: "If a run partially publishes", the next ones finish  *)
(* it, where a commit packs to the same bytes each time, unless npm has    *)
(* other bytes already: then none of them publishes anything.              *)
(***************************************************************************)
ResumedReleaseCompletes ==
  \A archives \in Archives :
    <>[]PacksTo(archives) =>
      <>(Published \/ \E p \in Packages : registry[p] \notin {None, archives[p]})

===============================================================================
