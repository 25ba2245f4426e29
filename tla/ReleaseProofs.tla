----------------------------- MODULE ReleaseProofs -----------------------------
(***************************************************************************)
(* Proofs about Release, for any number of packages, commits and troubles  *)
(* and whatever a commit packs to.                                         *)
(***************************************************************************)
EXTENDS Release, TLAPS

Packs == [commit : Commits, archives : Archives]
Receipts == [commit : Commits, dirty : BOOLEAN, archives : Archives]
Directories == [Packages -> Bytes \cup {None}]

TypeOK ==
  /\ tag \in Commits /\ head \in Commits /\ dirty \in BOOLEAN
  /\ pack \in {"no", "copying"}
  /\ packed \in Directories /\ copied \in 0 .. Last
  /\ directory \in Directories
  /\ receipt \in Receipts \cup {None}
  /\ job \in {"no", "view", "publish", "confirm"}
  /\ package \in Packages
  /\ registry \in Directories /\ visible \subseteq Packages
  /\ inFlight \subseteq Packages \X Bytes
  /\ troubles \in Nat
  /\ verified \subseteq Packs /\ validated \subseteq Packs

Clean(commit, archives) == [commit |-> commit, archives |-> archives]

(***************************************************************************)
(* What is being copied, and what a receipt lists, was packed and verified *)
(* as a whole; if the tree was clean, from the commit alone.               *)
(***************************************************************************)
OnePack ==
  /\ pack = "copying" => packed \in Archives /\ (~dirty => Clean(head, packed) \in verified)
  /\ receipt # None /\ ~receipt.dirty => Clean(receipt.commit, receipt.archives) \in verified

(***************************************************************************)
(* Up to package p, npm has these archives.                                *)
(***************************************************************************)
HasBefore(p, archives) == \A q \in Packages : q < p => registry[q] = archives[q]

(***************************************************************************)
(* A publishing job works on what it validated, and npm has that of every  *)
(* package before the one it is at.                                        *)
(***************************************************************************)
JobInv ==
  job # "no" =>
    /\ pack = "no"
    /\ receipt # None /\ receipt.archives = directory
    /\ Clean(head, directory) \in validated
    /\ HasBefore(package, directory)

(***************************************************************************)
(* A publication that may still arrive is of a validated pack, and npm has *)
(* that pack's archives of the packages before.                            *)
(***************************************************************************)
InFlightInv ==
  \A m \in inFlight : \E v \in validated :
    v.archives[m[1]] = m[2] /\ HasBefore(m[1], v.archives)

ReleaseInv ==
  /\ TypeOK
  /\ OnePack
  /\ ValidatedIsOnePack
  /\ JobInv
  /\ InFlightInv
  /\ OnePackInOrder

-------------------------------------------------------------------------------

\* The actions, by what they touch.
People == NewRunner \/ MoveTag \/ Edit \/ Checkout \/ \E p \in Packages : ChangeArchive(p)

LEMMA Cases ==
  ASSUME [Next]_vars
  PROVE  \/ People \/ Packing \/ PackDies \/ StartPublish \/ View \/ NpmPublish
         \/ Confirm \/ JobDies \/ Arrive \/ (\E p \in Packages : Appear(p))
         \/ UNCHANGED vars
BY DEF Next, People, Publishing

\* The packages are numbered from 1; nothing is an archive of none of them.
LEMMA Numbers ==
  /\ Last \in Nat \ {0} /\ 1 \in Packages /\ Last \in Packages
  /\ Packages \subseteq Nat
  /\ None \notin Bytes
  /\ Archives \subseteq Directories
  /\ NoArchives \in Directories /\ \A p \in Packages : NoArchives[p] = None
BY ReleaseAssumption DEF Packages, Archives, Directories, NoArchives

\* A pack of a commit has an archive of every package.
LEMMA PacksAreComplete ==
  ASSUME TypeOK, Verify
  PROVE  packed' \in Archives
BY ReleaseAssumption DEF TypeOK, Verify

\* Where a job goes from a package.
LEMMA JobMoves ==
  ASSUME TypeOK, NextPackage \/ StopJob
  PROVE  /\ job' \in {"no", "view"} /\ package' \in Packages
         /\ job' # "no" => package' = package + 1
BY Numbers DEF TypeOK, NextPackage, StopJob, Packages

\* What is published are archives.
LEMMA JobHasArchives ==
  ASSUME TypeOK, JobInv, job # "no"
  PROVE  directory \in Archives
BY DEF TypeOK, JobInv, Receipts

\* The types hold because what is packed and published is complete.
LEMMA TypeStep ==
  ASSUME TypeOK, OnePack, JobInv, [Next]_vars
  PROVE  TypeOK'
<1> USE Numbers
<1>1. CASE People
  <2>1. CASE NewRunner
    BY <2>1 DEF NewRunner, TypeOK, packing, publishing, npm
  <2>2. CASE MoveTag \/ Edit \/ Checkout
    <3>1. tag' \in Commits /\ head' \in Commits /\ dirty' \in BOOLEAN /\ troubles' \in Nat
      <4>1. CASE MoveTag
        BY <4>1 DEF MoveTag, Trouble, TypeOK
      <4>2. CASE Edit
        BY <4>2 DEF Edit, Trouble, TypeOK
      <4>3. CASE Checkout
        BY <4>3 DEF Checkout, Trouble, TypeOK
      <4> QED BY <2>2, <4>1, <4>2, <4>3
    <3>2. UNCHANGED <<packing, output, publishing, npm>>
      BY <2>2 DEF MoveTag, Edit, Checkout
    <3> QED BY <3>1, <3>2 DEF TypeOK, packing, output, publishing, npm
  <2>3. ASSUME NEW p \in Packages, ChangeArchive(p)
        PROVE  TypeOK'
    BY <2>3 DEF ChangeArchive, Trouble, TypeOK, Directories, source, packing,
                publishing, npm
  <2> QED BY <1>1, <2>1, <2>2, <2>3 DEF People
<1>2. CASE Packing
  <2>1. CASE Verify
    <3>1. packed' \in Archives
      BY <2>1, PacksAreComplete
    <3>2. verified' \subseteq Packs
      BY <2>1, <3>1 DEF Verify, TypeOK, Packs
    <3> QED BY <2>1, <3>1, <3>2 DEF Verify, TypeOK, source, output, publishing, npm
  <2>2. CASE Copy
    <3>1. copied' \in 0 .. Last /\ copied' \in Packages
      BY <2>2 DEF Copy, TypeOK, Packages
    <3> QED BY <2>2, <3>1 DEF Copy, TypeOK, Directories, source, publishing, npm
  <2>3. CASE WriteReceipt
    <3>1. [commit |-> head, dirty |-> dirty, archives |-> packed] \in Receipts
      BY <2>3 DEF WriteReceipt, TypeOK, OnePack, Receipts
    <3> QED BY <2>3, <3>1 DEF WriteReceipt, TypeOK, source, publishing, npm
  <2> QED BY <1>2, <2>1, <2>2, <2>3 DEF Packing
<1>3. CASE PackDies
  BY <1>3 DEF PackDies, Trouble, TypeOK, source, publishing, npm
<1>4. CASE StartPublish
  <2>1. Clean(head, directory) \in Packs
    BY <1>4 DEF StartPublish, ValidateRelease, TypeOK, Receipts, Packs, Clean
  <2> QED BY <1>4, <2>1 DEF StartPublish, TypeOK, Clean, source, packing, output, npm
<1>5. CASE View
  <2>1. \/ NextPackage \/ StopJob
        \/ job' = "publish" /\ UNCHANGED package
    BY <1>5 DEF View
  <2>2. job' \in {"no", "view", "publish", "confirm"} /\ package' \in Packages
    BY <2>1, JobMoves DEF TypeOK
  <2> QED BY <1>5, <2>2 DEF View, TypeOK, source, packing, output, npm
<1>6. CASE NpmPublish
  <2>1. job' \in {"no", "view", "publish", "confirm"} /\ package' \in Packages
    BY <1>6, JobMoves DEF NpmPublish, TypeOK
  <2>2. registry' \in Directories
    BY <1>6 DEF NpmPublish, TypeOK, Directories
  <2> QED BY <1>6, <2>1, <2>2 DEF NpmPublish, TypeOK, source, packing, output
<1>7. CASE Confirm
  BY <1>7, JobMoves DEF Confirm, TypeOK, source, packing, output, npm
<1>8. CASE JobDies
  <2>1. directory[package] \in Bytes
    BY <1>8, JobHasArchives DEF JobDies, TypeOK, Archives
  <2>2. inFlight' \subseteq Packages \X Bytes
    BY <1>8, <2>1 DEF JobDies, TypeOK
  <2>3. job' = "no" /\ package' \in Packages /\ troubles' \in Nat
    BY <1>8 DEF JobDies, StopJob, Trouble, TypeOK
  <2> QED BY <1>8, <2>2, <2>3 DEF JobDies, TypeOK, source, packing, output
<1>9. CASE Arrive
  BY <1>9 DEF Arrive, TypeOK, Directories, source, packing, output, publishing
<1>10. ASSUME NEW p \in Packages, Appear(p)
       PROVE  TypeOK'
  BY <1>10 DEF Appear, TypeOK, source, packing, output, publishing
<1>11. CASE UNCHANGED vars
  BY <1>11 DEF vars, TypeOK, source, packing, output, publishing, npm
<1> QED BY <1>1, <1>2, <1>3, <1>4, <1>5, <1>6, <1>7, <1>8, <1>9, <1>10, <1>11, Cases

-------------------------------------------------------------------------------
(* Packs                                                                   *)

\* What is copied and what a receipt lists stays one pack of its commit.
LEMMA OnePackStep ==
  ASSUME TypeOK, OnePack, [Next]_vars
  PROVE  OnePack'
<1>1. CASE People
  <2>1. /\ pack = "no" /\ UNCHANGED packing
        /\ receipt' \in {receipt, None}
    BY <1>1 DEF People, Quiet, NewRunner, MoveTag, Edit, Checkout, ChangeArchive, output
  <2> QED BY <2>1 DEF OnePack, packing
<1>2. CASE Verify
  <2>1. packed' \in Archives
    BY <1>2, PacksAreComplete
  <2> QED BY <1>2, <2>1 DEF Verify, OnePack, Clean, source, output
<1>3. CASE Copy
  BY <1>3 DEF Copy, OnePack, source
<1>4. CASE WriteReceipt
  BY <1>4 DEF WriteReceipt, OnePack, Clean, source
<1>5. CASE PackDies
  BY <1>5 DEF PackDies, OnePack
<1>6. CASE UNCHANGED <<source, packing, output>>
  BY <1>6 DEF OnePack, source, packing, output
<1>7. \/ People \/ Verify \/ Copy \/ WriteReceipt \/ PackDies
      \/ UNCHANGED <<source, packing, output>>
  BY Cases DEF Packing, StartPublish, View, NpmPublish, Confirm, JobDies, Arrive,
     Appear, vars
<1> QED BY <1>1, <1>2, <1>3, <1>4, <1>5, <1>6, <1>7

\* validateRelease accepts a clean receipt for the archives that are there.
LEMMA ValidatedStep ==
  ASSUME TypeOK, OnePack, ValidatedIsOnePack, [Next]_vars
  PROVE  ValidatedIsOnePack'
<1>1. CASE StartPublish
  <2>1. Clean(head, directory) \in verified
    BY <1>1 DEF StartPublish, ValidateRelease, OnePack
  <2> QED BY <1>1, <2>1 DEF StartPublish, packing, ValidatedIsOnePack, Clean
<1>2. CASE validated' = validated /\ verified \subseteq verified'
  BY <1>2 DEF ValidatedIsOnePack
<1>3. StartPublish \/ (validated' = validated /\ verified \subseteq verified')
  BY Cases DEF People, NewRunner, MoveTag, Edit, Checkout, ChangeArchive, Packing,
     Verify, Copy, WriteReceipt, PackDies, View, NpmPublish, Confirm, JobDies, Arrive,
     Appear, publishing, packing, vars
<1> QED BY <1>1, <1>2, <1>3

-------------------------------------------------------------------------------
(* npm                                                                     *)

\* What npm has it keeps, and what was validated stays validated.
LEMMA NpmKeeps ==
  ASSUME TypeOK, [Next]_vars
  PROVE  /\ \A q \in Packages : registry[q] # None => registry'[q] = registry[q]
         /\ validated \subseteq validated'
<1>1. validated \subseteq validated'
  BY Cases DEF People, NewRunner, MoveTag, Edit, Checkout, ChangeArchive, Packing,
     Verify, Copy, WriteReceipt, PackDies, StartPublish, View, NpmPublish, Confirm,
     JobDies, Arrive, Appear, publishing, vars
<1>2. CASE NpmPublish
  BY <1>1, <1>2 DEF NpmPublish, TypeOK, Directories
<1>3. CASE Arrive
  BY <1>1, <1>3 DEF Arrive, TypeOK, Directories
<1>4. NpmPublish \/ Arrive \/ UNCHANGED registry
  BY Cases DEF People, NewRunner, MoveTag, Edit, Checkout, ChangeArchive, Packing,
     Verify, Copy, WriteReceipt, PackDies, StartPublish, View, Confirm, JobDies,
     Appear, npm, vars
<1> QED BY <1>1, <1>2, <1>3, <1>4

\* So npm keeps the archives of a pack that it has up to a package.
LEMMA HasBeforeStays ==
  ASSUME TypeOK, [Next]_vars, NEW p \in Packages, NEW archives \in Archives,
         HasBefore(p, archives)
  PROVE  HasBefore(p, archives)'
<1>1. \A q \in Packages : archives[q] # None
  BY Numbers DEF Archives
<1> QED BY <1>1, NpmKeeps DEF HasBefore

\* A publication in turn adds to one pack the next of its archives.
LEMMA FillsInOrder ==
  ASSUME TypeOK, [Next]_vars, OnePackInOrder, NEW p \in Packages, registry[p] = None,
         NEW v \in validated, HasBefore(p, v.archives),
         registry' = [registry EXCEPT ![p] = v.archives[p]]
  PROVE  OnePackInOrder'
<1>1. v \in validated' /\ v.archives \in Archives
  BY NpmKeeps DEF TypeOK, Packs
<1>2. \A q \in Packages : v.archives[q] # None
  BY <1>1, Numbers DEF Archives
<1>3. \A q \in Packages : q > p => registry[q] = None
  <2>1. CASE registry = NoArchives
    BY <2>1, Numbers
  <2>2. CASE registry # NoArchives
    <3>1. PICK w \in validated, n \in Packages :
            \A q \in Packages : registry[q] = IF q <= n THEN w.archives[q] ELSE None
      BY <2>2 DEF OnePackInOrder
    <3>2. w.archives[p] # None
      BY Numbers DEF TypeOK, Packs, Archives
    <3>3. ~(p <= n)
      BY <3>1, <3>2
    <3> QED BY <3>1, <3>3, Numbers
  <2> QED BY <2>1, <2>2
<1>4. \A q \in Packages : registry'[q] = IF q <= p THEN v.archives[q] ELSE None
  <2>1. \A q \in Packages : q < p => registry[q] = v.archives[q]
    BY DEF HasBefore
  <2> QED BY <1>3, <2>1, Numbers DEF TypeOK, Directories
<1> QED BY <1>1, <1>4 DEF OnePackInOrder

-------------------------------------------------------------------------------
(* Jobs                                                                    *)

\* A job publishes what it validated, one package after the other.
LEMMA JobStep ==
  ASSUME TypeOK, OnePack, JobInv, [Next]_vars
  PROVE  JobInv'
<1>1. CASE job' = "no"
  BY <1>1 DEF JobInv
<1>2. CASE StartPublish
  <2>1. HasBefore(1, directory)'
    BY Numbers DEF HasBefore, Packages
  <2> QED BY <1>2, <2>1 DEF StartPublish, Quiet, ValidateRelease, JobInv, Clean,
             packing, output, source
<1>3. CASE /\ job # "no" /\ package' \in Packages
           /\ UNCHANGED <<head, pack, output>>
           /\ \/ package' = package
              \/ package' = package + 1 /\ registry[package] = directory[package]
  <2>1. directory \in Archives
    BY <1>3, JobHasArchives
  <2>2. HasBefore(package, directory)
    BY <1>3 DEF JobInv
  <2>3. HasBefore(package', directory)
    <3>1. CASE package' = package
      BY <2>2, <3>1 DEF HasBefore
    <3>2. CASE package' = package + 1 /\ registry[package] = directory[package]
      <4>1. \A q \in Packages : q < package + 1 => q < package \/ q = package
        BY Numbers DEF TypeOK
      <4> QED BY <2>2, <3>2, <4>1 DEF HasBefore
    <3> QED BY <1>3, <3>1, <3>2
  <2>4. \A q \in Packages : directory[q] # None
    BY <2>1, Numbers DEF Archives
  <2>5. \A q \in Packages : q < package' => registry'[q] = directory[q]
    BY <2>3, <2>4, NpmKeeps DEF HasBefore
  <2> QED BY <1>3, <2>5, NpmKeeps DEF JobInv, HasBefore, output
<1>4. CASE View \/ Confirm
  <2>1. CASE job' = "no"
    BY <1>1, <2>1
  <2>2. CASE job' # "no" /\ NextPackage /\ Matches
    <3>1. package' = package + 1 /\ package' \in Packages
      BY <2>2, JobMoves
    <3>2. registry[package] = directory[package]
      BY <1>4, <2>2 DEF Matches, View, Confirm, JobInv
    <3> QED BY <1>3, <1>4, <3>1, <3>2 DEF View, Confirm, source, packing
  <2>3. CASE job' = "publish" /\ UNCHANGED package
    BY <1>3, <1>4, <2>3 DEF View, Confirm, source, packing, TypeOK
  <2> QED BY <1>4, <2>1, <2>2, <2>3 DEF View, Confirm, StopJob
<1>5. CASE NpmPublish
  <2>1. CASE job' = "no"
    BY <1>1, <2>1
  <2>2. CASE job' # "no"
    BY <1>3, <1>5, <2>2 DEF NpmPublish, StopJob, source, packing, TypeOK
  <2> QED BY <2>1, <2>2
<1>6. CASE Arrive \/ (\E p \in Packages : Appear(p)) \/ UNCHANGED vars
  <2>1. UNCHANGED <<job, package, head, pack, output>>
    BY <1>6 DEF Arrive, Appear, vars, source, packing, publishing
  <2> QED BY <1>1, <1>3, <2>1 DEF TypeOK
<1>7. CASE job = "no" /\ UNCHANGED job
  BY <1>1, <1>7
<1>8. \/ job' = "no" \/ StartPublish \/ View \/ Confirm \/ NpmPublish \/ Arrive
      \/ \E p \in Packages : Appear(p)
      \/ UNCHANGED vars
      \/ job = "no" /\ UNCHANGED job
  BY Cases DEF JobInv, People, Quiet, NewRunner, MoveTag, Edit, Checkout,
     ChangeArchive, Packing, Verify, Copy, WriteReceipt, PackDies, JobDies, StopJob,
     publishing
<1> QED BY <1>1, <1>2, <1>4, <1>5, <1>6, <1>7, <1>8

\* A publication whose npm process was killed is the next one of its pack.
LEMMA InFlightStep ==
  ASSUME TypeOK, JobInv, InFlightInv, [Next]_vars
  PROVE  InFlightInv'
<1>1. ASSUME NEW m \in inFlight, m \in inFlight'
      PROVE  \E v \in validated' : v.archives[m[1]] = m[2] /\ HasBefore(m[1], v.archives)'
  <2>1. PICK v \in validated : v.archives[m[1]] = m[2] /\ HasBefore(m[1], v.archives)
    BY DEF InFlightInv
  <2>2. v.archives \in Archives /\ m[1] \in Packages
    BY DEF TypeOK, Packs
  <2>3. v \in validated' /\ HasBefore(m[1], v.archives)'
    BY <2>1, <2>2, HasBeforeStays, NpmKeeps
  <2> QED BY <2>1, <2>3
<1>2. ASSUME JobDies, NEW m \in inFlight', m \notin inFlight
      PROVE  \E v \in validated' : v.archives[m[1]] = m[2] /\ HasBefore(m[1], v.archives)'
  <2>1. m = <<package, directory[package]>>
    BY <1>2 DEF JobDies
  <2>2. PICK v \in validated : v.archives = directory
    BY <1>2 DEF JobDies, JobInv, Clean
  <2>3. v.archives[m[1]] = m[2] /\ HasBefore(m[1], v.archives)
    BY <1>2, <2>1, <2>2 DEF JobDies, JobInv, HasBefore
  <2>4. v.archives \in Archives /\ m[1] \in Packages
    BY <2>1 DEF TypeOK, Packs
  <2>5. v \in validated' /\ HasBefore(m[1], v.archives)'
    BY <2>3, <2>4, HasBeforeStays, NpmKeeps
  <2> QED BY <2>3, <2>5
<1>3. JobDies \/ inFlight' \subseteq inFlight
  BY Cases DEF People, NewRunner, MoveTag, Edit, Checkout, ChangeArchive, Packing,
     Verify, Copy, WriteReceipt, PackDies, StartPublish, View, NpmPublish, Confirm,
     Arrive, Appear, npm, vars
<1> QED BY <1>1, <1>2, <1>3 DEF InFlightInv

\* npm gets the archives of one pack in their order.
LEMMA OrderStep ==
  ASSUME TypeOK, JobInv, InFlightInv, OnePackInOrder, [Next]_vars
  PROVE  OnePackInOrder'
<1>1. CASE NpmPublish /\ registry[package] = None
  <2>1. /\ Clean(head, directory) \in validated
        /\ HasBefore(package, Clean(head, directory).archives)
        /\ registry' = [registry EXCEPT ![package] = Clean(head, directory).archives[package]]
    BY <1>1 DEF NpmPublish, JobInv, Clean, HasBefore
  <2> QED BY <1>1, <2>1, FillsInOrder DEF TypeOK
<1>2. ASSUME Arrive, registry' # registry
      PROVE  OnePackInOrder'
  <2>1. PICK m \in inFlight : /\ registry[m[1]] = None
                              /\ registry' = [registry EXCEPT ![m[1]] = m[2]]
    BY <1>2 DEF Arrive
  <2>2. PICK v \in validated : v.archives[m[1]] = m[2] /\ HasBefore(m[1], v.archives)
    BY DEF InFlightInv
  <2>3. m[1] \in Packages
    BY DEF TypeOK
  <2> QED BY <2>1, <2>2, <2>3, FillsInOrder
<1>3. CASE UNCHANGED registry
  BY <1>3, NpmKeeps DEF OnePackInOrder
<1>4. \/ NpmPublish /\ registry[package] = None
      \/ Arrive
      \/ UNCHANGED registry
  BY Cases DEF People, NewRunner, MoveTag, Edit, Checkout, ChangeArchive, Packing,
     Verify, Copy, WriteReceipt, PackDies, StartPublish, View, NpmPublish, Confirm,
     JobDies, Appear, npm, vars
<1> QED BY <1>1, <1>2, <1>3, <1>4

-------------------------------------------------------------------------------
(* The theorems                                                            *)

LEMMA ReleaseStarts ==
  ASSUME Init
  PROVE  ReleaseInv
<1>1. TypeOK
  <2>1. 0 \in 0 .. Last
    BY Numbers
  <2> QED BY <2>1, Numbers DEF Init, TypeOK
<1>2. OnePack /\ JobInv
  BY DEF Init, OnePack, JobInv
<1>3. ValidatedIsOnePack /\ InFlightInv /\ OnePackInOrder
  BY DEF Init, ValidatedIsOnePack, InFlightInv, OnePackInOrder
<1> QED BY <1>1, <1>2, <1>3 DEF ReleaseInv

(***************************************************************************)
(* The inductive invariant of a release.                                   *)
(***************************************************************************)
THEOREM ReleaseCorrect == Spec => []ReleaseInv
<1>1. ReleaseInv /\ [Next]_vars => ReleaseInv'
  BY TypeStep, OnePackStep, ValidatedStep, JobStep, InFlightStep, OrderStep
     DEF ReleaseInv
<1> QED BY <1>1, ReleaseStarts, PTL DEF Spec

(***************************************************************************)
(* validateRelease accepts only archives that one clean run packed and     *)
(* verified from the commit, whatever was changed, moved or interrupted in *)
(* between.                                                                *)
(***************************************************************************)
THEOREM ValidationCorrect == Spec => []ValidatedIsOnePack
<1>1. ReleaseInv => ValidatedIsOnePack
  BY DEF ReleaseInv
<1> QED BY <1>1, ReleaseCorrect, PTL

(***************************************************************************)
(* However often the release of a version is interrupted, moved to another *)
(* commit and resumed, and however late a publication arrives: npm has the *)
(* archives of one validated pack, each after those it may depend on.      *)
(***************************************************************************)
THEOREM PublicationCorrect == Spec => []OnePackInOrder
<1>1. ReleaseInv => OnePackInOrder
  BY DEF ReleaseInv
<1> QED BY <1>1, ReleaseCorrect, PTL

===============================================================================
