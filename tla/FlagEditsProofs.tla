---------------------------- MODULE FlagEditsProofs ----------------------------
(***************************************************************************)
(* Proofs about evaluation and the edits of a flag, for any flags, values, *)
(* contexts, options and hashes.                                           *)
(*                                                                         *)
(* What walks a list in the code is a recursive function here.  What it    *)
(* computes is proved by induction, which the first lemmas reduce to sets: *)
(* a set of naturals with 0 and the successor of each of its members is    *)
(* all of them, since its complement would have a least element.           *)
(***************************************************************************)
EXTENDS FlagEdits, FiniteSetTheorems, SequenceTheorems, WellFoundedInduction, TLAPS

-------------------------------------------------------------------------------
(* Numbers and sequences                                                   *)

\* A set of naturals has a least element.
LEMMA LeastExists ==
  ASSUME NEW T \in SUBSET Nat, T # {}
  PROVE  \E x \in T : \A y \in T : x <= y
<1>1. PICK x \in T : \A y \in T : <<y, x>> \notin OpToRel(<, Nat)
  BY NatLessThanWellFounded, WFMin
<1>2. \A y \in T : ~(y < x)
  BY <1>1 DEF OpToRel
<1> QED BY <1>2

\* Min is the least element.
LEMMA MinIsLeast ==
  ASSUME NEW T \in SUBSET Nat, T # {}
  PROVE  Min(T) \in T /\ \A y \in T : Min(T) <= y
BY LeastExists DEF Min

\* Induction up to n, over the set of the numbers something holds of.
LEMMA Induction ==
  ASSUME NEW n \in Nat, NEW T, 0 \in T,
         \A i \in 1 .. n : i - 1 \in T => i \in T
  PROVE  0 .. n \subseteq T
<1> DEFINE Out == {i \in 0 .. n : i \notin T}
<1> SUFFICES ASSUME Out # {}
             PROVE  FALSE
  OBVIOUS
<1>0. Out \in SUBSET Nat
  OBVIOUS
<1>1. PICK x \in Out : \A y \in Out : x <= y
  <2> HIDE DEF Out
  <2> QED BY <1>0, LeastExists
<1>2. x \in 1 .. n /\ x - 1 \in 0 .. n
  OBVIOUS
<1>3. x - 1 \in T
  BY <1>1, <1>2
<1> QED BY <1>2, <1>3

\* A function that is defined by recursion over the first numbers exists.
Steps(f, a, n, g) == f[0] = a /\ \A i \in 1 .. n : f[i] = g[i][f[i - 1]]

\* It can be taken as many steps as there are.
LEMMA RecursionExists ==
  ASSUME NEW S, NEW a \in S, NEW n \in Nat, NEW g \in [1 .. n -> [S -> S]]
  PROVE  \E f \in [0 .. n -> S] : Steps(f, a, n, g)
<1> DEFINE Upto(f, m) == f[0] = a /\ \A i \in 1 .. m : f[i] = g[i][f[i - 1]]
           Exists(m) == \E f \in [0 .. m -> S] : Upto(f, m)
           T == {m \in 0 .. n : Exists(m)}
<1>1. Exists(0)
  <2> DEFINE f == [i \in 0 .. 0 |-> a]
  <2>1. f \in [0 .. 0 -> S] /\ Upto(f, 0)
    OBVIOUS
  <2> HIDE DEF f
  <2> QED BY <2>1
<1>2. ASSUME NEW m \in 1 .. n, Exists(m - 1)
      PROVE  Exists(m)
  <2>1. PICK f \in [0 .. m - 1 -> S] : Upto(f, m - 1)
    BY <1>2
  <2> DEFINE h == [i \in 0 .. m |-> IF i = m THEN g[m][f[m - 1]] ELSE f[i]]
  <2>2. h \in [0 .. m -> S]
    OBVIOUS
  <2>3. ASSUME NEW i \in 1 .. m
        PROVE  h[i] = g[i][h[i - 1]]
    BY <2>1
  <2>4. h[0] = a
    BY <2>1
  <2> HIDE DEF h
  <2>5. Upto(h, m)
    BY <2>3, <2>4
  <2> HIDE DEF Upto
  <2> QED BY <2>2, <2>5
<1> HIDE DEF Exists
<1>3. 0 \in T /\ \A m \in 1 .. n : m - 1 \in T => m \in T
  BY <1>1, <1>2
<1> HIDE DEF T
<1>4. 0 .. n \subseteq T
  BY <1>3, Induction
<1>5. PICK f \in [0 .. n -> S] : Upto(f, n)
  BY <1>4, n \in 0 .. n DEF T, Exists
<1> QED BY <1>5 DEF Steps

\* A sequence is one of its own elements.
LEMMA OwnElements ==
  ASSUME NEW S, NEW s \in Seq(S)
  PROVE  /\ Len(s) \in Nat /\ DOMAIN s = 1 .. Len(s)
         /\ s \in Seq(Range(s)) /\ Range(s) \subseteq S
         /\ \A i \in 1 .. Len(s) : s[i] \in Range(s) /\ s[i] \in S
BY LenProperties DEF Range

\* Append and replacement, element by element.
LEMMA AppendedElements ==
  ASSUME NEW S, NEW s \in Seq(S), NEW e
  PROVE  /\ Append(s, e) \in Seq(Range(Append(s, e)))
         /\ Len(Append(s, e)) = Len(s) + 1
         /\ \A i \in 1 .. Len(s) : Append(s, e)[i] = s[i]
         /\ Append(s, e)[Len(s) + 1] = e
         /\ Range(Append(s, e)) = Range(s) \cup {e}
<1>1. s \in Seq(S \cup {e})
  OBVIOUS
<1>2. /\ Append(s, e) \in Seq(S \cup {e})
      /\ Len(Append(s, e)) = Len(s) + 1
      /\ \A i \in 1 .. Len(s) : Append(s, e)[i] = s[i]
      /\ Append(s, e)[Len(s) + 1] = e
  BY <1>1, AppendProperties
<1>3. DOMAIN s = 1 .. Len(s) /\ Len(s) \in Nat
  BY LenProperties
<1>4. DOMAIN Append(s, e) = 1 .. Len(s) + 1
  BY <1>2, LenProperties
<1>5. Range(Append(s, e)) = Range(s) \cup {e}
  BY <1>2, <1>3, <1>4 DEF Range
<1> QED BY <1>2, <1>5, OwnElements

\* Replacing one element leaves the others.
LEMMA ReplacedElements ==
  ASSUME NEW S, NEW s \in Seq(S), NEW k \in 1 .. Len(s), NEW e
  PROVE  /\ ReplaceAt(s, k, e) \in Seq(Range(ReplaceAt(s, k, e)))
         /\ Len(ReplaceAt(s, k, e)) = Len(s)
         /\ ReplaceAt(s, k, e)[k] = e
         /\ \A i \in 1 .. Len(s) : i # k => ReplaceAt(s, k, e)[i] = s[i]
         /\ Range(ReplaceAt(s, k, e)) \subseteq Range(s) \cup {e}
<1>1. s \in [1 .. Len(s) -> S] /\ Len(s) \in Nat
  BY LenProperties
<1>2. /\ DOMAIN ReplaceAt(s, k, e) = 1 .. Len(s)
      /\ ReplaceAt(s, k, e)[k] = e
      /\ \A i \in 1 .. Len(s) : i # k => ReplaceAt(s, k, e)[i] = s[i]
  BY <1>1 DEF ReplaceAt
<1>3. ReplaceAt(s, k, e) \in [1 .. Len(s) -> S \cup {e}]
  BY <1>1 DEF ReplaceAt
<1>4. ReplaceAt(s, k, e) \in Seq(S \cup {e}) /\ Len(ReplaceAt(s, k, e)) = Len(s)
  BY <1>1, <1>3
<1>5. Range(ReplaceAt(s, k, e)) \subseteq Range(s) \cup {e}
  BY <1>1, <1>2 DEF Range
<1> QED BY <1>2, <1>4, <1>5, OwnElements

-------------------------------------------------------------------------------
(* The first element that ...                                              *)

\* SelectInSeq finds the first of the places, or 0.
LEMMA FirstPlace ==
  ASSUME NEW n \in Nat, NEW places \in SUBSET (1 .. n), NEW i,
         i = IF places # {} THEN Min(places) ELSE 0
  PROVE  /\ i \in 0 .. n
         /\ i # 0 => i \in places /\ \A j \in 1 .. n : j < i => j \notin places
         /\ i = 0 => places = {}
<1>1. places \in SUBSET Nat
  OBVIOUS
<1>2. CASE places = {}
  BY <1>2
<1>3. CASE places # {}
  <2>1. i \in places /\ \A j \in places : i <= j
    BY <1>1, <1>3, MinIsLeast
  <2>2. i \in 1 .. n
    BY <2>1
  <2> QED BY <2>1, <2>2
<1> QED BY <1>2, <1>3

\* The place of a rule.
LEMMA RulePlace ==
  ASSUME NEW S, NEW rules \in Seq(S), NEW ruleId
  PROVE  /\ PlaceOf(ruleId, rules) \in 0 .. Len(rules)
         /\ PlaceOf(ruleId, rules) # 0 =>
              /\ PlaceOf(ruleId, rules) \in 1 .. Len(rules)
              /\ rules[PlaceOf(ruleId, rules)].id = ruleId
         /\ PlaceOf(ruleId, rules) = 0 => \A j \in 1 .. Len(rules) : rules[j].id # ruleId
<1> DEFINE places == {j \in 1 .. Len(rules) : rules[j].id = ruleId}
<1>1. PlaceOf(ruleId, rules) = IF places # {} THEN Min(places) ELSE 0
  BY DEF PlaceOf, SelectInSeq
<1>2. Len(rules) \in Nat /\ places \in SUBSET (1 .. Len(rules))
  BY LenProperties
<1> HIDE DEF places
<1>3. /\ PlaceOf(ruleId, rules) \in 0 .. Len(rules)
      /\ PlaceOf(ruleId, rules) # 0 =>
           /\ PlaceOf(ruleId, rules) \in places
           /\ \A j \in 1 .. Len(rules) : j < PlaceOf(ruleId, rules) => j \notin places
      /\ PlaceOf(ruleId, rules) = 0 => places = {}
  BY <1>1, <1>2, FirstPlace
<1> QED BY <1>1, <1>2, <1>3 DEF places

\* The target a key decides by.
LEMMA TargetPlace ==
  ASSUME NEW f, NEW S, f.targets \in Seq(S), NEW key
  PROVE  /\ TargetFor(f, key) \in 0 .. Len(f.targets)
         /\ TargetFor(f, key) # 0 =>
              /\ TargetFor(f, key) \in 1 .. Len(f.targets)
              /\ key # EmptyString /\ key \in f.targets[TargetFor(f, key)].keys
              /\ \A j \in 1 .. Len(f.targets) :
                   j < TargetFor(f, key) => key \notin f.targets[j].keys
         /\ TargetFor(f, key) = 0 /\ key # EmptyString =>
              \A j \in 1 .. Len(f.targets) : key \notin f.targets[j].keys
<1> DEFINE places == {j \in 1 .. Len(f.targets) :
                        key # EmptyString /\ key \in f.targets[j].keys}
<1>1. TargetFor(f, key) = IF places # {} THEN Min(places) ELSE 0
  BY DEF TargetFor, SelectInSeq
<1>2. Len(f.targets) \in Nat /\ places \in SUBSET (1 .. Len(f.targets))
  BY LenProperties
<1> HIDE DEF places
<1>3. /\ TargetFor(f, key) \in 0 .. Len(f.targets)
      /\ TargetFor(f, key) # 0 =>
           /\ TargetFor(f, key) \in places
           /\ \A j \in 1 .. Len(f.targets) : j < TargetFor(f, key) => j \notin places
      /\ TargetFor(f, key) = 0 => places = {}
  BY <1>1, <1>2, FirstPlace
<1> QED BY <1>1, <1>2, <1>3 DEF places

\* The rule a context decides by.
MatchesAll(r, context) == \A c \in r.conditions : MatchesCondition(c, context)

\* That place is the first whose conditions all match, or 0.
LEMMA MatchingPlace ==
  ASSUME NEW f, NEW S, f.rules \in Seq(S), NEW context
  PROVE  /\ RuleFor(f, context) \in 0 .. Len(f.rules)
         /\ RuleFor(f, context) # 0 =>
              /\ RuleFor(f, context) \in 1 .. Len(f.rules)
              /\ MatchesAll(f.rules[RuleFor(f, context)], context)
              /\ \A j \in 1 .. Len(f.rules) :
                   j < RuleFor(f, context) => ~MatchesAll(f.rules[j], context)
         /\ RuleFor(f, context) = 0 =>
              \A j \in 1 .. Len(f.rules) : ~MatchesAll(f.rules[j], context)
<1> DEFINE places == {j \in 1 .. Len(f.rules) : MatchesAll(f.rules[j], context)}
<1>1. RuleFor(f, context) = IF places # {} THEN Min(places) ELSE 0
  BY DEF RuleFor, SelectInSeq, MatchesAll
<1>2. Len(f.rules) \in Nat /\ places \in SUBSET (1 .. Len(f.rules))
  BY LenProperties
<1> HIDE DEF places
<1>3. /\ RuleFor(f, context) \in 0 .. Len(f.rules)
      /\ RuleFor(f, context) # 0 =>
           /\ RuleFor(f, context) \in places
           /\ \A j \in 1 .. Len(f.rules) : j < RuleFor(f, context) => j \notin places
      /\ RuleFor(f, context) = 0 => places = {}
  BY <1>1, <1>2, FirstPlace
<1> QED BY <1>1, <1>2, <1>3 DEF places

\* The split a bucket falls into.
SplitAt(splits, bucket) ==
  LET passed == {i \in DOMAIN splits : bucket < Cursors(splits)[i]}
  IN  IF passed = {} THEN Len(splits) ELSE Min(passed)

\* It is the first whose cursor passes the bucket.
LEMMA SplitPlace ==
  ASSUME NEW S, NEW splits \in Seq(S), splits # << >>, NEW bucket
  PROVE  /\ SplitAt(splits, bucket) \in 1 .. Len(splits)
         /\ VariantAt(splits, bucket) = splits[SplitAt(splits, bucket)].variation
         /\ \A i \in 1 .. Len(splits) :
              /\ bucket < Cursors(splits)[i]
              /\ \A j \in 1 .. Len(splits) : j < i => ~(bucket < Cursors(splits)[j])
              => SplitAt(splits, bucket) = i
         /\ bucket < Cursors(splits)[Len(splits)] =>
              /\ bucket < Cursors(splits)[SplitAt(splits, bucket)]
              /\ \A j \in 1 .. Len(splits) : j < SplitAt(splits, bucket) =>
                   ~(bucket < Cursors(splits)[j])
<1> DEFINE passed == {i \in 1 .. Len(splits) : bucket < Cursors(splits)[i]}
<1>1. DOMAIN splits = 1 .. Len(splits) /\ Len(splits) \in Nat /\ Len(splits) # 0
  BY LenProperties, EmptySeq
<1>2. SplitAt(splits, bucket) = IF passed = {} THEN Len(splits) ELSE Min(passed)
  BY <1>1 DEF SplitAt
<1>3. VariantAt(splits, bucket) = splits[SplitAt(splits, bucket)].variation
  BY DEF VariantAt, SplitAt
<1>4. passed # {} => Min(passed) \in passed /\ \A j \in passed : Min(passed) <= j
  <2>1. passed \in SUBSET Nat
    BY <1>1
  <2> HIDE DEF passed
  <2> QED BY <2>1, MinIsLeast
<1>5. SplitAt(splits, bucket) \in 1 .. Len(splits)
  BY <1>1, <1>2, <1>4
<1>6. ASSUME NEW i \in 1 .. Len(splits), bucket < Cursors(splits)[i],
             \A j \in 1 .. Len(splits) : j < i => ~(bucket < Cursors(splits)[j])
      PROVE  SplitAt(splits, bucket) = i
  <2>1. i \in passed /\ \A j \in passed : ~(j < i)
    BY <1>6
  <2>2. Min(passed) \in passed /\ Min(passed) <= i
    BY <1>4, <2>1
  <2>3. Min(passed) = i
    BY <1>1, <2>1, <2>2
  <2> QED BY <1>2, <2>1, <2>3
<1>7. ASSUME bucket < Cursors(splits)[Len(splits)]
      PROVE  /\ bucket < Cursors(splits)[SplitAt(splits, bucket)]
             /\ \A j \in 1 .. Len(splits) : j < SplitAt(splits, bucket) =>
                  ~(bucket < Cursors(splits)[j])
  <2>1. Len(splits) \in passed
    BY <1>1, <1>7
  <2>2. SplitAt(splits, bucket) = Min(passed)
    BY <1>2, <2>1
  <2>3. SplitAt(splits, bucket) \in passed /\ \A j \in passed : SplitAt(splits, bucket) <= j
    BY <1>4, <2>1, <2>2
  <2> QED BY <1>5, <2>3
<1> QED BY <1>3, <1>5, <1>6, <1>7

-------------------------------------------------------------------------------
(* Rollouts                                                                *)

IsSplits(splits, names) == splits \in Seq(Range(splits)) /\ ValidSplits(splits, names)

\* What validation says of splits, by their places.
LEMMA SplitsFacts ==
  ASSUME NEW splits, NEW names, IsSplits(splits, names)
  PROVE  /\ splits # << >>
         /\ Len(splits) \in Nat \ {0} /\ DOMAIN splits = 1 .. Len(splits)
         /\ \A i \in 1 .. Len(splits) : /\ splits[i].weight \in Nat \ {0}
                                        /\ splits[i].variation \in names
         /\ \A i, j \in 1 .. Len(splits) :
              splits[i].variation = splits[j].variation => i = j
         /\ Cursors(splits)[Len(splits)] = Total
BY OwnElements, EmptySeq DEF IsSplits, ValidSplits

\* The cursor starts at 0, adds each weight in turn, and so only grows.
LEMMA CursorFacts ==
  ASSUME NEW splits, NEW n \in Nat, Len(splits) = n,
         \A i \in 1 .. n : splits[i].weight \in Nat \ {0}
  PROVE  /\ Cursors(splits) \in [0 .. n -> Nat]
         /\ Cursors(splits)[0] = 0
         /\ \A i \in 1 .. n :
              Cursors(splits)[i] = Cursors(splits)[i - 1] + splits[i].weight
         /\ \A i, j \in 0 .. n : j < i => Cursors(splits)[j] < Cursors(splits)[i]
<1> DEFINE C == Cursors(splits)
           g == [i \in 1 .. n |-> [x \in Nat |-> x + splits[i].weight]]
<1>1. g \in [1 .. n -> [Nat -> Nat]]
  OBVIOUS
<1>2. PICK f \in [0 .. n -> Nat] : f[0] = 0 /\ \A i \in 1 .. n : f[i] = g[i][f[i - 1]]
  <2>1. PICK N, h : N = Nat /\ h = g
    OBVIOUS
  <2>2. 0 \in N /\ h \in [1 .. n -> [N -> N]]
    BY <1>1, <2>1
  <2> HIDE DEF g
  <2>3. \E f \in [0 .. n -> N] : Steps(f, 0, n, h)
    BY <2>2, RecursionExists
  <2> QED BY <2>1, <2>3 DEF Steps
<1>3. f = [i \in 0 .. n |-> IF i = 0 THEN 0 ELSE f[i - 1] + splits[i].weight]
  <2>1. \A i \in 1 .. n : i \in 0 .. n /\ i - 1 \in 0 .. n /\ i # 0 /\ f[i - 1] \in Nat
    OBVIOUS
  <2>2. \A i \in 1 .. n : f[i] = f[i - 1] + splits[i].weight
    BY <1>2, <2>1
  <2> QED BY <1>2, <2>1, <2>2
<1>4. C = [i \in 0 .. n |-> IF i = 0 THEN 0 ELSE C[i - 1] + splits[i].weight]
  BY <1>3 DEF Cursors
<1> HIDE DEF C, g
<1>5. C[0] = 0 /\ \A i \in 1 .. n : C[i] = C[i - 1] + splits[i].weight
  BY <1>4
<1> DEFINE T == {i \in 0 .. n : C[i] \in Nat}
<1>6. 0 .. n \subseteq T
  <2>1. 0 \in T
    BY <1>5
  <2>2. ASSUME NEW i \in 1 .. n, i - 1 \in T
        PROVE  i \in T
    <3>1. C[i - 1] \in Nat /\ splits[i].weight \in Nat /\ i \in 0 .. n
      BY <2>2
    <3>2. C[i] = C[i - 1] + splits[i].weight
      BY <1>5
    <3> QED BY <3>1, <3>2
  <2> HIDE DEF T
  <2> QED BY <2>1, <2>2, Induction
<1>7. C \in [0 .. n -> Nat]
  BY <1>4, <1>6
<1>8. ASSUME NEW j \in 0 .. n
      PROVE  \A i \in 0 .. n : j < i => C[j] < C[i]
  <2> DEFINE U == {i \in 0 .. n : j < i => C[j] < C[i]}
  <2>1. 0 \in U
    OBVIOUS
  <2>2. ASSUME NEW i \in 1 .. n, i - 1 \in U
        PROVE  i \in U
    <3>1. i \in 0 .. n /\ i - 1 \in 0 .. n
      OBVIOUS
    <3>2. C[i] \in Nat /\ C[i - 1] \in Nat /\ C[j] \in Nat
      BY <1>7, <3>1
    <3>3. C[i] = C[i - 1] + splits[i].weight /\ splits[i].weight \in Nat \ {0}
      BY <1>5
    <3>4. CASE j < i
      <4>1. j = i - 1 \/ j < i - 1
        BY <3>4
      <4>2. C[j] = C[i - 1] \/ C[j] < C[i - 1]
        BY <2>2, <4>1
      <4>3. C[j] < C[i]
        BY <3>2, <3>3, <4>2
      <4> QED BY <3>1, <4>3
    <3> QED BY <3>1, <3>4
  <2>3. 0 .. n \subseteq U
    <3> HIDE DEF U
    <3> QED BY <2>1, <2>2, Induction
  <2> QED BY <2>3
<1> QED BY <1>5, <1>7, <1>8 DEF C

\* The buckets of a split are those from the cursor before it up to its own.
LEMMA BucketsOfSplit ==
  ASSUME NEW splits, NEW names, IsSplits(splits, names), NEW k \in 1 .. Len(splits)
  PROVE  {b \in Buckets : VariantAt(splits, b) = splits[k].variation}
           = Cursors(splits)[k - 1] .. Cursors(splits)[k] - 1
<1> DEFINE C == Cursors(splits)
           n == Len(splits)
<1>1. /\ splits \in Seq(Range(splits)) /\ splits # << >> /\ n \in Nat \ {0}
      /\ C[n] = Total
      /\ \A i, j \in 1 .. n : splits[i].variation = splits[j].variation => i = j
  BY SplitsFacts DEF IsSplits
<1>2. /\ C \in [0 .. n -> Nat] /\ C[0] = 0
      /\ \A i, j \in 0 .. n : j < i => C[j] < C[i]
  BY <1>1, SplitsFacts, CursorFacts
<1>3. /\ C[k] \in Nat /\ C[k - 1] \in Nat /\ C[k] <= Total /\ Total \in Nat
      /\ \A j \in 0 .. n : C[j] \in Nat
  <2>1. k \in 0 .. n /\ k - 1 \in 0 .. n /\ n \in 0 .. n /\ (k = n \/ k < n)
    BY <1>1
  <2>2. \A j \in 0 .. n : C[j] \in Nat
    BY <1>2
  <2>3. C[k] = C[n] \/ C[k] < C[n]
    BY <1>2, <2>1
  <2> HIDE DEF C, n
  <2> QED BY <1>1, <2>1, <2>2, <2>3, EvaluationAssumption
<1>4. ASSUME NEW b \in Buckets
      PROVE  VariantAt(splits, b) = splits[k].variation <=> C[k - 1] <= b /\ b < C[k]
  <2>1. b \in Nat /\ b < C[n]
    BY <1>1, EvaluationAssumption DEF Buckets
  <2>2. /\ SplitAt(splits, b) \in 1 .. n
        /\ VariantAt(splits, b) = splits[SplitAt(splits, b)].variation
        /\ b < C[SplitAt(splits, b)]
        /\ \A j \in 1 .. n : j < SplitAt(splits, b) => ~(b < C[j])
        /\ b < C[k] /\ (\A j \in 1 .. n : j < k => ~(b < C[j])) => SplitAt(splits, b) = k
    BY <1>1, <2>1, SplitPlace
  <2>3. VariantAt(splits, b) = splits[k].variation <=> SplitAt(splits, b) = k
    BY <1>1, <2>2
  <2>4. ASSUME SplitAt(splits, b) = k
        PROVE  C[k - 1] <= b /\ b < C[k]
    <3>1. CASE k = 1
      BY <1>2, <2>1, <2>2, <2>4, <3>1
    <3>2. CASE k # 1
      <4>1. k - 1 \in 1 .. n /\ k - 1 < k
        BY <1>1, <3>2
      <4> QED BY <1>3, <2>1, <2>2, <2>4, <4>1
    <3> QED BY <3>1, <3>2
  <2>5. ASSUME C[k - 1] <= b, b < C[k]
        PROVE  SplitAt(splits, b) = k
    <3>1. ASSUME NEW j \in 1 .. n, j < k
          PROVE  ~(b < C[j])
      <4>1. j = k - 1 \/ j < k - 1
        BY <3>1
      <4>2. j \in 0 .. n /\ k - 1 \in 0 .. n
        BY <1>1
      <4>3. C[j] = C[k - 1] \/ C[j] < C[k - 1]
        BY <1>2, <4>1, <4>2
      <4> QED BY <1>3, <2>1, <2>5, <4>2, <4>3
    <3> QED BY <2>2, <2>5, <3>1
  <2> QED BY <2>3, <2>4, <2>5
<1> HIDE DEF C
<1>5. \A b \in C[k - 1] .. C[k] - 1 : b \in Buckets
  BY <1>3, EvaluationAssumption DEF Buckets
<1>6. \A b \in Buckets : b \in Int
  BY DEF Buckets
<1> QED BY <1>3, <1>4, <1>5, <1>6 DEF C

\* As many as its weight.
LEMMA ShareOfSplit ==
  ASSUME NEW splits, NEW names, IsSplits(splits, names), NEW k \in 1 .. Len(splits)
  PROVE  Cardinality({b \in Buckets : VariantAt(splits, b) = splits[k].variation})
           = splits[k].weight
<1>1. /\ Len(splits) \in Nat
      /\ \A i \in 1 .. Len(splits) : splits[i].weight \in Nat \ {0}
  BY SplitsFacts
<1>2. k \in 0 .. Len(splits) /\ k - 1 \in 0 .. Len(splits)
  BY <1>1
<1>3. /\ Cursors(splits) \in [0 .. Len(splits) -> Nat]
      /\ Cursors(splits)[k] = Cursors(splits)[k - 1] + splits[k].weight
  BY <1>1, CursorFacts
<1>4. PICK a, w : a = Cursors(splits)[k - 1] /\ w = splits[k].weight
  OBVIOUS
<1>5. a \in Nat /\ w \in Nat \ {0} /\ Cursors(splits)[k] = a + w
  BY <1>1, <1>2, <1>3, <1>4
<1>6. Cardinality(a .. a + w - 1) = w
  <2>1. a \in Int /\ a + w - 1 \in Int /\ ~(a > a + w - 1) /\ (a + w - 1) - a + 1 = w
    BY <1>5
  <2> QED BY <2>1, FS_Interval
<1>7. {b \in Buckets : VariantAt(splits, b) = splits[k].variation} = a .. a + w - 1
  BY <1>4, <1>5, BucketsOfSplit
<1> QED BY <1>4, <1>6, <1>7

-------------------------------------------------------------------------------
(* Variations                                                              *)

\* The entries of one object, and whether both boolean values are there.
IsVariations(vs) ==
  /\ vs \in Seq(Range(vs))
  /\ \A e \in Range(vs) : e.name \in STRING
  /\ \A i, j \in DOMAIN vs : vs[i].name = vs[j].name => i = j

HaveBoth(vs) == {On, Off} \subseteq {e.value : e \in Range(vs)}

\* A name stands for one variation.
LEMMA OneVariation ==
  ASSUME NEW vs, IsVariations(vs)
  PROVE  /\ \A e \in Range(vs) : e.name \in Names(vs) /\ ValueOf(e.name, vs) = e.value
         /\ \A name \in Names(vs) :
              /\ name \in STRING /\ name # None
              /\ \E e \in Range(vs) : name = e.name /\ ValueOf(name, vs) = e.value
<1>1. \A e, d \in Range(vs) : e.name = d.name => e = d
  BY DEF IsVariations, Range
<1>2. ASSUME NEW e \in Range(vs)
      PROVE  ValueOf(e.name, vs) = e.value
  <2>1. (CHOOSE d \in Range(vs) : d.name = e.name) = e
    BY <1>1
  <2> QED BY <2>1 DEF ValueOf
<1>3. \A e \in Range(vs) : e.name \in Names(vs)
  BY DEF Names
<1>4. \A name \in Names(vs) : \E e \in Range(vs) : name = e.name
  BY DEF Names
<1>5. \A e \in Range(vs) : e.name \in STRING
  BY DEF IsVariations
<1>6. None \notin STRING
  BY FlagEditsAssumption
<1> QED BY <1>2, <1>3, <1>4, <1>5, <1>6

\* The two values differ.
LEMMA OnIsNotOff == On # Off
BY On.boolean = TRUE, Off.boolean = FALSE DEF On, Off

\* The first variation with a value is there and has it.
LEMMA ServingNames ==
  ASSUME NEW vs, IsVariations(vs), HaveBoth(vs)
  PROVE  /\ \A value \in {On, Off} : /\ FirstServing(value, vs) \in Names(vs)
                                     /\ ValueOf(FirstServing(value, vs), vs) = value
         /\ FirstServing(On, vs) # FirstServing(Off, vs)
<1>1. ASSUME NEW value \in {On, Off}
      PROVE  /\ FirstServing(value, vs) \in Names(vs)
             /\ ValueOf(FirstServing(value, vs), vs) = value
  <2> DEFINE places == {i \in 1 .. Len(vs) : vs[i].value = value}
  <2>1. /\ Len(vs) \in Nat /\ DOMAIN vs = 1 .. Len(vs)
        /\ \A i \in 1 .. Len(vs) : vs[i] \in Range(vs)
    BY OwnElements DEF IsVariations
  <2>2. PICK i : i = IF places # {} THEN Min(places) ELSE 0
    OBVIOUS
  <2>3. FirstServing(value, vs) = vs[i].name
    BY <2>2 DEF FirstServing, SelectInSeq
  <2>4. places # {} /\ places \in SUBSET (1 .. Len(vs))
    <3>1. PICK e \in Range(vs) : value = e.value
      BY DEF HaveBoth
    <3>2. PICK j \in 1 .. Len(vs) : e = vs[j]
      BY <2>1, <3>1 DEF Range
    <3> QED BY <3>1, <3>2
  <2> HIDE DEF places
  <2>5. i \in places
    BY <2>1, <2>2, <2>4, FirstPlace
  <2>6. i \in 1 .. Len(vs) /\ vs[i].value = value
    BY <2>5 DEF places
  <2> QED BY <2>1, <2>3, <2>6, OneVariation
<1> QED BY <1>1, OnIsNotOff

-------------------------------------------------------------------------------
(* setBooleanRollout                                                       *)

\* Two splits share the buckets between zero and all of them.
LEMMA SplitsAreValid ==
  ASSUME NEW b \in 1 .. Total - 1,
         NEW vs, IsVariations(vs), HaveBoth(vs)
  PROVE  /\ IsSplits(Splits(b, vs), Names(vs))
         /\ Len(Splits(b, vs)) = 2
         /\ Splits(b, vs)[1] = [variation |-> FirstServing(On, vs), weight |-> b]
         /\ Splits(b, vs)[2] = [variation |-> FirstServing(Off, vs), weight |-> Total - b]
<1>1. PICK s1, s2 : /\ s1 = [variation |-> FirstServing(On, vs), weight |-> b]
                    /\ s2 = [variation |-> FirstServing(Off, vs), weight |-> Total - b]
  OBVIOUS
<1>2. /\ Splits(b, vs) = <<s1, s2>> /\ Len(Splits(b, vs)) = 2
      /\ Splits(b, vs)[1] = s1 /\ Splits(b, vs)[2] = s2
      /\ DOMAIN Splits(b, vs) = 1 .. 2
      /\ Splits(b, vs) \in Seq({s1, s2})
  BY <1>1 DEF Splits
<1>3. /\ s1.variation \in Names(vs) /\ s2.variation \in Names(vs) /\ s1.variation # s2.variation
      /\ s1.weight = b /\ s2.weight = Total - b
      /\ b \in Nat \ {0} /\ Total - b \in Nat \ {0} /\ Total \in Nat
  BY <1>1, ServingNames, EvaluationAssumption
<1>4. \A i \in 1 .. 2 : i = 1 \/ i = 2
  OBVIOUS
<1>5. \A i \in DOMAIN Splits(b, vs) :
       /\ Splits(b, vs)[i].variation \in Names(vs)
       /\ Splits(b, vs)[i].weight \in Nat \ {0}
       /\ \A j \in DOMAIN Splits(b, vs) :
            Splits(b, vs)[i].variation = Splits(b, vs)[j].variation => i = j
  BY <1>2, <1>3, <1>4
<1>6. Cursors(Splits(b, vs))[2] = Total
  <2>1. 2 \in Nat /\ \A i \in 1 .. 2 : Splits(b, vs)[i].weight \in Nat \ {0}
    BY <1>2, <1>5
  <2>2. /\ Cursors(Splits(b, vs))[0] = 0
        /\ \A i \in 1 .. 2 :
             Cursors(Splits(b, vs))[i] = Cursors(Splits(b, vs))[i - 1] + Splits(b, vs)[i].weight
    BY <1>2, <2>1, CursorFacts
  <2>3. Cursors(Splits(b, vs))[1] = Cursors(Splits(b, vs))[0] + Splits(b, vs)[1].weight
    BY <2>2
  <2>4. Cursors(Splits(b, vs))[2] = Cursors(Splits(b, vs))[1] + Splits(b, vs)[2].weight
    BY <2>2
  <2> QED BY <1>2, <1>3, <2>2, <2>3, <2>4
<1>7. Splits(b, vs) \in Seq(Range(Splits(b, vs)))
  BY <1>2, OwnElements
<1>8. Splits(b, vs) # << >>
  BY <1>2
<1> QED BY <1>1, <1>2, <1>5, <1>6, <1>7, <1>8 DEF IsSplits, ValidSplits

\* What the helper's rule serves has a right shape and, for options that are
\* valid, is valid.
LEMMA RolloutRuleIsValid ==
  ASSUME NEW b \in 0 .. Total, NEW o,
         NEW vs, IsVariations(vs), HaveBoth(vs)
  PROVE  LET rule == RolloutRule(b, o, vs)
         IN  /\ rule.id = o.ruleId /\ rule.conditions = o.conditions
             /\ rule.serve = RolloutServe(b, o, vs)
             /\ DOMAIN rule.serve = {"variation"} \/ DOMAIN rule.serve = {"rollout"}
             /\ "variation" \in DOMAIN rule.serve <=> b \in {0, Total}
             /\ "variation" \in DOMAIN rule.serve =>
                  rule.serve.variation = FirstServing(IF b = 0 THEN Off ELSE On, vs)
             /\ "variation" \notin DOMAIN rule.serve =>
                  /\ rule.serve.rollout.splits = Splits(b, vs)
                  /\ rule.serve.rollout.bucketBy = o.bucketBy
                  /\ rule.serve.rollout.salt = Salt(o.ruleId)
                  /\ IsSplits(Splits(b, vs), Names(vs))
             /\ ValidAttribute(o.bucketBy) /\ ValidName(o.ruleId) =>
                  ValidServe(rule.serve, Names(vs))
<1>1. RolloutRule(b, o, vs) =
        [id |-> o.ruleId, conditions |-> o.conditions, serve |-> RolloutServe(b, o, vs)]
  BY DEF RolloutRule
<1>2. CASE b \in {0, Total}
  <2>1. RolloutServe(b, o, vs) = [variation |-> FirstServing(IF b = 0 THEN Off ELSE On, vs)]
    BY <1>2 DEF RolloutServe
  <2>2. /\ DOMAIN RolloutServe(b, o, vs) = {"variation"}
        /\ RolloutServe(b, o, vs).variation = FirstServing(IF b = 0 THEN Off ELSE On, vs)
    BY <2>1
  <2>3. FirstServing(IF b = 0 THEN Off ELSE On, vs) \in Names(vs)
    BY ServingNames
  <2> QED BY <1>1, <1>2, <2>2, <2>3 DEF ValidServe
<1>3. CASE b \notin {0, Total}
  <2>1. PICK x : x = [bucketBy |-> o.bucketBy, salt |-> Salt(o.ruleId), splits |-> Splits(b, vs)]
    OBVIOUS
  <2>2. RolloutServe(b, o, vs) = [rollout |-> x]
    BY <1>3, <2>1 DEF RolloutServe
  <2>3. DOMAIN RolloutServe(b, o, vs) = {"rollout"} /\ RolloutServe(b, o, vs).rollout = x
    BY <2>2
  <2>4. x.splits = Splits(b, vs) /\ x.bucketBy = o.bucketBy /\ x.salt = Salt(o.ruleId)
    BY <2>1
  <2>5. b \in 1 .. Total - 1
    BY <1>3, EvaluationAssumption
  <2>6. IsSplits(Splits(b, vs), Names(vs))
    BY <2>5, SplitsAreValid
  <2>7. ValidAttribute(o.bucketBy) /\ ValidName(o.ruleId) =>
          ValidServe(RolloutServe(b, o, vs), Names(vs))
    <3>1. ValidName(o.ruleId) => x.salt # ""
      BY <2>4 DEF ValidName, Salt
    <3> QED BY <2>3, <2>4, <2>6, <3>1 DEF ValidServe, IsSplits
  <2> QED BY <1>1, <1>3, <2>3, <2>4, <2>6, <2>7
<1> QED BY <1>2, <1>3

-------------------------------------------------------------------------------
(* Flags and their edits                                                   *)

Target == [variation : STRING, keys : SUBSET Values]

IsRule(r) ==
  \/ DOMAIN r.serve = {"variation"}
  \/ /\ DOMAIN r.serve = {"rollout"}
     /\ r.serve.rollout.splits \in Seq(Range(r.serve.rollout.splits))

\* A flag by its fields.
LEMMA FlagShape ==
  ASSUME NEW f, IsFlag(f)
  PROVE  /\ f.type \in STRING /\ f.enabled \in BOOLEAN
         /\ f.offVariation \in STRING /\ f.defaultVariation \in STRING
         /\ f.targets \in Seq(Target) /\ f.rules \in Seq(Range(f.rules))
         /\ Len(f.rules) \in Nat /\ DOMAIN f.rules = 1 .. Len(f.rules)
         /\ \A i \in 1 .. Len(f.rules) : f.rules[i] \in Range(f.rules)
         /\ Len(f.targets) \in Nat /\ DOMAIN f.targets = 1 .. Len(f.targets)
         /\ \A i \in 1 .. Len(f.targets) :
              f.targets[i] \in Range(f.targets) /\ f.targets[i] \in Target
         /\ \A r \in Range(f.rules) : IsRule(r)
         /\ f.variations \in Seq(Range(f.variations)) /\ IsVariations(f.variations)
<1>1. /\ f.type \in STRING /\ f.enabled \in BOOLEAN
      /\ f.offVariation \in STRING /\ f.defaultVariation \in STRING
      /\ f.targets \in Seq(Target) /\ f.rules \in Seq(Range(f.rules))
  BY DEF IsFlag, Target
<1>2. \A r \in Range(f.rules) : IsRule(r)
  BY DEF IsFlag, IsRule
<1>3. f.variations \in Seq(Range(f.variations)) /\ IsVariations(f.variations)
  BY DEF IsFlag, IsVariations
<1> QED BY <1>1, <1>2, <1>3, OwnElements

\* setEnabled changes nothing else.
LEMMA WithEnabled ==
  ASSUME NEW f, IsFlag(f), NEW enabled \in BOOLEAN
  PROVE  LET g == [f EXCEPT !.enabled = enabled]
         IN  /\ IsFlag(g)
             /\ g.type = f.type /\ g.variations = f.variations /\ g.enabled = enabled
             /\ g.offVariation = f.offVariation /\ g.defaultVariation = f.defaultVariation
             /\ g.targets = f.targets /\ g.rules = f.rules
<1> DEFINE g == [f EXCEPT !.enabled = enabled]
<1>1. g \in [type : STRING, enabled : BOOLEAN, variations : Seq(Range(f.variations)),
             offVariation : STRING, defaultVariation : STRING,
             targets : Seq([variation : STRING, keys : SUBSET Values]), rules : Seq(Range(f.rules))]
  BY DEF IsFlag
<1>2. /\ g.type = f.type /\ g.variations = f.variations /\ g.enabled = enabled
      /\ g.offVariation = f.offVariation /\ g.defaultVariation = f.defaultVariation
      /\ g.targets = f.targets /\ g.rules = f.rules
  BY DEF IsFlag
<1> HIDE DEF g
<1>3. IsFlag(g)
  BY <1>1, <1>2 DEF IsFlag
<1> QED BY <1>2, <1>3 DEF g

\* New targets change nothing else.
LEMMA WithTargets ==
  ASSUME NEW f, IsFlag(f), NEW targets \in Seq(Target)
  PROVE  LET g == [f EXCEPT !.targets = targets]
         IN  /\ IsFlag(g)
             /\ g.type = f.type /\ g.variations = f.variations /\ g.enabled = f.enabled
             /\ g.offVariation = f.offVariation /\ g.defaultVariation = f.defaultVariation
             /\ g.targets = targets /\ g.rules = f.rules
<1> DEFINE g == [f EXCEPT !.targets = targets]
<1>1. g \in [type : STRING, enabled : BOOLEAN, variations : Seq(Range(f.variations)),
             offVariation : STRING, defaultVariation : STRING,
             targets : Seq([variation : STRING, keys : SUBSET Values]), rules : Seq(Range(f.rules))]
  BY DEF IsFlag, Target
<1>2. /\ g.type = f.type /\ g.variations = f.variations /\ g.enabled = f.enabled
      /\ g.offVariation = f.offVariation /\ g.defaultVariation = f.defaultVariation
      /\ g.targets = targets /\ g.rules = f.rules
  BY DEF IsFlag
<1> HIDE DEF g
<1>3. IsFlag(g)
  BY <1>1, <1>2 DEF IsFlag
<1> QED BY <1>2, <1>3 DEF g

\* New rules change nothing else.
LEMMA WithRules ==
  ASSUME NEW f, IsFlag(f), NEW rules, rules \in Seq(Range(rules)),
         \A r \in Range(rules) : IsRule(r)
  PROVE  LET g == [f EXCEPT !.rules = rules]
         IN  /\ IsFlag(g)
             /\ g.type = f.type /\ g.variations = f.variations /\ g.enabled = f.enabled
             /\ g.offVariation = f.offVariation /\ g.defaultVariation = f.defaultVariation
             /\ g.targets = f.targets /\ g.rules = rules
<1> DEFINE g == [f EXCEPT !.rules = rules]
<1>1. g \in [type : STRING, enabled : BOOLEAN, variations : Seq(Range(f.variations)),
             offVariation : STRING, defaultVariation : STRING,
             targets : Seq([variation : STRING, keys : SUBSET Values]), rules : Seq(Range(rules))]
  BY DEF IsFlag
<1>2. /\ g.type = f.type /\ g.variations = f.variations /\ g.enabled = f.enabled
      /\ g.offVariation = f.offVariation /\ g.defaultVariation = f.defaultVariation
      /\ g.targets = f.targets /\ g.rules = rules
  BY DEF IsFlag
<1> HIDE DEF g
<1>3. IsFlag(g)
  BY <1>1, <1>2 DEF IsFlag, IsRule
<1> QED BY <1>2, <1>3 DEF g

\* The rules after setBooleanRollout: one of them is the helper's, at the
\* place the one with its id had, or at the end.
LEMMA RulesAfter ==
  ASSUME NEW f, IsFlag(f), NEW rule, IsRule(rule)
  PROVE  LET g == WithRule(f, rule)
             i == PlaceOf(rule.id, f.rules)
             n == Len(f.rules)
             place == IF i = 0 THEN n + 1 ELSE i
         IN  /\ IsFlag(g)
             /\ g.type = f.type /\ g.variations = f.variations /\ g.enabled = f.enabled
             /\ g.offVariation = f.offVariation /\ g.defaultVariation = f.defaultVariation
             /\ g.targets = f.targets
             /\ place \in 1 .. Len(g.rules)
             /\ Len(g.rules) = IF i = 0 THEN n + 1 ELSE n
             /\ g.rules[place] = rule
             /\ \A j \in 1 .. n : j # place => g.rules[j] = f.rules[j]
             /\ i # 0 => f.rules[i].id = rule.id
             /\ i = 0 => \A j \in 1 .. n : f.rules[j].id # rule.id
<1> DEFINE n == Len(f.rules)
<1>1. PICK i : i = PlaceOf(rule.id, f.rules)
  OBVIOUS
<1>2. PICK rules : rules = IF i = 0 THEN Append(f.rules, rule) ELSE ReplaceAt(f.rules, i, rule)
  OBVIOUS
<1>3. WithRule(f, rule) = [f EXCEPT !.rules = rules]
  BY <1>1, <1>2 DEF WithRule, IsFlag
<1>4. f.rules \in Seq(Range(f.rules)) /\ n \in Nat /\ \A r \in Range(f.rules) : IsRule(r)
  BY FlagShape
<1>5. /\ i \in 0 .. n
      /\ i # 0 => i \in 1 .. n /\ f.rules[i].id = rule.id
      /\ i = 0 => \A j \in 1 .. n : f.rules[j].id # rule.id
  BY <1>1, <1>4, RulePlace
<1>6. CASE i = 0
  <2>1. rules = Append(f.rules, rule)
    BY <1>2, <1>6
  <2>2. /\ rules \in Seq(Range(rules)) /\ Len(rules) = n + 1
        /\ \A j \in 1 .. n : rules[j] = f.rules[j]
        /\ rules[n + 1] = rule /\ Range(rules) = Range(f.rules) \cup {rule}
    BY <1>4, <2>1, AppendedElements
  <2>3. \A r \in Range(rules) : IsRule(r)
    BY <1>4, <2>2
  <2>4. /\ IsFlag([f EXCEPT !.rules = rules])
        /\ LET g == [f EXCEPT !.rules = rules]
           IN  /\ g.type = f.type /\ g.variations = f.variations /\ g.enabled = f.enabled
               /\ g.offVariation = f.offVariation /\ g.defaultVariation = f.defaultVariation
               /\ g.targets = f.targets /\ g.rules = rules
    BY <2>2, <2>3, WithRules
  <2>5. n + 1 \in 1 .. n + 1 /\ \A j \in 1 .. n : j # n + 1
    BY <1>4
  <2> QED BY <1>1, <1>3, <1>5, <1>6, <2>2, <2>4, <2>5
<1>7. CASE i # 0
  <2>1. rules = ReplaceAt(f.rules, i, rule) /\ i \in 1 .. n
    BY <1>2, <1>5, <1>7
  <2>2. /\ rules \in Seq(Range(rules)) /\ Len(rules) = n
        /\ \A j \in 1 .. n : j # i => rules[j] = f.rules[j]
        /\ rules[i] = rule /\ Range(rules) \subseteq Range(f.rules) \cup {rule}
    BY <1>4, <2>1, ReplacedElements
  <2>3. \A r \in Range(rules) : IsRule(r)
    BY <1>4, <2>2
  <2>4. /\ IsFlag([f EXCEPT !.rules = rules])
        /\ LET g == [f EXCEPT !.rules = rules]
           IN  /\ g.type = f.type /\ g.variations = f.variations /\ g.enabled = f.enabled
               /\ g.offVariation = f.offVariation /\ g.defaultVariation = f.defaultVariation
               /\ g.targets = f.targets /\ g.rules = rules
    BY <2>2, <2>3, WithRules
  <2> QED BY <1>1, <1>3, <1>5, <1>7, <2>1, <2>2, <2>4
<1> QED BY <1>6, <1>7

\* The same of its rule, by its fields.
LEMMA RolloutRuleIsRule ==
  ASSUME NEW b \in 0 .. Total, NEW o,
         NEW vs, IsVariations(vs), HaveBoth(vs)
  PROVE  /\ IsRule(RolloutRule(b, o, vs))
         /\ RolloutRule(b, o, vs).id = o.ruleId /\ RolloutRule(b, o, vs).conditions = o.conditions
<1>1. PICK rule : rule = RolloutRule(b, o, vs)
  OBVIOUS
<1>2. IsRule(rule) /\ rule.id = o.ruleId /\ rule.conditions = o.conditions
  BY <1>1, RolloutRuleIsValid DEF IsRule, IsSplits
<1> QED BY <1>1, <1>2

\* The same rule, part by part, for whoever holds it under a name.
LEMMA RolloutRuleParts ==
  ASSUME NEW b \in 0 .. Total, NEW o,
         NEW vs, IsVariations(vs), HaveBoth(vs),
         NEW rule, rule = RolloutRule(b, o, vs)
  PROVE  /\ rule.id = o.ruleId
         /\ "variation" \in DOMAIN rule.serve <=> b \in {0, Total}
         /\ "variation" \notin DOMAIN rule.serve =>
              /\ rule.serve.rollout.splits = Splits(b, vs)
              /\ rule.serve.rollout.bucketBy = o.bucketBy
              /\ rule.serve.rollout.salt = Salt(o.ruleId)
<1>1. rule.id = o.ruleId
  BY RolloutRuleIsValid
<1>2. "variation" \in DOMAIN rule.serve <=> b \in {0, Total}
  BY RolloutRuleIsValid
<1>3. "variation" \notin DOMAIN rule.serve =>
        /\ rule.serve.rollout.splits = Splits(b, vs)
        /\ rule.serve.rollout.bucketBy = o.bucketBy
        /\ rule.serve.rollout.salt = Salt(o.ruleId)
  BY RolloutRuleIsValid
<1> QED BY <1>1, <1>2, <1>3

\* setBooleanRollout keeps a flag valid.
LEMMA RolloutKeepsValid ==
  ASSUME NEW f, IsFlag(f), ValidRuleset(f), NEW b \in 0 .. Total, NEW o, ValidOptions(o),
         HasBooleanVariants(f)
  PROVE  ValidRuleset(WithRule(f, RolloutRule(b, o, f.variations)))
<1>1. PICK rule, g, i : /\ rule = RolloutRule(b, o, f.variations) /\ g = WithRule(f, rule)
                        /\ i = PlaceOf(rule.id, f.rules)
  OBVIOUS
<1>2. /\ rule.id = o.ruleId /\ rule.conditions = o.conditions
      /\ ValidServe(rule.serve, Names(f.variations))
      /\ IsRule(rule)
  <2>1. IsVariations(f.variations) /\ HaveBoth(f.variations)
    BY FlagShape DEF HasBooleanVariants, HaveBoth
  <2>2. ValidAttribute(o.bucketBy) /\ ValidName(o.ruleId)
    BY DEF ValidOptions
  <2> QED BY <1>1, <2>1, <2>2, RolloutRuleIsValid, RolloutRuleIsRule
<1>2b. PICK n : n = Len(f.rules)
  OBVIOUS
<1>3. PICK place : place = IF i = 0 THEN n + 1 ELSE i
  OBVIOUS
<1>4. /\ IsFlag(g)
      /\ g.type = f.type /\ g.variations = f.variations /\ g.offVariation = f.offVariation
      /\ g.defaultVariation = f.defaultVariation /\ g.targets = f.targets
      /\ place \in 1 .. Len(g.rules)
      /\ Len(g.rules) = IF i = 0 THEN n + 1 ELSE n
      /\ g.rules[place] = rule
      /\ \A j \in 1 .. n : j # place => g.rules[j] = f.rules[j]
      /\ i # 0 => f.rules[i].id = rule.id
      /\ i = 0 => \A j \in 1 .. n : f.rules[j].id # rule.id
  BY <1>1, <1>2, <1>2b, <1>3, RulesAfter
<1>5. /\ n \in Nat /\ DOMAIN f.rules = 1 .. n
      /\ DOMAIN g.rules = 1 .. Len(g.rules)
      /\ \A j \in 1 .. n : f.rules[j] \in Range(f.rules)
  BY <1>2b, <1>4, FlagShape
<1>6. \A j \in DOMAIN g.rules : j = place \/ j \in 1 .. n
  BY <1>3, <1>4, <1>5
<1>7. \A r \in Range(g.rules) : r = rule \/ r \in Range(f.rules)
  BY <1>4, <1>5, <1>6 DEF Range
<1>8. \A j, k \in DOMAIN g.rules : g.rules[j].id = g.rules[k].id => j = k
  <2>1. \A j, k \in 1 .. n : f.rules[j].id = f.rules[k].id => j = k
    BY <1>5 DEF ValidRuleset, ValidFlag
  <2>2. \A j \in 1 .. n : j # place => f.rules[j].id # rule.id
    BY <1>3, <1>4, <1>5, <2>1
  <2>3. \A j \in DOMAIN g.rules : j # place => j \in 1 .. n /\ g.rules[j] = f.rules[j]
    BY <1>4, <1>6
  <2> QED BY <1>4, <2>1, <2>2, <2>3
<1>9. ValidSegments /\ ValidVariations(g)
  BY <1>4 DEF ValidRuleset, ValidFlag, ValidVariations
<1>10. /\ {g.offVariation, g.defaultVariation} \subseteq Names(f.variations)
       /\ \A t \in Range(g.targets) :
            t.variation \in Names(f.variations) /\ t.keys # {} /\ EmptyString \notin t.keys
  BY <1>4 DEF ValidRuleset, ValidFlag
<1>11. \A r \in Range(g.rules) : /\ ValidName(r.id)
                                 /\ ValidServe(r.serve, Names(f.variations))
                                 /\ \A c \in r.conditions : ValidCondition(c, TRUE) /\ KnownSegment(c)
  <2>1. \A r \in Range(f.rules) : /\ ValidName(r.id)
                                  /\ ValidServe(r.serve, Names(f.variations))
                                  /\ \A c \in r.conditions : ValidCondition(c, TRUE) /\ KnownSegment(c)
    BY DEF ValidRuleset, ValidFlag
  <2>2. /\ ValidName(rule.id)
        /\ \A c \in rule.conditions : ValidCondition(c, TRUE) /\ KnownSegment(c)
    BY <1>2 DEF ValidOptions
  <2> QED BY <1>2, <1>7, <2>1, <2>2
<1>12. ValidFlag(g)
  BY <1>4, <1>8, <1>9, <1>10, <1>11 DEF ValidFlag
<1>13. ValidRuleset(g)
  BY <1>9, <1>11, <1>12 DEF ValidRuleset
<1> QED BY <1>1, <1>13

-------------------------------------------------------------------------------
(* setTarget                                                               *)

Rest(t, key) == [t EXCEPT !.keys = @ \ {key}]

IsLeft(h, targets, n, key) ==
  /\ h[0] = << >>
  /\ \A i \in 1 .. n : h[i] = IF targets[i].keys \subseteq {key} THEN h[i - 1]
                            ELSE Append(h[i - 1], Rest(targets[i], key))

\* That recursion has a solution.
LEMMA RestExists ==
  ASSUME NEW n \in Nat, NEW targets, \A i \in 1 .. n : targets[i] \in Target, NEW key
  PROVE  \E h \in [0 .. n -> Seq(Target)] : IsLeft(h, targets, n, key)
<1>1. \A t \in Target : Rest(t, key) \in Target
  BY DEF Target, Rest
<1>2. PICK S, e : S = Seq(Target) /\ e = << >>
  OBVIOUS
<1>3. e \in S /\ \A s \in S, t \in Target : Append(s, t) \in S
  BY <1>2, EmptySeq, AppendProperties
<1> DEFINE Step(i, s) == IF targets[i].keys \subseteq {key} THEN s
                         ELSE Append(s, Rest(targets[i], key))
<1>4. \A i \in 1 .. n, s \in S : Step(i, s) \in S
  BY <1>1, <1>3
<1> HIDE DEF Step
<1>5. PICK g : g = [i \in 1 .. n |-> [s \in S |-> Step(i, s)]]
  OBVIOUS
<1>6. g \in [1 .. n -> [S -> S]]
  BY <1>4, <1>5
<1>7. PICK h \in [0 .. n -> S] : h[0] = e /\ \A i \in 1 .. n : h[i] = g[i][h[i - 1]]
  <2>1. e \in S
    BY <1>3
  <2>2. \E h \in [0 .. n -> S] : Steps(h, e, n, g)
    BY <1>6, <2>1, RecursionExists
  <2> QED BY <2>2 DEF Steps
<1>8. \A i \in 1 .. n : h[i] = Step(i, h[i - 1])
  <2>1. \A i \in 1 .. n : i - 1 \in 0 .. n /\ h[i - 1] \in S
    BY <1>7
  <2> QED BY <1>5, <1>7, <2>1
<1> QED BY <1>2, <1>7, <1>8 DEF Step, IsLeft

\* What is left, one target after the other.
LEMMA LeftFacts ==
  ASSUME NEW targets \in Seq(Target), NEW n \in Nat, Len(targets) = n, NEW key
  PROVE  /\ Left(targets, key) \in [0 .. n -> Seq(Target)]
         /\ IsLeft(Left(targets, key), targets, n, key)
<1>1. \A i \in 1 .. n : targets[i] \in Target
  BY OwnElements
<1>2. PICK h \in [0 .. n -> Seq(Target)] : IsLeft(h, targets, n, key)
  BY <1>1, RestExists
<1> DEFINE L == Left(targets, key)
           After(f, i) == IF targets[i].keys \subseteq {key} THEN f[i - 1]
                          ELSE Append(f[i - 1], [targets[i] EXCEPT !.keys = @ \ {key}])
<1>3. h = [i \in 0 .. n |-> IF i = 0 THEN << >> ELSE After(h, i)]
  <2>1. \A i \in 1 .. n : h[i] = After(h, i)
    BY <1>2 DEF Rest, IsLeft
  <2> HIDE DEF After
  <2> QED BY <1>2, <2>1 DEF IsLeft
<1>4. L = [i \in 0 .. n |-> IF i = 0 THEN << >> ELSE After(L, i)]
  BY <1>3 DEF Left
<1> HIDE DEF L, After
<1>5. L[0] = << >> /\ \A i \in 1 .. n : L[i] = After(L, i)
  BY <1>4
<1> DEFINE T == {i \in 0 .. n : L[i] = h[i]}
<1>6. 0 .. n \subseteq T
  <2>1. 0 \in T
    BY <1>2, <1>5 DEF IsLeft
  <2>2. ASSUME NEW i \in 1 .. n, i - 1 \in T
        PROVE  i \in T
    <3>1. L[i] = After(L, i) /\ L[i - 1] = h[i - 1] /\ i \in 0 .. n
      BY <1>5, <2>2
    <3>2. h[i] = After(h, i)
      BY <1>2 DEF IsLeft, Rest, After
    <3>3. After(L, i) = After(h, i)
      BY <3>1 DEF After
    <3> QED BY <3>1, <3>2, <3>3
  <2> HIDE DEF T
  <2> QED BY <2>1, <2>2, Induction
<1>7. L = h
  BY <1>2, <1>4, <1>6
<1> QED BY <1>2, <1>7 DEF L

\* The first target with a key, by its variation, or none.

Decides(targets, n, k, v) ==
  \E p \in 1 .. n :
    /\ k \in targets[p].keys /\ targets[p].variation = v
    /\ \A q \in 1 .. n : q < p => k \notin targets[q].keys

Undecided(targets, n, k) == \A q \in 1 .. n : k \notin targets[q].keys

\* A key has a first target or none.
LEMMA DecidedOrNot ==
  ASSUME NEW targets, NEW n \in Nat, NEW k
  PROVE  Undecided(targets, n, k) \/ \E v : Decides(targets, n, k, v)
<1> DEFINE T == {q \in 1 .. n : k \in targets[q].keys}
<1>1. CASE T = {}
  BY <1>1 DEF Undecided
<1>2. CASE T # {}
  <2>1. PICK p \in T : \A q \in T : p <= q
    <3>1. T \in SUBSET Nat
      OBVIOUS
    <3> HIDE DEF T
    <3> QED BY <1>2, <3>1, LeastExists
  <2>2. Decides(targets, n, k, targets[p].variation)
    BY <2>1 DEF Decides
  <2> QED BY <2>2
<1> QED BY <1>1, <1>2

\* A target behind the others decides for a key none of them has.
LEMMA DecidesAppended ==
  ASSUME NEW s \in Seq(Target), NEW n \in Nat, Len(s) = n, NEW t, NEW k
  PROVE  /\ \A v : Decides(s, n, k, v) => Decides(Append(s, t), n + 1, k, v)
         /\ Undecided(s, n, k) /\ k \notin t.keys => Undecided(Append(s, t), n + 1, k)
         /\ Undecided(s, n, k) /\ k \in t.keys => Decides(Append(s, t), n + 1, k, t.variation)
<1>1. PICK a : a = Append(s, t)
  OBVIOUS
<1>2. /\ \A i \in 1 .. n : a[i] = s[i]
      /\ a[n + 1] = t
  BY <1>1, AppendedElements
<1>3. \A i \in 1 .. n + 1 : i \in 1 .. n \/ i = n + 1
  OBVIOUS
<1>4. ASSUME NEW v, Decides(s, n, k, v)
      PROVE  Decides(a, n + 1, k, v)
  <2>1. PICK p \in 1 .. n : /\ k \in s[p].keys /\ s[p].variation = v
                            /\ \A q \in 1 .. n : q < p => k \notin s[q].keys
    BY <1>4 DEF Decides
  <2>2. p \in 1 .. n + 1 /\ \A q \in 1 .. n + 1 : q < p => q \in 1 .. n
    OBVIOUS
  <2> QED BY <1>2, <2>1, <2>2 DEF Decides
<1>5. Undecided(s, n, k) /\ k \notin t.keys => Undecided(a, n + 1, k)
  BY <1>2, <1>3 DEF Undecided
<1>6. ASSUME Undecided(s, n, k), k \in t.keys
      PROVE  Decides(a, n + 1, k, t.variation)
  <2>1. n + 1 \in 1 .. n + 1 /\ \A q \in 1 .. n + 1 : q < n + 1 => q \in 1 .. n
    OBVIOUS
  <2> QED BY <1>2, <1>6, <2>1 DEF Decides, Undecided
<1> QED BY <1>1, <1>4, <1>5, <1>6

\* What is left has lost the key, and decides for the others as before.
IsRest(left, targets, n, key) ==
  /\ left \in Seq(Target)
  /\ Undecided(left, Len(left), key)
  /\ \A t \in Range(left) : /\ t.keys # {}
                            /\ \E j \in 1 .. n : /\ t.variation = targets[j].variation
                                                 /\ t.keys \subseteq targets[j].keys
  /\ \A k : k # key =>
       /\ Undecided(targets, n, k) => Undecided(left, Len(left), k)
       /\ \A v : Decides(targets, n, k, v) => Decides(left, Len(left), k, v)

\* That is what the recursion of Left comes to.
LEMMA LeftDecides ==
  ASSUME NEW targets \in Seq(Target), NEW n \in Nat, Len(targets) = n, NEW key
  PROVE  IsRest(Left(targets, key)[n], targets, n, key)
<1>1. PICK L \in [0 .. n -> Seq(Target)] : L = Left(targets, key) /\ IsLeft(L, targets, n, key)
  BY LeftFacts
<1>2. \A i \in 1 .. n : targets[i] \in Target
  BY OwnElements
<1>3. \A t \in Target : /\ Rest(t, key).keys = t.keys \ {key}
                        /\ Rest(t, key).variation = t.variation
  BY DEF Target, Rest
<1> DEFINE Source(t, i) == \E j \in 1 .. i : /\ t.variation = targets[j].variation
                                             /\ t.keys \subseteq targets[j].keys
           Sound(s, i) == /\ Undecided(s, Len(s), key)
                          /\ \A t \in Range(s) : t.keys # {} /\ Source(t, i)
           SameFor(s, i, k) == /\ Undecided(targets, i, k) => Undecided(s, Len(s), k)
                               /\ \A v : Decides(targets, i, k, v) => Decides(s, Len(s), k, v)
           Same(s, i) == \A k : k # key => SameFor(s, i, k)
           T == {i \in 0 .. n : Sound(L[i], i) /\ Same(L[i], i)}
<1>4. 0 \in T
  <2>1. L[0] = << >> /\ Len(L[0]) = 0 /\ Range(L[0]) = {} /\ 0 \in 0 .. n
    BY <1>1, EmptySeq DEF IsLeft, Range
  <2>2. \A s, k, v : Undecided(s, 0, k) /\ ~Decides(s, 0, k, v)
    BY DEF Undecided, Decides
  <2> HIDE DEF Source
  <2> QED BY <2>1, <2>2
<1>5. ASSUME NEW i \in 1 .. n, i - 1 \in T
      PROVE  i \in T
  <2>1. PICK s, t : s = L[i - 1] /\ t = targets[i]
    OBVIOUS
  <2>2. /\ s \in Seq(Target) /\ Len(s) \in Nat /\ t \in Target /\ i \in 0 .. n /\ i - 1 \in 0 .. n
        /\ Sound(s, i - 1) /\ Same(s, i - 1)
    <3>1. i - 1 \in 0 .. n /\ i \in 0 .. n
      OBVIOUS
    <3>2. s \in Seq(Target) /\ t \in Target
      BY <1>1, <1>2, <2>1, <3>1
    <3>3. Len(s) \in Nat
      BY <3>2, OwnElements
    <3> HIDE DEF Sound, Same
    <3> QED BY <1>5, <2>1, <3>1, <3>2, <3>3
  <2>3. \A u : Source(u, i - 1) => Source(u, i)
    <3>1. \A j \in 1 .. i - 1 : j \in 1 .. i
      OBVIOUS
    <3> QED BY <3>1
  <2>4. \A k : /\ Undecided(targets, i, k) => Undecided(targets, i - 1, k) /\ k \notin t.keys
               /\ \A v : Decides(targets, i, k, v) =>
                    \/ Decides(targets, i - 1, k, v)
                    \/ Undecided(targets, i - 1, k) /\ k \in t.keys /\ v = t.variation
    <3>1. \A q \in 1 .. i - 1 : q \in 1 .. i /\ q < i
      OBVIOUS
    <3>2. \A p \in 1 .. i : p = i \/ p \in 1 .. i - 1
      OBVIOUS
    <3>3. i \in 1 .. i
      OBVIOUS
    <3> QED BY <2>1, <3>1, <3>2, <3>3 DEF Undecided, Decides
  <2>5. CASE t.keys \subseteq {key}
    <3>1. L[i] = s
      BY <1>1, <2>1, <2>5 DEF IsLeft
    <3>2. Sound(s, i)
      <4> HIDE DEF Source
      <4> QED BY <2>2, <2>3
    <3>3. Same(s, i)
      BY <2>2, <2>4, <2>5
    <3> HIDE DEF Sound, Same
    <3> QED BY <2>2, <3>1, <3>2, <3>3
  <2>6. CASE ~(t.keys \subseteq {key})
    <3>1. PICK r : r = Rest(t, key)
      OBVIOUS
    <3>2. r.keys = t.keys \ {key} /\ r.variation = t.variation
      BY <1>3, <2>2, <3>1
    <3>3. L[i] = Append(s, r)
      BY <1>1, <2>1, <2>6, <3>1 DEF IsLeft
    <3>4. PICK a : a = Append(s, r)
      OBVIOUS
    <3>5. Len(a) = Len(s) + 1 /\ Range(a) = Range(s) \cup {r}
      BY <2>2, <3>4, AppendedElements
    <3>6. \A k : /\ \A v : Decides(s, Len(s), k, v) => Decides(a, Len(a), k, v)
                 /\ Undecided(s, Len(s), k) /\ k \notin r.keys => Undecided(a, Len(a), k)
                 /\ Undecided(s, Len(s), k) /\ k \in r.keys => Decides(a, Len(a), k, r.variation)
      <4>1. PICK m : m = Len(s)
        OBVIOUS
      <4>2. m \in Nat /\ Len(a) = m + 1
        BY <2>2, <3>5, <4>1
      <4>3. \A k : /\ \A v : Decides(s, m, k, v) => Decides(a, m + 1, k, v)
                   /\ Undecided(s, m, k) /\ k \notin r.keys => Undecided(a, m + 1, k)
                   /\ Undecided(s, m, k) /\ k \in r.keys => Decides(a, m + 1, k, r.variation)
        BY <2>2, <3>4, <4>1, <4>2, DecidesAppended
      <4> QED BY <4>1, <4>2, <4>3
    <3>7. Sound(a, i)
      <4>1. Undecided(a, Len(a), key)
        BY <2>2, <3>2, <3>6
      <4>2. Source(r, i)
        BY <2>1, <3>2, i \in 1 .. i
      <4>3. r.keys # {}
        BY <2>6, <3>2
      <4> HIDE DEF Source
      <4> QED BY <2>2, <2>3, <3>5, <4>1, <4>2, <4>3
    <3>8. ASSUME NEW k, k # key
          PROVE  SameFor(a, i, k)
      <4>1. SameFor(s, i - 1, k)
        BY <2>2, <3>8
      <4>2. k \in r.keys <=> k \in t.keys
        BY <3>2, <3>8
      <4>3. Undecided(targets, i, k) => Undecided(a, Len(a), k)
        BY <2>4, <3>6, <4>1, <4>2
      <4>4. ASSUME NEW v, Decides(targets, i, k, v)
            PROVE  Decides(a, Len(a), k, v)
        BY <2>4, <3>2, <3>6, <4>1, <4>2, <4>4
      <4> QED BY <4>3, <4>4
    <3> HIDE DEF Sound, SameFor
    <3> QED BY <2>2, <3>3, <3>4, <3>7, <3>8
  <2> QED BY <2>5, <2>6
<1>6. n \in T
  <2> HIDE DEF T
  <2>1. 0 .. n \subseteq T
    BY <1>4, <1>5, Induction
  <2> QED BY <2>1
<1>7. L[n] \in Seq(Target)
  BY <1>1
<1> QED BY <1>1, <1>6, <1>7 DEF IsRest

\* Joining decides for a key that had lost its target, and leaves the others.
LEMMA JoinedDecides ==
  ASSUME NEW targets \in Seq(Target), NEW n \in Nat, Len(targets) = n,
         NEW key \in Values, NEW v \in STRING, NEW a, a = Joined(targets, key, v)
  PROVE  /\ a \in Seq(Target)
         /\ \A t \in Range(a) :
              \/ t.variation = v /\ t.keys = {key}
              \/ \E j \in 1 .. n : /\ t.variation = targets[j].variation
                                   /\ targets[j].keys \subseteq t.keys
                                   /\ t.keys \subseteq targets[j].keys \cup {key}
         /\ Undecided(targets, n, key) => Decides(a, Len(a), key, v)
         /\ \A k : k # key =>
              /\ Undecided(targets, n, k) => Undecided(a, Len(a), k)
              /\ \A w : Decides(targets, n, k, w) => Decides(a, Len(a), k, w)
<1> DEFINE places == {j \in 1 .. n : targets[j].variation = v}
<1>1. PICK i : i = IF places # {} THEN Min(places) ELSE 0
  OBVIOUS
<1>2. Joined(targets, key, v) =
        IF i = 0 THEN Append(targets, [variation |-> v, keys |-> {key}])
                 ELSE [targets EXCEPT ![i].keys = @ \cup {key}]
  BY <1>1 DEF Joined, SelectInSeq
<1>3. i \in 0 .. n /\ (i # 0 => i \in places)
  <2>1. places \in SUBSET (1 .. n)
    OBVIOUS
  <2> HIDE DEF places
  <2> QED BY <1>1, <2>1, FirstPlace
<1>4. /\ DOMAIN targets = 1 .. n
      /\ \A j \in 1 .. n : targets[j] \in Target /\ targets[j] \in Range(targets)
  BY OwnElements
<1>6. CASE i = 0
  <2>1. PICK t : t = [variation |-> v, keys |-> {key}]
    OBVIOUS
  <2>2. t \in Target /\ t.variation = v /\ t.keys = {key}
    BY <2>1 DEF Target
  <2>3. a = Append(targets, t)
    BY <1>2, <1>6, <2>1
  <2>4. a \in Seq(Target) /\ Len(a) = n + 1 /\ Range(a) = Range(targets) \cup {t}
    BY <2>2, <2>3, AppendedElements, AppendProperties
  <2>5. \A u \in Range(targets) : \E j \in 1 .. n : u = targets[j]
    BY <1>4 DEF Range
  <2>6. \A k : /\ \A w : Decides(targets, n, k, w) => Decides(a, n + 1, k, w)
               /\ Undecided(targets, n, k) /\ k \notin t.keys => Undecided(a, n + 1, k)
               /\ Undecided(targets, n, k) /\ k \in t.keys => Decides(a, n + 1, k, t.variation)
    BY <2>3, DecidesAppended
  <2>7. \A u \in Range(a) : \/ u.variation = v /\ u.keys = {key}
                            \/ \E j \in 1 .. n : u = targets[j]
    BY <2>2, <2>4, <2>5
  <2>8. Undecided(targets, n, key) => Decides(a, n + 1, key, v)
    BY <2>2, <2>6
  <2>9. \A k : k # key =>
          /\ Undecided(targets, n, k) => Undecided(a, n + 1, k)
          /\ \A w : Decides(targets, n, k, w) => Decides(a, n + 1, k, w)
    BY <2>2, <2>6
  <2> QED BY <2>4, <2>7, <2>8, <2>9
<1>7. CASE i # 0
  <2>1. i \in 1 .. n /\ targets[i].variation = v
    BY <1>3, <1>7
  <2>2. PICK t : t = [targets[i] EXCEPT !.keys = @ \cup {key}]
    OBVIOUS
  <2>3. /\ t \in Target /\ t.variation = v /\ t.keys = targets[i].keys \cup {key}
    BY <1>4, <2>1, <2>2 DEF Target
  <2>4. a = [targets EXCEPT ![i] = t]
    BY <1>2, <1>7, <2>2
  <2>5. /\ a \in Seq(Target) /\ Len(a) = n /\ DOMAIN a = 1 .. n
        /\ a[i] = t /\ \A j \in 1 .. n : j # i => a[j] = targets[j]
    BY <1>4, <2>1, <2>3, <2>4, ExceptSeq
  <2>6. \A j \in 1 .. n : /\ a[j].variation = targets[j].variation
                          /\ \A k : k # key => (k \in a[j].keys <=> k \in targets[j].keys)
                          /\ targets[j].keys \subseteq a[j].keys
                          /\ a[j].keys \subseteq targets[j].keys \cup {key}
    BY <2>1, <2>3, <2>5
  <2>7. \A u \in Range(a) : \E j \in 1 .. n : u = a[j]
    BY <2>5 DEF Range
  <2>8. Undecided(targets, n, key) => Decides(a, n, key, v)
    <3>1. \A j \in 1 .. n : j < i => j # i
      BY <2>1
    <3>2. key \in a[i].keys /\ a[i].variation = v
      BY <2>3, <2>5
    <3> QED BY <2>1, <2>5, <3>1, <3>2 DEF Undecided, Decides
  <2>9. \A k : k # key =>
          /\ Undecided(targets, n, k) => Undecided(a, n, k)
          /\ \A w : Decides(targets, n, k, w) => Decides(a, n, k, w)
    BY <2>6 DEF Undecided, Decides
  <2> QED BY <2>5, <2>6, <2>7, <2>8, <2>9
<1> QED BY <1>6, <1>7

\* A key has moved, and no other.
KeyMoved(old, new, key, v) ==
  /\ Decides(new, Len(new), key, v)
  /\ \A k : k # key => /\ Undecided(old, Len(old), k) => Undecided(new, Len(new), k)
                       /\ \A w : Decides(old, Len(old), k, w) => Decides(new, Len(new), k, w)

\* The flag after setTarget.
LEMMA TargetsAfter ==
  ASSUME NEW f, IsFlag(f), NEW key \in Keys, NEW v \in STRING
  PROVE  LET g == WithTarget(f, key, v)
         IN  /\ IsFlag(g)
             /\ g.type = f.type /\ g.variations = f.variations /\ g.enabled = f.enabled
             /\ g.offVariation = f.offVariation /\ g.defaultVariation = f.defaultVariation
             /\ g.rules = f.rules
             /\ \A t \in Range(g.targets) :
                  \/ t.variation = v /\ t.keys = {key}
                  \/ /\ t.keys # {}
                     /\ \E j \in 1 .. Len(f.targets) :
                          /\ t.variation = f.targets[j].variation
                          /\ t.keys \subseteq f.targets[j].keys \cup {key}
             /\ KeyMoved(f.targets, g.targets, key, v)
<1>1. PICK n, targets : n = Len(f.targets) /\ targets = f.targets
  OBVIOUS
<1>2. targets \in Seq(Target) /\ n \in Nat /\ Len(targets) = n
  BY <1>1, FlagShape
<1>3. key \in Values
  BY DEF Keys, Strings
<1>4. PICK left : left = Left(targets, key)[n]
  OBVIOUS
<1>5. /\ left \in Seq(Target)
      /\ Undecided(left, Len(left), key)
      /\ \A t \in Range(left) : /\ t.keys # {}
                                /\ \E j \in 1 .. n : /\ t.variation = targets[j].variation
                                                     /\ t.keys \subseteq targets[j].keys
      /\ \A k : k # key =>
           /\ Undecided(targets, n, k) => Undecided(left, Len(left), k)
           /\ \A w : Decides(targets, n, k, w) => Decides(left, Len(left), k, w)
  <2>1. IsRest(Left(targets, key)[n], targets, n, key)
    BY <1>2, LeftDecides
  <2> QED BY <1>4, <2>1 DEF IsRest
<1>6. PICK m, a : m = Len(left) /\ a = Joined(left, key, v)
  OBVIOUS
<1>7. m \in Nat /\ \A j \in 1 .. m : left[j] \in Range(left)
  BY <1>5, <1>6, OwnElements
<1>8. /\ a \in Seq(Target)
      /\ \A t \in Range(a) :
           \/ t.variation = v /\ t.keys = {key}
           \/ \E j \in 1 .. m : /\ t.variation = left[j].variation
                                /\ left[j].keys \subseteq t.keys
                                /\ t.keys \subseteq left[j].keys \cup {key}
      /\ Undecided(left, m, key) => Decides(a, Len(a), key, v)
      /\ \A k : k # key =>
           /\ Undecided(left, m, k) => Undecided(a, Len(a), k)
           /\ \A w : Decides(left, m, k, w) => Decides(a, Len(a), k, w)
  BY <1>3, <1>5, <1>6, <1>7, JoinedDecides
<1>9. PICK g : g = WithTarget(f, key, v)
  OBVIOUS
<1>10. g = [f EXCEPT !.targets = a]
  BY <1>1, <1>4, <1>6, <1>9 DEF WithTarget, IsFlag
<1>11. /\ IsFlag(g)
       /\ g.type = f.type /\ g.variations = f.variations /\ g.enabled = f.enabled
       /\ g.offVariation = f.offVariation /\ g.defaultVariation = f.defaultVariation
       /\ g.targets = a /\ g.rules = f.rules
  BY <1>8, <1>10, WithTargets
<1>12. \A t \in Range(a) :
         \/ t.variation = v /\ t.keys = {key}
         \/ /\ t.keys # {}
            /\ \E j \in 1 .. n : /\ t.variation = targets[j].variation
                                 /\ t.keys \subseteq targets[j].keys \cup {key}
  <2> SUFFICES ASSUME NEW t \in Range(a), NEW j \in 1 .. m,
                      t.variation = left[j].variation,
                      left[j].keys \subseteq t.keys,
                      t.keys \subseteq left[j].keys \cup {key}
               PROVE  /\ t.keys # {}
                      /\ \E i \in 1 .. n : /\ t.variation = targets[i].variation
                                           /\ t.keys \subseteq targets[i].keys \cup {key}
    BY <1>8
  <2>1. /\ left[j].keys # {}
        /\ \E i \in 1 .. n : /\ left[j].variation = targets[i].variation
                             /\ left[j].keys \subseteq targets[i].keys
    BY <1>5, <1>7
  <2> QED BY <2>1
<1>13. Decides(a, Len(a), key, v)
  BY <1>5, <1>6, <1>8
<1>14. \A k : k # key =>
         /\ Undecided(targets, n, k) => Undecided(a, Len(a), k)
         /\ \A w : Decides(targets, n, k, w) => Decides(a, Len(a), k, w)
  BY <1>5, <1>6, <1>8
<1>15. KeyMoved(targets, a, key, v)
  BY <1>2, <1>13, <1>14 DEF KeyMoved
<1> QED BY <1>1, <1>9, <1>11, <1>12, <1>15

\* setTarget keeps a flag valid.
LEMMA TargetKeepsValid ==
  ASSUME NEW f, IsFlag(f), ValidRuleset(f), NEW key \in Keys, NEW v \in Names(f.variations)
  PROVE  ValidRuleset(WithTarget(f, key, v))
<1>0. v \in STRING
  BY FlagShape, OneVariation
<1>1. PICK g : g = WithTarget(f, key, v)
  OBVIOUS
<1>2. /\ IsFlag(g)
      /\ g.type = f.type /\ g.variations = f.variations /\ g.offVariation = f.offVariation
      /\ g.defaultVariation = f.defaultVariation /\ g.rules = f.rules
      /\ \A t \in Range(g.targets) :
           \/ t.variation = v /\ t.keys = {key}
           \/ /\ t.keys # {}
              /\ \E j \in 1 .. Len(f.targets) :
                   /\ t.variation = f.targets[j].variation
                   /\ t.keys \subseteq f.targets[j].keys \cup {key}
  BY <1>1, <1>0, TargetsAfter
<1>3. \A j \in 1 .. Len(f.targets) : f.targets[j] \in Range(f.targets)
  BY FlagShape
<1>4. \A t \in Range(g.targets) :
        t.variation \in Names(f.variations) /\ t.keys # {} /\ EmptyString \notin t.keys
  <2>1. \A t \in Range(f.targets) : t.variation \in Names(f.variations) /\ EmptyString \notin t.keys
    BY DEF ValidRuleset, ValidFlag
  <2>2. EmptyString # key
    BY DEF Keys
  <2> SUFFICES ASSUME NEW t \in Range(g.targets)
               PROVE  t.variation \in Names(f.variations) /\ t.keys # {} /\ EmptyString \notin t.keys
    OBVIOUS
  <2>3. CASE t.variation = v /\ t.keys = {key}
    BY <2>2, <2>3
  <2>4. CASE /\ t.keys # {}
             /\ \E j \in 1 .. Len(f.targets) :
                  /\ t.variation = f.targets[j].variation
                  /\ t.keys \subseteq f.targets[j].keys \cup {key}
    BY <1>3, <2>1, <2>2, <2>4
  <2> QED BY <1>2, <2>3, <2>4
<1>5. ValidFlag(g)
  BY <1>2, <1>4 DEF ValidRuleset, ValidFlag, ValidVariations
<1> QED BY <1>1, <1>2, <1>5 DEF ValidRuleset

-------------------------------------------------------------------------------
(* The stored flag                                                         *)

FlagInv ==
  /\ bucketFor \in Hashes
  /\ flag # None => IsFlag(flag) /\ ValidRuleset(flag)

\* It holds before anything is published,
LEMMA FlagInvInit == Init => FlagInv
BY DEF Init, FlagInv

\* and every edit keeps it.
LEMMA FlagInvStep == FlagInv /\ [Next]_vars => FlagInv'
<1> SUFFICES ASSUME FlagInv, [Next]_vars
             PROVE  FlagInv'
  OBVIOUS
<1>1. ASSUME NEW next, PutChecked(next), IsFlag(next)
      PROVE  FlagInv'
  <2>1. flag' = next /\ bucketFor' = bucketFor /\ ValidRuleset(next)
    BY <1>1 DEF PutChecked
  <2>2. IsFlag(flag') /\ ValidRuleset(flag')
    BY <1>1, <2>1
  <2> QED BY <2>1, <2>2 DEF FlagInv
<1>2. CASE \E f \in HandWritten : PublishRuleset(f)
  BY <1>1, <1>2, FlagEditsAssumption DEF PublishRuleset
<1>3. CASE \E enabled \in BOOLEAN : SetEnabled(enabled)
  BY <1>1, <1>3, WithEnabled DEF SetEnabled, FlagInv
<1>4. CASE \E basisPoints \in 0 .. Total, o \in Options : SetBooleanRollout(basisPoints, o)
  <2>1. PICK b \in 0 .. Total, o \in Options : SetBooleanRollout(b, o)
    BY <1>4
  <2>2. PICK rule : rule = RolloutRule(b, o, flag.variations)
    OBVIOUS
  <2>3. IsFlag(flag) /\ PutChecked(WithRule(flag, rule)) /\ HasBooleanVariants(flag)
    BY <2>1, <2>2 DEF SetBooleanRollout, FlagInv
  <2>4. IsRule(rule)
    BY <2>2, <2>3, FlagShape, RolloutRuleIsRule DEF HasBooleanVariants, HaveBoth
  <2>5. IsFlag(WithRule(flag, rule))
    BY <2>3, <2>4, RulesAfter
  <2> QED BY <1>1, <2>3, <2>5
<1>5. CASE \E key \in Keys : SetTarget(key)
  <2>1. PICK key \in Keys, variation \in Names(flag.variations) :
          flag # None /\ PutChecked(WithTarget(flag, key, variation))
    BY <1>5 DEF SetTarget
  <2>2. IsFlag(flag) /\ PutChecked(WithTarget(flag, key, variation))
    BY <2>1 DEF FlagInv
  <2>3. IsFlag(WithTarget(flag, key, variation))
    BY <2>1, <2>2, FlagShape, OneVariation, TargetsAfter
  <2> QED BY <1>1, <2>2, <2>3
<1>6. CASE UNCHANGED vars
  BY <1>6 DEF vars, FlagInv
<1> QED BY <1>2, <1>3, <1>4, <1>5, <1>6 DEF Next

(***************************************************************************)
(* The stored flag has the shape FlagDefinition declares and passes        *)
(* assertRuleset, whatever edits came before.                              *)
(***************************************************************************)
THEOREM FlagCorrect == Spec => []FlagInv
BY FlagInvInit, FlagInvStep, PTL DEF Spec

(***************************************************************************)
(* Each variation of a stored rollout has as many of the buckets as its    *)
(* weight, for any weights and any number of buckets.                      *)
(***************************************************************************)
THEOREM SharesCorrect == Spec => []SharesAreWeights
<1>1. FlagInv => SharesAreWeights
  <2> SUFFICES ASSUME FlagInv, flag # None,
                      NEW r \in Range(flag.rules), "rollout" \in DOMAIN r.serve,
                      NEW split \in Range(r.serve.rollout.splits)
               PROVE  Cardinality({b \in Buckets :
                        VariantAt(r.serve.rollout.splits, b) = split.variation}) = split.weight
    BY DEF SharesAreWeights
  <2>1. IsFlag(flag) /\ ValidRuleset(flag)
    BY DEF FlagInv
  <2>2. IsRule(r) /\ ValidServe(r.serve, Names(flag.variations))
    BY <2>1, FlagShape DEF ValidRuleset, ValidFlag
  <2>3. PICK splits : splits = r.serve.rollout.splits
    OBVIOUS
  <2>4. IsSplits(splits, Names(flag.variations))
    <3>1. "variation" \notin DOMAIN r.serve
      BY <2>2 DEF IsRule
    <3> QED BY <2>2, <2>3, <3>1 DEF IsRule, ValidServe, IsSplits
  <2>5. PICK k \in 1 .. Len(splits) : split = splits[k]
    BY <2>3, <2>4, SplitsFacts DEF Range
  <2>6. Cardinality({b \in Buckets : VariantAt(splits, b) = splits[k].variation}) = splits[k].weight
    BY <2>4, ShareOfSplit
  <2> QED BY <2>3, <2>5, <2>6
<1> QED BY <1>1, FlagCorrect, PTL

(***************************************************************************)
(* setTarget and, with valid options, setBooleanRollout never make of a    *)
(* valid flag one that assertRuleset refuses.                              *)
(***************************************************************************)
THEOREM HelpersCorrect == Spec => []HelpersKeepValid
<1>1. FlagInv => HelpersKeepValid
  BY TargetKeepsValid, RolloutKeepsValid DEF FlagInv, HelpersKeepValid
<1> QED BY <1>1, FlagCorrect, PTL

-------------------------------------------------------------------------------
(* Evaluation                                                              *)

\* What a valid flag may serve is of its type.
LEMMA ValidIsTyped ==
  ASSUME NEW f, IsFlag(f), ValidRuleset(f)
  PROVE  /\ f.type \in FlagTypes
         /\ \A v \in Names(f.variations) : ValueMatchesType(f.type, ValueOf(v, f.variations))
<1>1. /\ f.type \in FlagTypes
      /\ \A e \in Range(f.variations) : ValueMatchesType(f.type, e.value)
  BY DEF ValidRuleset, ValidFlag, ValidVariations
<1>2. \A v \in Names(f.variations) :
        \E e \in Range(f.variations) : ValueOf(v, f.variations) = e.value
  BY FlagShape, OneVariation
<1> QED BY <1>1, <1>2

\* No value is of two types.
LEMMA OneType ==
  ASSUME NEW value, IsValue(value), NEW type \in FlagTypes, NEW other \in FlagTypes,
         ValueMatchesType(type, value), ValueMatchesType(other, value)
  PROVE  type = other
<1>1. \E kind \in {"boolean", "string", "number", "list", "object"} :
        /\ kind \in DOMAIN value
        /\ IF type = "json" THEN kind \in {"list", "object"} ELSE kind = type
  BY DEF ValueMatchesType, IsA, FlagTypes
<1>2. \E kind \in {"boolean", "string", "number", "list", "object"} :
        /\ kind \in DOMAIN value
        /\ IF other = "json" THEN kind \in {"list", "object"} ELSE kind = other
  BY DEF ValueMatchesType, IsA, FlagTypes
<1>3. \A kind, k \in {"boolean", "string", "number", "list", "object"} :
        kind \in DOMAIN value /\ k \in DOMAIN value => kind = k
  BY DEF IsValue, IsA
<1>4. PICK kind \in {"boolean", "string", "number", "list", "object"} :
        /\ IF type = "json" THEN kind \in {"list", "object"} ELSE kind = type
        /\ IF other = "json" THEN kind \in {"list", "object"} ELSE kind = other
  BY <1>1, <1>2, <1>3
<1>5. type \notin {"list", "object"} /\ other \notin {"list", "object"}
  BY DEF FlagTypes
<1> QED BY <1>4, <1>5

\* A bucket falls to a variation that is there.
LEMMA SplitVariation ==
  ASSUME NEW splits, NEW names, IsSplits(splits, names), NEW bucket
  PROVE  VariantAt(splits, bucket) \in names
BY SplitPlace, SplitsFacts DEF IsSplits

\* What a rule of a valid flag serves.
LEMMA RuleOutcome ==
  ASSUME NEW f, IsFlag(f), NEW r, IsRule(r), ValidServe(r.serve, Names(f.variations)),
         NEW context, NEW h
  PROVE  LET result == ServeRule(f, r, context, h)
         IN  /\ result.rule = r.id
             /\ \/ result.variant \in Names(f.variations) /\ result.code = None
                \/ result.variant = None /\ result.code = "TARGETING_KEY_MISSING"
<1>1. CASE "variation" \in DOMAIN r.serve
  BY <1>1 DEF ServeRule, ValidServe, Resolved
<1>2. CASE "variation" \notin DOMAIN r.serve
  <2>1. PICK v : v = RolloutVariant(r.serve.rollout, context, h)
    OBVIOUS
  <2>2. IsSplits(r.serve.rollout.splits, Names(f.variations))
    BY <1>2 DEF IsRule, ValidServe, IsSplits
  <2>3. v = None \/ v \in Names(f.variations)
    BY <2>1, <2>2, SplitVariation DEF RolloutVariant
  <2> QED BY <1>2, <2>1, <2>3 DEF ServeRule, Resolved, Failure
<1> QED BY <1>1, <1>2

\* What a valid flag serves: always a variation, except that a rollout may
\* have no identity to go by.
LEMMA Outcome ==
  ASSUME NEW f, IsFlag(f), ValidRuleset(f), NEW context, NEW h
  PROVE  LET result == Decide(f, context, h)
         IN  \/ result.variant \in Names(f.variations) /\ result.code = None
             \/ result.variant = None /\ result.code = "TARGETING_KEY_MISSING"
<1>1. /\ f.offVariation \in Names(f.variations) /\ f.defaultVariation \in Names(f.variations)
      /\ \A t \in Range(f.targets) : t.variation \in Names(f.variations)
      /\ \A r \in Range(f.rules) : IsRule(r) /\ ValidServe(r.serve, Names(f.variations))
  BY FlagShape DEF ValidRuleset, ValidFlag
<1>2. PICK target, rule : /\ target = TargetFor(f, context["targetingKey"])
                          /\ rule = RuleFor(f, context)
  OBVIOUS
<1>3. target # 0 => f.targets[target] \in Range(f.targets)
  <2>1. /\ f.targets \in Seq(Target)
        /\ \A i \in 1 .. Len(f.targets) : f.targets[i] \in Range(f.targets)
    BY FlagShape
  <2> QED BY <1>2, <2>1, TargetPlace
<1>4. rule # 0 => f.rules[rule] \in Range(f.rules)
  <2>1. /\ f.rules \in Seq(Range(f.rules))
        /\ \A i \in 1 .. Len(f.rules) : f.rules[i] \in Range(f.rules)
    BY FlagShape
  <2> QED BY <1>2, <2>1, MatchingPlace
<1>5. Decide(f, context, h) =
        IF ~f.enabled THEN Resolved(f, f.offVariation, "DISABLED", None)
        ELSE IF target # 0 THEN Resolved(f, f.targets[target].variation, "TARGETING_MATCH", None)
        ELSE IF rule # 0 THEN ServeRule(f, f.rules[rule], context, h)
        ELSE Resolved(f, f.defaultVariation, "DEFAULT", None)
  BY <1>2 DEF Decide
<1>6. \A v \in Names(f.variations) : \A reason, id :
        LET result == Resolved(f, v, reason, id)
        IN  result.variant \in Names(f.variations) /\ result.code = None
  BY DEF Resolved
<1>7. rule # 0 => LET result == ServeRule(f, f.rules[rule], context, h)
                  IN  \/ result.variant \in Names(f.variations) /\ result.code = None
                      \/ result.variant = None /\ result.code = "TARGETING_KEY_MISSING"
  BY <1>1, <1>4, RuleOutcome
<1> QED BY <1>1, <1>3, <1>5, <1>6, <1>7

(***************************************************************************)
(* Whatever the default, the value evaluateFlag gives is of its type, and  *)
(* evaluation of a flag of that type never needs the catch clause: for     *)
(* stored flags of all four types, with any variations, rules and targets. *)
(***************************************************************************)
THEOREM EvaluationCorrect == Spec => []EvaluationNeverFails
<1>1. FlagInv => EvaluationNeverFails
  <2> SUFFICES ASSUME FlagInv, NEW context \in Contexts, NEW default \in Values
               PROVE  LET result == EvaluateFlag(flag, default, context, bucketFor)
                      IN  /\ \A type \in FlagTypes : ValueMatchesType(type, default) =>
                               ValueMatchesType(type, ValueIn(flag, result, default))
                          /\ flag # None /\ ValueMatchesType(flag.type, default) =>
                               result.code \in {None, "TARGETING_KEY_MISSING"}
    BY DEF EvaluationNeverFails
  <2>1. CASE flag = None \/ ~ValueMatchesType(flag.type, default)
    <3>1. EvaluateFlag(flag, default, context, bucketFor).variant = None
      BY <2>1 DEF EvaluateFlag, Failure
    <3> QED BY <2>1, <3>1 DEF ValueIn
  <2>2. CASE flag # None /\ ValueMatchesType(flag.type, default)
    <3>1. PICK result : result = EvaluateFlag(flag, default, context, bucketFor)
      OBVIOUS
    <3>2. IsFlag(flag) /\ ValidRuleset(flag) /\ result = Decide(flag, context, bucketFor)
      BY <2>2, <3>1 DEF FlagInv, EvaluateFlag
    <3>3. \/ result.variant \in Names(flag.variations) /\ result.code = None
          \/ result.variant = None /\ result.code = "TARGETING_KEY_MISSING"
      BY <3>2, Outcome
    <3>4. /\ flag.type \in FlagTypes
          /\ \A v \in Names(flag.variations) :
               ValueMatchesType(flag.type, ValueOf(v, flag.variations))
      BY <3>2, ValidIsTyped
    <3>5. \A type \in FlagTypes : ValueMatchesType(type, default) => type = flag.type
      <4>1. IsValue(default)
        BY FlagEditsAssumption
      <4> QED BY <2>2, <3>4, <4>1, OneType
    <3>6. ValueMatchesType(flag.type, ValueIn(flag, result, default))
      BY <2>2, <3>3, <3>4 DEF ValueIn
    <3> QED BY <3>1, <3>3, <3>5, <3>6
  <2> QED BY <2>1, <2>2
<1> QED BY <1>1, FlagCorrect, PTL

-------------------------------------------------------------------------------
(* What an edit leaves alone                                               *)

\* undefined is no flag.
NoneIsNoFlag == ~IsFlag(None)

\* A valid flag, whatever its targets and rules, is decided for a default that
\* is its off value.
LEMMA EvaluateDecides ==
  ASSUME NoneIsNoFlag, NEW f, IsFlag(f), ValidRuleset(f),
         NEW g, IsFlag(g), g.type = f.type, g.variations = f.variations,
         g.offVariation = f.offVariation, NEW context
  PROVE  Evaluate(g, context) = Decide(g, context, bucketFor)
<1>1. g # None
  BY DEF NoneIsNoFlag
<1>2. ValueMatchesType(g.type, ValueOf(g.offVariation, g.variations))
  BY ValidIsTyped DEF ValidRuleset, ValidFlag
<1> QED BY <1>1, <1>2 DEF Evaluate, EvaluateFlag

\* Who decides for a key decides what it is served.
LEMMA TargetVariation ==
  ASSUME NEW f, IsFlag(f), NEW k
  PROVE  /\ k = EmptyString => TargetFor(f, k) = 0
         /\ Undecided(f.targets, Len(f.targets), k) => TargetFor(f, k) = 0
         /\ \A v : Decides(f.targets, Len(f.targets), k, v) /\ k # EmptyString =>
              TargetFor(f, k) # 0 /\ f.targets[TargetFor(f, k)].variation = v
<1>1. PICK n, i : n = Len(f.targets) /\ i = TargetFor(f, k)
  OBVIOUS
<1>2. n \in Nat /\ f.targets \in Seq(Target)
  BY <1>1, FlagShape
<1>3. /\ i \in 0 .. n
      /\ i # 0 => /\ i \in 1 .. n /\ k # EmptyString /\ k \in f.targets[i].keys
                  /\ \A j \in 1 .. n : j < i => k \notin f.targets[j].keys
      /\ i = 0 /\ k # EmptyString => \A j \in 1 .. n : k \notin f.targets[j].keys
  BY <1>1, <1>2, TargetPlace
<1>4. ASSUME NEW v, Decides(f.targets, n, k, v), k # EmptyString
      PROVE  i # 0 /\ f.targets[i].variation = v
  <2>1. PICK p \in 1 .. n : /\ k \in f.targets[p].keys /\ f.targets[p].variation = v
                            /\ \A q \in 1 .. n : q < p => k \notin f.targets[q].keys
    BY <1>4 DEF Decides
  <2>2. i # 0
    BY <1>3, <1>4, <2>1
  <2>3. ~(p < i) /\ ~(i < p)
    BY <1>3, <2>1, <2>2
  <2>4. i = p
    BY <1>3, <2>2, <2>3
  <2> QED BY <2>1, <2>2, <2>4
<1> QED BY <1>1, <1>3, <1>4 DEF Undecided

\* Two flags with the same variations serve the same of a rule.
LEMMA ServedAlike ==
  ASSUME NEW f, NEW g, g.variations = f.variations, NEW h
  PROVE  /\ \A v, reason, id : Resolved(g, v, reason, id) = Resolved(f, v, reason, id)
         /\ \A r, context : ServeRule(g, r, context, h) = ServeRule(f, r, context, h)
BY DEF Resolved, ServeRule

(***************************************************************************)
(* setTarget decides for its key, ahead of the rules, and what every other *)
(* context is served stays, whatever targets and rules the flag has.       *)
(***************************************************************************)
THEOREM TargetCorrect ==
  ASSUME NoneIsNoFlag
  PROVE  Spec => []TargetMovesOneKey
<1>1. FlagInv => TargetMovesOneKey
  <2> SUFFICES ASSUME FlagInv, flag # None, NEW key \in Keys, NEW v \in Names(flag.variations),
                      NEW context \in Contexts
               PROVE  LET next == WithTarget(flag, key, v)
                      IN  IF context["targetingKey"] = key
                          THEN flag.enabled =>
                                 Evaluate(next, context) =
                                   Resolved(flag, v, "TARGETING_MATCH", None)
                          ELSE Evaluate(next, context) = Evaluate(flag, context)
    BY DEF TargetMovesOneKey
  <2>1. IsFlag(flag) /\ ValidRuleset(flag)
    BY DEF FlagInv
  <2>2. PICK f, g, k : f = flag /\ g = WithTarget(flag, key, v) /\ k = context["targetingKey"]
    OBVIOUS
  <2>3. /\ IsFlag(g)
        /\ g.type = f.type /\ g.variations = f.variations /\ g.enabled = f.enabled
        /\ g.offVariation = f.offVariation /\ g.defaultVariation = f.defaultVariation
        /\ g.rules = f.rules
        /\ Decides(g.targets, Len(g.targets), key, v)
        /\ \A j : j # key =>
             /\ Undecided(f.targets, Len(f.targets), j) =>
                  Undecided(g.targets, Len(g.targets), j)
             /\ \A w : Decides(f.targets, Len(f.targets), j, w) =>
                  Decides(g.targets, Len(g.targets), j, w)
    <3>1. IsFlag(f) /\ g = WithTarget(f, key, v) /\ v \in STRING
      BY <2>1, <2>2, FlagShape, OneVariation
    <3>2. /\ IsFlag(g)
          /\ g.type = f.type /\ g.variations = f.variations /\ g.enabled = f.enabled
          /\ g.offVariation = f.offVariation /\ g.defaultVariation = f.defaultVariation
          /\ g.rules = f.rules
          /\ KeyMoved(f.targets, g.targets, key, v)
      BY <3>1, TargetsAfter
    <3> QED BY <3>2 DEF KeyMoved
  <2>4. Evaluate(g, context) = Decide(g, context, bucketFor)
    BY <2>1, <2>2, <2>3, EvaluateDecides
  <2>5. Evaluate(flag, context) = Decide(f, context, bucketFor)
    <3>1. Evaluate(f, context) = Decide(f, context, bucketFor)
      BY <2>1, <2>2, EvaluateDecides
    <3> QED BY <2>2, <3>1 DEF Evaluate
  <2>6. RuleFor(g, context) = RuleFor(f, context)
    BY <2>3 DEF RuleFor
  <2>7. /\ \A w : Decides(g.targets, Len(g.targets), k, w) /\ k # EmptyString =>
             TargetFor(g, k) # 0 /\ g.targets[TargetFor(g, k)].variation = w
        /\ k = EmptyString \/ Undecided(g.targets, Len(g.targets), k) => TargetFor(g, k) = 0
    BY <2>3, TargetVariation
  <2>8. /\ \A w : Decides(f.targets, Len(f.targets), k, w) /\ k # EmptyString =>
             TargetFor(f, k) # 0 /\ f.targets[TargetFor(f, k)].variation = w
        /\ k = EmptyString \/ Undecided(f.targets, Len(f.targets), k) => TargetFor(f, k) = 0
    BY <2>1, <2>2, TargetVariation
  <2>9. CASE k = key
    <3>1. key # EmptyString
      BY DEF Keys
    <3>2. TargetFor(g, k) # 0 /\ g.targets[TargetFor(g, k)].variation = v
      BY <2>3, <2>7, <2>9, <3>1
    <3>3. g.enabled => Decide(g, context, bucketFor) = Resolved(f, v, "TARGETING_MATCH", None)
      BY <2>2, <2>3, <3>2, ServedAlike DEF Decide
    <3> QED BY <2>2, <2>3, <2>4, <2>9, <3>3
  <2>10. CASE k # key
    <3>1. \/ TargetFor(g, k) = 0 /\ TargetFor(f, k) = 0
          \/ /\ TargetFor(g, k) # 0 /\ TargetFor(f, k) # 0
             /\ g.targets[TargetFor(g, k)].variation = f.targets[TargetFor(f, k)].variation
      <4>1. Len(f.targets) \in Nat
        BY <2>1, <2>2, FlagShape
      <4>2. Undecided(f.targets, Len(f.targets), k) \/ \E w : Decides(f.targets, Len(f.targets), k, w)
        BY <4>1, DecidedOrNot
      <4> QED BY <2>3, <2>7, <2>8, <2>10, <4>2
    <3>2. Decide(g, context, bucketFor) = Decide(f, context, bucketFor)
      <4>1. PICK i, j, r : i = TargetFor(g, k) /\ j = TargetFor(f, k) /\ r = RuleFor(f, context)
        OBVIOUS
      <4>2. Decide(g, context, bucketFor) =
              IF ~f.enabled THEN Resolved(f, f.offVariation, "DISABLED", None)
              ELSE IF i # 0 THEN Resolved(f, g.targets[i].variation, "TARGETING_MATCH", None)
              ELSE IF r # 0 THEN ServeRule(f, f.rules[r], context, bucketFor)
              ELSE Resolved(f, f.defaultVariation, "DEFAULT", None)
        BY <2>2, <2>3, <2>6, <4>1, ServedAlike DEF Decide
      <4>3. Decide(f, context, bucketFor) =
              IF ~f.enabled THEN Resolved(f, f.offVariation, "DISABLED", None)
              ELSE IF j # 0 THEN Resolved(f, f.targets[j].variation, "TARGETING_MATCH", None)
              ELSE IF r # 0 THEN ServeRule(f, f.rules[r], context, bucketFor)
              ELSE Resolved(f, f.defaultVariation, "DEFAULT", None)
        BY <2>2, <4>1 DEF Decide
      <4> QED BY <3>1, <4>1, <4>2, <4>3
    <3> QED BY <2>2, <2>4, <2>5, <2>10, <3>2
  <2> QED BY <2>9, <2>10
<1> QED BY <1>1, FlagCorrect, PTL

\* The rule that decides, by what it is.
LEMMA RuleForIs ==
  ASSUME NEW f, IsFlag(f), NEW context
  PROVE  /\ \A i \in 1 .. Len(f.rules) :
              /\ MatchesAll(f.rules[i], context)
              /\ \A j \in 1 .. Len(f.rules) : j < i => ~MatchesAll(f.rules[j], context)
              => RuleFor(f, context) = i
         /\ (\A j \in 1 .. Len(f.rules) : ~MatchesAll(f.rules[j], context)) =>
              RuleFor(f, context) = 0
<1>1. PICK n, r : n = Len(f.rules) /\ r = RuleFor(f, context)
  OBVIOUS
<1>2. n \in Nat /\ f.rules \in Seq(Range(f.rules))
  BY <1>1, FlagShape
<1>3. /\ r \in 0 .. n
      /\ r # 0 => /\ r \in 1 .. n /\ MatchesAll(f.rules[r], context)
                  /\ \A j \in 1 .. n : j < r => ~MatchesAll(f.rules[j], context)
      /\ r = 0 => \A j \in 1 .. n : ~MatchesAll(f.rules[j], context)
  BY <1>1, <1>2, MatchingPlace
<1>4. ASSUME NEW i \in 1 .. n, MatchesAll(f.rules[i], context),
             \A j \in 1 .. n : j < i => ~MatchesAll(f.rules[j], context)
      PROVE  r = i
  <2>1. r # 0 /\ ~(r < i) /\ ~(i < r)
    BY <1>3, <1>4
  <2> QED BY <1>3, <2>1
<1>5. (\A j \in 1 .. n : ~MatchesAll(f.rules[j], context)) => r = 0
  BY <1>3
<1> QED BY <1>1, <1>4, <1>5

\* Which rule decides after setBooleanRollout: the one before, unless that
\* was, or is behind, the place of the helper's rule.
LEMMA RuleAfter ==
  ASSUME NEW f, IsFlag(f), NEW rule, IsRule(rule), NEW context,
         NEW g, g = WithRule(f, rule), NEW i, i = PlaceOf(rule.id, f.rules)
  PROVE  LET before == RuleFor(f, context)
             after == RuleFor(g, context)
         IN  \/ before # 0 /\ after = before /\ g.rules[after] = f.rules[before]
             \/ before = 0 /\ after = 0
             \/ i # 0 /\ before = i
             \/ /\ before = 0 \/ (i # 0 /\ before \in i + 1 .. Len(f.rules))
                /\ after # 0 /\ g.rules[after] = rule
<1>1. PICK n : n = Len(f.rules)
  OBVIOUS
<1>2. PICK place : place = IF i = 0 THEN n + 1 ELSE i
  OBVIOUS
<1>3. PICK m : m = Len(g.rules)
  OBVIOUS
<1>4. /\ IsFlag(g)
      /\ place \in 1 .. m
      /\ m = IF i = 0 THEN n + 1 ELSE n
      /\ g.rules[place] = rule
      /\ \A j \in 1 .. n : j # place => g.rules[j] = f.rules[j]
  BY <1>1, <1>2, <1>3, RulesAfter
<1>5. n \in Nat /\ f.rules \in Seq(Range(f.rules))
  BY <1>1, FlagShape
<1>6. \A j \in 1 .. m : j = place \/ j \in 1 .. n
  BY <1>2, <1>4, <1>5
<1>7. i \in 0 .. n
  BY <1>1, <1>5, RulePlace
<1>8. PICK r : r = RuleFor(f, context)
  OBVIOUS
<1>9. /\ r \in 0 .. n
      /\ r # 0 => /\ r \in 1 .. n /\ MatchesAll(f.rules[r], context)
                  /\ \A j \in 1 .. n : j < r => ~MatchesAll(f.rules[j], context)
      /\ r = 0 => \A j \in 1 .. n : ~MatchesAll(f.rules[j], context)
  BY <1>1, <1>5, <1>8, MatchingPlace
<1>10. /\ \A k \in 1 .. m :
            /\ MatchesAll(g.rules[k], context)
            /\ \A j \in 1 .. m : j < k => ~MatchesAll(g.rules[j], context)
            => RuleFor(g, context) = k
       /\ (\A j \in 1 .. m : ~MatchesAll(g.rules[j], context)) => RuleFor(g, context) = 0
  BY <1>3, <1>4, RuleForIs
<1>11. place \in Nat /\ m \in Nat
  BY <1>2, <1>4, <1>5, <1>7
<1>12. CASE r # 0 /\ r < place
  <2>1. r \in 1 .. m /\ g.rules[r] = f.rules[r]
    BY <1>2, <1>4, <1>5, <1>9, <1>12
  <2>2. \A j \in 1 .. m : j < r => j \in 1 .. n /\ j # place
    BY <1>6, <1>9, <1>12, <1>11
  <2>3. \A j \in 1 .. m : j < r => ~MatchesAll(g.rules[j], context)
    BY <1>4, <1>9, <1>12, <2>2
  <2>4. RuleFor(g, context) = r
    BY <1>9, <1>10, <1>12, <2>1, <2>3
  <2> QED BY <1>8, <1>12, <2>1, <2>4
<1>13. CASE r = place
  <2>1. i # 0 /\ r = i
    BY <1>2, <1>5, <1>9, <1>13
  <2> QED BY <1>8, <2>1
<1>14. CASE r = 0 \/ r > place
  <2>1. r = 0 \/ (i # 0 /\ r \in i + 1 .. n)
    <3>1. r \in 0 .. n
      BY <1>9
    <3>2. CASE i = 0
      BY <1>2, <1>5, <1>14, <3>1, <3>2
    <3>3. CASE i # 0
      <4>1. place = i
        BY <1>2, <3>3
      <4> QED BY <1>5, <1>7, <1>14, <3>1, <3>3, <4>1
    <3> QED BY <3>2, <3>3
  <2>2. \A j \in 1 .. m : j < place => ~MatchesAll(g.rules[j], context)
    <3>1. \A j \in 1 .. m : j < place => j \in 1 .. n /\ j # place
      BY <1>4, <1>6
    <3>2. \A j \in 1 .. n : j < place => ~MatchesAll(f.rules[j], context)
      <4>1. CASE r = 0
        BY <1>9, <4>1
      <4>2. CASE r # 0
        <5>1. r \in Nat /\ r > place
          BY <1>9, <1>14, <4>2
        <5>2. \A j \in 1 .. n : j < place => j < r
          BY <1>11, <5>1
        <5> QED BY <1>9, <4>2, <5>2
      <4> QED BY <4>1, <4>2
    <3> QED BY <1>4, <3>1, <3>2
  <2>3. CASE MatchesAll(rule, context)
    <3>1. RuleFor(g, context) = place
      BY <1>4, <1>10, <2>2, <2>3
    <3>2. place # 0
      BY <1>4
    <3> QED BY <1>1, <1>4, <1>8, <2>1, <3>1, <3>2
  <2>4. CASE ~MatchesAll(rule, context)
    <3>1. CASE r = 0
      <4>1. \A j \in 1 .. m : ~MatchesAll(g.rules[j], context)
        BY <1>4, <1>6, <1>9, <2>4, <3>1
      <4> QED BY <1>8, <1>10, <3>1, <4>1
    <3>2. CASE r # 0
      <4>1. r \in 1 .. m /\ r # place /\ g.rules[r] = f.rules[r]
        BY <1>4, <1>5, <1>7, <1>9, <1>14, <2>1, <3>2
      <4>2. \A j \in 1 .. m : j < r => ~MatchesAll(g.rules[j], context)
        BY <1>4, <1>6, <1>9, <2>4, <3>2
      <4>3. RuleFor(g, context) = r
        BY <1>9, <1>10, <3>2, <4>1, <4>2
      <4> QED BY <1>8, <3>2, <4>1, <4>3
    <3> QED BY <3>1, <3>2
  <2> QED BY <2>3, <2>4
<1>15. (r # 0 /\ r < place) \/ r = place \/ r = 0 \/ r > place
  BY <1>2, <1>5, <1>7, <1>9
<1> QED BY <1>12, <1>13, <1>14, <1>15

\* What does not look at the rules stays.
LEMMA DecideAfter ==
  ASSUME NEW f, NEW g, NEW context, NEW h,
         g.variations = f.variations, g.enabled = f.enabled, g.offVariation = f.offVariation,
         g.defaultVariation = f.defaultVariation, g.targets = f.targets
  PROVE  \/ Decide(g, context, h) = Decide(f, context, h)
         \/ /\ Decide(f, context, h) =
                 IF RuleFor(f, context) # 0
                 THEN ServeRule(f, f.rules[RuleFor(f, context)], context, h)
                 ELSE Resolved(f, f.defaultVariation, "DEFAULT", None)
            /\ Decide(g, context, h) =
                 IF RuleFor(g, context) # 0
                 THEN ServeRule(f, g.rules[RuleFor(g, context)], context, h)
                 ELSE Resolved(f, f.defaultVariation, "DEFAULT", None)
<1>1. PICK r, s, i : /\ r = RuleFor(f, context) /\ s = RuleFor(g, context)
                     /\ i = TargetFor(f, context["targetingKey"])
  OBVIOUS
<1>2. TargetFor(g, context["targetingKey"]) = i
  BY <1>1 DEF TargetFor
<1>3. Decide(f, context, h) =
        IF ~f.enabled THEN Resolved(f, f.offVariation, "DISABLED", None)
        ELSE IF i # 0 THEN Resolved(f, f.targets[i].variation, "TARGETING_MATCH", None)
        ELSE IF r # 0 THEN ServeRule(f, f.rules[r], context, h)
        ELSE Resolved(f, f.defaultVariation, "DEFAULT", None)
  BY <1>1 DEF Decide
<1>4. Decide(g, context, h) =
        IF ~f.enabled THEN Resolved(f, f.offVariation, "DISABLED", None)
        ELSE IF i # 0 THEN Resolved(f, f.targets[i].variation, "TARGETING_MATCH", None)
        ELSE IF s # 0 THEN ServeRule(f, g.rules[s], context, h)
        ELSE Resolved(f, f.defaultVariation, "DEFAULT", None)
  BY <1>1, <1>2, ServedAlike DEF Decide
<1> QED BY <1>1, <1>3, <1>4

(***************************************************************************)
(* setBooleanRollout changes what its own rule decides, and beyond that    *)
(* only takes over from the default and the rules behind its place.        *)
(***************************************************************************)
THEOREM RolloutCorrect ==
  ASSUME NoneIsNoFlag
  PROVE  Spec => []RolloutTouchesItsRule
<1>1. FlagInv => RolloutTouchesItsRule
  <2> SUFFICES ASSUME FlagInv, flag # None, HasBooleanVariants(flag),
                      NEW o \in Options, NEW q \in 0 .. Total,
                      NEW context \in Contexts
               PROVE  LET before == Evaluate(flag, context)
                          next == WithRule(flag, RolloutRule(q, o, flag.variations))
                          after == Evaluate(next, context)
                      IN  \/ after = before
                          \/ before.rule = o.ruleId
                          \/ /\ after.rule = o.ruleId
                             /\ before.reason = "DEFAULT" \/ before.rule \in Later(o.ruleId)
    BY DEF RolloutTouchesItsRule
  <2>1. PICK f, vs, rule : f = flag /\ vs = flag.variations /\ rule = RolloutRule(q, o, vs)
    OBVIOUS
  <2>2. PICK g, i : g = WithRule(f, rule) /\ i = PlaceOf(rule.id, f.rules)
    OBVIOUS
  <2>3. IsFlag(f) /\ ValidRuleset(f)
    BY <2>1 DEF FlagInv
  <2>4. /\ IsVariations(vs) /\ HaveBoth(vs)
        /\ rule.id = o.ruleId /\ IsRule(rule)
    <3>1. IsVariations(vs) /\ HaveBoth(vs)
      BY <2>1, <2>3, FlagShape DEF HasBooleanVariants, HaveBoth
    <3> QED BY <2>1, <3>1, RolloutRuleIsRule
  <2>5. /\ IsFlag(g)
        /\ g.type = f.type /\ g.variations = f.variations /\ g.enabled = f.enabled
        /\ g.offVariation = f.offVariation /\ g.defaultVariation = f.defaultVariation
        /\ g.targets = f.targets
        /\ i # 0 => f.rules[i].id = rule.id
    BY <2>2, <2>3, <2>4, RulesAfter
  <2>6. PICK b, a : b = Decide(f, context, bucketFor) /\ a = Decide(g, context, bucketFor)
    OBVIOUS
  <2>7. /\ Evaluate(flag, context) = b
        /\ Evaluate(WithRule(flag, RolloutRule(q, o, flag.variations)), context) = a
    <3>1. Evaluate(f, context) = b /\ Evaluate(g, context) = a
      BY <2>3, <2>5, <2>6, EvaluateDecides
    <3> QED BY <2>1, <2>2, <3>1 DEF Evaluate
  <2>8. PICK r, s : r = RuleFor(f, context) /\ s = RuleFor(g, context)
    OBVIOUS
  <2>9. \/ a = b
        \/ /\ b = IF r # 0 THEN ServeRule(f, f.rules[r], context, bucketFor)
                  ELSE Resolved(f, f.defaultVariation, "DEFAULT", None)
           /\ a = IF s # 0 THEN ServeRule(f, g.rules[s], context, bucketFor)
                  ELSE Resolved(f, f.defaultVariation, "DEFAULT", None)
    BY <2>5, <2>6, <2>8, DecideAfter
  <2>10. \/ r # 0 /\ s = r /\ g.rules[s] = f.rules[r]
         \/ r = 0 /\ s = 0
         \/ i # 0 /\ r = i
         \/ /\ r = 0 \/ (i # 0 /\ r \in i + 1 .. Len(f.rules))
            /\ s # 0 /\ g.rules[s] = rule
    BY <2>2, <2>3, <2>4, <2>8, RuleAfter
  <2>11. r # 0 => /\ r \in 1 .. Len(f.rules)
                  /\ IsRule(f.rules[r]) /\ ValidServe(f.rules[r].serve, Names(f.variations))
    <3>1. /\ f.rules \in Seq(Range(f.rules))
          /\ \A j \in 1 .. Len(f.rules) : f.rules[j] \in Range(f.rules)
          /\ \A x \in Range(f.rules) : IsRule(x) /\ ValidServe(x.serve, Names(f.variations))
      BY <2>3, FlagShape DEF ValidRuleset, ValidFlag
    <3>2. r # 0 => r \in 1 .. Len(f.rules)
      BY <2>8, <3>1, MatchingPlace
    <3> QED BY <3>1, <3>2
  <2>12. r # 0 => ServeRule(f, f.rules[r], context, bucketFor).rule = f.rules[r].id
    BY <2>3, <2>11, RuleOutcome
  <2>13. ServeRule(f, rule, context, bucketFor).rule = o.ruleId
    <3>1. CASE "variation" \in DOMAIN rule.serve
      <4>1. rule.serve.variation \in Names(f.variations)
        BY <2>1, <2>4, <3>1, RolloutRuleIsValid, ServingNames
      <4> QED BY <2>4, <3>1, <4>1 DEF ServeRule, Resolved
    <3>2. CASE "variation" \notin DOMAIN rule.serve
      <4>1. IsSplits(rule.serve.rollout.splits, Names(f.variations))
        BY <2>1, <2>4, <3>2, RolloutRuleIsValid
      <4>2. PICK v : v = RolloutVariant(rule.serve.rollout, context, bucketFor)
        OBVIOUS
      <4>3. v = None \/ v \in Names(f.variations)
        BY <4>1, <4>2, SplitVariation DEF RolloutVariant
      <4> QED BY <2>4, <3>2, <4>2, <4>3 DEF ServeRule, Resolved, Failure
    <3> QED BY <3>1, <3>2
  <2>14. Resolved(f, f.defaultVariation, "DEFAULT", None).reason = "DEFAULT"
    BY <2>3 DEF Resolved, ValidRuleset, ValidFlag
  <2>15. i # 0 /\ r \in i + 1 .. Len(f.rules) => f.rules[r].id \in Later(o.ruleId)
    BY <2>1, <2>2, <2>4 DEF Later
  <2>16. i # 0 /\ r \in i + 1 .. Len(f.rules) => r # 0
    BY <2>2, <2>3, FlagShape, RulePlace
  <2>17. CASE a = b
    BY <2>7, <2>17
  <2>18. CASE i # 0 /\ r = i
    BY <2>4, <2>5, <2>7, <2>9, <2>12, <2>18
  <2>19. CASE /\ r = 0 \/ (i # 0 /\ r \in i + 1 .. Len(f.rules))
              /\ s # 0 /\ g.rules[s] = rule
    BY <2>7, <2>9, <2>12, <2>13, <2>14, <2>15, <2>16, <2>19
  <2> QED BY <2>9, <2>10, <2>17, <2>18, <2>19
<1> QED BY <1>1, FlagCorrect, PTL

-------------------------------------------------------------------------------
(* Growing a rollout                                                       *)

\* The buckets below the percentage are on, the others off.
LEMMA TwoSplits ==
  ASSUME NEW p \in 1 .. Total - 1, NEW b \in Buckets,
         NEW vs, IsVariations(vs), HaveBoth(vs)
  PROVE  VariantAt(Splits(p, vs), b) =
           IF b < p THEN FirstServing(On, vs) ELSE FirstServing(Off, vs)
<1>1. PICK s : s = Splits(p, vs)
  OBVIOUS
<1>2. /\ IsSplits(s, Names(vs)) /\ Len(s) = 2
      /\ s[1] = [variation |-> FirstServing(On, vs), weight |-> p]
      /\ s[2] = [variation |-> FirstServing(Off, vs), weight |-> Total - p]
  BY <1>1, SplitsAreValid
<1>3. /\ s \in Seq(Range(s)) /\ s # << >> /\ Cursors(s)[2] = Total
      /\ 2 \in Nat /\ \A i \in 1 .. 2 : s[i].weight \in Nat \ {0}
  BY <1>2, SplitsFacts DEF IsSplits
<1>4. Cursors(s)[1] = p
  <2>1. Cursors(s)[0] = 0 /\ \A i \in 1 .. 2 : Cursors(s)[i] = Cursors(s)[i - 1] + s[i].weight
    BY <1>2, <1>3, CursorFacts
  <2>2. Cursors(s)[1] = Cursors(s)[0] + s[1].weight
    BY <2>1
  <2>3. s[1].weight = p
    BY <1>2
  <2> QED BY <2>1, <2>2, <2>3
<1>5. PICK i : i = SplitAt(s, b)
  OBVIOUS
<1>6. b \in Nat /\ p \in Nat /\ b < Total /\ Total \in Nat
  BY EvaluationAssumption DEF Buckets
<1>7. /\ i \in 1 .. 2
      /\ VariantAt(s, b) = s[i].variation
      /\ b < Cursors(s)[i]
      /\ \A j \in 1 .. 2 : j < i => ~(b < Cursors(s)[j])
  BY <1>2, <1>3, <1>5, <1>6, SplitPlace
<1>8. i = 1 \/ i = 2
  BY <1>7
<1>9. CASE i = 1
  BY <1>1, <1>2, <1>4, <1>7, <1>9
<1>10. CASE i = 2
  <2>1. ~(b < p)
    BY <1>4, <1>7, <1>10
  <2> QED BY <1>1, <1>2, <1>7, <1>10, <2>1
<1> QED BY <1>8, <1>9, <1>10

\* On, as IsOn has it of a result.
Gets(f, result) == result.variant # None /\ ValueOf(result.variant, f.variations) = On

\* Who gets the feature from the rule gets it at a larger percentage.
LEMMA GrowingRule ==
  ASSUME NEW f, IsFlag(f), HaveBoth(f.variations),
         NEW o \in Options, NEW p \in 0 .. Total, NEW q \in p .. Total,
         NEW context, NEW h \in Hashes,
         Gets(f, ServeRule(f, RolloutRule(p, o, f.variations), context, h))
  PROVE  Gets(f, ServeRule(f, RolloutRule(q, o, f.variations), context, h))
<1>1. Total \in Nat \ {0} /\ p \in Nat /\ q \in 0 .. Total
  BY EvaluationAssumption
<1>2. PICK on, off : on = FirstServing(On, f.variations) /\ off = FirstServing(Off, f.variations)
  OBVIOUS
<1>3. /\ on \in Names(f.variations) /\ off \in Names(f.variations)
      /\ on # off /\ on # None /\ off # None
      /\ ValueOf(on, f.variations) = On /\ ValueOf(off, f.variations) # On
  BY <1>2, FlagShape, OneVariation, ServingNames, OnIsNotOff
<1>4. \A reason, id : /\ Gets(f, Resolved(f, on, reason, id))
                      /\ ~Gets(f, Resolved(f, off, reason, id))
  BY <1>3 DEF Gets, Resolved
<1>4b. PICK value, bucket : /\ value = context[o.bucketBy]
                             /\ bucket = h[value, Salt(o.ruleId)]
  OBVIOUS
<1>5. value \in Identities => bucket \in Buckets
  <2>1. PICK v, salt : v = value /\ salt = Salt(o.ruleId)
    OBVIOUS
  <2>2. salt \in Salts
    BY <2>1 DEF Salts
  <2>3. h \in [Identities \X Salts -> Buckets]
    BY FlagEditsAssumption
  <2>4. v \in Identities => h[<<v, salt>>] \in Buckets
    BY <2>2, <2>3
  <2> QED BY <1>4b, <2>1, <2>4
<1>6. ASSUME NEW b \in 1 .. Total - 1
      PROVE  Gets(f, ServeRule(f, RolloutRule(b, o, f.variations), context, h)) <=>
               value \in Identities /\ bucket < b
  <2>1. PICK rule : rule = RolloutRule(b, o, f.variations)
    OBVIOUS
  <2>2. b \in 0 .. Total /\ b \notin {0, Total}
    BY <1>1
  <2>3. /\ "variation" \notin DOMAIN rule.serve /\ rule.id = o.ruleId
        /\ rule.serve.rollout.splits = Splits(b, f.variations)
        /\ rule.serve.rollout.bucketBy = o.bucketBy
        /\ rule.serve.rollout.salt = Salt(o.ruleId)
    <3>1. "variation" \notin DOMAIN rule.serve
      BY <2>1, <2>2, FlagShape, RolloutRuleParts
    <3> QED BY <2>1, <2>2, <3>1, FlagShape, RolloutRuleParts
  <2>4. PICK v : v = IF value \in Identities THEN VariantAt(Splits(b, f.variations), bucket) ELSE None
    OBVIOUS
  <2>5. ServeRule(f, rule, context, h) =
          IF v = None THEN Failure("TARGETING_KEY_MISSING", o.ruleId)
                      ELSE Resolved(f, v, "SPLIT", o.ruleId)
    BY <1>4b, <2>3, <2>4 DEF ServeRule, RolloutVariant
  <2>6. CASE value \notin Identities
    <3>1. v = None
      BY <2>4, <2>6
    <3>2. ServeRule(f, rule, context, h).variant = None
      BY <2>5, <3>1 DEF Failure
    <3> QED BY <2>1, <2>6, <3>2 DEF Gets
  <2>7. CASE value \in Identities
    <3>1. bucket \in Buckets
      BY <1>5, <2>7
    <3>2. v = IF bucket < b THEN on ELSE off
      BY <1>2, <2>4, <2>7, <3>1, FlagShape, TwoSplits
    <3> QED BY <1>3, <1>4, <2>1, <2>5, <2>7, <3>2
  <2> QED BY <2>6, <2>7
<1>7. ASSUME NEW b \in {0, Total}
      PROVE  Gets(f, ServeRule(f, RolloutRule(b, o, f.variations), context, h)) <=> b = Total
  <2>1. PICK rule : rule = RolloutRule(b, o, f.variations)
    OBVIOUS
  <2>2. b \in 0 .. Total
    BY <1>1
  <2>3. /\ "variation" \in DOMAIN rule.serve
        /\ rule.serve.variation = FirstServing(IF b = 0 THEN Off ELSE On, f.variations)
    BY <2>1, <2>2, FlagShape, RolloutRuleIsValid
  <2>4. ServeRule(f, rule, context, h) =
          Resolved(f, IF b = 0 THEN off ELSE on, "TARGETING_MATCH", rule.id)
    BY <1>2, <2>3 DEF ServeRule
  <2> QED BY <1>1, <1>4, <2>1, <2>4
<1>8. p # 0
  BY <1>1, <1>7
<1>9. CASE q = Total
  BY <1>7, <1>9
<1>10. CASE q # Total
  <2>1. p \in 1 .. Total - 1 /\ q \in 1 .. Total - 1
    BY <1>1, <1>8, <1>10
  <2>2. value \in Identities /\ bucket < p
    BY <1>6, <2>1
  <2>3. bucket \in Buckets
    BY <1>5, <2>2
  <2>4. bucket < q
    BY <1>1, <2>1, <2>2, <2>3 DEF Buckets
  <2> QED BY <1>6, <2>1, <2>2, <2>4
<1> QED BY <1>9, <1>10

(***************************************************************************)
(* A larger percentage of the same rollout takes the feature from nobody,  *)
(* whatever the hash, the other rules and the targets are.                 *)
(***************************************************************************)
THEOREM CohortCorrect ==
  ASSUME NoneIsNoFlag
  PROVE  Spec => []GrowingKeepsTheCohort
<1>1. FlagInv => GrowingKeepsTheCohort
  <2> SUFFICES ASSUME FlagInv, flag # None, HasBooleanVariants(flag),
                      NEW o \in Options, NEW p \in 0 .. Total,
                      RolloutRule(p, o, flag.variations) \in Range(flag.rules),
                      NEW q \in p .. Total, NEW context \in Contexts, IsOn(flag, context)
               PROVE  IsOn(WithRule(flag, RolloutRule(q, o, flag.variations)), context)
    BY DEF GrowingKeepsTheCohort
  <2>1. PICK f, vs, old, rule : /\ f = flag /\ vs = flag.variations
                                /\ old = RolloutRule(p, o, vs) /\ rule = RolloutRule(q, o, vs)
    OBVIOUS
  <2>2. PICK g, i : g = WithRule(f, rule) /\ i = PlaceOf(rule.id, f.rules)
    OBVIOUS
  <2>3. IsFlag(f) /\ ValidRuleset(f) /\ bucketFor \in Hashes
    BY <2>1 DEF FlagInv
  <2>4. p \in 0 .. Total /\ q \in 0 .. Total
    BY EvaluationAssumption
  <2>5. /\ rule.id = o.ruleId /\ rule.conditions = o.conditions /\ IsRule(rule)
        /\ old.id = o.ruleId /\ old.conditions = o.conditions
        /\ IsVariations(vs) /\ HaveBoth(vs)
    <3>1. IsVariations(vs) /\ HaveBoth(vs)
      BY <2>1, <2>3, FlagShape DEF HasBooleanVariants, HaveBoth
    <3> QED BY <2>1, <2>4, <3>1, RolloutRuleIsRule
  <2>6. PICK n : n = Len(f.rules)
    OBVIOUS
  <2>7. PICK k \in 1 .. n : f.rules[k] = old
    BY <2>1, <2>3, <2>6, FlagShape DEF Range
  <2>8. i = k
    <3>1. f.rules \in Seq(Range(f.rules)) /\ DOMAIN f.rules = 1 .. n
      BY <2>3, <2>6, FlagShape
    <3>2. i # 0 /\ i \in 1 .. n /\ f.rules[i].id = rule.id
      BY <2>2, <2>5, <2>6, <2>7, <3>1, RulePlace
    <3> QED BY <2>3, <2>5, <2>7, <3>1, <3>2 DEF ValidRuleset, ValidFlag
  <2>9. k \in Nat \ {0} /\ n \in Nat
    BY <2>3, <2>6, <2>7, FlagShape
  <2>10. /\ IsFlag(g)
         /\ g.type = f.type /\ g.variations = f.variations /\ g.enabled = f.enabled
         /\ g.offVariation = f.offVariation /\ g.defaultVariation = f.defaultVariation
         /\ g.targets = f.targets
         /\ Len(g.rules) = n /\ g.rules[k] = rule
         /\ \A j \in 1 .. n : j # k => g.rules[j] = f.rules[j]
    <3>1. PICK place : place = IF i = 0 THEN n + 1 ELSE i
      OBVIOUS
    <3>2. /\ IsFlag(g)
          /\ g.type = f.type /\ g.variations = f.variations /\ g.enabled = f.enabled
          /\ g.offVariation = f.offVariation /\ g.defaultVariation = f.defaultVariation
          /\ g.targets = f.targets
          /\ Len(g.rules) = IF i = 0 THEN n + 1 ELSE n
          /\ g.rules[place] = rule
          /\ \A j \in 1 .. n : j # place => g.rules[j] = f.rules[j]
      BY <2>2, <2>3, <2>5, <2>6, <3>1, RulesAfter
    <3>3. i # 0 /\ place = k
      BY <2>8, <2>9, <3>1
    <3> QED BY <3>2, <3>3
  <2>11. \A j \in 1 .. n : MatchesAll(g.rules[j], context) <=> MatchesAll(f.rules[j], context)
    BY <2>5, <2>7, <2>10 DEF MatchesAll
  <2>12. PICK r : r = RuleFor(f, context)
    OBVIOUS
  <2>13. r # 0 => r \in 1 .. n
    BY <2>3, <2>6, <2>12, FlagShape, MatchingPlace
  <2>14. RuleFor(g, context) = r
    <3>1. /\ r \in 0 .. n
          /\ r # 0 => /\ r \in 1 .. n /\ MatchesAll(f.rules[r], context)
                      /\ \A j \in 1 .. n : j < r => ~MatchesAll(f.rules[j], context)
          /\ r = 0 => \A j \in 1 .. n : ~MatchesAll(f.rules[j], context)
      BY <2>3, <2>6, <2>12, FlagShape, MatchingPlace
    <3>2. /\ \A l \in 1 .. n :
                /\ MatchesAll(g.rules[l], context)
                /\ \A j \in 1 .. n : j < l => ~MatchesAll(g.rules[j], context)
                => RuleFor(g, context) = l
          /\ (\A j \in 1 .. n : ~MatchesAll(g.rules[j], context)) => RuleFor(g, context) = 0
      BY <2>10, RuleForIs
    <3>3. CASE r = 0
      BY <2>11, <3>1, <3>2, <3>3
    <3>4. CASE r # 0
      BY <2>11, <3>1, <3>2, <3>4
    <3> QED BY <3>3, <3>4
  <2>15. PICK b, a : b = Decide(f, context, bucketFor) /\ a = Decide(g, context, bucketFor)
    OBVIOUS
  <2>16. /\ Evaluate(flag, context) = b
         /\ Evaluate(WithRule(flag, RolloutRule(q, o, flag.variations)), context) = a
    <3>1. Evaluate(f, context) = b /\ Evaluate(g, context) = a
      BY <2>3, <2>10, <2>15, EvaluateDecides
    <3> QED BY <2>1, <2>2, <3>1 DEF Evaluate
  <2>17. \/ a = b
         \/ /\ b = IF r # 0 THEN ServeRule(f, f.rules[r], context, bucketFor)
                   ELSE Resolved(f, f.defaultVariation, "DEFAULT", None)
            /\ a = IF r # 0 THEN ServeRule(f, g.rules[r], context, bucketFor)
                   ELSE Resolved(f, f.defaultVariation, "DEFAULT", None)
    BY <2>10, <2>12, <2>14, <2>15, DecideAfter
  <2>18. CASE a = b
    BY <2>1, <2>2, <2>10, <2>16, <2>18 DEF IsOn
  <2>19. CASE a # b
    <3>1. r = k
      BY <2>10, <2>13, <2>17, <2>19
    <3>2. /\ b = ServeRule(f, RolloutRule(p, o, vs), context, bucketFor)
          /\ a = ServeRule(f, RolloutRule(q, o, vs), context, bucketFor)
      BY <2>1, <2>7, <2>9, <2>10, <2>17, <2>19, <3>1
    <3>3. Gets(f, b)
      BY <2>1, <2>16 DEF IsOn, Gets
    <3>4. Gets(f, a)
      BY <2>1, <2>3, <2>5, <3>2, <3>3, GrowingRule
    <3> QED BY <2>1, <2>2, <2>10, <2>16, <3>4 DEF IsOn, Gets
  <2> QED BY <2>18, <2>19
<1> QED BY <1>1, FlagCorrect, PTL

-------------------------------------------------------------------------------
(* Operators                                                               *)

\* A part of a text is no longer than it, and shorter unless it is the whole.
LEMMA PartOfText ==
  ASSUME NEW S, NEW s \in Seq(S), NEW t \in SubSeqs(s)
  PROVE  Len(t) \in Nat /\ Len(t) <= Len(s) /\ (Len(t) = Len(s) => t = s)
<1>1. PICK i, j \in 0 .. Len(s) : t = SubSeq(s, i + 1, j)
  BY DEF SubSeqs
<1>2. Len(s) \in Nat /\ \A k \in 1 .. Len(s) : s[k] \in S
  BY OwnElements
<1>3. PICK a, n : a = i + 1 /\ n = Len(s)
  OBVIOUS
<1>4. a \in Int /\ j \in Int /\ \A k \in a .. j : s[k] \in S
  BY <1>2, <1>3
<1>5. Len(t) = IF a <= j THEN j - a + 1 ELSE 0
  BY <1>1, <1>3, <1>4, SubSeqProperties
<1>6. Len(t) \in Nat /\ Len(t) <= n
  BY <1>2, <1>3, <1>5
<1>7. ASSUME Len(t) = n
      PROVE  t = s
  <2>1. CASE n = 0
    <3>1. s = << >>
      BY <1>3, <2>1, EmptySeq
    <3>2. j < a
      BY <1>2, <1>3, <2>1
    <3>3. t = << >>
      BY <1>1, <1>3, <1>4, <3>2, SubSeqEmpty
    <3> QED BY <3>1, <3>3
  <2>2. CASE n # 0
    <3>1. a = 1 /\ j = n
      BY <1>2, <1>3, <1>5, <1>7, <2>2
    <3> QED BY <1>1, <1>3, <3>1, SubSeqFull
  <2> QED BY <2>1, <2>2
<1> QED BY <1>3, <1>6, <1>7

\* The beginning of a text is a part of it.
LEMMA PrefixIsPart ==
  ASSUME NEW S, NEW s \in Seq(S), NEW t \in Seq(S), IsPrefix(s, t)
  PROVE  s \in SubSeqs(t)
<1>1. PICK n, m : n = Len(s) /\ m = Len(t)
  OBVIOUS
<1>2. n \in 0 .. m /\ 0 \in 0 .. m
  BY <1>1, OwnElements DEF IsPrefix
<1>3. SubSeq(s, 1, n) = s
  BY <1>1, SubSeqFull
<1>4. s = SubSeq(t, 0 + 1, n)
  BY <1>1, <1>3 DEF IsPrefix
<1> QED BY <1>1, <1>2, <1>4 DEF SubSeqs

\* The end, whose letters are compared in reverse.
LEMMA SuffixIsPart ==
  ASSUME NEW S, NEW s \in Seq(S), NEW t \in Seq(S), IsSuffix(s, t)
  PROVE  s \in SubSeqs(t)
<1>1. PICK n, m : n = Len(s) /\ m = Len(t)
  OBVIOUS
<1>2. /\ n \in Nat /\ m \in Nat /\ s \in [1 .. n -> S] /\ t \in [1 .. m -> S]
      /\ \A k \in 1 .. n : s[k] \in S
      /\ \A k \in 1 .. m : t[k] \in S
  BY <1>1, LenProperties
<1>3. PICK a, b : a = Reverse(s) /\ b = Reverse(t)
  OBVIOUS
<1>4. /\ a \in Seq(S) /\ Len(a) = n /\ \A k \in 1 .. n : a[k] = s[(n - k) + 1]
      /\ b \in Seq(S) /\ Len(b) = m /\ \A k \in 1 .. m : b[k] = t[(m - k) + 1]
  <2>1. \A k \in 1 .. n : (n - k) + 1 \in 1 .. n
    BY <1>2
  <2>2. \A k \in 1 .. m : (m - k) + 1 \in 1 .. m
    BY <1>2
  <2>3. a \in [1 .. n -> S] /\ \A k \in 1 .. n : a[k] = s[(n - k) + 1]
    BY <1>1, <1>2, <1>3, <2>1 DEF Reverse
  <2>4. b \in [1 .. m -> S] /\ \A k \in 1 .. m : b[k] = t[(m - k) + 1]
    BY <1>1, <1>2, <1>3, <2>2 DEF Reverse
  <2> QED BY <1>2, <2>3, <2>4
<1>5. n <= m /\ SubSeq(a, 1, n) = SubSeq(b, 1, n)
  BY <1>3, <1>4 DEF IsSuffix, IsPrefix
<1>6. \A k \in 1 .. n : a[k] = b[k]
  <2>1. \A k \in 1 .. n : k \in 1 .. m
    BY <1>2, <1>5
  <2>2. \A k \in 1 .. n : a[k] \in S /\ b[k] \in S
    BY <1>4, <2>1, OwnElements
  <2>3. \A k \in 1 .. n - 1 + 1 : SubSeq(a, 1, n)[k] = a[1 + k - 1]
    BY <1>2, <2>2, SubSeqProperties
  <2>4. \A k \in 1 .. n - 1 + 1 : SubSeq(b, 1, n)[k] = b[1 + k - 1]
    BY <1>2, <2>2, SubSeqProperties
  <2>5. \A k \in 1 .. n : k \in 1 .. n - 1 + 1 /\ 1 + k - 1 = k
    BY <1>2
  <2> QED BY <1>5, <2>3, <2>4, <2>5
<1>7. PICK d, u : d = m - n /\ u = SubSeq(t, d + 1, m)
  OBVIOUS
<1>8. d \in 0 .. m /\ m \in 0 .. m /\ m - (d + 1) + 1 = n
  BY <1>2, <1>5, <1>7
<1>9. /\ u \in Seq(S) /\ Len(u) = n
      /\ \A k \in 1 .. n : u[k] = t[(d + 1) + k - 1]
  <2>1. d + 1 \in Int /\ m \in Int /\ \A k \in d + 1 .. m : t[k] \in S
    BY <1>2, <1>8
  <2>2. /\ u \in Seq(S)
        /\ Len(u) = IF d + 1 <= m THEN m - (d + 1) + 1 ELSE 0
        /\ \A k \in 1 .. m - (d + 1) + 1 : u[k] = t[(d + 1) + k - 1]
    BY <1>7, <2>1, SubSeqProperties
  <2> QED BY <1>2, <1>5, <1>7, <1>8, <2>2
<1>10. ASSUME NEW k \in 1 .. n
       PROVE  s[k] = u[k]
  <2>1. PICK l : l = (n - k) + 1
    OBVIOUS
  <2>2. /\ l \in 1 .. n /\ l \in 1 .. m /\ (n - l) + 1 = k
        /\ (m - l) + 1 = (d + 1) + k - 1
    BY <1>2, <1>5, <1>7, <2>1
  <2>3. a[l] = s[k] /\ b[l] = t[(d + 1) + k - 1]
    BY <1>4, <2>2
  <2> QED BY <1>6, <1>9, <2>2, <2>3
<1>11. s = u
  BY <1>1, <1>9, <1>10, SeqEqual
<1>12. SubSeqs(t) = {SubSeq(t, i + 1, j) : i, j \in 0 .. m}
  BY <1>1 DEF SubSeqs
<1>13. u \in {SubSeq(t, i + 1, j) : i, j \in 0 .. m}
  <2>1. d \in 0 .. m /\ m \in 0 .. m
    BY <1>8
  <2>2. \E i, j \in 0 .. m : u = SubSeq(t, i + 1, j)
    BY <1>7, <2>1, Zenon
  <2> QED BY <2>2
<1> QED BY <1>11, <1>12, <1>13

\* What each operator says of a value that is there.
LEMMA MatchesThere ==
  ASSUME NEW v, NEW w, v # None
  PROVE  /\ Matches("eq", v, w) <=> v = w
         /\ Matches("neq", v, w) <=> v # w
         /\ Matches("in", v, w) <=> IsA(w, "list") /\ v \in Range(w.list)
         /\ Matches("notIn", v, w) <=> IsA(w, "list") /\ v \notin Range(w.list)
         /\ Matches("contains", v, w) <=> IncludesValue(v, w)
         /\ Matches("notContains", v, w) <=>
              (IsA(v, "string") \/ IsA(v, "list")) /\ ~IncludesValue(v, w)
         /\ Matches("startsWith", v, w) <=>
              AreBoth(v, w, "string") /\ IsPrefix(w.string, v.string)
         /\ Matches("endsWith", v, w) <=>
              AreBoth(v, w, "string") /\ IsSuffix(w.string, v.string)
<1> DEFINE c(op) == [attribute |-> "any", op |-> op, value |-> w]
<1>1. \A op : c(op).op = op /\ c(op).value = w
  OBVIOUS
<1>2. \A op : Matches(op, v, w) <=> ValueFits(op, w) /\ MatchRegularCondition(v, c(op))
  BY DEF Matches
<1> HIDE DEF c
<1>3. Matches("eq", v, w) <=> v = w
  BY <1>1, <1>2 DEF ValueFits, MatchRegularCondition, Comparisons
<1>4. Matches("neq", v, w) <=> v # w
  BY <1>1, <1>2 DEF ValueFits, MatchRegularCondition, Comparisons
<1>5. Matches("in", v, w) <=> IsA(w, "list") /\ v \in Range(w.list)
  BY <1>1, <1>2 DEF ValueFits, MatchRegularCondition, Comparisons
<1>6. Matches("notIn", v, w) <=> IsA(w, "list") /\ v \notin Range(w.list)
  BY <1>1, <1>2 DEF ValueFits, MatchRegularCondition, Comparisons
<1>7. Matches("contains", v, w) <=> IncludesValue(v, w)
  BY <1>1, <1>2 DEF ValueFits, MatchRegularCondition, Comparisons
<1>8. Matches("notContains", v, w) <=>
        (IsA(v, "string") \/ IsA(v, "list")) /\ ~IncludesValue(v, w)
  BY <1>1, <1>2 DEF ValueFits, MatchRegularCondition, Comparisons
<1>9. Matches("startsWith", v, w) <=> AreBoth(v, w, "string") /\ IsPrefix(w.string, v.string)
  BY <1>1, <1>2 DEF ValueFits, MatchRegularCondition, Comparisons, AreBoth
<1>10. Matches("endsWith", v, w) <=> AreBoth(v, w, "string") /\ IsSuffix(w.string, v.string)
  BY <1>1, <1>2 DEF ValueFits, MatchRegularCondition, Comparisons, AreBoth
<1> QED BY <1>3, <1>4, <1>5, <1>6, <1>7, <1>8, <1>9, <1>10

\* A comparison is one of numbers.
LEMMA ComparesThere ==
  ASSUME NEW v, NEW w, v # None
  PROVE  /\ Matches("gt", v, w) <=> AreBoth(v, w, "number") /\ v.number > w.number
         /\ Matches("gte", v, w) <=> AreBoth(v, w, "number") /\ v.number >= w.number
         /\ Matches("lt", v, w) <=> AreBoth(v, w, "number") /\ v.number < w.number
         /\ Matches("lte", v, w) <=> AreBoth(v, w, "number") /\ v.number <= w.number
<1> DEFINE c(op) == [attribute |-> "any", op |-> op, value |-> w]
<1>1. \A op : c(op).op = op /\ c(op).value = w
  OBVIOUS
<1>2. \A op : Matches(op, v, w) <=> ValueFits(op, w) /\ MatchRegularCondition(v, c(op))
  BY DEF Matches
<1> HIDE DEF c
<1>3. \A op \in Comparisons : Matches(op, v, w) <=>
        AreBoth(v, w, "number") /\ Compares(op, v.number, w.number)
  BY <1>1, <1>2 DEF ValueFits, MatchRegularCondition, Comparisons, AreBoth
<1> QED BY <1>3 DEF Comparisons, Compares

\* What is missing satisfies notExists alone.
LEMMA MissingMatchesNothing ==
  ASSUME NEW op \in Operators \ {"notExists"}, NEW w
  PROVE  ~Matches(op, None, w)
<1>1. [attribute |-> "any", op |-> op, value |-> w].op = op
  OBVIOUS
<1> QED BY <1>1 DEF Matches, MatchRegularCondition

\* Values of one kind.
LEMMA KindsOfValues ==
  ASSUME NEW v, IsValue(v)
  PROVE  /\ IsA(v, "string") => v = [string |-> v.string] /\ v.string \in Seq(Range(v.string))
         /\ IsA(v, "number") => v.number \in Int
         /\ ~(IsA(v, "string") /\ IsA(v, "list"))
BY DEF IsValue, IsA

(***************************************************************************)
(* The operators fit together on any values: nothing is coerced, what is   *)
(* missing matches none, a negation is the opposite for what is there, the *)
(* ends of a text are parts of it and the comparisons are one order.       *)
(***************************************************************************)
THEOREM OperatorsCorrect == Spec => []OperatorsAgree
<1>1. ASSUME NEW v \in Samples, NEW w \in Samples
      PROVE  LET Is(op) == Matches(op, v, w)
                 List == IsA(v, "list")
                 BothStrings == AreBoth(v, w, "string")
                 BothNumbers == AreBoth(v, w, "number")
             IN  /\ \A op \in Operators \ {"notExists"} : ~Matches(op, None, w)
                 /\ Is("neq") <=> ~Is("eq")
                 /\ Is("notIn") <=> ~Is("in") /\ IsA(w, "list")
                 /\ Is("notContains") <=> ~Is("contains") /\ (List \/ IsA(v, "string"))
                 /\ List => (Is("contains") <=> Matches("in", w, v))
                 /\ ~List /\ Is("contains") => BothStrings
                 /\ Is("startsWith") \/ Is("endsWith") => BothStrings /\ Is("contains")
                 /\ BothStrings /\ Is("contains") /\ Matches("contains", w, v) => Is("eq")
                 /\ Is("gte") \/ Is("lt") <=> BothNumbers
                 /\ Is("gt") <=> Is("gte") /\ ~Is("lte")
                 /\ Is("gt") <=> Matches("lt", w, v)
                 /\ BothNumbers /\ Is("eq") => Is("gte") /\ Is("lte")
  <2>1. v # None /\ w # None /\ IsValue(v) /\ IsValue(w)
    BY FlagEditsAssumption
  <2>2. \A op \in Operators \ {"notExists"} : ~Matches(op, None, w)
    BY MissingMatchesNothing
  <2>3. Matches("neq", v, w) <=> ~Matches("eq", v, w)
    BY <2>1, MatchesThere
  <2>4. Matches("notIn", v, w) <=> ~Matches("in", v, w) /\ IsA(w, "list")
    BY <2>1, MatchesThere
  <2>5. Matches("notContains", v, w) <=>
          ~Matches("contains", v, w) /\ (IsA(v, "list") \/ IsA(v, "string"))
    BY <2>1, MatchesThere
  <2>6. IsA(v, "list") => (Matches("contains", v, w) <=> Matches("in", w, v))
    BY <2>1, MatchesThere, KindsOfValues DEF IncludesValue, AreBoth
  <2>7. ~IsA(v, "list") /\ Matches("contains", v, w) => AreBoth(v, w, "string")
    BY <2>1, MatchesThere DEF IncludesValue
  <2>8. AreBoth(v, w, "string") =>
          /\ Matches("contains", v, w) <=> w.string \in SubSeqs(v.string)
          /\ Matches("contains", w, v) <=> v.string \in SubSeqs(w.string)
    BY <2>1, MatchesThere, KindsOfValues DEF IncludesValue, AreBoth
  <2>9. PICK S : S = Range(v.string) \cup Range(w.string)
    OBVIOUS
  <2>10. AreBoth(v, w, "string") => v.string \in Seq(S) /\ w.string \in Seq(S)
    BY <2>1, <2>9, KindsOfValues DEF AreBoth
  <2>11. ASSUME Matches("startsWith", v, w) \/ Matches("endsWith", v, w)
         PROVE  AreBoth(v, w, "string") /\ Matches("contains", v, w)
    <3>1. AreBoth(v, w, "string")
      BY <2>1, <2>11, MatchesThere
    <3>2. IsPrefix(w.string, v.string) \/ IsSuffix(w.string, v.string)
      BY <2>1, <2>11, MatchesThere
    <3>3. w.string \in SubSeqs(v.string)
      BY <2>10, <3>1, <3>2, PrefixIsPart, SuffixIsPart
    <3> QED BY <2>8, <3>1, <3>3
  <2>12. ASSUME AreBoth(v, w, "string"), Matches("contains", v, w), Matches("contains", w, v)
         PROVE  Matches("eq", v, w)
    <3>1. PICK s, t : s = v.string /\ t = w.string
      OBVIOUS
    <3>2. s \in Seq(S) /\ t \in Seq(S) /\ s \in SubSeqs(t) /\ t \in SubSeqs(s)
      BY <2>8, <2>10, <2>12, <3>1
    <3>3. s = t
      <4>1. Len(t) \in Nat /\ Len(t) <= Len(s) /\ (Len(t) = Len(s) => t = s)
        BY <3>2, PartOfText
      <4>2. Len(s) \in Nat /\ Len(s) <= Len(t)
        BY <3>2, PartOfText
      <4> QED BY <4>1, <4>2
    <3>4. v = [string |-> s] /\ w = [string |-> t]
      BY <2>1, <2>12, <3>1, KindsOfValues DEF AreBoth
    <3> QED BY <2>1, <3>3, <3>4, MatchesThere
  <2>13. AreBoth(v, w, "number") => v.number \in Int /\ w.number \in Int
    BY <2>1, KindsOfValues DEF AreBoth
  <2>14. Matches("gte", v, w) \/ Matches("lt", v, w) <=> AreBoth(v, w, "number")
    BY <2>1, <2>13, ComparesThere
  <2>15. Matches("gt", v, w) <=> Matches("gte", v, w) /\ ~Matches("lte", v, w)
    BY <2>1, <2>13, ComparesThere
  <2>16. Matches("gt", v, w) <=> Matches("lt", w, v)
    <3>1. Matches("lt", w, v) <=> AreBoth(w, v, "number") /\ w.number < v.number
      BY <2>1, ComparesThere
    <3>2. Matches("gt", v, w) <=> AreBoth(v, w, "number") /\ v.number > w.number
      BY <2>1, ComparesThere
    <3>3. AreBoth(w, v, "number") <=> AreBoth(v, w, "number")
      BY DEF AreBoth
    <3> QED BY <2>13, <3>1, <3>2, <3>3
  <2>17. AreBoth(v, w, "number") /\ Matches("eq", v, w) =>
           Matches("gte", v, w) /\ Matches("lte", v, w)
    BY <2>1, <2>13, MatchesThere, ComparesThere
  <2> QED BY <2>2, <2>3, <2>4, <2>5, <2>6, <2>7, <2>11, <2>12, <2>14, <2>15, <2>16, <2>17
<1>2. OperatorsAgree
  BY <1>1 DEF OperatorsAgree
<1> QED BY <1>2, PTL

===============================================================================
