------------------------------ MODULE Evaluation ------------------------------
(***************************************************************************)
(* What a flag serves in a context, packages/core/src/evaluate.ts, and     *)
(* which flags are valid, packages/core/src/validation.ts.                 *)
(*                                                                         *)
(* One flag.  The segments stay as they are: no helper edits them.  Keys   *)
(* of a target and conditions of a rule are sets, since their order        *)
(* decides nothing; targets, rules and splits are in order.  A flag's      *)
(* variations are Object.entries of them, <<[name, value], ...>>.  The     *)
(* hash is any function to buckets.                                        *)
(***************************************************************************)
EXTENDS Conditions

CONSTANTS
  Attributes,  \* context attributes beside targetingKey
  Values,      \* what they may hold
  Segments,    \* ruleset.segments: the conditions of each name
  Total        \* 10,000 in the code

(***************************************************************************)
(* What the check of segments in validateRuleset lets through.             *)
(***************************************************************************)
ValidSegments ==
  \A name \in DOMAIN Segments :
    ValidName(name) /\ \A c \in Segments[name] : ValidCondition(c, FALSE)

ASSUME EvaluationAssumption ==
  /\ None \notin Values
  /\ Total \in Nat \ {0}
  /\ ValidSegments

Names(variations) == {e.name : e \in Range(variations)}

ValueOf(name, variations) == (CHOOSE e \in Range(variations) : e.name = name).value

(***************************************************************************)
(* What can be bucketed: text and finite numbers.                          *)
(***************************************************************************)
Identities == {v \in Values : IsA(v, "string") \/ IsA(v, "number")}

Strings == {v \in Values : IsA(v, "string")}

EmptyString == [string |-> << >>]

Contexts ==
  {c \in [Attributes \cup {"targetingKey"} -> Values \cup {None}] :
     c["targetingKey"] \in Strings \cup {None}}

Buckets == 0 .. Total - 1

-------------------------------------------------------------------------------
(* Conditions                                                              *)

MatchesSegment(name, context) ==
  /\ name \in DOMAIN Segments
  /\ \A c \in Segments[name] : MatchRegularCondition(context[c.attribute], c)

MatchesCondition(c, context) ==
  IF c.attribute = "$segment"
  THEN c.op = "in" /\ \E name \in Range(c.value.list) : MatchesSegment(name, context)
  ELSE MatchRegularCondition(context[c.attribute], c)

-------------------------------------------------------------------------------
(* Rollouts                                                                *)

(***************************************************************************)
(* The cursor after each of the splits, and 0 before the first.            *)
(***************************************************************************)
Cursors(splits) ==
  LET cursor[i \in 0 .. Len(splits)] ==
        IF i = 0 THEN 0 ELSE cursor[i - 1] + splits[i].weight
  IN  cursor

\* Mutant: the boundary belongs to the split below it.
VariantAtBoundary(splits, bucket) ==
  LET cursor == Cursors(splits)
      passed == {i \in DOMAIN splits : bucket <= cursor[i]}
  IN  splits[IF passed = {} THEN Len(splits) ELSE Min(passed)].variation

(***************************************************************************)
(* The first split whose cursor passes the bucket, or else the last.       *)
(***************************************************************************)
VariantAt(splits, bucket) ==
  LET cursor == Cursors(splits)
      passed == {i \in DOMAIN splits : bucket < cursor[i]}
  IN  splits[IF passed = {} THEN Len(splits) ELSE Min(passed)].variation

RolloutVariant(rollout, context, bucketFor) ==
  LET value == context[rollout.bucketBy]
  IN  IF value \in Identities
      THEN VariantAt(rollout.splits, bucketFor[value, rollout.salt]) ELSE None

-------------------------------------------------------------------------------
(* evaluateFlag                                                            *)

(***************************************************************************)
(* The rule is that named in the message of a TARGETING_KEY_MISSING.       *)
(***************************************************************************)
Failure(code, rule) == [reason |-> "ERROR", code |-> code, variant |-> None, rule |-> rule]

Resolved(flag, variant, reason, rule) ==
  IF variant \in Names(flag.variations)
  THEN [reason |-> reason, code |-> None, variant |-> variant, rule |-> rule]
  ELSE Failure("GENERAL", None)

ServeRule(flag, rule, context, bucketFor) ==
  IF "variation" \in DOMAIN rule.serve
  THEN Resolved(flag, rule.serve.variation, "TARGETING_MATCH", rule.id)
  ELSE LET variant == RolloutVariant(rule.serve.rollout, context, bucketFor)
       IN  IF variant = None THEN Failure("TARGETING_KEY_MISSING", rule.id)
                             ELSE Resolved(flag, variant, "SPLIT", rule.id)

(***************************************************************************)
(* The first target with the key, and the first rule whose conditions all  *)
(* match, or 0.                                                            *)
(***************************************************************************)
TargetFor(flag, key) ==
  SelectInSeq(flag.targets, LAMBDA t : key # EmptyString /\ key \in t.keys)

RuleFor(flag, context) ==
  SelectInSeq(flag.rules, LAMBDA r : \A c \in r.conditions : MatchesCondition(c, context))

(***************************************************************************)
(* An enabled or disabled flag whose type is that of the default.          *)
(***************************************************************************)
Decide(flag, context, bucketFor) ==
  LET target == TargetFor(flag, context["targetingKey"])
      rule == RuleFor(flag, context)
  IN  IF ~flag.enabled THEN Resolved(flag, flag.offVariation, "DISABLED", None)
      ELSE IF target # 0
      THEN Resolved(flag, flag.targets[target].variation, "TARGETING_MATCH", None)
      ELSE IF rule # 0 THEN ServeRule(flag, flag.rules[rule], context, bucketFor)
      ELSE Resolved(flag, flag.defaultVariation, "DEFAULT", None)

ValueMatchesType(type, value) ==
  IF type = "json" THEN IsA(value, "list") \/ IsA(value, "object") ELSE IsA(value, type)

EvaluateFlag(flag, default, context, bucketFor) ==
  IF flag = None THEN Failure("FLAG_NOT_FOUND", None)
  ELSE IF ~ValueMatchesType(flag.type, default) THEN Failure("TYPE_MISMATCH", None)
  ELSE Decide(flag, context, bucketFor)

(***************************************************************************)
(* The value of a result: that of its variant, or the caller's default.    *)
(***************************************************************************)
ValueIn(flag, result, default) ==
  IF result.variant = None THEN default ELSE ValueOf(result.variant, flag.variations)

-------------------------------------------------------------------------------
(* validateRuleset                                                         *)

FlagTypes == {"boolean", "string", "number", "json"}

ValidSplits(splits, names) ==
  /\ splits # << >>
  /\ \A i \in DOMAIN splits :
       /\ splits[i].variation \in names
       /\ splits[i].weight \in Nat \ {0}
       /\ \A j \in DOMAIN splits : splits[i].variation = splits[j].variation => i = j
  /\ Cursors(splits)[Len(splits)] = Total

(***************************************************************************)
(* Exactly one of variation and rollout is there.                          *)
(***************************************************************************)
ValidServe(serve, names) ==
  IF "variation" \in DOMAIN serve THEN serve.variation \in names
                                  ELSE /\ ValidAttribute(serve.rollout.bucketBy)
                                       /\ serve.rollout.salt # ""
                                       /\ ValidSplits(serve.rollout.splits, names)

KnownSegment(c) == c.attribute = "$segment" => Range(c.value.list) \subseteq DOMAIN Segments

\* Mutant: the variations may be of another type.
ValidVariationsByName(flag) ==
  /\ flag.type \in FlagTypes
  /\ \A e \in Range(flag.variations) : ValidName(e.name) /\ IsJsonValue(e.value)

ValidVariations(flag) ==
  /\ flag.type \in FlagTypes
  /\ \A e \in Range(flag.variations) :
       ValidName(e.name) /\ IsJsonValue(e.value) /\ ValueMatchesType(flag.type, e.value)

ValidFlag(flag) ==
  /\ ValidVariations(flag)
  /\ {flag.offVariation, flag.defaultVariation} \subseteq Names(flag.variations)
  /\ \A t \in Range(flag.targets) :
       t.variation \in Names(flag.variations) /\ t.keys # {} /\ EmptyString \notin t.keys
  /\ \A i, j \in DOMAIN flag.rules : flag.rules[i].id = flag.rules[j].id => i = j
  /\ \A r \in Range(flag.rules) :
       /\ ValidName(r.id)
       /\ ValidServe(r.serve, Names(flag.variations))
       /\ \A c \in r.conditions : ValidCondition(c, TRUE)

(***************************************************************************)
(* For a ruleset of this flag and the segments whose version, revision,    *)
(* environment and time are as they should be.                             *)
(***************************************************************************)
ValidRuleset(flag) ==
  /\ ValidSegments
  /\ ValidFlag(flag)
  /\ \A r \in Range(flag.rules) : \A c \in r.conditions : KnownSegment(c)

===============================================================================
