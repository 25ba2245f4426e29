------------------------------ MODULE FlagEdits ------------------------------
(***************************************************************************)
(* The life of one flag under the management client's edits,               *)
(* packages/management/src/index.ts: publishRuleset with a flag written by *)
(* hand, and the mutations that setEnabled, setBooleanRollout and          *)
(* setTarget hand to update.  Each edit is one step: Management is about   *)
(* the reads, the conflicts and the losses in between.                     *)
(***************************************************************************)
EXTENDS Evaluation

CONSTANTS
  HandWritten,  \* flags in rulesets given to publishRuleset, valid or not
  Samples,      \* values and operands the operators are compared over
  Options,      \* [ruleId, bucketBy, conditions] given to setBooleanRollout
  Hashes        \* functions bucketFor may be

On == [boolean |-> TRUE]

Off == [boolean |-> FALSE]

(***************************************************************************)
(* The salt of a rule the helper makes; others may use it too.             *)
(***************************************************************************)
Salt(ruleId) == ruleId

Salts == {Salt(o.ruleId) : o \in Options}

Keys == Strings \ {EmptyString}

(***************************************************************************)
(* What FlagDefinition declares.  What has another shape is refused before *)
(* the checks of ValidFlag.  Variations are the entries of one object.     *)
(***************************************************************************)
IsFlag(f) ==
  /\ f \in [type : STRING, enabled : BOOLEAN, variations : Seq(Range(f.variations)),
            offVariation : STRING, defaultVariation : STRING,
            targets : Seq([variation : STRING, keys : SUBSET Values]),
            rules : Seq(Range(f.rules))]
  /\ \A e \in Range(f.variations) : e.name \in STRING
  /\ \A i, j \in DOMAIN f.variations : f.variations[i].name = f.variations[j].name => i = j
  /\ \A r \in Range(f.rules) :
       \/ DOMAIN r.serve = {"variation"}
       \/ /\ DOMAIN r.serve = {"rollout"}
          /\ r.serve.rollout.splits \in Seq(Range(r.serve.rollout.splits))

ASSUME FlagEditsAssumption ==
  /\ Hashes \subseteq [Identities \X Salts -> Buckets]
  /\ \A f \in HandWritten : IsFlag(f)
  /\ None \notin Samples \cup STRING /\ \A v \in Values \cup Samples : IsValue(v)

VARIABLES
  flag,      \* the flag in the environment's ruleset, or None
  bucketFor  \* the hash: the bucket of each value under each salt

vars == <<flag, bucketFor>>

Init ==
  /\ flag = None
  /\ bucketFor \in Hashes

(***************************************************************************)
(* assertRuleset, and then the put.                                        *)
(***************************************************************************)
PutChecked(next) ==
  /\ ValidRuleset(next)
  /\ flag' = next
  /\ UNCHANGED bucketFor

PublishRuleset(f) == PutChecked(f)

SetEnabled(enabled) ==
  /\ flag # None
  /\ PutChecked([flag EXCEPT !.enabled = enabled])

-------------------------------------------------------------------------------
(* setBooleanRollout                                                       *)

HasBooleanVariants(f) ==
  f.type = "boolean" /\ {On, Off} \subseteq {e.value : e \in Range(f.variations)}

FirstServing(value, variations) ==
  variations[SelectInSeq(variations, LAMBDA e : e.value = value)].name

Splits(basisPoints, variations) ==
  << [variation |-> FirstServing(On, variations), weight |-> basisPoints],
     [variation |-> FirstServing(Off, variations), weight |-> Total - basisPoints] >>

\* Mutant: at 0 and 100 percent the variations are swapped.
RolloutServeSwapped(basisPoints, o, variations) ==
  IF basisPoints \in {0, Total}
  THEN [variation |-> FirstServing(IF basisPoints = 0 THEN On ELSE Off, variations)]
  ELSE [rollout |-> [bucketBy |-> o.bucketBy, salt |-> Salt(o.ruleId),
                     splits |-> Splits(basisPoints, variations)]]

(***************************************************************************)
(* At 0 and 100 percent no split is left.                                  *)
(***************************************************************************)
RolloutServe(basisPoints, o, variations) ==
  IF basisPoints \in {0, Total}
  THEN [variation |-> FirstServing(IF basisPoints = 0 THEN Off ELSE On, variations)]
  ELSE [rollout |-> [bucketBy |-> o.bucketBy, salt |-> Salt(o.ruleId),
                     splits |-> Splits(basisPoints, variations)]]

RolloutRule(basisPoints, o, variations) ==
  [id |-> o.ruleId, conditions |-> o.conditions,
   serve |-> RolloutServe(basisPoints, o, variations)]

\* Mutant: an existing rule is not looked for.
WithRuleAppended(f, rule) == [f EXCEPT !.rules = Append(@, rule)]

\* Mutant: a rule that exists is taken out and put back first.
WithRuleFirst(f, rule) ==
  [f EXCEPT !.rules = <<rule>> \o SelectSeq(@, LAMBDA r : r.id # rule.id)]

PlaceOf(ruleId, rules) == SelectInSeq(rules, LAMBDA r : r.id = ruleId)

(***************************************************************************)
(* The rule takes the place of the one with its id, or comes last.         *)
(***************************************************************************)
WithRule(f, rule) ==
  LET i == PlaceOf(rule.id, f.rules)
  IN  [f EXCEPT !.rules = IF i = 0 THEN Append(@, rule) ELSE ReplaceAt(@, i, rule)]

SetBooleanRollout(basisPoints, o) ==
  /\ flag # None
  /\ HasBooleanVariants(flag)
  /\ PutChecked(WithRule(flag, RolloutRule(basisPoints, o, flag.variations)))

-------------------------------------------------------------------------------
(* setTarget                                                               *)

(***************************************************************************)
(* The key joins the first target of its variation or a new one at the end.*)
(***************************************************************************)
Joined(targets, key, variation) ==
  LET i == SelectInSeq(targets, LAMBDA t : t.variation = variation)
  IN  IF i = 0 THEN Append(targets, [variation |-> variation, keys |-> {key}])
               ELSE [targets EXCEPT ![i].keys = @ \cup {key}]

(***************************************************************************)
(* What is left of the first n targets when the key leaves them and those  *)
(* without keys go.                                                        *)
(***************************************************************************)
Left(targets, key) ==
  LET left[n \in 0 .. Len(targets)] ==
        IF n = 0 THEN << >>
        ELSE IF targets[n].keys \subseteq {key} THEN left[n - 1]
        ELSE Append(left[n - 1], [targets[n] EXCEPT !.keys = @ \ {key}])
  IN  left

\* Mutant: the key stays in the targets of other variations.
WithTargetAdded(f, key, variation) ==
  [f EXCEPT !.targets = Joined(@, key, variation)]

WithTarget(f, key, variation) ==
  [f EXCEPT !.targets = Joined(Left(@, key)[Len(@)], key, variation)]

SetTarget(key) ==
  /\ flag # None
  /\ \E variation \in Names(flag.variations) : PutChecked(WithTarget(flag, key, variation))

-------------------------------------------------------------------------------

Next ==
  \/ \E f \in HandWritten : PublishRuleset(f)
  \/ \E enabled \in BOOLEAN : SetEnabled(enabled)
  \/ \E basisPoints \in 0 .. Total, o \in Options : SetBooleanRollout(basisPoints, o)
  \/ \E key \in Keys : SetTarget(key)

Spec == Init /\ [][Next]_vars

-------------------------------------------------------------------------------
(* Properties                                                              *)

(***************************************************************************)
(* SPEC.md:22: whatever default the caller gives, the value it gets is of  *)
(* the type of that default.  With a default of the flag's type every      *)
(* evaluation ends in a variation, unless a rollout has no identity to go  *)
(* by: the catch clause is never needed.                                   *)
(***************************************************************************)
EvaluationNeverFails ==
  \A context \in Contexts, default \in Values :
    LET result == EvaluateFlag(flag, default, context, bucketFor)
    IN  /\ \A type \in FlagTypes : ValueMatchesType(type, default) =>
                                  ValueMatchesType(type, ValueIn(flag, result, default))
        /\ flag # None /\ ValueMatchesType(flag.type, default) =>
             result.code \in {None, "TARGETING_KEY_MISSING"}

Matches(op, value, operand) ==
  /\ ValueFits(op, operand)
  /\ MatchRegularCondition(value, [attribute |-> "any", op |-> op, value |-> operand])

(***************************************************************************)
(* The operators fit together on values of all kinds: they do not coerce   *)
(* ("number `10` is not string `"10"`", docs/targeting.md:89), what is     *)
(* missing matches none of them (SPEC.md:27), a negation is the opposite   *)
(* for what is there, contains is the converse of in, the ends of a string *)
(* are contained in it, and the comparisons are one total order of the     *)
(* numbers.  What they say depends on no flag, so it is looked at once,    *)
(* before the first is published.                                          *)
(***************************************************************************)
OperatorsAgree ==
  flag = None => \A value, operand \in Samples :
    LET Is(op) == Matches(op, value, operand)
        List == IsA(value, "list")
        BothStrings == AreBoth(value, operand, "string")
        BothNumbers == AreBoth(value, operand, "number")
    IN  /\ \A op \in Operators \ {"notExists"} : ~Matches(op, None, operand)
        /\ Is("neq") <=> ~Is("eq")
        /\ Is("notIn") <=> ~Is("in") /\ IsA(operand, "list")
        /\ Is("notContains") <=> ~Is("contains") /\ (List \/ IsA(value, "string"))
        /\ List => (Is("contains") <=> Matches("in", operand, value))
        /\ ~List /\ Is("contains") => BothStrings
        /\ Is("startsWith") \/ Is("endsWith") => BothStrings /\ Is("contains")
        /\ BothStrings /\ Is("contains") /\ Matches("contains", operand, value) => Is("eq")
        /\ Is("gte") \/ Is("lt") <=> BothNumbers
        /\ Is("gt") <=> Is("gte") /\ ~Is("lte")
        /\ Is("gt") <=> Matches("lt", operand, value)
        /\ BothNumbers /\ Is("eq") => Is("gte") /\ Is("lte")

(***************************************************************************)
(* SPEC.md: "walk cumulative positive integer weights".  Each variation of *)
(* each stored rollout has as many buckets as its weight.                  *)
(***************************************************************************)
SharesAreWeights ==
  flag # None =>
    \A r \in Range(flag.rules) : "rollout" \in DOMAIN r.serve =>
      \A split \in Range(r.serve.rollout.splits) :
        Cardinality({b \in Buckets :
          VariantAt(r.serve.rollout.splits, b) = split.variation}) = split.weight

ValidOptions(o) ==
  /\ ValidName(o.ruleId) /\ ValidAttribute(o.bucketBy)
  /\ \A c \in o.conditions : ValidCondition(c, TRUE) /\ KnownSegment(c)

(***************************************************************************)
(* The helpers never turn a valid flag into one that assertRuleset         *)
(* refuses, whatever edits came before, unless their options are invalid.  *)
(***************************************************************************)
HelpersKeepValid ==
  flag # None =>
    /\ \A key \in Keys, v \in Names(flag.variations) : ValidRuleset(WithTarget(flag, key, v))
    /\ HasBooleanVariants(flag) =>
         \A b \in 0 .. Total, o \in Options : ValidOptions(o) =>
           ValidRuleset(WithRule(flag, RolloutRule(b, o, flag.variations)))

(***************************************************************************)
(* With a default of the flag's type, such as its off value.               *)
(***************************************************************************)
Evaluate(f, context) ==
  EvaluateFlag(f, ValueOf(f.offVariation, f.variations), context, bucketFor)

(***************************************************************************)
(* packages/management/README.md:36: setTarget "moves one targeting key to *)
(* the requested named variation, overriding rules", and nobody else: what *)
(* every other context is served stays, whatever the flag.                 *)
(***************************************************************************)
TargetMovesOneKey ==
  flag # None =>
    \A key \in Keys, v \in Names(flag.variations) :
      LET next == WithTarget(flag, key, v)
      IN  \A context \in Contexts :
            IF context["targetingKey"] = key
            THEN flag.enabled =>
                   Evaluate(next, context) = Resolved(flag, v, "TARGETING_MATCH", None)
            ELSE Evaluate(next, context) = Evaluate(flag, context)

IsOn(f, context) ==
  LET result == Evaluate(f, context)
  IN  result.variant # None /\ ValueOf(result.variant, f.variations) = On

(***************************************************************************)
(* SPEC.md:54, docs/targeting.md:97: with the same rule and options, a     *)
(* larger percentage takes the feature from nobody.                        *)
(***************************************************************************)
GrowingKeepsTheCohort ==
  flag # None /\ HasBooleanVariants(flag) =>
    \A o \in Options, p \in 0 .. Total :
      RolloutRule(p, o, flag.variations) \in Range(flag.rules) =>
        \A q \in p .. Total :
          LET next == WithRule(flag, RolloutRule(q, o, flag.variations))
          IN  \A context \in Contexts : IsOn(flag, context) => IsOn(next, context)

(***************************************************************************)
(* The rules behind the place setBooleanRollout gives its rule.            *)
(***************************************************************************)
Later(ruleId) ==
  LET place == PlaceOf(ruleId, flag.rules)
  IN  IF place = 0 THEN {} ELSE {flag.rules[i].id : i \in place + 1 .. Len(flag.rules)}

(***************************************************************************)
(* setBooleanRollout changes only what its own rule decided, or takes over *)
(* from the default and the rules behind it: docs/targeting.md:63, "It     *)
(* appends a new rule after existing rules".                               *)
(***************************************************************************)
RolloutTouchesItsRule ==
  flag # None /\ HasBooleanVariants(flag) =>
    \A o \in Options, q \in 0 .. Total :
      LET next == WithRule(flag, RolloutRule(q, o, flag.variations))
      IN  \A context \in Contexts :
            LET before == Evaluate(flag, context)
                after == Evaluate(next, context)
            IN  \/ after = before
                \/ before.rule = o.ruleId
                \/ /\ after.rule = o.ruleId
                   /\ before.reason = "DEFAULT" \/ before.rule \in Later(o.ruleId)

===============================================================================
