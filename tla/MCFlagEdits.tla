----------------------------- MODULE MCFlagEdits -----------------------------
(***************************************************************************)
(* FlagEdits with a segment, seven hand-written valid flags of all four    *)
(* types and fourteen invalid ones, and two sets of rollout options.       *)
(***************************************************************************)
EXTENDS FlagEdits

CONSTANTS r1, r2

k1 == [string |-> <<"a">>]
k2 == [string |-> <<"b">>]
yes == [boolean |-> TRUE]
empty == [string |-> << >>]

Ten == [number |-> 10]
TheList == [list |-> <<k1, Ten>>]

TheValues == {k1, k2, empty, yes, Ten, TheList}

Zero == [number |-> 0]
MinusZero == [number |-> 0, negative |-> TRUE]
One == [number |-> 1]
Null == [null |-> TRUE]

TheSamples ==
  TheValues \cup {Zero, MinusZero, One, [number |-> -1], Null, [boolean |-> FALSE]}
    \cup {[string |-> s] : s \in {<<"a", "b">>, <<"b", "a">>, <<"a", "b", "a">>}}
    \cup {[list |-> s] : s \in {<< >>, <<k1>>, <<Zero>>, <<MinusZero, k2>>, <<Null, One>>,
                                <<[list |-> <<k1>>]>>}}
    \cup {[object |-> [a |-> k1]], [object |-> [a |-> Zero]], [object |-> [a |-> k1, b |-> One]]}

Variation(name, value) == [name |-> name, value |-> value]

TheSegments == [beta |-> {[attribute |-> "account", op |-> "neq", value |-> k1]}]

InBeta == [attribute |-> "$segment", op |-> "in", value |-> [list |-> <<"beta">>]]
InNone == [attribute |-> "$segment", op |-> "in", value |-> [list |-> <<"gamma">>]]
Equals(v) == [attribute |-> "account", op |-> "eq", value |-> v]
Starts(v) == [attribute |-> "account", op |-> "startsWith", value |-> v]
HasAccount == [attribute |-> "account", op |-> "exists"]

TheOptions ==
  { [ruleId |-> r1, bucketBy |-> "targetingKey", conditions |-> {}],
    [ruleId |-> r2, bucketBy |-> "account", conditions |-> {InBeta}] }

Plain ==
  [type |-> "boolean", enabled |-> TRUE,
   variations |-> << Variation("off", Off), Variation("on", On), Variation("dark", Off) >>,
   offVariation |-> "off", defaultVariation |-> "off",
   targets |-> << >>, rules |-> << >>]

Split(v, w) == [variation |-> v, weight |-> w]

Rollout(id, salt, conditions, splits) ==
  [id |-> id, conditions |-> conditions,
   serve |-> [rollout |-> [bucketBy |-> "account", salt |-> salt, splits |-> splits]]]

Always(id, v) == [id |-> id, conditions |-> {HasAccount}, serve |-> [variation |-> v]]

Targeted ==
  [Plain EXCEPT !.defaultVariation = "on",
     !.targets = << [variation |-> "on", keys |-> {k1}],
                    [variation |-> "dark", keys |-> {k1, k2}],
                    [variation |-> "on", keys |-> {k2}] >>]

Ruled ==
  [Plain EXCEPT
     !.rules = << Rollout(r2, r1, {HasAccount, InBeta},
                          <<Split("dark", 1), Split("on", 1), Split("off", 1)>>),
                  Always(r1, "on") >>]

Texts ==
  [Plain EXCEPT
     !.type = "string",
     !.variations = << Variation("off", empty), Variation("on", k1) >>,
     !.rules = << Rollout(r2, r1, {InBeta}, <<Split("on", 2), Split("off", 1)>>) >>]

Numbers ==
  [Plain EXCEPT
     !.type = "number",
     !.variations = << Variation("off", MinusZero), Variation("on", Ten) >>,
     !.targets = << [variation |-> "on", keys |-> {k1}] >>]

Documents ==
  [Plain EXCEPT
     !.type = "json",
     !.variations = << Variation("off", TheList), Variation("on", [object |-> [a |-> k1]]) >>,
     !.rules = << Always(r1, "on") >>]

OnlyOff == [Plain EXCEPT !.variations = <<Variation("off", Off)>>]

Nested == [object |-> [a |-> [list |-> <<[list |-> <<k1>>]>>]]]
NotANumber == [other |-> "NaN"]

TheHashes ==
  {h \in [Identities \X Salts -> Buckets] :
     \A s \in Salts : /\ h[k2, s] = (h[k1, s] + 1) % Total
                       /\ h[empty, s] = h[k1, s] /\ h[Ten, s] = h[k2, s]}

TheFlags ==
  { Plain, Targeted, Ruled, Texts, Numbers, Documents, OnlyOff,
    [Plain EXCEPT !.rules = <<Rollout(r1, r1, {}, <<Split("dark", 1), Split("on", 1)>>)>>],
    [Plain EXCEPT !.rules = <<Always(r1, "gone")>>],
    [Plain EXCEPT !.rules = <<Always(r1, "on"), Always(r1, "off")>>],
    [Plain EXCEPT !.rules = <<Rollout(r1, r1, {InNone}, <<Split("on", 3)>>)>>],
    [Plain EXCEPT !.rules = <<Rollout(r1, r1, {Starts(yes)}, <<Split("on", 3)>>)>>],
    [Plain EXCEPT !.rules = <<Rollout(r1, r1, {Equals(Nested)}, <<Split("on", 3)>>)>>],
    [Plain EXCEPT !.rules = <<Rollout(r1, r1, {Equals(NotANumber)}, <<Split("on", 3)>>)>>],
    [Plain EXCEPT !.rules = <<Always("constructor", "on")>>],
    [Plain EXCEPT !.rules = <<Rollout(r1, "", {}, <<Split("on", 3)>>)>>],
    [Plain EXCEPT !.type = "string"],
    [Documents EXCEPT !.variations[1].value = Null],
    [Documents EXCEPT !.variations[1].value = Nested],
    [Texts EXCEPT !.variations = Append(@, Variation("", empty))],
    [Plain EXCEPT !.targets = << [variation |-> "on", keys |-> {empty}] >>] }

===============================================================================
