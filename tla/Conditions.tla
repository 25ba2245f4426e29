------------------------------ MODULE Conditions ------------------------------
(***************************************************************************)
(* JSON values and the conditions of rules and segments:                   *)
(* matchRegularCondition of packages/core/src/evaluate.ts and              *)
(* validateCondition of packages/core/src/validation.ts.                   *)
(*                                                                         *)
(* A value is a record with the field of its kind: string (a sequence of   *)
(* characters), number, boolean, null, list (a sequence of values) or      *)
(* object (a function of its keys).  The number -0 is 0 with the field     *)
(* negative: Object.is, to which deepEqual comes down, tells them apart    *)
(* as = does here, and an order does not.  What is no JSON, such as NaN,   *)
(* is of a kind of its own.                                                *)
(***************************************************************************)
EXTENDS Integers, SequencesExt, FiniteSetsExt

CONSTANTS
  None,     \* undefined
  MaxDepth  \* how deep a value may be nested; 32 in the code

IsA(value, kind) == kind \in DOMAIN value

IsValue(value) ==
  /\ \A kind \in {"string", "number", "boolean", "null", "list", "object"} :
       IsA(value, kind) => DOMAIN value \subseteq {kind, "negative"}
  /\ IsA(value, "string") => /\ value = [string |-> value.string]
                             /\ value.string \in Seq(Range(value.string))
  /\ IsA(value, "number") => value.number \in Int
  /\ IsA(value, "list") => value.list \in Seq(Range(value.list))

AreBoth(a, b, kind) == IsA(a, kind) /\ IsA(b, kind)

Comparisons == {"gt", "gte", "lt", "lte"}

Operators == Comparisons \cup
  {"eq", "neq", "in", "notIn", "contains", "notContains", "startsWith",
   "endsWith", "exists", "notExists"}

-------------------------------------------------------------------------------
(* Matching                                                                *)

\* Mutant: an element of a list is looked up as Array.includes does.
IncludesBySameValueZero(haystack, needle) ==
  \/ AreBoth(haystack, needle, "string") /\ needle.string \in SubSeqs(haystack.string)
  \/ /\ IsA(haystack, "list")
     /\ \E e \in Range(haystack.list) :
          \/ e = needle
          \/ AreBoth(e, needle, "number") /\ e.number = needle.number

IncludesValue(haystack, needle) ==
  \/ AreBoth(haystack, needle, "string") /\ needle.string \in SubSeqs(haystack.string)
  \/ IsA(haystack, "list") /\ needle \in Range(haystack.list)

Compares(op, a, b) ==
  \/ op = "gt" /\ a > b
  \/ op = "gte" /\ a >= b
  \/ op = "lt" /\ a < b
  \/ op = "lte" /\ a <= b

(***************************************************************************)
(* A missing attribute satisfies notExists and nothing else.               *)
(***************************************************************************)
MatchRegularCondition(actual, c) ==
  \/ actual = None /\ c.op = "notExists"
  \/ /\ actual # None
     /\ \/ c.op = "exists"
        \/ c.op = "eq" /\ actual = c.value
        \/ c.op = "neq" /\ actual # c.value
        \/ c.op = "in" /\ actual \in Range(c.value.list)
        \/ c.op = "notIn" /\ actual \notin Range(c.value.list)
        \/ c.op = "contains" /\ IncludesValue(actual, c.value)
        \/ /\ c.op = "notContains"
           /\ IsA(actual, "string") \/ IsA(actual, "list")
           /\ ~IncludesValue(actual, c.value)
        \/ /\ c.op = "startsWith"
           /\ IsA(actual, "string") /\ IsPrefix(c.value.string, actual.string)
        \/ /\ c.op = "endsWith"
           /\ IsA(actual, "string") /\ IsSuffix(c.value.string, actual.string)
        \/ /\ c.op \in Comparisons
           /\ IsA(actual, "number") /\ Compares(c.op, actual.number, c.value.number)

-------------------------------------------------------------------------------
(* Validation                                                              *)

ForbiddenKeys == {"__proto__", "prototype", "constructor"}

(***************************************************************************)
(* validName, for names whose characters and length are as they should be. *)
(***************************************************************************)
ValidName(name) == name \notin ForbiddenKeys \cup {""}

ValidAttribute(attribute) == attribute \notin ForbiddenKeys \cup {""}

Children(value) ==
  IF IsA(value, "list") THEN Range(value.list)
  ELSE IF IsA(value, "object") THEN Range(value.object) ELSE {}

(***************************************************************************)
(* isJsonValue, which calls itself, by the levels of its calls: the value, *)
(* then what lists and objects of the level before hold.                   *)
(***************************************************************************)
IsJsonValue(value) ==
  LET level[depth \in 0 .. MaxDepth + 1] ==
        IF depth = 0 THEN {value} ELSE UNION {Children(v) : v \in level[depth - 1]}
  IN  /\ level[MaxDepth + 1] = {}
      /\ \A depth \in 0 .. MaxDepth : \A v \in level[depth] :
           \/ \E kind \in {"string", "number", "boolean", "null", "list"} : IsA(v, kind)
           \/ IsA(v, "object") /\ DOMAIN v.object \cap ForbiddenKeys = {}

(***************************************************************************)
(* The operators whose value has to be of one kind.                        *)
(***************************************************************************)
ValueFits(op, value) ==
  /\ op \in {"in", "notIn"} => IsA(value, "list")
  /\ op \in {"startsWith", "endsWith"} => IsA(value, "string")
  /\ op \in Comparisons => IsA(value, "number")

ValidCondition(c, allowSegmentReference) ==
  /\ ValidAttribute(c.attribute)
  /\ c.op \in Operators
  /\ IF c.attribute = "$segment"
     THEN /\ allowSegmentReference
          /\ c.op = "in" /\ IsA(c.value, "list")
          /\ \A name \in Range(c.value.list) : ValidName(name)
     ELSE IF c.op \in {"exists", "notExists"} THEN "value" \notin DOMAIN c
     ELSE "value" \in DOMAIN c /\ IsJsonValue(c.value) /\ ValueFits(c.op, c.value)

===============================================================================
