----------------------------- MODULE FlagProvider -----------------------------
(***************************************************************************)
(* The OpenFeature provider, packages/openfeature/src/index.ts, over the   *)
(* client of FlagClient.  It has no state of its own: its initialize() is  *)
(* one of the client's Waiters, its onClose() the client's close(), and    *)
(* its status and answers are computed from the client's fields when they  *)
(* are asked for.  The flags are abstracted to what evaluateFlag can       *)
(* return; module Evaluation says when it returns what.                    *)
(***************************************************************************)
EXTENDS FlagClient

(***************************************************************************)
(* What evaluateFlag can return for a ruleset.                             *)
(***************************************************************************)
Outcomes ==
  [reason : {"DISABLED", "TARGETING_MATCH", "SPLIT", "DEFAULT"}, code : {"none"}]
    \cup [reason : {"ERROR"},
          code : {"FLAG_NOT_FOUND", "TYPE_MISMATCH", "TARGETING_KEY_MISSING", "GENERAL"}]

(***************************************************************************)
(* client.evaluate, for a flag whose outcome under the snapshot is the     *)
(* given one.  Without a snapshot the outcome is the same for all flags.   *)
(***************************************************************************)
Evaluate(outcome) ==
  IF snapshot = None
  THEN [reason |-> "ERROR", code |-> "INVALID_CONFIGURATION",
        revision |-> None, environment |-> None]
  ELSE [reason |-> outcome.reason, code |-> outcome.code,
        revision |-> snapshot.revision, environment |-> snapshot.env]

ErrorCode(code) == IF code = "INVALID_CONFIGURATION" THEN "PARSE_ERROR" ELSE code

Details(result) ==
  [reason |-> IF stale THEN "STALE" ELSE result.reason,
   originalReason |-> IF stale THEN result.reason ELSE None,
   errorCode |-> ErrorCode(result.code),
   revision |-> result.revision, environment |-> result.environment]

(***************************************************************************)
(* The four resolve...Evaluation methods: the client evaluates and details *)
(* looks at its status in one turn.                                        *)
(***************************************************************************)
Resolve(outcome) == Details(Evaluate(outcome))

ProviderStatus ==
  IF closed THEN "ERROR"
  ELSE IF snapshot = None THEN "NOT_READY"
  ELSE IF stale THEN "STALE" ELSE "READY"

Initialize(w) ==
  IF waiter[w] = "rejected" THEN "ProviderNotReadyError" ELSE waiter[w]

(***************************************************************************)
(* What an application is told through OpenFeature.  Once initialize() has *)
(* resolved, the provider has a ruleset for as long as it lives, whatever  *)
(* the source delivers and also after onClose: no answer is a PARSE_ERROR  *)
(* and the status is not NOT_READY again.  And an answer that is not       *)
(* marked STALE never stands on a snapshot known only from the cache.      *)
(***************************************************************************)
ProviderKeepsItsWord ==
  \A outcome \in Outcomes :
    LET answer == Resolve(outcome)
    IN  /\ (\E w \in Waiters : Initialize(w) = "resolved") =>
             /\ answer.errorCode # "PARSE_ERROR"
             /\ answer.revision # None
             /\ ProviderStatus # "NOT_READY"
        /\ answer.reason # "STALE" => sourceName # "cache"

===============================================================================
