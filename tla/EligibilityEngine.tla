--------------------------- MODULE EligibilityEngine ---------------------------
(***************************************************************************)
(* services/eligibility_engine.py: evaluating rules on what the source     *)
(* systems say of a learner, and rolling the results into one decision.    *)
(***************************************************************************)
EXTENDS Naturals

CONSTANTS
  Rules,      (* the configured rules *)
  Required,   (* those with required = True; a result of any other counts only if it passes *)
  PassMark    (* the score a rule asks for *)

ASSUME EngineAssumption == Required \subseteq Rules /\ PassMark \in Nat

RuleResultStatus == {"Pass", "Fail", "Pending", "NotApplicable", "DataUnavailable"}

EligibilityStatus == {"Eligible", "NotEligible", "PendingCriteria", "PendingManualReview"}

(* What the context says about one rule: nothing, a score (a completion flag *)
(* is the score 0 or 100), something that makes the rule raise, that the     *)
(* check is not available yet, or that the learner is exempt from the rule.  *)
ReadingKinds == {"absent", "broken", "pending", "exempt", "score"}

Reading(kind) == [kind |-> kind, score |-> 0]
Score(n) == [kind |-> "score", score |-> n]

(* Mutant: the raw reading is returned for a result. *)
EvaluateRule_Raw(x) ==
  IF x.kind = "score" /\ x.score >= PassMark THEN "Pass" ELSE x.kind

(* One rule.  Those of the Eligibility page look for a score; a configured   *)
(* rule may answer Pending or NotApplicable as well.  One that raises is     *)
(* caught by evaluate_rules and counts as data not available.                *)
EvaluateRule(x) ==
  CASE x.kind \in {"absent", "broken"} -> "DataUnavailable"
    [] x.kind = "pending" -> "Pending"
    [] x.kind = "exempt"  -> "NotApplicable"
    [] x.kind = "score"   -> IF x.score >= PassMark THEN "Pass" ELSE "Fail"

(* evaluate_rules: one automated result per rule, in one go. *)
EvaluateRules(ctx) ==
  {[rule |-> q, result |-> EvaluateRule(ctx[q]), override |-> FALSE] : q \in Rules}

(* apply_manual_override: a row beside the automated ones. *)
ManualOverride(q, result) == [rule |-> q, result |-> result, override |-> TRUE]

(* Mutant: data that is not available is not counted as pending. *)
Decide_PendingOnly(rows) ==
  IF \E r \in rows : ~r.override /\ r.rule \in Required /\ r.result = "Fail"
  THEN "NotEligible"
  ELSE IF \E r \in rows : ~r.override /\ r.rule \in Required /\ r.result = "Pending"
  THEN "PendingCriteria"
  ELSE "Eligible"

(* decide: override rows only add a reason, whatever their result. *)
Counts(r) == ~r.override /\ r.rule \in Required

Decide(rows) ==
  IF \E r \in rows : Counts(r) /\ r.result = "Fail" THEN "NotEligible"
  ELSE IF \E r \in rows : Counts(r) /\ r.result \in {"Pending", "DataUnavailable"}
  THEN "PendingCriteria"
  ELSE "Eligible"
=============================================================================
