---------------------------- MODULE EligibilityDesk ----------------------------
(***************************************************************************)
(* The Eligibility page and the callers that record manual overrides,      *)
(* sharing the results and decisions tables.  A check evaluates the rules  *)
(* and decides in memory, then writes all result rows in one transaction   *)
(* and the decision in a second one.                                       *)
(***************************************************************************)
EXTENDS EligibilityEngine, FiniteSets

CONSTANTS
  Noms,        (* nominations under validation *)
  Sessions,    (* UI sessions and validators *)
  Readings,    (* what the source systems can say about a rule *)
  MaxChecks    (* bounds how many checks and overrides are made *)

ASSUME EligibilityAssumption ==
  /\ MaxChecks \in Nat
  /\ Readings \subseteq [kind : ReadingKinds, score : Nat]

(* A row of eligibility_results; "check" is history: the check, or override, *)
(* that made it, in the order of their time stamps.                          *)
ResultRow == [nom : Noms, check : 0 .. MaxChecks, rule : Rules,
              result : RuleResultStatus, override : BOOLEAN]

(* A row of eligibility_decisions; "overrides" are the manual overrides that *)
(* its reasons name.                                                         *)
DecisionRow == [nom : Noms, check : 0 .. MaxChecks, status : EligibilityStatus,
                overrides : SUBSET (0 .. MaxChecks)]

Idle == [step |-> "idle"]

VARIABLES
  results,     (* the eligibility_results table *)
  decisions,   (* the eligibility_decisions table *)
  work,        (* per session: the check under way *)
  checks       (* how many checks and overrides were made *)

vars == <<results, decisions, work, checks>>

Stamped(rows, n, c) ==
  {[nom |-> n, check |-> c, rule |-> r.rule, result |-> r.result, override |-> r.override] :
    r \in rows}

(* What decide reads of a row. *)
Plain(row) == [rule |-> row.rule, result |-> row.result, override |-> row.override]

Overrides(n) == {row \in results : row.nom = n /\ row.override}

------------------------------------------------------------------------------
Init ==
  /\ results = {}
  /\ decisions = {}
  /\ work = [s \in Sessions |-> Idle]
  /\ checks = 0

(* evaluate_rules and decide, which is handed some overrides as well. *)
Begin(s, n, ctx, overrides) ==
  /\ work[s] = Idle
  /\ checks < MaxChecks
  /\ checks' = checks + 1
  /\ work' = [work EXCEPT ![s] =
       [step |-> "results",
        rows |-> Stamped(EvaluateRules(ctx), n, checks),
        decision |-> [nom |-> n, check |-> checks,
                      status |-> Decide(EvaluateRules(ctx) \cup {Plain(row) : row \in overrides}),
                      overrides |-> {row.check : row \in overrides}]]]
  /\ UNCHANGED <<results, decisions>>

(* The Run eligibility check button: decide sees the new results only. *)
RunCheck(s, n, ctx) == Begin(s, n, ctx, {})

(* A caller that re-decides after an override, as decide asks: it evaluates   *)
(* again and hands decide the overrides on record as well.                   *)
Redecide(s, n, ctx) == Begin(s, n, ctx, Overrides(n))

(* add_eligibility_results: all rows of the check in one transaction. *)
StoreResults(s) ==
  /\ work[s].step = "results"
  /\ results' = results \cup work[s].rows
  /\ work' = [work EXCEPT ![s].step = "decision"]
  /\ UNCHANGED <<decisions, checks>>

(* Mutant: the decision is stored first. *)
StoreDecision_First(s) ==
  /\ work[s] # Idle
  /\ decisions' = decisions \cup {work[s].decision}
  /\ work' = [work EXCEPT ![s] = Idle]
  /\ UNCHANGED <<results, checks>>

(* add_eligibility_decision. *)
StoreDecision(s) ==
  /\ work[s].step = "decision"
  /\ decisions' = decisions \cup {work[s].decision}
  /\ work' = [work EXCEPT ![s] = Idle]
  /\ UNCHANGED <<results, checks>>

(* apply_manual_override, with any result, and the storing of its one row     *)
(* (its caller is not in the repository).  Without an actor and a reason it   *)
(* raises and nothing is stored.                                             *)
RecordOverride(s, n, q, result, actorGiven, reasonGiven) ==
  /\ work[s] = Idle
  /\ checks < MaxChecks
  /\ actorGiven /\ reasonGiven
  /\ checks' = checks + 1
  /\ results' = results \cup Stamped({ManualOverride(q, result)}, n, checks)
  /\ UNCHANGED <<decisions, work>>

(* The process stops, or a repository call raises. *)
Fail(s) ==
  /\ work[s] # Idle
  /\ work' = [work EXCEPT ![s] = Idle]
  /\ UNCHANGED <<results, decisions, checks>>

Next ==
  \E s \in Sessions :
    \/ \E n \in Noms, ctx \in [Rules -> Readings] : RunCheck(s, n, ctx) \/ Redecide(s, n, ctx)
    \/ \E n \in Noms, q \in Rules, result \in RuleResultStatus, a, w \in BOOLEAN :
         RecordOverride(s, n, q, result, a, w)
    \/ StoreResults(s) \/ StoreDecision(s) \/ Fail(s)

Spec == Init /\ [][Next]_vars

------------------------------------------------------------------------------
TypeOK ==
  /\ results \subseteq ResultRow
  /\ decisions \subseteq DecisionRow
  /\ checks \in 0 .. MaxChecks
  /\ work \in [Sessions -> {Idle} \cup
       [step : {"results", "decision"}, rows : SUBSET ResultRow, decision : DecisionRow]]

RowsOf(n, c) == {row \in results : row.nom = n /\ row.check = c}

(* Results and decision are two transactions that sessions and failures cut   *)
(* apart; still no decision is on record without the result of every rule it *)
(* was taken on, and it is the decision those results call for, whatever     *)
(* overrides and other checks were stored in between.                        *)
DecisionBacked ==
  \A d \in decisions :
    /\ {row.rule : row \in RowsOf(d.nom, d.check)} = Rules
    /\ d.status = Decide({Plain(row) : row \in RowsOf(d.nom, d.check)})

(* Missing data is never adverse (services/eligibility_engine.py:8-10): what  *)
(* decide promises at :91-96, of the automated results that the check of a    *)
(* decision left on record.  NotEligible takes a Fail of a required rule; a   *)
(* required rule without an answer keeps a case pending, neither adverse nor  *)
(* through; Eligible takes a Pass or NotApplicable of every required rule.    *)
Answered(d, q, answers) ==
  \E row \in RowsOf(d.nom, d.check) : row.rule = q /\ ~row.override /\ row.result \in answers

DecisionGrounds ==
  \A d \in decisions :
    /\ d.status = "NotEligible" => \E q \in Required : Answered(d, q, {"Fail"})
    /\ d.status = "PendingCriteria" =>
         /\ \E q \in Required : Answered(d, q, {"Pending", "DataUnavailable"})
         /\ \A q \in Required : ~Answered(d, q, {"Fail"})
    /\ d.status = "Eligible" => \A q \in Required : Answered(d, q, {"Pass", "NotApplicable"})

(* Decision d was handed a PASS override of rule q (and none with another     *)
(* result) that was recorded after an adverse decision on a Fail of q.        *)
Superseded(d, q) ==
  LET handed == {o \in Overrides(d.nom) : o.check \in d.overrides /\ o.rule = q} IN
    /\ \A o \in handed : o.result = "Pass"
    /\ \E o \in handed, e \in decisions :
         e.nom = d.nom /\ e.status = "NotEligible" /\ e.check < o.check /\ Answered(e, q, {"Fail"})

(* services/eligibility_engine.py:124-126: when callers re-run evaluate_rules *)
(* and decide after recording a PASS override of a failing rule, the override *)
(* supersedes the prior FAIL, so a decision that is adverse all the same      *)
(* rests on a rule it was handed no such override of.                         *)
OverrideSupersedes ==
  \A d \in decisions : d.status = "NotEligible" =>
    \E q \in Required : Answered(d, q, {"Fail"}) /\ ~Superseded(d, q)
=============================================================================
