------------------------- MODULE EligibilityDesk_proofs -------------------------
(***************************************************************************)
(* Every decision on record is the one its stored results call for, for any  *)
(* rules, pass mark, nominations, sessions and number of checks.            *)
(***************************************************************************)
EXTENDS EligibilityDesk, TLAPS

USE EngineAssumption, EligibilityAssumption

(* Whatever is read of a rule, its result is one of the statuses. *)
LEMMA RuleResults ==
  ASSUME NEW ctx \in [Rules -> Readings], NEW q \in Rules
  PROVE  EvaluateRule(ctx[q]) \in RuleResultStatus
<1>1. ctx[q] \in [kind : ReadingKinds, score : Nat]
  OBVIOUS
<1> QED
  BY <1>1 DEF EvaluateRule, ReadingKinds, RuleResultStatus

(* The rows of one check or override have their types. *)
LEMMA StampedTypes ==
  ASSUME NEW ctx \in [Rules -> Readings], NEW n \in Noms, NEW c \in 0 .. MaxChecks
  PROVE  Stamped(EvaluateRules(ctx), n, c) \subseteq ResultRow
<1> SUFFICES ASSUME NEW q \in Rules
             PROVE  [nom |-> n, check |-> c, rule |-> q, result |-> EvaluateRule(ctx[q]),
                     override |-> FALSE] \in ResultRow
  BY DEF Stamped, EvaluateRules
<1>1. EvaluateRule(ctx[q]) \in RuleResultStatus
  BY RuleResults
<1> QED
  BY <1>1 DEF ResultRow

(* Stamping loses nothing decide reads. *)
LEMMA PlainOfStamped ==
  ASSUME NEW ctx, NEW n, NEW c
  PROVE  {Plain(row) : row \in Stamped(EvaluateRules(ctx), n, c)} = EvaluateRules(ctx)
<1> DEFINE rows == Stamped(EvaluateRules(ctx), n, c)
<1>1. \A r \in EvaluateRules(ctx) :
        /\ r = [rule |-> r.rule, result |-> r.result, override |-> r.override]
        /\ Plain([nom |-> n, check |-> c, rule |-> r.rule, result |-> r.result,
                  override |-> r.override]) = r
  BY DEF EvaluateRules, Plain
<1>2. ASSUME NEW r \in EvaluateRules(ctx) PROVE r \in {Plain(row) : row \in rows}
  <2> DEFINE row == [nom |-> n, check |-> c, rule |-> r.rule, result |-> r.result,
                     override |-> r.override]
  <2>1. row \in rows
    BY DEF Stamped
  <2>2. Plain(row) = r
    BY <1>1
  <2> QED
    BY <2>1, <2>2
<1>3. \A row \in rows : Plain(row) \in EvaluateRules(ctx)
  BY <1>1 DEF Stamped
<1> QED
  BY <1>2, <1>3

(* Every row made is stored under the number it was stamped with. *)
LEMMA StampedHas ==
  ASSUME NEW ctx, NEW n, NEW c, NEW q \in Rules
  PROVE  [nom |-> n, check |-> c, rule |-> q, result |-> EvaluateRule(ctx[q]), override |-> FALSE]
           \in Stamped(EvaluateRules(ctx), n, c)
<1> DEFINE r == [rule |-> q, result |-> EvaluateRule(ctx[q]), override |-> FALSE]
<1>1. r \in EvaluateRules(ctx)
  BY DEF EvaluateRules
<1>2. [nom |-> n, check |-> c, rule |-> r.rule, result |-> r.result, override |-> r.override]
        \in Stamped(EvaluateRules(ctx), n, c)
  BY <1>1 DEF Stamped
<1> QED
  BY <1>2

(* The rows made are about the rules evaluated. *)
LEMMA StampedOnly ==
  ASSUME NEW ctx, NEW n, NEW c, NEW row \in Stamped(EvaluateRules(ctx), n, c)
  PROVE  row.rule \in Rules
<1>1. PICK r \in EvaluateRules(ctx) :
        row = [nom |-> n, check |-> c, rule |-> r.rule, result |-> r.result, override |-> r.override]
  BY DEF Stamped
<1>2. r.rule \in Rules
  BY DEF EvaluateRules
<1> QED
  BY <1>1, <1>2

(* Override rows do not count, whatever they say. *)
LEMMA OverridesDoNotCount ==
  ASSUME NEW rows, NEW others, \A r \in others : r.override
  PROVE  Decide(rows \cup others) = Decide(rows)
<1>1. \A r \in others : ~Counts(r)
  BY DEF Counts
<1> QED
  BY <1>1 DEF Decide

(* decide answers with one of its statuses, whatever the rows. *)
LEMMA DecideType == ASSUME NEW rows PROVE Decide(rows) \in EligibilityStatus
  BY DEF Decide, EligibilityStatus

------------------------------------------------------------------------------
(* The check under way: its rows and its decision come from one context. *)
Consistent(rows, d) ==
  \E ctx \in [Rules -> Readings] :
    /\ rows = Stamped(EvaluateRules(ctx), d.nom, d.check)
    /\ d.status = Decide(EvaluateRules(ctx))

OfCheck(table, c) == {row \in table : row.check = c}

(* Checks have numbers of their own: what is stored was numbered before, and  *)
(* what is under way is shared with no session, decision or, before its rows  *)
(* are written, row.                                                        *)
JobOK(s) ==
  LET d == work[s].decision IN
    /\ d.check < checks
    /\ Consistent(work[s].rows, d)
    /\ OfCheck(results, d.check) = IF work[s].step = "results" THEN {} ELSE work[s].rows
    /\ \A e \in decisions : e.check # d.check
    /\ \A t \in Sessions \ {s} : work[t] # Idle => work[t].decision.check # d.check

WorkOK == \A s \in Sessions : work[s] # Idle => JobOK(s)

StoredOK ==
  /\ \A row \in results : row.check < checks
  /\ \A d \in decisions : d.check < checks /\ Consistent(OfCheck(results, d.check), d)

DeskInv == TypeOK /\ WorkOK /\ StoredOK

Busy == [step : {"results", "decision"}, rows : SUBSET ResultRow, decision : DecisionRow]

(* A session under way holds a record of its operation. *)
LEMMA BusyType ==
  ASSUME TypeOK, NEW s \in Sessions, work[s] # Idle
  PROVE  work[s] \in Busy
  BY DEF TypeOK, Busy

(* Nothing is stored or under way to begin with. *)
LEMMA InitInv == Init => DeskInv
  BY DEF Init, DeskInv, TypeOK, WorkOK, StoredOK

(* Whatever carries a number has one given out before. *)
LEMMA NumberedBefore ==
  ASSUME DeskInv
  PROVE  /\ checks \in Nat
         /\ \A row \in results : row.check \in Nat /\ row.check < checks
         /\ \A e \in decisions : e.check \in Nat /\ e.check < checks
         /\ \A t \in Sessions : work[t] # Idle =>
              work[t].decision.check \in Nat /\ work[t].decision.check < checks
<1>1. checks \in Nat
  BY DEF DeskInv, TypeOK
<1>2. \A row \in results : row.check \in Nat /\ row.check < checks
  BY DEF DeskInv, TypeOK, StoredOK, ResultRow
<1>3. \A e \in decisions : e.check \in Nat /\ e.check < checks
  BY DEF DeskInv, TypeOK, StoredOK, DecisionRow
<1>4. \A t \in Sessions : work[t] # Idle =>
        work[t].decision.check \in Nat /\ work[t].decision.check < checks
  BY BusyType DEF DeskInv, WorkOK, JobOK, Busy, DecisionRow
<1> QED
  BY <1>1, <1>2, <1>3, <1>4

(* A check begins under a number nobody has. *)
LEMMA BeginKeepsInv ==
  ASSUME DeskInv, NEW s \in Sessions, NEW n \in Noms, NEW ctx \in [Rules -> Readings],
         NEW overrides \in SUBSET Overrides(n), Begin(s, n, ctx, overrides)
  PROVE  DeskInv'
<1> DEFINE others == {Plain(row) : row \in overrides}
           named == {row.check : row \in overrides}
           d    == [nom |-> n, check |-> checks, status |-> Decide(EvaluateRules(ctx) \cup others),
                    overrides |-> named]
           rows == Stamped(EvaluateRules(ctx), n, checks)
           job  == [step |-> "results", rows |-> rows, decision |-> d]
<1>1. /\ work[s] = Idle /\ checks \in 0 .. MaxChecks /\ checks < MaxChecks
      /\ checks' = checks + 1 /\ results' = results /\ decisions' = decisions
      /\ work' = [work EXCEPT ![s] = job]
  BY DEF Begin, DeskInv, TypeOK
<1>2. d \in DecisionRow
  <2>1. named \in SUBSET (0 .. MaxChecks)
    BY DEF Overrides, DeskInv, TypeOK, ResultRow
  <2> HIDE DEF named
  <2> QED
    BY <1>1, <2>1, DecideType DEF DecisionRow
<1>3. job \in Busy
  BY <1>1, <1>2, StampedTypes DEF Busy
<1>4. TypeOK'
  BY <1>1, <1>3 DEF DeskInv, TypeOK, Busy
<1>5. StoredOK'
  <2>1. \A c : OfCheck(results', c) = OfCheck(results, c)
    BY <1>1 DEF OfCheck
  <2>2. \A row \in results : row.check \in Nat /\ row.check < checks
    BY NumberedBefore
  <2>3. \A e \in decisions : e.check \in Nat /\ e.check < checks /\ Consistent(OfCheck(results, e.check), e)
    BY NumberedBefore DEF DeskInv, StoredOK
  <2>4. \A row \in results' : row.check < checks'
    BY <1>1, <2>2
  <2>5. \A e \in decisions' : e.check < checks' /\ Consistent(OfCheck(results', e.check), e)
    BY <1>1, <2>1, <2>3
  <2> QED
    BY <2>4, <2>5 DEF StoredOK
<1>6. Consistent(rows, d)
  <2>1. \A r \in others : r.override
    BY DEF Plain, Overrides
  <2>2. Decide(EvaluateRules(ctx) \cup others) = Decide(EvaluateRules(ctx))
    BY <2>1, OverridesDoNotCount
  <2> HIDE DEF others
  <2> QED
    BY <2>2 DEF Consistent
<1>7. OfCheck(results, checks) = {} /\ \A e \in decisions : e.check # checks
  BY NumberedBefore DEF OfCheck
<1>8. \A t \in Sessions : work[t] # Idle => work[t].decision.check # checks
  BY NumberedBefore
<1>9. WorkOK'
  <2> SUFFICES ASSUME NEW t \in Sessions, work'[t] # Idle
               PROVE  JobOK(t)'
    BY DEF WorkOK
  <2>1. \A c : OfCheck(results', c) = OfCheck(results, c)
    BY <1>1 DEF OfCheck
  <2>2. work'[s] = job /\ \A u \in Sessions \ {s} : work'[u] = work[u]
    BY <1>1 DEF DeskInv, TypeOK
  <2>3. CASE t = s
    <3> HIDE DEF d, rows
    <3>1. work'[t].step = "results" /\ work'[t].rows = rows /\ work'[t].decision = d
      BY <2>2, <2>3
    <3>2. d.check = checks /\ checks \in Nat /\ checks < checks'
      BY <1>1 DEF d
    <3>3. OfCheck(results', d.check) = {}
      BY <1>7, <2>1, <3>2
    <3>4. \A u \in Sessions \ {t} : work'[u] # Idle => work'[u].decision.check # d.check
      BY <1>8, <2>2, <2>3, <3>2
    <3>5. \A e \in decisions' : e.check # d.check
      BY <1>1, <1>7, <3>2
    <3>6. d.check < checks' /\ Consistent(rows, d)
      BY <1>6, <3>2
    <3> QED
      BY <3>1, <3>3, <3>4, <3>5, <3>6 DEF JobOK
  <2>4. CASE t # s
    <3>1. work'[t] = work[t] /\ work[t] # Idle /\ work[t] \in Busy
      BY <2>2, <2>4, BusyType DEF DeskInv
    <3>2. work[t].decision.check < checks + 1 /\ work[t].decision.check # checks
      BY <1>1, <1>8, <3>1 DEF DeskInv, WorkOK, JobOK, Busy, DecisionRow
    <3> QED
      BY <1>1, <2>1, <2>2, <2>4, <3>1, <3>2 DEF DeskInv, WorkOK, JobOK
  <2> QED
    BY <2>3, <2>4
<1> QED
  BY <1>4, <1>5, <1>9 DEF DeskInv

(* add_eligibility_results: rows of a check none were stored for. *)
LEMMA StoreResultsKeepsInv ==
  ASSUME DeskInv, NEW s \in Sessions, StoreResults(s)
  PROVE  DeskInv'
<1> DEFINE c == work[s].decision.check
<1>1. /\ work[s].step = "results" /\ results' = results \cup work[s].rows
      /\ work' = [work EXCEPT ![s].step = "decision"]
      /\ decisions' = decisions /\ checks' = checks
  BY DEF StoreResults
<1>2. work[s] # Idle
  BY <1>1 DEF Idle
<1>3. work[s] \in Busy /\ JobOK(s) /\ c \in Nat /\ c < checks
  BY <1>2, BusyType, NumberedBefore DEF DeskInv, WorkOK
<1>4. /\ work'[s].step = "decision" /\ work'[s].rows = work[s].rows
      /\ work'[s].decision = work[s].decision /\ work'[s] \in Busy
      /\ \A t \in Sessions \ {s} : work'[t] = work[t]
  BY <1>1, <1>3 DEF DeskInv, TypeOK, Busy
<1>5. \A row \in work[s].rows : row.check = c
  BY <1>3 DEF JobOK, Consistent, Stamped
<1>6. OfCheck(results, c) = {}
  BY <1>1, <1>3 DEF JobOK
<1>7. OfCheck(results', c) = work[s].rows
  BY <1>1, <1>5, <1>6 DEF OfCheck
<1>8. \A e : e # c => OfCheck(results', e) = OfCheck(results, e)
  BY <1>1, <1>5 DEF OfCheck
<1>9. TypeOK'
  BY <1>1, <1>3, <1>4 DEF DeskInv, TypeOK, Busy
<1>10. StoredOK'
  <2>1. \A row \in results' : row.check < checks'
    BY <1>1, <1>3, <1>5, NumberedBefore
  <2>2. \A e \in decisions : e.check # c
    BY <1>3 DEF JobOK
  <2>3. \A e \in decisions' : e.check < checks' /\ Consistent(OfCheck(results', e.check), e)
    BY <1>1, <1>8, <2>2 DEF DeskInv, StoredOK
  <2> QED
    BY <2>1, <2>3 DEF StoredOK
<1>11. WorkOK'
  <2> SUFFICES ASSUME NEW t \in Sessions, work'[t] # Idle
               PROVE  JobOK(t)'
    BY DEF WorkOK
  <2>1. CASE t = s
    <3>1. \A u \in Sessions \ {t} : work'[u] # Idle => work'[u].decision.check # c
      BY <1>3, <1>4, <2>1 DEF JobOK
    <3>2. Consistent(work[s].rows, work[s].decision) /\ \A e \in decisions : e.check # c
      BY <1>3 DEF JobOK
    <3> QED
      BY <1>1, <1>3, <1>4, <1>7, <2>1, <3>1, <3>2 DEF JobOK
  <2>2. CASE t # s
    <3>1. work'[t] = work[t] /\ work[t] # Idle /\ JobOK(t)
      BY <1>4, <2>2 DEF DeskInv, WorkOK
    <3>2. work[t].decision.check # c
      BY <1>3, <2>2, <3>1 DEF JobOK
    <3>3. \A u \in Sessions \ {t} : work'[u] # Idle => work'[u].decision.check # work[t].decision.check
      BY <1>2, <1>4, <3>1, <3>2 DEF JobOK
    <3>4. OfCheck(results', work[t].decision.check) = OfCheck(results, work[t].decision.check)
      BY <1>8, <3>2
    <3> QED
      BY <1>1, <3>1, <3>3, <3>4 DEF JobOK
  <2> QED
    BY <2>1, <2>2
<1> QED
  BY <1>9, <1>10, <1>11 DEF DeskInv

(* add_eligibility_decision: the rows of the check are stored. *)
LEMMA StoreDecisionKeepsInv ==
  ASSUME DeskInv, NEW s \in Sessions, StoreDecision(s)
  PROVE  DeskInv'
<1> DEFINE d == work[s].decision
<1>1. /\ work[s].step = "decision" /\ decisions' = decisions \cup {d}
      /\ work' = [work EXCEPT ![s] = Idle] /\ results' = results /\ checks' = checks
  BY DEF StoreDecision
<1>2. work[s] # Idle
  BY <1>1 DEF Idle
<1>3. work[s] \in Busy /\ JobOK(s) /\ d.check < checks /\ d \in DecisionRow
  BY <1>2, BusyType, NumberedBefore DEF DeskInv, WorkOK, Busy
<1>4. work'[s] = Idle /\ \A t \in Sessions \ {s} : work'[t] = work[t]
  BY <1>1 DEF DeskInv, TypeOK
<1>5. \A e : OfCheck(results', e) = OfCheck(results, e)
  BY <1>1 DEF OfCheck
<1>6. TypeOK'
  BY <1>1, <1>3 DEF DeskInv, TypeOK
<1>7. StoredOK'
  <2>1. OfCheck(results, d.check) = work[s].rows /\ Consistent(work[s].rows, d)
    BY <1>1, <1>3 DEF JobOK
  <2>2. \A e \in decisions' : e.check < checks' /\ Consistent(OfCheck(results', e.check), e)
    BY <1>1, <1>3, <1>5, <2>1 DEF DeskInv, StoredOK
  <2>3. \A row \in results' : row.check < checks'
    BY <1>1 DEF DeskInv, StoredOK
  <2> QED
    BY <2>2, <2>3 DEF StoredOK
<1>8. WorkOK'
  <2> SUFFICES ASSUME NEW t \in Sessions, work'[t] # Idle
               PROVE  JobOK(t)'
    BY DEF WorkOK
  <2>1. t # s /\ work'[t] = work[t] /\ work[t] # Idle /\ JobOK(t)
    BY <1>4 DEF DeskInv, WorkOK
  <2>2. \A e \in decisions' : e.check # work[t].decision.check
    BY <1>1, <1>2, <2>1 DEF JobOK
  <2>3. \A u \in Sessions \ {t} : work'[u] # Idle => work'[u].decision.check # work[t].decision.check
    BY <1>4, <2>1 DEF JobOK
  <2> QED
    BY <1>1, <1>5, <2>1, <2>2, <2>3 DEF JobOK
<1> QED
  BY <1>6, <1>7, <1>8 DEF DeskInv

(* An override is a row with a number of its own. *)
LEMMA OverrideKeepsInv ==
  ASSUME DeskInv, NEW s \in Sessions, NEW n \in Noms, NEW q \in Rules,
         NEW result \in RuleResultStatus, NEW a, NEW w, RecordOverride(s, n, q, result, a, w)
  PROVE  DeskInv'
<1> DEFINE row == [nom |-> n, check |-> checks, rule |-> q, result |-> result, override |-> TRUE]
<1>1. /\ checks < MaxChecks /\ checks' = checks + 1 /\ results' = results \cup {row}
      /\ decisions' = decisions /\ work' = work
  <2> DEFINE r == [rule |-> q, result |-> result, override |-> TRUE]
  <2>1. Stamped({r}, n, checks) =
          {[nom |-> n, check |-> checks, rule |-> r.rule, result |-> r.result, override |-> r.override]}
    BY DEF Stamped
  <2>2. Stamped({ManualOverride(q, result)}, n, checks) = {row}
    BY <2>1 DEF ManualOverride
  <2> QED
    BY <2>2 DEF RecordOverride
<1>2. row \in ResultRow
  <2>1. checks \in 0 .. MaxChecks
    BY DEF DeskInv, TypeOK
  <2> QED
    BY <2>1 DEF ResultRow
<1>3. TypeOK'
  <2>1. results' \subseteq ResultRow
    BY <1>1, <1>2 DEF DeskInv, TypeOK
  <2>2. checks' \in 0 .. MaxChecks
    BY <1>1 DEF DeskInv, TypeOK
  <2> QED
    BY <1>1, <2>1, <2>2 DEF DeskInv, TypeOK
<1>4. \A c : c # checks => OfCheck(results', c) = OfCheck(results, c)
  BY <1>1 DEF OfCheck
<1>5. StoredOK'
  <2>1. \A r \in results' : r.check < checks'
    BY <1>1, NumberedBefore
  <2>2. \A e \in decisions' : e.check < checks' /\ Consistent(OfCheck(results', e.check), e)
    <3>1. \A e \in decisions : e.check < checks' /\ e.check # checks
      BY <1>1, NumberedBefore
    <3> QED
      BY <1>1, <1>4, <3>1 DEF DeskInv, StoredOK
  <2> QED
    BY <2>1, <2>2 DEF StoredOK
<1>6. WorkOK'
  <2> SUFFICES ASSUME NEW t \in Sessions, work'[t] # Idle
               PROVE  JobOK(t)'
    BY DEF WorkOK
  <2>1. JobOK(t) /\ work[t].decision.check \in Nat /\ work[t].decision.check < checks /\ checks \in Nat
    BY <1>1, NumberedBefore DEF DeskInv, WorkOK
  <2>2. OfCheck(results', work[t].decision.check) = OfCheck(results, work[t].decision.check)
    BY <1>4, <2>1
  <2>3. work[t].decision.check < checks'
    BY <1>1, <2>1
  <2> QED
    BY <1>1, <2>1, <2>2, <2>3 DEF JobOK
<1> QED
  BY <1>3, <1>5, <1>6 DEF DeskInv

(* A failure drops what a session held and leaves the tables. *)
LEMMA FailKeepsInv ==
  ASSUME DeskInv, NEW s \in Sessions, Fail(s)
  PROVE  DeskInv'
<1>1. /\ work' = [work EXCEPT ![s] = Idle] /\ results' = results
      /\ decisions' = decisions /\ checks' = checks
  BY DEF Fail
<1>2. work'[s] = Idle /\ \A t \in Sessions \ {s} : work'[t] = work[t]
  BY <1>1 DEF DeskInv, TypeOK
<1>3. TypeOK'
  BY <1>1 DEF DeskInv, TypeOK
<1>4. StoredOK'
  BY <1>1 DEF DeskInv, StoredOK, OfCheck
<1>5. WorkOK'
  <2> SUFFICES ASSUME NEW t \in Sessions, work'[t] # Idle
               PROVE  JobOK(t)'
    BY DEF WorkOK
  <2>1. t # s /\ work'[t] = work[t] /\ work[t] # Idle /\ JobOK(t)
    BY <1>2 DEF DeskInv, WorkOK
  <2>2. \A u \in Sessions \ {t} : work'[u] # Idle => work'[u].decision.check # work[t].decision.check
    BY <1>2, <2>1 DEF JobOK
  <2>3. \A c : OfCheck(results', c) = OfCheck(results, c)
    BY <1>1 DEF OfCheck
  <2> QED
    BY <1>1, <2>1, <2>2, <2>3 DEF JobOK
<1> QED
  BY <1>3, <1>4, <1>5 DEF DeskInv

(* Every step keeps the invariant, action by action. *)
LEMMA InvStep == DeskInv /\ [Next]_vars => DeskInv'
<1> SUFFICES ASSUME DeskInv, [Next]_vars PROVE DeskInv'
  OBVIOUS
<1>1. ASSUME NEW s \in Sessions, NEW n \in Noms, NEW ctx \in [Rules -> Readings], RunCheck(s, n, ctx)
      PROVE  DeskInv'
  BY <1>1, BeginKeepsInv DEF RunCheck
<1>2. ASSUME NEW s \in Sessions, NEW n \in Noms, NEW ctx \in [Rules -> Readings], Redecide(s, n, ctx)
      PROVE  DeskInv'
  BY <1>2, BeginKeepsInv DEF Redecide
<1>3. ASSUME NEW s \in Sessions, NEW n \in Noms, NEW q \in Rules, NEW result \in RuleResultStatus,
             NEW a \in BOOLEAN, NEW w \in BOOLEAN, RecordOverride(s, n, q, result, a, w)
      PROVE  DeskInv'
  BY <1>3, OverrideKeepsInv
<1>4. ASSUME NEW s \in Sessions, StoreResults(s) \/ StoreDecision(s) \/ Fail(s)
      PROVE  DeskInv'
  BY <1>4, StoreResultsKeepsInv, StoreDecisionKeepsInv, FailKeepsInv
<1>5. CASE UNCHANGED vars
  BY <1>5 DEF vars, DeskInv, TypeOK, StoredOK, WorkOK, JobOK, OfCheck
<1> QED
  BY <1>1, <1>2, <1>3, <1>4, <1>5 DEF Next

(* Every reachable state of the eligibility desk satisfies the inductive    *)
(* invariant: checks under way and stored rows agree by their numbers.      *)
THEOREM InvHolds == Spec => []DeskInv
  BY InitInv, InvStep, PTL DEF Spec

(* Every reachable state of the eligibility desk has its types. *)
THEOREM TypeCorrect == Spec => []TypeOK
<1>1. DeskInv => TypeOK
  BY DEF DeskInv
<1> QED
  BY <1>1, InvHolds, PTL

------------------------------------------------------------------------------
(* The rows of a decision are the rows of its check: no number is used twice. *)
LEMMA RowsOfDecision ==
  ASSUME DeskInv, NEW d \in decisions
  PROVE  \E ctx \in [Rules -> Readings] :
           /\ RowsOf(d.nom, d.check) = Stamped(EvaluateRules(ctx), d.nom, d.check)
           /\ d.status = Decide(EvaluateRules(ctx))
<1>1. PICK ctx \in [Rules -> Readings] :
        /\ OfCheck(results, d.check) = Stamped(EvaluateRules(ctx), d.nom, d.check)
        /\ d.status = Decide(EvaluateRules(ctx))
  BY DEF DeskInv, StoredOK, Consistent
<1>2. RowsOf(d.nom, d.check) = {row \in OfCheck(results, d.check) : row.nom = d.nom}
  BY DEF RowsOf, OfCheck
<1>3. RowsOf(d.nom, d.check) = Stamped(EvaluateRules(ctx), d.nom, d.check)
  BY <1>1, <1>2 DEF Stamped
<1> QED
  BY <1>1, <1>3

(* No decision is on record without the results it was taken on, and it is    *)
(* the decision they call for: add_eligibility_decision comes second.        *)
THEOREM DecisionsAreBacked == Spec => []DecisionBacked
<1>1. DeskInv => DecisionBacked
  <2> SUFFICES ASSUME DeskInv, NEW d \in decisions
               PROVE  /\ {row.rule : row \in RowsOf(d.nom, d.check)} = Rules
                      /\ d.status = Decide({Plain(row) : row \in RowsOf(d.nom, d.check)})
    BY DEF DecisionBacked
  <2>1. PICK ctx \in [Rules -> Readings] :
          /\ RowsOf(d.nom, d.check) = Stamped(EvaluateRules(ctx), d.nom, d.check)
          /\ d.status = Decide(EvaluateRules(ctx))
    BY RowsOfDecision
  <2>2. \A row \in RowsOf(d.nom, d.check) : row.rule \in Rules
    BY <2>1, StampedOnly
  <2>3. \A q \in Rules : \E row \in RowsOf(d.nom, d.check) : row.rule = q
    <3> TAKE q \in Rules
    <3>1. [nom |-> d.nom, check |-> d.check, rule |-> q, result |-> EvaluateRule(ctx[q]),
           override |-> FALSE] \in RowsOf(d.nom, d.check)
      BY <2>1, StampedHas
    <3> QED
      BY <3>1
  <2> QED
    BY <2>1, <2>2, <2>3, PlainOfStamped
<1> QED
  BY <1>1, InvHolds, PTL

(* Every decision has the grounds decide promises among the automated results  *)
(* of its check that are on record: a missing answer is never adverse, nor    *)
(* lets anybody through.                                                      *)
THEOREM DecisionsHaveGrounds == Spec => []DecisionGrounds
<1>1. DeskInv => DecisionGrounds
  <2> SUFFICES ASSUME DeskInv, NEW d \in decisions
               PROVE  /\ d.status = "NotEligible" => \E q \in Required : Answered(d, q, {"Fail"})
                      /\ d.status = "PendingCriteria" =>
                           /\ \E q \in Required : Answered(d, q, {"Pending", "DataUnavailable"})
                           /\ \A q \in Required : ~Answered(d, q, {"Fail"})
                      /\ d.status = "Eligible" =>
                           \A q \in Required : Answered(d, q, {"Pass", "NotApplicable"})
    BY DEF DecisionGrounds
  <2>1. PICK ctx \in [Rules -> Readings] :
          /\ RowsOf(d.nom, d.check) = Stamped(EvaluateRules(ctx), d.nom, d.check)
          /\ d.status = Decide(EvaluateRules(ctx))
    BY RowsOfDecision
  <2>2. \A q \in Required : \A answers : Answered(d, q, answers) <=> EvaluateRule(ctx[q]) \in answers
    <3> TAKE q \in Required
    <3> TAKE answers
    <3>1. [nom |-> d.nom, check |-> d.check, rule |-> q, result |-> EvaluateRule(ctx[q]),
           override |-> FALSE] \in RowsOf(d.nom, d.check)
      BY <2>1, StampedHas
    <3>2. \A row \in RowsOf(d.nom, d.check) :
            row.rule \in Rules /\ row.result = EvaluateRule(ctx[row.rule])
      BY <2>1 DEF Stamped, EvaluateRules
    <3> QED
      BY <3>1, <3>2 DEF Answered
  <2>3. \A r \in EvaluateRules(ctx) :
          /\ Counts(r) => r.rule \in Required /\ r.result = EvaluateRule(ctx[r.rule])
    BY DEF EvaluateRules, Counts
  <2>4. \A q \in Required : \E r \in EvaluateRules(ctx) :
          Counts(r) /\ r.result = EvaluateRule(ctx[q])
    <3> TAKE q \in Required
    <3> DEFINE r == [rule |-> q, result |-> EvaluateRule(ctx[q]), override |-> FALSE]
    <3>1. r \in EvaluateRules(ctx) /\ Counts(r)
      BY DEF EvaluateRules, Counts
    <3> QED
      BY <3>1
  <2>5. ASSUME d.status = "NotEligible" PROVE \E q \in Required : Answered(d, q, {"Fail"})
    <3>1. \E r \in EvaluateRules(ctx) : Counts(r) /\ r.result = "Fail"
      BY <2>1, <2>5 DEF Decide
    <3> QED
      BY <2>2, <2>3, <3>1
  <2>6. ASSUME d.status = "PendingCriteria"
        PROVE  /\ \E q \in Required : Answered(d, q, {"Pending", "DataUnavailable"})
               /\ \A q \in Required : ~Answered(d, q, {"Fail"})
    <3>1. /\ ~\E r \in EvaluateRules(ctx) : Counts(r) /\ r.result = "Fail"
          /\ \E r \in EvaluateRules(ctx) : Counts(r) /\ r.result \in {"Pending", "DataUnavailable"}
      BY <2>1, <2>6 DEF Decide
    <3> QED
      BY <2>2, <2>3, <2>4, <3>1
  <2>7. ASSUME d.status = "Eligible", NEW q \in Required
        PROVE  Answered(d, q, {"Pass", "NotApplicable"})
    <3>1. \A r \in EvaluateRules(ctx) :
            Counts(r) => r.result \notin {"Fail", "Pending", "DataUnavailable"}
      BY <2>1, <2>7 DEF Decide
    <3>2. EvaluateRule(ctx[q]) \in RuleResultStatus \ {"Fail", "Pending", "DataUnavailable"}
      BY <2>4, <3>1, RuleResults
    <3> QED
      BY <2>2, <3>2 DEF RuleResultStatus
  <2> QED
    BY <2>5, <2>6, <2>7
<1> QED
  BY <1>1, InvHolds, PTL
=============================================================================
