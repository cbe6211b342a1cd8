---------------------------- MODULE PageForms_proofs ----------------------------
(***************************************************************************)
(* What the forms store and what an export of it is worth, for any names,  *)
(* TRF numbers, employees, sessions and tables to begin with.              *)
(***************************************************************************)
EXTENDS PageForms, TLAPS

(* Every reference in the tables leads to a row, and nominations agree with   *)
(* their batches.                                                             *)
TablesOK ==
  /\ Consistent(programs, batches)
  /\ \A i \in DOMAIN nominations :
       /\ nominations[i].program \in DOMAIN programs
       /\ nominations[i].batch \in DOMAIN batches
       /\ batches[nominations[i].batch].program = nominations[i].program

(* A nomination about to be checked or stored. *)
NominationOK(t) ==
  /\ t.row \in Nomination
  /\ t.row.program \in 1 .. t.programs
  /\ t.row.batch \in 1 .. t.batches
  /\ ProgramHonoured(t, t.row.program)
  /\ BatchHonoured(t, t.row.program, t.row.batch)

(* What a session has read is a part of the tables, and what it made of it    *)
(* honours the choice.                                                        *)
FormOK(t) ==
  /\ t.seen.programs <= Len(programs) /\ t.programs <= Len(programs)
  /\ t.seen.batches <= Len(batches) /\ t.batches <= Len(batches)
  /\ t.seen.nominations <= Len(nominations)
  /\ t.step = "batches" =>
       /\ t.page = "nominations" /\ t.seen.employee \in Employees
       /\ t.id \in 1 .. t.programs /\ ProgramHonoured(t, t.id)
  /\ t.step = "check" => t.page = "nominations"
  /\ t.step \in {"check", "insert"} /\ t.page = "nominations" => NominationOK(t)
  /\ t.step = "insert" /\ t.page = "batches" =>
       t.row \in Batch /\ t.row.program \in 1 .. t.programs /\ ProgramHonoured(t, t.row.program)
  /\ t.step = "insert" /\ t.page = "programs" => t.row \in ProgramNames
  /\ t.step = "audit" => t.page # "list"
  /\ t.step = "act" =>
       /\ t.id \in DOMAIN nominations
       /\ t.id = t.seen.nomination \/ t.seen.nominations < Len(nominations)

FormsOK == \A s \in Sessions : tab[s] # Closed => FormOK(tab[s])

Inv == TypeOK /\ TablesOK /\ FormsOK

(* A table grows at its end, or not at all. *)
Extends(before, after) ==
  Len(before) <= Len(after) /\ \A i \in 1 .. Len(before) : after[i] = before[i]

Grows ==
  Extends(programs, programs') /\ Extends(batches, batches') /\ Extends(nominations, nominations')

------------------------------------------------------------------------------
(* Appending a row extends a table by it. *)
LEMMA AppendExtends ==
  ASSUME NEW S, NEW q \in Seq(S), NEW x \in S
  PROVE  /\ Append(q, x) \in Seq(S) /\ Len(Append(q, x)) = Len(q) + 1
         /\ Append(q, x)[Len(q) + 1] = x
         /\ Extends(q, Append(q, x)) /\ Extends(q, q)
         /\ DOMAIN q = 1 .. Len(q) /\ DOMAIN Append(q, x) = 1 .. Len(q) + 1
BY DEF Extends

(* A table extends itself. *)
LEMMA SameExtends == ASSUME NEW S, NEW q \in Seq(S) PROVE Extends(q, q)
BY DEF Extends

(* A session without a page has nothing under way. *)
LEMMA ClosedIsNot == Closed \notin Run /\ Closed.step = "none" /\ Closed.page = "none"
BY DEF Closed, Run

(* What is read of the tables does not change while they grow. *)
LEMMA ReadsStay ==
  ASSUME TypeOK, TypeOK', Grows
  PROVE  /\ \A n \in Nat : n <= Len(programs) =>
              /\ Offered(n)' = Offered(n)
              /\ \A i, name : IsNamed(i, n, name)' = IsNamed(i, n, name)
              /\ \A i \in 1 .. n : programs'[i] = programs[i]
         /\ \A m \in Nat : m <= Len(batches) =>
              /\ \A p : TrfList(m, p)' = TrfList(m, p)
              /\ \A i \in 1 .. m : batches'[i] = batches[i]
<1>1. Len(programs) \in Nat /\ Len(batches) \in Nat
  BY DEF TypeOK
<1>2. ASSUME NEW n \in Nat, n <= Len(programs)
      PROVE  /\ Offered(n)' = Offered(n)
             /\ \A i, name : IsNamed(i, n, name)' = IsNamed(i, n, name)
             /\ \A i \in 1 .. n : programs'[i] = programs[i]
  <2>1. \A i \in 1 .. n : programs'[i] = programs[i]
    BY <1>1, <1>2 DEF Grows, Extends
  <2>2. Offered(n)' = Offered(n)
    BY <2>1 DEF Offered
  <2>3. ASSUME NEW i, NEW name PROVE IsNamed(i, n, name)' = IsNamed(i, n, name)
    <3>1. i \in 1 .. n => \A j \in i + 1 .. n : j \in 1 .. n
      OBVIOUS
    <3>2. IsNamed(i, n, name)' <=> IsNamed(i, n, name)
      BY <2>1, <3>1 DEF IsNamed
    <3> QED
      BY <3>2 DEF IsNamed
  <2> QED
    BY <2>1, <2>2, <2>3
<1>3. ASSUME NEW m \in Nat, m <= Len(batches)
      PROVE  /\ \A p : TrfList(m, p)' = TrfList(m, p)
             /\ \A i \in 1 .. m : batches'[i] = batches[i]
  <2>1. \A i \in 1 .. m : batches'[i] = batches[i]
    BY <1>1, <1>3 DEF Grows, Extends
  <2>2. ASSUME NEW p PROVE TrfList(m, p)' = TrfList(m, p)
    <3>1. Own(m, p)' = Own(m, p) /\ Own(m, p) \subseteq 1 .. m
      BY <2>1 DEF Own
    <3>2. \A i \in Own(m, p) : batches'[i].trf = batches[i].trf
      BY <2>1, <3>1
    <3> QED
      BY <3>1, <3>2 DEF TrfList
  <2> QED
    BY <2>1, <2>2
<1> QED
  BY <1>2, <1>3

(* A form nobody touches stays in order while the tables grow. *)
LEMMA FormStays ==
  ASSUME TypeOK, TypeOK', Grows, NEW t \in Run, FormOK(t)
  PROVE  FormOK(t)'
<1>1. /\ t.seen.programs \in Nat /\ t.programs \in Nat /\ t.seen.batches \in Nat
      /\ t.batches \in Nat /\ t.seen.nominations \in Nat
  BY DEF Run, Choice
<1>2. /\ Len(programs) \in Nat /\ Len(programs') \in Nat /\ Len(programs) <= Len(programs')
      /\ Len(batches) \in Nat /\ Len(batches') \in Nat /\ Len(batches) <= Len(batches')
      /\ Len(nominations) \in Nat /\ Len(nominations') \in Nat
      /\ Len(nominations) <= Len(nominations')
  BY DEF Grows, Extends, TypeOK
<1>3. /\ t.seen.programs <= Len(programs) /\ t.programs <= Len(programs)
      /\ t.seen.batches <= Len(batches) /\ t.batches <= Len(batches)
      /\ t.seen.nominations <= Len(nominations)
  BY DEF FormOK
<1>4. /\ t.seen.programs <= Len(programs') /\ t.programs <= Len(programs')
      /\ t.seen.batches <= Len(batches') /\ t.batches <= Len(batches')
      /\ t.seen.nominations <= Len(nominations')
  <2>1. \A a, b, c \in Nat : a <= b /\ b <= c => a <= c
    OBVIOUS
  <2> QED
    BY <1>1, <1>2, <1>3, <2>1
<1>5. /\ Offered(t.programs)' = Offered(t.programs)
      /\ \A i \in 1 .. t.programs : programs'[i] = programs[i]
  BY <1>1, <1>3, ReadsStay
<1>6. /\ Offered(t.seen.programs)' = Offered(t.seen.programs)
      /\ \A i, name : IsNamed(i, t.seen.programs, name)' = IsNamed(i, t.seen.programs, name)
  BY <1>1, <1>3, ReadsStay
<1>7. /\ \A p : TrfList(t.batches, p)' = TrfList(t.batches, p)
      /\ \A p : TrfList(t.seen.batches, p)' = TrfList(t.seen.batches, p)
      /\ \A i \in 1 .. t.batches : batches'[i] = batches[i]
  BY <1>1, <1>3, ReadsStay
<1>8. ASSUME NEW p \in 1 .. t.programs, ProgramHonoured(t, p)
      PROVE  ProgramHonoured(t, p)'
  BY <1>5, <1>6, <1>8 DEF ProgramHonoured
<1>9. ASSUME NominationOK(t) PROVE NominationOK(t)'
  <2>1. ProgramHonoured(t, t.row.program)'
    BY <1>8, <1>9 DEF NominationOK
  <2>2. BatchHonoured(t, t.row.program, t.row.batch)'
    BY <1>7, <1>9 DEF NominationOK, BatchHonoured
  <2> QED
    BY <1>9, <2>1, <2>2 DEF NominationOK
<1>10. t.step = "batches" =>
         /\ t.page = "nominations" /\ t.seen.employee \in Employees
         /\ t.id \in 1 .. t.programs /\ ProgramHonoured(t, t.id)'
  BY <1>8 DEF FormOK
<1>11. t.step = "insert" /\ t.page = "batches" =>
         t.row \in Batch /\ t.row.program \in 1 .. t.programs /\ ProgramHonoured(t, t.row.program)'
  BY <1>8 DEF FormOK
<1>12. t.step = "act" =>
         /\ t.id \in DOMAIN nominations'
         /\ t.id = t.seen.nomination \/ t.seen.nominations < Len(nominations')
  <2>1. DOMAIN nominations = 1 .. Len(nominations) /\ DOMAIN nominations' = 1 .. Len(nominations')
    BY DEF TypeOK
  <2> QED
    BY <1>1, <1>2, <2>1 DEF FormOK
<1>13. t.step \in {"check", "insert"} /\ t.page = "nominations" => NominationOK(t)'
  BY <1>9 DEF FormOK
<1> QED
  BY <1>4, <1>10, <1>11, <1>12, <1>13 DEF FormOK

(* Tables that grow by rows whose references lead to rows stay in order. *)
LEMMA TablesStay ==
  ASSUME TypeOK, TypeOK', Grows, TablesOK, Consistent(programs', batches'),
         \A i \in DOMAIN nominations' \ DOMAIN nominations :
           /\ nominations'[i].program \in DOMAIN programs
           /\ nominations'[i].batch \in DOMAIN batches
           /\ batches[nominations'[i].batch].program = nominations'[i].program
  PROVE  TablesOK'
<1>1. /\ DOMAIN programs = 1 .. Len(programs) /\ DOMAIN programs' = 1 .. Len(programs')
      /\ DOMAIN batches = 1 .. Len(batches) /\ DOMAIN batches' = 1 .. Len(batches')
      /\ DOMAIN nominations = 1 .. Len(nominations)
      /\ Len(programs) \in Nat /\ Len(batches) \in Nat
      /\ Len(programs') \in Nat /\ Len(batches') \in Nat
  BY DEF TypeOK
<1>2. DOMAIN programs \subseteq DOMAIN programs' /\ DOMAIN batches \subseteq DOMAIN batches'
  BY <1>1 DEF Grows, Extends
<1>3. ASSUME NEW i \in DOMAIN nominations'
      PROVE  /\ nominations'[i].program \in DOMAIN programs'
             /\ nominations'[i].batch \in DOMAIN batches'
             /\ batches'[nominations'[i].batch].program = nominations'[i].program
  <2>1. /\ nominations'[i].program \in DOMAIN programs
        /\ nominations'[i].batch \in DOMAIN batches
        /\ batches[nominations'[i].batch].program = nominations'[i].program
    <3>1. CASE i \in DOMAIN nominations
      <4>1. nominations'[i] = nominations[i]
        BY <1>1, <3>1 DEF Grows, Extends
      <4> QED
        BY <3>1, <4>1 DEF TablesOK
    <3>2. CASE i \notin DOMAIN nominations
      BY <3>2
    <3> QED
      BY <3>1, <3>2
  <2>2. batches'[nominations'[i].batch] = batches[nominations'[i].batch]
    BY <1>1, <2>1 DEF Grows, Extends
  <2> QED
    BY <1>2, <2>1, <2>2
<1> QED
  BY <1>3 DEF TablesOK

(* A step of one session: the tables grow, and its own form is in order. *)
LEMMA OneStep ==
  ASSUME Inv, TypeOK', Grows, TablesOK', NEW s \in Sessions, NEW w,
         tab' = [tab EXCEPT ![s] = w], w = Closed \/ FormOK(w)'
  PROVE  Inv'
<1> SUFFICES ASSUME NEW u \in Sessions, tab'[u] # Closed PROVE FormOK(tab[u])'
  BY DEF Inv, FormsOK
<1>1. tab \in [Sessions -> {Closed} \cup Run]
  BY DEF Inv, TypeOK
<1>2. CASE u = s
  BY <1>1, <1>2
<1>3. CASE u # s
  <2>1. PICK t : t = tab[u]
    OBVIOUS
  <2>2. t = tab'[u] /\ t \in Run
    BY <1>1, <1>3, <2>1
  <2>3. FormOK(t)
    BY <2>1, <2>2 DEF Inv, FormsOK
  <2>4. FormOK(t)'
    BY <2>2, <2>3, FormStays DEF Inv
  <2> QED
    BY <2>2, <2>4
<1> QED
  BY <1>2, <1>3

(* A step of one session that leaves the tables alone. *)
LEMMA QuietStep ==
  ASSUME Inv, NEW s \in Sessions, NEW w \in {Closed} \cup Run,
         tab' = [tab EXCEPT ![s] = w], w = Closed \/ FormOK(w), UNCHANGED tables
  PROVE  Inv'
<1>1. /\ programs' = programs /\ batches' = batches /\ nominations' = nominations
      /\ audited' = audited /\ handled' = handled
  BY DEF tables
<1>2. TypeOK'
  BY <1>1 DEF Inv, TypeOK
<1>3. Grows
  BY <1>1, SameExtends DEF Inv, TypeOK, Grows
<1>4. TablesOK'
  BY <1>1 DEF Inv, TablesOK, Consistent
<1>5. w = Closed \/ FormOK(w)'
  BY <1>2, <1>3, FormStays DEF Inv
<1> QED
  BY <1>2, <1>3, <1>4, <1>5, OneStep

(* Going away loses the form and nothing else. *)
LEMMA LeaveKeeps ==
  ASSUME Inv, NEW s \in Sessions, tab' = [tab EXCEPT ![s] = Closed], UNCHANGED tables
  PROVE  Inv'
BY QuietStep

(* The tables are finite sequences of their rows. *)
LEMMA Lengths ==
  ASSUME Inv
  PROVE  /\ Len(programs) \in Nat /\ Len(batches) \in Nat /\ Len(nominations) \in Nat
         /\ DOMAIN programs = 1 .. Len(programs) /\ DOMAIN batches = 1 .. Len(batches)
         /\ DOMAIN nominations = 1 .. Len(nominations)
         /\ \A i \in 1 .. Len(programs) : programs[i] \in ProgramNames
         /\ \A i \in 1 .. Len(batches) : batches[i] \in Batch
BY DEF Inv, TypeOK

(* A page that is drawn has not decided anything. *)
LEMMA ShowKeeps ==
  ASSUME Inv, NEW s \in Sessions, NEW page \in {"batches", "nominations", "list"},
         NEW seen \in Choice, Show(s, page, seen),
         seen.programs <= Len(programs), seen.batches <= Len(batches),
         seen.nominations <= Len(nominations)
  PROVE  Inv'
<1> DEFINE w == [page |-> page, step |-> "shown", seen |-> seen,
                 programs |-> 0, batches |-> 0, id |-> 0, row |-> None]
<1>1. tab' = [tab EXCEPT ![s] = w] /\ UNCHANGED tables
  BY DEF Show
<1>2. w \in Run
  BY DEF Run
<1>3. FormOK(w)
  BY Lengths DEF FormOK
<1> QED
  BY <1>1, <1>2, <1>3, QuietStep

(* The pages are drawn from the tables as they are. *)
LEMMA OpenKeeps ==
  ASSUME Inv, NEW s \in Sessions, OpenBatches(s) \/ OpenNominations(s) \/ OpenList(s)
  PROVE  Inv'
<1>1. Len(programs) \in Nat /\ Len(batches) \in Nat /\ Len(nominations) \in Nat
  BY Lengths
<1>2. ASSUME NEW n \in Nat, NEW m \in Nat, NEW k \in Nat, NEW p \in Nat,
             n <= Len(programs), m <= Len(batches), k <= Len(nominations),
             NEW page \in {"batches", "nominations", "list"}, Show(s, page, Unfilled(n, m, k, p))
      PROVE  Inv'
  <2>1. PICK seen : seen = Unfilled(n, m, k, p)
    OBVIOUS
  <2>2. seen \in Choice /\ seen.programs = n /\ seen.batches = m /\ seen.nominations = k
    BY <2>1 DEF Unfilled, Choice
  <2>3. Show(s, page, seen)
    BY <1>2, <2>1
  <2> QED
    BY <1>2, <2>2, <2>3, ShowKeeps
<1>3. CASE OpenBatches(s)
  BY <1>1, <1>2, <1>3 DEF OpenBatches
<1>4. CASE OpenNominations(s)
  <2>1. PICK p \in 1 .. Len(programs) : Show(s, "nominations", Unfilled(Len(programs), Len(batches), 0, p))
    BY <1>4 DEF OpenNominations
  <2> QED
    BY <1>1, <1>2, <2>1
<1>5. CASE OpenList(s)
  BY <1>1, <1>2, <1>5 DEF OpenList
<1> QED
  BY <1>3, <1>4, <1>5

(* A program to be stored has its name. *)
LEMMA SubmitProgramKeeps ==
  ASSUME Inv, NEW s \in Sessions, NEW name \in ProgramNames, SubmitProgram(s, name)
  PROVE  Inv'
<1>1. PICK seen : seen = Unfilled(0, 0, 0, 0)
  OBVIOUS
<1>2. seen \in Choice /\ seen.programs = 0 /\ seen.batches = 0 /\ seen.nominations = 0
  BY <1>1 DEF Unfilled, Choice
<1> DEFINE w == [page |-> "programs", step |-> "insert", seen |-> seen,
                 programs |-> 0, batches |-> 0, id |-> 0, row |-> name]
<1>3. w \in Run
  BY <1>2 DEF Run
<1>4. FormOK(w)
  BY <1>2, Lengths DEF FormOK
<1>5. tab' = [tab EXCEPT ![s] = w] /\ UNCHANGED tables
  BY <1>1 DEF SubmitProgram
<1> QED
  BY <1>3, <1>4, <1>5, QuietStep

(* The program found for a submission honours the name chosen. *)
LEMMA LookupHonours ==
  ASSUME Inv, NEW t, t.programs = Len(programs),
         NEW p \in 1 .. Len(programs),
         NEW selected \in Reselected(t.seen, t.programs), IsNamed(p, t.programs, selected)
  PROVE  ProgramHonoured(t, p)
<1>1. Offered(t.programs) = Offered(t.seen.programs) => selected = t.seen.program
  BY DEF Reselected, Reselect
<1>2. Offered(t.programs) = Offered(t.seen.programs) => programs[p] = t.seen.program
  BY <1>1 DEF IsNamed
<1>3. t.programs = t.seen.programs => IsNamed(p, t.seen.programs, t.seen.program)
  BY <1>1
<1> QED
  BY <1>2, <1>3 DEF ProgramHonoured

(* A batch to be stored has the program found for the name chosen. *)
LEMMA SubmitBatchKeeps ==
  ASSUME Inv, NEW s \in Sessions, NEW name \in ProgramNames, NEW trf \in Trfs, SubmitBatch(s, name, trf)
  PROVE  Inv'
<1>1. PICK t : t = tab[s]
  OBVIOUS
<1>2. PICK seen : seen = [t.seen EXCEPT !.program = name, !.trf = trf]
  OBVIOUS
<1>3. PICK n : n = Len(programs)
  OBVIOUS
<1>4. /\ t.page = "batches" /\ t.step = "shown" /\ UNCHANGED tables
      /\ \E p \in 1 .. n :
           /\ \E selected \in Reselected(seen, n) : IsNamed(p, n, selected)
           /\ tab' = [tab EXCEPT ![s] = [t EXCEPT !.step = "insert", !.seen = seen,
                !.programs = n, !.row = [program |-> p, trf |-> trf]]]
  BY <1>1, <1>2, <1>3 DEF SubmitBatch
<1>5. t \in Run /\ t # Closed /\ FormOK(t)
  BY <1>1, <1>4, ClosedIsNot DEF Inv, TypeOK, FormsOK
<1>6. /\ seen \in Choice /\ seen.programs = t.seen.programs /\ seen.batches = t.seen.batches
      /\ seen.nominations = t.seen.nominations
  BY <1>2, <1>5 DEF Run, Choice
<1>7. PICK p \in 1 .. n :
        /\ \E selected \in Reselected(seen, n) : IsNamed(p, n, selected)
        /\ tab' = [tab EXCEPT ![s] = [t EXCEPT !.step = "insert", !.seen = seen,
             !.programs = n, !.row = [program |-> p, trf |-> trf]]]
  BY <1>4
<1> DEFINE row == [program |-> p, trf |-> trf]
<1>8. PICK w : w = [t EXCEPT !.step = "insert", !.seen = seen, !.programs = n, !.row = row]
  OBVIOUS
<1>9. n \in Nat /\ row \in Batch /\ row.program = p
  BY <1>3, <1>7, Lengths DEF Batch
<1> HIDE DEF row
<1>10. /\ w \in Run /\ w.page = "batches" /\ w.step = "insert" /\ w.seen = seen
       /\ w.programs = n /\ w.batches = t.batches /\ w.row = row
  BY <1>4, <1>5, <1>6, <1>8, <1>9 DEF Run
<1>11. ProgramHonoured(w, p)
  BY <1>3, <1>7, <1>10, LookupHonours
<1>12. FormOK(w)
  BY <1>3, <1>5, <1>6, <1>9, <1>10, <1>11 DEF FormOK
<1>13. tab' = [tab EXCEPT ![s] = w]
  BY <1>7, <1>8 DEF row
<1> QED
  BY <1>4, <1>10, <1>12, <1>13, QuietStep

(* A nomination starts with the program found for the name chosen. *)
LEMMA SubmitNominationKeeps ==
  ASSUME Inv, NEW s \in Sessions, NEW e \in Employees, NEW name \in ProgramNames,
         NEW trf \in Trfs \cup {None}, SubmitNomination(s, e, name, trf)
  PROVE  Inv'
<1>1. PICK t : t = tab[s]
  OBVIOUS
<1>2. PICK seen : seen = [t.seen EXCEPT !.program = name, !.trf = trf, !.employee = e]
  OBVIOUS
<1>3. PICK n : n = Len(programs)
  OBVIOUS
<1>4. /\ t.page = "nominations" /\ t.step = "shown" /\ UNCHANGED tables
      /\ \E p \in 1 .. n :
           /\ \E selected \in Reselected(seen, n) : IsNamed(p, n, selected)
           /\ tab' = [tab EXCEPT ![s] =
                [t EXCEPT !.step = "batches", !.seen = seen, !.programs = n, !.id = p]]
  BY <1>1, <1>2, <1>3 DEF SubmitNomination
<1>5. t \in Run /\ t # Closed /\ FormOK(t)
  BY <1>1, <1>4, ClosedIsNot DEF Inv, TypeOK, FormsOK
<1>6. /\ seen \in Choice /\ seen.programs = t.seen.programs /\ seen.batches = t.seen.batches
      /\ seen.nominations = t.seen.nominations /\ seen.employee = e
  BY <1>2, <1>5 DEF Run, Choice
<1>7. PICK p \in 1 .. n :
        /\ \E selected \in Reselected(seen, n) : IsNamed(p, n, selected)
        /\ tab' = [tab EXCEPT ![s] =
             [t EXCEPT !.step = "batches", !.seen = seen, !.programs = n, !.id = p]]
  BY <1>4
<1>8. PICK w : w = [t EXCEPT !.step = "batches", !.seen = seen, !.programs = n, !.id = p]
  OBVIOUS
<1>9. n \in Nat /\ p \in Nat
  BY <1>3, <1>7, Lengths
<1>10. /\ w \in Run /\ w.page = "nominations" /\ w.step = "batches" /\ w.seen = seen
       /\ w.programs = n /\ w.batches = t.batches /\ w.id = p
  BY <1>4, <1>5, <1>6, <1>8, <1>9 DEF Run
<1>11. ProgramHonoured(w, p)
  BY <1>3, <1>7, <1>10, LookupHonours
<1>12. FormOK(w)
  BY <1>3, <1>5, <1>6, <1>7, <1>9, <1>10, <1>11 DEF FormOK
<1>13. tab' = [tab EXCEPT ![s] = w]
  BY <1>7, <1>8
<1> QED
  BY <1>4, <1>10, <1>12, <1>13, QuietStep

(* The batch found is one of the program and, when the list shown still holds, *)
(* the one with the TRF chosen.                                               *)
LEMMA ReadBatchesKeeps ==
  ASSUME Inv, NEW s \in Sessions, ReadBatches(s)
  PROVE  Inv'
<1>1. PICK t : t = tab[s]
  OBVIOUS
<1>2. PICK m : m = Len(batches)
  OBVIOUS
<1>3. PICK p : p = t.id
  OBVIOUS
<1>4. /\ t.step = "batches" /\ UNCHANGED tables
      /\ \/ Own(m, p) = {} /\ tab' = [tab EXCEPT ![s] = Closed]
         \/ \E i \in Own(m, p) :
              /\ batches[i].trf \in
                   Reselect(TrfList(m, p) = TrfList(t.seen.batches, t.seen.under), t.seen.trf,
                            batches[FirstOf(Own(m, p))].trf, {batches[j].trf : j \in Own(m, p)})
              /\ tab' = [tab EXCEPT ![s] = [t EXCEPT !.step = "check", !.batches = m,
                                                     !.row = Row(t.seen, p, i)]]
  BY <1>1, <1>2, <1>3 DEF ReadBatches
<1>5. t \in Run /\ t # Closed /\ FormOK(t)
  BY <1>1, <1>4, ClosedIsNot DEF Inv, TypeOK, FormsOK
<1>6. CASE tab' = [tab EXCEPT ![s] = Closed]
  BY <1>4, <1>6, LeaveKeeps
<1>7. ASSUME NEW i \in Own(m, p),
             batches[i].trf \in
               Reselect(TrfList(m, p) = TrfList(t.seen.batches, t.seen.under), t.seen.trf,
                        batches[FirstOf(Own(m, p))].trf, {batches[j].trf : j \in Own(m, p)}),
             tab' = [tab EXCEPT ![s] = [t EXCEPT !.step = "check", !.batches = m,
                                                 !.row = Row(t.seen, p, i)]]
      PROVE  Inv'
  <2>1. PICK row : row = Row(t.seen, p, i)
    OBVIOUS
  <2>2. PICK w : w = [t EXCEPT !.step = "check", !.batches = m, !.row = row]
    OBVIOUS
  <2>3. /\ m \in Nat /\ i \in 1 .. m /\ batches[i].program = p
        /\ t.programs \in Nat /\ p \in 1 .. t.programs /\ p \in Nat \ {0}
        /\ t.page = "nominations" /\ t.seen.employee \in Employees /\ ProgramHonoured(t, p)
    <3>1. m \in Nat /\ i \in 1 .. m /\ batches[i].program = p
      BY <1>2, <1>7, Lengths DEF Own
    <3>2. t.programs \in Nat
      BY <1>5 DEF Run
    <3>3. /\ p \in 1 .. t.programs /\ t.page = "nominations" /\ t.seen.employee \in Employees
          /\ ProgramHonoured(t, p)
      BY <1>3, <1>4, <1>5 DEF FormOK
    <3> QED
      BY <3>1, <3>2, <3>3
  <2>4. row \in Nomination /\ row.program = p /\ row.batch = i
    BY <2>1, <2>3 DEF Row, Nomination
  <2>5. /\ w \in Run /\ w.page = "nominations" /\ w.step = "check" /\ w.seen = t.seen
        /\ w.programs = t.programs /\ w.batches = m /\ w.row = row
    BY <1>5, <2>2, <2>3, <2>4 DEF Run
  <2>6. p = t.seen.under /\ TrfList(m, p) = TrfList(t.seen.batches, p) => batches[i].trf = t.seen.trf
    BY <1>7 DEF Reselect
  <2>7. ProgramHonoured(w, p) /\ BatchHonoured(w, p, i)
    BY <2>3, <2>5, <2>6 DEF ProgramHonoured, BatchHonoured
  <2>8. NominationOK(w)
    BY <2>3, <2>4, <2>5, <2>7 DEF NominationOK
  <2>9. FormOK(w)
    BY <1>2, <1>5, <2>3, <2>5, <2>8 DEF FormOK
  <2>10. tab' = [tab EXCEPT ![s] = w]
    BY <1>7, <2>1, <2>2
  <2> QED
    BY <1>4, <2>5, <2>9, <2>10, QuietStep
<1> QED
  BY <1>4, <1>6, <1>7

(* The duplicate check changes nothing about the nomination. *)
LEMMA CheckDuplicateKeeps ==
  ASSUME Inv, NEW s \in Sessions, CheckDuplicate(s)
  PROVE  Inv'
<1>1. PICK t : t = tab[s]
  OBVIOUS
<1>2. PICK w : w = [t EXCEPT !.step = "insert"]
  OBVIOUS
<1>3. t.step = "check" /\ UNCHANGED tables
  BY <1>1 DEF CheckDuplicate
<1>4. t \in Run /\ FormOK(t)
  BY <1>1, <1>3, ClosedIsNot DEF Inv, TypeOK, FormsOK
<1>5. CASE tab' = [tab EXCEPT ![s] = Closed]
  BY <1>3, <1>5, LeaveKeeps
<1>6. CASE tab' = [tab EXCEPT ![s] = w]
  <2>1. /\ w \in Run /\ w.page = t.page /\ w.step = "insert" /\ w.seen = t.seen
        /\ w.programs = t.programs /\ w.batches = t.batches /\ w.row = t.row
    BY <1>2, <1>4 DEF Run
  <2>2. t.page = "nominations" /\ NominationOK(t)
    BY <1>3, <1>4 DEF FormOK
  <2>3. NominationOK(w)
    BY <2>1, <2>2 DEF NominationOK, ProgramHonoured, BatchHonoured
  <2>4. FormOK(w)
    BY <1>4, <2>1, <2>2, <2>3 DEF FormOK
  <2> QED
    BY <1>3, <1>6, <2>1, <2>4, QuietStep
<1> QED
  BY <1>1, <1>2, <1>5, <1>6 DEF CheckDuplicate

(* The nomination to act on is one of those listed now. *)
LEMMA PressButtonKeeps ==
  ASSUME Inv, NEW s \in Sessions, NEW i \in 1 .. Len(nominations), PressButton(s, i)
  PROVE  Inv'
<1>1. PICK t : t = tab[s]
  OBVIOUS
<1>2. PICK k : k = Len(nominations)
  OBVIOUS
<1>3. /\ t.page = "list" /\ t.step = "shown" /\ UNCHANGED tables
      /\ i \in 1 .. t.seen.nominations
      /\ \E selected \in Reselect(k = t.seen.nominations, i, 1, 1 .. k) :
           tab' = [tab EXCEPT ![s] = [t EXCEPT !.step = "act", !.seen.nomination = i, !.id = selected]]
  BY <1>1, <1>2 DEF PressButton
<1>4. t \in Run /\ FormOK(t)
  BY <1>1, <1>3, ClosedIsNot DEF Inv, TypeOK, FormsOK
<1>5. PICK selected \in Reselect(k = t.seen.nominations, i, 1, 1 .. k) :
        tab' = [tab EXCEPT ![s] = [t EXCEPT !.step = "act", !.seen.nomination = i, !.id = selected]]
  BY <1>3
<1>6. PICK seen : seen = [t.seen EXCEPT !.nomination = i]
  OBVIOUS
<1>7. PICK w : w = [t EXCEPT !.step = "act", !.seen = seen, !.id = selected]
  OBVIOUS
<1>8. k \in Nat /\ i \in Nat /\ i \in 1 .. k /\ DOMAIN nominations = 1 .. k
  BY <1>2, Lengths
<1>9. /\ seen \in Choice /\ seen.programs = t.seen.programs /\ seen.batches = t.seen.batches
      /\ seen.nominations = t.seen.nominations /\ seen.nomination = i
  BY <1>4, <1>6, <1>8 DEF Run, Choice
<1>10. t.seen.nominations \in Nat /\ t.seen.nominations <= k
  BY <1>2, <1>4 DEF Run, Choice, FormOK
<1>11. selected \in 1 .. k /\ selected \in Nat
       /\ (selected = i \/ t.seen.nominations < k)
  BY <1>5, <1>8, <1>10 DEF Reselect
<1>12. /\ w \in Run /\ w.page = "list" /\ w.step = "act" /\ w.seen = seen
       /\ w.programs = t.programs /\ w.batches = t.batches /\ w.id = selected
  BY <1>3, <1>4, <1>7, <1>9, <1>11 DEF Run
<1>13. FormOK(w)
  BY <1>2, <1>4, <1>8, <1>9, <1>11, <1>12 DEF FormOK
<1>14. tab' = [tab EXCEPT ![s] = w]
  <2>1. [t EXCEPT !.step = "act", !.seen.nomination = i, !.id = selected] = w
    BY <1>6, <1>7
  <2> QED
    BY <1>5, <2>1
<1> QED
  BY <1>3, <1>12, <1>13, <1>14, QuietStep

(* A row is stored: the tables grow and the audit entry is next. *)
LEMMA StoringKeeps ==
  ASSUME Inv, NEW s \in Sessions, tab[s] # Closed, tab[s].page # "list",
         NEW id \in Nat, AuditNext(s, id), Grows,
         programs' \in Seq(ProgramNames), batches' \in Seq(Batch), nominations' \in Seq(Nomination),
         UNCHANGED <<audited, handled>>, Consistent(programs', batches'),
         \A i \in DOMAIN nominations' \ DOMAIN nominations :
           /\ nominations'[i].program \in DOMAIN programs
           /\ nominations'[i].batch \in DOMAIN batches
           /\ batches[nominations'[i].batch].program = nominations'[i].program
  PROVE  Inv'
<1>1. PICK t : t = tab[s]
  OBVIOUS
<1>2. PICK w : w = [t EXCEPT !.step = "audit", !.id = id]
  OBVIOUS
<1>3. t \in Run /\ FormOK(t)
  BY <1>1 DEF Inv, TypeOK, FormsOK
<1>4. /\ w \in Run /\ w.page = t.page /\ w.step = "audit" /\ w.seen = t.seen
      /\ w.programs = t.programs /\ w.batches = t.batches
  BY <1>2, <1>3 DEF Run
<1>5. tab' = [tab EXCEPT ![s] = w]
  BY <1>1, <1>2 DEF AuditNext
<1>6. FormOK(w)
  BY <1>1, <1>3, <1>4 DEF FormOK
<1>7. TypeOK'
  <2>1. handled' \subseteq DOMAIN nominations'
    BY Lengths DEF Inv, TypeOK, Grows, Extends
  <2>2. tab' \in [Sessions -> {Closed} \cup Run]
    BY <1>4, <1>5 DEF Inv, TypeOK
  <2>3. audited' \subseteq {"programs", "batches", "nominations"} \X Nat
    BY DEF Inv, TypeOK
  <2> QED
    BY <2>1, <2>2, <2>3 DEF TypeOK
<1>8. FormOK(w)'
  BY <1>4, <1>6, <1>7, FormStays DEF Inv
<1>9. TablesOK'
  BY <1>7, TablesStay DEF Inv
<1> QED
  BY <1>5, <1>7, <1>8, <1>9, OneStep

(* A new program is referred to by nothing yet. *)
LEMMA InsertProgramKeeps ==
  ASSUME Inv, NEW s \in Sessions, InsertProgram(s)
  PROVE  Inv'
<1>1. /\ tab[s].page = "programs" /\ tab[s].step = "insert"
      /\ programs' = Append(programs, tab[s].row) /\ AuditNext(s, Len(programs'))
      /\ UNCHANGED <<batches, nominations, audited, handled>>
  BY DEF InsertProgram, Stores
<1>2. tab[s] # Closed /\ tab[s].row \in ProgramNames
  BY <1>1, ClosedIsNot DEF Inv, FormsOK, FormOK
<1>3. /\ programs' \in Seq(ProgramNames) /\ Extends(programs, programs')
      /\ Len(programs') \in Nat /\ DOMAIN programs \subseteq DOMAIN programs'
  BY <1>1, <1>2, AppendExtends DEF Inv, TypeOK
<1>4. Grows
  BY <1>1, <1>3, SameExtends DEF Grows, Inv, TypeOK
<1>5. Consistent(programs', batches')
  BY <1>1, <1>3 DEF Inv, TablesOK, Consistent
<1> QED
  BY <1>1, <1>2, <1>3, <1>4, <1>5, StoringKeeps DEF Inv, TypeOK

(* The unique index keeps a second batch of the same program and TRF out. *)
LEMMA InsertBatchKeeps ==
  ASSUME Inv, NEW s \in Sessions, InsertBatch(s)
  PROVE  Inv'
<1>1. CASE tab' = [tab EXCEPT ![s] = Closed] /\ UNCHANGED batches
  BY <1>1, LeaveKeeps DEF InsertBatch, tables
<1>2. ASSUME /\ ~Taken(tab[s].row)
             /\ batches' = Append(batches, tab[s].row)
             /\ AuditNext(s, Len(batches'))
      PROVE  Inv'
  <2>1. PICK row : row = tab[s].row
    OBVIOUS
  <2>2. /\ tab[s].page = "batches" /\ tab[s].step = "insert"
        /\ batches' = Append(batches, row) /\ \A i \in DOMAIN batches : batches[i] # row
        /\ UNCHANGED <<programs, nominations, audited, handled>>
    BY <1>2, <2>1 DEF InsertBatch, Stores, Taken
  <2>3. tab[s] # Closed /\ tab[s] \in Run /\ FormOK(tab[s])
    BY <2>2, ClosedIsNot DEF Inv, TypeOK, FormsOK
  <2>4. row \in Batch /\ row.program \in DOMAIN programs
    <3>1. tab[s].programs \in Nat /\ tab[s].programs <= Len(programs)
      BY <2>3 DEF FormOK, Run
    <3>2. row \in Batch /\ row.program \in 1 .. tab[s].programs
      BY <2>1, <2>2, <2>3 DEF FormOK
    <3> QED
      BY <3>1, <3>2, Lengths
  <2>5. /\ batches' \in Seq(Batch) /\ Extends(batches, batches') /\ Len(batches') \in Nat
        /\ DOMAIN batches = 1 .. Len(batches) /\ Len(batches) \in Nat
        /\ DOMAIN batches' = 1 .. Len(batches) + 1 /\ batches'[Len(batches) + 1] = row
        /\ \A i \in DOMAIN batches : batches'[i] = batches[i]
    BY <2>2, <2>4, AppendExtends DEF Inv, TypeOK, Extends
  <2>6. Grows
    BY <2>2, <2>5, SameExtends DEF Grows, Inv, TypeOK
  <2>7. \A i \in DOMAIN batches' : i \in DOMAIN batches \/ i = Len(batches) + 1
    BY <2>5
  <2>8. Consistent(programs', batches')
    <3>1. ASSUME NEW i \in DOMAIN batches' PROVE batches'[i].program \in DOMAIN programs'
      BY <2>2, <2>4, <2>5, <2>7 DEF Inv, TablesOK, Consistent
    <3>2. ASSUME NEW i \in DOMAIN batches', NEW j \in DOMAIN batches', batches'[i] = batches'[j]
          PROVE  i = j
      BY <2>2, <2>5, <2>7, <3>2 DEF Inv, TablesOK, Consistent
    <3> QED
      BY <3>1, <3>2 DEF Consistent
  <2> QED
    BY <1>2, <2>2, <2>3, <2>5, <2>6, <2>8, StoringKeeps DEF Inv, TypeOK
<1> QED
  BY <1>1, <1>2 DEF InsertBatch

(* The nomination stored names rows that were read, and rows stay. *)
LEMMA InsertNominationKeeps ==
  ASSUME Inv, NEW s \in Sessions, InsertNomination(s)
  PROVE  Inv'
<1>1. PICK row : row = tab[s].row
  OBVIOUS
<1>2. /\ tab[s].page = "nominations" /\ tab[s].step = "insert"
      /\ nominations' = Append(nominations, row) /\ AuditNext(s, Len(nominations'))
      /\ UNCHANGED <<programs, batches, audited, handled>>
  BY <1>1 DEF InsertNomination, Stores
<1>3. tab[s] # Closed /\ tab[s] \in Run /\ FormOK(tab[s])
  BY <1>2, ClosedIsNot DEF Inv, TypeOK, FormsOK
<1>4. NominationOK(tab[s])
  BY <1>2, <1>3 DEF FormOK
<1>5. /\ row \in Nomination /\ row.program \in DOMAIN programs /\ row.batch \in DOMAIN batches
      /\ batches[row.batch].program = row.program
  <2>1. /\ tab[s].programs \in Nat /\ tab[s].programs <= Len(programs)
        /\ tab[s].batches \in Nat /\ tab[s].batches <= Len(batches)
    BY <1>3 DEF FormOK, Run
  <2> QED
    BY <1>1, <1>4, <2>1, Lengths DEF NominationOK, BatchHonoured
<1>6. /\ nominations' \in Seq(Nomination) /\ Extends(nominations, nominations')
      /\ Len(nominations') \in Nat
      /\ \A i \in DOMAIN nominations' \ DOMAIN nominations : nominations'[i] = row
  <2>1. /\ nominations' \in Seq(Nomination) /\ Extends(nominations, nominations')
        /\ DOMAIN nominations = 1 .. Len(nominations) /\ Len(nominations) \in Nat
        /\ DOMAIN nominations' = 1 .. Len(nominations) + 1
        /\ nominations'[Len(nominations) + 1] = row
    BY <1>2, <1>5, AppendExtends DEF Inv, TypeOK
  <2>2. \A i \in DOMAIN nominations' \ DOMAIN nominations : i = Len(nominations) + 1
    BY <2>1
  <2> QED
    BY <2>1, <2>2
<1>7. Grows
  BY <1>2, <1>6, SameExtends DEF Grows, Inv, TypeOK
<1>8. Consistent(programs', batches')
  BY <1>2 DEF Inv, TablesOK, Consistent
<1> QED
  BY <1>2, <1>3, <1>5, <1>6, <1>7, <1>8, StoringKeeps DEF Inv, TypeOK

(* The end of a run that has added to the audit log or to what was handled. *)
LEMMA EndKeeps ==
  ASSUME Inv, NEW s \in Sessions, Audit(s) \/ Act(s)
  PROVE  Inv'
<1>1. /\ tab' = [tab EXCEPT ![s] = Closed]
      /\ programs' = programs /\ batches' = batches /\ nominations' = nominations
  BY DEF Audit, Act
<1>2. audited' \subseteq {"programs", "batches", "nominations"} \X Nat /\ handled' \subseteq DOMAIN nominations
  <2>1. PICK t : t = tab[s]
    OBVIOUS
  <2>2. CASE Audit(s)
    <3>1. t \in Run /\ FormOK(t) /\ t.step = "audit"
      BY <2>1, <2>2, ClosedIsNot DEF Audit, Inv, TypeOK, FormsOK
    <3>2. t.page \in {"programs", "batches", "nominations"} /\ t.id \in Nat
      BY <3>1 DEF FormOK, Run
    <3> QED
      BY <2>1, <2>2, <3>2 DEF Audit, Inv, TypeOK
  <2>3. CASE Act(s)
    <3>1. FormOK(t) /\ t.step = "act"
      BY <2>1, <2>3, ClosedIsNot DEF Act, Inv, FormsOK
    <3>2. t.id \in DOMAIN nominations
      BY <3>1 DEF FormOK
    <3> QED
      BY <2>1, <2>3, <3>2 DEF Act, Inv, TypeOK
  <2> QED
    BY <2>2, <2>3
<1>3. TypeOK'
  BY <1>1, <1>2 DEF Inv, TypeOK
<1>4. Grows
  BY <1>1, SameExtends DEF Inv, TypeOK, Grows
<1>5. TablesOK'
  BY <1>1 DEF Inv, TablesOK, Consistent
<1> QED
  BY <1>1, <1>3, <1>4, <1>5, OneStep

(* To begin with nothing is open and nobody nominated. *)
LEMMA Initially == Init => Inv
<1> SUFFICES ASSUME Init PROVE Inv
  OBVIOUS
<1>1. nominations = << >> /\ << >> \in Seq(Nomination) /\ DOMAIN nominations = {}
  BY DEF Init
<1>2. TypeOK
  BY <1>1, FormAssumption DEF Init, TypeOK
<1>3. TablesOK
  BY <1>1, FormAssumption DEF Init, TablesOK
<1>4. FormsOK
  BY DEF Init, FormsOK
<1> QED
  BY <1>2, <1>3, <1>4 DEF Inv

(* Every step of every session keeps the invariant. *)
LEMMA StepKeeps == Inv /\ [Next]_vars => Inv'
<1> SUFFICES ASSUME Inv, [Next]_vars PROVE Inv'
  OBVIOUS
<1>1. CASE UNCHANGED vars
  <2>1. TypeOK' /\ TablesOK'
    BY <1>1 DEF vars, Inv, TypeOK, TablesOK, Consistent
  <2>2. Grows
    BY <1>1, SameExtends DEF vars, Inv, TypeOK, Grows
  <2>3. ASSUME NEW s \in Sessions, tab[s] # Closed PROVE FormOK(tab[s])'
    <3>1. PICK t : t = tab[s]
      OBVIOUS
    <3>2. t \in Run /\ FormOK(t) /\ tab'[s] = t
      BY <1>1, <2>3, <3>1 DEF vars, Inv, TypeOK, FormsOK
    <3> QED
      BY <2>1, <2>2, <3>2, FormStays DEF Inv
  <2>4. FormsOK'
    BY <1>1, <2>3 DEF vars, FormsOK
  <2> QED
    BY <2>1, <2>4 DEF Inv
<1>2. ASSUME NEW s \in Sessions, OpenBatches(s) \/ OpenNominations(s) \/ OpenList(s) PROVE Inv'
  BY <1>2, OpenKeeps
<1>3. ASSUME NEW s \in Sessions, NEW name \in ProgramNames, SubmitProgram(s, name) PROVE Inv'
  BY <1>3, SubmitProgramKeeps
<1>4. ASSUME NEW s \in Sessions, NEW name \in ProgramNames, NEW trf \in Trfs, SubmitBatch(s, name, trf)
      PROVE  Inv'
  BY <1>4, SubmitBatchKeeps
<1>5. ASSUME NEW s \in Sessions, NEW e \in Employees, NEW name \in ProgramNames,
             NEW trf \in Trfs \cup {None}, SubmitNomination(s, e, name, trf)
      PROVE  Inv'
  BY <1>5, SubmitNominationKeeps
<1>6. ASSUME NEW s \in Sessions, ReadBatches(s) \/ CheckDuplicate(s) PROVE Inv'
  BY <1>6, ReadBatchesKeeps, CheckDuplicateKeeps
<1>7. ASSUME NEW s \in Sessions, InsertProgram(s) \/ InsertBatch(s) \/ InsertNomination(s) PROVE Inv'
  BY <1>7, InsertProgramKeeps, InsertBatchKeeps, InsertNominationKeeps
<1>8. ASSUME NEW s \in Sessions, Audit(s) \/ Act(s) PROVE Inv'
  BY <1>8, EndKeeps
<1>9. ASSUME NEW s \in Sessions, NEW i \in 1 .. Len(nominations), PressButton(s, i) PROVE Inv'
  BY <1>9, PressButtonKeeps
<1>10. ASSUME NEW s \in Sessions, Leave(s) PROVE Inv'
  BY <1>10, LeaveKeeps DEF Leave
<1>11. CASE Next
  BY <1>2, <1>3, <1>4, <1>5, <1>6, <1>7, <1>8, <1>9, <1>10, <1>11 DEF Next
<1> QED
  BY <1>1, <1>11

(* Every reachable state satisfies the inductive invariant. *)
LEMMA Always == Spec => []Inv
BY Initially, StepKeeps, PTL DEF Spec

(* The tables, the audit log and the pages open keep their types.             *)
THEOREM TypeCorrect == Spec => []TypeOK
<1>1. Inv => TypeOK
  BY DEF Inv
<1> QED
  BY <1>1, Always, PTL

(* What was chosen is what is stored: batches_page.py and nominations_page.py  *)
(* look the choice up again in lists that have grown since.                    *)
THEOREM ChoicesHonoured == Spec => []ChoiceHonoured
<1>1. ASSUME Inv PROVE ChoiceHonoured
  <2>1. ASSUME NEW s \in Sessions
        PROVE  /\ Stores(s, "batches") => ProgramHonoured(tab[s], tab[s].row.program)
               /\ Stores(s, "nominations") =>
                    /\ ProgramHonoured(tab[s], tab[s].row.program)
                    /\ BatchHonoured(tab[s], tab[s].row.program, tab[s].row.batch)
               /\ tab[s].step = "act" /\ Len(nominations) = tab[s].seen.nominations
                    => tab[s].id = tab[s].seen.nomination
    <3>1. PICK t : t = tab[s]
      OBVIOUS
    <3>2. CASE t = Closed
      BY <3>1, <3>2, ClosedIsNot DEF Stores
    <3>3. CASE t # Closed
      <4>1. FormOK(t) /\ t \in Run
        BY <1>1, <3>1, <3>3 DEF Inv, FormsOK, TypeOK
      <4>2. t.step = "insert" /\ t.page = "nominations" => NominationOK(t)
        BY <4>1 DEF FormOK
      <4>3. t.step = "insert" /\ t.page = "batches" => ProgramHonoured(t, t.row.program)
        BY <4>1 DEF FormOK
      <4>4. t.step = "act" /\ Len(nominations) = t.seen.nominations => t.id = t.seen.nomination
        BY <1>1, <4>1, Lengths DEF FormOK
      <4> QED
        BY <3>1, <4>2, <4>3, <4>4 DEF Stores, NominationOK
    <3> QED
      BY <3>2, <3>3
  <2> QED
    BY <1>1, <2>1 DEF ChoiceHonoured, Inv, TablesOK
<1> QED
  BY <1>1, Always, PTL

------------------------------------------------------------------------------
(* What the row of an export has in each of its fields. *)
LEMMA FieldsOf ==
  ASSUME NEW i \in DOMAIN nominations
  PROVE  /\ ExportRows[i]["program_name"] = programs[nominations[i].program]
         /\ ExportRows[i]["trf_number"] = batches[nominations[i].batch].trf
         /\ \A f \in EmployeeFields : ExportRows[i][f] = Profile[nominations[i].employee][f]
         /\ DOMAIN ExportRows = DOMAIN nominations
BY DEF ExportRows, RequiredFields, EmployeeFields

(* Rows that agree on the key are rows an export reports. *)
LEMMA ValidKeysDiffer ==
  ASSUME Inv, ValidateRows(ExportRows) = {},
         NEW i \in DOMAIN nominations, NEW j \in DOMAIN nominations, i # j
  PROVE  ExportKey(ExportRows[i]) # ExportKey(ExportRows[j])
<1>1. i \in Nat /\ j \in Nat /\ i >= 1 /\ j >= 1
  BY Lengths
<1>2. \A k \in DOMAIN nominations : ~Repeats(ExportRows, k)
  BY FieldsOf DEF ValidateRows
<1>3. \A k, l \in DOMAIN nominations : l \in 1 .. k - 1 => ExportKey(ExportRows[l]) # ExportKey(ExportRows[k])
  BY <1>2 DEF Repeats
<1>4. i \in 1 .. j - 1 \/ j \in 1 .. i - 1
  BY <1>1
<1> QED
  BY <1>3, <1>4

(* Two rows of one key whose employee has a code are of one employee; in one  *)
(* program they are of one batch, so that the nominations are the same.       *)
LEMMA SameKey ==
  ASSUME Inv, NEW i \in DOMAIN nominations, NEW j \in DOMAIN nominations,
         ExportKey(ExportRows[i]) = ExportKey(ExportRows[j]),
         Profile[nominations[i].employee].employee_code # Nothing,
         Profile[nominations[j].employee].employee_code # Nothing
  PROVE  /\ nominations[i].employee = nominations[j].employee
         /\ batches[nominations[i].batch].trf = batches[nominations[j].batch].trf
         /\ nominations[i] = nominations[j] \/ nominations[i].program # nominations[j].program
<1>1. PICK a : a = nominations[i]
  OBVIOUS
<1>2. PICK b : b = nominations[j]
  OBVIOUS
<1>3. a \in Nomination /\ b \in Nomination
  BY <1>1, <1>2 DEF Inv, TypeOK
<1>4. /\ Profile[a.employee].employee_code = Profile[b.employee].employee_code
      /\ batches[a.batch].trf = batches[b.batch].trf
  <2>1. "employee_code" \in EmployeeFields
    BY DEF EmployeeFields
  <2> QED
    BY <1>1, <1>2, <2>1, FieldsOf DEF ExportKey
<1>5. a.employee = b.employee
  BY <1>1, <1>2, <1>3, <1>4, FormAssumption DEF Coded, Nomination
<1>6. CASE a.program = b.program
  <2>1. /\ a.batch \in DOMAIN batches /\ batches[a.batch].program = a.program
        /\ b.batch \in DOMAIN batches /\ batches[b.batch].program = b.program
    BY <1>1, <1>2 DEF Inv, TablesOK
  <2>2. batches[a.batch] \in Batch /\ batches[b.batch] \in Batch
    BY <2>1, Lengths
  <2>3. batches[a.batch] = batches[b.batch]
    BY <1>4, <1>6, <2>1, <2>2 DEF Batch
  <2>4. a.batch = b.batch
    BY <2>1, <2>3 DEF Inv, TablesOK, Consistent
  <2>5. a = b
    BY <1>3, <1>5, <1>6, <2>4 DEF Nomination
  <2> QED
    BY <1>1, <1>2, <1>4, <2>5
<1> QED
  BY <1>1, <1>2, <1>4, <1>5, <1>6

(* A valid export has each employee once per batch, and only a missing field   *)
(* of an employee, a double nomination or one of two programs under one TRF    *)
(* number makes one invalid (exports/flare_sf_export.py validate_rows).        *)
THEOREM ExportIsSound == Spec => []ExportSound
<1>1. ASSUME Inv PROVE ExportSound
  <2> DEFINE export == BuildExport(ExportRows, SfColumns)
  <2>1. /\ IsValid(export) <=> ValidateRows(ExportRows) = {}
        /\ \A i \in DOMAIN nominations : export.rows[i] = [c \in SfColumns |-> ExportRows[i][c]]
    BY FieldsOf DEF BuildExport, IsValid, ExportRows
  <2> HIDE DEF export
  <2>2. ASSUME IsValid(export), NEW i \in DOMAIN nominations, NEW j \in DOMAIN nominations, i # j
        PROVE  export.rows[i] # export.rows[j] /\ nominations[i] # nominations[j]
    <3>1. ExportKey(ExportRows[i]) # ExportKey(ExportRows[j])
      BY <1>1, <2>1, <2>2, ValidKeysDiffer
    <3>2. export.rows[i] # export.rows[j]
      <4>1. ExportRows[i]["employee_code"] # ExportRows[j]["employee_code"]
            \/ ExportRows[i]["trf_number"] # ExportRows[j]["trf_number"]
        BY <3>1 DEF ExportKey
      <4>2. {"employee_code", "trf_number"} \subseteq SfColumns
        BY DEF SfColumns
      <4>3. \A c \in SfColumns : export.rows[i][c] = ExportRows[i][c] /\ export.rows[j][c] = ExportRows[j][c]
        BY <2>1
      <4> QED
        BY <4>1, <4>2, <4>3
    <3>3. nominations[i] # nominations[j]
      <4>1. nominations[i] = nominations[j] => ExportRows[i] = ExportRows[j]
        BY DEF ExportRows
      <4> QED
        BY <3>1, <4>1
    <3> QED
      BY <3>2, <3>3
  <2>3. ASSUME ~IsValid(export),
               \A n \in DOMAIN nominations, f \in EmployeeFields :
                 Profile[nominations[n].employee][f] # Nothing
        PROVE  \E i, j \in DOMAIN nominations :
                 /\ i # j /\ nominations[i].employee = nominations[j].employee
                 /\ batches[nominations[i].batch].trf = batches[nominations[j].batch].trf
                 /\ nominations[i] = nominations[j] \/ nominations[i].program # nominations[j].program
    <3>1. ASSUME NEW i \in DOMAIN nominations, NEW f \in RequiredFields
          PROVE  ExportRows[i][f] # Nothing
      <4>1. CASE f \in EmployeeFields
        BY <2>3, <4>1, FieldsOf
      <4>2. /\ programs[nominations[i].program] \in ProgramNames
            /\ batches[nominations[i].batch] \in Batch
        BY <1>1, Lengths DEF Inv, TablesOK
      <4>3. CASE f = "program_name"
        BY <4>2, <4>3, FieldsOf, FormAssumption
      <4>4. CASE f = "trf_number"
        BY <4>2, <4>4, FieldsOf, FormAssumption DEF Batch
      <4> QED
        BY <4>1, <4>3, <4>4 DEF RequiredFields, EmployeeFields
    <3>2. PICK i \in DOMAIN nominations : Repeats(ExportRows, i)
      <4>1. {at \in (DOMAIN ExportRows) \X RequiredFields : ExportRows[at[1]][at[2]] = Nothing} = {}
        <5>1. ASSUME NEW at \in (DOMAIN ExportRows) \X RequiredFields
              PROVE  ExportRows[at[1]][at[2]] # Nothing
          <6>1. at[1] \in DOMAIN nominations /\ at[2] \in RequiredFields
            BY <5>1 DEF ExportRows
          <6> QED
            BY <3>1, <6>1
        <5> QED
          BY <5>1
      <4>2. {k \in DOMAIN ExportRows : Repeats(ExportRows, k)} # {}
        BY <2>1, <2>3, <4>1 DEF ValidateRows
      <4> QED
        BY <4>2, FieldsOf, <1>1, Lengths DEF ExportRows
    <3>3. PICK j \in 1 .. i - 1 : ExportKey(ExportRows[j]) = ExportKey(ExportRows[i])
      BY <3>2 DEF Repeats
    <3>4. j \in DOMAIN nominations /\ i # j
      BY <1>1, Lengths
    <3>5. "employee_code" \in EmployeeFields
      BY DEF EmployeeFields
    <3> QED
      BY <1>1, <2>3, <3>3, <3>4, <3>5, SameKey
  <2>4. \/ IsValid(export)
        \/ \E n \in DOMAIN nominations, f \in EmployeeFields :
             Profile[nominations[n].employee][f] = Nothing
        \/ \E i, j \in DOMAIN nominations :
             /\ i # j /\ nominations[i].employee = nominations[j].employee
             /\ batches[nominations[i].batch].trf = batches[nominations[j].batch].trf
             /\ nominations[i] = nominations[j] \/ nominations[i].program # nominations[j].program
    BY <2>3, Zenon
  <2> QED
    BY <2>2, <2>4, Zenon DEF ExportSound, export
<1> QED
  BY <1>1, Always, PTL
=============================================================================
