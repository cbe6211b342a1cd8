------------------------------- MODULE PageForms -------------------------------
(***************************************************************************)
(* The forms of the Programs, Batches and Nominations pages and the lists  *)
(* of the Eligibility and Communications pages, used by several sessions,  *)
(* and the export of what they leave behind.  A page is drawn from the     *)
(* tables as they are at that moment.  The user then fills it in without   *)
(* the page noticing, and the submission runs the script once more: the    *)
(* lists are read again, and the choice is looked up in the new ones.      *)
(*                                                                         *)
(* Rows are only ever added, so that a list read earlier is a number of    *)
(* rows.  A row is its position; programs are their names, which need not  *)
(* differ.  No page changes a status: every nomination here is Submitted.  *)
(* What an eligibility check or a dispatch writes is in EligibilityDesk    *)
(* and CommDispatch; here only which nomination it is about.               *)
(***************************************************************************)
EXTENDS SfExport, FiniteSets

CONSTANTS
  ProgramNames,   (* stripped, not blank *)
  Trfs,           (* TRF numbers, stripped, not blank *)
  Employees,      (* ids of the employees; their labels differ *)
  Profile,        (* the columns of an employee that an export requires *)
  Sessions,       (* users of the pages *)
  FirstPrograms,  (* the programs table to begin with *)
  FirstBatches,   (* the batches table to begin with *)
  None,           (* no choice, no row *)
  MaxRows         (* bounds the rows added: no form is submitted beyond it *)

EmployeeFields == {"employee_code", "display_name", "email"}

Coded == {e \in Employees : Profile[e].employee_code # Nothing}

Batch == [program : Nat \ {0}, trf : Trfs]

Nomination == [employee : Employees, program : Nat \ {0}, batch : Nat \ {0}]

(* UNIQUE (program_id, trf_number), and the reference to a program. *)
Consistent(progs, bats) ==
  /\ \A i \in DOMAIN bats : bats[i].program \in DOMAIN progs
  /\ \A i, j \in DOMAIN bats : bats[i] = bats[j] => i = j

ASSUME FormAssumption ==
  /\ \A e \in Employees : DOMAIN Profile[e] = EmployeeFields
  /\ \A e, d \in Coded : Profile[e].employee_code = Profile[d].employee_code => e = d
  /\ Nothing \notin ProgramNames \cup Trfs
  /\ FirstPrograms \in Seq(ProgramNames) /\ FirstBatches \in Seq(Batch)
  /\ Consistent(FirstPrograms, FirstBatches)
  /\ None \notin ProgramNames \cup Trfs \cup Employees \cup Batch \cup Nomination \cup Nat
  /\ MaxRows \in Nat

VARIABLES
  programs,     (* the programs table: names in insertion order *)
  batches,      (* the batches table *)
  nominations,  (* the nominations table *)
  audited,      (* <<table, position>>: rows with a Created entry in the audit log *)
  handled,      (* nominations that were checked or written to *)
  tab           (* per session: the page before the user, or the run under way *)

vars == <<programs, batches, nominations, audited, handled, tab>>

Closed == [page |-> "none", step |-> "none"]

(* "seen" is what the user chose and from how many rows: the rows of the      *)
(* programs, batches and nominations then listed, the program the batches     *)
(* were listed for, and the values of the widgets.                           *)
Choice == [programs : Nat, batches : Nat, nominations : Nat, under : Nat,
           program : ProgramNames \cup {None}, trf : Trfs \cup {None},
           employee : Employees \cup {None}, nomination : Nat]

Unfilled(n, m, k, p) ==
  [programs |-> n, batches |-> m, nominations |-> k, under |-> p,
   program |-> None, trf |-> None, employee |-> None, nomination |-> 0]

(* A page shown, or submitted: "programs" and "batches" are the rows the run  *)
(* has read, "row" is what it is going to store, and "id" the program looked  *)
(* up, the nomination to act on or the row to write an audit entry about.    *)
Run == [page : {"programs", "batches", "nominations", "list"},
        step : {"shown", "batches", "check", "insert", "audit", "act"},
        seen : Choice, programs : Nat, batches : Nat, id : Nat,
        row : ProgramNames \cup Batch \cup Nomination \cup {None}]

------------------------------------------------------------------------------
(* The options of the program selector: the keys of program_lookup. *)
Offered(n) == {programs[i] : i \in 1 .. n}

(* program_lookup keeps the last of several programs of one name. *)
IsNamed(i, n, name) ==
  i \in 1 .. n /\ programs[i] = name /\ \A j \in i + 1 .. n : programs[j] # name

(* Mutant: the batches are not filtered by program. *)
Own_All(m, p) == 1 .. m

(* batches_for_program. *)
Own(m, p) == {i \in 1 .. m : batches[i].program = p}

(* The options of the batch selector, each with its place in the list. *)
TrfList(m, p) == {<<batches[i].trf, Cardinality(Own(m, p) \cap 1 .. i)>> : i \in Own(m, p)}

FirstOf(I) == CHOOSE i \in I : \A j \in I : i <= j

(* What a selectbox answers in the run of the submission.  With the options   *)
(* it was shown with, the choice; with others it is a new widget, on its      *)
(* first option, or one that kept the choice if it is still among them.       *)
Reselect(same, choice, first, offered) ==
  IF same THEN {choice} ELSE {first} \cup ({choice} \cap offered)

(* The program selected after the programs have been read again. *)
Reselected(seen, n) ==
  Reselect(Offered(n) = Offered(seen.programs), seen.program, programs[1], Offered(n))

------------------------------------------------------------------------------
Init ==
  /\ programs = FirstPrograms
  /\ batches = FirstBatches
  /\ nominations = << >>
  /\ audited = {}
  /\ handled = {}
  /\ tab = [s \in Sessions |-> Closed]

tables == <<programs, batches, nominations, audited, handled>>

Room == Len(programs) + Len(batches) + Len(nominations) < MaxRows

Show(s, page, seen) ==
  /\ tab[s] = Closed
  /\ tab' = [tab EXCEPT ![s] = [page |-> page, step |-> "shown", seen |-> seen,
                                programs |-> 0, batches |-> 0, id |-> 0, row |-> None]]
  /\ UNCHANGED tables

(* The Batches page is drawn, if there is a program. *)
OpenBatches(s) ==
  /\ Len(programs) > 0
  /\ Show(s, "batches", Unfilled(Len(programs), 0, 0, 0))

(* The Nominations page is drawn: the batches listed are those of the program *)
(* selected, the first one or the one selected in an earlier run.  Nothing is *)
(* drawn again while the form is filled in.                                  *)
OpenNominations(s) ==
  /\ Len(programs) > 0 /\ Len(batches) > 0
  /\ \E p \in 1 .. Len(programs) :
       /\ IsNamed(p, Len(programs), programs[p])
       /\ Show(s, "nominations", Unfilled(Len(programs), Len(batches), 0, p))

(* The Eligibility or the Communications page is drawn. *)
OpenList(s) ==
  /\ Len(nominations) > 0
  /\ Show(s, "list", Unfilled(0, 0, Len(nominations), 0))

(* Create program: the name is all that matters. *)
SubmitProgram(s, name) ==
  /\ tab[s] = Closed
  /\ Room
  /\ tab' = [tab EXCEPT ![s] = [page |-> "programs", step |-> "insert",
       seen |-> Unfilled(0, 0, 0, 0), programs |-> 0, batches |-> 0, id |-> 0, row |-> name]]
  /\ UNCHANGED tables

(* Create batch: programs are read again, and the name selected is looked up. *)
SubmitBatch(s, name, trf) ==
  LET t == tab[s]  n == Len(programs)  seen == [t.seen EXCEPT !.program = name, !.trf = trf] IN
  /\ t.page = "batches" /\ t.step = "shown"
  /\ Room
  /\ name \in Offered(t.seen.programs)
  /\ \E p \in 1 .. n :
       /\ \E selected \in Reselected(seen, n) : IsNamed(p, n, selected)
       /\ tab' = [tab EXCEPT ![s] = [t EXCEPT !.step = "insert", !.seen = seen,
            !.programs = n, !.row = [program |-> p, trf |-> trf]]]
  /\ UNCHANGED tables

(* Submit nomination, with a batch of the list shown, if one was shown. *)
SubmitNomination(s, e, name, trf) ==
  LET t == tab[s]  n == Len(programs)
      seen == [t.seen EXCEPT !.program = name, !.trf = trf, !.employee = e] IN
  /\ t.page = "nominations" /\ t.step = "shown"
  /\ Room
  /\ name \in Offered(t.seen.programs)
  /\ LET listed == {batches[i].trf : i \in Own(t.seen.batches, t.seen.under)}
     IN  trf \in (IF listed = {} THEN {None} ELSE listed)
  /\ \E p \in 1 .. n :
       /\ \E selected \in Reselected(seen, n) : IsNamed(p, n, selected)
       /\ tab' = [tab EXCEPT ![s] = [t EXCEPT !.step = "batches", !.seen = seen,
            !.programs = n, !.id = p]]
  /\ UNCHANGED tables

Row(seen, p, i) == [employee |-> seen.employee, program |-> p, batch |-> i]

(* Mutant: the check that there is a batch is gone. *)
ReadBatches_Unchecked(s) ==
  LET t == tab[s]  m == Len(batches)  p == t.id IN
  /\ t.step = "batches"
  /\ \E i \in Own(m, p) \cup {0} :
       tab' = [tab EXCEPT ![s] = [t EXCEPT !.step = "check", !.batches = m,
                                           !.row = Row(t.seen, p, i)]]
  /\ UNCHANGED tables

(* The batches are read again; without one there is nothing to submit.  The   *)
(* TRF selected is that of one batch only, in its program.                   *)
ReadBatches(s) ==
  LET t == tab[s]  m == Len(batches)  p == t.id  own == Own(m, p) IN
  /\ t.step = "batches"
  /\ \/ own = {} /\ tab' = [tab EXCEPT ![s] = Closed]
     \/ \E i \in own :
          /\ batches[i].trf \in
               Reselect(TrfList(m, p) = TrfList(t.seen.batches, t.seen.under), t.seen.trf,
                        batches[FirstOf(own)].trf, {batches[j].trf : j \in own})
          /\ tab' = [tab EXCEPT ![s] = [t EXCEPT !.step = "check", !.batches = m,
                                                 !.row = Row(t.seen, p, i)]]
  /\ UNCHANGED tables

Nominated(row) == \E i \in DOMAIN nominations : nominations[i] = row

(* list_nominations and create_nomination, or the error of a duplicate. *)
CheckDuplicate(s) ==
  LET t == tab[s] IN
  /\ t.step = "check"
  /\ tab' = [tab EXCEPT ![s] = IF Nominated(t.row) THEN Closed ELSE [t EXCEPT !.step = "insert"]]
  /\ UNCHANGED tables

Stores(s, page) == tab[s].page = page /\ tab[s].step = "insert"

AuditNext(s, id) == tab' = [tab EXCEPT ![s].step = "audit", ![s].id = id]

(* add_program. *)
InsertProgram(s) ==
  /\ Stores(s, "programs")
  /\ programs' = Append(programs, tab[s].row)
  /\ AuditNext(s, Len(programs'))
  /\ UNCHANGED <<batches, nominations, audited, handled>>

Taken(row) == \E i \in DOMAIN batches : batches[i] = row

(* add_batch, or the exception of UNIQUE (program_id, trf_number). *)
InsertBatch(s) ==
  /\ Stores(s, "batches")
  /\ \/ /\ ~Taken(tab[s].row)
        /\ batches' = Append(batches, tab[s].row)
        /\ AuditNext(s, Len(batches'))
     \/ /\ Taken(tab[s].row)
        /\ tab' = [tab EXCEPT ![s] = Closed]
        /\ UNCHANGED batches
  /\ UNCHANGED <<programs, nominations, audited, handled>>

(* add_nomination. *)
InsertNomination(s) ==
  /\ Stores(s, "nominations")
  /\ nominations' = Append(nominations, tab[s].row)
  /\ AuditNext(s, Len(nominations'))
  /\ UNCHANGED <<programs, batches, audited, handled>>

(* add_audit; the page is drawn anew. *)
Audit(s) ==
  /\ tab[s].step = "audit"
  /\ audited' = audited \cup {<<tab[s].page, tab[s].id>>}
  /\ tab' = [tab EXCEPT ![s] = Closed]
  /\ UNCHANGED <<programs, batches, nominations, handled>>

(* Run eligibility check, Dispatch: the nominations are read again, and any   *)
(* new one makes another list of options.                                    *)
PressButton(s, i) ==
  LET t == tab[s]  k == Len(nominations) IN
  /\ t.page = "list" /\ t.step = "shown"
  /\ i \in 1 .. t.seen.nominations
  /\ \E selected \in Reselect(k = t.seen.nominations, i, 1, 1 .. k) :
       tab' = [tab EXCEPT ![s] = [t EXCEPT !.step = "act", !.seen.nomination = i, !.id = selected]]
  /\ UNCHANGED tables

Act(s) ==
  /\ tab[s].step = "act"
  /\ handled' = handled \cup {tab[s].id}
  /\ tab' = [tab EXCEPT ![s] = Closed]
  /\ UNCHANGED <<programs, batches, nominations, audited>>

(* The user goes to another page, a call raises or the process stops. *)
Leave(s) ==
  /\ tab[s] # Closed
  /\ tab' = [tab EXCEPT ![s] = Closed]
  /\ UNCHANGED tables

Next ==
  \E s \in Sessions :
    \/ OpenBatches(s) \/ OpenNominations(s) \/ OpenList(s)
    \/ \E name \in ProgramNames : SubmitProgram(s, name)
    \/ \E name \in ProgramNames, trf \in Trfs : SubmitBatch(s, name, trf)
    \/ \E e \in Employees, name \in ProgramNames, trf \in Trfs \cup {None} :
         SubmitNomination(s, e, name, trf)
    \/ ReadBatches(s) \/ CheckDuplicate(s)
    \/ InsertProgram(s) \/ InsertBatch(s) \/ InsertNomination(s) \/ Audit(s)
    \/ \E i \in 1 .. Len(nominations) : PressButton(s, i)
    \/ Act(s) \/ Leave(s)

Spec == Init /\ [][Next]_vars
------------------------------------------------------------------------------
TypeOK ==
  /\ programs \in Seq(ProgramNames)
  /\ batches \in Seq(Batch)
  /\ nominations \in Seq(Nomination)
  /\ audited \subseteq {"programs", "batches", "nominations"} \X Nat
  /\ handled \subseteq DOMAIN nominations
  /\ tab \in [Sessions -> {Closed} \cup Run]

(* What was chosen is what is stored, however the tables grew between the      *)
(* drawing of the form and its submission: a batch goes to a program of the    *)
(* name chosen, unless programs of other names were added, and to the one      *)
(* shown, unless any was; a nomination in addition to the batch shown with     *)
(* the TRF chosen, unless the program was switched inside the form or it got   *)
(* new batches.  And whatever happens it names a batch of its program, which   *)
(* neither schema ensures.                                                     *)
ProgramHonoured(t, p) ==
  /\ Offered(t.programs) = Offered(t.seen.programs) => programs[p] = t.seen.program
  /\ t.programs = t.seen.programs => IsNamed(p, t.seen.programs, t.seen.program)

BatchHonoured(t, p, b) ==
  /\ batches[b].program = p
  /\ p = t.seen.under /\ TrfList(t.batches, p) = TrfList(t.seen.batches, p)
       => batches[b].trf = t.seen.trf

ChoiceHonoured ==
  /\ \A s \in Sessions :
       /\ Stores(s, "batches") => ProgramHonoured(tab[s], tab[s].row.program)
       /\ Stores(s, "nominations") =>
            /\ ProgramHonoured(tab[s], tab[s].row.program)
            /\ BatchHonoured(tab[s], tab[s].row.program, tab[s].row.batch)
       /\ tab[s].step = "act" /\ Len(nominations) = tab[s].seen.nominations
            => tab[s].id = tab[s].seen.nomination
  /\ \A i \in DOMAIN nominations : batches[nominations[i].batch].program = nominations[i].program

(* The rows of an export, in the order of the nominations. *)
ExportRows ==
  [i \in DOMAIN nominations |->
     LET n == nominations[i] IN
       [f \in RequiredFields |-> CASE f = "program_name" -> programs[n.program]
                                  [] f = "trf_number"   -> batches[n.batch].trf
                                  [] OTHER              -> Profile[n.employee][f]]]

(* An export that is valid has each employee once per batch, also where two    *)
(* sessions nominated somebody at the same time.  One that is not, although    *)
(* all its rows are complete, has such a pair, or two nominations of one       *)
(* employee in programs that use the same TRF number, which the key of         *)
(* exports/flare_sf_export.py:70 does not tell apart.                          *)
ExportSound ==
  LET export == BuildExport(ExportRows, SfColumns)
      Rows == DOMAIN nominations
  IN  /\ IsValid(export) => \A i, j \in Rows : i # j =>
           export.rows[i] # export.rows[j] /\ nominations[i] # nominations[j]
      /\ \/ IsValid(export)
         \/ \E n \in Rows, f \in EmployeeFields : Profile[nominations[n].employee][f] = Nothing
         \/ \E i, j \in Rows :
              /\ i # j /\ nominations[i].employee = nominations[j].employee
              /\ batches[nominations[i].batch].trf = batches[nominations[j].batch].trf
              /\ nominations[i] = nominations[j] \/ nominations[i].program # nominations[j].program
=============================================================================
