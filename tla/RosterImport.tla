------------------------------ MODULE RosterImport ------------------------------
(***************************************************************************)
(* Importers of tracker files over one employees table: each reads the      *)
(* employees into an index, resolves its rows against that index, however   *)
(* old it has become, and inserts the employees flagged for creation.  The   *)
(* service does not add what is created to the index: its caller may read it *)
(* again, at any time or never.                                             *)
(***************************************************************************)
EXTENDS EmployeeMatching

CONSTANTS
  Importers,
  Rows,        (* the rows the files may hold *)
  MaxRows      (* bounds how many rows are resolved in all *)

ASSUME ImportAssumption == Rows \subseteq SourceRow /\ MaxRows \in Nat

VARIABLES
  employees,   (* the employees table, in insertion order *)
  import,      (* per importer: how many employees its index has, the row to insert *)
  outcomes,    (* history: what became of the rows resolved *)
  resolved     (* how many rows were resolved *)

vars == <<employees, import, outcomes, resolved>>

Idle == [step |-> "idle"]

Reading(seen) == [step |-> "rows", seen |-> seen]
Inserting(seen, row) == [step |-> "insert", seen |-> seen, row |-> row]

Stage(size) == [step : {"rows"}, seen : 0 .. size] \cup
               [step : {"insert"}, seen : 0 .. size, row : Rows]

Outcome == [row : Rows, action : {"UseExisting", "CreateNew", "ManualCodeRequired",
                                  "ConflictReviewRequired", "InvalidRecord", "Refused"},
            employee : Nat, seen : Nat]

Note(row, action, employee, seen) ==
  [row |-> row, action |-> action, employee |-> employee, seen |-> seen]

(* The employees an index was built from: the table only grows. *)
Known(seen) == SubSeq(employees, 1, seen)

(* Mutant: only the code of the last employee is compared. *)
CodeTaken_LastOnly(code) == employees # <<>> /\ employees[Len(employees)].code = code

(* The UNIQUE constraint on employee_code. *)
CodeTaken(code) == \E i \in DOMAIN employees : employees[i].code = code

(* The employee made of a row: its normalized values. *)
NewEmployee(row) ==
  [code |-> NormalizeEmployeeId(row.id), email |-> row.email, name |-> row.name]

------------------------------------------------------------------------------
Init ==
  /\ employees = <<>>
  /\ import = [m \in Importers |-> Idle]
  /\ outcomes = {}
  /\ resolved = 0

(* list_employees and build_employee_index, at the start or for the next row. *)
(* list_employees returns sqlite3.Row objects and build_employee_index reads   *)
(* attributes of Employee objects: the importer that makes the ones of the     *)
(* others, field by field, is not in the repository.                           *)
BuildIndex(m) ==
  /\ import[m].step \in {"idle", "rows"}
  /\ import[m] # Reading(Len(employees))
  /\ import' = [import EXCEPT ![m] = Reading(Len(employees))]
  /\ UNCHANGED <<employees, outcomes, resolved>>

(* resolve_or_flag_new_employee on the next row. *)
ResolveRow(m, row) ==
  /\ import[m].step = "rows"
  /\ resolved < MaxRows
  /\ resolved' = resolved + 1
  /\ LET seen   == import[m].seen
         result == ResolveOrFlag(row, Known(seen))
     IN  IF result.action = "CreateNew"
         THEN /\ import' = [import EXCEPT ![m] = Inserting(seen, row)]
              /\ UNCHANGED outcomes
         ELSE /\ outcomes' = outcomes \cup {Note(row, result.action, result.employee, seen)}
              /\ UNCHANGED import
  /\ UNCHANGED employees

(* add_employee. *)
AddEmployee(m) ==
  /\ import[m].step = "insert"
  /\ LET row == import[m].row IN
       /\ ~CodeTaken(NewEmployee(row).code)
       /\ employees' = Append(employees, NewEmployee(row))
       /\ outcomes' = outcomes \cup
            {Note(row, "CreateNew", Len(employees) + 1, import[m].seen)}
       /\ import' = [import EXCEPT ![m] = Reading(@.seen)]
  /\ UNCHANGED resolved

(* add_employee raises: the import stops with its remaining rows undone. *)
AddRefused(m) ==
  /\ import[m].step = "insert"
  /\ LET row == import[m].row IN
       /\ CodeTaken(NewEmployee(row).code)
       /\ outcomes' = outcomes \cup {Note(row, "Refused", NoOne, import[m].seen)}
  /\ import' = [import EXCEPT ![m] = Idle]
  /\ UNCHANGED <<employees, resolved>>

(* The file ends, or the process stops. *)
Stop(m) ==
  /\ import[m] # Idle
  /\ import' = [import EXCEPT ![m] = Idle]
  /\ UNCHANGED <<employees, outcomes, resolved>>

Next ==
  \E m \in Importers :
    BuildIndex(m) \/ (\E row \in Rows : ResolveRow(m, row)) \/ AddEmployee(m) \/ AddRefused(m) \/ Stop(m)

Spec == Init /\ [][Next]_vars

------------------------------------------------------------------------------
TypeOK ==
  /\ employees \in Seq(Employee)
  /\ resolved \in 0 .. MaxRows
  /\ outcomes \subseteq Outcome
  /\ import \in [Importers -> {Idle} \cup Stage(Len(employees))]

(* Rows that carry the same ID, whether a cell has it as a text or as a       *)
(* number, belong to one employee, whichever importers resolved them, in     *)
(* whatever order and against however old an index.  Only a code with        *)
(* leading zeros, which a number cell has lost, may split.                   *)
OnePerson ==
  \A a, b \in outcomes :
    /\ a.employee # NoOne /\ b.employee # NoOne
    /\ a.row.id.value = b.row.id.value /\ a.row.id.value # Blank
    /\ Trimmed[a.row.id.value] = a.row.id.value
    => a.employee = b.employee

(* A row is never put to another person: the employee it was resolved to has  *)
(* the code of the row or, if the row has none, its e-mail, also when an     *)
(* e-mail is shared or was taken over since.                                 *)
RightPerson ==
  \A o \in outcomes : o.employee # NoOne =>
    LET code == NormalizeEmployeeId(o.row.id) IN
      IF code # Blank THEN employees[o.employee].code = code
      ELSE employees[o.employee].email = o.row.email

(* An insert the UNIQUE constraint refuses (which stops the import) is always *)
(* the doing of an old index: the employee came after it was built.          *)
RefusalsAreStale ==
  \A o \in outcomes : o.action = "Refused" =>
    \E i \in o.seen + 1 .. Len(employees) : employees[i].code = NormalizeEmployeeId(o.row.id)

(* A report row joins the person its tracker row was put to, however much was *)
(* added since: by its code the very employee, and without a code the last   *)
(* employee with its e-mail, whatever the names.                             *)
Joins(o) ==
  LET found == MatchEmployee(o.row, employees) IN
  /\ found.status = "ExactMatch"
  /\ IF NormalizeEmployeeId(o.row.id) # Blank
     THEN found.matchedOn = "EmployeeID" /\ found.employee = o.employee
     ELSE /\ found.matchedOn = "Email" /\ found.employee >= o.employee
          /\ employees[found.employee].email = o.row.email

(* Where the two answers of one row may differ: match_employee joins by the   *)
(* ID what resolve_or_flag_new_employee sets aside as a conflict, and it      *)
(* joins by the e-mail, to an employee with another code, a row whose code is *)
(* not on file and which resolve_or_flag_new_employee registers as new.  What *)
(* it sets aside for want of a code has nobody's e-mail.                      *)
DiffersKnowingly(row) ==
  LET result == ResolveOrFlag(row, employees)
      found  == MatchEmployee(row, employees)
      code   == NormalizeEmployeeId(row.id)
  IN /\ result.action = "ConflictReviewRequired" =>
          found.matchedOn = "EmployeeID" /\ employees[found.employee].code = code
     /\ result.action \in {"CreateNew", "ManualCodeRequired", "InvalidRecord"} =>
          /\ found.matchedOn # "EmployeeID"
          /\ found.matchedOn = "Email" =>
               /\ result.action = "CreateNew"
               /\ employees[found.employee].email = row.email
               /\ employees[found.employee].code # code

(* The tracker import and the report join identify people independently: a    *)
(* row put to an employee is joined to that employee from then on, and the    *)
(* two answers differ only in the ways named.                                 *)
ReportJoins ==
  /\ \A o \in outcomes : o.employee # NoOne => Joins(o)
  /\ \A row \in Rows : DiffersKnowingly(row)
=============================================================================
