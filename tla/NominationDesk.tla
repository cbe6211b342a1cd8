---------------------------- MODULE NominationDesk ----------------------------
(***************************************************************************)
(* The nomination lifecycle: the Nominations page and the importers (each  *)
(* a session) sharing one repository.  A session never holds a transaction *)
(* across two repository calls: every SqliteRepository method opens its    *)
(* own connection and commits it, so the steps between a read, the write   *)
(* of the row and the write of the audit entry interleave with those of    *)
(* the other sessions, and a process that dies or a call that raises       *)
(* leaves the steps already committed behind.                              *)
(*                                                                         *)
(* No operation of the program sets is_archived, so every row counts as    *)
(* not archived and the column is left out; so are names, sources and the  *)
(* updated_* columns, which nothing reads.                                 *)
(***************************************************************************)
EXTENDS Naturals, FiniteSets

CONSTANTS
  Employees,     (* ids of the rows of the employees table *)
  Programs,      (* ids of the rows of the programs table  *)
  Batches,       (* ids of the rows of the batches table   *)
  ProgramOf,     (* the program_id column of the batches   *)
  NomIds,        (* the UUIDs new_id may draw: bounds the number of nominations *)
  Sessions,      (* UI sessions and importers that share the repository *)
  Moves,         (* <<old, new>>: the status changes the operators ask for *)
  ActiveIndex,   (* TRUE: the Postgres schema, with index uq_active_nomination *)
  MaxOps,        (* bounds how many operations are started *)
  NoRow          (* no row: neither one of the table nor an id *)

Statuses == {"Draft", "Submitted", "PendingValidation", "Eligible", "Rejected",
             "Waitlisted", "Confirmed", "Withdrawn", "Completed"}

ActiveStatuses == {"Draft", "Submitted", "PendingValidation", "Eligible",
                   "Waitlisted", "Confirmed"}

Row == [employee : Employees, program : Programs, batch : Batches, status : Statuses]

(* An audit entry about a nomination.  The detail text of a StatusChanged  *)
(* entry reads "from -> to"; a Created entry has no old status.  "at" is   *)
(* occurred_at, stamped when the entry object is made, not when stored.    *)
Entry == [nom : NomIds, action : {"Created", "StatusChanged"},
          from : Statuses \cup {"n/a"}, to : Statuses, at : 0 .. MaxOps]

(* What a session holds in memory between two repository calls: the        *)
(* Nomination object and the audit entry, and which call comes next.       *)
Idle == [step |-> "idle"]
Busy == [step : {"insert", "update", "audit"}, nom : NomIds, row : Row, entry : Entry]

ASSUME DeskAssumption ==
  /\ ProgramOf \in [Batches -> Programs]
  /\ Moves \subseteq Statuses \X Statuses
  /\ ActiveIndex \in BOOLEAN
  /\ MaxOps \in Nat
  /\ NoRow \notin Row \cup NomIds

VARIABLES
  noms,      (* the nominations table: id -> row *)
  audit,     (* the audit_log table *)
  work,      (* per session: the operation under way *)
  clock,     (* the time stamps given out so far *)
  lost,      (* history: entries of committed row writes that were never stored *)
  raced      (* history: nominations read for a move while another move was under way *)

vars == <<noms, audit, work, clock, lost, raced>>

------------------------------------------------------------------------------
Stored == {n \in NomIds : noms[n] # NoRow}

(* Mutant: ids that inserts under way already have. *)
Fresh_InFlight == NomIds \ Stored

(* Ids a later new_id call may draw: a UUID is never drawn twice. *)
Fresh == {n \in NomIds \ Stored : \A s \in Sessions : work[s] = Idle \/ work[s].nom # n}

ActiveFor(e, b) ==
  {n \in Stored : /\ noms[n].employee = e
                  /\ noms[n].program = ProgramOf[b]
                  /\ noms[n].batch = b
                  /\ noms[n].status \in ActiveStatuses}

(* Mutant: only a Submitted row counts as a duplicate. *)
HasDuplicate_SubmittedOnly(e, b) ==
  \E n \in ActiveFor(e, b) : noms[n].status = "Submitted"

HasDuplicate(e, b) == ActiveFor(e, b) # {}

(* Mutants: the index leaves Confirmed rows out; only the INSERT is guarded. *)
IndexRefuses_NoConfirmed(n, r) ==
  /\ ActiveIndex
  /\ r.status \in ActiveStatuses \ {"Confirmed"}
  /\ \E m \in ActiveFor(r.employee, r.batch) \ {n} : noms[m].status # "Confirmed"

IndexRefuses_InsertOnly(n, r) ==
  ActiveIndex /\ n \notin Stored /\ ActiveFor(r.employee, r.batch) # {}

(* Would storing row r under id n break the partial unique index? *)
IndexRefuses(n, r) ==
  /\ ActiveIndex
  /\ r.status \in ActiveStatuses
  /\ ActiveFor(r.employee, r.batch) \ {n} # {}

------------------------------------------------------------------------------
Init ==
  /\ noms = [n \in NomIds |-> NoRow]
  /\ audit = {}
  /\ work = [s \in Sessions |-> Idle]
  /\ clock = 0
  /\ lost = {}
  /\ raced = {}

(* The form is submitted: list_nominations reads the employee's rows and    *)
(* create_nomination, which is pure, checks them and makes the row and its  *)
(* audit entry.  A duplicate ends the submission with nothing written.      *)
Submit(s, e, b) ==
  /\ work[s] = Idle
  /\ clock < MaxOps
  /\ ~HasDuplicate(e, b)
  /\ \E n \in Fresh :
       work' = [work EXCEPT ![s] =
         [step |-> "insert", nom |-> n,
          row |-> [employee |-> e, program |-> ProgramOf[b], batch |-> b,
                   status |-> "Submitted"],
          entry |-> [nom |-> n, action |-> "Created", from |-> "n/a",
                     to |-> "Submitted", at |-> clock]]]
  /\ clock' = clock + 1
  /\ UNCHANGED <<noms, audit, lost, raced>>

(* Mutant: the page forgets the audit entry of a new nomination. *)
InsertRow_NoAudit(s) ==
  /\ work[s].step = "insert"
  /\ ~IndexRefuses(work[s].nom, work[s].row)
  /\ noms' = [noms EXCEPT ![work[s].nom] = work[s].row]
  /\ work' = [work EXCEPT ![s] = Idle]
  /\ UNCHANGED <<audit, clock, lost, raced>>

(* add_nomination: one INSERT in a transaction of its own. *)
InsertRow(s) ==
  /\ work[s].step = "insert"
  /\ ~IndexRefuses(work[s].nom, work[s].row)
  /\ noms' = [noms EXCEPT ![work[s].nom] = work[s].row]
  /\ work' = [work EXCEPT ![s].step = "audit"]
  /\ UNCHANGED <<audit, clock, lost, raced>>

(* An operator picks a nomination as listed and asks for a new status: the  *)
(* copy read is what transition_status derives the new row and entry from.  *)
ReadForMove(s, n, new) ==
  /\ work[s] = Idle
  /\ clock < MaxOps
  /\ n \in Stored
  /\ <<noms[n].status, new>> \in Moves
  /\ work' = [work EXCEPT ![s] =
       [step |-> "update", nom |-> n,
        row |-> [noms[n] EXCEPT !.status = new],
        entry |-> [nom |-> n, action |-> "StatusChanged", from |-> noms[n].status,
                   to |-> new, at |-> clock]]]
  /\ clock' = clock + 1
  /\ raced' = IF \E t \in Sessions : work[t].step = "update" /\ work[t].nom = n
              THEN raced \cup {n} ELSE raced
  /\ UNCHANGED <<noms, audit, lost>>

(* Mutants: no audit entry for a status change; an UPDATE that matches no row. *)
UpdateRow_NoAudit(s) ==
  /\ work[s].step = "update"
  /\ ~IndexRefuses(work[s].nom, work[s].row)
  /\ noms' = [noms EXCEPT ![work[s].nom].status = work[s].row.status]
  /\ work' = [work EXCEPT ![s] = Idle]
  /\ UNCHANGED <<audit, clock, lost, raced>>

UpdateRow_NoMatch(s) ==
  /\ work[s].step = "update"
  /\ work' = [work EXCEPT ![s].step = "audit"]
  /\ UNCHANGED <<noms, audit, clock, lost, raced>>

(* update_nomination_status: UPDATE ... SET status WHERE id, whatever the   *)
(* status has become since it was read.                                     *)
UpdateRow(s) ==
  /\ work[s].step = "update"
  /\ ~IndexRefuses(work[s].nom, work[s].row)
  /\ noms' = [noms EXCEPT ![work[s].nom].status = work[s].row.status]
  /\ work' = [work EXCEPT ![s].step = "audit"]
  /\ UNCHANGED <<audit, clock, lost, raced>>

(* Mutant: add_audit is given the nomination in place of the entry. *)
WriteAudit_WrongObject(s) ==
  /\ work[s].step = "audit"
  /\ audit' = audit \cup {work[s].row}
  /\ work' = [work EXCEPT ![s] = Idle]
  /\ UNCHANGED <<noms, clock, lost, raced>>

(* add_audit, after the row write has committed. *)
WriteAudit(s) ==
  /\ work[s].step = "audit"
  /\ audit' = audit \cup {work[s].entry}
  /\ work' = [work EXCEPT ![s] = Idle]
  /\ UNCHANGED <<noms, clock, lost, raced>>

(* Mutant: the refused write is tried again, for ever. *)
Refused_Retries(s) ==
  /\ work[s].step \in {"insert", "update"}
  /\ IndexRefuses(work[s].nom, work[s].row)
  /\ UNCHANGED vars

(* IntegrityError from the unique index: the transaction is rolled back and *)
(* the entry is never written.                                              *)
Refused(s) ==
  /\ work[s].step \in {"insert", "update"}
  /\ IndexRefuses(work[s].nom, work[s].row)
  /\ work' = [work EXCEPT ![s] = Idle]
  /\ UNCHANGED <<noms, audit, clock, lost, raced>>

(* The process stops, or the next repository call raises (a locked          *)
(* database): there is no recovery, the rest of the operation is gone.      *)
Fail(s) ==
  /\ work[s] # Idle
  /\ lost' = IF work[s].step = "audit" THEN lost \cup {work[s].entry} ELSE lost
  /\ work' = [work EXCEPT ![s] = Idle]
  /\ UNCHANGED <<noms, audit, clock, raced>>

Continue(s) == InsertRow(s) \/ UpdateRow(s) \/ WriteAudit(s) \/ Refused(s)

Next ==
  \E s \in Sessions :
    \/ \E e \in Employees, b \in Batches : Submit(s, e, b)
    \/ \E n \in NomIds, new \in Statuses : ReadForMove(s, n, new)
    \/ Continue(s)
    \/ Fail(s)

Spec == Init /\ [][Next]_vars

(* A script run that has started goes on: nothing in a page waits between   *)
(* the read and the writes.  Starting an operation, and failing, is never   *)
(* owed.                                                                    *)
FairSpec == Spec /\ \A s \in Sessions : WF_vars(Continue(s))
------------------------------------------------------------------------------
(* Types of the tables and of what the sessions hold between two calls.      *)
TypeOK ==
  /\ noms \in [NomIds -> Row \cup {NoRow}]
  /\ audit \subseteq Entry
  /\ lost \subseteq Entry
  /\ clock \in 0 .. MaxOps
  /\ raced \subseteq NomIds
  /\ work \in [Sessions -> {Idle} \cup Busy]

SamePlace(r, q) ==
  r.employee = q.employee /\ r.program = q.program /\ r.batch = q.batch

(* What session s holds agrees with the table in all but the status, however *)
(* long ago it was read: the entry is about the row, a row to insert has an  *)
(* id no other session and no row uses, and a row to update, or just         *)
(* written, is stored for the same employee, program and batch.              *)
HeldBy(s) ==
  LET w == work[s] IN
  /\ w.entry.nom = w.nom /\ w.entry.to = w.row.status
  /\ w.row.program = ProgramOf[w.row.batch]
  /\ w.step = "insert" =>
       /\ w.entry.action = "Created"
       /\ w.nom \notin Stored
       /\ \A t \in Sessions \ {s} : work[t] = Idle \/ work[t].nom # w.nom
  /\ w.step = "update" => w.entry.action = "StatusChanged"
  /\ w.step \in {"update", "audit"} => w.nom \in Stored /\ SamePlace(w.row, noms[w.nom])

(* The page offers only batches of the chosen program and no foreign key     *)
(* checks the pair: every row still names the program its batch belongs to,  *)
(* and what the sessions hold agrees with the rows they will write.          *)
HeldOK ==
  /\ \A n \in Stored : noms[n].program = ProgramOf[noms[n].batch]
  /\ \A s \in Sessions : work[s] # Idle => HeldBy(s)

InStep(step) == {s \in Sessions : work[s].step = step}

(* Entries of every row write that has committed: stored, still in the hands *)
(* of a session, or gone with one.                                           *)
Trail == audit \cup lost \cup {work[s].entry : s \in InStep("audit")}

Creations(n) == {x \in Trail : x.nom = n /\ x.action = "Created"}

(* The row and its audit entry are written by two transactions of            *)
(* app/ui/nominations_page.py:52-53 that other sessions and failures cut     *)
(* apart.  Still every stored nomination has exactly one Created entry that  *)
(* is stored, on its way or lost in a failure, and no entry is ever written  *)
(* for a nomination that is not in the table.                                *)
CreatedOnce ==
  /\ \A n \in NomIds : Cardinality(Creations(n)) = IF n \in Stored THEN 1 ELSE 0
  /\ \A x \in Trail : x.nom \in Stored

(* However stale updates overtake one another, the status a row shows is the *)
(* new status of some entry of its trail: no status is ever unaccounted for. *)
StatusExplained ==
  \A n \in Stored : \E x \in Trail : x.nom = n /\ x.to = noms[n].status

(* At most one active nomination per employee and batch, the rule of         *)
(* services/nomination_service.py:3-5.                                       *)
OneActive ==
  \A e \in Employees, b \in Batches : Cardinality(ActiveFor(e, b)) <= 1

(* How badly the check-then-insert of the Nominations page can go wrong: the *)
(* active nominations of an employee for a batch never outnumber the         *)
(* sessions, as long as nobody asks to reopen a closed nomination.           *)
ContentionBound ==
  \A e \in Employees, b \in Batches :
    Cardinality(ActiveFor(e, b)) <= Cardinality(Sessions)

(* No step removes a nomination or changes whose it is, for which program    *)
(* and for which batch: update_nomination_status writes back nothing but the *)
(* status, even from an object read long before.                             *)
IdentityFixed ==
  [][\A n \in Stored :
       /\ noms'[n] # NoRow
       /\ \A f \in {"employee", "program", "batch"} : noms'[n][f] = noms[n][f]]_vars

(* The entries of n as the Audit history page lists them: list_audit orders   *)
(* by occurred_at.                                                           *)
LatestBefore(n, t) ==
  {x \in audit : /\ x.nom = n /\ x.at < t
                 /\ \A y \in audit : y.nom = n /\ y.at < t => y.at <= x.at}

(* The history of a nomination nobody is working on is a chain: each change   *)
(* starts from the status the entry before it ended in, and the last entry   *)
(* shows the status of the row.  It is one although entries are stamped long *)
(* before they are stored, unless an entry was lost to a failure or two      *)
(* moves of the nomination overlapped.                                       *)
TrailReplays ==
  \A n \in Stored \ raced :
    (/\ \A x \in lost : x.nom # n
     /\ \A s \in Sessions : work[s] = Idle \/ work[s].nom # n)
    => /\ \A x \in audit : x.nom = n /\ x.action = "StatusChanged"
                           => \A y \in LatestBefore(n, x.at) : y.to = x.from
       /\ \E x \in LatestBefore(n, clock) : x.to = noms[n].status

(* An operation that was started ends: no session is left holding a row that *)
(* is neither stored nor refused.                                            *)
OperationsEnd == \A s \in Sessions : work[s] # Idle ~> work[s] = Idle

(* The abstract register, read off the table.                                *)
HolderOf(e, b) ==
  IF HasDuplicate(e, b) THEN CHOOSE n \in NomIds : n \in ActiveFor(e, b) ELSE NoRow

Holder == [p \in Employees \X Batches |-> HolderOf(p[1], p[2])]

Register == INSTANCE ActiveRegister WITH
  Pairs <- Employees \X Batches, Ids <- NomIds, Nobody <- NoRow, holder <- Holder

(* The desk keeps the promise of the register: an active nomination takes a  *)
(* free pair and leaves it by its own status change only.                    *)
RegisterSpec == Register!Spec
=============================================================================
