-------------------------- MODULE RosterImport_proofs --------------------------
(***************************************************************************)
(* Theorems about registering the employees of tracker files, for any      *)
(* number of importers and rows, any cells in them and indexes of any age. *)
(***************************************************************************)
EXTENDS RosterImport, SequenceTheorems, WellFoundedInduction, TLAPS

USE MatchingAssumption, ImportAssumption

(* A step is one action of one importer, or changes nothing. *)
LEMMA StepCases ==
  ASSUME [Next]_vars
  PROVE  \/ UNCHANGED vars
         \/ \E m \in Importers :
              \/ BuildIndex(m) \/ AddEmployee(m) \/ AddRefused(m) \/ Stop(m)
              \/ \E row \in Rows : ResolveRow(m, row)
  BY Zenon DEF Next

(* The last employee with a key exists: it is the one an index leads to.     *)
LEMMA LargestExists ==
  ASSUME NEW n \in Nat, NEW S, S \subseteq 1 .. n, S # {}
  PROVE  LargestOf(S) \in S /\ \A j \in S : j <= LargestOf(S)
<1> DEFINE T == {n - i : i \in S}
<1>1. T \subseteq Nat /\ T # {}
  <2>1. \A i \in S : n - i \in Nat /\ n - i \in T
    OBVIOUS
  <2>2. QED
    BY <2>1
<1>2. PICK R : IsWellFoundedOn(R, Nat) /\ R = {p \in Nat \X Nat : p[1] < p[2]}
  BY NatLessThanWellFounded DEF OpToRel
<1>3. PICK t \in T : \A u \in T : ~ (u < t)
  <2> HIDE DEF T
  <2>1. PICK t \in T : \A u \in T : <<u, t>> \notin R
    BY <1>1, <1>2, WFMin
  <2>2. QED
    BY <1>1, <1>2, <2>1
<1>4. \E i \in S : \A j \in S : j <= i
  <2>1. PICK i \in S : t = n - i
    OBVIOUS
  <2>2. \A j \in S : n - j \in T /\ j \in 1 .. n
    OBVIOUS
  <2>3. ASSUME NEW j \in S PROVE j <= i
    <3>1. ~ (n - j < n - i)
      BY <1>3, <2>1, <2>2
    <3>2. QED
      BY <3>1, <2>2
  <2>4. QED
    BY <2>3
<1>5. QED
  BY <1>4 DEF LargestOf

(* The key of a row is a code or nothing, and nothing just when the ID cell  *)
(* is empty; a code that a number cell keeps is its own key in both forms.   *)
LEMMA KeyOfRow ==
  ASSUME NEW row \in SourceRow
  PROVE  /\ NormalizeEmployeeId(row.id) \in Codes \cup {Blank}
         /\ NormalizeEmployeeId(row.id) = Blank <=> row.id.value = Blank
         /\ row.id.value # Blank /\ Trimmed[row.id.value] = row.id.value =>
              NormalizeEmployeeId(row.id) = row.id.value
  BY DEF SourceRow, IdCell, NormalizeEmployeeId

(* The key of the ID cell. *)
Key(row) == NormalizeEmployeeId(row.id)

(* resolve_or_flag_new_employee as a chain of conditions: its cases exclude   *)
(* each other and leave none out.                                            *)
LEMMA ResolveCases ==
  ASSUME NEW row, NEW known
  PROVE  LET byCode == WithCode(known, Key(row))
             byMail == WithEmail(known, row.email)
         IN ResolveOrFlag(row, known) =
              IF Key(row) = Blank /\ row.email = Blank THEN Resolved("InvalidRecord", NoOne)
              ELSE IF byCode # {}
              THEN IF byMail # {} /\ LargestOf(byMail) # LargestOf(byCode)
                   THEN Resolved("ConflictReviewRequired", NoOne)
                   ELSE Resolved("UseExisting", LargestOf(byCode))
              ELSE IF Key(row) # Blank THEN Resolved("CreateNew", NoOne)
              ELSE IF byMail # {} THEN Resolved("UseExisting", LargestOf(byMail))
              ELSE Resolved("ManualCodeRequired", NoOne)
<1> DEFINE byCode == WithCode(known, Key(row))
           byMail == WithEmail(known, row.email)
<1>1. byCode # {} => Key(row) # Blank
  BY DEF WithCode
<1>2. byMail # {} => row.email # Blank
  BY DEF WithEmail
<1>3. QED
  BY <1>1, <1>2 DEF ResolveOrFlag, Key

(* What resolve_or_flag_new_employee answers: an employee it found carries   *)
(* the code of the row or, when it has none, its e-mail; it asks for a new   *)
(* employee only for a code that no employee it knows has.                   *)
LEMMA ResolvedTo ==
  ASSUME NEW row \in SourceRow, NEW known \in Seq(Employee),
         NEW r, r = ResolveOrFlag(row, known)
  PROVE  /\ r = Resolved(r.action, r.employee)
         /\ r.action \in {"UseExisting", "CreateNew", "ManualCodeRequired",
                          "ConflictReviewRequired", "InvalidRecord"}
         /\ r.action # "UseExisting" => r.employee = NoOne
         /\ r.action = "UseExisting" =>
              /\ r.employee \in DOMAIN known
              /\ Key(row) # Blank => known[r.employee].code = Key(row)
              /\ Key(row) = Blank =>
                   row.email # Blank /\ known[r.employee].email = row.email
         /\ r.action = "CreateNew" =>
              Key(row) # Blank /\ \A i \in DOMAIN known : known[i].code # Key(row)
<1> DEFINE byCode == WithCode(known, Key(row))
           byMail == WithEmail(known, row.email)
<1>1. /\ DOMAIN known = 1 .. Len(known) /\ Len(known) \in Nat
      /\ byCode \subseteq 1 .. Len(known) /\ byMail \subseteq 1 .. Len(known)
  BY DEF WithCode, WithEmail
<1>2. byCode # {} => LargestOf(byCode) \in byCode
  BY <1>1, LargestExists
<1>3. byMail # {} => LargestOf(byMail) \in byMail
  BY <1>1, LargestExists
<1>4. byCode # {} => Key(row) # Blank
  BY DEF WithCode
<1>5. byMail # {} => row.email # Blank
  BY DEF WithEmail
<1>6a. r = IF Key(row) = Blank /\ row.email = Blank THEN Resolved("InvalidRecord", NoOne)
          ELSE IF byCode # {}
          THEN IF byMail # {} /\ LargestOf(byMail) # LargestOf(byCode)
               THEN Resolved("ConflictReviewRequired", NoOne)
               ELSE Resolved("UseExisting", LargestOf(byCode))
          ELSE IF Key(row) # Blank THEN Resolved("CreateNew", NoOne)
          ELSE IF byMail # {} THEN Resolved("UseExisting", LargestOf(byMail))
          ELSE Resolved("ManualCodeRequired", NoOne)
  BY ResolveCases, Zenon
<1>6. byCode = {} => \A i \in DOMAIN known : known[i].code # Key(row) \/ Key(row) = Blank
  BY DEF WithCode
<1>7. \A i \in byCode : i \in DOMAIN known /\ known[i].code = Key(row)
  BY DEF WithCode
<1>8. \A i \in byMail : i \in DOMAIN known /\ known[i].email = row.email
  BY DEF WithEmail
<1>9. QED
  <2> HIDE DEF byCode, byMail
  <2>1. \A a, e : /\ Resolved(a, e).action = a /\ Resolved(a, e).employee = e
                 /\ Resolved(a, e) = Resolved(Resolved(a, e).action, Resolved(a, e).employee)
    BY DEF Resolved
  <2>2. CASE byCode = {}
    <3>1. CASE Key(row) = Blank /\ byMail # {} /\ row.email # Blank
      BY <1>6a, <1>3, <1>8, <2>1, <2>2, <3>1
    <3>2. CASE Key(row) # Blank
      BY <1>6a, <1>6, <2>1, <2>2, <3>2
    <3>3. CASE Key(row) = Blank /\ (byMail = {} \/ row.email = Blank)
      BY <1>6a, <1>5, <2>1, <2>2, <3>3
    <3>4. QED
      BY <3>1, <3>2, <3>3
  <2>3. CASE byCode # {}
    <3>1. LargestOf(byCode) \in DOMAIN known /\ known[LargestOf(byCode)].code = Key(row)
      BY <1>2, <1>7, <2>3
    <3>2. QED
      BY <1>6a, <1>4, <2>1, <2>3, <3>1
  <2>4. QED
    BY <2>2, <2>3

(* What match_employee answers: the employee with the code of the row if one  *)
(* is known, whatever its e-mail and name; else the one with its e-mail.      *)
LEMMA MatchedOn ==
  ASSUME NEW row \in SourceRow, NEW known \in Seq(Employee),
         NEW f, f = MatchEmployee(row, known)
  PROVE  LET byCode == WithCode(known, Key(row))
             byMail == WithEmail(known, row.email)
         IN /\ byCode # {} => f = Found("ExactMatch", LargestOf(byCode), "EmployeeID", {})
            /\ byCode = {} /\ byMail # {} =>
                 f = Found("ExactMatch", LargestOf(byMail), "Email", {})
            /\ byCode = {} => f.matchedOn # "EmployeeID"
            /\ byCode = {} /\ byMail = {} => f.matchedOn # "Email"
<1> DEFINE byCode == WithCode(known, Key(row))
           byMail == WithEmail(known, row.email)
           byName == WithName(known, row.name)
           alike  == IF row.name = Blank THEN {} ELSE MostAlike(known, row.name)
           probable == IF Cardinality(alike) = 1 THEN SmallestOf(alike) ELSE NoOne
<1>1. byCode # {} => Key(row) # Blank
  BY DEF WithCode
<1>2. byMail # {} => row.email # Blank
  BY DEF WithEmail
<1> DEFINE empty   == Key(row) = Blank /\ row.email = Blank /\ row.name = Blank
           coded   == byCode # {}
           mailed  == byCode = {} /\ byMail # {}
           one     == byCode = {} /\ byMail = {} /\ Cardinality(byName) = 1
           several == byCode = {} /\ byMail = {} /\ Cardinality(byName) > 1
           close   == byCode = {} /\ byMail = {} /\ byName = {} /\ alike # {}
<1>3. f = CASE empty   -> Found("InvalidSourceRecord", NoOne, "", {})
            [] coded   -> Found("ExactMatch", LargestOf(byCode), "EmployeeID", {})
            [] mailed  -> Found("ExactMatch", LargestOf(byMail), "Email", {})
            [] one     -> Found("ExactMatch", LargestOf(byName), "Name", {})
            [] several -> Found("MultipleMatches", NoOne, "Name", byName)
            [] close   -> Found("ProbableMatchReviewRequired", probable, "Fuzzy", alike)
            [] OTHER   -> Found("NoMatch", NoOne, "", {})
  BY Zenon DEF MatchEmployee, Key
<1>4. \/ empty   /\ f = Found("InvalidSourceRecord", NoOne, "", {})
      \/ coded   /\ f = Found("ExactMatch", LargestOf(byCode), "EmployeeID", {})
      \/ mailed  /\ f = Found("ExactMatch", LargestOf(byMail), "Email", {})
      \/ one     /\ f = Found("ExactMatch", LargestOf(byName), "Name", {})
      \/ several /\ f = Found("MultipleMatches", NoOne, "Name", byName)
      \/ close   /\ f = Found("ProbableMatchReviewRequired", probable, "Fuzzy", alike)
      \/ ~coded /\ ~mailed /\ f = Found("NoMatch", NoOne, "", {})
  <2> HIDE DEF empty, coded, mailed, one, several, close, probable, alike, byName, byMail, byCode
  <2> QED BY <1>3
<1> HIDE DEF byCode, byMail, byName, alike, probable, one, several, close
<1>5. coded => f = Found("ExactMatch", LargestOf(byCode), "EmployeeID", {})
  BY <1>1, <1>4 DEF one, several, close
<1>6. mailed => f = Found("ExactMatch", LargestOf(byMail), "Email", {})
  BY <1>2, <1>4 DEF one, several, close
<1>7. ~coded => f.matchedOn # "EmployeeID"
  <2>1. /\ Found("InvalidSourceRecord", NoOne, "", {}).matchedOn = ""
        /\ Found("ExactMatch", LargestOf(byMail), "Email", {}).matchedOn = "Email"
        /\ Found("ExactMatch", LargestOf(byName), "Name", {}).matchedOn = "Name"
        /\ Found("MultipleMatches", NoOne, "Name", byName).matchedOn = "Name"
        /\ Found("ProbableMatchReviewRequired", probable, "Fuzzy", alike).matchedOn = "Fuzzy"
        /\ Found("NoMatch", NoOne, "", {}).matchedOn = ""
    BY DEF Found
  <2>2. "EmployeeID" \notin {"", "Email", "Name", "Fuzzy"}
    OBVIOUS
  <2> HIDE DEF coded, mailed, empty
  <2>3. ~coded => f.matchedOn \in {"", "Email", "Name", "Fuzzy"}
    BY <1>4, <2>1
  <2>4. QED
    BY <2>2, <2>3
<1>8. ~coded /\ ~mailed => f.matchedOn # "Email"
  <2>1. /\ Found("InvalidSourceRecord", NoOne, "", {}).matchedOn = ""
        /\ Found("ExactMatch", LargestOf(byName), "Name", {}).matchedOn = "Name"
        /\ Found("MultipleMatches", NoOne, "Name", byName).matchedOn = "Name"
        /\ Found("ProbableMatchReviewRequired", probable, "Fuzzy", alike).matchedOn = "Fuzzy"
        /\ Found("NoMatch", NoOne, "", {}).matchedOn = ""
    BY DEF Found
  <2>2. "Email" \notin {"", "Name", "Fuzzy"}
    OBVIOUS
  <2> HIDE DEF coded, mailed, empty
  <2>3. ~coded /\ ~mailed => f.matchedOn \in {"", "Name", "Fuzzy"}
    BY <1>4, <2>1
  <2>4. QED
    BY <2>2, <2>3
<1>9. QED
  BY <1>5, <1>6, <1>7, <1>8 DEF byCode, byMail

(* Where the two answers meet, for any row and any employees on file.        *)
LEMMA MatchFollowsResolve ==
  ASSUME NEW row \in SourceRow, NEW known \in Seq(Employee),
         NEW r, r = ResolveOrFlag(row, known), NEW f, f = MatchEmployee(row, known)
  PROVE  /\ r.action = "ConflictReviewRequired" =>
              f.matchedOn = "EmployeeID" /\ known[f.employee].code = Key(row)
         /\ r.action \in {"CreateNew", "ManualCodeRequired", "InvalidRecord"} =>
              /\ f.matchedOn # "EmployeeID"
              /\ f.matchedOn = "Email" =>
                   /\ r.action = "CreateNew"
                   /\ known[f.employee].email = row.email
                   /\ known[f.employee].code # Key(row)
<1> DEFINE byCode == WithCode(known, Key(row))
           byMail == WithEmail(known, row.email)
<1>1. /\ byCode # {} => f = Found("ExactMatch", LargestOf(byCode), "EmployeeID", {})
      /\ byCode = {} /\ byMail # {} => f = Found("ExactMatch", LargestOf(byMail), "Email", {})
      /\ byCode = {} => f.matchedOn # "EmployeeID"
      /\ byCode = {} /\ byMail = {} => f.matchedOn # "Email"
  BY MatchedOn, Zenon
<1>2. byCode # {} => Key(row) # Blank
  BY DEF WithCode
<1>3. byMail # {} => row.email # Blank
  BY DEF WithEmail
<1>4. r = IF Key(row) = Blank /\ row.email = Blank THEN Resolved("InvalidRecord", NoOne)
          ELSE IF byCode # {}
          THEN IF byMail # {} /\ LargestOf(byMail) # LargestOf(byCode)
               THEN Resolved("ConflictReviewRequired", NoOne)
               ELSE Resolved("UseExisting", LargestOf(byCode))
          ELSE IF Key(row) # Blank THEN Resolved("CreateNew", NoOne)
          ELSE IF byMail # {} THEN Resolved("UseExisting", LargestOf(byMail))
          ELSE Resolved("ManualCodeRequired", NoOne)
  BY ResolveCases, Zenon
<1>5. /\ DOMAIN known = 1 .. Len(known) /\ Len(known) \in Nat
      /\ byCode \subseteq 1 .. Len(known) /\ byMail \subseteq 1 .. Len(known)
  BY DEF WithCode, WithEmail
<1>6. /\ byCode # {} => LargestOf(byCode) \in byCode
      /\ byMail # {} => LargestOf(byMail) \in byMail
  BY <1>5, LargestExists
<1>7. /\ \A i \in byCode : known[i].code = Key(row)
      /\ \A i \in byMail : known[i].email = row.email /\ i \in DOMAIN known
      /\ Key(row) # Blank /\ byCode = {} => \A i \in DOMAIN known : known[i].code # Key(row)
  BY DEF WithCode, WithEmail
<1> HIDE DEF byCode, byMail
<1>8. CASE byCode # {}
  <2>1. f = Found("ExactMatch", LargestOf(byCode), "EmployeeID", {})
    BY <1>1, <1>8
  <2>2. \/ r = Resolved("ConflictReviewRequired", NoOne)
        \/ r = Resolved("UseExisting", LargestOf(byCode))
    BY <1>2, <1>4, <1>8
  <2>3. known[LargestOf(byCode)].code = Key(row)
    BY <1>6, <1>7, <1>8
  <2>4. QED
    BY <2>1, <2>2, <2>3 DEF Found, Resolved
<1>9. CASE byCode = {}
  <2>1. f.matchedOn # "EmployeeID" /\ r.action # "ConflictReviewRequired"
    BY <1>1, <1>4, <1>9 DEF Resolved
  <2>2. CASE byMail = {}
    BY <1>1, <1>9, <2>1, <2>2
  <2>3. CASE byMail # {}
    <3>1. f.employee = LargestOf(byMail) /\ known[f.employee].email = row.email
      BY <1>1, <1>6, <1>7, <1>9, <2>3 DEF Found
    <3>2. CASE Key(row) = Blank
      BY <1>3, <1>4, <1>9, <2>1, <2>3, <3>2 DEF Resolved
    <3>3. CASE Key(row) # Blank
      <4>1. r.action = "CreateNew"
        BY <1>4, <1>9, <3>3 DEF Resolved
      <4>2. known[f.employee].code # Key(row)
        BY <1>6, <1>7, <1>9, <2>3, <3>1, <3>3
      <4>3. QED
        BY <2>1, <3>1, <4>1, <4>2
    <3>4. QED
      BY <3>2, <3>3
  <2>4. QED
    BY <2>2, <2>3
<1>10. QED
  BY <1>8, <1>9

(* A row that belongs to an employee on file is joined to it.                 *)
LEMMA JoinsItsPerson ==
  ASSUME NEW row \in SourceRow, NEW known \in Seq(Employee),
         \A i, j \in DOMAIN known : known[i].code = known[j].code => i = j,
         NEW e \in DOMAIN known,
         Key(row) # Blank => known[e].code = Key(row),
         Key(row) = Blank => row.email # Blank /\ known[e].email = row.email,
         NEW f, f = MatchEmployee(row, known)
  PROVE  /\ f.status = "ExactMatch"
         /\ Key(row) # Blank => f.matchedOn = "EmployeeID" /\ f.employee = e
         /\ Key(row) = Blank => /\ f.matchedOn = "Email" /\ f.employee >= e
                               /\ known[f.employee].email = row.email
<1> DEFINE byCode == WithCode(known, Key(row))
           byMail == WithEmail(known, row.email)
<1>1. /\ byCode # {} => f = Found("ExactMatch", LargestOf(byCode), "EmployeeID", {})
      /\ byCode = {} /\ byMail # {} => f = Found("ExactMatch", LargestOf(byMail), "Email", {})
  BY MatchedOn, Zenon
<1>2. /\ DOMAIN known = 1 .. Len(known) /\ Len(known) \in Nat
      /\ byCode \subseteq 1 .. Len(known) /\ byMail \subseteq 1 .. Len(known)
  BY DEF WithCode, WithEmail
<1>3. CASE Key(row) # Blank
  <2>1. e \in byCode /\ \A i \in byCode : i = e
    BY <1>3 DEF WithCode
  <2> HIDE DEF byCode
  <2>2. LargestOf(byCode) = e
    BY <1>2, <2>1, LargestExists
  <2>3. QED
    BY <1>1, <1>3, <2>1, <2>2 DEF Found
<1>4. CASE Key(row) = Blank
  <2>1. byCode = {} /\ e \in byMail /\ \A i \in byMail : known[i].email = row.email
    BY <1>4 DEF WithCode, WithEmail
  <2> HIDE DEF byCode, byMail
  <2>2. LargestOf(byMail) \in byMail /\ e <= LargestOf(byMail)
    BY <1>2, <2>1, LargestExists
  <2>3. f = Found("ExactMatch", LargestOf(byMail), "Email", {})
    BY <1>1, <2>1
  <2>4. f.employee = LargestOf(byMail) /\ f.status = "ExactMatch" /\ f.matchedOn = "Email"
    BY <2>3 DEF Found
  <2>5. QED
    BY <1>2, <1>4, <2>1, <2>2, <2>4
<1>5. QED
  BY <1>3, <1>4

------------------------------------------------------------------------------
(* What the insert of a row rests on: the row has a code, and none of the     *)
(* employees its importer knew of has that code.                             *)
NewTo(row, seen) ==
  Key(row) # Blank /\ \A i \in 1 .. seen : employees[i].code # Key(row)

(* A row on record belongs to the right person, and what was refused came     *)
(* after the index was built.                                                *)
OutcomeOK(o) ==
  /\ o.employee # NoOne =>
       /\ o.employee \in DOMAIN employees
       /\ Key(o.row) # Blank => employees[o.employee].code = Key(o.row)
       /\ Key(o.row) = Blank =>
            o.row.email # Blank /\ employees[o.employee].email = o.row.email
  /\ o.action = "Refused" =>
       \E i \in o.seen + 1 .. Len(employees) : employees[i].code = Key(o.row)

CodesUnique ==
  \A i, j \in DOMAIN employees : employees[i].code = employees[j].code => i = j

(* The invariant the theorems rest on. *)
RosterInv ==
  /\ TypeOK
  /\ CodesUnique
  /\ \A m \in Importers : import[m].step = "insert" => NewTo(import[m].row, import[m].seen)
  /\ \A o \in outcomes : OutcomeOK(o)

(* Nothing is on file to begin with. *)
LEMMA InitInv == Init => RosterInv
<1> SUFFICES ASSUME Init PROVE RosterInv
  OBVIOUS
<1>1. employees = <<>> /\ employees \in Seq(Employee) /\ DOMAIN employees = {} /\ Len(employees) = 0
  BY DEF Init
<1>2. TypeOK
  BY <1>1 DEF Init, TypeOK
<1>3. QED
  BY <1>1, <1>2 DEF Init, RosterInv, CodesUnique, Idle

(* What an importer holds, by step. *)
LEMMA StageTypes ==
  ASSUME TypeOK, NEW m \in Importers
  PROVE  /\ Len(employees) \in Nat /\ DOMAIN employees = 1 .. Len(employees)
         /\ import[m].step = "rows" =>
              import[m] \in [step : {"rows"}, seen : 0 .. Len(employees)]
         /\ import[m].step = "insert" =>
              import[m] \in [step : {"insert"}, seen : 0 .. Len(employees), row : Rows]
  BY DEF TypeOK, Stage, Idle

(* An index knows the employees on file when it was built, each at its place. *)
LEMMA IndexIsPrefix ==
  ASSUME employees \in Seq(Employee), NEW seen \in 0 .. Len(employees)
  PROVE  /\ Known(seen) \in Seq(Employee) /\ DOMAIN Known(seen) = 1 .. seen
         /\ \A i \in 1 .. seen : Known(seen)[i] = employees[i]
<1>1. \A i \in 1 .. seen : employees[i] \in Employee
  BY ElementOfSeq, LenProperties
<1>2. Known(seen) \in Seq(Employee)
  BY <1>1, SubSeqProperties DEF Known
<1>3. Len(Known(seen)) = seen /\ \A i \in 1 .. seen : Known(seen)[i] = employees[i]
  BY <1>1, SubSeqProperties DEF Known
<1>4. QED
  BY <1>2, <1>3, LenProperties

(* Steps that leave the employees alone: only the importer that moves and    *)
(* the outcome it adds have to be looked at.                                 *)
LEMMA QuietStep ==
  ASSUME RosterInv, employees' = employees, NEW m \in Importers,
         NEW w \in {Idle} \cup Stage(Len(employees)), import' = [import EXCEPT ![m] = w],
         w.step = "insert" => NewTo(w.row, w.seen),
         outcomes' \subseteq Outcome, \A o \in outcomes' \ outcomes : OutcomeOK(o),
         resolved' \in 0 .. MaxRows
  PROVE  RosterInv'
<1> USE DEF RosterInv
<1>1. TypeOK'
  BY DEF TypeOK, Stage
<1>2. CodesUnique'
  BY DEF CodesUnique
<1>3. ASSUME NEW q \in Importers, import'[q].step = "insert"
      PROVE  NewTo(import[q].row, import[q].seen)'
  <2>1. CASE q = m
    BY <1>3, <2>1 DEF TypeOK, NewTo
  <2>2. CASE q # m
    BY <1>3, <2>2 DEF TypeOK, NewTo
  <2>3. QED
    BY <2>1, <2>2
<1>4. ASSUME NEW o \in outcomes' PROVE OutcomeOK(o)'
  <2>1. OutcomeOK(o)
    OBVIOUS
  <2>2. QED
    BY <2>1 DEF OutcomeOK
<1>5. QED
  BY <1>1, <1>2, <1>3, <1>4

(* An index read again forgets nothing: it has no row to insert. *)
LEMMA BuildIndexStep ==
  ASSUME RosterInv, NEW m \in Importers, BuildIndex(m)
  PROVE  RosterInv'
<1> DEFINE w == Reading(Len(employees))
<1>1. Len(employees) \in Nat
  BY DEF RosterInv, TypeOK
<1>2. w \in Stage(Len(employees)) /\ w.step # "insert"
  BY <1>1 DEF Reading, Stage
<1>3. outcomes' \subseteq Outcome /\ resolved' \in 0 .. MaxRows
  BY DEF BuildIndex, RosterInv, TypeOK
<1>4. QED
  BY <1>2, <1>3, QuietStep DEF BuildIndex

(* The file ends or the process stops. *)
LEMMA StopStep ==
  ASSUME RosterInv, NEW m \in Importers, Stop(m)
  PROVE  RosterInv'
<1>1. Idle.step # "insert"
  BY DEF Idle
<1>2. outcomes' \subseteq Outcome /\ resolved' \in 0 .. MaxRows
  BY DEF Stop, RosterInv, TypeOK
<1>3. QED
  BY <1>1, <1>2, QuietStep DEF Stop

(* A row resolved against an index, however old, is put to an employee that   *)
(* is still the same one, or waits to be inserted as one new to that index.  *)
LEMMA ResolveRowStep ==
  ASSUME RosterInv, NEW m \in Importers, NEW row \in Rows, ResolveRow(m, row)
  PROVE  RosterInv'
<1> DEFINE seen == import[m].seen
           r == ResolveOrFlag(row, Known(seen))
           note == Note(row, r.action, r.employee, seen)
<1>1. /\ Len(employees) \in Nat /\ DOMAIN employees = 1 .. Len(employees)
      /\ import[m] \in [step : {"rows"}, seen : 0 .. Len(employees)]
  BY StageTypes DEF RosterInv, ResolveRow
<1>2. seen \in 0 .. Len(employees) /\ seen \in Nat /\ row \in SourceRow
  BY <1>1
<1>3. /\ Known(seen) \in Seq(Employee) /\ DOMAIN Known(seen) = 1 .. seen
      /\ \A i \in 1 .. seen : Known(seen)[i] = employees[i] /\ i \in DOMAIN employees
  BY <1>1, <1>2, IndexIsPrefix DEF RosterInv, TypeOK
<1>4. /\ r.action \in {"UseExisting", "CreateNew", "ManualCodeRequired",
                       "ConflictReviewRequired", "InvalidRecord"}
      /\ r.action # "UseExisting" => r.employee = NoOne
      /\ r.action = "UseExisting" =>
           /\ r.employee \in 1 .. seen
           /\ Key(row) # Blank => Known(seen)[r.employee].code = Key(row)
           /\ Key(row) = Blank =>
                row.email # Blank /\ Known(seen)[r.employee].email = row.email
      /\ r.action = "CreateNew" =>
           Key(row) # Blank /\ \A i \in 1 .. seen : Known(seen)[i].code # Key(row)
  BY <1>2, <1>3, ResolvedTo
<1> HIDE DEF seen, r
<1>5. resolved' \in 0 .. MaxRows /\ employees' = employees /\ outcomes \subseteq Outcome
  BY DEF ResolveRow, RosterInv, TypeOK
<1>6. CASE r.action = "CreateNew"
  <2> DEFINE w == Inserting(seen, row)
  <2>1. w \in Stage(Len(employees))
    BY <1>2 DEF Inserting, Stage
  <2>2. NewTo(w.row, w.seen)
    BY <1>3, <1>4, <1>6 DEF Inserting, NewTo
  <2>3. import' = [import EXCEPT ![m] = w] /\ outcomes' = outcomes
    BY <1>6 DEF ResolveRow, seen, r
  <2>4. QED
    BY <1>5, <2>1, <2>2, <2>3, QuietStep
<1>7. CASE r.action # "CreateNew"
  <2>1. outcomes' = outcomes \cup {note} /\ import' = import
    BY <1>7 DEF ResolveRow, seen, r
  <2>2. r.employee \in Nat
    BY <1>4 DEF NoOne
  <2>3. note \in Outcome
    BY <1>2, <1>4, <2>2 DEF Note, Outcome
  <2>4. OutcomeOK(note)
    BY <1>3, <1>4 DEF OutcomeOK, Note
  <2>5. import[m] \in {Idle} \cup Stage(Len(employees)) /\ import[m].step # "insert"
    BY <1>1 DEF Stage
  <2>6. import' = [import EXCEPT ![m] = import[m]]
    BY <2>1 DEF RosterInv, TypeOK
  <2> HIDE DEF note
  <2>7. outcomes' \subseteq Outcome /\ \A o \in outcomes' \ outcomes : OutcomeOK(o)
    BY <1>5, <2>1, <2>3, <2>4
  <2>8. QED
    BY <1>5, <2>5, <2>6, <2>7, QuietStep
<1>8. QED
  BY <1>6, <1>7

(* An employee is added at the end of the table and moves nobody; its code    *)
(* was free, so codes stay unique.                                           *)
LEMMA AddEmployeeStep ==
  ASSUME RosterInv, NEW m \in Importers, AddEmployee(m)
  PROVE  RosterInv'
<1> USE DEF RosterInv
<1> DEFINE row == import[m].row
           e == NewEmployee(row)
           size == Len(employees)
           w == Reading(import[m].seen)
           note == Note(row, "CreateNew", size + 1, import[m].seen)
<1>1. /\ size \in Nat /\ DOMAIN employees = 1 .. size
      /\ import[m] \in [step : {"insert"}, seen : 0 .. size, row : Rows]
  BY StageTypes DEF AddEmployee
<1>2. row \in Rows /\ row \in SourceRow /\ import[m].seen \in 0 .. size /\ import[m].seen \in Nat
  BY <1>1
<1>3. Key(row) # Blank
  BY <1>1 DEF NewTo
<1>4. e \in Employee /\ e.code = Key(row)
  BY <1>2, <1>3, KeyOfRow DEF NewEmployee, Employee, SourceRow, Key
<1>5. /\ employees' = Append(employees, e)
      /\ \A i \in 1 .. size : employees[i].code # Key(row)
      /\ outcomes' = outcomes \cup {note}
      /\ import' = [import EXCEPT ![m] = w]
      /\ resolved' = resolved
  BY <1>1, <1>4 DEF AddEmployee, CodeTaken
<1> HIDE DEF e
<1>6. /\ employees' \in Seq(Employee) /\ Len(employees') = size + 1
      /\ \A i \in 1 .. size : employees'[i] = employees[i]
      /\ employees'[size + 1] = e
  BY <1>4, <1>5, AppendProperties DEF TypeOK
<1>7. DOMAIN employees' = 1 .. size + 1
  BY <1>6
<1>8. w \in Stage(size + 1) /\ Stage(size) \subseteq Stage(size + 1)
  BY <1>1, <1>2 DEF Reading, Stage
<1>9. note \in Outcome
  BY <1>1, <1>2 DEF Note, Outcome
<1> HIDE DEF row, size, w, note
<1>10. TypeOK'
  <2>1. import' \in [Importers -> {Idle} \cup Stage(size + 1)]
    BY <1>5, <1>8 DEF TypeOK, size
  <2>2. QED
    BY <1>5, <1>6, <1>9, <2>1 DEF TypeOK
<1>11. CodesUnique'
  <2>1. \A i \in 1 .. size : employees'[i].code # employees'[size + 1].code
    BY <1>4, <1>5, <1>6
  <2>2. \A i, j \in 1 .. size : employees'[i].code = employees'[j].code => i = j
    BY <1>1, <1>6 DEF CodesUnique
  <2>3. QED
    BY <1>1, <1>7, <2>1, <2>2 DEF CodesUnique
<1>12. ASSUME NEW q \in Importers, import'[q].step = "insert"
       PROVE  NewTo(import[q].row, import[q].seen)'
  <2>1. q # m /\ import'[q] = import[q]
    BY <1>5, <1>12 DEF TypeOK, w, Reading
  <2>2. import[q].seen \in 0 .. size /\ NewTo(import[q].row, import[q].seen)
    BY <1>12, <2>1, StageTypes DEF size
  <2>3. QED
    BY <1>1, <1>6, <2>1, <2>2 DEF NewTo
<1>13. ASSUME NEW o \in outcomes' PROVE OutcomeOK(o)'
  <2>1. CASE o = note
    BY <1>1, <1>3, <1>4, <1>6, <1>7, <2>1 DEF OutcomeOK, note, Note
  <2>2. CASE o \in outcomes
    <3>1. OutcomeOK(o) /\ o.seen \in Nat
      BY <2>2 DEF TypeOK, Outcome
    <3>2. o.employee # NoOne =>
            o.employee \in 1 .. size /\ o.employee \in 1 .. size + 1
            /\ employees'[o.employee] = employees[o.employee]
      BY <1>1, <1>6, <3>1 DEF OutcomeOK
    <3>3. o.action = "Refused" =>
            \E i \in o.seen + 1 .. size + 1 : employees'[i].code = Key(o.row)
      <4>1. \A i \in o.seen + 1 .. size : i \in 1 .. size /\ i \in o.seen + 1 .. size + 1
        BY <1>1, <3>1
      <4>2. QED
        BY <1>1, <1>6, <3>1, <4>1 DEF OutcomeOK, size
    <3>4. QED
      BY <1>1, <1>6, <1>7, <3>1, <3>2, <3>3 DEF OutcomeOK
  <2>3. QED
    BY <1>5, <2>1, <2>2
<1>14. QED
  BY <1>10, <1>11, <1>12, <1>13

(* An insert is refused because of an employee the index does not know.      *)
LEMMA AddRefusedStep ==
  ASSUME RosterInv, NEW m \in Importers, AddRefused(m)
  PROVE  RosterInv'
<1> USE DEF RosterInv
<1> DEFINE row == import[m].row
           seen == import[m].seen
           note == Note(row, "Refused", NoOne, seen)
<1>1. /\ Len(employees) \in Nat /\ DOMAIN employees = 1 .. Len(employees)
      /\ import[m] \in [step : {"insert"}, seen : 0 .. Len(employees), row : Rows]
  BY StageTypes DEF AddRefused
<1>2. row \in Rows /\ seen \in 0 .. Len(employees) /\ seen \in Nat /\ NewTo(row, seen)
  BY <1>1
<1>3. PICK i \in 1 .. Len(employees) : employees[i].code = Key(row)
  BY <1>1 DEF AddRefused, CodeTaken, NewEmployee, Key
<1>4. i \in seen + 1 .. Len(employees)
  BY <1>1, <1>2, <1>3 DEF NewTo
<1>5. note \in Outcome
  BY <1>2 DEF Note, Outcome, NoOne
<1>6. OutcomeOK(note)
  BY <1>3, <1>4 DEF OutcomeOK, Note, NoOne
<1>7. /\ outcomes' = outcomes \cup {note} /\ employees' = employees
      /\ import' = [import EXCEPT ![m] = Idle] /\ resolved' = resolved
  BY DEF AddRefused
<1>8. Idle.step # "insert"
  BY DEF Idle
<1> HIDE DEF note
<1>9. outcomes' \subseteq Outcome /\ resolved' \in 0 .. MaxRows
      /\ \A o \in outcomes' \ outcomes : OutcomeOK(o)
  BY <1>5, <1>6, <1>7 DEF TypeOK
<1>10. QED
  BY <1>7, <1>8, <1>9, QuietStep

(* Every step keeps the invariant. *)
LEMMA StepKeeps == RosterInv /\ [Next]_vars => RosterInv'
<1> SUFFICES ASSUME RosterInv, [Next]_vars PROVE RosterInv'
  OBVIOUS
<1>1. CASE UNCHANGED vars
  <2>1. TypeOK' /\ CodesUnique'
    BY <1>1 DEF vars, RosterInv, TypeOK, CodesUnique
  <2>2. \A m \in Importers : import[m].step = "insert" => NewTo(import[m].row, import[m].seen)'
    BY <1>1 DEF vars, RosterInv, NewTo
  <2>3. \A o \in outcomes : OutcomeOK(o)'
    BY <1>1 DEF vars, RosterInv, OutcomeOK
  <2>4. QED
    BY <1>1, <2>1, <2>2, <2>3 DEF vars, RosterInv
<1>2. ASSUME NEW m \in Importers, BuildIndex(m) PROVE RosterInv'
  BY <1>2, BuildIndexStep
<1>3. ASSUME NEW m \in Importers, NEW row \in Rows, ResolveRow(m, row) PROVE RosterInv'
  BY <1>3, ResolveRowStep
<1>4. ASSUME NEW m \in Importers, AddEmployee(m) PROVE RosterInv'
  BY <1>4, AddEmployeeStep
<1>5. ASSUME NEW m \in Importers, AddRefused(m) PROVE RosterInv'
  BY <1>5, AddRefusedStep
<1>6. ASSUME NEW m \in Importers, Stop(m) PROVE RosterInv'
  BY <1>6, StopStep
<1>7. QED
  BY <1>1, <1>2, <1>3, <1>4, <1>5, <1>6, StepCases

(* The invariant holds of every reachable state. *)
LEMMA Always == Spec => []RosterInv
<1>1. Init => RosterInv
  BY InitInv
<1>2. RosterInv /\ [Next]_vars => RosterInv'
  BY StepKeeps
<1>3. QED
  BY <1>1, <1>2, PTL DEF Spec

------------------------------------------------------------------------------
(* Every variable has its type: employees on file are complete, an index is   *)
(* never newer than the table.                                               *)
THEOREM TypeCorrect == Spec => []TypeOK
<1>1. RosterInv => TypeOK
  BY DEF RosterInv
<1>2. QED
  BY <1>1, Always, PTL

(* A row resolved by an index of any age belongs to the employee with its     *)
(* code or, if it has none, with its e-mail: the table only grows, so the     *)
(* place an index leads to keeps its employee.                               *)
THEOREM RowsGoToTheirPerson == Spec => []RightPerson
<1>1. RosterInv => RightPerson
  BY DEF RosterInv, OutcomeOK, RightPerson, Key
<1>2. QED
  BY <1>1, Always, PTL

(* Two rows with the same code belong to the same employee: both have the     *)
(* code of the employee, and codes are unique.                               *)
THEOREM OneEmployeePerCode == Spec => []OnePerson
<1>1. RosterInv => OnePerson
  <2> SUFFICES ASSUME RosterInv, NEW a \in outcomes, NEW b \in outcomes,
                      a.employee # NoOne, b.employee # NoOne,
                      a.row.id.value = b.row.id.value, a.row.id.value # Blank,
                      Trimmed[a.row.id.value] = a.row.id.value
               PROVE  a.employee = b.employee
    BY DEF OnePerson
  <2>1. a.row \in SourceRow /\ b.row \in SourceRow
    BY DEF RosterInv, TypeOK, Outcome
  <2>2. /\ Key(a.row) = a.row.id.value /\ Key(b.row) = b.row.id.value
        /\ Key(a.row) # Blank /\ Key(b.row) # Blank
    BY <2>1, KeyOfRow DEF Key
  <2>3. /\ a.employee \in DOMAIN employees /\ employees[a.employee].code = Key(a.row)
        /\ b.employee \in DOMAIN employees /\ employees[b.employee].code = Key(b.row)
    BY <2>2 DEF RosterInv, OutcomeOK
  <2>4. QED
    BY <2>2, <2>3 DEF RosterInv, CodesUnique
<1>2. QED
  BY <1>1, Always, PTL

(* The UNIQUE constraint never stops an import whose index is up to date.     *)
THEOREM RefusalsComeFromOldIndexes == Spec => []RefusalsAreStale
<1>1. RosterInv => RefusalsAreStale
  BY DEF RosterInv, OutcomeOK, RefusalsAreStale, Key
<1>2. QED
  BY <1>1, Always, PTL

(* However the table grew since a row was put to an employee, match_employee   *)
(* joins the row to that employee; and the two answers of a row differ only    *)
(* in the ways DiffersKnowingly names.                                         *)
THEOREM ReportsJoinRegistrations == Spec => []ReportJoins
<1>1. RosterInv => ReportJoins
  <2> SUFFICES ASSUME RosterInv PROVE ReportJoins
    OBVIOUS
  <2>0. employees \in Seq(Employee)
    BY DEF RosterInv, TypeOK
  <2>1. ASSUME NEW o \in outcomes, o.employee # NoOne PROVE Joins(o)
    <3>1. o.row \in SourceRow /\ OutcomeOK(o)
      BY DEF RosterInv, TypeOK, Outcome
    <3>2. /\ o.employee \in DOMAIN employees
          /\ Key(o.row) # Blank => employees[o.employee].code = Key(o.row)
          /\ Key(o.row) = Blank =>
               o.row.email # Blank /\ employees[o.employee].email = o.row.email
      BY <2>1, <3>1 DEF OutcomeOK
    <3>3. \A i, j \in DOMAIN employees : employees[i].code = employees[j].code => i = j
      BY DEF RosterInv, CodesUnique
    <3> DEFINE f == MatchEmployee(o.row, employees)
    <3>4. /\ f.status = "ExactMatch"
          /\ Key(o.row) # Blank => f.matchedOn = "EmployeeID" /\ f.employee = o.employee
          /\ Key(o.row) = Blank => /\ f.matchedOn = "Email" /\ f.employee >= o.employee
                                  /\ employees[f.employee].email = o.row.email
      <4> HIDE DEF f
      <4> QED BY <2>0, <3>1, <3>2, <3>3, JoinsItsPerson DEF f
    <3> HIDE DEF f
    <3>5. QED
      BY <3>4 DEF Joins, Key, f
  <2>2. ASSUME NEW row \in Rows PROVE DiffersKnowingly(row)
    <3>1. row \in SourceRow
      OBVIOUS
    <3>2. QED
      BY <2>0, <3>1, MatchFollowsResolve DEF DiffersKnowingly, Key
  <2>3. QED
    BY <2>1, <2>2 DEF ReportJoins
<1>2. QED
  BY <1>1, Always, PTL
=============================================================================
