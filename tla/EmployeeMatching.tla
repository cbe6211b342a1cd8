--------------------------- MODULE EmployeeMatching ---------------------------
(***************************************************************************)
(* services/employee_matching_service.py: who a row of a workbook is about. *)
(* The employees known are a sequence in the order they were inserted, the  *)
(* order list_employees returns; an employee is named by its position.      *)
(* E-mails and names that differ in case and white space only are one value.*)
(***************************************************************************)
EXTENDS Integers, Sequences, FiniteSets

CONSTANTS
  Codes,        (* employee codes, as the text of a cell *)
  Emails,
  Names,
  Blank,        (* nothing: an empty cell, None, NaN *)
  Trimmed,      (* what is left of a code that a workbook stored as a number *)
  Similarity,   (* per pair of names, the ratio of SequenceMatcher in percent *)
  Threshold     (* fuzzy_threshold, in percent *)

ASSUME MatchingAssumption ==
  /\ Blank \notin Codes \cup Emails \cup Names
  /\ Trimmed \in [Codes -> Codes]
  /\ \A c \in Codes : Trimmed[Trimmed[c]] = Trimmed[c]
  /\ Similarity \in [Names \X Names -> 0 .. 100]
  /\ Threshold \in 1 .. 100

(* The ID cell of a row: a text, or a number (an int, or the float Excel makes *)
(* of it), which has lost the leading zeros of the code.                      *)
IdCell == [form : {"text", "number"}, value : Codes \cup {Blank}]

SourceRow == [id : IdCell, email : Emails \cup {Blank}, name : Names \cup {Blank}]

Employee == [code : Codes, email : Emails \cup {Blank}, name : Names \cup {Blank}]

NoOne == 0

LargestOf(S) == CHOOSE i \in S : \A j \in S : j <= i
SmallestOf(S) == CHOOSE i \in S : \A j \in S : i <= j

(* An int, an integral float and a text of the same digits are one key; a text *)
(* keeps its leading zeros.  A placeholder such as "N/A" is a code like others.*)
NormalizeEmployeeId(cell) ==
  IF cell.value # Blank /\ cell.form = "number" THEN Trimmed[cell.value] ELSE cell.value

------------------------------------------------------------------------------
(* Mutant: the index misses the last employee. *)
WithCode_LastMissed(known, code) ==
  {i \in 1 .. Len(known) - 1 : code # Blank /\ known[i].code = code}

(* build_employee_index: where each key leads; a later employee takes over     *)
(* the e-mail of an earlier one.                                              *)
WithCode(known, code) == {i \in DOMAIN known : code # Blank /\ known[i].code = code}

WithEmail(known, email) == {i \in DOMAIN known : email # Blank /\ known[i].email = email}
WithName(known, name) == {i \in DOMAIN known : name # Blank /\ known[i].name = name}

Found(status, employee, on, candidates) ==
  [status |-> status, employee |-> employee, matchedOn |-> on, candidates |-> candidates]

(* The name on record most like the row's, the first of them on a tie. *)
Likeness(known, name, i) == Similarity[<<name, known[i].name>>]

MostAlike(known, name) ==
  LET named == {i \in DOMAIN known : known[i].name # Blank}
      best  == {i \in named : \A j \in named : Likeness(known, name, j) <= Likeness(known, name, i)}
      close == {i \in best : Likeness(known, name, i) >= Threshold}
  IN  IF close = {} THEN {} ELSE WithName(known, known[SmallestOf(close)].name)

(* Mutant: the name goes before the e-mail. *)
MatchEmployee_NameFirst(row, known) ==
  LET code == NormalizeEmployeeId(row.id) IN
  IF WithCode(known, code) # {}
  THEN Found("ExactMatch", LargestOf(WithCode(known, code)), "EmployeeID", {})
  ELSE IF Cardinality(WithName(known, row.name)) = 1
  THEN Found("ExactMatch", LargestOf(WithName(known, row.name)), "Name", {})
  ELSE IF WithEmail(known, row.email) # {}
  THEN Found("ExactMatch", LargestOf(WithEmail(known, row.email)), "Email", {})
  ELSE Found("NoMatch", NoOne, "", {})

(* match_employee: by ID, then e-mail, then exact name; likeness is a suggestion. *)
MatchEmployee(row, known) ==
  LET code   == NormalizeEmployeeId(row.id)
      byCode == WithCode(known, code)
      byMail == WithEmail(known, row.email)
      byName == WithName(known, row.name)
      alike  == IF row.name = Blank THEN {} ELSE MostAlike(known, row.name)
  IN CASE code = Blank /\ row.email = Blank /\ row.name = Blank ->
            Found("InvalidSourceRecord", NoOne, "", {})
       [] byCode # {} -> Found("ExactMatch", LargestOf(byCode), "EmployeeID", {})
       [] byCode = {} /\ byMail # {} -> Found("ExactMatch", LargestOf(byMail), "Email", {})
       [] byCode = {} /\ byMail = {} /\ Cardinality(byName) = 1 ->
            Found("ExactMatch", LargestOf(byName), "Name", {})
       [] byCode = {} /\ byMail = {} /\ Cardinality(byName) > 1 ->
            Found("MultipleMatches", NoOne, "Name", byName)
       [] byCode = {} /\ byMail = {} /\ byName = {} /\ alike # {} ->
            Found("ProbableMatchReviewRequired",
                  IF Cardinality(alike) = 1 THEN SmallestOf(alike) ELSE NoOne, "Fuzzy", alike)
       [] OTHER -> Found("NoMatch", NoOne, "", {})

------------------------------------------------------------------------------
Resolved(action, employee) == [action |-> action, employee |-> employee]

(* Mutant: the e-mail decides whenever it is on file. *)
ResolveOrFlag_EmailFirst(row, known) ==
  IF WithEmail(known, row.email) # {}
  THEN Resolved("UseExisting", LargestOf(WithEmail(known, row.email)))
  ELSE IF NormalizeEmployeeId(row.id) = Blank THEN Resolved("InvalidRecord", NoOne)
  ELSE IF WithCode(known, NormalizeEmployeeId(row.id)) # {}
  THEN Resolved("UseExisting", LargestOf(WithCode(known, NormalizeEmployeeId(row.id))))
  ELSE Resolved("CreateNew", NoOne)

(* Mutant: a row without a code is registered as well. *)
ResolveOrFlag_NoCode(row, known) ==
  LET code == NormalizeEmployeeId(row.id) IN
  IF WithCode(known, code) # {} THEN Resolved("UseExisting", LargestOf(WithCode(known, code)))
  ELSE Resolved("CreateNew", NoOne)

(* resolve_or_flag_new_employee: the employee a tracker row belongs to, or what *)
(* has to be done about it.                                                    *)
ResolveOrFlag(row, known) ==
  LET code   == NormalizeEmployeeId(row.id)
      byCode == WithCode(known, code)
      byMail == WithEmail(known, row.email)
  IN CASE code = Blank /\ row.email = Blank -> Resolved("InvalidRecord", NoOne)
       [] byCode # {} ->
            IF byMail # {} /\ LargestOf(byMail) # LargestOf(byCode)
            THEN Resolved("ConflictReviewRequired", NoOne)
            ELSE Resolved("UseExisting", LargestOf(byCode))
       [] code # Blank /\ byCode = {} -> Resolved("CreateNew", NoOne)
       [] code = Blank /\ byMail # {} -> Resolved("UseExisting", LargestOf(byMail))
       [] code = Blank /\ row.email # Blank /\ byMail = {} -> Resolved("ManualCodeRequired", NoOne)
=============================================================================
