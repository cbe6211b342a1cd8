------------------------- MODULE NominationDesk_proofs -------------------------
(***************************************************************************)
(* Theorems about the nomination desk, for any number of sessions,         *)
(* employees, programs, batches and nominations.                           *)
(***************************************************************************)
EXTENDS NominationDesk, FiniteSetTheorems, TLAPS

USE DeskAssumption

(* Every step is one action of one session: the proofs below go action by    *)
(* action.                                                                   *)
LEMMA StepCases ==
  ASSUME [Next]_vars
  PROVE  \/ UNCHANGED vars
         \/ \E s \in Sessions :
              \/ \E e \in Employees, b \in Batches : Submit(s, e, b)
              \/ \E n \in NomIds, new \in Statuses : ReadForMove(s, n, new)
              \/ InsertRow(s) \/ UpdateRow(s) \/ WriteAudit(s) \/ Refused(s) \/ Fail(s)
  BY Zenon DEF Next, Continue

------------------------------------------------------------------------------
(* Type correctness needs HeldOK: an UPDATE keeps the table well typed only   *)
(* because the row it names is stored.                                       *)
DeskInv == TypeOK /\ HeldOK

(* What a session holds has its types. *)
LEMMA HeldTypes ==
  ASSUME TypeOK, NEW s \in Sessions, work[s] # Idle
  PROVE  /\ work[s] \in Busy
         /\ work[s].nom \in NomIds /\ work[s].row \in Row /\ work[s].entry \in Entry
         /\ work[s].step \in {"insert", "update", "audit"}
         /\ [work[s] EXCEPT !.step = "audit"] \in Busy
<1>1. work[s] \in Busy
  BY DEF TypeOK
<1>2. QED
  BY <1>1 DEF Busy

(* Nothing is stored or held to begin with. *)
LEMMA InitInv == Init => DeskInv
  BY DEF Init, DeskInv, TypeOK, HeldOK, Stored

(* Every step keeps the types. *)
LEMMA TypeStep ==
  ASSUME DeskInv, [Next]_vars
  PROVE  TypeOK'
<1> USE DEF DeskInv
<1>1. ASSUME NEW s \in Sessions, NEW e \in Employees, NEW b \in Batches, Submit(s, e, b)
      PROVE  TypeOK'
  BY <1>1 DEF Submit, TypeOK, Busy, Idle, Row, Entry, Statuses, Fresh
<1>2. ASSUME NEW s \in Sessions, NEW n \in NomIds, NEW new \in Statuses, ReadForMove(s, n, new)
      PROVE  TypeOK'
  <2>1. noms[n] \in Row
    BY <1>2 DEF ReadForMove, TypeOK, Stored
  <2>2. QED
    BY <1>2, <2>1 DEF ReadForMove, TypeOK, Busy, Idle, Row, Entry
<1>3. ASSUME NEW s \in Sessions, InsertRow(s) PROVE TypeOK'
  <2>1. work[s] # Idle
    BY <1>3 DEF InsertRow, Idle
  <2>2. QED
    BY <1>3, <2>1, HeldTypes DEF InsertRow, TypeOK
<1>4. ASSUME NEW s \in Sessions, UpdateRow(s) PROVE TypeOK'
  <2>1. work[s] # Idle
    BY <1>4 DEF UpdateRow, Idle
  <2>2. work[s].nom \in Stored
    BY <1>4, <2>1 DEF UpdateRow, HeldOK, HeldBy
  <2>3. noms[work[s].nom] \in Row /\ work[s].row \in Row
    BY <2>1, <2>2, HeldTypes DEF TypeOK, Stored
  <2>4. [noms[work[s].nom] EXCEPT !.status = work[s].row.status] \in Row
    BY <2>3 DEF Row
  <2>5. QED
    BY <1>4, <2>1, <2>4, HeldTypes DEF UpdateRow, TypeOK
<1>5. ASSUME NEW s \in Sessions, WriteAudit(s) PROVE TypeOK'
  <2>1. work[s] # Idle
    BY <1>5 DEF WriteAudit, Idle
  <2>2. QED
    BY <1>5, <2>1, HeldTypes DEF WriteAudit, TypeOK
<1>6. ASSUME NEW s \in Sessions, Refused(s) PROVE TypeOK'
  BY <1>6 DEF Refused, TypeOK
<1>7. ASSUME NEW s \in Sessions, Fail(s) PROVE TypeOK'
  BY <1>7, HeldTypes DEF Fail, TypeOK
<1>8. CASE UNCHANGED vars
  BY <1>8 DEF vars, TypeOK
<1>9. QED
  BY StepCases, <1>1, <1>2, <1>3, <1>4, <1>5, <1>6, <1>7, <1>8, Zenon

(* Every step keeps what sessions hold in agreement with the table. *)
LEMMA HeldStep ==
  ASSUME DeskInv, [Next]_vars
  PROVE  HeldOK'
<1> USE DEF DeskInv
<1>1. ASSUME NEW s \in Sessions, NEW e \in Employees, NEW b \in Batches, Submit(s, e, b)
      PROVE  HeldOK'
  <2>1. PICK n \in Fresh :
          work' = [work EXCEPT ![s] =
            [step |-> "insert", nom |-> n,
             row |-> [employee |-> e, program |-> ProgramOf[b], batch |-> b,
                      status |-> "Submitted"],
             entry |-> [nom |-> n, action |-> "Created", from |-> "n/a",
                        to |-> "Submitted", at |-> clock]]]
    BY <1>1 DEF Submit
  <2>2. noms' = noms /\ Stored' = Stored
    BY <1>1 DEF Submit, Stored
  <2>3. HeldBy(s)'
    BY <2>1, <2>2 DEF HeldBy, TypeOK, Fresh
  <2>4. ASSUME NEW t \in Sessions, t # s, work'[t] # Idle PROVE HeldBy(t)'
    <3>1. work'[t] = work[t] /\ HeldBy(t) /\ work[t].nom # n
      BY <2>1, <2>4 DEF TypeOK, HeldOK, Fresh
    <3>2. QED
      BY <2>1, <2>2, <3>1 DEF HeldBy, TypeOK
  <2>5. QED
    BY <2>2, <2>3, <2>4 DEF HeldOK
<1>2. ASSUME NEW s \in Sessions, NEW n \in NomIds, NEW new \in Statuses, ReadForMove(s, n, new)
      PROVE  HeldOK'
  <2>1. noms' = noms /\ Stored' = Stored /\ n \in Stored /\ noms[n] \in Row
    BY <1>2 DEF ReadForMove, TypeOK, Stored
  <2>2. HeldBy(s)'
    <3>1. noms[n].program = ProgramOf[noms[n].batch]
      BY <2>1 DEF HeldOK
    <3> DEFINE r == [noms[n] EXCEPT !.status = new]
    <3>2. r.status = new /\ SamePlace(r, noms[n])
      BY <2>1 DEF Row, SamePlace
    <3>3. work'[s].nom = n /\ work'[s].step = "update" /\ work'[s].row = r
          /\ work'[s].entry.nom = n /\ work'[s].entry.to = new
          /\ work'[s].entry.action = "StatusChanged"
      BY <1>2 DEF ReadForMove, TypeOK
    <3> HIDE DEF r
    <3>4. QED
      BY <2>1, <3>1, <3>2, <3>3 DEF HeldBy, SamePlace
  <2>3. ASSUME NEW t \in Sessions, t # s, work'[t] # Idle PROVE HeldBy(t)'
    <3>1. work'[t] = work[t] /\ HeldBy(t)
      BY <1>2, <2>3 DEF ReadForMove, TypeOK, HeldOK
    <3>2. work[t].step = "insert" => work[t].nom # n
      BY <2>1, <3>1 DEF HeldBy
    <3>3. work'[s].nom = n /\ \A u \in Sessions \ {s} : work'[u] = work[u]
      BY <1>2 DEF ReadForMove, TypeOK
    <3>4. QED
      BY <2>1, <3>1, <3>2, <3>3 DEF HeldBy
  <2>4. QED
    BY <2>1, <2>2, <2>3 DEF HeldOK
<1>3. ASSUME NEW s \in Sessions, InsertRow(s) PROVE HeldOK'
  <2> DEFINE m == work[s].nom
  <2>1. /\ work[s] # Idle /\ HeldBy(s) /\ work[s].step = "insert"
        /\ m \in NomIds /\ work[s].row \in Row
    <3>1. work[s] # Idle /\ work[s].step = "insert"
      BY <1>3 DEF InsertRow, Idle
    <3>2. QED
      BY <3>1, HeldTypes DEF HeldOK
  <2>2. /\ m \notin Stored /\ Stored' = Stored \cup {m}
        /\ noms'[m] = work[s].row /\ \A n \in Stored : noms'[n] = noms[n]
    BY <1>3, <2>1 DEF InsertRow, HeldBy, TypeOK, Stored
  <2>3. /\ work'[s] = [work[s] EXCEPT !.step = "audit"]
        /\ \A t \in Sessions \ {s} : work'[t] = work[t]
    BY <1>3 DEF InsertRow, TypeOK
  <2>4. /\ work'[s].step = "audit" /\ work'[s].nom = m
        /\ work'[s].row = work[s].row /\ work'[s].entry = work[s].entry
    BY <2>1, <2>3, HeldTypes DEF Busy
  <2>5. HeldBy(s)'
    BY <2>1, <2>2, <2>4 DEF HeldBy, SamePlace
  <2>6. ASSUME NEW t \in Sessions, t # s, work'[t] # Idle PROVE HeldBy(t)'
    <3>1. work'[t] = work[t] /\ HeldBy(t) /\ work[t].nom # m
      BY <2>1, <2>3, <2>6 DEF HeldOK, HeldBy
    <3>2. \A u \in Sessions \ {t} : work[u] = Idle \/ work[u].nom # work[t].nom
                                     => work'[u] = Idle \/ work'[u].nom # work[t].nom
      BY <2>3, <2>4, <3>1
    <3> HIDE DEF m
    <3>3. QED
      BY <2>2, <3>1, <3>2 DEF HeldBy
  <2>7. noms'[m].program = ProgramOf[noms'[m].batch]
    BY <2>1, <2>2 DEF HeldBy
  <2>8. QED
    BY <2>2, <2>5, <2>6, <2>7 DEF HeldOK
<1>4. ASSUME NEW s \in Sessions, UpdateRow(s) PROVE HeldOK'
  <2> DEFINE m == work[s].nom
  <2>1. /\ work[s] # Idle /\ HeldBy(s) /\ work[s].step = "update" /\ m \in Stored
        /\ m \in NomIds /\ noms[m] \in Row /\ work[s].row \in Row
    <3>1. work[s] # Idle /\ HeldBy(s) /\ m \in Stored
      BY <1>4 DEF UpdateRow, Idle, HeldOK, HeldBy
    <3>2. QED
      BY <1>4, <3>1, HeldTypes DEF UpdateRow, TypeOK, Stored
  <2>2. /\ noms'[m] = [noms[m] EXCEPT !.status = work[s].row.status]
        /\ \A n \in NomIds \ {m} : noms'[n] = noms[n]
    BY <1>4, <2>1 DEF UpdateRow, TypeOK
  <2>3. noms'[m] \in Row /\ SamePlace(noms'[m], noms[m])
    BY <2>1, <2>2 DEF Row, SamePlace
  <2>4. Stored' = Stored /\ \A n \in Stored : SamePlace(noms'[n], noms[n])
    BY <2>1, <2>2, <2>3 DEF Stored, SamePlace
  <2>5. /\ work'[s] = [work[s] EXCEPT !.step = "audit"]
        /\ \A t \in Sessions \ {s} : work'[t] = work[t]
    BY <1>4 DEF UpdateRow, TypeOK
  <2>6. /\ work'[s].step = "audit" /\ work'[s].nom = m
        /\ work'[s].row = work[s].row /\ work'[s].entry = work[s].entry
    BY <2>1, <2>5, HeldTypes DEF Busy
  <2>7. ASSUME NEW t \in Sessions, work'[t] # Idle PROVE HeldBy(t)'
    <3>1. /\ HeldBy(t) /\ work'[t].nom = work[t].nom
          /\ work'[t].row = work[t].row /\ work'[t].entry = work[t].entry
          /\ t # s => work'[t].step = work[t].step
      BY <2>1, <2>5, <2>6, <2>7 DEF HeldOK
    <3>2. \A u \in Sessions : work'[u] = Idle \/ work'[u].nom = work[u].nom
      BY <2>5, <2>6
    <3>3. \A u \in Sessions : work[u] = Idle => work'[u] = Idle
      BY <2>1, <2>5
    <3> HIDE DEF m
    <3>4. QED
      BY <2>1, <2>4, <2>6, <3>1, <3>2, <3>3 DEF HeldBy, SamePlace
  <2>8. QED
    BY <2>4, <2>7 DEF HeldOK, SamePlace
<1>5. ASSUME NEW s \in Sessions, work' = [work EXCEPT ![s] = Idle], noms' = noms
      PROVE  HeldOK'
  <2>1. Stored' = Stored
    BY <1>5 DEF Stored
  <2>2. work'[s] = Idle /\ \A t \in Sessions \ {s} : work'[t] = work[t]
    BY <1>5 DEF TypeOK
  <2>3. ASSUME NEW t \in Sessions, work'[t] # Idle PROVE HeldBy(t)'
    BY <1>5, <2>1, <2>2, <2>3 DEF HeldOK, HeldBy
  <2>4. QED
    BY <1>5, <2>1, <2>3 DEF HeldOK
<1>6. ASSUME NEW s \in Sessions, WriteAudit(s) \/ Refused(s) \/ Fail(s)
      PROVE  HeldOK'
  BY <1>5, <1>6 DEF WriteAudit, Refused, Fail
<1>7. CASE UNCHANGED vars
  BY <1>7 DEF vars, HeldOK, HeldBy, Stored
<1>8. QED
  BY StepCases, <1>1, <1>2, <1>3, <1>4, <1>6, <1>7, Zenon

(* The tables and the sessions are well typed, and what a session holds      *)
(* agrees with the table it read, through any interleaving and failure.      *)
THEOREM DeskInvariant == Spec => []DeskInv
<1>1. DeskInv /\ [Next]_vars => DeskInv'
  BY TypeStep, HeldStep DEF DeskInv
<1>2. QED
  BY InitInv, <1>1, PTL DEF Spec

(* Type correctness of the desk.                                             *)
THEOREM TypeCorrect == Spec => []TypeOK
  BY DeskInvariant, PTL DEF DeskInv

(* The held-object invariant of the desk.                                    *)
THEOREM HeldCorrect == Spec => []HeldOK
  BY DeskInvariant, PTL DEF DeskInv

------------------------------------------------------------------------------
(* The trail grows by the entry of the row write that commits, and by        *)
(* nothing else: storing an entry, or losing it, moves it within the trail.  *)
LEMMA TrailKept ==
  ASSUME DeskInv, [Next]_vars,
         ~\E s \in Sessions : InsertRow(s) \/ UpdateRow(s)
  PROVE  Trail' = Trail /\ noms' = noms
<1> USE DEF DeskInv
<1> DEFINE Held == {work[s].entry : s \in InStep("audit")}
<1>1. ASSUME NEW s \in Sessions, work[s] = Idle, NEW w, w.step # "audit",
             work' = [work EXCEPT ![s] = w], audit' = audit, lost' = lost
      PROVE  Trail' = Trail
  <2>1. InStep("audit")' = InStep("audit")
    BY <1>1 DEF InStep, TypeOK, Idle
  <2>2. \A t \in InStep("audit") : work'[t] = work[t]
    BY <1>1 DEF InStep, TypeOK, Idle
  <2>3. Held' = Held
    BY <2>1, <2>2
  <2>4. QED
    BY <1>1, <2>3 DEF Trail
<1>2. ASSUME NEW s \in Sessions, work[s].step = "audit",
             work' = [work EXCEPT ![s] = Idle],
             audit' \cup lost' = (audit \cup lost) \cup {work[s].entry}
      PROVE  Trail' = Trail
  <2>1. InStep("audit")' = InStep("audit") \ {s} /\ s \in InStep("audit")
    BY <1>2 DEF InStep, TypeOK, Idle
  <2>2. \A t \in InStep("audit") \ {s} : work'[t] = work[t]
    BY <1>2 DEF InStep, TypeOK
  <2>3. Held = Held' \cup {work[s].entry}
    BY <2>1, <2>2
  <2>4. QED
    BY <1>2, <2>3 DEF Trail
<1>3. ASSUME NEW s \in Sessions, work[s].step # "audit",
             work' = [work EXCEPT ![s] = Idle], audit' = audit, lost' = lost
      PROVE  Trail' = Trail
  <2>1. InStep("audit")' = InStep("audit")
    BY <1>3 DEF InStep, TypeOK, Idle
  <2>2. \A t \in InStep("audit") : work'[t] = work[t]
    BY <1>3 DEF InStep, TypeOK
  <2>3. Held' = Held
    BY <2>1, <2>2
  <2>4. QED
    BY <1>3, <2>3 DEF Trail
<1>4. ASSUME NEW s \in Sessions, NEW e \in Employees, NEW b \in Batches, Submit(s, e, b)
      PROVE  Trail' = Trail /\ noms' = noms
  <2>1. PICK n \in Fresh :
          work' = [work EXCEPT ![s] =
            [step |-> "insert", nom |-> n,
             row |-> [employee |-> e, program |-> ProgramOf[b], batch |-> b,
                      status |-> "Submitted"],
             entry |-> [nom |-> n, action |-> "Created", from |-> "n/a",
                        to |-> "Submitted", at |-> clock]]]
    BY <1>4 DEF Submit
  <2>2. QED
    BY <1>1, <1>4, <2>1 DEF Submit
<1>5. ASSUME NEW s \in Sessions, NEW n \in NomIds, NEW new \in Statuses, ReadForMove(s, n, new)
      PROVE  Trail' = Trail /\ noms' = noms
  BY <1>1, <1>5 DEF ReadForMove
<1>6. ASSUME NEW s \in Sessions, WriteAudit(s) PROVE Trail' = Trail /\ noms' = noms
  BY <1>2, <1>6 DEF WriteAudit
<1>7. ASSUME NEW s \in Sessions, Refused(s) PROVE Trail' = Trail /\ noms' = noms
  BY <1>3, <1>7 DEF Refused
<1>8. ASSUME NEW s \in Sessions, Fail(s) PROVE Trail' = Trail /\ noms' = noms
  BY <1>2, <1>3, <1>8 DEF Fail
<1>9. CASE UNCHANGED vars
  BY <1>9 DEF vars, Trail, InStep
<1>10. QED
  BY StepCases, <1>4, <1>5, <1>6, <1>7, <1>8, <1>9

(* A row inserted or updated adds the entry held to the trail, and no other. *)
LEMMA TrailExtended ==
  ASSUME DeskInv, NEW s \in Sessions, InsertRow(s) \/ UpdateRow(s)
  PROVE  /\ work[s] # Idle /\ HeldBy(s) /\ work[s].nom \in NomIds
         /\ work[s].row \in Row /\ work[s].entry \in Entry
         /\ work[s].step \in {"insert", "update"}
         /\ InsertRow(s) => work[s].step = "insert"
         /\ UpdateRow(s) => work[s].step = "update"
         /\ Trail' = Trail \cup {work[s].entry}
         /\ Stored' = Stored \cup {work[s].nom}
         /\ \A n \in NomIds \ {work[s].nom} : noms'[n] = noms[n]
         /\ noms'[work[s].nom] \in Row
         /\ SamePlace(noms'[work[s].nom], work[s].row)
         /\ noms'[work[s].nom].status = work[s].row.status
<1> USE DEF DeskInv
<1>1. work[s] # Idle /\ work[s].step \in {"insert", "update"}
      /\ (InsertRow(s) => work[s].step = "insert")
      /\ (UpdateRow(s) => work[s].step = "update")
  BY DEF InsertRow, UpdateRow, Idle
<1>2. /\ HeldBy(s) /\ work[s].nom \in NomIds /\ work[s].row \in Row /\ work[s].entry \in Entry
  BY <1>1, HeldTypes DEF HeldOK
<1>3. audit' = audit /\ lost' = lost /\ work' = [work EXCEPT ![s].step = "audit"]
  BY DEF InsertRow, UpdateRow
<1>4. /\ work'[s].step = "audit" /\ work'[s].entry = work[s].entry
      /\ \A t \in Sessions \ {s} : work'[t] = work[t]
  <2>1. work'[s] = [work[s] EXCEPT !.step = "audit"]
    BY <1>3 DEF TypeOK
  <2>2. work[s] \in Busy
    BY <1>1, HeldTypes
  <2>3. QED
    BY <1>3, <2>1, <2>2 DEF Busy, TypeOK
<1>5. Trail' = Trail \cup {work[s].entry}
  <2> DEFINE Held == {work[t].entry : t \in InStep("audit")}
  <2>1. InStep("audit")' = InStep("audit") \cup {s} /\ s \notin InStep("audit")
    BY <1>1, <1>4 DEF InStep
  <2>2. \A t \in InStep("audit") : work'[t] = work[t]
    BY <1>4, <2>1 DEF InStep
  <2>3. Held' = Held \cup {work[s].entry}
    BY <1>4, <2>1, <2>2
  <2>4. QED
    BY <1>3, <2>3 DEF Trail
<1>6. /\ Stored' = Stored \cup {work[s].nom}
      /\ \A n \in NomIds \ {work[s].nom} : noms'[n] = noms[n]
      /\ noms'[work[s].nom] \in Row
      /\ SamePlace(noms'[work[s].nom], work[s].row)
      /\ noms'[work[s].nom].status = work[s].row.status
  <2>1. CASE InsertRow(s)
    <3>1. noms'[work[s].nom] = work[s].row
      BY <1>2, <2>1 DEF InsertRow, TypeOK
    <3>2. \A n \in NomIds \ {work[s].nom} : noms'[n] = noms[n]
      BY <1>2, <2>1 DEF InsertRow, TypeOK
    <3>3. QED
      BY <1>2, <3>1, <3>2 DEF Stored, SamePlace
  <2>2. CASE UpdateRow(s)
    <3>1. work[s].nom \in Stored /\ SamePlace(work[s].row, noms[work[s].nom])
      BY <1>1, <1>2, <2>2 DEF HeldBy
    <3>2. noms[work[s].nom] \in Row
      BY <3>1 DEF Stored, TypeOK
    <3>3. noms'[work[s].nom] = [noms[work[s].nom] EXCEPT !.status = work[s].row.status]
      BY <1>2, <2>2 DEF UpdateRow, TypeOK
    <3>4. \A n \in NomIds \ {work[s].nom} : noms'[n] = noms[n]
      BY <1>2, <2>2 DEF UpdateRow, TypeOK
    <3>5. /\ noms'[work[s].nom] \in Row
          /\ SamePlace(noms'[work[s].nom], work[s].row)
          /\ noms'[work[s].nom].status = work[s].row.status
      BY <1>2, <3>1, <3>2, <3>3 DEF Row, SamePlace
    <3>6. QED
      BY <1>2, <3>1, <3>4, <3>5 DEF Stored
  <2>3. QED
    BY <2>1, <2>2
<1>7. QED
  BY <1>1, <1>2, <1>5, <1>6

------------------------------------------------------------------------------
(* Exactly one creation entry in the trail of each stored nomination, none   *)
(* for an id that is not stored, and an entry for the status each row shows. *)
TrailInv ==
  /\ \A n \in Stored : \E x : Creations(n) = {x}
  /\ \A x \in Trail : x.nom \in Stored
  /\ StatusExplained

(* Every step keeps the creations and the statuses explained. *)
LEMMA TrailStep ==
  ASSUME DeskInv, TrailInv, [Next]_vars
  PROVE  TrailInv'
<1>1. CASE ~\E s \in Sessions : InsertRow(s) \/ UpdateRow(s)
  <2>1. Trail' = Trail /\ noms' = noms /\ Stored' = Stored
    BY <1>1, TrailKept DEF Stored
  <2>2. QED
    BY <2>1 DEF TrailInv, Creations, StatusExplained
<1>2. ASSUME NEW s \in Sessions, InsertRow(s) \/ UpdateRow(s)
      PROVE  TrailInv'
  <2> DEFINE m == work[s].nom
             y == work[s].entry
  <2>1. y.nom = m /\ y.to = work[s].row.status
    BY <1>2, TrailExtended DEF HeldBy
  <2>2. Trail' = Trail \cup {y} /\ Stored' = Stored \cup {m} /\ m \in NomIds
    BY <1>2, TrailExtended
  <2>3. ASSUME NEW n \in Stored' PROVE \E x : Creations(n)' = {x}
    <3>1. CASE n # m \/ UpdateRow(s)
      <4>1. Creations(n)' = Creations(n)
        <5>1. y.nom # n \/ y.action # "Created"
          BY <1>2, <2>1, <3>1, TrailExtended DEF HeldBy
        <5>2. QED
          BY <2>2, <5>1 DEF Creations
      <4>2. n \in Stored
        BY <1>2, <2>2, <3>1, TrailExtended DEF HeldBy
      <4>3. QED
        BY <4>1, <4>2 DEF TrailInv
    <3>2. CASE n = m /\ InsertRow(s)
      <4>1. m \notin Stored /\ y.action = "Created"
        BY <1>2, <3>2, TrailExtended DEF HeldBy
      <4>2. \A x \in Trail : x.nom # m
        BY <4>1 DEF TrailInv
      <4>3. Creations(n)' = {y}
        BY <2>1, <2>2, <3>2, <4>1, <4>2 DEF Creations
      <4>4. QED
        BY <4>3
    <3>3. QED
      BY <1>2, <3>1, <3>2
  <2>4. \A x \in Trail' : x.nom \in Stored'
    BY <2>1, <2>2 DEF TrailInv
  <2>5. StatusExplained'
    <3> SUFFICES ASSUME NEW n \in Stored'
                 PROVE  \E x \in Trail' : x.nom = n /\ x.to = noms'[n].status
      BY DEF StatusExplained
    <3>1. CASE n = m
      BY <1>2, <2>1, <2>2, <3>1, TrailExtended
    <3>2. CASE n # m
      <4>1. n \in Stored /\ noms'[n] = noms[n]
        BY <1>2, <2>2, <3>2, TrailExtended DEF Stored
      <4>2. QED
        BY <2>2, <4>1 DEF TrailInv, StatusExplained
    <3>3. QED
      BY <3>1, <3>2
  <2>6. QED
    BY <2>3, <2>4, <2>5 DEF TrailInv
<1>3. QED
  BY <1>1, <1>2

(* Trails explain their rows in every reachable state. *)
LEMMA TrailInvariant == Spec => []TrailInv
<1>1. Init => TrailInv
  <2> SUFFICES ASSUME Init PROVE TrailInv
    OBVIOUS
  <2>1. Stored = {}
    BY DEF Init, Stored
  <2>2. Trail = {}
    BY DEF Init, Trail, InStep, Idle
  <2>3. QED
    BY <2>1, <2>2 DEF TrailInv, StatusExplained
<1>2. DeskInv /\ TrailInv /\ [Next]_vars => TrailInv'
  BY TrailStep
<1>3. QED
  BY <1>1, <1>2, DeskInvariant, PTL DEF Spec

(* Row and audit entry are written by two transactions, yet in every          *)
(* interleaving and after every failure each stored nomination has exactly   *)
(* one creation entry that is stored, under way or known lost.               *)
THEOREM CreatedOnceHolds == Spec => []CreatedOnce
<1>1. TrailInv => CreatedOnce
  <2> SUFFICES ASSUME TrailInv, NEW n \in NomIds
               PROVE  Cardinality(Creations(n)) = IF n \in Stored THEN 1 ELSE 0
    BY DEF CreatedOnce, TrailInv
  <2>1. CASE n \in Stored
    BY <2>1, FS_Singleton DEF TrailInv
  <2>2. CASE n \notin Stored
    <3>1. Creations(n) = {}
      BY <2>2 DEF TrailInv, Creations
    <3>2. QED
      BY <2>2, <3>1, FS_EmptySet
  <2>3. QED
    BY <2>1, <2>2
<1>2. QED
  BY <1>1, TrailInvariant, PTL

(* However stale updates overtake one another, the status of a stored         *)
(* nomination is the new status of some entry of its trail.                  *)
THEOREM StatusExplainedHolds == Spec => []StatusExplained
  BY TrailInvariant, PTL DEF TrailInv

(* No step removes a nomination or changes whose it is.                       *)
THEOREM IdentityFixedHolds == Spec => IdentityFixed
<1>1. DeskInv /\ [Next]_vars =>
        [\A n \in Stored :
           /\ noms'[n] # NoRow
           /\ \A f \in {"employee", "program", "batch"} : noms'[n][f] = noms[n][f]]_vars
  <2> SUFFICES ASSUME DeskInv, [Next]_vars, NEW n \in Stored
               PROVE  /\ noms'[n] # NoRow
                      /\ \A f \in {"employee", "program", "batch"} : noms'[n][f] = noms[n][f]
    OBVIOUS
  <2>1. CASE ~\E s \in Sessions : InsertRow(s) \/ UpdateRow(s)
    BY <2>1, TrailKept DEF Stored
  <2>2. ASSUME NEW s \in Sessions, InsertRow(s) \/ UpdateRow(s)
        PROVE  /\ noms'[n] # NoRow
               /\ \A f \in {"employee", "program", "batch"} : noms'[n][f] = noms[n][f]
    <3>1. CASE n # work[s].nom
      BY <2>2, <3>1, TrailExtended DEF Stored
    <3>2. CASE n = work[s].nom
      <4>1. work[s].step # "insert"
        BY <2>2, <3>2, TrailExtended DEF HeldBy
      <4>2. SamePlace(work[s].row, noms[n]) /\ SamePlace(noms'[n], work[s].row)
            /\ noms'[n] \in Row
        BY <2>2, <3>2, <4>1, TrailExtended DEF HeldBy
      <4>3. QED
        BY <4>2 DEF SamePlace
    <3>3. QED
      BY <3>1, <3>2
  <2>3. QED
    BY <2>1, <2>2
<1>2. QED
  BY <1>1, DeskInvariant, PTL DEF Spec, IdentityFixed

------------------------------------------------------------------------------
(* The argument for TrailReplays is about the whole trail, stored or not.    *)
(* Entries carry the time of their read, and a nomination that no two moves   *)
(* overlapped on is read, written, read, written: what is read next is what  *)
(* the latest entry of its trail ended in.                                   *)
PriorTo(n, t) ==
  {x \in Trail : /\ x.nom = n /\ x.at < t
                 /\ \A y \in Trail : y.nom = n /\ y.at < t => y.at <= x.at}

Moving(s, n) == work[s].step = "update" /\ work[s].nom = n

Chained(n) ==
  /\ \A x, y \in Trail : x.nom = n /\ y.nom = n /\ x.at = y.at => x = y
  /\ \A x \in Trail : x.nom = n /\ x.action = "StatusChanged" =>
       \A y \in PriorTo(n, x.at) : y.to = x.from
  /\ n \in Stored => \E x \in Trail : /\ x.nom = n /\ x.to = noms[n].status
                                      /\ \A y \in Trail : y.nom = n => y.at <= x.at
  /\ \A s \in Sessions : Moving(s, n) =>
       /\ work[s].entry.from = noms[n].status
       /\ \A y \in Trail : y.nom = n => y.at < work[s].entry.at
  /\ \A s, t \in Sessions : Moving(s, n) /\ Moving(t, n) => s = t

ReplayInv ==
  /\ \A x \in Trail : x.at < clock
  /\ \A s \in Sessions : work[s] # Idle => work[s].entry.at < clock
  /\ \A n \in NomIds \ raced : Chained(n)

(* Every entry of the trail is an audit entry. *)
LEMMA TrailTyped ==
  ASSUME DeskInv
  PROVE  /\ Trail \subseteq Entry /\ clock \in Nat
         /\ \A x \in Trail : x.at \in Nat
         /\ \A s \in Sessions : work[s] # Idle => work[s].entry.at \in Nat
<1>1. \A s \in Sessions : work[s] # Idle => work[s].entry \in Entry
  BY HeldTypes DEF DeskInv
<1>2. \A s \in InStep("audit") : s \in Sessions /\ work[s] # Idle
  BY DEF InStep, Idle
<1>3. Trail \subseteq Entry
  BY <1>1, <1>2 DEF Trail, DeskInv, TypeOK
<1>4. \A x \in Entry : x.at \in Nat
  BY DEF Entry
<1>5. QED
  BY <1>1, <1>3, <1>4 DEF DeskInv, TypeOK

(* A step that writes no row, and after which nobody moves n who did not      *)
(* before, keeps its chain.                                                  *)
LEMMA ChainKept ==
  ASSUME Trail' = Trail, noms' = noms, NEW n \in NomIds, Chained(n),
         \A s \in Sessions : Moving(s, n)' => Moving(s, n) /\ work'[s].entry = work[s].entry
  PROVE  Chained(n)'
<1>1. Stored' = Stored /\ \A t : PriorTo(n, t)' = PriorTo(n, t)
  BY DEF Stored, PriorTo
<1>2. /\ (\A x, y \in Trail : x.nom = n /\ y.nom = n /\ x.at = y.at => x = y)'
      /\ (\A x \in Trail : x.nom = n /\ x.action = "StatusChanged" =>
            \A y \in PriorTo(n, x.at) : y.to = x.from)'
  BY <1>1 DEF Chained
<1>3. (n \in Stored => \E x \in Trail : /\ x.nom = n /\ x.to = noms[n].status
                                        /\ \A y \in Trail : y.nom = n => y.at <= x.at)'
  BY <1>1 DEF Chained
<1>4. /\ (\A s \in Sessions : Moving(s, n) =>
            /\ work[s].entry.from = noms[n].status
            /\ \A y \in Trail : y.nom = n => y.at < work[s].entry.at)'
      /\ (\A s, t \in Sessions : Moving(s, n) /\ Moving(t, n) => s = t)'
  BY DEF Chained
<1>5. QED
  BY <1>2, <1>3, <1>4 DEF Chained

(* A row write by s extends the chain of its nomination by the entry held.   *)
LEMMA ChainExtended ==
  ASSUME DeskInv, TrailInv, NEW s \in Sessions, InsertRow(s) \/ UpdateRow(s),
         NEW n \in NomIds, Chained(n)
  PROVE  Chained(n)'
<1>1. PICK k, e, r : k = work[s].nom /\ e = work[s].entry /\ r = work[s].row
  OBVIOUS
<1>2. /\ work[s] # Idle /\ HeldBy(s) /\ k \in NomIds /\ e \in Entry
      /\ Trail' = Trail \cup {e} /\ Stored' = Stored \cup {k}
      /\ \A m \in NomIds \ {k} : noms'[m] = noms[m]
      /\ noms'[k].status = r.status
      /\ work[s].step \in {"insert", "update"}
  BY <1>1, TrailExtended
<1>3. e.nom = k /\ e.to = r.status
  BY <1>1, <1>2 DEF HeldBy
<1>4. /\ work'[s].step = "audit"
      /\ \A t \in Sessions \ {s} : work'[t] = work[t]
  <2>1. work' = [work EXCEPT ![s].step = "audit"] /\ work[s] \in Busy
    BY <1>2, HeldTypes DEF InsertRow, UpdateRow, DeskInv
  <2>2. QED
    BY <2>1 DEF DeskInv, TypeOK, Busy
<1>5. \A t \in Sessions, m \in NomIds :
        Moving(t, m)' => t # s /\ Moving(t, m) /\ work'[t] = work[t]
  BY <1>4 DEF Moving
<1>6. /\ \A x \in Trail : x.at \in Nat
      /\ e.at \in Nat
  BY <1>2, TrailTyped DEF Entry
<1>7. CASE n # k
  <2>1. \A t : PriorTo(n, t)' = PriorTo(n, t)
    BY <1>2, <1>3, <1>7 DEF PriorTo
  <2>2. /\ (\A x, y \in Trail : x.nom = n /\ y.nom = n /\ x.at = y.at => x = y)'
        /\ (\A x \in Trail : x.nom = n /\ x.action = "StatusChanged" =>
              \A y \in PriorTo(n, x.at) : y.to = x.from)'
    BY <1>2, <1>3, <1>7, <2>1 DEF Chained
  <2>3. (n \in Stored => \E x \in Trail : /\ x.nom = n /\ x.to = noms[n].status
                                          /\ \A y \in Trail : y.nom = n => y.at <= x.at)'
    BY <1>2, <1>3, <1>7 DEF Chained
  <2>4. /\ (\A t \in Sessions : Moving(t, n) =>
              /\ work[t].entry.from = noms[n].status
              /\ \A y \in Trail : y.nom = n => y.at < work[t].entry.at)'
        /\ (\A t, u \in Sessions : Moving(t, n) /\ Moving(u, n) => t = u)'
    BY <1>2, <1>3, <1>5, <1>7 DEF Chained
  <2>5. QED
    BY <2>2, <2>3, <2>4 DEF Chained
<1>8. CASE n = k
  <2>1. \A x \in Trail : x.nom = n => x.at < e.at
    <3>1. CASE work[s].step = "update"
      BY <1>1, <1>8, <3>1 DEF Chained, Moving
    <3>2. CASE work[s].step = "insert"
      BY <1>1, <1>2, <1>8, <3>2 DEF HeldBy, TrailInv
    <3>3. QED
      BY <1>2, <3>1, <3>2
  <2>2. e.action = "StatusChanged" =>
          Moving(s, n) /\ n \in Stored /\ e.from = noms[n].status
    <3>1. e.action = "StatusChanged" => work[s].step = "update"
      BY <1>1, <1>2 DEF HeldBy
    <3>2. work[s].step = "update" => Moving(s, n) /\ n \in Stored
      BY <1>1, <1>2, <1>8 DEF HeldBy, Moving
    <3>3. Moving(s, n) => e.from = noms[n].status
      BY <1>1 DEF Chained
    <3>4. QED
      BY <3>1, <3>2, <3>3
  <2>3. (\A x, y \in Trail : x.nom = n /\ y.nom = n /\ x.at = y.at => x = y)'
    BY <1>2, <1>6, <2>1 DEF Chained
  <2>4. ASSUME NEW x \in Trail', x.nom = n, x.action = "StatusChanged",
               NEW y \in PriorTo(n, x.at)'
        PROVE  y.to = x.from
    <3>1. y \in Trail /\ y.nom = n /\ y.at < x.at
      BY <1>2, <1>6, <2>1, <2>4 DEF PriorTo
    <3>2. \A z \in Trail : z.nom = n /\ z.at < x.at => z.at <= y.at
      BY <1>2, <2>4 DEF PriorTo
    <3>3. CASE x \in Trail
      <4>1. y \in PriorTo(n, x.at)
        BY <3>1, <3>2 DEF PriorTo
      <4>2. QED
        BY <2>4, <3>3, <4>1 DEF Chained
    <3>4. CASE x = e
      <4>1. PICK z \in Trail : z.nom = n /\ z.to = noms[n].status
                               /\ \A v \in Trail : v.nom = n => v.at <= z.at
        BY <2>2, <2>4, <3>4 DEF Chained
      <4>2. z.at = y.at
        BY <1>6, <2>1, <3>1, <3>2, <3>4, <4>1
      <4>3. z = y
        BY <3>1, <4>1, <4>2 DEF Chained
      <4>4. QED
        BY <2>2, <2>4, <3>4, <4>1, <4>3
    <3>5. QED
      BY <1>2, <3>3, <3>4
  <2>5. (n \in Stored => \E x \in Trail : /\ x.nom = n /\ x.to = noms[n].status
                                          /\ \A y \in Trail : y.nom = n => y.at <= x.at)'
    <3>1. e \in Trail' /\ e.nom = n /\ e.to = noms'[n].status
      BY <1>2, <1>3, <1>8
    <3>2. \A y \in Trail' : y.nom = n => y.at <= e.at
      BY <1>2, <1>6, <2>1
    <3>3. QED
      BY <3>1, <3>2
  <2>6. \A t \in Sessions : ~Moving(t, n)'
    <3> SUFFICES ASSUME NEW t \in Sessions, Moving(t, n)' PROVE FALSE
      OBVIOUS
    <3>1. t # s /\ Moving(t, n)
      BY <1>5
    <3>2. CASE work[s].step = "update"
      BY <1>1, <1>8, <3>1, <3>2 DEF Chained, Moving
    <3>3. CASE work[s].step = "insert"
      BY <1>1, <1>2, <1>8, <3>1, <3>3 DEF HeldBy, Moving, Idle
    <3>4. QED
      BY <1>2, <3>2, <3>3
  <2>7. QED
    BY <2>3, <2>4, <2>5, <2>6 DEF Chained
<1>9. QED
  BY <1>7, <1>8

(* Every step keeps the chains of the nominations that no two moves overlap   *)
(* on.                                                                       *)
LEMMA ReplayStep ==
  ASSUME DeskInv, TrailInv, ReplayInv, [Next]_vars
  PROVE  ReplayInv'
<1> USE DEF ReplayInv
<1>0. clock \in Nat
  BY TrailTyped
<1>1. ASSUME NEW s \in Sessions, InsertRow(s) \/ UpdateRow(s)
      PROVE  ReplayInv'
  <2>1. /\ Trail' = Trail \cup {work[s].entry} /\ work[s] # Idle
        /\ clock' = clock /\ raced' = raced
    BY <1>1, TrailExtended DEF InsertRow, UpdateRow
  <2>2. /\ work'[s].entry = work[s].entry
        /\ \A t \in Sessions \ {s} : work'[t] = work[t]
    <3>1. work' = [work EXCEPT ![s].step = "audit"] /\ work[s] \in Busy
      BY <1>1, TrailExtended, HeldTypes DEF InsertRow, UpdateRow, DeskInv
    <3>2. QED
      BY <3>1 DEF DeskInv, TypeOK, Busy
  <2>3. \A n \in NomIds \ raced : Chained(n)'
    BY <1>1, ChainExtended
  <2>4. QED
    BY <2>1, <2>2, <2>3
<1>2. ASSUME NEW s \in Sessions, NEW e \in Employees, NEW b \in Batches, Submit(s, e, b)
      PROVE  ReplayInv'
  <2>1. Trail' = Trail /\ noms' = noms
    <3>1. \A t \in Sessions : ~(InsertRow(t) \/ UpdateRow(t))
      BY <1>0, <1>2 DEF Submit, InsertRow, UpdateRow
    <3>2. QED
      BY <3>1, TrailKept
  <2>2. /\ clock' = clock + 1 /\ raced' = raced
        /\ work'[s].step = "insert" /\ work'[s].entry.at = clock
        /\ \A t \in Sessions \ {s} : work'[t] = work[t]
    BY <1>2 DEF Submit, DeskInv, TypeOK
  <2>3. \A n \in NomIds \ raced' : Chained(n)'
    BY <2>1, <2>2, ChainKept DEF Moving
  <2>4. QED
    BY <1>0, <2>1, <2>2, <2>3, TrailTyped
<1>3. ASSUME NEW s \in Sessions, NEW m \in NomIds, NEW new \in Statuses, ReadForMove(s, m, new)
      PROVE  ReplayInv'
  <2>1. Trail' = Trail /\ noms' = noms
    <3>1. \A t \in Sessions : ~(InsertRow(t) \/ UpdateRow(t))
      BY <1>0, <1>3 DEF ReadForMove, InsertRow, UpdateRow
    <3>2. QED
      BY <3>1, TrailKept
  <2>2. /\ clock' = clock + 1
        /\ work'[s].step = "update" /\ work'[s].nom = m
        /\ work'[s].entry.at = clock /\ work'[s].entry.from = noms[m].status
        /\ \A t \in Sessions \ {s} : work'[t] = work[t]
    BY <1>3 DEF ReadForMove, DeskInv, TypeOK
  <2>3. raced \subseteq raced' /\ (m \notin raced' => \A t \in Sessions : ~Moving(t, m))
    BY <1>3 DEF ReadForMove, Moving
  <2>4. ASSUME NEW n \in NomIds \ raced' PROVE Chained(n)'
    <3>1. Chained(n)
      BY <2>3
    <3>2. CASE n # m
      BY <2>1, <2>2, <3>1, <3>2, ChainKept DEF Moving
    <3>3. CASE n = m
      <4>1. Stored' = Stored /\ \A t : PriorTo(n, t)' = PriorTo(n, t)
        BY <2>1 DEF Stored, PriorTo
      <4>2. \A t \in Sessions : Moving(t, n)' <=> t = s
        BY <2>2, <2>3, <3>3 DEF Moving
      <4>3. (\A t \in Sessions : Moving(t, n) =>
               /\ work[t].entry.from = noms[n].status
               /\ \A y \in Trail : y.nom = n => y.at < work[t].entry.at)'
        BY <2>1, <2>2, <3>3, <4>2
      <4>4. (\A t, u \in Sessions : Moving(t, n) /\ Moving(u, n) => t = u)'
        BY <4>2
      <4>5. /\ (\A x, y \in Trail : x.nom = n /\ y.nom = n /\ x.at = y.at => x = y)'
            /\ (\A x \in Trail : x.nom = n /\ x.action = "StatusChanged" =>
                  \A y \in PriorTo(n, x.at) : y.to = x.from)'
        BY <2>1, <3>1, <4>1 DEF Chained
      <4>6. (n \in Stored => \E x \in Trail : /\ x.nom = n /\ x.to = noms[n].status
                                              /\ \A y \in Trail : y.nom = n => y.at <= x.at)'
        BY <2>1, <3>1, <4>1 DEF Chained
      <4>7. QED
        BY <4>3, <4>4, <4>5, <4>6 DEF Chained
    <3>4. QED
      BY <3>2, <3>3
  <2>5. QED
    BY <1>0, <2>1, <2>2, <2>4, TrailTyped
<1>4. ASSUME NEW s \in Sessions, WriteAudit(s) \/ Refused(s) \/ Fail(s),
             \A t \in Sessions : ~(InsertRow(t) \/ UpdateRow(t))
      PROVE  ReplayInv'
  <2>1. /\ Trail' = Trail /\ noms' = noms
        /\ clock' = clock /\ raced' = raced
        /\ work'[s] = Idle /\ \A t \in Sessions \ {s} : work'[t] = work[t]
    BY <1>4, TrailKept DEF WriteAudit, Refused, Fail, DeskInv, TypeOK
  <2>2. \A n \in NomIds \ raced' : Chained(n)'
    BY <2>1, ChainKept DEF Moving, Idle
  <2>3. QED
    BY <2>1, <2>2
<1>5. CASE UNCHANGED vars
  <2>1. Trail' = Trail /\ noms' = noms /\ work' = work /\ clock' = clock /\ raced' = raced
    BY <1>5 DEF vars, Trail, InStep
  <2>2. \A n \in NomIds \ raced' : Chained(n)'
    BY <2>1, ChainKept DEF Moving
  <2>3. QED
    BY <2>1, <2>2
<1>6. QED
  BY StepCases, <1>1, <1>2, <1>3, <1>4, <1>5, Zenon

(* The history of a nomination nobody works on replays to the status of its   *)
(* row, unless an entry of it was lost or two of its moves overlapped.       *)
THEOREM TrailReplaysHolds == Spec => []TrailReplays
<1>1. Init => ReplayInv
  <2> SUFFICES ASSUME Init PROVE ReplayInv
    OBVIOUS
  <2>1. Stored = {} /\ Trail = {} /\ \A s \in Sessions : work[s] = Idle
    BY DEF Init, Stored, Trail, InStep, Idle
  <2>2. QED
    BY <2>1 DEF ReplayInv, Chained, Moving, Idle
<1>2. DeskInv /\ TrailInv /\ ReplayInv /\ [Next]_vars => ReplayInv'
  BY ReplayStep
<1>3. DeskInv /\ ReplayInv => TrailReplays
  <2> SUFFICES ASSUME DeskInv, ReplayInv, NEW n \in Stored \ raced,
                      \A x \in lost : x.nom # n,
                      \A s \in Sessions : work[s] = Idle \/ work[s].nom # n
               PROVE  /\ \A x \in audit : x.nom = n /\ x.action = "StatusChanged"
                           => \A y \in LatestBefore(n, x.at) : y.to = x.from
                      /\ \E x \in LatestBefore(n, clock) : x.to = noms[n].status
    BY DEF TrailReplays
  <2>1. Chained(n) /\ audit \subseteq Trail
    BY DEF ReplayInv, Stored, Trail
  <2>2. \A x \in Trail : x.nom = n => x \in audit
    <3>1. \A s \in InStep("audit") : work[s].entry.nom # n
      BY DEF DeskInv, HeldOK, HeldBy, InStep, Idle
    <3>2. QED
      BY <3>1 DEF Trail
  <2>3. \A t : LatestBefore(n, t) = PriorTo(n, t)
    BY <2>1, <2>2 DEF LatestBefore, PriorTo
  <2>4. PICK x \in Trail : /\ x.nom = n /\ x.to = noms[n].status
                           /\ \A y \in Trail : y.nom = n => y.at <= x.at
    BY <2>1 DEF Chained
  <2>5. x \in PriorTo(n, clock)
    BY <2>4 DEF PriorTo, ReplayInv
  <2>6. QED
    BY <2>1, <2>3, <2>4, <2>5 DEF Chained
<1>4. QED
  BY <1>1, <1>2, <1>3, DeskInvariant, TrailInvariant, PTL DEF Spec

------------------------------------------------------------------------------
(* The argument for the contention bound.  A nomination of the pair (e, b)   *)
(* that is active, or that a session is about to make active, counts as      *)
(* live.  Only a submission adds a live nomination, and it does so in a      *)
(* state without active ones, so every other live one is then in the hands   *)
(* of another session: the live ones can be paired off with the sessions.    *)
NoReopen == \A m \in Moves : m[2] \in ActiveStatuses => m[1] \in ActiveStatuses

Heading(e, b) ==
  {s \in Sessions : /\ work[s] # Idle
                    /\ work[s].step \in {"insert", "update"}
                    /\ work[s].row.employee = e /\ work[s].row.batch = b
                    /\ work[s].row.status \in ActiveStatuses}

Live(e, b) == ActiveFor(e, b) \cup {work[s].nom : s \in Heading(e, b)}

PairedOff ==
  \A e \in Employees, b \in Batches :
    \E f \in [Sessions -> NomIds \cup {NoRow}] :
      \A n \in Live(e, b) : \E s \in Sessions : f[s] = n

(* Only a submission adds to the active nominations of its pair. *)
LEMMA LiveShrinks ==
  ASSUME DeskInv, NoReopen, [Next]_vars, NEW e \in Employees, NEW b \in Batches,
         ~\E s \in Sessions : Submit(s, e, b)
  PROVE  Live(e, b)' \subseteq Live(e, b)
<1> USE DEF DeskInv
<1>1. ASSUME NEW s \in Sessions, NEW d \in Employees, NEW c \in Batches, Submit(s, d, c)
      PROVE  Live(e, b)' \subseteq Live(e, b)
  <2>1. d # e \/ c # b
    BY <1>1
  <2>2. ActiveFor(e, b)' = ActiveFor(e, b)
    BY <1>1 DEF Submit, ActiveFor, Stored
  <2>3. work'[s].row.employee = d /\ work'[s].row.batch = c
        /\ \A t \in Sessions \ {s} : work'[t] = work[t]
    BY <1>1 DEF Submit, TypeOK
  <2>4. QED
    BY <2>1, <2>2, <2>3 DEF Live, Heading
<1>2. ASSUME NEW s \in Sessions, NEW n \in NomIds, NEW new \in Statuses, ReadForMove(s, n, new)
      PROVE  Live(e, b)' \subseteq Live(e, b)
  <2>1. ActiveFor(e, b)' = ActiveFor(e, b)
    BY <1>2 DEF ReadForMove, ActiveFor, Stored
  <2>2. n \in Stored /\ noms[n] \in Row /\ noms[n].program = ProgramOf[noms[n].batch]
    BY <1>2 DEF ReadForMove, Stored, TypeOK, HeldOK
  <2>3. /\ work'[s].nom = n /\ work'[s].row = [noms[n] EXCEPT !.status = new]
        /\ \A t \in Sessions \ {s} : work'[t] = work[t]
    BY <1>2 DEF ReadForMove, TypeOK
  <2>4. new \in ActiveStatuses => noms[n].status \in ActiveStatuses
    BY <1>2 DEF ReadForMove, NoReopen
  <2>5. /\ work'[s].row.employee = noms[n].employee /\ work'[s].row.batch = noms[n].batch
        /\ work'[s].row.status = new
    BY <2>2, <2>3 DEF Row
  <2>6. s \in Heading(e, b)' => n \in ActiveFor(e, b)
    BY <2>2, <2>4, <2>5 DEF Heading, ActiveFor
  <2>7. \A t \in Heading(e, b)' \ {s} : t \in Heading(e, b) /\ work'[t].nom = work[t].nom
    BY <2>3 DEF Heading
  <2>8. QED
    BY <2>1, <2>3, <2>6, <2>7 DEF Live
<1>3. ASSUME NEW s \in Sessions, InsertRow(s) \/ UpdateRow(s)
      PROVE  Live(e, b)' \subseteq Live(e, b)
  <2>1. ActiveFor(e, b)' \subseteq ActiveFor(e, b) \cup
                                  {work[t].nom : t \in Heading(e, b) \cap {s}}
    BY <1>3, TrailExtended DEF ActiveFor, Heading, SamePlace, Stored
  <2>2. work'[s].step = "audit" /\ \A t \in Sessions \ {s} : work'[t] = work[t]
    <3>1. work' = [work EXCEPT ![s].step = "audit"] /\ work[s] \in Busy
      BY <1>3, TrailExtended, HeldTypes DEF InsertRow, UpdateRow
    <3>2. QED
      BY <3>1 DEF TypeOK, Busy
  <2>3. \A t \in Heading(e, b)' : t \in Heading(e, b) /\ work'[t].nom = work[t].nom
    BY <2>2 DEF Heading
  <2>4. QED
    BY <2>1, <2>3 DEF Live
<1>4. ASSUME NEW s \in Sessions, work' = [work EXCEPT ![s] = Idle], noms' = noms
      PROVE  Live(e, b)' \subseteq Live(e, b)
  <2>1. ActiveFor(e, b)' = ActiveFor(e, b)
    BY <1>4 DEF ActiveFor, Stored
  <2>2. \A t \in Heading(e, b)' : t \in Heading(e, b) /\ work'[t].nom = work[t].nom
    BY <1>4 DEF Heading, TypeOK
  <2>3. QED
    BY <2>1, <2>2 DEF Live
<1>5. ASSUME NEW s \in Sessions, WriteAudit(s) \/ Refused(s) \/ Fail(s)
      PROVE  Live(e, b)' \subseteq Live(e, b)
  BY <1>4, <1>5 DEF WriteAudit, Refused, Fail
<1>6. CASE UNCHANGED vars
  BY <1>6 DEF vars, Live, Heading, ActiveFor, Stored
<1>7. QED
  BY StepCases, <1>1, <1>2, <1>3, <1>5, <1>6, Zenon

(* Every step keeps active nominations paired off with sessions. *)
LEMMA PairedOffStep ==
  ASSUME DeskInv, PairedOff, NoReopen, [Next]_vars
  PROVE  PairedOff'
<1> SUFFICES ASSUME NEW e \in Employees, NEW b \in Batches
             PROVE  \E f \in [Sessions -> NomIds \cup {NoRow}] :
                      \A n \in Live(e, b)' : \E s \in Sessions : f[s] = n
  BY DEF PairedOff
<1>1. CASE ~\E s \in Sessions : Submit(s, e, b)
  BY <1>1, LiveShrinks DEF PairedOff
<1>2. ASSUME NEW s \in Sessions, Submit(s, e, b)
      PROVE  \E f \in [Sessions -> NomIds \cup {NoRow}] :
               \A n \in Live(e, b)' : \E t \in Sessions : f[t] = n
  <2> DEFINE f == [t \in Sessions |-> IF work'[t] = Idle THEN NoRow ELSE work'[t].nom]
  <2>1. TypeOK'
    BY TypeStep
  <2>2. f \in [Sessions -> NomIds \cup {NoRow}]
    BY <2>1 DEF TypeOK, Busy
  <2>3. ActiveFor(e, b)' = {}
    BY <1>2 DEF Submit, HasDuplicate, ActiveFor, Stored
  <2>4. \A n \in Live(e, b)' : \E t \in Sessions : f[t] = n
    BY <2>3 DEF Live, Heading
  <2>5. QED
    BY <2>2, <2>4
<1>3. QED
  BY <1>1, <1>2

(* The check-then-insert race is bounded: however submissions, stale updates  *)
(* and failures interleave, one employee never has more active nominations   *)
(* for a batch than there are sessions, if no operator reopens a closed one. *)
THEOREM ContentionBoundHolds ==
  ASSUME IsFiniteSet(Sessions), NoReopen
  PROVE  Spec => []ContentionBound
<1>1. Init => PairedOff
  <2> SUFFICES ASSUME Init, NEW e \in Employees, NEW b \in Batches
               PROVE  \E f \in [Sessions -> NomIds \cup {NoRow}] :
                        \A n \in Live(e, b) : \E s \in Sessions : f[s] = n
    BY DEF PairedOff
  <2>1. Live(e, b) = {}
    BY DEF Init, Live, Heading, ActiveFor, Stored
  <2>2. [s \in Sessions |-> NoRow] \in [Sessions -> NomIds \cup {NoRow}]
    OBVIOUS
  <2>3. QED
    BY <2>1, <2>2
<1>2. DeskInv /\ PairedOff /\ [Next]_vars => PairedOff'
  BY PairedOffStep
<1>3. PairedOff => ContentionBound
  <2> SUFFICES ASSUME PairedOff, NEW e \in Employees, NEW b \in Batches
               PROVE  Cardinality(ActiveFor(e, b)) <= Cardinality(Sessions)
    BY DEF ContentionBound
  <2>1. PICK f \in [Sessions -> NomIds \cup {NoRow}] :
          \A n \in Live(e, b) : \E s \in Sessions : f[s] = n
    BY DEF PairedOff
  <2> DEFINE img == {f[s] : s \in Sessions}
  <2>2. f \in Surjection(Sessions, img)
    BY <2>1 DEF Surjection
  <2>3. IsFiniteSet(img) /\ Cardinality(img) <= Cardinality(Sessions)
    BY <2>2, FS_Surjection
  <2>4. ActiveFor(e, b) \in SUBSET img
    BY <2>1 DEF Live
  <2> HIDE DEF img
  <2>5. /\ IsFiniteSet(ActiveFor(e, b))
        /\ Cardinality(ActiveFor(e, b)) <= Cardinality(img)
    BY <2>3, <2>4, FS_Subset
  <2>6. /\ Cardinality(ActiveFor(e, b)) \in Nat
        /\ Cardinality(img) \in Nat /\ Cardinality(Sessions) \in Nat
    BY <2>3, <2>5, FS_CardinalityType
  <2>7. QED
    BY <2>3, <2>5, <2>6
<1>4. QED
  BY <1>1, <1>2, <1>3, DeskInvariant, PTL DEF Spec

(* With one session the desk keeps the rule of the nomination service: an     *)
(* employee has at most one active nomination for a program and batch.       *)
THEOREM SerialOneActive ==
  ASSUME NEW only, Sessions = {only}, NoReopen
  PROVE  Spec => []OneActive
<1>1. IsFiniteSet(Sessions) /\ Cardinality(Sessions) = 1
  BY FS_Singleton
<1>2. ContentionBound => OneActive
  BY <1>1 DEF ContentionBound, OneActive
<1>3. QED
  BY <1>1, <1>2, ContentionBoundHolds, PTL

(* What the partial unique index keeps: no pair has two active nominations.   *)
Single ==
  \A e \in Employees, b \in Batches : \A m, n \in ActiveFor(e, b) : m = n

(* The index refuses just the writes that would make a second one. *)
LEMMA SingleStep ==
  ASSUME ActiveIndex, DeskInv, Single, [Next]_vars
  PROVE  Single'
<1> SUFFICES ASSUME NEW e \in Employees, NEW b \in Batches,
                    NEW m \in ActiveFor(e, b)', NEW n \in ActiveFor(e, b)', m # n
             PROVE  FALSE
  BY DEF Single
<1>1. CASE ~\E s \in Sessions : InsertRow(s) \/ UpdateRow(s)
  BY <1>1, TrailKept DEF Single, ActiveFor, Stored
<1>2. ASSUME NEW s \in Sessions, InsertRow(s) \/ UpdateRow(s)
      PROVE  FALSE
  <2> DEFINE k == work[s].nom
             r == work[s].row
  <2>1. ~(r.status \in ActiveStatuses /\ ActiveFor(r.employee, r.batch) \ {k} # {})
    BY <1>2 DEF InsertRow, UpdateRow, IndexRefuses
  <2>2. \A j \in ActiveFor(e, b)' : j # k => j \in ActiveFor(e, b)
    BY <1>2, TrailExtended DEF ActiveFor, Stored
  <2>3. k \in ActiveFor(e, b)' =>
          r.status \in ActiveStatuses /\ r.employee = e /\ r.batch = b
    BY <1>2, TrailExtended DEF ActiveFor, SamePlace
  <2>4. QED
    BY <2>1, <2>2, <2>3 DEF Single
<1>3. QED
  BY <1>1, <1>2

(* With the index on, no reachable table has a pair with two. *)
LEMMA SingleAlways ==
  ASSUME ActiveIndex
  PROVE  Spec => []Single
<1>1. Init => Single
  BY DEF Init, Single, ActiveFor, Stored
<1>2. DeskInv /\ Single /\ [Next]_vars => Single'
  BY SingleStep
<1>3. QED
  BY <1>1, <1>2, DeskInvariant, PTL DEF Spec

(* With the partial unique index of the Postgres migration the rule holds     *)
(* for any number of sessions and whatever status changes are asked for.     *)
THEOREM IndexedOneActive ==
  ASSUME ActiveIndex
  PROVE  Spec => []OneActive
<1>1. Single => OneActive
  <2> SUFFICES ASSUME Single, NEW e \in Employees, NEW b \in Batches
               PROVE  Cardinality(ActiveFor(e, b)) <= 1
    BY DEF OneActive
  <2>1. CASE ActiveFor(e, b) = {}
    BY <2>1, FS_EmptySet
  <2>2. CASE ActiveFor(e, b) # {}
    <3>1. \A m, n \in ActiveFor(e, b) : m = n
      BY Zenon DEF Single
    <3>4. PICK n : ActiveFor(e, b) = {n}
      BY <2>2, <3>1
    <3>2. Cardinality(ActiveFor(e, b)) = 1
      BY <3>4, FS_Singleton
    <3>3. QED
      BY <3>2
  <2>3. QED
    BY <2>1, <2>2
<1>2. QED
  BY <1>1, SingleAlways, PTL

------------------------------------------------------------------------------
(* The register shows, for every pair, the active nomination of the pair.    *)
LEMMA HolderAt ==
  /\ \A e \in Employees, b \in Batches : Holder[<<e, b>>] = HolderOf(e, b)
  /\ \A e \in Employees, b \in Batches : Holder'[<<e, b>>] = HolderOf(e, b)'
<1>1. \A e \in Employees, b \in Batches :
        <<e, b>> \in Employees \X Batches /\ <<e, b>>[1] = e /\ <<e, b>>[2] = b
  OBVIOUS
<1>2. QED
  BY <1>1 DEF Holder

(* The holder of a pair is its active nomination, if it has one.             *)
LEMMA HolderIs ==
  ASSUME Single, NEW e \in Employees, NEW b \in Batches
  PROVE  /\ ActiveFor(e, b) = {} => HolderOf(e, b) = NoRow
         /\ \A n \in ActiveFor(e, b) : n \in NomIds /\ HolderOf(e, b) = n
<1>1. ActiveFor(e, b) \subseteq NomIds
  BY DEF ActiveFor, Stored
<1>2. \A m, n \in ActiveFor(e, b) : m = n
  BY Zenon DEF Single
<1>3. QED
  BY <1>1, <1>2 DEF HolderOf, HasDuplicate

(* What the write of one row does to the active nominations: it may add or    *)
(* take away that row, in one pair only, and adds it to a free pair only.    *)
LEMMA WriteMoves ==
  ASSUME ActiveIndex, DeskInv, NEW s \in Sessions, InsertRow(s) \/ UpdateRow(s)
  PROVE  \E k \in NomIds, e \in Employees, b \in Batches :
           /\ \A d \in Employees, c \in Batches :
                d # e \/ c # b => ActiveFor(d, c)' = ActiveFor(d, c) /\ k \notin ActiveFor(d, c)
           /\ \/ ActiveFor(e, b)' = ActiveFor(e, b) \ {k}
              \/ ActiveFor(e, b)' = {k} /\ ActiveFor(e, b) \subseteq {k}
<1>0. PICK k, r : k = work[s].nom /\ r = work[s].row
  OBVIOUS
<1>1. /\ k \in NomIds /\ r \in Row /\ HeldBy(s) /\ Stored' = Stored \cup {k}
      /\ \A n \in NomIds \ {k} : noms'[n] = noms[n]
      /\ noms'[k] \in Row /\ SamePlace(noms'[k], r) /\ noms'[k].status = r.status
      /\ work[s].step \in {"insert", "update"}
  BY <1>0, TrailExtended
<1>2. r.employee \in Employees /\ r.batch \in Batches /\ r.program = ProgramOf[r.batch]
  BY <1>0, <1>1 DEF Row, HeldBy
<1>3. ~(r.status \in ActiveStatuses /\ ActiveFor(r.employee, r.batch) \ {k} # {})
  BY <1>0 DEF InsertRow, UpdateRow, IndexRefuses
<1>4. k \in Stored => SamePlace(r, noms[k])
  BY <1>0, <1>1 DEF HeldBy
<1>5. ASSUME NEW d \in Employees, NEW c \in Batches
      PROVE  /\ ActiveFor(d, c)' \ {k} = ActiveFor(d, c) \ {k}
             /\ k \in ActiveFor(d, c) => d = r.employee /\ c = r.batch
             /\ k \in ActiveFor(d, c)' <=>
                  d = r.employee /\ c = r.batch /\ r.status \in ActiveStatuses
  <2>1. \A n \in NomIds \ {k} : n \in Stored' <=> n \in Stored
    BY <1>1
  <2>2. ActiveFor(d, c)' \ {k} = ActiveFor(d, c) \ {k}
    BY <1>1, <2>1 DEF ActiveFor, Stored
  <2>3. k \in ActiveFor(d, c) => d = r.employee /\ c = r.batch
    BY <1>4 DEF ActiveFor, SamePlace
  <2>4. k \in ActiveFor(d, c)' <=>
          d = r.employee /\ c = r.batch /\ r.status \in ActiveStatuses
    BY <1>1, <1>2 DEF ActiveFor, SamePlace
  <2>5. QED
    BY <2>2, <2>3, <2>4
<1>6. \/ ActiveFor(r.employee, r.batch)' = ActiveFor(r.employee, r.batch) \ {k}
      \/ /\ ActiveFor(r.employee, r.batch)' = {k}
         /\ ActiveFor(r.employee, r.batch) \subseteq {k}
  <2>1. CASE r.status \in ActiveStatuses
    <3>1. ActiveFor(r.employee, r.batch) \ {k} = {}
      BY <1>3, <2>1
    <3>2. QED
      BY <1>2, <1>5, <2>1, <3>1
  <2>2. CASE r.status \notin ActiveStatuses
    <3>1. k \notin ActiveFor(r.employee, r.batch)'
      BY <1>2, <1>5, <2>2
    <3>2. QED
      BY <1>2, <1>5, <3>1
  <2>3. QED
    BY <2>1, <2>2
<1>7. \A d \in Employees, c \in Batches :
        d # r.employee \/ c # r.batch =>
          ActiveFor(d, c)' = ActiveFor(d, c) /\ k \notin ActiveFor(d, c)
  BY <1>5
<1>8. QED
  BY <1>1, <1>2, <1>6, <1>7

(* A step of the desk is a step of the register or leaves it alone.          *)
LEMMA RegisterStep ==
  ASSUME ActiveIndex, DeskInv, Single, Single', [Next]_vars
  PROVE  [Register!Next]_Holder
<1>1. CASE ~\E s \in Sessions : InsertRow(s) \/ UpdateRow(s)
  <2>1. noms' = noms
    BY <1>1, TrailKept
  <2>2. QED
    BY <2>1 DEF Holder, HolderOf, HasDuplicate, ActiveFor, Stored
<1>2. ASSUME NEW s \in Sessions, InsertRow(s) \/ UpdateRow(s)
      PROVE  [Register!Next]_Holder
  <2>1. PICK k \in NomIds, e \in Employees, b \in Batches :
          /\ \A d \in Employees, c \in Batches :
               d # e \/ c # b => ActiveFor(d, c)' = ActiveFor(d, c) /\ k \notin ActiveFor(d, c)
          /\ \/ ActiveFor(e, b)' = ActiveFor(e, b) \ {k}
             \/ ActiveFor(e, b)' = {k} /\ ActiveFor(e, b) \subseteq {k}
    BY <1>2, WriteMoves
  <2> DEFINE p == <<e, b>>
  <2>2. p \in Employees \X Batches
    BY <2>1
  <2>3. /\ Holder = [q \in Employees \X Batches |-> Holder[q]]
        /\ Holder' = [q \in Employees \X Batches |-> Holder'[q]]
    BY DEF Holder
  <2>4. \A q \in Employees \X Batches : q # p => Holder'[q] = Holder[q]
    <3> SUFFICES ASSUME NEW d \in Employees, NEW c \in Batches, d # e \/ c # b
                 PROVE  Holder'[<<d, c>>] = Holder[<<d, c>>]
      OBVIOUS
    <3>1. ActiveFor(d, c)' = ActiveFor(d, c)
      BY <2>1
    <3>2. QED
      BY <3>1, HolderAt DEF HolderOf, HasDuplicate
  <2>5. Holder' = [Holder EXCEPT ![p] = Holder'[p]]
    BY <2>2, <2>3, <2>4
  <2>6. CASE ActiveFor(e, b)' = ActiveFor(e, b)
    <3>1. Holder'[p] = Holder[p]
      BY <2>1, <2>6, HolderAt DEF HolderOf, HasDuplicate
    <3>2. QED
      BY <2>3, <2>4, <3>1
  <2>7. CASE ActiveFor(e, b)' = {k} /\ ActiveFor(e, b) = {}
    <3>1. Holder[p] = NoRow
      BY <2>1, <2>7, HolderAt, HolderIs
    <3>2. Holder'[p] = k
      <4>1. HolderOf(e, b)' = CHOOSE n \in NomIds : n \in {k}
        BY <2>7 DEF HolderOf, HasDuplicate
      <4>2. QED
        BY <2>1, <4>1, HolderAt
    <3>3. ASSUME NEW q \in Employees \X Batches PROVE Holder[q] # k
      <4>1. PICK d \in Employees, c \in Batches : q = <<d, c>>
        OBVIOUS
      <4>2. k \notin ActiveFor(d, c)
        BY <2>1, <2>7
      <4>3. HolderOf(d, c) # k
        <5>1. CASE ActiveFor(d, c) = {}
          BY <2>1, <5>1, HolderIs
        <5>2. CASE ActiveFor(d, c) # {}
          BY <4>2, <5>2, HolderIs
        <5>3. QED
          BY <5>1, <5>2
      <4>4. QED
        BY <4>1, <4>3, HolderAt
    <3>4. Register!Take(p, k)
      BY <2>5, <3>1, <3>2, <3>3 DEF Register!Take
    <3>5. QED
      BY <2>1, <2>2, <3>4 DEF Register!Next
  <2>8. CASE ActiveFor(e, b)' = {} /\ ActiveFor(e, b) = {k}
    <3>1. Holder[p] = k /\ k # NoRow
      BY <2>1, <2>8, HolderAt, HolderIs
    <3>2. Holder'[p] = NoRow
      BY <2>1, <2>8, HolderAt DEF HolderOf, HasDuplicate
    <3>3. Register!Release(p)
      BY <2>5, <3>1, <3>2 DEF Register!Release
    <3>4. QED
      BY <2>2, <3>3 DEF Register!Next
  <2>9. \A m, n \in ActiveFor(e, b) : m = n
    BY <2>1, Zenon DEF Single
  <2>10. QED
    BY <2>1, <2>6, <2>7, <2>8, <2>9
<1>3. QED
  BY <1>1, <1>2

(* With the index the desk implements the register: an active nomination      *)
(* takes a free pair, keeps it, and leaves it by its own status change.      *)
THEOREM DeskImplementsRegister ==
  ASSUME ActiveIndex
  PROVE  Spec => RegisterSpec
<1>1. Init => Register!Init
  BY DEF Init, Register!Init, Holder, HolderOf, HasDuplicate, ActiveFor, Stored
<1>2. DeskInv /\ Single /\ Single' /\ [Next]_vars => [Register!Next]_Holder
  BY RegisterStep
<1>3. QED
  BY <1>1, <1>2, DeskInvariant, SingleAlways, PTL DEF Spec, RegisterSpec, Register!Spec
=============================================================================
