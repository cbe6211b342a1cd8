---------------------------- MODULE SeatBoard_proofs ----------------------------
(***************************************************************************)
(* Theorems about the seat summary beside the desk, for any number of      *)
(* viewers, sessions, batches and nominations.                             *)
(***************************************************************************)
EXTENDS SeatBoard, NominationDesk_proofs

USE SeatAssumption

(* The viewers only read: whatever they and the desk do together is a        *)
(* behaviour of the desk, so every theorem about the desk holds beside them. *)
THEOREM BoardKeepsDesk == BoardSpec => Spec
<1>1. BoardInit => Init
  BY DEF BoardInit
<1>2. [BoardNext]_boardVars => [Next]_vars
  BY DEF BoardNext, boardVars, vars, DeskStep, CountWaitlisted, CountFilled
<1>3. QED
  BY <1>1, <1>2, PTL DEF BoardSpec, Spec

------------------------------------------------------------------------------
(* A step of the desk writes at most one nomination, and never moves it to   *)
(* another batch.                                                            *)
LEMMA OneWrite ==
  ASSUME DeskInv, [Next]_vars
  PROVE  \/ noms' = noms
         \/ \E k \in NomIds :
              /\ \A n \in NomIds \ {k} : noms'[n] = noms[n]
              /\ noms'[k] \in Row
              /\ k \in Stored => noms'[k].batch = noms[k].batch
<1>1. CASE ~\E s \in Sessions : InsertRow(s) \/ UpdateRow(s)
  BY <1>1, TrailKept
<1>2. ASSUME NEW s \in Sessions, InsertRow(s) \/ UpdateRow(s)
      PROVE  \E k \in NomIds :
               /\ \A n \in NomIds \ {k} : noms'[n] = noms[n]
               /\ noms'[k] \in Row
               /\ k \in Stored => noms'[k].batch = noms[k].batch
  <2>1. PICK k, r : k = work[s].nom /\ r = work[s].row
    OBVIOUS
  <2>2. /\ k \in NomIds /\ HeldBy(s) /\ work[s].step \in {"insert", "update"}
        /\ \A n \in NomIds \ {k} : noms'[n] = noms[n]
        /\ noms'[k] \in Row /\ SamePlace(noms'[k], r)
    BY <1>2, <2>1, TrailExtended
  <2>3. k \in Stored => noms'[k].batch = noms[k].batch
    BY <2>1, <2>2 DEF HeldBy, SamePlace
  <2>4. QED
    BY <2>2, <2>3
<1>3. QED
  BY <1>1, <1>2

Counted(b, S) == {n \in Stored : noms[n].batch = b /\ noms[n].status \in S}

(* A count is the size of a finite set. *)
LEMMA CountedFinite ==
  ASSUME IsFiniteSet(NomIds), NEW b, NEW S
  PROVE  /\ IsFiniteSet(Counted(b, S)) /\ IsFiniteSet(Counted(b, S)')
         /\ Count(b, S) = Cardinality(Counted(b, S))
         /\ Count(b, S)' = Cardinality(Counted(b, S)')
         /\ Count(b, S) \in Nat /\ Count(b, S)' \in Nat
<1>1. Counted(b, S) \in SUBSET NomIds /\ Counted(b, S)' \in SUBSET NomIds
  BY DEF Counted, Stored
<1>2. IsFiniteSet(Counted(b, S)) /\ IsFiniteSet(Counted(b, S)')
  BY <1>1, FS_Subset
<1>3. Count(b, S) = Cardinality(Counted(b, S)) /\ Count(b, S)' = Cardinality(Counted(b, S)')
  BY DEF Count, Counted
<1>4. QED
  BY <1>2, <1>3, FS_CardinalityType

(* Two finite sets that agree outside one element differ by one at most.     *)
LEMMA OffByOne ==
  ASSUME NEW A, IsFiniteSet(A), NEW B, IsFiniteSet(B), NEW x, A \ {x} = B \ {x}
  PROVE  Within(Cardinality(A), Cardinality(B), 1)
<1> DEFINE C == A \ {x}
<1>1. IsFiniteSet(C) /\ Cardinality(C) \in Nat
  BY FS_Subset, FS_CardinalityType
<1>2. A = C \/ (A = C \cup {x} /\ x \notin C)
  OBVIOUS
<1>3. B = C \/ (B = C \cup {x} /\ x \notin C)
  OBVIOUS
<1> HIDE DEF C
<1>4. x \notin C => Cardinality(C \cup {x}) = Cardinality(C) + 1
  BY <1>1, FS_AddElement
<1>5. Cardinality(A) = Cardinality(C) \/ Cardinality(A) = Cardinality(C) + 1
  BY <1>2, <1>4
<1>6. Cardinality(B) = Cardinality(C) \/ Cardinality(B) = Cardinality(C) + 1
  BY <1>3, <1>4
<1>7. QED
  BY <1>1, <1>5, <1>6 DEF Within

(* One step of the desk moves a count by one at most, and only by writing a  *)
(* nomination of the batch counted.                                          *)
LEMMA CountMoves ==
  ASSUME IsFiniteSet(NomIds), DeskInv, [Next]_vars, NEW b, NEW S
  PROVE  /\ Within(Count(b, S)', Count(b, S), 1)
         /\ (~\E n \in NomIds : noms'[n] # noms[n] /\ noms'[n].batch = b)
              => Count(b, S)' = Count(b, S)
<1>1. CASE noms' = noms
  <2>1. Count(b, S)' = Count(b, S)
    BY <1>1 DEF Count, Stored
  <2>2. QED
    BY <2>1, CountedFinite DEF Within
<1>2. ASSUME NEW k \in NomIds, \A n \in NomIds \ {k} : noms'[n] = noms[n],
             noms'[k] \in Row, k \in Stored => noms'[k].batch = noms[k].batch
      PROVE  /\ Within(Count(b, S)', Count(b, S), 1)
             /\ (~\E n \in NomIds : noms'[n] # noms[n] /\ noms'[n].batch = b)
                  => Count(b, S)' = Count(b, S)
  <2>1. Counted(b, S)' \ {k} = Counted(b, S) \ {k}
    BY <1>2 DEF Counted, Stored
  <2>2. Within(Count(b, S)', Count(b, S), 1)
    BY <2>1, CountedFinite, OffByOne
  <2>3. ASSUME ~\E n \in NomIds : noms'[n] # noms[n] /\ noms'[n].batch = b
        PROVE  Count(b, S)' = Count(b, S)
    <3>1. CASE noms'[k] = noms[k]
      <4>1. Counted(b, S)' = Counted(b, S)
        BY <1>2, <3>1 DEF Counted, Stored
      <4>2. QED
        BY <4>1, CountedFinite
    <3>2. CASE noms'[k].batch # b
      <4>1. k \notin Counted(b, S)' /\ k \notin Counted(b, S)
        BY <1>2, <3>2 DEF Counted
      <4>2. Counted(b, S)' = Counted(b, S)
        BY <2>1, <4>1
      <4>3. QED
        BY <4>2, CountedFinite
    <3>3. QED
      BY <2>3, <3>1, <3>2
  <2>4. QED
    BY <2>2, <2>3
<1>3. QED
  BY <1>1, <1>2, OneWrite

(* The two queries of a summary split the active nominations, drafts apart,  *)
(* between them.                                                             *)
LEMMA CountSplits ==
  ASSUME IsFiniteSet(NomIds), NEW b
  PROVE  /\ Count(b, ActiveStatuses \ {"Draft"})
              = Count(b, FilledStatuses) + Count(b, {"Waitlisted"})
         /\ Count(b, ActiveStatuses \ {"Draft", "Waitlisted"}) = Count(b, FilledStatuses)
<1> DEFINE A == Counted(b, FilledStatuses)
           B == Counted(b, {"Waitlisted"})
<1>1. /\ Counted(b, ActiveStatuses \ {"Draft"}) = A \cup B
      /\ Counted(b, ActiveStatuses \ {"Draft", "Waitlisted"}) = A
      /\ A \cap B = {}
  BY DEF Counted, ActiveStatuses, FilledStatuses
<1>2. IsFiniteSet(A) /\ IsFiniteSet(B) /\ Cardinality(A) \in Nat /\ Cardinality(B) \in Nat
  BY CountedFinite, FS_CardinalityType
<1>3. Count(b, FilledStatuses) = Cardinality(A) /\ Count(b, {"Waitlisted"}) = Cardinality(B)
  BY CountedFinite
<1>4. /\ Count(b, ActiveStatuses \ {"Draft"})
           = Cardinality(Counted(b, ActiveStatuses \ {"Draft"}))
      /\ Count(b, ActiveStatuses \ {"Draft", "Waitlisted"})
           = Cardinality(Counted(b, ActiveStatuses \ {"Draft", "Waitlisted"}))
  BY CountedFinite
<1> HIDE DEF A, B
<1>5. Cardinality(A \cup B) = Cardinality(A) + Cardinality(B)
  <2>1. Cardinality(A \cup B) = Cardinality(A) + Cardinality(B) - Cardinality(A \cap B)
    BY <1>2, FS_Union
  <2>2. Cardinality(A \cap B) = 0
    BY <1>1, FS_EmptySet
  <2>3. QED
    BY <1>2, <2>1, <2>2
<1>6. QED
  BY <1>1, <1>3, <1>4, <1>5

(* The seats left over follow the seats filled no faster than they move, and *)
(* never go below zero.                                                      *)
LEMMA FreeFollows ==
  ASSUME NEW b \in Batches, NEW m \in Nat, NEW n \in Nat, NEW slack \in Nat, Within(m, n, slack)
  PROVE  /\ Free(b, m) \in Nat
         /\ Within(Free(b, m), Free(b, n), slack)
<1>1. Capacity[b] \in Nat
  OBVIOUS
<1>2. QED
  BY <1>1 DEF Free, Within

------------------------------------------------------------------------------
(* SummaryDrift speaks of summaries that are shown; what makes it inductive  *)
(* is what the first query may be off by while a viewer is half way: no more *)
(* than what was written to the batch since, which is what "writes" counts.  *)
Halfway(v) ==
  /\ Within(view[v].filled, Count(view[v].batch, FilledStatuses), writes[v])
  /\ view[v].available = Free(view[v].batch, view[v].filled)

BoardTypes ==
  /\ view \in [Viewers -> {Blank} \cup Summary]
  /\ writes \in [Viewers -> Nat]

BoardInv ==
  /\ BoardTypes
  /\ \A v \in Viewers : view[v].step = "counting" => Halfway(v)
  /\ SummaryDrift

(* Nobody has asked for a summary to begin with. *)
LEMMA BoardInitInv == BoardInit => BoardInv
  BY DEF BoardInit, BoardInv, BoardTypes, SummaryDrift, Blank

(* A summary under way or shown is one. *)
LEMMA SummaryTypes ==
  ASSUME BoardTypes, NEW v \in Viewers, view[v].step \in {"counting", "shown"}
  PROVE  view[v] \in Summary
  BY DEF BoardTypes, Blank

(* The first query starts the account of its viewer at zero. *)
LEMMA CountFilledStep ==
  ASSUME IsFiniteSet(NomIds), BoardInv, NEW u \in Viewers, NEW b \in Batches, CountFilled(u, b)
  PROVE  BoardInv'
<1> USE DEF BoardInv
<1> DEFINE f == Count(b, FilledStatuses)
           w == [step |-> "counting", batch |-> b, filled |-> f, waitlisted |-> 0,
                 available |-> Free(b, f), listed |-> 0, seated |-> 0]
<1>1. f \in Nat /\ Free(b, f) \in Nat
  <2>1. f \in Nat
    BY CountedFinite
  <2>2. Within(f, f, 0)
    BY <2>1 DEF Within
  <2> HIDE DEF f
  <2>3. QED
    BY <2>1, <2>2, FreeFollows
<1>2. w \in Summary
  BY <1>1 DEF Summary
<1>3. /\ view' = [view EXCEPT ![u] = w] /\ writes' = [writes EXCEPT ![u] = 0]
      /\ \A c, S : Count(c, S)' = Count(c, S)
  BY DEF CountFilled, vars, Count, Stored
<1>4. /\ view'[u] = w /\ writes'[u] = 0
      /\ \A v \in Viewers \ {u} : view'[v] = view[v] /\ writes'[v] = writes[v]
  BY <1>3 DEF BoardTypes
<1>5. BoardTypes'
  BY <1>2, <1>3 DEF BoardTypes
<1>6. ASSUME NEW v \in Viewers, view'[v].step = "counting" PROVE Halfway(v)'
  <2>1. CASE v = u
    <3>1. Within(f, f, 0)
      BY <1>1 DEF Within
    <3>2. Count(b, FilledStatuses)' = f
      BY <1>3
    <3>3. QED
      BY <1>4, <2>1, <3>1, <3>2 DEF Halfway, Free
  <2>2. CASE v # u
    BY <1>3, <1>4, <1>6, <2>2 DEF Halfway, Free
  <2>3. QED
    BY <2>1, <2>2
<1>7. SummaryDrift'
  BY <1>4 DEF SummaryDrift, Free, Within
<1>8. QED
  BY <1>5, <1>6, <1>7

(* The second query: what is shown differs from the table of that moment by  *)
(* what the first query was off.                                             *)
LEMMA CountWaitlistedStep ==
  ASSUME IsFiniteSet(NomIds), BoardInv, NEW u \in Viewers, CountWaitlisted(u)
  PROVE  BoardInv'
<1> USE DEF BoardInv
<1>1. view[u].step = "counting" /\ view[u] \in Summary /\ Halfway(u)
  BY SummaryTypes DEF CountWaitlisted
<1>2. PICK b \in Batches, f \in Nat, wait \in Nat, all \in Nat, seats \in Nat :
        /\ b = view[u].batch /\ f = view[u].filled
        /\ wait = Count(b, {"Waitlisted"})
        /\ all = Count(b, ActiveStatuses \ {"Draft"})
        /\ seats = Count(b, ActiveStatuses \ {"Draft", "Waitlisted"})
  BY <1>1, CountedFinite DEF Summary
<1>3. all = seats + wait /\ seats = Count(b, FilledStatuses)
  BY <1>2, CountSplits
<1>4. writes[u] \in Nat /\ Within(f, seats, writes[u]) /\ view[u].available = Free(b, f)
  BY <1>1, <1>2, <1>3 DEF Halfway, BoardTypes
<1> DEFINE r == [view[u] EXCEPT !.step = "shown", !.waitlisted = wait, !.listed = all,
                                !.seated = seats]
<1>5. /\ view' = [view EXCEPT ![u] = r] /\ writes' = writes
      /\ \A c, S : Count(c, S)' = Count(c, S)
  <2>1. writes' = writes /\ \A c, S : Count(c, S)' = Count(c, S)
    BY DEF CountWaitlisted, vars, Count, Stored
  <2>2. view' = [view EXCEPT ![u] = r]
    BY <1>1, <1>2 DEF CountWaitlisted, BoardTypes
  <2>3. QED
    BY <2>1, <2>2
<1>6. /\ r \in Summary /\ r.step = "shown" /\ r.batch = b /\ r.filled = f
      /\ r.waitlisted = wait /\ r.available = Free(b, f) /\ r.listed = all /\ r.seated = seats
      /\ view'[u] = r /\ \A v \in Viewers \ {u} : view'[v] = view[v]
  <2>1. view'[u] = r /\ \A v \in Viewers \ {u} : view'[v] = view[v]
    BY <1>5 DEF BoardTypes
  <2>2. r \in Summary
    <3>1. [view[u] EXCEPT !.step = "shown"] \in Summary
      BY <1>1 DEF Summary
    <3>2. [view[u] EXCEPT !.step = "shown", !.waitlisted = wait] \in Summary
      BY <1>3, <3>1 DEF Summary
    <3>3. [view[u] EXCEPT !.step = "shown", !.waitlisted = wait, !.listed = all] \in Summary
      BY <1>3, <3>2 DEF Summary
    <3>4. QED
      BY <1>3, <3>3 DEF Summary
  <2>3. /\ r.step = "shown" /\ r.batch = b /\ r.filled = f
        /\ r.waitlisted = wait /\ r.available = Free(b, f) /\ r.listed = all /\ r.seated = seats
    BY <1>1, <1>2, <1>4 DEF Summary
  <2>4. QED
    BY <2>1, <2>2, <2>3
<1> HIDE DEF r
<1>7. Free(b, f) \in Nat /\ Within(Free(b, f), Free(b, seats), writes[u])
  BY <1>3, <1>4, FreeFollows
<1>8. BoardTypes'
  BY <1>5, <1>6 DEF BoardTypes
<1>9. Within(f + wait, all, writes[u])
  BY <1>3, <1>4 DEF Within
<1>10. \A v \in Viewers : view'[v].step = "counting" => Halfway(v)'
  BY <1>5, <1>6 DEF Halfway, Free
<1>11. SummaryDrift'
  BY <1>5, <1>6, <1>7, <1>9 DEF SummaryDrift, Free, Within
<1>12. QED
  BY <1>8, <1>10, <1>11

(* A step of the desk: what it writes to a batch it also counts.             *)
LEMMA DeskStepStep ==
  ASSUME IsFiniteSet(NomIds), DeskInv, BoardInv, DeskStep
  PROVE  BoardInv'
<1> USE DEF BoardInv
<1>1. /\ view' = view /\ [Next]_vars
      /\ writes' = [v \in Viewers |->
           IF view[v].step = "counting"
              /\ \E n \in NomIds : noms'[n] # noms[n] /\ noms'[n].batch = view[v].batch
           THEN writes[v] + 1 ELSE writes[v]]
  BY DEF DeskStep
<1>2. BoardTypes'
  BY <1>1 DEF BoardTypes
<1>3. ASSUME NEW v \in Viewers, view[v].step = "counting" PROVE Halfway(v)'
  <2>1. view[v] \in Summary /\ Halfway(v) /\ writes[v] \in Nat
    BY <1>3, SummaryTypes DEF BoardTypes
  <2>2. PICK b \in Batches, f \in Nat, m \in Nat, n \in Nat :
          /\ b = view[v].batch /\ f = view[v].filled
          /\ m = Count(b, FilledStatuses) /\ n = Count(b, FilledStatuses)'
    <3>1. \A b \in Batches :
            Count(b, FilledStatuses) \in Nat /\ Count(b, FilledStatuses)' \in Nat
      <4>1. FilledStatuses' = FilledStatuses
        BY DEF FilledStatuses
      <4>2. QED
        BY <4>1, CountedFinite
    <3>2. QED
      BY <2>1, <3>1 DEF Summary
  <2>3. /\ Within(n, m, 1)
        /\ (~\E k \in NomIds : noms'[k] # noms[k] /\ noms'[k].batch = b) => n = m
    <3>1. FilledStatuses' = FilledStatuses
      BY DEF FilledStatuses
    <3>2. QED
      BY <1>1, <2>2, <3>1, CountMoves
  <2>4. Within(f, m, writes[v]) /\ view[v].available = Free(b, f)
    BY <2>1, <2>2 DEF Halfway
  <2>5. Within(f, n, writes'[v])
    <3>1. CASE \E k \in NomIds : noms'[k] # noms[k] /\ noms'[k].batch = b
      <4>1. writes'[v] = writes[v] + 1
        BY <1>1, <1>3, <2>2, <3>1
      <4>2. QED
        BY <2>1, <2>2, <2>3, <2>4, <4>1 DEF Within
    <3>2. CASE ~\E k \in NomIds : noms'[k] # noms[k] /\ noms'[k].batch = b
      <4>1. writes'[v] = writes[v]
        BY <1>1, <1>3, <2>2, <3>2
      <4>2. QED
        BY <2>3, <2>4, <3>2, <4>1
    <3>3. QED
      BY <3>1, <3>2
  <2>6. QED
    BY <1>1, <2>2, <2>4, <2>5 DEF Halfway, Free
<1>4. SummaryDrift'
  <2>1. \A v \in Viewers : view[v].step = "shown" => writes'[v] = writes[v]
    BY <1>1 DEF BoardTypes
  <2>2. QED
    BY <1>1, <2>1 DEF SummaryDrift, Free, Within
<1>5. QED
  BY <1>1, <1>2, <1>3, <1>4

(* The columns of a summary are off by no more than the nominations written   *)
(* between its two queries, and never negative: for any number of viewers,   *)
(* sessions, batches and capacities.  seat_summary reads them without a      *)
(* transaction, so this is all that can be said of them; without writes in   *)
(* between they are exact.                                                   *)
THEOREM SummariesDriftWithWrites ==
  ASSUME IsFiniteSet(NomIds)
  PROVE  BoardSpec => []SummaryDrift
<1>1. BoardSpec => []DeskInv
  BY BoardKeepsDesk, DeskInvariant, PTL
<1>2. DeskInv /\ BoardInv /\ [BoardNext]_boardVars => BoardInv'
  <2> SUFFICES ASSUME DeskInv, BoardInv, [BoardNext]_boardVars PROVE BoardInv'
    OBVIOUS
  <2>1. CASE UNCHANGED boardVars
    BY <2>1 DEF boardVars, BoardInv, BoardTypes, Halfway, SummaryDrift, Count, Stored, Free, Within
  <2>2. QED
    BY <2>1, DeskStepStep, CountFilledStep, CountWaitlistedStep, Zenon DEF BoardNext
<1>3. BoardInv => SummaryDrift
  BY DEF BoardInv
<1>4. QED
  BY <1>1, <1>2, <1>3, BoardInitInv, PTL DEF BoardSpec
=============================================================================
