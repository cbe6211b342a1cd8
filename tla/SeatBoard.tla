------------------------------- MODULE SeatBoard -------------------------------
(***************************************************************************)
(* The Batches page beside the nomination desk: each viewer asks for the   *)
(* seat_summary of a batch while sessions go on writing nominations.  The  *)
(* queries of one summary share a connection but no transaction (a SELECT  *)
(* opens none), so writes fall between them.  Nothing changes a batch once *)
(* it is created, so the query for its capacity goes with the first count. *)
(***************************************************************************)
EXTENDS NominationDesk, Integers

CONSTANTS
  Viewers,     (* sessions that show the Batches page *)
  Capacity     (* the capacity column of the batches *)

ASSUME SeatAssumption == Capacity \in [Batches -> Nat]

VARIABLES
  view,        (* per viewer: the summary under way, or the last one shown *)
  writes       (* history: per viewer, nominations written since its first count *)

boardVars == <<noms, audit, work, clock, lost, raced, view, writes>>

Blank == [step |-> "blank"]

(* The dictionary seat_summary returns; "listed" and "seated" are history.   *)
Summary == [step : {"counting", "shown"}, batch : Batches, filled : Nat, waitlisted : Nat,
            available : Nat, listed : Nat, seated : Nat]

(* Mutant: a waitlisted nomination is counted as a seat as well. *)
FilledStatuses_Waitlisted ==
  {"Submitted", "PendingValidation", "Eligible", "Confirmed", "Waitlisted"}

(* The statuses that occupy a seat: the literals of the query. *)
FilledStatuses == {"Submitted", "PendingValidation", "Eligible", "Confirmed"}

Count(b, statuses) ==
  Cardinality({n \in Stored : noms[n].batch = b /\ noms[n].status \in statuses})

Free(b, filled) == IF filled < Capacity[b] THEN Capacity[b] - filled ELSE 0

------------------------------------------------------------------------------
BoardInit ==
  /\ Init
  /\ view = [v \in Viewers |-> Blank]
  /\ writes = [v \in Viewers |-> 0]

(* The capacity and the first count, which give the seats available. *)
CountFilled(v, b) ==
  /\ view[v].step # "counting"
  /\ LET filled == Count(b, FilledStatuses) IN
       view' = [view EXCEPT ![v] =
         [step |-> "counting", batch |-> b, filled |-> filled, waitlisted |-> 0,
          available |-> Free(b, filled), listed |-> 0, seated |-> 0]]
  /\ writes' = [writes EXCEPT ![v] = 0]
  /\ UNCHANGED vars

(* The second count, after which the row is shown; the history says how many  *)
(* nominations of the batch were active, drafts apart, and how many had a    *)
(* seat at that moment.                                                      *)
CountWaitlisted(v) ==
  /\ view[v].step = "counting"
  /\ LET b == view[v].batch IN
       view' = [view EXCEPT ![v].step = "shown",
                            ![v].waitlisted = Count(b, {"Waitlisted"}),
                            ![v].listed = Count(b, ActiveStatuses \ {"Draft"}),
                            ![v].seated = Count(b, ActiveStatuses \ {"Draft", "Waitlisted"})]
  /\ UNCHANGED <<vars, writes>>

(* A step of the desk; a row it writes counts for the viewers half way        *)
(* through the summary of its batch.                                         *)
DeskStep ==
  /\ Next
  /\ writes' = [v \in Viewers |->
       IF view[v].step = "counting"
          /\ \E n \in NomIds : noms'[n] # noms[n] /\ noms'[n].batch = view[v].batch
       THEN writes[v] + 1 ELSE writes[v]]
  /\ UNCHANGED view

BoardNext == DeskStep \/ \E v \in Viewers : CountWaitlisted(v) \/ \E b \in Batches : CountFilled(v, b)

BoardSpec == BoardInit /\ [][BoardNext]_boardVars

------------------------------------------------------------------------------
Within(m, n, slack) == m - n <= slack /\ n - m <= slack

(* The columns of a row shown are counted at different moments: a nomination  *)
(* that moves in between may show up in both or in neither, and the seats    *)
(* shown as available may be gone.  They are off by no more than the         *)
(* nominations written between the counts: a summary that nothing was        *)
(* written under shows every active nomination once and just the free seats. *)
(* And no column is ever negative, however overbooked the batch.             *)
SummaryDrift ==
  \A v \in Viewers : view[v].step = "shown" =>
    LET w == view[v] IN
      /\ w \in Summary
      /\ Within(w.filled + w.waitlisted, w.listed, writes[v])
      /\ Within(w.available, Free(w.batch, w.seated), writes[v])
=============================================================================
