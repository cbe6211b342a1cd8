------------------------------ MODULE MCSeatBoard ------------------------------
(* Small instances of SeatBoard, and with it of the desk, for TLC. *)
EXTENDS SeatBoard, TLC

CONSTANTS b1, b2, p1

MCProgramOf == [b \in Batches |-> p1]

MCCapacity == [b \in Batches |-> 1]

(* Operators confirm and withdraw nominations and move them between the      *)
(* waiting list and the seats; a closed nomination is never reopened.        *)
DeskMoves ==
  {<<"Submitted", "Confirmed">>, <<"Submitted", "Withdrawn">>, <<"Confirmed", "Withdrawn">>,
   <<"Submitted", "Waitlisted">>, <<"Waitlisted", "Submitted">>}

Symmetry == Permutations(NomIds) \cup Permutations(Sessions)
=============================================================================
