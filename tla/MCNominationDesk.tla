--------------------------- MODULE MCNominationDesk ---------------------------
(* Small instances of NominationDesk for TLC. *)
EXTENDS NominationDesk, TLC

CONSTANTS b1, b2, p1

MCProgramOf == [b \in Batches |-> p1]

(* Operators confirm, withdraw and waitlist, and never reopen. *)
ForwardMoves ==
  {<<"Submitted", "Confirmed">>, <<"Submitted", "Withdrawn">>, <<"Confirmed", "Withdrawn">>}

(* A withdrawn nomination may also be put back in the queue. *)
ReopeningMoves == ForwardMoves \cup {<<"Withdrawn", "Submitted">>}

Symmetry == Permutations(NomIds) \cup Permutations(Sessions)
=============================================================================
