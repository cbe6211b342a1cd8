--------------------------- MODULE MCEligibilityDesk ---------------------------
(* Small instances of EligibilityDesk for TLC: the scores around the pass    *)
(* mark of 60, data not there, a rule that raises, one that is not available *)
(* yet and one that does not apply.                                          *)
EXTENDS EligibilityDesk, TLC

MCReadings ==
  {Reading(kind) : kind \in ReadingKinds \ {"score"}} \cup {Score(59), Score(60)}

Symmetry == Permutations(Sessions)
=============================================================================
