----------------------------- MODULE StatusMapping -----------------------------
(***************************************************************************)
(* services/status_mapping_service.py: what a cell of a status column says *)
(* under the rule configured for its field.  A cell is its normalized text *)
(* together with what float() makes of it: a number, NaN, or nothing.      *)
(***************************************************************************)
EXTENDS Integers

CONSTANTS
  Cells,         (* the cells a status column may hold *)
  BlankMarkers,  (* texts that stand for an empty cell *)
  NotNumeric,    (* float() raises *)
  NaN,           (* float() of a text like "nan" *)
  NoRule,        (* no rule is configured for the field *)
  NoThreshold    (* a numeric rule without a threshold *)

Texts == {c.text : c \in Cells}

StatusValueRule ==
  [mode : {"text_values", "numeric_threshold"}, pass : SUBSET Texts, fail : SUBSET Texts,
   threshold : Int \cup {NoThreshold}]

ASSUME CellAssumption ==
  /\ \A c \in Cells : c.float \in Int \cup {NotNumeric, NaN}
  /\ NotNumeric \notin Int /\ NaN \notin Int \cup {NotNumeric}
  /\ NoThreshold \notin Int /\ NoRule \notin StatusValueRule

(* The cell is judged by comparing it with the threshold. *)
Compared(cell, rule) ==
  /\ rule.mode = "numeric_threshold"
  /\ cell.float # NotNumeric
  /\ rule.threshold # NoThreshold

(* No comparison with NaN is true. *)
Reaches(number, threshold) == number # NaN /\ number >= threshold

Passes(cell, rule) ==
  \/ rule.mode = "text_values" /\ cell.text \in rule.pass
  \/ Compared(cell, rule) /\ Reaches(cell.float, rule.threshold)

Fails(cell, rule) ==
  \/ rule.mode = "text_values" /\ cell.text \in rule.fail
  \/ Compared(cell, rule) /\ ~Reaches(cell.float, rule.threshold)

(* Mutant: what is not a pass is a failure. *)
ClassifyStatusValue_Guessed(cell, rule) ==
  IF rule = NoRule \/ cell.text \in BlankMarkers THEN "DataUnavailable"
  ELSE IF Passes(cell, rule) THEN "Pass" ELSE "Fail"

(* classify_status_value; values listed as pending are not told from unknown *)
(* ones.                                                                     *)
ClassifyStatusValue(cell, rule) ==
  IF rule = NoRule \/ cell.text \in BlankMarkers THEN "DataUnavailable"
  ELSE IF Passes(cell, rule) THEN "Pass"
  ELSE IF Fails(cell, rule) THEN "Fail"
  ELSE "DataUnavailable"
=============================================================================
