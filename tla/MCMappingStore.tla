---------------------------- MODULE MCMappingStore ----------------------------
(* A small instance of MappingStore for TLC: a sheet and its later exports,   *)
(* with a column added, one gone, one padded with white space, one in two     *)
(* spellings and an empty one.                                                *)
EXTENDS MappingStore, TLC

CONSTANTS id, mail, mailPadded, grade, tracker, report, wId, wMail, wScore, passed, failed, other, na

MCNormal == [h \in Headers |-> IF h = mailPadded THEN mail ELSE h]

MCSheets ==
  {<<id, mail>>, <<grade, id>>, <<mailPadded, id, grade>>,
   <<id, mail, mailPadded>>, <<id, mail, Blank>>}

MCKindOrder == <<tracker, report>>

MCKeywords == tracker :> {wId, wMail} @@ report :> {wId, wMail, wScore}

MCInside == {<<id, wId>>, <<mail, wMail>>}

Cell(text, float) == [text |-> text, float |-> float]

MCCells ==
  {Cell(passed, NotNumeric), Cell(failed, NotNumeric), Cell(other, NotNumeric),
   Cell(na, NotNumeric), Cell(other, NaN), Cell(other, 59), Cell(other, 60)}

Rule(mode, threshold) ==
  [mode |-> mode, pass |-> {passed}, fail |-> {failed}, threshold |-> threshold]

MCRuleChoices ==
  {Rule("text_values", NoThreshold), Rule("numeric_threshold", 60), Rule("numeric_threshold", NoThreshold)}

Symmetry == Permutations(Sessions)
=============================================================================
