---------------------------- MODULE MCRosterImport ----------------------------
(* Small instances of RosterImport for TLC: a plain code and one with leading *)
(* zeros, which a number cell turns into the other; two like names.          *)
EXTENDS RosterImport, TLC

CONSTANTS c7, c007, c8, x, y, ann, anne

MCTrimmed == c7 :> c7 @@ c007 :> c7 @@ c8 :> c8

MCSimilarity == [p \in Names \X Names |-> IF p[1] = p[2] THEN 100 ELSE 92]

Cell(form, value) == [form |-> form, value |-> value]

Line(form, code, email, name) == [id |-> Cell(form, code), email |-> email, name |-> name]

(* The same people as tracker, report and older files have them: text and     *)
(* number cells, a lost zero, a shared e-mail, a changed one, no ID at all.   *)
MCRows ==
  {Line("text", c7, x, ann), Line("number", c7, x, ann), Line("text", c7, y, ann),
   Line("text", c007, x, ann), Line("number", c007, Blank, ann),
   Line("text", c8, x, anne), Line("number", c8, y, Blank),
   Line("text", Blank, x, anne), Line("text", Blank, y, anne), Line("number", Blank, Blank, ann)}

Symmetry == Permutations(Importers)
=============================================================================
