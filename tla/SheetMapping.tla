----------------------------- MODULE SheetMapping -----------------------------
(***************************************************************************)
(* What the workbook inspector and the mapping service make of the header  *)
(* row of a sheet: its columns, the kind of source it looks like, whether  *)
(* a saved mapping still fits it, and the keys under which its rows are    *)
(* read.  A header is the text of a cell; Normal is what                   *)
(* normalize_header_name makes of it.  Files hold one sheet; a mapping     *)
(* names the column of a field, or none.                                   *)
(***************************************************************************)
EXTENDS Naturals, Sequences, FiniteSets

CONSTANTS
  Headers,     (* texts of header cells *)
  Blank,       (* the text of an empty header cell *)
  Normal,      (* white space runs collapsed and both ends stripped *)
  Sheets,      (* the header rows the file may come to have *)
  Fields,      (* canonical fields *)
  Unmapped,    (* the column of a field that is unresolved, unstructured or left out *)
  KindOrder,   (* the kinds of sources in the order of _CLASSIFICATION_KEYWORDS *)
  Keywords,    (* the keywords expected of each kind *)
  Inside       (* <<header, keyword>>: the keyword is part of the header's key *)

Kinds == {KindOrder[i] : i \in DOMAIN KindOrder}

ASSUME SheetAssumption ==
  /\ Blank \in Headers /\ Unmapped \notin Headers
  /\ Normal \in [Headers -> Headers] /\ Normal[Blank] = Blank
  /\ \A h \in Headers : Normal[Normal[h]] = Normal[h]
  /\ Sheets \subseteq Seq(Headers)
  /\ KindOrder \in Seq(Kinds)
  /\ \A k \in Kinds : Keywords[k] # {} /\ IsFiniteSet(Keywords[k])

Raw(sheet) == {sheet[i] : i \in DOMAIN sheet}

(* normalized_headers of an inspection, as a set. *)
Names(sheet) == {Normal[h] : h \in Raw(sheet)}

(* compute_header_signature: neither the order nor empty headers count. *)
Signature(sheet) == Names(sheet) \ {Blank}

(* What the confirmed mapping of a sheet keeps of it. *)
SourceMapping == [raw : SUBSET Headers, signature : SUBSET Headers,
                  column : [Fields -> Headers \cup {Unmapped}]]

(* The mapping a user confirms: each field has a column of the sheet or none. *)
Confirmed(sheet, column) ==
  [raw |-> Raw(sheet), signature |-> Signature(sheet), column |-> column]

Choices(sheet) == [Fields -> Signature(sheet) \cup {Unmapped}]

(* unresolved_canonical_fields. *)
Unresolved(m, relevant) == {f \in relevant : m.column[f] = Unmapped}

(* Mutant: the column is looked for among the raw headers. *)
Errors_Raw(m, sheet) ==
  {f \in Fields \ Unresolved(m, Fields) : m.column[f] \notin Raw(sheet)}

(* The fields whose mapped column has vanished: the errors of                *)
(* validate_mapping_against_inspection.                                      *)
Errors(m, sheet) ==
  {f \in Fields \ Unresolved(m, Fields) : m.column[f] \notin Names(sheet)}

(* Its warnings: the raw headers the mapping was saved with are compared     *)
(* with the normalized ones of the sheet.                                    *)
Added(m, sheet) == Names(sheet) \ m.raw
Removed(m, sheet) == (m.raw \ Names(sheet)) \ {m.column[f] : f \in Errors(m, sheet)}

NoIssues(m, sheet) ==
  Errors(m, sheet) = {} /\ Added(m, sheet) = {} /\ Removed(m, sheet) = {}

------------------------------------------------------------------------------
Matched(k, sheet) ==
  {w \in Keywords[k] : \E h \in Signature(sheet) : <<h, w>> \in Inside}

(* The score of kind k is higher than that of kind j. *)
Beats(k, j, sheet) ==
  Cardinality(Matched(k, sheet)) * Cardinality(Keywords[j])
    > Cardinality(Matched(j, sheet)) * Cardinality(Keywords[k])

(* _CLASSIFICATION_CONFIDENCE_FLOOR, 0.34. *)
Confident(k, sheet) ==
  100 * Cardinality(Matched(k, sheet)) >= 34 * Cardinality(Keywords[k])

(* suggest_classification: the first kind of the highest score that reaches  *)
(* the floor; none stands for SourceKind.UNKNOWN.                            *)
Suggested(sheet) ==
  {KindOrder[i] : i \in {i \in DOMAIN KindOrder :
     /\ Confident(KindOrder[i], sheet)
     /\ \A j \in DOMAIN KindOrder :
          /\ ~Beats(KindOrder[j], KindOrder[i], sheet)
          /\ j < i => Beats(KindOrder[i], KindOrder[j], sheet)}}

------------------------------------------------------------------------------
(* Mutant: the columns keep the texts of their header cells. *)
RowKeys_Raw(sheet) == Raw(sheet) \ {Blank}

(* The keys of a row of read_sheet_rows.  The reader gives an empty header   *)
(* and the repetition of one names of its own, which nobody mapped.          *)
RowKeys(sheet) == {Normal[h] : h \in Raw(sheet) \ {Blank}}
=============================================================================
