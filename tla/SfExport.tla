------------------------------- MODULE SfExport -------------------------------
(***************************************************************************)
(* exports/flare_sf_export.py: the rows of an export and what the          *)
(* validation finds in them.  A row joins a nomination with its employee,  *)
(* its program and its batch.  Positions count from 1.                     *)
(***************************************************************************)
EXTENDS Naturals, Sequences

CONSTANT Nothing   (* a field without a value *)

RequiredFields == {"employee_code", "display_name", "email", "program_name", "trf_number"}

(* Mutant: the course stands for the batch. *)
ExportKey_Course(row) == <<row.employee_code, row.program_name>>

(* The key under which a row is looked for among the rows before it. *)
ExportKey(row) == <<row.employee_code, row.trf_number>>

Repeats(rows, i) == \E j \in 1 .. i - 1 : ExportKey(rows[j]) = ExportKey(rows[i])

(* validate_rows: <<position, field>> of what is missing or repeated. *)
ValidateRows(rows) ==
  {at \in (DOMAIN rows) \X RequiredFields : rows[at[1]][at[2]] = Nothing}
    \cup {<<i, "employee_code+trf_number">> : i \in {i \in DOMAIN rows : Repeats(rows, i)}}

(* build_export: every row is mapped, the valid and the others alike; the     *)
(* columns of DEFAULT_SF_MAPPING are those of DEFAULT_FLARE_MAPPING less the  *)
(* name, the e-mail and the eligibility, under other names.                  *)
BuildExport(rows, columns) ==
  [rows |-> [i \in DOMAIN rows |-> [c \in columns |-> rows[i][c]]], errors |-> ValidateRows(rows)]

FlareColumns == RequiredFields

SfColumns == {"employee_code", "program_name", "trf_number"}

IsValid(export) == export.errors = {}
=============================================================================
