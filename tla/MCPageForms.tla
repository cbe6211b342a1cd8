----------------------------- MODULE MCPageForms -----------------------------
(* A small instance of PageForms for TLC: two programs with a batch each,  *)
(* both under one TRF number, a name for more, and an employee without a code. *)
EXTENDS PageForms, TLC

CONSTANTS java, cloud, data, t1, t2, e1, e2, code1, name1

MCProfile ==
  e1 :> [employee_code |-> code1, display_name |-> name1, email |-> name1] @@
  e2 :> [employee_code |-> Nothing, display_name |-> name1, email |-> name1]

MCFirstPrograms == <<java, cloud>>

MCFirstBatches == <<[program |-> 1, trf |-> t1], [program |-> 2, trf |-> t1]>>

Symmetry == Permutations(Sessions)
=============================================================================
