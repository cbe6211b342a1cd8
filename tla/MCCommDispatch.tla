---------------------------- MODULE MCCommDispatch ----------------------------
(* Small instances of CommDispatch for TLC. *)
EXTENDS CommDispatch, TLC

CONSTANTS r1, r2, r3, page

LiveSymmetry == Permutations(Live)
=============================================================================
