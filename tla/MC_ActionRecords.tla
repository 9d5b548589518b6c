--------------------------- MODULE MC_ActionRecords ---------------------------
(* Small instances of the records beside a decision. *)
EXTENDS ActionRecords, TLC
CONSTANTS p1, p2, d1, d2, k, w, r
ProcSymmetry == Permutations(Procs)
===============================================================================
