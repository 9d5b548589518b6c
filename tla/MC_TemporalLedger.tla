-------------------------- MODULE MC_TemporalLedger --------------------------
(* Small instances of the evidence ledger. *)
EXTENDS TemporalLedger, TLC
CONSTANTS v30, v90, p1, p2
MCLags == {-1, 1}
MCLateOnly == {-1}
MCUIDs2 == 1..2
MCUIDs3 == 1..3
ValueSymmetry == Permutations({v30, v90})
MCValues == {v30, v90}
Symmetry == ValueSymmetry \cup Permutations({p1, p2})
=============================================================================
