------------------------------ MODULE MC_AcpJob ------------------------------
(* Small instances of the hire over the agent marketplace. *)
EXTENDS AcpJob, TLC
CONSTANTS k1, k2
MCAsks == [c \in Calls |-> IF c = 1 THEN {k1} ELSE Keys]
MCSpent == [c \in Calls |-> 0]
=============================================================================
