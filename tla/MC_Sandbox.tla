------------------------------ MODULE MC_Sandbox ------------------------------
(* Small instances of the sandbox. *)
EXTENDS Sandbox, TLC
CONSTANTS t1, t2
MCUIDs == 1..MaxCalls + 2
MCValues == {90, 365}
ThreadSymmetry == Permutations(Threads)
===============================================================================
