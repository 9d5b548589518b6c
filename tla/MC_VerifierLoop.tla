--------------------------- MODULE MC_VerifierLoop ---------------------------
(* Small instances of the verifier loop. *)
EXTENDS VerifierLoop, TLC
CONSTANTS p1, p2, lower, mixed
(* One wallet, spelled in two ways; it spells itself in mixed case. *)
MCDeliveredAs == [n \in Names |-> mixed]
ProcSymmetry == Permutations({p1, p2})
===============================================================================
