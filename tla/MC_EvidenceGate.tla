--------------------------- MODULE MC_EvidenceGate ---------------------------
(* One vendor page and one observer with two readings. *)
EXTENDS EvidenceGate, TLC
CONSTANTS v30, v90, wallet, own, a1, a2, p1
MCLineage == [operator |-> own, source |-> own, extractor |-> own]
MCOrigin ==
  [uid \in UIDs |->
     IF uid = 1
     THEN [vendor |-> TRUE, canonical |-> TRUE, bound |-> TRUE,
           address |-> NoAddress, lineage |-> NoLineage]
     ELSE [vendor |-> FALSE, canonical |-> FALSE, bound |-> TRUE,
           address |-> wallet, lineage |-> MCLineage]]
MCUIDs2 == 1..2
MCUIDs3 == 1..3
MCPunctual == {0}
MCHistory == [a \in Addresses |-> 1]
MCValues == {v30, v90}
ValueSymmetry == Permutations({v30, v90})
Symmetry == ValueSymmetry \cup Permutations({a1, a2})
=============================================================================
