------------------------ MODULE MC_DecisionLifecycle ------------------------
(* Small instances of the decision lifecycle. *)
EXTENDS DecisionLifecycle, TLC
CONSTANTS a1, a2, p, r1, r2, r3
MCIntroduces == [a \in Actors |-> IF a = a1 THEN {1, 2} ELSE {3}]
MCDecisionOf == [q \in Proposals |-> 1]
MCOwnRevisions == [d \in Decisions |-> IF d = 3 THEN RevisionIds ELSE {}]
RevisionSymmetry == Permutations({r1, r2, r3})
MCRevisionIds == {r1, r2, r3}
MCSharedRevisions == [d \in Decisions |-> RevisionIds]
ASSUME IdsAreDistinct == DistinctIds
=============================================================================
