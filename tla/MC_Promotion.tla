----------------------------- MODULE MC_Promotion -----------------------------
(* Two conditions; one decision rests on the first, one on both. *)
EXTENDS Promotion, TLC
CONSTANTS a1, a2, a3, c1, c2, d1, d2, good, bad
MCPredicates == {"satisfied"}
MCMatch == [p \in MCPredicates |-> [v \in {good, bad} |-> IF v = good THEN "pass" ELSE "fail"]]
MCImplicitUnit == [p \in MCPredicates |-> NoUnit]
Requires(c) == [key |-> c, predicate |-> "satisfied", provenance |-> "CONFIRMED",
                required |-> TRUE, unit |-> NoUnit]
MCConditionsOf == (d1 :> {Requires(c1)}) @@ (d2 :> {Requires(c1), Requires(c2)})
MCOneConditionOf == d1 :> {Requires(c1)}
MCBothConditionsOf == d2 :> {Requires(c1), Requires(c2)}
(* The second condition has a plain entity from before any promotion. *)
MCPlain == (c1 :> NoCurrent) @@ (c2 :> [value |-> good, unit |-> NoUnit,
                                        fresh |-> TRUE, contested |-> FALSE])
ActorSymmetry == Permutations(Actors)
=============================================================================
