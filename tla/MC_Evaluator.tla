----------------------------- MODULE MC_Evaluator -----------------------------
(* Two conditions, one retention-like and one plain predicate. *)
EXTENDS EvaluatorWorld
CONSTANTS retention, region, days, hours, long, short, odd
MCConditions == {retention, region}
MCPredicates == {"retention_days >= 365", "regions contains eu"}
MCMatch ==
  [p \in MCPredicates |-> [v \in {long, short, odd} |->
     CASE v = long -> "pass" [] v = short -> "fail" [] OTHER -> "unusable"]]
MCImplicitUnit ==
  [p \in MCPredicates |-> IF p = "retention_days >= 365" THEN days ELSE NoUnit]
SpecOf(k, p, prov, req, u) ==
  [key |-> k, predicate |-> p, provenance |-> prov, required |-> req, unit |-> u]
MCFirst == {SpecOf(retention, p, prov, req, u) :
              p \in {"retention_days >= 365", Unsupported},
              prov \in {"EXPLICIT", "INFERRED"}, req \in BOOLEAN,
              u \in {days, NoUnit}}
MCSecond == {SpecOf(region, "regions contains eu", prov, TRUE, NoUnit) :
               prov \in {"CONFIRMED", "EXTERNAL"}}
MCDecisions == {{a, b} : a \in MCFirst, b \in MCSecond} \cup {{}}
=============================================================================
