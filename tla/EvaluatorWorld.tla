---------------------------- MODULE EvaluatorWorld ----------------------------
(***************************************************************************)
(* One remembered decision and a world whose accepted records change: the  *)
(* inputs evaluate_standing is called with, one change at a time.          *)
(***************************************************************************)
EXTENDS Evaluator

CONSTANT Tried    \* the decisions tried: sets of specs

ASSUME TriedType == Tried \subseteq SUBSET Specs

VARIABLES decision,   \* what the human approved; it never changes here
          current     \* the accepted record of each condition

worldVars == <<decision, current>>

WorldTypeOK == /\ decision \in Tried
               /\ current \in [Conditions -> Records \cup {NoCurrent}]

WorldInit == /\ decision \in Tried
             /\ current = [c \in Conditions |-> NoCurrent]

(* A promotion, a stale marker or a contested head changes one record. *)
Observe(c, record) ==
  /\ current' = [current EXCEPT ![c] = record]
  /\ UNCHANGED decision

WorldNext == \E c \in Conditions, record \in Records : Observe(c, record)

World == WorldInit /\ [][WorldNext]_worldVars

(* The gate is exact, for the records of the moment (review_paths).         *)
GateExact == GateIsExact(decision, current)

(* A decision blocked by contested evidence says so (_decision_state).      *)
ContestedWins == ContestedDominates(decision, current)
=============================================================================
