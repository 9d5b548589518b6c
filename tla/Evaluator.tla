------------------------------- MODULE Evaluator -------------------------------
(***************************************************************************)
(* The pure standing evaluator of standing/evaluator.py.                   *)
(*                                                                         *)
(* A decision is the set of its condition specs; `current' maps each       *)
(* condition key to the accepted record the reviewer read for it, or to    *)
(* NoCurrent.  Whether a value satisfies a supported predicate is data:    *)
(* the constant Match.  The messages and the notes are left out.           *)
(***************************************************************************)
EXTENDS Naturals

CONSTANTS Conditions,   \* condition keys
          Predicates,   \* the predicates the four supported checks parse
          Unsupported,  \* any predicate they do not parse
          Values,       \* accepted values
          NoValue,      \* an accepted record without a value
          Units,
          NoUnit,       \* no unit on the spec, or on the record
          NoCurrent,    \* no accepted record for the condition
          Match,        \* Match[p][v]: what _matches says of v under p
          ImplicitUnit  \* ImplicitUnit[p]: the unit p itself insists on

ASSUME UnsupportedIsNoPredicate == Unsupported \notin Predicates
ASSUME NoValueIsNoValue == NoValue \notin Values
ASSUME NoUnitIsNoUnit == NoUnit \notin Units
ASSUME MatchType == Match \in [Predicates -> [Values -> {"pass", "fail", "unusable"}]]
ASSUME ImplicitUnitType == ImplicitUnit \in [Predicates -> Units \cup {NoUnit}]

Provenances == {"EXPLICIT", "CONFIRMED", "INFERRED", "EXTERNAL"}
BlockingProvenance == {"EXPLICIT", "CONFIRMED"}
States == {"STANDS", "EXPIRED", "UNKNOWN", "CONTESTED"}

Specs == [key : Conditions, predicate : Predicates \cup {Unsupported},
          provenance : Provenances, required : BOOLEAN,
          unit : Units \cup {NoUnit}]

Records == [value : Values \cup {NoValue}, unit : Units \cup {NoUnit},
            fresh : BOOLEAN, contested : BOOLEAN]

ASSUME NoCurrentIsNoRecord == NoCurrent \notin Records

(* blocking_allowed: only a required, human-backed condition may block. *)
MayBlock(spec) == spec.required /\ spec.provenance \in BlockingProvenance

(* _unit_error: an explicit unit must be present and equal; without one, a *)
(* unit that is present must be the one the predicate insists on, if any.  *)
UnitError(spec, record) ==
  IF spec.unit # NoUnit
  THEN record.unit # spec.unit
  ELSE /\ ImplicitUnit[spec.predicate] # NoUnit
       /\ record.unit # NoUnit
       /\ record.unit # ImplicitUnit[spec.predicate]

(* _matches, as the state it leads to. *)
Matched(spec, record) ==
  IF record.value = NoValue THEN "UNKNOWN"
  ELSE LET outcome == Match[spec.predicate][record.value]
       IN IF outcome = "pass" THEN "STANDS"
          ELSE IF outcome = "fail" THEN "EXPIRED" ELSE "UNKNOWN"

(* Mutant: the unit is not compared. *)
UnitlessState(spec, record) ==
  IF record = NoCurrent THEN "UNKNOWN"
  ELSE IF spec.predicate = Unsupported
       THEN IF spec.required THEN "UNKNOWN" ELSE "STANDS"
  ELSE IF ~record.fresh THEN "UNKNOWN"
  ELSE IF record.contested THEN "CONTESTED"
  ELSE Matched(spec, record)

(* _evaluate_condition: its early returns, in its order. *)
ConditionState(spec, record) ==
  IF record = NoCurrent THEN "UNKNOWN"
  ELSE IF spec.predicate = Unsupported
       THEN IF spec.required THEN "UNKNOWN" ELSE "STANDS"
  ELSE IF ~record.fresh THEN "UNKNOWN"
  ELSE IF record.contested THEN "CONTESTED"
  ELSE IF UnitError(spec, record) THEN "UNKNOWN"
  ELSE Matched(spec, record)

Blocks(spec, record) ==
  MayBlock(spec) /\ ConditionState(spec, record) # "STANDS"

Priority == [STANDS |-> 0, EXPIRED |-> 1, UNKNOWN |-> 2, CONTESTED |-> 3]

BlockingStates(decision, current) ==
  {ConditionState(s, current[s.key]) : s \in {t \in decision : Blocks(t, current[t.key])}}

(* Mutant: the mildest blocking state is reported. *)
MildestState(decision, current) ==
  LET blocking == BlockingStates(decision, current) IN
  IF blocking = {} THEN "STANDS"
  ELSE CHOOSE s \in blocking : \A t \in blocking : Priority[s] <= Priority[t]

(* _decision_state: the worst of the blocking states. *)
DecisionState(decision, current) ==
  LET blocking == BlockingStates(decision, current) IN
  IF blocking = {} THEN "STANDS"
  ELSE CHOOSE s \in blocking : \A t \in blocking : Priority[t] <= Priority[s]

(* The reviewer's verdict (review_paths, promote_acceptance). *)
Verdict(decision, current) ==
  IF /\ DecisionState(decision, current) # "STANDS"
     /\ \E s \in decision : Blocks(s, current[s.key])
  THEN "block" ELSE "allow"

-----------------------------------------------------------------------------
(* What "this condition is proven" means, said without the evaluator.       *)
Proven(spec, record) ==
  /\ record # NoCurrent
  /\ spec.predicate \in Predicates
  /\ record.fresh
  /\ ~record.contested
  /\ ~UnitError(spec, record)
  /\ record.value \in Values
  /\ Match[spec.predicate][record.value] = "pass"

(* The promise of the gate: a decision is allowed exactly when every        *)
(* required, human-backed condition of it is proven - fresh, agreed, in the *)
(* right unit and satisfied - and no other condition has a say.             *)
GateIsExact(decision, current) ==
  Verdict(decision, current) = "allow"
    <=> \A s \in decision : MayBlock(s) => Proven(s, current[s.key])

(* A decision that contested evidence blocks says so, whatever else failed. *)
ContestedDominates(decision, current) ==
  (\E s \in decision : /\ Blocks(s, current[s.key])
                       /\ ConditionState(s, current[s.key]) = "CONTESTED")
    => DecisionState(decision, current) = "CONTESTED"
=============================================================================
