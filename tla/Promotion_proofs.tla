---------------------------- MODULE Promotion_proofs ----------------------------
(***************************************************************************)
(* The gate is exact, for every decision and every accepted record.        *)
(*                                                                         *)
(* However promotions, stale markings and crashes interleave, for any      *)
(* number of actors, conditions, decisions and rows: the evaluator only    *)
(* reads references to accepted evidence (BackedReference) and no decision *)
(* is allowed without proof (AllowsAreProven).                             *)
(*                                                                         *)
(* One operation at a time: references only move forward, and, if nobody   *)
(* dies, what is stored and journaled at rest follows them.                *)
(***************************************************************************)
EXTENDS Promotion, EvaluatorWorld, TLAPS

(* Every branch of _evaluate_condition ends in one of the four states.      *)
LEMMA ConditionStateType ==
  ASSUME NEW spec \in Specs, NEW record \in Records \cup {NoCurrent}
  PROVE  ConditionState(spec, record) \in States
  BY DEF ConditionState, Matched, States

(* A condition that may block reads STANDS exactly when it is proven: no    *)
(* early return of _evaluate_condition lets another case through.           *)
LEMMA StandsIsProven ==
  ASSUME NEW spec \in Specs, NEW record \in Records \cup {NoCurrent}, MayBlock(spec)
  PROVE  ConditionState(spec, record) = "STANDS" <=> Proven(spec, record)
  <1>1. CASE record = NoCurrent
    BY <1>1 DEF ConditionState, Proven
  <1>2. CASE record # NoCurrent /\ spec.predicate = Unsupported
    BY <1>2, UnsupportedIsNoPredicate DEF ConditionState, Proven, MayBlock
  <1>3. CASE record # NoCurrent /\ spec.predicate # Unsupported
    <2>1. spec.predicate \in Predicates /\ record \in Records
      BY <1>3 DEF Specs
    <2>2. record.value \in Values \cup {NoValue}
      BY <2>1 DEF Records
    <2>3. Matched(spec, record) = "STANDS"
            <=> record.value \in Values /\ Match[spec.predicate][record.value] = "pass"
      BY <2>2, NoValueIsNoValue DEF Matched
    <2>4. QED
      BY <1>3, <2>1, <2>3 DEF ConditionState, Proven
  <1>4. QED
    BY <1>1, <1>2, <1>3

(* A non-empty set of non-standing states has a worst member.               *)
LEMMA WorstExists ==
  ASSUME NEW S \in SUBSET (States \ {"STANDS"}), S # {}
  PROVE  \E s \in S : \A t \in S : Priority[t] <= Priority[s]
  <1>1. /\ Priority["EXPIRED"] = 1
        /\ Priority["UNKNOWN"] = 2
        /\ Priority["CONTESTED"] = 3
    BY DEF Priority, States
  <1>2. \A s \in S : s \in {"EXPIRED", "UNKNOWN", "CONTESTED"}
    BY DEF States
  <1>3. CASE "CONTESTED" \in S
    BY <1>1, <1>2, <1>3
  <1>4. CASE "CONTESTED" \notin S /\ "UNKNOWN" \in S
    BY <1>1, <1>2, <1>4
  <1>5. CASE "CONTESTED" \notin S /\ "UNKNOWN" \notin S
    BY <1>1, <1>2, <1>5
  <1>6. QED
    BY <1>3, <1>4, <1>5

(* What the worst blocking state is, when something blocks.                 *)
LEMMA DecisionStateIsWorst ==
  ASSUME NEW specs \in SUBSET Specs,
         NEW records \in [Conditions -> Records \cup {NoCurrent}],
         BlockingStates(specs, records) # {}
  PROVE  /\ DecisionState(specs, records) \in BlockingStates(specs, records)
         /\ \A t \in BlockingStates(specs, records) :
              Priority[t] <= Priority[DecisionState(specs, records)]
         /\ BlockingStates(specs, records) \subseteq States \ {"STANDS"}
  <1> DEFINE B == BlockingStates(specs, records)
  <1>1. B \subseteq States \ {"STANDS"}
    <2>1. \A s \in specs : s \in Specs /\ records[s.key] \in Records \cup {NoCurrent}
      BY DEF Specs
    <2>2. QED
      BY <2>1, ConditionStateType DEF BlockingStates, Blocks
  <1>2. \E s \in B : \A t \in B : Priority[t] <= Priority[s]
    BY <1>1, WorstExists
  <1>3. DecisionState(specs, records)
          = CHOOSE s \in B : \A t \in B : Priority[t] <= Priority[s]
    BY DEF DecisionState
  <1>4. QED
    BY <1>1, <1>2, <1>3

(* The gate is exact for every decision and every accepted record.          *)
THEOREM GateExactness ==
  ASSUME NEW specs \in SUBSET Specs,
         NEW records \in [Conditions -> Records \cup {NoCurrent}]
  PROVE  GateIsExact(specs, records)
  <1>1. \A s \in specs : s \in Specs /\ records[s.key] \in Records \cup {NoCurrent}
    BY DEF Specs
  <1>2. \A s \in specs : MayBlock(s) =>
          (ConditionState(s, records[s.key]) = "STANDS" <=> Proven(s, records[s.key]))
    BY <1>1, StandsIsProven
  <1>3. (\A s \in specs : MayBlock(s) => Proven(s, records[s.key]))
          <=> \A s \in specs : ~Blocks(s, records[s.key])
    BY <1>2 DEF Blocks
  <1>4. (\E s \in specs : Blocks(s, records[s.key]))
          => DecisionState(specs, records) # "STANDS"
    <2> SUFFICES ASSUME \E s \in specs : Blocks(s, records[s.key])
                 PROVE  DecisionState(specs, records) # "STANDS"
      OBVIOUS
    <2>1. BlockingStates(specs, records) # {}
      BY DEF BlockingStates
    <2>2. QED
      BY <2>1, DecisionStateIsWorst
  <1>5. QED
    BY <1>3, <1>4 DEF GateIsExact, Verdict

(* Contested evidence that blocks is reported as CONTESTED.                 *)
THEOREM ContestedIsReported ==
  ASSUME NEW specs \in SUBSET Specs,
         NEW records \in [Conditions -> Records \cup {NoCurrent}]
  PROVE  ContestedDominates(specs, records)
  <1> SUFFICES ASSUME "CONTESTED" \in BlockingStates(specs, records)
               PROVE  DecisionState(specs, records) = "CONTESTED"
    BY DEF ContestedDominates, BlockingStates
  <1>1. /\ DecisionState(specs, records) \in States \ {"STANDS"}
        /\ Priority["CONTESTED"] <= Priority[DecisionState(specs, records)]
    BY DecisionStateIsWorst
  <1>2. /\ Priority["EXPIRED"] = 1
        /\ Priority["UNKNOWN"] = 2
        /\ Priority["CONTESTED"] = 3
    BY DEF Priority, States
  <1>3. QED
    BY <1>1, <1>2 DEF States

(* Records stay well formed whatever is observed.                           *)
THEOREM RecordsStayRecords == World => []WorldTypeOK
  <1>1. WorldInit => WorldTypeOK
    BY DEF WorldInit, WorldTypeOK
  <1>2. WorldTypeOK /\ [WorldNext]_worldVars => WorldTypeOK'
    BY DEF WorldTypeOK, WorldNext, Observe, worldVars
  <1>3. QED
    BY <1>1, <1>2, PTL DEF World

(* In every reachable world the verdict is "allow" exactly when every       *)
(* condition that may block is proven.                                      *)
THEOREM AlwaysExact == World => []GateExact
  <1>1. WorldTypeOK => GateExact
    BY GateExactness, TriedType DEF WorldTypeOK, GateExact
  <1>2. QED
    BY <1>1, RecordsStayRecords, PTL

(* In every reachable world, blocking contested evidence is reported.       *)
THEOREM AlwaysReported == World => []ContestedWins
  <1>1. WorldTypeOK => ContestedWins
    BY ContestedIsReported, TriedType DEF WorldTypeOK, ContestedWins
  <1>2. QED
    BY <1>1, RecordsStayRecords, PTL

-----------------------------------------------------------------------------

(* Rows are marked accepted only once they are in the ledger. *)
AcceptedIsKnown == \A c \in Conditions : accepted[c] \subseteq 1..Len(rows[c])

(* What was read of the references of a decision was accepted evidence. *)
SeenIsBacked(d, seen) ==
  \A k \in Keys(d) : seen[k] # NoReference => seen[k].row \in accepted[k]

(* What an actor holds between two store calls. *)
HeldState(s) ==
  /\ s.op = "mark" => /\ s.todo \subseteq 1..Len(rows[s.cond])
                      /\ s.row \in s.todo \cup accepted[s.cond]
  /\ s.op = "reference" => s.row \in accepted[s.cond]
  /\ s.op = "read" => SeenIsBacked(s.decision, s.seen)
  /\ s.op \in {"save", "journal"} => ProvenAllow(s.evaluation)
  /\ s.op = "stale" => s.ref.row \in accepted[s.cond]

IInv ==
  /\ TypeOK
  /\ AcceptedIsKnown
  /\ BackedReference
  /\ AllowsAreProven
  /\ \A a \in Actors : HeldState(actor[a])

-----------------------------------------------------------------------------
(* The verdict is exact, and the decision state a state.                    *)
LEMMA Exactness ==
  ASSUME NEW specs \in SUBSET Specs,
         NEW records \in [Conditions -> Records \cup {NoCurrent}]
  PROVE  /\ GateIsExact(specs, records)
         /\ DecisionState(specs, records) \in States
  <1>1. CASE BlockingStates(specs, records) = {}
    BY <1>1, GateExactness DEF DecisionState, States
  <1>2. CASE BlockingStates(specs, records) # {}
    BY <1>2, GateExactness, DecisionStateIsWorst
  <1>3. QED
    BY <1>1, <1>2

(* The components of an evaluation. *)
LEMMA EvaluationType ==
  ASSUME NEW e \in Evaluations
  PROVE  /\ e.decision \in Decisions
         /\ e.action \in {"allow", "block"}
         /\ \A k \in Keys(e.decision) : e.seen[k] \in References \cup {NoReference}
  BY DEF Evaluations, Seen

(* A spec of a decision, its key and the keys of the decision. *)
LEMMA SpecKey ==
  ASSUME NEW d \in Decisions, NEW s \in ConditionsOf[d]
  PROVE  /\ s \in Specs
         /\ s.key \in Conditions
         /\ s.key \in Keys(d)
  BY ConditionsOfType DEF Specs, Keys

(* Proof outlives any step that only adds rows and accepted marks. *)
LEMMA ProofIsStable ==
  ASSUME NEW e \in Evaluations, ProvenAllow(e), AcceptedIsKnown,
         \A c \in Conditions : accepted[c] \subseteq accepted'[c],
         \A c \in Conditions : \A n \in 1..Len(rows[c]) : rows'[c][n] = rows[c][n]
  PROVE  ProvenAllow(e)'
  <1> SUFFICES ASSUME e.action = "allow",
                      NEW s \in ConditionsOf[e.decision], MayBlock(s)
               PROVE  ProvenBy(s, e.seen[s.key])'
    BY DEF ProvenAllow
  <1>1. s.key \in Conditions
    BY EvaluationType, SpecKey
  <1>2. ProvenBy(s, e.seen[s.key])
    BY DEF ProvenAllow
  <1>3. CASE e.seen[s.key] # NoReference
    <2>1. e.seen[s.key].row \in accepted[s.key]
      BY <1>2, <1>3 DEF ProvenBy
    <2>2. e.seen[s.key].row \in 1..Len(rows[s.key])
      BY <1>1, <2>1 DEF AcceptedIsKnown
    <2>3. QED
      BY <1>1, <1>2, <1>3, <2>1, <2>2 DEF ProvenBy
  <1>4. CASE e.seen[s.key] = NoReference
    BY <1>2, <1>4 DEF ProvenBy, Proven, UnitError
  <1>5. QED
    BY <1>3, <1>4

(* What evaluate_standing computes from accepted evidence is proven. *)
LEMMA EvaluationIsProven ==
  ASSUME TypeOK, AcceptedIsKnown,
         NEW d \in Decisions, NEW seen \in [Keys(d) -> Seen], SeenIsBacked(d, seen)
  PROVE  EvaluationOf(d, seen) \in Evaluations /\ ProvenAllow(EvaluationOf(d, seen))
  <1> DEFINE found == CurrentRecords(d, seen)
  <1>1. Keys(d) \subseteq Conditions
    BY SpecKey DEF Keys
  <1>2. ASSUME NEW c \in Keys(d), seen[c] # NoReference
        PROVE  /\ seen[c].row \in accepted[c]
               /\ rows[c][seen[c].row] \in Values
               /\ found[c] = [value |-> rows[c][seen[c].row], unit |-> NoUnit,
                                fresh |-> seen[c].fresh, contested |-> FALSE]
               /\ found[c] \in Records
    <2>1. /\ c \in Conditions
          /\ seen[c] \in References
          /\ seen[c].row \in accepted[c]
      BY <1>1, <1>2 DEF Seen, SeenIsBacked
    <2>2. rows[c] \in Seq(Values) /\ seen[c].row \in 1..Len(rows[c])
      BY <2>1 DEF TypeOK, AcceptedIsKnown
    <2>3. rows[c][seen[c].row] \in Values
      BY <2>2
    <2>4. found[c] = [value |-> rows[c][seen[c].row], unit |-> NoUnit,
                        fresh |-> seen[c].fresh, contested |-> FALSE]
      BY <1>2, <2>1 DEF CurrentRecords, Current, RecordOf
    <2>5. seen[c].fresh \in BOOLEAN
      BY <2>1 DEF References
    <2>6. QED
      BY <2>1, <2>3, <2>4, <2>5 DEF Records
  <1>3. \A c \in Conditions : found[c] \in Records \cup {NoCurrent}
    <2>1. \A c \in Conditions : Plain[c] \in Records \cup {NoCurrent}
      BY PlainType
    <2>2. QED
      BY <1>2, <2>1 DEF CurrentRecords, Current
  <1>4. found \in [Conditions -> Records \cup {NoCurrent}]
    BY <1>3 DEF CurrentRecords
  <1>5. ConditionsOf[d] \in SUBSET Specs
    BY ConditionsOfType
  <1>6. DecisionState(ConditionsOf[d], found) \in States
    BY <1>4, <1>5, Exactness
  <1>7. EvaluationOf(d, seen) \in Evaluations
    <2>1. Verdict(ConditionsOf[d], found) \in {"allow", "block"}
      BY DEF Verdict
    <2>2. QED
      BY <1>6, <2>1 DEF EvaluationOf, Evaluations
  <1>8. ProvenAllow(EvaluationOf(d, seen))
    <2> SUFFICES ASSUME Verdict(ConditionsOf[d], found) = "allow",
                        NEW s \in ConditionsOf[d], MayBlock(s)
                 PROVE  ProvenBy(s, seen[s.key])
      BY SpecKey DEF ProvenAllow, EvaluationOf
    <2>1. GateIsExact(ConditionsOf[d], found)
      BY <1>4, <1>5, Exactness
    <2>2. s.key \in Keys(d) /\ s.key \in Conditions
      BY SpecKey
    <2>3. Proven(s, found[s.key])
      BY <2>1, <2>2 DEF GateIsExact
    <2>4. CASE seen[s.key] = NoReference
      BY <2>2, <2>3, <2>4 DEF ProvenBy, CurrentRecords, Current
    <2>5. CASE seen[s.key] # NoReference
      <3>1. /\ seen[s.key].row \in accepted[s.key]
            /\ found[s.key] = [value |-> rows[s.key][seen[s.key].row], unit |-> NoUnit,
                                 fresh |-> seen[s.key].fresh, contested |-> FALSE]
        BY <1>2, <2>2, <2>5
      <3>2. QED
        BY <2>3, <2>5, <3>1 DEF Proven, ProvenBy
    <2>6. QED
      BY <2>4, <2>5
  <1>9. QED
    BY <1>7, <1>8

(* An event of the journal after an append is an old one or the new one. *)
LEMMA AppendedEvents ==
  ASSUME TypeOK, NEW e, journal' = Append(journal, e)
  PROVE  \A f \in Events' : f \in Events \/ f = e
  BY DEF TypeOK, Events

(* An actor in the middle of reading the references of a dependent. *)
LEMMA ReadStateFields ==
  ASSUME NEW s
  PROVE  s \in ReadStates <=>
           \E d \in Decisions :
             s \in [op : {"read"}, cond : Conditions, row : RowNumbers, todo : SUBSET Decisions,
                    decision : {d}, left : SUBSET Keys(d), seen : [Keys(d) -> Seen]]
  BY DEF ReadStates

(* What an actor in each kind of state holds, by type. *)
LEMMA StateFields ==
  ASSUME NEW s \in ActorStates
  PROVE  /\ s.op = "mark" => /\ s.cond \in Conditions
                             /\ s.row \in RowNumbers
                             /\ s.todo \in SUBSET RowNumbers
         /\ s.op = "reference" => s.cond \in Conditions /\ s.row \in RowNumbers
         /\ s.op \in {"dispatch", "read", "save", "journal"} =>
              /\ s.cond \in Conditions
              /\ s.row \in RowNumbers
              /\ s.todo \in SUBSET Decisions
         /\ s.op = "read" => /\ s.decision \in Decisions
                             /\ s.left \in SUBSET Keys(s.decision)
                             /\ s.seen \in [Keys(s.decision) -> Seen]
         /\ s.op \in {"save", "journal"} => s.evaluation \in Evaluations
         /\ s.op = "stale" => s.cond \in Conditions /\ s.ref \in References
         /\ s.op = "announce" => s.cond \in Conditions
  <1>1. CASE s \in ReadStates
    <2>1. PICK d \in Decisions :
            s \in [op : {"read"}, cond : Conditions, row : RowNumbers, todo : SUBSET Decisions,
                   decision : {d}, left : SUBSET Keys(d), seen : [Keys(d) -> Seen]]
      BY <1>1, ReadStateFields
    <2>2. QED
      BY <2>1
  <1>2. CASE s \notin ReadStates
    BY <1>2 DEF ActorStates, Idle
  <1>3. QED
    BY <1>1, <1>2

LEMMA ActorFields ==
  ASSUME TypeOK, NEW a \in Actors
  PROVE  /\ actor[a] \in ActorStates
         /\ actor[a].op = "mark" =>
              /\ actor[a].cond \in Conditions
              /\ actor[a].row \in RowNumbers
              /\ actor[a].todo \in SUBSET RowNumbers
         /\ actor[a].op = "reference" =>
              actor[a].cond \in Conditions /\ actor[a].row \in RowNumbers
         /\ actor[a].op \in {"dispatch", "read", "save", "journal"} =>
              /\ actor[a].cond \in Conditions
              /\ actor[a].row \in RowNumbers
              /\ actor[a].todo \in SUBSET Decisions
         /\ actor[a].op = "read" =>
              /\ actor[a].decision \in Decisions
              /\ actor[a].left \in SUBSET Keys(actor[a].decision)
              /\ actor[a].seen \in [Keys(actor[a].decision) -> Seen]
         /\ actor[a].op \in {"save", "journal"} => actor[a].evaluation \in Evaluations
         /\ actor[a].op = "stale" =>
              actor[a].cond \in Conditions /\ actor[a].ref \in References
         /\ actor[a].op = "announce" => actor[a].cond \in Conditions
  <1>1. actor[a] \in ActorStates
    BY DEF TypeOK
  <1>2. QED
    BY <1>1, StateFields

(* The states an actor moves to are actor states. *)
LEMMA StateTypes ==
  /\ Idle \in ActorStates
  /\ \A c \in Conditions, n \in RowNumbers :
       /\ Referencing(c, n) \in ActorStates
       /\ \A T \in SUBSET RowNumbers : Marking(c, n, T) \in ActorStates
       /\ \A T \in SUBSET Decisions :
            /\ Dispatching(c, n, T) \in ActorStates
            /\ \A d \in Decisions : \A L \in SUBSET Keys(d) :
                 \A seen \in [Keys(d) -> Seen] : Reading(c, n, T, d, L, seen) \in ActorStates
            /\ \A e \in Evaluations : /\ Saving(c, n, T, e) \in ActorStates
                                      /\ Journaling(c, n, T, e) \in ActorStates
  /\ \A c \in Conditions : Announcing(c) \in ActorStates
  /\ \A c \in Conditions, r \in References : Staling(c, r) \in ActorStates
  <1>1. ASSUME NEW c \in Conditions, NEW n \in RowNumbers, NEW T \in SUBSET Decisions,
               NEW d \in Decisions, NEW L \in SUBSET Keys(d), NEW seen \in [Keys(d) -> Seen]
        PROVE  Reading(c, n, T, d, L, seen) \in ActorStates
    <2>1. Reading(c, n, T, d, L, seen) \in
            [op : {"read"}, cond : Conditions, row : RowNumbers, todo : SUBSET Decisions,
             decision : {d}, left : SUBSET Keys(d), seen : [Keys(d) -> Seen]]
      BY DEF Reading
    <2>2. QED
      BY <2>1, ReadStateFields DEF ActorStates
  <1>2. \A c \in Conditions, n \in RowNumbers :
          /\ Referencing(c, n) \in ActorStates
          /\ \A T \in SUBSET RowNumbers : Marking(c, n, T) \in ActorStates
          /\ \A T \in SUBSET Decisions :
               /\ Dispatching(c, n, T) \in ActorStates
               /\ \A e \in Evaluations : /\ Saving(c, n, T, e) \in ActorStates
                                         /\ Journaling(c, n, T, e) \in ActorStates
    BY DEF ActorStates, Marking, Referencing, Dispatching, Saving, Journaling
  <1>3. /\ Idle \in ActorStates
        /\ \A c \in Conditions : Announcing(c) \in ActorStates
        /\ \A c \in Conditions, r \in References : Staling(c, r) \in ActorStates
    BY DEF ActorStates, Staling, Announcing
  <1>4. QED
    BY <1>1, <1>2, <1>3

(* Type correctness is preserved by every step; the evaluator's result      *)
(* needs the references to point into the ledger, hence IInv.               *)
LEMMA TypeStep ==
  ASSUME IInv, Next
  PROVE  TypeOK'
  <1> USE DEF IInv
  <1>1. ASSUME NEW c \in Conditions, NEW v \in Values, Deliver(c, v)
        PROVE  TypeOK'
    <2>1. rows[c] \in Seq(Values) /\ Len(rows[c]) < MaxRows
      BY <1>1 DEF Deliver, TypeOK
    <2>2. /\ Append(rows[c], v) \in Seq(Values)
          /\ Len(Append(rows[c], v)) <= MaxRows
      BY <2>1, BoundsType
    <2>3. rows' = [rows EXCEPT ![c] = Append(rows[c], v)]
      BY <1>1 DEF Deliver
    <2>4. QED
      BY <1>1, <2>2, <2>3 DEF Deliver, TypeOK
  <1>2. ASSUME NEW a \in Actors, NEW c \in Conditions, StartPromotion(a, c)
        PROVE  TypeOK'
    <2>1. Len(rows[c]) \in RowNumbers /\ 1..Len(rows[c]) \in SUBSET RowNumbers
      BY <1>2, BoundsType DEF StartPromotion, TypeOK, RowNumbers
    <2>2. Marking(c, Len(rows[c]), 1..Len(rows[c])) \in ActorStates
      BY <2>1, StateTypes
    <2>3. runs' \in [Actors -> 0..MaxRuns]
      BY <1>2, BoundsType DEF StartPromotion, TypeOK
    <2>4. QED
      BY <1>2, <2>2, <2>3 DEF StartPromotion, Becomes, TypeOK
  <1>3. ASSUME NEW a \in Actors, NEW c \in Conditions, StartStale(a, c)
        PROVE  TypeOK'
    <2>1. Staling(c, reference[c]) \in ActorStates
      BY <1>3, StateTypes DEF StartStale, TypeOK, Seen
    <2>2. runs' \in [Actors -> 0..MaxRuns]
      BY <1>3, BoundsType DEF StartStale, TypeOK
    <2>3. QED
      BY <1>3, <2>1, <2>2 DEF StartStale, Becomes, TypeOK
  <1>4. ASSUME NEW a \in Actors, MarkRow(a)
        PROVE  TypeOK'
    <2>1. PICK n \in actor[a].todo :
            /\ accepted' = [accepted EXCEPT ![actor[a].cond] = @ \cup {n}]
            /\ Becomes(a, IF actor[a].todo \ {n} = {}
                          THEN Referencing(actor[a].cond, actor[a].row)
                          ELSE Marking(actor[a].cond, actor[a].row, actor[a].todo \ {n}))
      BY <1>4 DEF MarkRow
    <2>2. actor[a].op = "mark"
      BY <1>4 DEF MarkRow
    <2>3. actor' \in [Actors -> ActorStates]
      BY <2>1, <2>2, ActorFields, StateTypes DEF Becomes, TypeOK
    <2>4. accepted' \in [Conditions -> SUBSET RowNumbers]
      BY <2>1, <2>2, ActorFields DEF TypeOK
    <2>5. QED
      BY <1>4, <2>3, <2>4 DEF MarkRow, TypeOK
  <1>5. ASSUME NEW a \in Actors, SaveReference(a)
        PROVE  TypeOK'
    <2>1. actor' \in [Actors -> ActorStates]
      BY <1>5, ActorFields, StateTypes DEF SaveReference, Becomes, Dependents, TypeOK
    <2>2. reference' \in [Conditions -> Seen]
      BY <1>5, ActorFields DEF SaveReference, TypeOK, Seen, References
    <2>3. QED
      BY <1>5, <2>1, <2>2 DEF SaveReference, TypeOK
  <1>6. ASSUME NEW a \in Actors, VisitDependent(a)
        PROVE  TypeOK'
    <2>1. PICK d \in actor[a].todo :
            Becomes(a, Reading(actor[a].cond, actor[a].row, actor[a].todo \ {d},
                               d, Keys(d), [k \in Keys(d) |-> NoReference]))
      BY <1>6 DEF VisitDependent
    <2>2. d \in Decisions /\ [k \in Keys(d) |-> NoReference] \in [Keys(d) -> Seen]
      BY <1>6, ActorFields DEF VisitDependent, Seen
    <2>3. Reading(actor[a].cond, actor[a].row, actor[a].todo \ {d},
                  d, Keys(d), [k \in Keys(d) |-> NoReference]) \in ActorStates
      BY <1>6, <2>2, ActorFields, StateTypes DEF VisitDependent
    <2>4. QED
      BY <1>6, <2>1, <2>3 DEF VisitDependent, Becomes, TypeOK
  <1>14. ASSUME NEW a \in Actors, ReadReference(a)
         PROVE  TypeOK'
    <2> DEFINE s == actor[a]
    <2>1. PICK k \in s.left :
            Becomes(a, Reading(s.cond, s.row, s.todo, s.decision, s.left \ {k},
                               [s.seen EXCEPT ![k] = reference[k]]))
      BY <1>14 DEF ReadReference
    <2>2. /\ s.decision \in Decisions
          /\ k \in Keys(s.decision)
          /\ s.left \ {k} \in SUBSET Keys(s.decision)
          /\ s.seen \in [Keys(s.decision) -> Seen]
          /\ s.cond \in Conditions
          /\ s.row \in RowNumbers
          /\ s.todo \in SUBSET Decisions
      BY <1>14, <2>1, ActorFields DEF ReadReference
    <2>3. reference[k] \in Seen
      BY <2>2, SpecKey DEF Keys, TypeOK
    <2>4. [s.seen EXCEPT ![k] = reference[k]] \in [Keys(s.decision) -> Seen]
      BY <2>2, <2>3
    <2>5. Reading(s.cond, s.row, s.todo, s.decision, s.left \ {k},
                  [s.seen EXCEPT ![k] = reference[k]]) \in ActorStates
      BY <2>2, <2>4, StateTypes
    <2>6. QED
      BY <1>14, <2>1, <2>5 DEF ReadReference, Becomes, TypeOK
  <1>15. ASSUME NEW a \in Actors, CompareStanding(a)
         PROVE  TypeOK'
    <2> DEFINE s == actor[a]
               e == EvaluationOf(s.decision, s.seen)
    <2>1. e \in Evaluations
      BY <1>15, ActorFields, EvaluationIsProven DEF CompareStanding, HeldState
    <2>2. /\ Dispatching(s.cond, s.row, s.todo) \in ActorStates
          /\ Saving(s.cond, s.row, s.todo, e) \in ActorStates
      BY <1>15, <2>1, ActorFields, StateTypes DEF CompareStanding
    <2>3. QED
      BY <1>15, <2>2 DEF CompareStanding, Becomes, TypeOK
  <1>7. ASSUME NEW a \in Actors, SaveStanding(a)
        PROVE  TypeOK'
    <2>1. actor' \in [Actors -> ActorStates]
      BY <1>7, ActorFields, StateTypes DEF SaveStanding, Becomes, TypeOK
    <2>2. standing' \in [Decisions -> Evaluations \cup {NoStanding}]
      BY <1>7, ActorFields, EvaluationType DEF SaveStanding, TypeOK
    <2>3. QED
      BY <1>7, <2>1, <2>2 DEF SaveStanding, TypeOK
  <1>8. ASSUME NEW a \in Actors, WriteJournal(a)
        PROVE  TypeOK'
    <2>1. actor' \in [Actors -> ActorStates]
      BY <1>8, ActorFields, StateTypes DEF WriteJournal, Becomes, TypeOK
    <2>2. StandingEvent(actor[a].evaluation) \in EventSet
      BY <1>8, ActorFields DEF WriteJournal, StandingEvent, EventSet
    <2>3. QED
      BY <1>8, <2>1, <2>2 DEF WriteJournal, TypeOK
  <1>9. ASSUME NEW a \in Actors, FinishPromotion(a)
        PROVE  TypeOK'
    <2>1. PromotedEvent(actor[a].cond, actor[a].row) \in EventSet
      BY <1>9, ActorFields DEF FinishPromotion, PromotedEvent, EventSet
    <2>2. QED
      BY <1>9, <2>1, StateTypes DEF FinishPromotion, Becomes, TypeOK
  <1>10. ASSUME NEW a \in Actors, SaveStale(a)
         PROVE  TypeOK'
    <2>1. actor' \in [Actors -> ActorStates]
      BY <1>10, ActorFields, StateTypes DEF SaveStale, Becomes, TypeOK
    <2>2. reference' \in [Conditions -> Seen]
      BY <1>10, ActorFields DEF SaveStale, TypeOK, Seen, References
    <2>3. QED
      BY <1>10, <2>1, <2>2 DEF SaveStale, TypeOK
  <1>11. ASSUME NEW a \in Actors, FinishStale(a)
         PROVE  TypeOK'
    <2>1. StaleEvent(actor[a].cond) \in EventSet
      BY <1>11, ActorFields DEF FinishStale, StaleEvent, EventSet
    <2>2. QED
      BY <1>11, <2>1, StateTypes DEF FinishStale, Becomes, TypeOK
  <1>12. ASSUME NEW a \in Actors, Crash(a)
         PROVE  TypeOK'
    BY <1>12, StateTypes DEF Crash, Becomes, TypeOK
  <1>16. ASSUME NEW c \in Conditions, FallDue(c)
         PROVE  TypeOK'
    <2>1. [row |-> reference[c].row, fresh |-> FALSE] \in Seen
      BY <1>16 DEF FallDue, TypeOK, Seen, References
    <2>2. reference' \in [Conditions -> Seen]
      BY <1>16, <2>1 DEF FallDue, TypeOK
    <2>3. QED
      BY <1>16, <2>2 DEF FallDue, TypeOK
  <1>13. QED
    BY <1>1, <1>2, <1>3, <1>4, <1>5, <1>6, <1>7, <1>8, <1>9, <1>10, <1>11, <1>12,
       <1>14, <1>15, <1>16 DEF Next, Step

-----------------------------------------------------------------------------
(* No step unmarks a row, and none rewrites or removes one. *)
Grows ==
  \A c \in Conditions :
    /\ accepted[c] \subseteq accepted'[c]
    /\ Len(rows[c]) <= Len(rows'[c])
    /\ \A n \in 1..Len(rows[c]) : rows'[c][n] = rows[c][n]

LEMMA Monotone ==
  ASSUME TypeOK, Next
  PROVE  Grows
  <1>1. ASSUME NEW c \in Conditions, NEW v \in Values, Deliver(c, v)
        PROVE  Grows
    <2>1. rows[c] \in Seq(Values)
      BY DEF TypeOK
    <2>2. /\ Len(Append(rows[c], v)) = Len(rows[c]) + 1
          /\ \A n \in 1..Len(rows[c]) : Append(rows[c], v)[n] = rows[c][n]
      BY <2>1
    <2>3. \A b \in Conditions : rows'[b] = IF b = c THEN Append(rows[c], v) ELSE rows[b]
      BY <1>1 DEF Deliver, TypeOK
    <2>4. Len(rows[c]) \in Nat /\ \A b \in Conditions : Len(rows[b]) \in Nat
      BY DEF TypeOK
    <2>5. QED
      BY <1>1, <2>2, <2>3, <2>4 DEF Deliver, Grows
  <1>2. ASSUME NEW a \in Actors, MarkRow(a)
        PROVE  Grows
    <2>1. \A b \in Conditions : accepted[b] \subseteq accepted'[b]
      BY <1>2 DEF MarkRow, TypeOK
    <2>2. rows' = rows /\ \A b \in Conditions : Len(rows[b]) \in Nat
      BY <1>2 DEF MarkRow, TypeOK
    <2>3. QED
      BY <2>1, <2>2 DEF Grows
  <1>3. ASSUME UNCHANGED <<rows, accepted>>
        PROVE  Grows
    <2>1. \A b \in Conditions : Len(rows[b]) \in Nat
      BY DEF TypeOK
    <2>2. QED
      BY <1>3, <2>1 DEF Grows
  <1>4. QED
    BY <1>1, <1>2, <1>3 DEF Next, Step, StartPromotion, StartStale, SaveReference,
       VisitDependent, ReadReference, CompareStanding, SaveStanding, WriteJournal, FinishPromotion, SaveStale,
       FinishStale, FallDue, Crash

(* Only rows the actor was handed, hence recorded ones, are marked. *)
LEMMA AcceptedStep ==
  ASSUME IInv, Next
  PROVE  AcceptedIsKnown'
  <1> USE DEF IInv
  <1>1. Grows
    BY Monotone
  <1>2. \A c \in Conditions : /\ Len(rows[c]) \in Nat
                              /\ Len(rows'[c]) \in Nat
                              /\ accepted[c] \subseteq 1..Len(rows'[c])
    BY <1>1, TypeStep DEF Grows, AcceptedIsKnown, TypeOK
  <1>3. ASSUME NEW a \in Actors, MarkRow(a)
        PROVE  AcceptedIsKnown'
    <2>1. PICK n \in actor[a].todo :
            accepted' = [accepted EXCEPT ![actor[a].cond] = @ \cup {n}]
      BY <1>3 DEF MarkRow
    <2>2. actor[a].cond \in Conditions /\ n \in 1..Len(rows[actor[a].cond])
      BY <1>3, ActorFields DEF MarkRow, HeldState
    <2>3. n \in 1..Len(rows'[actor[a].cond])
      BY <1>1, <1>2, <2>2 DEF Grows
    <2>4. QED
      BY <1>2, <2>1, <2>2, <2>3 DEF AcceptedIsKnown, TypeOK
  <1>4. ASSUME accepted' = accepted
        PROVE  AcceptedIsKnown'
    BY <1>2, <1>4 DEF AcceptedIsKnown
  <1>5. QED
    BY <1>3, <1>4 DEF Next, Step, Deliver, StartPromotion, StartStale, SaveReference,
       VisitDependent, ReadReference, CompareStanding, SaveStanding, WriteJournal, FinishPromotion, SaveStale,
       FinishStale, FallDue, Crash

(* A reference is written by save_condition_reference, after the marking,   *)
(* or by mark_condition_stale, from a reference it has read.                *)
LEMMA ReferenceStep ==
  ASSUME IInv, Next
  PROVE  BackedReference'
  <1> USE DEF IInv
  <1>1. Grows
    BY Monotone
  <1>2. ASSUME NEW a \in Actors, SaveReference(a)
        PROVE  BackedReference'
    <2>1. /\ actor[a].cond \in Conditions
          /\ actor[a].row \in accepted[actor[a].cond]
      BY <1>2, ActorFields DEF SaveReference, HeldState
    <2>2. reference' = [reference EXCEPT ![actor[a].cond] = [row |-> actor[a].row, fresh |-> TRUE]]
      BY <1>2 DEF SaveReference
    <2>3. QED
      BY <1>1, <2>1, <2>2 DEF BackedReference, Grows, TypeOK
  <1>3. ASSUME NEW a \in Actors, SaveStale(a)
        PROVE  BackedReference'
    <2>1. /\ actor[a].cond \in Conditions
          /\ actor[a].ref.row \in accepted[actor[a].cond]
      BY <1>3, ActorFields DEF SaveStale, HeldState
    <2>2. reference' = [reference EXCEPT ![actor[a].cond] =
                          [row |-> actor[a].ref.row, fresh |-> FALSE]]
      BY <1>3 DEF SaveStale
    <2>3. QED
      BY <1>1, <2>1, <2>2 DEF BackedReference, Grows, TypeOK
  <1>4. ASSUME reference' = reference
        PROVE  BackedReference'
    BY <1>1, <1>4 DEF BackedReference, Grows
  <1>6. ASSUME NEW c \in Conditions, FallDue(c)
        PROVE  BackedReference'
    BY <1>1, <1>6 DEF FallDue, BackedReference, Grows, TypeOK
  <1>5. QED
    BY <1>2, <1>3, <1>4, <1>6 DEF Next, Step, Deliver, StartPromotion, StartStale, MarkRow,
       VisitDependent, ReadReference, CompareStanding, SaveStanding, WriteJournal, FinishPromotion, FinishStale, Crash

(* A proven evaluation stays proven across a step. *)
LEMMA ProofSurvives ==
  ASSUME IInv, Next
  PROVE  \A e \in Evaluations : ProvenAllow(e) => ProvenAllow(e)'
  <1>1. Grows
    BY Monotone DEF IInv
  <1>2. QED
    BY <1>1, ProofIsStable DEF Grows, IInv

(* Hot standing and journal entries are evaluations the actor holds. *)
LEMMA AllowsStep ==
  ASSUME IInv, Next
  PROVE  AllowsAreProven'
  <1> USE DEF IInv
  <1>1. \A e \in Evaluations : ProvenAllow(e) => ProvenAllow(e)'
    BY ProofSurvives
  <1>2. \A d \in Decisions : standing'[d] # NoStanding =>
          \E e \in Evaluations : e = standing'[d] /\ ProvenAllow(e)
    <2>1. ASSUME NEW a \in Actors, SaveStanding(a)
          PROVE  \A d \in Decisions : standing'[d] # NoStanding =>
                   standing'[d] \in Evaluations /\ ProvenAllow(standing'[d])
      <3>1. /\ actor[a].evaluation \in Evaluations
            /\ ProvenAllow(actor[a].evaluation)
            /\ standing' = [standing EXCEPT ![actor[a].evaluation.decision] = actor[a].evaluation]
        BY <2>1, ActorFields DEF SaveStanding, HeldState
      <3>2. \A d \in Decisions : standing'[d] = standing[d] \/ standing'[d] = actor[a].evaluation
        BY <3>1 DEF TypeOK
      <3>3. \A d \in Decisions : standing[d] # NoStanding =>
              standing[d] \in Evaluations /\ ProvenAllow(standing[d])
        BY DEF AllowsAreProven, TypeOK
      <3>4. QED
        BY <3>1, <3>2, <3>3
    <2>2. ASSUME standing' = standing
          PROVE  \A d \in Decisions : standing'[d] # NoStanding =>
                   standing'[d] \in Evaluations /\ ProvenAllow(standing'[d])
      BY <2>2 DEF AllowsAreProven, TypeOK
    <2>3. QED
      BY <2>1, <2>2 DEF Next, Step, Deliver, StartPromotion, StartStale, MarkRow,
         SaveReference, VisitDependent, ReadReference, CompareStanding, WriteJournal, FinishPromotion, SaveStale,
         FinishStale, FallDue, Crash
  <1>3. \A f \in Events' : f.event = "standing" =>
          \E e \in Evaluations : e = f.evaluation /\ ProvenAllow(e)
    <2>1. \A f \in Events : f.event = "standing" =>
            f.evaluation \in Evaluations /\ ProvenAllow(f.evaluation)
      <3>1. \A f \in Events : f \in EventSet
        BY DEF Events, TypeOK
      <3>2. QED
        BY <3>1 DEF AllowsAreProven, EventSet
    <2>2. ASSUME NEW a \in Actors, WriteJournal(a)
          PROVE  \A f \in Events' : f.event = "standing" =>
                   f.evaluation \in Evaluations /\ ProvenAllow(f.evaluation)
      <3>1. actor[a].evaluation \in Evaluations /\ ProvenAllow(actor[a].evaluation)
        BY <2>2, ActorFields DEF WriteJournal, HeldState
      <3>2. \A f \in Events' : f \in Events \/ f = StandingEvent(actor[a].evaluation)
        BY <2>2, AppendedEvents DEF WriteJournal
      <3>3. QED
        BY <2>1, <3>1, <3>2 DEF StandingEvent
    <2>3. ASSUME NEW a \in Actors, FinishPromotion(a) \/ FinishStale(a)
          PROVE  \A f \in Events' : f.event = "standing" =>
                   f.evaluation \in Evaluations /\ ProvenAllow(f.evaluation)
      <3>1. \A f \in Events' : \/ f \in Events
                               \/ f = PromotedEvent(actor[a].cond, actor[a].row)
                               \/ f = StaleEvent(actor[a].cond)
        BY <2>3, AppendedEvents DEF FinishPromotion, FinishStale
      <3>2. QED
        BY <2>1, <3>1 DEF PromotedEvent, StaleEvent
    <2>4. ASSUME journal' = journal
          PROVE  \A f \in Events' : f.event = "standing" =>
                   f.evaluation \in Evaluations /\ ProvenAllow(f.evaluation)
      BY <2>1, <2>4 DEF Events
    <2>5. QED
      BY <2>2, <2>3, <2>4 DEF Next, Step, Deliver, StartPromotion, StartStale, MarkRow,
         SaveReference, VisitDependent, ReadReference, CompareStanding, SaveStanding, SaveStale, FallDue, Crash
  <1>4. ASSUME NEW d \in Decisions, standing'[d] # NoStanding
        PROVE  ProvenAllow(standing[d])'
    <2>1. PICK e \in Evaluations : e = standing'[d] /\ ProvenAllow(e)
      BY <1>2, <1>4
    <2>2. ProvenAllow(e)'
      BY <1>1, <2>1
    <2>3. QED
      BY <2>1, <2>2 DEF ProvenAllow
  <1>5. ASSUME NEW f \in Events', f.event = "standing"
        PROVE  ProvenAllow(f.evaluation)'
    <2>1. PICK e \in Evaluations : e = f.evaluation /\ ProvenAllow(e)
      BY <1>3, <1>5
    <2>2. ProvenAllow(e)'
      BY <1>1, <2>1
    <2>3. QED
      BY <2>1, <2>2 DEF ProvenAllow
  <1>6. QED
    BY <1>4, <1>5 DEF AllowsAreProven

(* What an actor at rest holds, across a step of another. *)
LEMMA HeldIsStable ==
  ASSUME IInv, Next
  PROVE  \A s \in ActorStates : HeldState(s) => HeldState(s)'
  <1> USE DEF IInv
  <1>1. Grows
    BY Monotone
  <1>2. \A e \in Evaluations : ProvenAllow(e) => ProvenAllow(e)'
    BY ProofSurvives
  <1> SUFFICES ASSUME NEW s \in ActorStates, HeldState(s)
               PROVE  HeldState(s)'
    OBVIOUS
  <1>3. CASE s.op = "mark"
    <2>1. s.cond \in Conditions
      BY <1>3, StateFields
    <2>2. Len(rows[s.cond]) \in Nat /\ Len(rows'[s.cond]) \in Nat
      BY <2>1, TypeStep DEF TypeOK
    <2>3. s.todo \subseteq 1..Len(rows'[s.cond])
      BY <1>1, <1>3, <2>1, <2>2 DEF Grows, HeldState
    <2>4. QED
      BY <1>1, <1>3, <2>1, <2>3 DEF Grows, HeldState
  <1>4. CASE s.op = "reference" \/ s.op = "stale"
    <2>1. s.cond \in Conditions
      BY <1>4, StateFields
    <2>2. QED
      BY <1>1, <1>4, <2>1 DEF Grows, HeldState
  <1>5. CASE s.op \in {"save", "journal"}
    <2>1. s.evaluation \in Evaluations
      BY <1>5, StateFields
    <2>2. QED
      BY <1>2, <1>5, <2>1 DEF HeldState
  <1>6. CASE s.op = "read"
    <2>1. s.decision \in Decisions /\ Keys(s.decision) \subseteq Conditions
      BY <1>6, StateFields, SpecKey DEF Keys
    <2>2. QED
      BY <1>1, <1>6, <2>1 DEF Grows, HeldState, SeenIsBacked
  <1>7. CASE s.op \notin {"mark", "reference", "stale", "read", "save", "journal"}
    BY <1>7 DEF HeldState
  <1>8. QED
    BY <1>3, <1>4, <1>5, <1>6, <1>7

(* What the actor that moves holds next. *)
LEMMA HeldStep ==
  ASSUME IInv, Next
  PROVE  \A b \in Actors : HeldState(actor[b])'
  <1> USE DEF IInv
  <1>1. \A s \in ActorStates : HeldState(s) => HeldState(s)'
    BY HeldIsStable
  <1>2. \A b \in Actors : actor[b] \in ActorStates /\ actor'[b] \in ActorStates
    BY TypeStep DEF TypeOK
  <1>3. ASSUME NEW a \in Actors, HeldState(actor'[a])
        PROVE  HeldState(actor[a])'
    <2>1. PICK s \in ActorStates : s = actor'[a] /\ HeldState(s)
      BY <1>2, <1>3
    <2>2. HeldState(s)'
      BY <1>1, <2>1
    <2>3. QED
      BY <2>1, <2>2 DEF HeldState
  <1>4. ASSUME NEW a \in Actors, NEW s, Becomes(a, s)
        PROVE  /\ actor'[a] = s
               /\ \A b \in Actors : b # a => actor'[b] = actor[b]
    BY <1>4 DEF Becomes, TypeOK
  <1>5. ASSUME NEW b \in Actors, actor'[b] = actor[b]
        PROVE  HeldState(actor[b])'
    <2>1. PICK s \in ActorStates : s = actor'[b] /\ HeldState(s)
      BY <1>2, <1>5
    <2>2. HeldState(s)'
      BY <1>1, <2>1
    <2>3. QED
      BY <2>1, <2>2 DEF HeldState
  <1>6. ASSUME NEW a \in Actors, NEW s, Becomes(a, s), HeldState(s)
        PROVE  \A b \in Actors : HeldState(actor[b])'
    BY <1>3, <1>4, <1>5, <1>6
  <1>7. ASSUME NEW a \in Actors, NEW c \in Conditions, StartPromotion(a, c)
        PROVE  \A b \in Actors : HeldState(actor[b])'
    <2>1. rows[c] \in Seq(Values) /\ rows[c] # <<>>
      BY <1>7 DEF StartPromotion, TypeOK
    <2>2. Len(rows[c]) \in 1..Len(rows[c])
      BY <2>1
    <2>3. HeldState(Marking(c, Len(rows[c]), 1..Len(rows[c])))
      BY <2>2 DEF HeldState, Marking
    <2>4. QED
      BY <1>6, <1>7, <2>3 DEF StartPromotion
  <1>8. ASSUME NEW a \in Actors, NEW c \in Conditions, StartStale(a, c)
        PROVE  \A b \in Actors : HeldState(actor[b])'
    <2>1. HeldState(Staling(c, reference[c]))
      BY <1>8 DEF StartStale, HeldState, Staling, BackedReference
    <2>2. QED
      BY <1>6, <1>8, <2>1 DEF StartStale
  <1>9. ASSUME NEW a \in Actors, MarkRow(a)
        PROVE  \A b \in Actors : HeldState(actor[b])'
    <2> DEFINE c == actor[a].cond
    <2>1. PICK n \in actor[a].todo :
            /\ accepted' = [accepted EXCEPT ![c] = @ \cup {n}]
            /\ Becomes(a, IF actor[a].todo \ {n} = {}
                          THEN Referencing(c, actor[a].row)
                          ELSE Marking(c, actor[a].row, actor[a].todo \ {n}))
      BY <1>9 DEF MarkRow
    <2>2. /\ c \in Conditions
          /\ actor[a].todo \subseteq 1..Len(rows[c])
          /\ actor[a].row \in actor[a].todo \cup accepted[c]
          /\ rows' = rows
      BY <1>9, ActorFields DEF MarkRow, HeldState
    <2>3. accepted'[c] = accepted[c] \cup {n}
      BY <2>1, <2>2 DEF TypeOK
    <2>4. CASE actor[a].todo \ {n} = {}
      <3>1. actor'[a] = Referencing(c, actor[a].row)
        BY <1>4, <2>1, <2>4
      <3>2. actor[a].row \in accepted'[c]
        BY <2>2, <2>3, <2>4
      <3>3. HeldState(actor[a])'
        BY <3>1, <3>2 DEF HeldState, Referencing
      <3>4. QED
        BY <1>4, <1>5, <2>1, <3>3
    <2>5. CASE actor[a].todo \ {n} # {}
      <3>1. actor'[a] = Marking(c, actor[a].row, actor[a].todo \ {n})
        BY <1>4, <2>1, <2>5
      <3>2. actor[a].row \in (actor[a].todo \ {n}) \cup accepted'[c]
        BY <2>2, <2>3
      <3>3. HeldState(actor[a])'
        BY <2>2, <3>1, <3>2 DEF HeldState, Marking
      <3>4. QED
        BY <1>4, <1>5, <2>1, <3>3
    <2>6. QED
      BY <2>4, <2>5
  <1>10. ASSUME NEW a \in Actors, SaveReference(a)
         PROVE  \A b \in Actors : HeldState(actor[b])'
    BY <1>6, <1>10 DEF SaveReference, HeldState, Dispatching
  <1>11. ASSUME NEW a \in Actors, VisitDependent(a)
         PROVE  \A b \in Actors : HeldState(actor[b])'
    <2>1. PICK d \in actor[a].todo :
            Becomes(a, Reading(actor[a].cond, actor[a].row, actor[a].todo \ {d},
                               d, Keys(d), [k \in Keys(d) |-> NoReference]))
      BY <1>11 DEF VisitDependent
    <2>2. HeldState(Reading(actor[a].cond, actor[a].row, actor[a].todo \ {d},
                            d, Keys(d), [k \in Keys(d) |-> NoReference]))
      BY DEF HeldState, Reading, SeenIsBacked
    <2>3. QED
      BY <1>6, <2>1, <2>2
  <1>18. ASSUME NEW a \in Actors, ReadReference(a)
         PROVE  \A b \in Actors : HeldState(actor[b])'
    <2> DEFINE s == actor[a]
    <2>1. PICK k \in s.left :
            Becomes(a, Reading(s.cond, s.row, s.todo, s.decision, s.left \ {k},
                               [s.seen EXCEPT ![k] = reference[k]]))
      BY <1>18 DEF ReadReference
    <2>2. /\ s.decision \in Decisions
          /\ k \in Keys(s.decision)
          /\ s.seen \in [Keys(s.decision) -> Seen]
          /\ SeenIsBacked(s.decision, s.seen)
      BY <1>18, <2>1, ActorFields DEF ReadReference, HeldState
    <2>3. reference[k] # NoReference => reference[k].row \in accepted[k]
      BY <2>2, SpecKey DEF Keys, BackedReference
    <2>4. SeenIsBacked(s.decision, [s.seen EXCEPT ![k] = reference[k]])
      BY <2>2, <2>3 DEF SeenIsBacked
    <2>5. HeldState(Reading(s.cond, s.row, s.todo, s.decision, s.left \ {k},
                            [s.seen EXCEPT ![k] = reference[k]]))
      BY <2>4 DEF HeldState, Reading
    <2>6. QED
      BY <1>6, <2>1, <2>5
  <1>19. ASSUME NEW a \in Actors, CompareStanding(a)
         PROVE  \A b \in Actors : HeldState(actor[b])'
    <2> DEFINE s == actor[a]
               e == EvaluationOf(s.decision, s.seen)
    <2>1. ProvenAllow(e)
      BY <1>19, ActorFields, EvaluationIsProven DEF CompareStanding, HeldState
    <2>2. /\ HeldState(Dispatching(s.cond, s.row, s.todo))
          /\ HeldState(Saving(s.cond, s.row, s.todo, e))
      BY <2>1 DEF HeldState, Dispatching, Saving
    <2>3. QED
      BY <1>6, <1>19, <2>2 DEF CompareStanding
  <1>12. ASSUME NEW a \in Actors, SaveStanding(a)
         PROVE  \A b \in Actors : HeldState(actor[b])'
    <2>1. HeldState(Journaling(actor[a].cond, actor[a].row, actor[a].todo, actor[a].evaluation))
      BY <1>12 DEF SaveStanding, HeldState, Journaling
    <2>2. QED
      BY <1>6, <1>12, <2>1 DEF SaveStanding
  <1>13. ASSUME NEW a \in Actors, WriteJournal(a)
         PROVE  \A b \in Actors : HeldState(actor[b])'
    <2>1. HeldState(Dispatching(actor[a].cond, actor[a].row, actor[a].todo))
      BY DEF HeldState, Dispatching
    <2>2. QED
      BY <1>6, <1>13, <2>1 DEF WriteJournal
  <1>14. ASSUME NEW a \in Actors, FinishPromotion(a) \/ FinishStale(a) \/ Crash(a)
         PROVE  \A b \in Actors : HeldState(actor[b])'
    BY <1>6, <1>14 DEF FinishPromotion, FinishStale, Crash, HeldState, Idle
  <1>15. ASSUME NEW a \in Actors, SaveStale(a)
         PROVE  \A b \in Actors : HeldState(actor[b])'
    BY <1>6, <1>15 DEF SaveStale, HeldState, Announcing
  <1>16. ASSUME NEW c \in Conditions, NEW v \in Values, Deliver(c, v)
         PROVE  \A b \in Actors : HeldState(actor[b])'
    BY <1>5, <1>16 DEF Deliver
  <1>20. ASSUME NEW c \in Conditions, FallDue(c)
         PROVE  \A b \in Actors : HeldState(actor[b])'
    BY <1>5, <1>20 DEF FallDue
  <1>17. QED
    BY <1>7, <1>8, <1>9, <1>10, <1>11, <1>12, <1>13, <1>14, <1>15, <1>16,
       <1>18, <1>19, <1>20 DEF Next, Step

-----------------------------------------------------------------------------
(* The invariant holds initially ... *)
LEMMA InitHolds ==
  ASSUME Init
  PROVE  IInv
  <1>1. TypeOK
    <2>1. \A c \in Conditions : rows[c] = <<>> /\ Len(rows[c]) = 0
      BY DEF Init
    <2>2. /\ rows \in [Conditions -> Seq(Values)]
          /\ accepted \in [Conditions -> SUBSET RowNumbers]
          /\ reference \in [Conditions -> Seen]
          /\ standing \in [Decisions -> Evaluations \cup {NoStanding}]
          /\ journal \in Seq(EventSet)
          /\ actor \in [Actors -> ActorStates]
          /\ runs \in [Actors -> 0..MaxRuns]
      BY BoundsType, StateTypes DEF Init, Seen
    <2>3. QED
      BY <2>1, <2>2, BoundsType DEF TypeOK
  <1>2. AcceptedIsKnown /\ BackedReference
    BY DEF Init, AcceptedIsKnown, BackedReference
  <1>3. Events = {}
    BY DEF Init, Events
  <1>4. AllowsAreProven
    BY <1>3 DEF Init, AllowsAreProven
  <1>5. \A a \in Actors : HeldState(actor[a])
    BY DEF Init, HeldState, Idle
  <1>6. QED
    BY <1>1, <1>2, <1>4, <1>5 DEF IInv

(* ... and every step, or stutter, preserves it. *)
LEMMA NextHolds ==
  ASSUME IInv, [Next]_vars
  PROVE  IInv'
  <1>1. CASE Next
    BY <1>1, TypeStep, AcceptedStep, ReferenceStep, AllowsStep, HeldStep DEF IInv
  <1>2. CASE UNCHANGED vars
    <2>1. TypeOK'
      BY <1>2 DEF vars, IInv, TypeOK
    <2>2. AcceptedIsKnown' /\ BackedReference'
      BY <1>2 DEF vars, IInv, AcceptedIsKnown, BackedReference
    <2>3. AllowsAreProven'
      <3>1. \A d \in Decisions : standing[d] # NoStanding => ProvenAllow(standing[d])'
        BY <1>2 DEF vars, IInv, AllowsAreProven, ProvenAllow, ProvenBy, Proven, UnitError
      <3>2. \A e \in Events : e.event = "standing" => ProvenAllow(e.evaluation)'
        BY <1>2 DEF vars, IInv, AllowsAreProven, ProvenAllow, ProvenBy, Proven, UnitError
      <3>3. standing' = standing /\ Events' = Events
        BY <1>2 DEF vars, Events
      <3>4. QED
        BY <3>1, <3>2, <3>3 DEF AllowsAreProven
    <2>4. \A a \in Actors : HeldState(actor[a])'
      BY <1>2 DEF vars, IInv, HeldState, SeenIsBacked, ProvenAllow, ProvenBy, Proven, UnitError
    <2>5. QED
      BY <2>1, <2>2, <2>3, <2>4 DEF IInv
  <1>3. QED
    BY <1>1, <1>2

LEMMA InvariantHolds == Spec => []IInv
  <1>1. Init => IInv
    BY InitHolds
  <1>2. IInv /\ [Next]_vars => IInv'
    BY NextHolds
  <1>3. QED
    BY <1>1, <1>2, PTL DEF Spec

(* Every reachable state is well typed: among the rest, no step ever files  *)
(* an event or a standing of a shape the readers do not know.               *)
THEOREM TypeCorrect == Spec => []TypeOK
  BY InvariantHolds, PTL DEF IInv

(* The evaluator never reads a reference to evidence that is not marked     *)
(* accepted, whatever interleaves and whatever dies.                        *)
THEOREM ReferencesAreBacked == Spec => []BackedReference
  BY InvariantHolds, PTL DEF IInv

(* No decision is ever allowed, in the hot store or in the journal, unless  *)
(* each of its required conditions was proven by what was read of it: fresh *)
(* accepted evidence, or, before any was accepted, the plain entity.        *)
THEOREM NoAllowWithoutProof == Spec => []AllowsAreProven
  BY InvariantHolds, PTL DEF IInv

(* An allow that rests on accepted evidence for every required condition.   *)
RestsOnEvidence(e) ==
  e.action = "allow" =>
    \A s \in ConditionsOf[e.decision] : MayBlock(s) =>
      /\ e.seen[s.key] # NoReference
      /\ e.seen[s.key].fresh
      /\ e.seen[s.key].row \in accepted[s.key]

AllowsRestOnEvidence ==
  /\ \A d \in Decisions : standing[d] # NoStanding => RestsOnEvidence(standing[d])
  /\ \A e \in Events : e.event = "standing" => RestsOnEvidence(e.evaluation)

(* As long as nobody files a plain condition entity, and nothing in the     *)
(* product does, every allow rests on accepted evidence and on nothing else.*)
(* (_current_condition, MemoryStore.save_condition)                         *)
THEOREM EvidenceOrNothing ==
  ASSUME \A c \in Conditions : Plain[c] = NoCurrent
  PROVE  Spec => []AllowsRestOnEvidence
  <1>1. IInv => AllowsRestOnEvidence
    <2> SUFFICES ASSUME IInv PROVE AllowsRestOnEvidence
      OBVIOUS
    <2>1. ASSUME NEW e \in Evaluations, ProvenAllow(e) PROVE RestsOnEvidence(e)
      <3> SUFFICES ASSUME e.action = "allow",
                          NEW s \in ConditionsOf[e.decision], MayBlock(s)
                   PROVE  /\ e.seen[s.key] # NoReference
                          /\ e.seen[s.key].fresh
                          /\ e.seen[s.key].row \in accepted[s.key]
        BY DEF RestsOnEvidence
      <3>1. s.key \in Conditions
        BY EvaluationType, SpecKey
      <3>2. ProvenBy(s, e.seen[s.key])
        BY <2>1 DEF ProvenAllow
      <3>3. QED
        BY <3>1, <3>2 DEF ProvenBy, Proven
    <2>2. \A d \in Decisions : standing[d] # NoStanding => standing[d] \in Evaluations
      BY DEF IInv, TypeOK
    <2>3. \A f \in Events : f.event = "standing" => f.evaluation \in Evaluations
      <3>1. \A f \in Events : f \in EventSet
        BY DEF Events, IInv, TypeOK
      <3>2. QED
        BY <3>1 DEF EventSet
    <2>4. QED
      BY <2>1, <2>2, <2>3 DEF IInv, AllowsAreProven, AllowsRestOnEvidence
  <1>2. QED
    BY <1>1, InvariantHolds, PTL

-----------------------------------------------------------------------------
(* Where one process writes the store, what it holds of a reference is what *)
(* is stored: a promotion never finds a later one in its way.               *)
OneActor == \A a, b \in Actors : a = b

HeldRow(s) ==
  /\ s.op \in {"mark", "reference"} /\ reference[s.cond] # NoReference =>
       s.row >= reference[s.cond].row
  /\ s.op = "stale" => /\ reference[s.cond] # NoReference
                       /\ reference[s.cond].row = s.ref.row

RowInv == IInv /\ \A a \in Actors : HeldRow(actor[a])

Forward ==
  \A c \in Conditions : reference[c] # NoReference =>
    /\ reference'[c] # NoReference
    /\ reference'[c].row >= reference[c].row

(* What a row number can be compared with.                                  *)
LEMMA ReferenceRow ==
  ASSUME IInv, NEW c \in Conditions, reference[c] # NoReference
  PROVE  /\ reference[c] \in References
         /\ reference[c].row \in Nat /\ Len(rows[c]) \in Nat
         /\ reference[c].row <= Len(rows[c])
  <1>1. reference[c] \in References /\ rows[c] \in Seq(Values)
    BY DEF IInv, TypeOK, Seen
  <1>2. reference[c].row \in 1..Len(rows[c])
    BY DEF IInv, BackedReference, AcceptedIsKnown
  <1>3. QED
    BY <1>1, <1>2

LEMMA RowStep ==
  ASSUME RowInv, OneActor, [Next]_vars
  PROVE  RowInv' /\ Forward
  <1>1. IInv /\ IInv' /\ \A b \in Actors : HeldRow(actor[b])
    BY NextHolds DEF RowInv
  <1>2. ASSUME NEW a \in Actors, NEW s, Becomes(a, s)
        PROVE  \A b \in Actors : actor'[b] = s
    BY <1>1, <1>2 DEF Becomes, OneActor, IInv, TypeOK
  <1>3. ASSUME reference' = reference PROVE Forward
    BY <1>1, <1>3, ReferenceRow DEF Forward
  <1>4. ASSUME NEW c \in Conditions, NEW r \in References,
               reference' = [reference EXCEPT ![c] = r],
               reference[c] # NoReference => r.row >= reference[c].row
        PROVE  Forward
    <2>1. \A b \in Conditions : reference'[b] = IF b = c THEN r ELSE reference[b]
      BY <1>1, <1>4 DEF IInv, TypeOK
    <2>2. QED
      BY <1>1, <1>4, <2>1, ReferenceRow, NoReferenceIsNone DEF Forward
  <1>5. ASSUME NEW s \in ActorStates, s.op \notin {"mark", "reference", "stale"},
               NEW a \in Actors, Becomes(a, s)
        PROVE  \A b \in Actors : HeldRow(actor[b])'
    BY <1>2, <1>5 DEF HeldRow
  <1>6. ASSUME UNCHANGED <<reference, actor>>
        PROVE  \A b \in Actors : HeldRow(actor[b])'
    BY <1>1, <1>6 DEF HeldRow
  <1>7. ASSUME NEW a \in Actors, NEW c \in Conditions, StartPromotion(a, c)
        PROVE  /\ Forward
               /\ \A b \in Actors : HeldRow(actor[b])'
    <2>1. /\ reference' = reference
          /\ \A b \in Actors : actor'[b] = Marking(c, Len(rows[c]), 1..Len(rows[c]))
      BY <1>2, <1>7 DEF StartPromotion
    <2>2. reference[c] # NoReference => Len(rows[c]) >= reference[c].row
      BY <1>1, ReferenceRow
    <2>3. QED
      BY <1>3, <2>1, <2>2 DEF HeldRow, Marking
  <1>8. ASSUME NEW a \in Actors, NEW c \in Conditions, StartStale(a, c)
        PROVE  /\ Forward
               /\ \A b \in Actors : HeldRow(actor[b])'
    <2>1. /\ reference' = reference
          /\ reference[c] # NoReference
          /\ \A b \in Actors : actor'[b] = Staling(c, reference[c])
      BY <1>2, <1>8 DEF StartStale
    <2>2. QED
      BY <1>3, <2>1 DEF HeldRow, Staling
  <1>9. ASSUME NEW a \in Actors, MarkRow(a)
        PROVE  /\ Forward
               /\ \A b \in Actors : HeldRow(actor[b])'
    <2>1. PICK todo, s : /\ s \in {Referencing(actor[a].cond, actor[a].row),
                                   Marking(actor[a].cond, actor[a].row, todo)}
                         /\ Becomes(a, s)
      BY <1>9 DEF MarkRow
    <2>2. \A b \in Actors : actor'[b] = s
      BY <1>2, <2>1
    <2>3. s.op \in {"mark", "reference"} /\ s.cond = actor[a].cond /\ s.row = actor[a].row
      BY <2>1 DEF Referencing, Marking
    <2>4. /\ reference' = reference /\ actor[a].op = "mark"
          /\ reference[s.cond] # NoReference => s.row >= reference[s.cond].row
      BY <1>1, <1>9, <2>3 DEF MarkRow, HeldRow
    <2>5. QED
      BY <1>3, <2>2, <2>3, <2>4 DEF HeldRow
  <1>10. ASSUME NEW a \in Actors, SaveReference(a)
         PROVE  /\ Forward
                /\ \A b \in Actors : HeldRow(actor[b])'
    <2>1. PICK c, n : /\ c = actor[a].cond /\ n = actor[a].row
                      /\ c \in Conditions /\ n \in RowNumbers
      BY <1>1, <1>10, ActorFields DEF IInv, SaveReference
    <2>2. /\ reference' = [reference EXCEPT ![c] = [row |-> n, fresh |-> TRUE]]
          /\ Becomes(a, Dispatching(c, n, Dependents(c)))
      BY <1>10, <2>1 DEF SaveReference
    <2>3. [row |-> n, fresh |-> TRUE] \in References
      BY <2>1 DEF References
    <2>4. reference[c] # NoReference => n >= reference[c].row
      BY <1>1, <1>10, <2>1 DEF HeldRow, SaveReference
    <2>5. Dispatching(c, n, Dependents(c)) \in ActorStates
      BY <2>1, StateTypes DEF Dependents
    <2>6. QED
      BY <1>4, <1>5, <2>1, <2>2, <2>3, <2>4, <2>5 DEF Dispatching
  <1>11. ASSUME NEW a \in Actors, SaveStale(a)
         PROVE  /\ Forward
                /\ \A b \in Actors : HeldRow(actor[b])'
    <2>1. PICK c, ref : /\ c = actor[a].cond /\ ref = actor[a].ref
                        /\ c \in Conditions /\ ref \in References
      BY <1>1, <1>11, ActorFields DEF IInv, SaveStale
    <2>2. /\ reference' = [reference EXCEPT ![c] = [row |-> ref.row, fresh |-> FALSE]]
          /\ Becomes(a, Announcing(c))
      BY <1>11, <2>1 DEF SaveStale
    <2>3. [row |-> ref.row, fresh |-> FALSE] \in References
      BY <2>1 DEF References
    <2>4. reference[c] # NoReference => ref.row >= reference[c].row
      BY <1>1, <1>11, <2>1, ReferenceRow DEF HeldRow, SaveStale
    <2>5. Announcing(c) \in ActorStates
      BY <2>1, StateTypes
    <2>6. QED
      BY <1>4, <1>5, <2>1, <2>2, <2>3, <2>4, <2>5 DEF Announcing
  <1>12. ASSUME NEW a \in Actors,
                \/ VisitDependent(a) \/ ReadReference(a) \/ CompareStanding(a)
                \/ SaveStanding(a) \/ WriteJournal(a) \/ FinishPromotion(a)
                \/ FinishStale(a) \/ Crash(a)
         PROVE  /\ Forward
                /\ \A b \in Actors : HeldRow(actor[b])'
    <2>1. reference' = reference
      BY <1>12 DEF VisitDependent, ReadReference, CompareStanding, SaveStanding, WriteJournal,
         FinishPromotion, FinishStale, Crash
    <2>2. \E s : Becomes(a, s) /\ s.op \in {"idle", "dispatch", "read", "save", "journal"}
      <3> DEFINE Quiet(s) == s.op \in {"idle", "dispatch", "read", "save", "journal"}
      <3>1. /\ Quiet(Idle)
            /\ \A c, n, T : Quiet(Dispatching(c, n, T))
            /\ \A c, n, T, d, L, seen : Quiet(Reading(c, n, T, d, L, seen))
            /\ \A c, n, T, e : Quiet(Saving(c, n, T, e)) /\ Quiet(Journaling(c, n, T, e))
        BY DEF Idle, Dispatching, Reading, Saving, Journaling
      <3> HIDE DEF Quiet
      <3>2. VisitDependent(a) \/ ReadReference(a) => \E s : Becomes(a, s) /\ Quiet(s)
        BY <3>1 DEF VisitDependent, ReadReference
      <3>3. CompareStanding(a) => \E s : Becomes(a, s) /\ Quiet(s)
        BY <3>1 DEF CompareStanding
      <3>4. SaveStanding(a) \/ WriteJournal(a) => \E s : Becomes(a, s) /\ Quiet(s)
        BY <3>1 DEF SaveStanding, WriteJournal
      <3>5. FinishPromotion(a) \/ FinishStale(a) \/ Crash(a) => \E s : Becomes(a, s) /\ Quiet(s)
        BY <3>1 DEF FinishPromotion, FinishStale, Crash
      <3>6. \E s : Becomes(a, s) /\ Quiet(s)
        BY <1>12, <3>2, <3>3, <3>4, <3>5
      <3>7. QED
        BY <3>6 DEF Quiet
    <2>3. PICK s : Becomes(a, s) /\ s.op \in {"idle", "dispatch", "read", "save", "journal"}
      BY <2>2
    <2>4. QED
      BY <1>2, <1>3, <2>1, <2>3 DEF HeldRow
  <1>13. ASSUME NEW c \in Conditions, NEW v \in Values, Deliver(c, v)
         PROVE  /\ Forward
                /\ \A b \in Actors : HeldRow(actor[b])'
    BY <1>3, <1>6, <1>13 DEF Deliver
  <1>16. ASSUME NEW c \in Conditions, FallDue(c)
         PROVE  /\ Forward
                /\ \A b \in Actors : HeldRow(actor[b])'
    <2>1. PICK r : r = [row |-> reference[c].row, fresh |-> FALSE]
      OBVIOUS
    <2>2. r.row = reference[c].row
      BY <2>1
    <2>3. /\ r \in References /\ reference[c].row \in Nat
          /\ reference' = [reference EXCEPT ![c] = r] /\ actor' = actor
      BY <1>1, <1>16, <2>1, ReferenceRow DEF FallDue, References
    <2>4. Forward
      <3>1. r.row >= reference[c].row
        BY <2>2, <2>3
      <3>2. QED
        BY <1>4, <2>3, <3>1
    <2>5. \A k \in Conditions : (reference[k] # NoReference <=> reference'[k] # NoReference)
            /\ (reference[k] # NoReference => reference'[k].row = reference[k].row)
      BY <1>1, <1>16, <2>2, <2>3, NoReferenceIsNone DEF FallDue, IInv, TypeOK
    <2>6. \A b \in Actors : actor[b].op \in {"mark", "reference", "stale"} =>
            actor[b].cond \in Conditions
      BY <1>1, ActorFields DEF IInv
    <2>7. QED
      BY <1>1, <2>3, <2>4, <2>5, <2>6 DEF HeldRow
  <1>14. CASE UNCHANGED vars
    BY <1>1, <1>3, <1>6, <1>14 DEF vars, RowInv
  <1>15. QED
    BY <1>1, <1>7, <1>8, <1>9, <1>10, <1>11, <1>12, <1>13, <1>14, <1>16 DEF Next, Step, RowInv

LEMMA InitRowInv == Init => RowInv
  BY InitHolds DEF Init, RowInv, HeldRow, Idle

(* One process alone never goes back: even if it dies between two store     *)
(* calls and starts again, a reference only ever moves to a later head.     *)
(* (promote_acceptance, mark_condition_stale)                               *)
THEOREM OnlyForward ==
  ASSUME OneActor
  PROVE  Spec => ReferenceNeverMovesBack
  <1>1. RowInv /\ [Next]_vars => RowInv' /\ Forward
    BY RowStep
  <1>2. Spec => [][Forward]_vars
    BY <1>1, InitRowInv, PTL DEF Spec
  <1>3. QED
    BY <1>2 DEF ReferenceNeverMovesBack, Forward
-----------------------------------------------------------------------------
(* And where it does not die either, the dependents a promotion has still   *)
(* to visit are the only ones whose standing may be behind the references,  *)
(* and the one it has just saved is the only one the journal does not know. *)
Pending(s) ==
  {d \in Decisions : \/ s.op \in {"dispatch", "read", "save", "journal"} /\ d \in s.todo
                     \/ s.op = "read" /\ d = s.decision
                     \/ s.op = "save" /\ d = s.evaluation.decision}

Unjournaled(s) == {d \in Decisions : s.op = "journal" /\ d = s.evaluation.decision}

ReferencesFresh(d) == \A c \in Keys(d) : reference[c] # NoReference => reference[c].fresh

KeepsUp(pending, unjournaled) ==
  \A d \in Decisions : standing[d] # NoStanding =>
    /\ ReferencesFresh(d) /\ d \notin pending => standing[d] = Evaluation(d)
    /\ d \notin unjournaled => StandingEvent(standing[d]) \in Events

HeldEvaluation(s) ==
  /\ s.op \in {"dispatch", "read", "save", "journal"} =>
       \A d \in Dependents(s.cond) \ Pending(s) : standing[d] # NoStanding
  /\ s.op = "read" /\ ReferencesFresh(s.decision) =>
       \A k \in Keys(s.decision) \ s.left : s.seen[k] = reference[k]
  /\ s.op = "save" /\ ReferencesFresh(s.evaluation.decision) =>
       s.evaluation = Evaluation(s.evaluation.decision)
  /\ s.op = "journal" => standing[s.evaluation.decision] = s.evaluation

KeepInv ==
  /\ RowInv
  /\ KeepsUp(UNION {Pending(actor[a]) : a \in Actors},
             UNION {Unjournaled(actor[a]) : a \in Actors})
  /\ \A a \in Actors : HeldEvaluation(actor[a])

(* An evaluation of accepted evidence stays what it is: rows only grow.     *)
LEMMA SeenStays ==
  ASSUME IInv, [Next]_vars, NEW d \in Decisions, NEW seen, SeenIsBacked(d, seen)
  PROVE  EvaluationOf(d, seen)' = EvaluationOf(d, seen)
  <1>1. ASSUME NEW k \in Keys(d), seen[k] # NoReference
        PROVE  rows'[k][seen[k].row] = rows[k][seen[k].row]
    <2>1. k \in Conditions
      BY SpecKey DEF Keys
    <2>2. seen[k].row \in 1..Len(rows[k])
      BY <1>1, <2>1 DEF SeenIsBacked, IInv, AcceptedIsKnown
    <2>3. CASE Next
      BY <2>1, <2>2, <2>3, Monotone DEF IInv, Grows
    <2>4. CASE UNCHANGED vars
      BY <2>4 DEF vars
    <2>5. QED
      BY <2>3, <2>4
  <1>2. CurrentRecords(d, seen)' = CurrentRecords(d, seen)
    BY <1>1 DEF CurrentRecords, Current, RecordOf
  <1>3. QED
    BY <1>2 DEF EvaluationOf

LEMMA EvaluationStays ==
  ASSUME IInv, [Next]_vars, NEW d \in Decisions,
         \A k \in Keys(d) : reference'[k] = reference[k]
  PROVE  Evaluation(d)' = Evaluation(d)
  <1>1. PICK seen : seen = [k \in Keys(d) |-> reference[k]]
    OBVIOUS
  <1>2. seen = [k \in Keys(d) |-> reference'[k]]
    BY <1>1
  <1>3. SeenIsBacked(d, seen)
    <2>1. Keys(d) \subseteq Conditions
      BY SpecKey DEF Keys
    <2>2. QED
      BY <1>1, <2>1 DEF SeenIsBacked, IInv, BackedReference
  <1>4. Evaluation(d) = EvaluationOf(d, seen)
    BY <1>1 DEF Evaluation
  <1>5. Evaluation(d)' = EvaluationOf(d, seen)'
    <2>1. CurrentRecords(d, [k \in Keys(d) |-> reference[k]])' = CurrentRecords(d, seen)'
      BY <1>2 DEF CurrentRecords, Current, RecordOf
    <2>2. QED
      BY <1>2, <2>1 DEF Evaluation, EvaluationOf
  <1>6. QED
    BY <1>3, <1>4, <1>5, SeenStays

(* What the journal says it goes on saying.                                 *)
LEMMA EventsGrow ==
  ASSUME IInv, NEW e, journal' = Append(journal, e)
  PROVE  Events \subseteq Events' /\ e \in Events'
  <1>1. journal \in Seq(EventSet)
    BY DEF IInv, TypeOK
  <1>2. /\ DOMAIN journal = 1..Len(journal) /\ Len(journal) \in Nat
        /\ DOMAIN journal' = 1..(Len(journal) + 1)
        /\ \A i \in 1..Len(journal) : journal'[i] = journal[i]
        /\ journal'[Len(journal) + 1] = e
    BY <1>1
  <1>3. Events \subseteq Events'
    BY <1>2 DEF Events
  <1>4. e \in Events'
    <2>1. Len(journal) + 1 \in DOMAIN journal'
      BY <1>2
    <2>2. QED
      BY <1>2, <2>1 DEF Events
  <1>5. QED
    BY <1>3, <1>4

(* A step that leaves references and standings alone leaves nobody behind.  *)
LEMMA QuietStep ==
  ASSUME IInv, [Next]_vars, reference' = reference, standing' = standing,
         Events \subseteq Events', NEW pending, NEW unjournaled, KeepsUp(pending, unjournaled)
  PROVE  KeepsUp(pending, unjournaled)'
  <1>1. \A d \in Decisions : Evaluation(d)' = Evaluation(d)
    BY EvaluationStays
  <1>2. \A d \in Decisions : ReferencesFresh(d)' <=> ReferencesFresh(d)
    BY DEF ReferencesFresh
  <1>3. QED
    BY <1>1, <1>2 DEF KeepsUp

(* What a resting actor holds is untouched by such a step.                  *)
LEMMA HeldStays ==
  ASSUME IInv, [Next]_vars, reference' = reference, standing' = standing,
         NEW s \in ActorStates, HeldEvaluation(s)
  PROVE  HeldEvaluation(s)'
  <1>1. s.op = "save" => s.evaluation.decision \in Decisions
    BY StateFields, EvaluationType
  <1>2. s.op = "save" /\ ReferencesFresh(s.evaluation.decision) =>
          s.evaluation = Evaluation(s.evaluation.decision)'
    BY <1>1, EvaluationStays DEF HeldEvaluation
  <1>3. \A d : ReferencesFresh(d)' <=> ReferencesFresh(d)
    BY DEF ReferencesFresh
  <1>4. QED
    BY <1>2, <1>3 DEF HeldEvaluation

(* Whether the next dependent is skipped or saved: its references were read *)
(* as they are, unless one has fallen due since, so the evaluation is the   *)
(* one of the references.                                                   *)
LEMMA ComparedIsCurrent ==
  ASSUME KeepInv, NEW a \in Actors, CompareStanding(a)
  PROVE  /\ actor[a].decision \in Decisions
         /\ ReferencesFresh(actor[a].decision) =>
              EvaluationOf(actor[a].decision, actor[a].seen) = Evaluation(actor[a].decision)
  <1>1. PICK d, seen : d = actor[a].decision /\ seen = actor[a].seen
    OBVIOUS
  <1>2. d \in Decisions /\ seen \in [Keys(d) -> Seen]
    BY <1>1, ActorFields DEF CompareStanding, KeepInv, RowInv, IInv
  <1>3. ReferencesFresh(d) => \A k \in Keys(d) : seen[k] = reference[k]
    BY <1>1 DEF CompareStanding, KeepInv, HeldEvaluation
  <1>4. ReferencesFresh(d) => seen = [k \in Keys(d) |-> reference[k]]
    BY <1>2, <1>3
  <1>5. QED
    BY <1>1, <1>2, <1>4 DEF Evaluation
(* What has to be shown of the actor that moves: its next state, what that  *)
(* leaves pending and unjournaled, and what it holds then.                  *)
LEMMA OneActorMoves ==
  ASSUME KeepInv, OneActor, NEW a \in Actors, NEW s \in ActorStates, Becomes(a, s),
         [Next]_vars, KeepsUp(Pending(s), Unjournaled(s))', HeldEvaluation(s)'
  PROVE  KeepInv'
  <1>1. RowInv'
    BY RowStep DEF KeepInv
  <1>2. \A b \in Actors : b = a /\ actor'[b] = s
    BY DEF OneActor, Becomes, KeepInv, RowInv, IInv, TypeOK
  <1>3. /\ UNION {Pending(actor'[b]) : b \in Actors} = Pending(s)
        /\ UNION {Unjournaled(actor'[b]) : b \in Actors} = Unjournaled(s)
    BY <1>2
  <1>4. KeepsUp(UNION {Pending(actor[b]) : b \in Actors},
                UNION {Unjournaled(actor[b]) : b \in Actors})'
    BY <1>3 DEF KeepsUp
  <1>5. \A b \in Actors : HeldEvaluation(actor[b])'
    BY <1>2 DEF HeldEvaluation
  <1>6. QED
    BY <1>1, <1>4, <1>5 DEF KeepInv

LEMMA OneActorHolds ==
  ASSUME KeepInv, OneActor, NEW a \in Actors
  PROVE  /\ KeepsUp(Pending(actor[a]), Unjournaled(actor[a]))
         /\ HeldEvaluation(actor[a]) /\ HeldRow(actor[a])
         /\ actor[a] \in ActorStates /\ IInv
  <1>1. \A b \in Actors : b = a
    BY DEF OneActor
  <1>2. /\ UNION {Pending(actor[b]) : b \in Actors} = Pending(actor[a])
        /\ UNION {Unjournaled(actor[b]) : b \in Actors} = Unjournaled(actor[a])
    BY <1>1
  <1>3. KeepsUp(Pending(actor[a]), Unjournaled(actor[a]))
    BY <1>2 DEF KeepInv
  <1>4. QED
    BY <1>3 DEF KeepInv, RowInv, IInv, TypeOK

(* An actor between operations, marking or about to write a reference has   *)
(* left nobody behind.                                                      *)
LEMMA NothingPending ==
  ASSUME NEW s, s.op \notin {"dispatch", "read", "save", "journal"}
  PROVE  Pending(s) = {} /\ Unjournaled(s) = {} /\ HeldEvaluation(s) /\ HeldEvaluation(s)'
  BY DEF Pending, Unjournaled, HeldEvaluation

(* A step between two states of that kind that leaves the store alone, but  *)
(* for rows, marks and events.                                              *)
LEMMA AsideStep ==
  ASSUME KeepInv, OneActor, [Next]_vars, NEW a \in Actors, NEW s \in ActorStates, Becomes(a, s),
         s.op \notin {"dispatch", "read", "save", "journal"},
         Pending(actor[a]) = {}, Unjournaled(actor[a]) = {},
         reference' = reference, standing' = standing, Events \subseteq Events'
  PROVE  KeepInv'
  <1>1. KeepsUp({}, {}) /\ IInv
    BY OneActorHolds
  <1>2. KeepsUp({}, {})'
    BY <1>1, QuietStep
  <1>3. Pending(s) = {} /\ Unjournaled(s) = {} /\ HeldEvaluation(s)'
    BY NothingPending
  <1>4. QED
    BY <1>2, <1>3, OneActorMoves

LEMMA BeginningKeeps ==
  ASSUME KeepInv, OneActor, NEW a \in Actors, NEW c \in Conditions, [Next]_vars,
         StartPromotion(a, c) \/ StartStale(a, c)
  PROVE  KeepInv'
  <1>1. TypeOK' /\ Events' = Events
    BY RowStep DEF KeepInv, RowInv, IInv, StartPromotion, StartStale, Events
  <1>2. PICK s : /\ Becomes(a, s) /\ s.op \in {"mark", "stale"}
                 /\ reference' = reference /\ standing' = standing
    BY DEF StartPromotion, StartStale, Marking, Staling
  <1>3. s \in ActorStates
    BY <1>1, <1>2 DEF Becomes, TypeOK, KeepInv, RowInv, IInv
  <1>4. Pending(actor[a]) = {} /\ Unjournaled(actor[a]) = {}
    BY NothingPending DEF StartPromotion, StartStale, Idle
  <1>5. QED
    BY <1>1, <1>2, <1>3, <1>4, AsideStep

LEMMA MarkingKeeps ==
  ASSUME KeepInv, OneActor, NEW a \in Actors, [Next]_vars, MarkRow(a)
  PROVE  KeepInv'
  <1>1. TypeOK' /\ Events' = Events
    BY RowStep DEF KeepInv, RowInv, IInv, MarkRow, Events
  <1>2. PICK todo, s : /\ s \in {Referencing(actor[a].cond, actor[a].row),
                                 Marking(actor[a].cond, actor[a].row, todo)}
                       /\ Becomes(a, s)
    BY DEF MarkRow
  <1>3. s \in ActorStates
    BY <1>1, <1>2 DEF Becomes, TypeOK, KeepInv, RowInv, IInv
  <1>4. s.op \in {"mark", "reference"}
    BY <1>2 DEF Referencing, Marking
  <1>5. /\ Pending(actor[a]) = {} /\ Unjournaled(actor[a]) = {}
        /\ reference' = reference /\ standing' = standing
    BY NothingPending DEF MarkRow
  <1>6. QED
    BY <1>1, <1>2, <1>3, <1>4, <1>5, AsideStep

LEMMA EndingKeeps ==
  ASSUME KeepInv, OneActor, NEW a \in Actors, [Next]_vars, FinishPromotion(a) \/ FinishStale(a)
  PROVE  KeepInv'
  <1>1. IInv /\ actor[a] \in ActorStates
    BY OneActorHolds
  <1>2. PICK e : journal' = Append(journal, e)
    BY DEF FinishPromotion, FinishStale
  <1>3. Events \subseteq Events'
    BY <1>1, <1>2, EventsGrow
  <1>4. Becomes(a, Idle) /\ reference' = reference /\ standing' = standing
    BY DEF FinishPromotion, FinishStale
  <1>5. Pending(actor[a]) = {} /\ Unjournaled(actor[a]) = {}
    BY NothingPending DEF FinishPromotion, FinishStale, Pending, Unjournaled
  <1>6. Idle \in ActorStates /\ Idle.op = "idle"
    BY StateTypes DEF Idle
  <1>7. QED
    BY <1>3, <1>4, <1>5, <1>6, AsideStep
(* A written reference leaves its dependents pending and no one else.       *)
LEMMA SavedReferenceKeeps ==
  ASSUME KeepInv, OneActor, NEW a \in Actors, [Next]_vars, SaveReference(a)
  PROVE  KeepInv'
  <1>1. PICK c, n : c = actor[a].cond /\ n = actor[a].row
    OBVIOUS
  <1>2. PICK s : s = Dispatching(c, n, Dependents(c))
    OBVIOUS
  <1>3. /\ reference' = [reference EXCEPT ![c] = [row |-> n, fresh |-> TRUE]]
        /\ Becomes(a, s) /\ UNCHANGED <<standing, journal>> /\ actor[a].op = "reference"
    BY <1>1, <1>2 DEF SaveReference
  <1>4. /\ IInv /\ KeepsUp({}, {}) /\ c \in Conditions /\ n \in RowNumbers
    BY <1>1, <1>3, OneActorHolds, NothingPending, ActorFields DEF IInv
  <1>5. s \in ActorStates /\ s.op = "dispatch" /\ s.cond = c /\ s.todo = Dependents(c)
    BY <1>2, <1>4, StateTypes DEF Dependents, Dispatching
  <1>6. Pending(s) = Dependents(c) /\ Unjournaled(s) = {}
    BY <1>5 DEF Pending, Unjournaled, Dependents
  <1>7. ASSUME NEW d \in Decisions, d \notin Dependents(c)
        PROVE  /\ \A k \in Keys(d) : reference'[k] = reference[k]
               /\ Evaluation(d)' = Evaluation(d)
               /\ ReferencesFresh(d)' <=> ReferencesFresh(d)
    <2>1. \A k \in Keys(d) : k # c
      BY <1>7 DEF Keys, Dependents
    <2>2. \A k \in Keys(d) : reference'[k] = reference[k]
      BY <1>3, <1>4, <2>1, SpecKey DEF IInv, TypeOK, Keys
    <2>3. QED
      BY <1>4, <2>2, EvaluationStays DEF ReferencesFresh
  <1>8. Events' = Events
    BY <1>3 DEF Events
  <1>9. KeepsUp(Dependents(c), {})'
    BY <1>3, <1>4, <1>7, <1>8 DEF KeepsUp
  <1>10. HeldEvaluation(s)'
    BY <1>5, <1>6 DEF HeldEvaluation
  <1>11. QED
    BY <1>3, <1>5, <1>6, <1>9, <1>10, OneActorMoves

(* A stale marking leaves its dependents to the next promotion, which it    *)
(* keeps from being called current.                                         *)
LEMMA SavedStaleKeeps ==
  ASSUME KeepInv, OneActor, NEW a \in Actors, [Next]_vars, SaveStale(a)
  PROVE  KeepInv'
  <1>1. PICK c, ref : c = actor[a].cond /\ ref = actor[a].ref
    OBVIOUS
  <1>2. /\ reference' = [reference EXCEPT ![c] = [row |-> ref.row, fresh |-> FALSE]]
        /\ Becomes(a, Announcing(c)) /\ UNCHANGED <<standing, journal>>
        /\ actor[a].op = "stale"
    BY <1>1 DEF SaveStale
  <1>3. /\ IInv /\ KeepsUp({}, {}) /\ c \in Conditions /\ ref \in References
    BY <1>1, <1>2, OneActorHolds, NothingPending, ActorFields DEF IInv
  <1>4. PICK marked : marked = [row |-> ref.row, fresh |-> FALSE]
    OBVIOUS
  <1>5. marked \in References /\ ~marked.fresh /\ marked # NoReference
    <2>1. [row |-> ref.row, fresh |-> FALSE] \in References
      BY <1>3 DEF References
    <2>2. marked.fresh = FALSE
      BY <1>4
    <2>3. QED
      BY <1>4, <2>1, <2>2, NoReferenceIsNone
  <1>6. reference \in [Conditions -> Seen]
    BY <1>3 DEF IInv, TypeOK
  <1>7. \A k \in Conditions : reference'[k] = IF k = c THEN marked ELSE reference[k]
    BY <1>2, <1>4, <1>6
  <1>8. ASSUME NEW d \in Decisions, c \in Keys(d) PROVE ~ReferencesFresh(d)'
    <2>1. reference'[c] = marked
      BY <1>3, <1>7
    <2>2. QED
      BY <1>5, <1>8, <2>1 DEF ReferencesFresh
  <1>9. ASSUME NEW d \in Decisions, c \notin Keys(d)
        PROVE  /\ Evaluation(d)' = Evaluation(d)
               /\ ReferencesFresh(d)' <=> ReferencesFresh(d)
    <2>1. \A k \in Keys(d) : reference'[k] = reference[k]
      BY <1>7, <1>9, SpecKey DEF Keys
    <2>2. QED
      BY <1>3, <2>1, EvaluationStays DEF ReferencesFresh
  <1>10. Events' = Events
    BY <1>2 DEF Events
  <1>11. KeepsUp({}, {})'
    BY <1>2, <1>3, <1>8, <1>9, <1>10 DEF KeepsUp
  <1>12. Announcing(c) \in ActorStates /\ Announcing(c).op = "announce"
    BY <1>3, StateTypes DEF Announcing
  <1>13. QED
    BY <1>2, <1>11, <1>12, NothingPending, OneActorMoves

LEMMA VisitingKeeps ==
  ASSUME KeepInv, OneActor, NEW a \in Actors, [Next]_vars, VisitDependent(a)
  PROVE  KeepInv'
  <1>1. PICK old : old = actor[a]
    OBVIOUS
  <1>2. /\ IInv /\ KeepsUp(Pending(old), Unjournaled(old)) /\ HeldEvaluation(old)
        /\ old.op = "dispatch" /\ UNCHANGED <<rows, reference, standing, journal>>
    BY <1>1, OneActorHolds DEF VisitDependent
  <1>3. PICK d \in old.todo :
          Becomes(a, Reading(old.cond, old.row, old.todo \ {d}, d, Keys(d),
                             [k \in Keys(d) |-> NoReference]))
    BY <1>1 DEF VisitDependent
  <1>4. PICK s : s = Reading(old.cond, old.row, old.todo \ {d}, d, Keys(d),
                             [k \in Keys(d) |-> NoReference])
    OBVIOUS
  <1>5. /\ s.op = "read" /\ s.cond = old.cond /\ s.todo = old.todo \ {d}
        /\ s.decision = d /\ s.left = Keys(d)
    BY <1>4 DEF Reading
  <1>6. s \in ActorStates
    <2>1. TypeOK'
      BY RowStep DEF KeepInv, RowInv, IInv
    <2>2. QED
      BY <1>2, <1>3, <1>4, <2>1 DEF Becomes, IInv, TypeOK
  <1>7. Pending(s) = Pending(old) /\ Unjournaled(s) = Unjournaled(old)
    BY <1>2, <1>3, <1>5 DEF Pending, Unjournaled
  <1>8. Events' = Events
    BY <1>2 DEF Events
  <1>9. KeepsUp(Pending(s), Unjournaled(s))'
    BY <1>2, <1>7, <1>8, QuietStep
  <1>10. HeldEvaluation(s)'
    BY <1>2, <1>5, <1>7 DEF HeldEvaluation
  <1>11. QED
    BY <1>3, <1>4, <1>6, <1>9, <1>10, OneActorMoves

LEMMA ReadingKeeps ==
  ASSUME KeepInv, OneActor, NEW a \in Actors, [Next]_vars, ReadReference(a)
  PROVE  KeepInv'
  <1>1. PICK old : old = actor[a]
    OBVIOUS
  <1>2. /\ IInv /\ KeepsUp(Pending(old), Unjournaled(old)) /\ HeldEvaluation(old)
        /\ old.op = "read" /\ UNCHANGED <<rows, reference, standing, journal>>
        /\ old \in ActorStates
    BY <1>1, OneActorHolds DEF ReadReference
  <1>3. PICK k \in old.left :
          Becomes(a, Reading(old.cond, old.row, old.todo, old.decision, old.left \ {k},
                             [old.seen EXCEPT ![k] = reference[k]]))
    BY <1>1 DEF ReadReference
  <1>4. PICK s, seen : /\ seen = [old.seen EXCEPT ![k] = reference[k]]
                       /\ s = Reading(old.cond, old.row, old.todo, old.decision,
                                      old.left \ {k}, seen)
    OBVIOUS
  <1>5. /\ s.op = "read" /\ s.cond = old.cond /\ s.todo = old.todo
        /\ s.decision = old.decision /\ s.left = old.left \ {k} /\ s.seen = seen
    BY <1>4 DEF Reading
  <1>6. s \in ActorStates
    <2>1. TypeOK'
      BY RowStep DEF KeepInv, RowInv, IInv
    <2>2. QED
      BY <1>1, <1>2, <1>3, <1>4, <2>1 DEF Becomes, IInv, TypeOK
  <1>7. Pending(s) = Pending(old) /\ Unjournaled(s) = Unjournaled(old)
    BY <1>2, <1>5 DEF Pending, Unjournaled
  <1>8. Events' = Events
    BY <1>2 DEF Events
  <1>9. KeepsUp(Pending(s), Unjournaled(s))'
    BY <1>2, <1>7, <1>8, QuietStep
  <1>10. ReferencesFresh(s.decision) =>
           \A j \in Keys(s.decision) \ s.left : s.seen[j] = reference[j]
    <2>1. old.seen \in [Keys(old.decision) -> Seen]
      BY <1>2, StateFields
    <2>2. \A j \in Keys(old.decision) : seen[j] = IF j = k THEN reference[k] ELSE old.seen[j]
      BY <1>4, <2>1
    <2>3. ReferencesFresh(old.decision) =>
            \A j \in Keys(old.decision) \ old.left : old.seen[j] = reference[j]
      BY <1>2 DEF HeldEvaluation
    <2>4. QED
      BY <1>5, <2>2, <2>3
  <1>11. HeldEvaluation(s)'
    <2>1. ReferencesFresh(s.decision)' <=> ReferencesFresh(s.decision)
      BY <1>2 DEF ReferencesFresh
    <2>2. QED
      BY <1>2, <1>5, <1>7, <1>10, <2>1 DEF HeldEvaluation
  <1>12. QED
    BY <1>3, <1>4, <1>6, <1>9, <1>11, OneActorMoves
(* A dependent whose standing is that evaluation needs no visit; another is *)
(* to be saved.                                                             *)
LEMMA ComparingKeeps ==
  ASSUME KeepInv, OneActor, NEW a \in Actors, [Next]_vars, CompareStanding(a)
  PROVE  KeepInv'
  <1>1. PICK old, d, e : old = actor[a] /\ d = old.decision /\ e = EvaluationOf(d, old.seen)
    OBVIOUS
  <1>2. /\ IInv /\ KeepsUp(Pending(old), Unjournaled(old)) /\ HeldEvaluation(old)
        /\ old.op = "read" /\ UNCHANGED <<rows, reference, standing, journal>>
    BY <1>1, OneActorHolds DEF CompareStanding
  <1>3. d \in Decisions /\ (ReferencesFresh(d) => e = Evaluation(d)) /\ e.decision = d
    BY <1>1, ComparedIsCurrent DEF EvaluationOf
  <1>4. /\ ReferencesFresh(d)' <=> ReferencesFresh(d)
        /\ ReferencesFresh(d) => Evaluation(d)' = e
        /\ Events' = Events
    BY <1>2, <1>3, EvaluationStays DEF Events, ReferencesFresh
  <1>5. KeepsUp(Pending(old), {})'
    <2>1. Unjournaled(old) = {}
      BY <1>2 DEF Unjournaled
    <2>2. QED
      BY <1>2, <1>4, <2>1, QuietStep
  <1>6. TypeOK'
    BY RowStep DEF KeepInv, RowInv, IInv
  <1>7. ASSUME Unchanged(d, e) PROVE KeepInv'
    <2>1. PICK s : s = Dispatching(old.cond, old.row, old.todo)
      OBVIOUS
    <2>2. Becomes(a, s) /\ s.op = "dispatch" /\ s.cond = old.cond /\ s.todo = old.todo
      BY <1>1, <1>7, <2>1 DEF CompareStanding, Dispatching
    <2>3. s \in ActorStates
      BY <1>2, <1>6, <2>2 DEF Becomes, IInv, TypeOK
    <2>4. Pending(old) \subseteq Pending(s) \cup {d} /\ Pending(s) \subseteq Pending(old)
      BY <1>1, <1>2, <2>2 DEF Pending
    <2>5. standing[d] = e /\ standing[d] # NoStanding
      BY <1>7 DEF Unchanged
    <2>6. Unjournaled(s) = {}
      BY <2>2 DEF Unjournaled
    <2>7. KeepsUp(Pending(s), {})'
      BY <1>2, <1>4, <1>5, <2>4, <2>5 DEF KeepsUp
    <2>8. HeldEvaluation(s)'
      BY <1>2, <2>2, <2>4, <2>5 DEF HeldEvaluation
    <2>9. QED
      BY <2>2, <2>3, <2>6, <2>7, <2>8, OneActorMoves
  <1>8. ASSUME ~Unchanged(d, e) PROVE KeepInv'
    <2>1. PICK s : s = Saving(old.cond, old.row, old.todo, e)
      OBVIOUS
    <2>2. /\ Becomes(a, s) /\ s.op = "save" /\ s.cond = old.cond /\ s.todo = old.todo
          /\ s.evaluation = e
      BY <1>1, <1>8, <2>1 DEF CompareStanding, Saving
    <2>3. s \in ActorStates
      BY <1>2, <1>6, <2>2 DEF Becomes, IInv, TypeOK
    <2>4. Pending(s) = Pending(old) /\ Unjournaled(s) = {}
      BY <1>1, <1>2, <1>3, <2>2 DEF Pending, Unjournaled
    <2>5. HeldEvaluation(s)'
      BY <1>2, <1>3, <1>4, <2>2, <2>4 DEF HeldEvaluation
    <2>6. QED
      BY <1>5, <2>2, <2>3, <2>4, <2>5, OneActorMoves
  <1>9. QED
    BY <1>7, <1>8

(* The saved standing is the evaluation of the references, ...              *)
LEMMA SavingKeeps ==
  ASSUME KeepInv, OneActor, NEW a \in Actors, [Next]_vars, SaveStanding(a)
  PROVE  KeepInv'
  <1>1. PICK old, e, d : old = actor[a] /\ e = old.evaluation /\ d = e.decision
    OBVIOUS
  <1>2. /\ IInv /\ KeepsUp(Pending(old), Unjournaled(old)) /\ HeldEvaluation(old)
        /\ old.op = "save" /\ UNCHANGED <<rows, reference, journal>>
        /\ standing' = [standing EXCEPT ![d] = e] /\ old \in ActorStates
    BY <1>1, OneActorHolds DEF SaveStanding
  <1>3. /\ e \in Evaluations /\ d \in Decisions /\ e # NoStanding
        /\ ReferencesFresh(d) => e = Evaluation(d)
    BY <1>1, <1>2, StateFields, EvaluationType, NoStandingIsNone DEF HeldEvaluation
  <1>4. PICK s : s = Journaling(old.cond, old.row, old.todo, e)
    OBVIOUS
  <1>5. /\ Becomes(a, s) /\ s.op = "journal" /\ s.cond = old.cond /\ s.todo = old.todo
        /\ s.evaluation = e
    BY <1>1, <1>4 DEF SaveStanding, Journaling
  <1>6. s \in ActorStates
    <2>1. TypeOK'
      BY RowStep DEF KeepInv, RowInv, IInv
    <2>2. QED
      BY <1>2, <1>5, <2>1 DEF Becomes, IInv, TypeOK
  <1>7. \A b \in Decisions : standing'[b] = IF b = d THEN e ELSE standing[b]
    BY <1>2 DEF IInv, TypeOK
  <1>8. /\ Pending(old) = Pending(s) \cup {d} /\ Unjournaled(old) = {} /\ Unjournaled(s) = {d}
    BY <1>1, <1>2, <1>3, <1>5 DEF Pending, Unjournaled
  <1>9. /\ \A b \in Decisions : Evaluation(b)' = Evaluation(b)
        /\ \A b \in Decisions : ReferencesFresh(b)' <=> ReferencesFresh(b)
        /\ Events' = Events
    BY <1>2, EvaluationStays DEF ReferencesFresh, Events
  <1>10. KeepsUp(Pending(s), {d})'
    BY <1>2, <1>3, <1>7, <1>8, <1>9 DEF KeepsUp
  <1>11. HeldEvaluation(s)'
    <2>1. \A b \in Dependents(s.cond) \ Pending(s) : standing'[b] # NoStanding
      <3>1. Dependents(s.cond) \subseteq Decisions
        BY DEF Dependents
      <3>2. QED
        BY <1>2, <1>3, <1>5, <1>7, <1>8, <3>1 DEF HeldEvaluation
    <2>2. standing'[s.evaluation.decision] = s.evaluation
      BY <1>1, <1>3, <1>5, <1>7
    <2>3. QED
      BY <1>5, <2>1, <2>2 DEF HeldEvaluation
  <1>12. QED
    BY <1>5, <1>6, <1>8, <1>10, <1>11, OneActorMoves

(* ... and the journal has it before the next dependent is visited.         *)
LEMMA JournalingKeeps ==
  ASSUME KeepInv, OneActor, NEW a \in Actors, [Next]_vars, WriteJournal(a)
  PROVE  KeepInv'
  <1>1. PICK old, e, d : old = actor[a] /\ e = old.evaluation /\ d = e.decision
    OBVIOUS
  <1>2. /\ IInv /\ KeepsUp(Pending(old), Unjournaled(old)) /\ HeldEvaluation(old)
        /\ old.op = "journal" /\ UNCHANGED <<rows, reference, standing>>
        /\ journal' = Append(journal, StandingEvent(e))
    BY <1>1, OneActorHolds DEF WriteJournal
  <1>3. Events \subseteq Events' /\ StandingEvent(e) \in Events'
    BY <1>2, EventsGrow
  <1>4. PICK s : s = Dispatching(old.cond, old.row, old.todo)
    OBVIOUS
  <1>5. Becomes(a, s) /\ s.op = "dispatch" /\ s.cond = old.cond /\ s.todo = old.todo
    BY <1>1, <1>4 DEF WriteJournal, Dispatching
  <1>6. s \in ActorStates
    <2>1. TypeOK'
      BY RowStep DEF KeepInv, RowInv, IInv
    <2>2. QED
      BY <1>2, <1>5, <2>1 DEF Becomes, IInv, TypeOK
  <1>7. Pending(s) = Pending(old) /\ Unjournaled(s) = {}
    BY <1>2, <1>5 DEF Pending, Unjournaled
  <1>8. Unjournaled(old) \subseteq {d} /\ standing[d] = e
    BY <1>1, <1>2 DEF Unjournaled, HeldEvaluation
  <1>9. KeepsUp(Pending(old), Unjournaled(old))'
    BY <1>2, <1>3, QuietStep
  <1>10. KeepsUp(Pending(s), {})'
    BY <1>2, <1>3, <1>7, <1>8, <1>9 DEF KeepsUp
  <1>11. HeldEvaluation(s)'
    BY <1>2, <1>5, <1>7 DEF HeldEvaluation
  <1>12. QED
    BY <1>5, <1>6, <1>7, <1>10, <1>11, OneActorMoves

(* A delivery, or nothing at all.                                           *)
LEMMA StandingAsideKeeps ==
  ASSUME KeepInv, OneActor, [Next]_vars, UNCHANGED <<reference, standing, journal, actor>>
  PROVE  KeepInv'
  <1>1. IInv /\ RowInv' /\ Events' = Events
    BY RowStep DEF KeepInv, RowInv, Events
  <1>2. PICK P, U : /\ P = UNION {Pending(actor[a]) : a \in Actors}
                    /\ U = UNION {Unjournaled(actor[a]) : a \in Actors}
    OBVIOUS
  <1>3. KeepsUp(P, U)'
    BY <1>1, <1>2, QuietStep DEF KeepInv
  <1>4. /\ P = UNION {Pending(actor'[a]) : a \in Actors}
        /\ U = UNION {Unjournaled(actor'[a]) : a \in Actors}
    BY <1>2
  <1>5. ASSUME NEW a \in Actors PROVE HeldEvaluation(actor[a])'
    <2>1. PICK s \in ActorStates : s = actor[a] /\ HeldEvaluation(s)
      BY <1>1 DEF KeepInv, IInv, TypeOK
    <2>2. HeldEvaluation(s)' /\ s = actor'[a]
      BY <1>1, <2>1, HeldStays
    <2>3. QED
      BY <2>2 DEF HeldEvaluation
  <1>6. KeepsUp(UNION {Pending(actor[a]) : a \in Actors},
                UNION {Unjournaled(actor[a]) : a \in Actors})'
    BY <1>3, <1>4 DEF KeepsUp
  <1>7. QED
    BY <1>1, <1>5, <1>6 DEF KeepInv

(* A reference that falls due keeps its dependents from being called        *)
(* current, and what was read of it from being called what is stored.       *)
LEMMA FallingDueKeeps ==
  ASSUME KeepInv, OneActor, NEW c \in Conditions, [Next]_vars, FallDue(c)
  PROVE  KeepInv'
  <1>1. IInv /\ RowInv' /\ UNCHANGED <<standing, journal, actor>> /\ Events' = Events
    BY RowStep DEF KeepInv, RowInv, FallDue, Events
  <1>2. PICK due : due = [row |-> reference[c].row, fresh |-> FALSE]
    OBVIOUS
  <1>3. /\ \A k \in Conditions : reference'[k] = IF k = c THEN due ELSE reference[k]
        /\ ~due.fresh /\ due # NoReference
    <2>1. [row |-> reference[c].row, fresh |-> FALSE] \in References
      BY <1>1 DEF FallDue, IInv, TypeOK, Seen, References
    <2>2. due.fresh = FALSE
      BY <1>2
    <2>3. QED
      BY <1>1, <1>2, <2>1, <2>2, NoReferenceIsNone DEF FallDue, IInv, TypeOK
  <1>4. ASSUME NEW d \in Decisions, c \in Keys(d) PROVE ~ReferencesFresh(d)'
    BY <1>3, <1>4 DEF ReferencesFresh
  <1>5. ASSUME NEW d \in Decisions, c \notin Keys(d)
        PROVE  /\ Evaluation(d)' = Evaluation(d)
               /\ ReferencesFresh(d)' <=> ReferencesFresh(d)
               /\ \A k \in Keys(d) : reference'[k] = reference[k]
    <2>1. \A k \in Keys(d) : reference'[k] = reference[k]
      BY <1>3, <1>5, SpecKey DEF Keys
    <2>2. QED
      BY <1>1, <2>1, EvaluationStays DEF ReferencesFresh
  <1>6. PICK P, U : /\ P = UNION {Pending(actor[a]) : a \in Actors}
                    /\ U = UNION {Unjournaled(actor[a]) : a \in Actors}
    OBVIOUS
  <1>7. KeepsUp(P, U)
    BY <1>6 DEF KeepInv
  <1>8. KeepsUp(P, U)'
    BY <1>1, <1>4, <1>5, <1>7 DEF KeepsUp
  <1>9. ASSUME NEW a \in Actors PROVE HeldEvaluation(actor[a])'
    <2>1. PICK s \in ActorStates : s = actor[a] /\ HeldEvaluation(s)
      BY <1>1 DEF KeepInv, IInv, TypeOK
    <2>2. /\ s.op = "read" => s.decision \in Decisions
          /\ s.op = "save" => s.evaluation.decision \in Decisions
      BY StateFields, EvaluationType
    <2>3. HeldEvaluation(s)'
      BY <1>1, <1>4, <1>5, <2>1, <2>2 DEF HeldEvaluation
    <2>4. s = actor'[a]
      BY <1>1, <2>1
    <2>5. QED
      BY <2>3, <2>4 DEF HeldEvaluation
  <1>10. /\ P = UNION {Pending(actor'[a]) : a \in Actors}
         /\ U = UNION {Unjournaled(actor'[a]) : a \in Actors}
    BY <1>1, <1>6
  <1>11. KeepsUp(UNION {Pending(actor[a]) : a \in Actors},
                 UNION {Unjournaled(actor[a]) : a \in Actors})'
    BY <1>8, <1>10 DEF KeepsUp
  <1>12. QED
    BY <1>1, <1>9, <1>11 DEF KeepInv

LEMMA KeepInvariant ==
  ASSUME OneActor, ~MayCrash
  PROVE  Spec => []KeepInv
  <1>1. Init => KeepInv
    <2> SUFFICES ASSUME Init PROVE KeepInv
      OBVIOUS
    <2>1. RowInv /\ \A d \in Decisions : standing[d] = NoStanding
      BY InitRowInv DEF Init
    <2>2. \A a \in Actors : HeldEvaluation(actor[a])
      BY DEF Init, HeldEvaluation, Idle
    <2>3. QED
      BY <2>1, <2>2 DEF KeepInv, KeepsUp
  <1>2. KeepInv /\ [Next]_vars => KeepInv'
    <2> SUFFICES ASSUME KeepInv, [Next]_vars PROVE KeepInv'
      OBVIOUS
    <2>1. ASSUME NEW c \in Conditions, NEW v \in Values, Deliver(c, v) PROVE KeepInv'
      BY <2>1, StandingAsideKeeps DEF Deliver
    <2>2. CASE UNCHANGED vars
      BY <2>2, StandingAsideKeeps DEF vars
    <2>3. ASSUME NEW a \in Actors, NEW c \in Conditions, StartPromotion(a, c) \/ StartStale(a, c)
          PROVE  KeepInv'
      BY <2>3, BeginningKeeps
    <2>4. ASSUME NEW a \in Actors, Step(a) PROVE KeepInv'
      BY <2>4, MarkingKeeps, SavedReferenceKeeps, VisitingKeeps, ReadingKeeps, ComparingKeeps,
         SavingKeeps, JournalingKeeps, EndingKeeps, SavedStaleKeeps DEF Step
    <2>5. ASSUME NEW a \in Actors, Crash(a) PROVE FALSE
      BY <2>5 DEF Crash
    <2>6. ASSUME NEW c \in Conditions, FallDue(c) PROVE KeepInv'
      BY <2>6, FallingDueKeeps
    <2>7. QED
      BY <2>1, <2>2, <2>3, <2>4, <2>5, <2>6 DEF Next
  <1>3. QED
    BY <1>1, <1>2, PTL DEF Spec

(* "Promotes accepted evidence, and re-evaluates every dependent decision": *)
(* where one process writes the store and does not die, the hot standing of *)
(* every decision is, at rest and with no condition stale or due, the       *)
(* evaluation of the references stored.  (promote_acceptance)               *)
THEOREM AtRestAllIsCurrent ==
  ASSUME OneActor, ~MayCrash
  PROVE  Spec => []RestingStandingIsCurrent
  <1>1. KeepInv => RestingStandingIsCurrent
    <2> SUFFICES ASSUME KeepInv, AtRest, NEW d \in Decisions, standing[d] # NoStanding,
                        \A c \in Conditions : reference[c] # NoReference => reference[c].fresh
                 PROVE  standing[d] = Evaluation(d)
      BY DEF RestingStandingIsCurrent
    <2>1. \A a \in Actors : Pending(actor[a]) = {}
      BY NothingPending DEF AtRest, Idle
    <2>2. ReferencesFresh(d)
      BY SpecKey DEF ReferencesFresh, Keys
    <2>3. d \notin UNION {Pending(actor[a]) : a \in Actors}
      BY <2>1
    <2>4. QED
      BY <2>2, <2>3 DEF KeepInv, KeepsUp
  <1>2. QED
    BY <1>1, KeepInvariant, PTL

(* And when a promotion ends, the hot standing of each of its dependents is *)
(* somewhere in the journal: one that was skipped was journaled when it was *)
(* saved, with later events after it perhaps.                               *)
(* (write_standing_change)                                                  *)
THEOREM DependentsAreJournaled ==
  ASSUME OneActor, ~MayCrash
  PROVE  Spec => []PromotedStandingIsJournaled
  <1>1. KeepInv => PromotedStandingIsJournaled
    <2> SUFFICES ASSUME KeepInv, NEW a \in Actors, actor[a].op = "dispatch", actor[a].todo = {},
                        NEW d \in Dependents(actor[a].cond)
                 PROVE  StandingEvent(standing[d]) \in Events
      BY DEF PromotedStandingIsJournaled
    <2>1. KeepsUp(Pending(actor[a]), Unjournaled(actor[a])) /\ HeldEvaluation(actor[a])
      BY OneActorHolds
    <2>2. Pending(actor[a]) = {} /\ Unjournaled(actor[a]) = {}
      BY DEF Pending, Unjournaled
    <2>3. d \in Decisions /\ standing[d] # NoStanding
      BY <2>1, <2>2 DEF HeldEvaluation, Dependents
    <2>4. QED
      BY <2>1, <2>2, <2>3 DEF KeepsUp
  <1>2. QED
    BY <1>1, KeepInvariant, PTL
=============================================================================
