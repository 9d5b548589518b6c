------------------------------- MODULE Promotion -------------------------------
(***************************************************************************)
(* How accepted evidence reaches the decisions that depend on it:          *)
(* ReviewerTools.promote_acceptance, mark_condition_stale and              *)
(* write_standing_change, run by several threads or processes over one     *)
(* MemoryStore.  Every call to the store is a step of its own, so actors   *)
(* interleave between any two of them and may crash there.                 *)
(*                                                                         *)
(* A condition's ledger is the sequence of its heads: row n is the fact    *)
(* that heads the ledger once n rows are known (module TemporalLedger is   *)
(* about when a row does).  A condition without a reference is judged by    *)
(* the plain condition entity, if one is on file: nothing in the product   *)
(* writes one, so what is on file is a constant.  Waivers are left to      *)
(* ActionRecords; of time only what it does to a reference is kept.        *)
(***************************************************************************)
EXTENDS Evaluator, Sequences

CONSTANTS Actors,       \* threads or processes that share the store
          Decisions,    \* decision ids
          ConditionsOf, \* the approved condition specs of each decision
          Plain,        \* Plain[c]: the condition entity on file, or NoCurrent
          Dated,        \* conditions promoted with max_age or a recheck interval
          NoReference,  \* no condition reference stored yet
          NoStanding,   \* no hot standing stored yet
          MaxRows,      \* BOUND: rows delivered per condition
          MaxRuns,      \* BOUND: operations started per actor
          MayCrash      \* TRUE: an actor may die between two store calls

ASSUME ConditionsOfType == ConditionsOf \in [Decisions -> SUBSET Specs]
ASSUME PlainType == Plain \in [Conditions -> Records \cup {NoCurrent}]
ASSUME DatedType == Dated \subseteq Conditions
ASSUME BoundsType == MaxRows \in Nat /\ MaxRuns \in Nat
ASSUME MayCrashType == MayCrash \in BOOLEAN

VARIABLES rows,       \* rows[c]: the successive heads of condition c's ledger
          accepted,   \* accepted[c]: the rows marked accepted
          reference,  \* reference[c]: the evaluator-facing accepted record,
                      \* fresh until it is marked stale or falls due
          standing,   \* standing[d]: the hot state save_standing wrote
          journal,    \* the append-only event log
          actor,      \* what each actor is in the middle of
          runs        \* operations each actor has started

vars == <<rows, accepted, reference, standing, journal, actor, runs>>

RowNumbers == 1..MaxRows
References == [row : RowNumbers, fresh : BOOLEAN]
Dependents(c) == {d \in Decisions : \E s \in ConditionsOf[d] : s.key = c}
Keys(d) == {s.key : s \in ConditionsOf[d]}

Seen == References \cup {NoReference}

Evaluations ==
  UNION {[decision : {d}, state : States, action : {"allow", "block"},
          seen : [Keys(d) -> Seen]] : d \in Decisions}

ASSUME NoReferenceIsNone == NoReference \notin References
ASSUME NoStandingIsNone == NoStanding \notin Evaluations

RecordOf(c, ref) ==
  [value |-> rows[c][ref.row], unit |-> NoUnit, fresh |-> ref.fresh, contested |-> FALSE]

(* Mutant: the stale marker of a reference is not looked at. *)
CurrentIgnoringStale(c, ref) ==
  IF ref = NoReference THEN Plain[c] ELSE [RecordOf(c, ref) EXCEPT !.fresh = TRUE]

(* _current_condition: the record the evaluator sees of a reference or,     *)
(* where there is none, the plain entity as it is.                          *)
Current(c, ref) == IF ref = NoReference THEN Plain[c] ELSE RecordOf(c, ref)

CurrentRecords(d, seen) ==
  [c \in Conditions |-> IF c \in Keys(d) THEN Current(c, seen[c]) ELSE NoCurrent]

(* evaluate_standing of the references read; its fingerprint covers them. *)
EvaluationOf(d, seen) ==
  [decision |-> d,
   state |-> DecisionState(ConditionsOf[d], CurrentRecords(d, seen)),
   action |-> Verdict(ConditionsOf[d], CurrentRecords(d, seen)),
   seen |-> seen]

Idle == [op |-> "idle"]
Marking(c, n, todo) == [op |-> "mark", cond |-> c, row |-> n, todo |-> todo]
Referencing(c, n) == [op |-> "reference", cond |-> c, row |-> n]
Dispatching(c, n, todo) == [op |-> "dispatch", cond |-> c, row |-> n, todo |-> todo]
Reading(c, n, todo, d, left, seen) ==
  [op |-> "read", cond |-> c, row |-> n, todo |-> todo,
   decision |-> d, left |-> left, seen |-> seen]
Saving(c, n, todo, e) ==
  [op |-> "save", cond |-> c, row |-> n, todo |-> todo, evaluation |-> e]
Journaling(c, n, todo, e) ==
  [op |-> "journal", cond |-> c, row |-> n, todo |-> todo, evaluation |-> e]
Staling(c, ref) == [op |-> "stale", cond |-> c, ref |-> ref]
Announcing(c) == [op |-> "announce", cond |-> c]

StandingEvent(e) == [event |-> "standing", evaluation |-> e]
PromotedEvent(c, n) == [event |-> "promoted", cond |-> c, row |-> n]
StaleEvent(c) == [event |-> "stale", cond |-> c]
Events == {journal[i] : i \in DOMAIN journal}

Init ==
  /\ rows = [c \in Conditions |-> <<>>]
  /\ accepted = [c \in Conditions |-> {}]
  /\ reference = [c \in Conditions |-> NoReference]
  /\ standing = [d \in Decisions |-> NoStanding]
  /\ journal = <<>>
  /\ actor = [a \in Actors |-> Idle]
  /\ runs = [a \in Actors |-> 0]

Becomes(a, s) == actor' = [actor EXCEPT ![a] = s]

-----------------------------------------------------------------------------
(* A new effective period is recorded and heads the ledger. *)
Deliver(c, v) ==
  /\ Len(rows[c]) < MaxRows
  /\ rows' = [rows EXCEPT ![c] = Append(@, v)]
  /\ UNCHANGED <<accepted, reference, standing, journal, actor, runs>>

(* Mutant: the range of the rows runs one past the end. *)
StartPastEnd(a, c) ==
  /\ actor[a] = Idle /\ runs[a] < MaxRuns /\ rows[c] # <<>>
  /\ runs' = [runs EXCEPT ![a] = @ + 1]
  /\ Becomes(a, Marking(c, Len(rows[c]), 1..Len(rows[c]) + 1))
  /\ UNCHANGED <<rows, accepted, reference, standing, journal>>

(* Mutant: the reference is written before the rows are marked. *)
StartUnmarked(a, c) ==
  /\ actor[a] = Idle /\ runs[a] < MaxRuns /\ rows[c] # <<>>
  /\ runs' = [runs EXCEPT ![a] = @ + 1]
  /\ Becomes(a, Referencing(c, Len(rows[c])))
  /\ UNCHANGED <<rows, accepted, reference, standing, journal>>

(* Mutant: any row can be promoted, not the head. *)
StartAnyRow(a, c) ==
  /\ actor[a] = Idle /\ runs[a] < MaxRuns /\ rows[c] # <<>>
  /\ runs' = [runs EXCEPT ![a] = @ + 1]
  /\ \E n \in 1..Len(rows[c]) : Becomes(a, Marking(c, n, 1..n))
  /\ UNCHANGED <<rows, accepted, reference, standing, journal>>

(* The caller reads the rows and checks them; check_acceptance accepts them *)
(* or not for reasons outside this module.  promote_acceptance then keeps   *)
(* to the rows it was handed, however many are recorded meanwhile.          *)
StartPromotion(a, c) ==
  /\ actor[a] = Idle
  /\ runs[a] < MaxRuns
  /\ rows[c] # <<>>
  /\ runs' = [runs EXCEPT ![a] = @ + 1]
  /\ Becomes(a, Marking(c, Len(rows[c]), 1..Len(rows[c])))
  /\ UNCHANGED <<rows, accepted, reference, standing, journal>>

(* One save_observation of the marking loop. *)
MarkRow(a) ==
  /\ actor[a].op = "mark"
  /\ \E n \in actor[a].todo :
       LET c == actor[a].cond
           left == actor[a].todo \ {n}
       IN /\ accepted' = [accepted EXCEPT ![c] = @ \cup {n}]
          /\ Becomes(a, IF left = {} THEN Referencing(c, actor[a].row)
                        ELSE Marking(c, actor[a].row, left))
  /\ UNCHANGED <<rows, reference, standing, journal, runs>>

(* save_condition_reference, then list_decisions: the dependents to visit. *)
SaveReference(a) ==
  /\ actor[a].op = "reference"
  /\ LET c == actor[a].cond
         n == actor[a].row
     IN /\ reference' = [reference EXCEPT ![c] = [row |-> n, fresh |-> TRUE]]
        /\ Becomes(a, Dispatching(c, n, Dependents(c)))
  /\ UNCHANGED <<rows, accepted, standing, journal, runs>>

(* evaluate_standing of the next dependent reads its references ... *)
VisitDependent(a) ==
  /\ actor[a].op = "dispatch"
  /\ \E d \in actor[a].todo :
       Becomes(a, Reading(actor[a].cond, actor[a].row, actor[a].todo \ {d},
                          d, Keys(d), [k \in Keys(d) |-> NoReference]))
  /\ UNCHANGED <<rows, accepted, reference, standing, journal, runs>>

(* ... one by one. *)
ReadReference(a) ==
  /\ actor[a].op = "read"
  /\ \E k \in actor[a].left :
       LET s == actor[a]
       IN Becomes(a, Reading(s.cond, s.row, s.todo, s.decision, s.left \ {k},
                             [s.seen EXCEPT ![k] = reference[k]]))
  /\ UNCHANGED <<rows, accepted, reference, standing, journal, runs>>

(* Mutant: only the action is compared. *)
SameAction(d, e) == standing[d] # NoStanding /\ standing[d].action = e.action

(* A dependent whose hot state already shows this very evaluation (its      *)
(* fingerprint and action) is skipped.                                      *)
Unchanged(d, e) == standing[d] # NoStanding /\ standing[d] = e

CompareStanding(a) ==
  /\ actor[a].op = "read"
  /\ actor[a].left = {}
  /\ LET s == actor[a]
         e == EvaluationOf(s.decision, s.seen)
     IN Becomes(a, IF Unchanged(s.decision, e) THEN Dispatching(s.cond, s.row, s.todo)
                   ELSE Saving(s.cond, s.row, s.todo, e))
  /\ UNCHANGED <<rows, accepted, reference, standing, journal, runs>>

(* Mutant: the change is not journaled. *)
SaveOnly(a) ==
  /\ actor[a].op = "save"
  /\ LET s == actor[a]
     IN /\ standing' = [standing EXCEPT ![s.evaluation.decision] = s.evaluation]
        /\ Becomes(a, Dispatching(s.cond, s.row, s.todo))
  /\ UNCHANGED <<rows, accepted, reference, journal, runs>>

(* write_standing_change: the hot state first, ... *)
SaveStanding(a) ==
  /\ actor[a].op = "save"
  /\ LET s == actor[a]
     IN /\ standing' = [standing EXCEPT ![s.evaluation.decision] = s.evaluation]
        /\ Becomes(a, Journaling(s.cond, s.row, s.todo, s.evaluation))
  /\ UNCHANGED <<rows, accepted, reference, journal, runs>>

(* ... then the journal. *)
WriteJournal(a) ==
  /\ actor[a].op = "journal"
  /\ LET s == actor[a]
     IN /\ journal' = Append(journal, StandingEvent(s.evaluation))
        /\ Becomes(a, Dispatching(s.cond, s.row, s.todo))
  /\ UNCHANGED <<rows, accepted, reference, standing, runs>>

(* The condition_acceptance_promoted event ends the promotion. *)
FinishPromotion(a) ==
  /\ actor[a].op = "dispatch"
  /\ actor[a].todo = {}
  /\ journal' = Append(journal, PromotedEvent(actor[a].cond, actor[a].row))
  /\ Becomes(a, Idle)
  /\ UNCHANGED <<rows, accepted, reference, standing, runs>>

-----------------------------------------------------------------------------
(* mark_condition_stale reads the whole reference, ... *)
StartStale(a, c) ==
  /\ actor[a] = Idle
  /\ runs[a] < MaxRuns
  /\ reference[c] # NoReference
  /\ runs' = [runs EXCEPT ![a] = @ + 1]
  /\ Becomes(a, Staling(c, reference[c]))
  /\ UNCHANGED <<rows, accepted, reference, standing, journal>>

(* ... writes it back with the unsafe marker, ... *)
SaveStale(a) ==
  /\ actor[a].op = "stale"
  /\ reference' = [reference EXCEPT ![actor[a].cond] =
                                   [row |-> actor[a].ref.row, fresh |-> FALSE]]
  /\ Becomes(a, Announcing(actor[a].cond))
  /\ UNCHANGED <<rows, accepted, standing, journal, runs>>

(* ... and journals the marking; the dependents are not re-evaluated. *)
FinishStale(a) ==
  /\ actor[a].op = "announce"
  /\ journal' = Append(journal, StaleEvent(actor[a].cond))
  /\ Becomes(a, Idle)
  /\ UNCHANGED <<rows, accepted, reference, standing, runs>>

(* Time passes max_age_seconds or next_check_at of a reference: nothing is  *)
(* stored, _apply_condition_freshness finds it stale from then on.          *)
FallDue(c) ==
  /\ c \in Dated
  /\ reference[c] # NoReference
  /\ reference[c].fresh
  /\ reference' = [reference EXCEPT ![c] = [row |-> reference[c].row, fresh |-> FALSE]]
  /\ UNCHANGED <<rows, accepted, standing, journal, actor, runs>>

(* A process dies, or a store call raises, between two store calls. *)
Crash(a) ==
  /\ MayCrash
  /\ actor[a] # Idle
  /\ Becomes(a, Idle)
  /\ UNCHANGED <<rows, accepted, reference, standing, journal, runs>>

Step(a) ==
  \/ MarkRow(a) \/ SaveReference(a) \/ VisitDependent(a) \/ ReadReference(a)
  \/ CompareStanding(a) \/ SaveStanding(a) \/ WriteJournal(a) \/ FinishPromotion(a)
  \/ SaveStale(a) \/ FinishStale(a)

Next ==
  \/ \E c \in Conditions, v \in Values : Deliver(c, v)
  \/ \E c \in Conditions : FallDue(c)
  \/ \E a \in Actors, c \in Conditions : StartPromotion(a, c) \/ StartStale(a, c)
  \/ \E a \in Actors : Step(a) \/ Crash(a)

Spec == Init /\ [][Next]_vars

-----------------------------------------------------------------------------
ReadStates ==
  UNION {[op : {"read"}, cond : Conditions, row : RowNumbers, todo : SUBSET Decisions,
          decision : {d}, left : SUBSET Keys(d), seen : [Keys(d) -> Seen]] : d \in Decisions}

ActorStates ==
  {Idle}
    \cup [op : {"mark"}, cond : Conditions, row : RowNumbers, todo : SUBSET RowNumbers]
    \cup [op : {"reference"}, cond : Conditions, row : RowNumbers]
    \cup [op : {"dispatch"}, cond : Conditions, row : RowNumbers, todo : SUBSET Decisions]
    \cup ReadStates
    \cup [op : {"save", "journal"}, cond : Conditions, row : RowNumbers,
          todo : SUBSET Decisions, evaluation : Evaluations]
    \cup [op : {"stale"}, cond : Conditions, ref : References]
    \cup [op : {"announce"}, cond : Conditions]

EventSet ==
  [event : {"standing"}, evaluation : Evaluations]
    \cup [event : {"promoted"}, cond : Conditions, row : RowNumbers]
    \cup [event : {"stale"}, cond : Conditions]

TypeOK ==
  /\ rows \in [Conditions -> Seq(Values)]
  /\ \A c \in Conditions : Len(rows[c]) <= MaxRows
  /\ accepted \in [Conditions -> SUBSET RowNumbers]
  /\ reference \in [Conditions -> Seen]
  /\ standing \in [Decisions -> Evaluations \cup {NoStanding}]
  /\ journal \in Seq(EventSet)
  /\ actor \in [Actors -> ActorStates]
  /\ runs \in [Actors -> 0..MaxRuns]

(* The evaluator never reads a reference whose evidence is not marked       *)
(* accepted in the ledger, however promotions and stale markings interleave *)
(* and wherever they die: rows are marked before the reference points to    *)
(* them, and a stale marking only writes back a reference it has read.      *)
BackedReference ==
  \A c \in Conditions :
    reference[c] # NoReference => reference[c].row \in accepted[c]

(* What was read of a condition that may block proves it: a reference,      *)
(* fresh when it was read, to an accepted row that satisfies the condition, *)
(* or, where there was no reference, a plain entity that does.              *)
ProvenBy(spec, seen) ==
  IF seen = NoReference THEN Proven(spec, Plain[spec.key])
  ELSE /\ seen.fresh
       /\ seen.row \in accepted[spec.key]
       /\ spec.predicate \in Predicates
       /\ Match[spec.predicate][rows[spec.key][seen.row]] = "pass"

ProvenAllow(e) ==
  e.action = "allow" =>
    \A s \in ConditionsOf[e.decision] : MayBlock(s) => ProvenBy(s, e.seen[s.key])

(* No allow without proof: whatever hot standing or journal entry says      *)
(* "allow" rests, for every required condition, on fresh accepted evidence  *)
(* or, before any was accepted, on the condition entity on file.            *)
(* (write_standing_change, promote_acceptance, evaluate_standing)           *)
AllowsAreProven ==
  /\ \A d \in Decisions : standing[d] # NoStanding => ProvenAllow(standing[d])
  /\ \A e \in Events : e.event = "standing" => ProvenAllow(e.evaluation)

(* The evaluation of the references stored now. *)
Evaluation(d) == EvaluationOf(d, [c \in Keys(d) |-> reference[c]])

AtRest == \A a \in Actors : actor[a] = Idle

(* At rest, with no condition stale or due, the hot standing of every       *)
(* decision is the evaluation of the references stored now: "promotes       *)
(* accepted evidence, and re-evaluates every dependent decision"            *)
(* (docs/audits/temporal-product.md).                                       *)
RestingStandingIsCurrent ==
  (AtRest /\ \A c \in Conditions : reference[c] # NoReference => reference[c].fresh)
    => \A d \in Decisions : standing[d] # NoStanding => standing[d] = Evaluation(d)

(* Every mutation is journaled (docs/audits/lifecycle.md): when a promotion *)
(* ends, the hot standing of each dependent is in the permanent journal.    *)
PromotedStandingIsJournaled ==
  \A a \in Actors : (actor[a].op = "dispatch" /\ actor[a].todo = {}) =>
    \A d \in Dependents(actor[a].cond) : StandingEvent(standing[d]) \in Events

(* "An older value cannot be promoted merely because it arrived later"      *)
(* (promote_acceptance): a reference never goes back to an earlier head.    *)
ReferenceNeverMovesBack ==
  [][\A c \in Conditions : reference[c] # NoReference =>
       /\ reference'[c] # NoReference
       /\ reference'[c].row >= reference[c].row]_vars
=============================================================================
