----------------------------- MODULE EvidenceGate -----------------------------
(***************************************************************************)
(* From a delivery to an accepted reference: the three flows that check    *)
(* the evidence of a condition and promote it.                             *)
(*                                                                         *)
(*   review   ReviewerTools.review_paths_with_revalidation                 *)
(*   loop     scripts/run_verifier_loop.py                                 *)
(*   approve  scripts/approve_evidence.py                                  *)
(*                                                                         *)
(* They differ in when they read the clock, in the approval they hold and  *)
(* in what they attach to the reference.  The ledger below is the one of   *)
(* module TemporalLedger; the store calls of one promotion are a single    *)
(* step here, module Promotion takes them apart.                           *)
(***************************************************************************)
EXTENDS Acceptance, TemporalLedger

CONSTANTS Imports,        \* whether links and complete rows come from outside
          Actors,         \* processes that run flows over one store; other
                          \* recorders confirm extractions
          Flows,          \* the flows they run
          StartHistory,   \* what the store knows of the observers at first
          NoReference,    \* no condition reference stored
          MaxRuns         \* BOUND: flows started per actor

ASSUME ImportsIsBoolean == Imports \in BOOLEAN
ASSUME ActorsRecord == Actors \subseteq Recorders
ASSUME FlowsAreKnown == Flows \subseteq {"review", "loop", "approve"}
ASSUME StartHistoryType == StartHistory \in [Addresses -> Nat \cup {NoHistory}]
ASSUME MaxRunsType == MaxRuns \in Nat

VARIABLES history,   \* readings_confirmed of each observer
          approvals, \* the digests of the persisted approvals
          reference, \* the evaluator-facing accepted record, with the UIDs
                     \* its flow read when it began (for the properties)
          job,       \* what each actor is in the middle of
          runs       \* flows each actor has started

vars == <<clock, ledger, receiving, imports, history, approvals, reference, job, runs>>
Persisted == <<ledger, history, approvals, reference>>

UidsOf(rows) == {r.uid : r \in rows}

References ==
  [row : UIDs, value : Values, canonical : SUBSET UIDs, acceptedAt : Times,
   aged : BOOLEAN, fresh : BOOLEAN, began : SUBSET UIDs]

ASSUME NoReferenceIsNone == NoReference \notin References

Idle == [step |-> "idle"]
Hiring(flow, now, approval, observer, began) ==
  [step |-> "hire", flow |-> flow, now |-> now, approval |-> approval,
   observer |-> observer, began |-> began]
Concluding(flow, now, approval, observer, began) ==
  [step |-> "conclude", flow |-> flow, now |-> now, approval |-> approval,
   observer |-> observer, began |-> began]
Checking(rows) == [step |-> "check", rows |-> rows]
Promoting(rows, value, canonical) ==
  [step |-> "promote", rows |-> rows, value |-> value, canonical |-> canonical]

Becomes(a, state) == job' = [job EXCEPT ![a] = state]

Start(a, flow, state) ==
  /\ flow \in Flows
  /\ job[a] = Idle
  /\ runs[a] < MaxRuns
  /\ runs' = [runs EXCEPT ![a] = @ + 1]
  /\ Becomes(a, state)
  /\ UNCHANGED <<clock, receiving, imports>>

Init ==
  /\ LedgerInit /\ imports = Imports
  /\ history = StartHistory
  /\ approvals = {}
  /\ reference = NoReference
  /\ job = [a \in Actors |-> Idle]
  /\ runs = [a \in Actors |-> 0]

-----------------------------------------------------------------------------
(* Mutant: a marked row is stored beside the row it was. *)
PromoteByAppending(rows, value, canonical, acceptedAt, aged, began) ==
  /\ CanonicalHead(rows, acceptedAt) # NoRow
  /\ ledger' = ledger \cup {[r EXCEPT !.accepted = TRUE] : r \in rows}
  /\ reference' = [row |-> CanonicalHead(rows, acceptedAt).uid, value |-> value,
                   canonical |-> canonical, acceptedAt |-> acceptedAt,
                   aged |-> aged, fresh |-> TRUE, began |-> began]
  /\ UNCHANGED <<receiving, approvals>>

(* promote_acceptance of rows read and checked before: it resolves them     *)
(* again at accepted_at, marks them all and stores the reference, whose     *)
(* value and canonical UIDs are those of the check.  Only the review flow   *)
(* attaches max_age_seconds and recheck_interval_seconds (aged).            *)
PromoteRows(rows, value, canonical, acceptedAt, aged, began) ==
  /\ CanonicalHead(rows, acceptedAt) # NoRow
  /\ ledger' = {[r EXCEPT !.accepted = @ \/ r.uid \in UidsOf(rows)] : r \in ledger}
  /\ reference' = [row |-> CanonicalHead(rows, acceptedAt).uid, value |-> value,
                   canonical |-> canonical, acceptedAt |-> acceptedAt,
                   aged |-> aged, fresh |-> TRUE, began |-> began]
  /\ UNCHANGED <<receiving, approvals>>

(* _current_condition: the schedule of the reference, read at the clock.    *)
ReadsFresh(ref, now) ==
  /\ ref # NoReference
  /\ ref.fresh
  /\ ref.aged => /\ MaxAge # NoTime => now - ref.acceptedAt <= MaxAge
                 /\ Recheck # NoTime => now < ref.acceptedAt + Recheck

(* ReviewerTools.check_acceptance: the policy, over the records of the      *)
(* observers as they are stored at this moment.                             *)
CheckAcceptance(rows, now, approval) == Accepts(rows, now, approval, history)

(* record_manual_approval: an approval of these rows, kept by their digest. *)
RecordManualApproval(rows) == approvals' = approvals \cup {rows}

-----------------------------------------------------------------------------
(* A review finds no rows, or stale candidates, and marks the condition     *)
(* stale before it hires.  Its clock reading and its approval are those it  *)
(* was called with, until its end.                                          *)
StartReview(a, approval, observer) ==
  /\ Start(a, "review", Hiring("review", clock, approval, observer, Recorded))
  /\ ledger = {} \/ StaleRows(ledger, clock) # {}
  /\ reference' = IF reference = NoReference THEN NoReference
                  ELSE [reference EXCEPT !.fresh = FALSE]
  /\ UNCHANGED <<ledger, history, approvals>>

(* The loop creates the record of its observer; hiring raises unless the    *)
(* policy fails.                                                            *)
StartLoop(a, approval, observer) ==
  /\ history' = [history EXCEPT ![observer] = IF @ = NoHistory THEN 0 ELSE @]
  /\ Start(a, "loop", IF Accepts(ledger, clock, approval, history') THEN Idle
                      ELSE Hiring("loop", clock, approval, observer, Recorded))
  /\ UNCHANGED <<ledger, approvals, reference>>

(* The delivery of the hired observer is stamped and linked,                *)
ReceiveHired(a) ==
  /\ job[a].step = "hire"
  /\ Stamp(a) \/ Link(a)
  /\ UNCHANGED <<imports, history, approvals, reference, job, runs>>

(* and stored, with the record of the observer.                             *)
StoreHired(a) ==
  /\ job[a].step = "hire"
  /\ StoreOf(a, {uid \in Arriving : /\ ~Origin[uid].vendor
                                    /\ Origin[uid].address = job[a].observer}, Lags)
  /\ history' = [history EXCEPT ![job[a].observer] = IF @ = NoHistory THEN 0 ELSE @]
  /\ Becomes(a, Concluding(job[a].flow, job[a].now, job[a].approval,
                           job[a].observer, job[a].began))
  /\ UNCHANGED <<imports, approvals, reference, runs>>

(* The rows are read again and checked at the clock reading of the start.   *)
(* The loop ends in a KeyError after this, before it counts the reading as  *)
(* confirmed (module VerifierLoop).                                         *)
Conclude(a) ==
  /\ job[a].step = "conclude"
  /\ LET j == job[a]
         accepted == CheckAcceptance(ledger, j.now, j.approval)
     IN /\ accepted => PromoteRows(ledger, CanonicalHead(ledger, j.now).value,
                               UidsOf(Candidates(ledger, j.now)), j.now, j.flow = "review", j.began)
        /\ ~accepted => UNCHANGED <<ledger, receiving, approvals, reference>>
  /\ Becomes(a, Idle)
  /\ UNCHANGED <<clock, imports, history, runs>>

(* approve_evidence reads the rows and persists an approval of their digest, *)
StartApproval(a) ==
  /\ Start(a, "approve", Checking(ledger))
  /\ ledger # {}
  /\ RecordManualApproval(ledger)
  /\ UNCHANGED <<ledger, history, reference>>

(* checks the rows it read, ...                                             *)
CheckApproved(a) ==
  /\ job[a].step = "check"
  /\ LET rows == job[a].rows
     IN Becomes(a, IF CheckAcceptance(rows, clock, rows)
                   THEN Promoting(rows, CanonicalHead(rows, clock).value, UidsOf(Candidates(rows, clock)))
                   ELSE Idle)
  /\ UNCHANGED <<clock, receiving, imports, Persisted, runs>>

(* ... and promotes them, with a clock reading of its own for each step.    *)
PromoteApproved(a) ==
  /\ job[a].step = "promote"
  /\ PromoteRows(job[a].rows, job[a].value, job[a].canonical, clock, FALSE, UidsOf(job[a].rows))
  /\ Becomes(a, Idle)
  /\ UNCHANGED <<clock, imports, history, runs>>

(* An actor's call raises - the hire fails or times out, a UID is taken, no *)
(* head can be promoted - or its process dies.                              *)
Abandon(a) ==
  /\ job[a] # Idle
  /\ Becomes(a, Idle)
  /\ receiving' = [receiving EXCEPT ![a] = Nothing]
  /\ UNCHANGED <<clock, imports, Persisted, runs>>

-----------------------------------------------------------------------------
(* A human-confirmed extraction of a vendor page, observed no later than    *)
(* its receipt, on its way through the same three steps.                    *)
ConfirmExtraction(p) ==
  /\ \/ Stamp(p)
     \/ LinkOf(p, {})
     \/ StoreOf(p, {uid \in Arriving : Origin[uid].vendor}, {lag \in Lags : lag <= 0})
     \/ LoseDelivery(p)
  /\ UNCHANGED <<imports, history, approvals, reference, job, runs>>

ImportRow == Import /\ UNCHANGED <<history, approvals, reference, job, runs>>

Tick == LedgerTick /\ UNCHANGED <<history, approvals, reference, job, runs>>

Next ==
  \/ ImportRow \/ Tick
  \/ \E p \in Recorders \ Actors : ConfirmExtraction(p)
  \/ \E a \in Actors, approval \in approvals \cup {NoApproval}, observer \in Addresses :
       StartReview(a, approval, observer) \/ StartLoop(a, approval, observer)
  \/ \E a \in Actors :
       \/ ReceiveHired(a) \/ StoreHired(a) \/ Conclude(a) \/ Abandon(a)
       \/ StartApproval(a) \/ CheckApproved(a) \/ PromoteApproved(a)

Spec == Init /\ [][Next]_vars

-----------------------------------------------------------------------------
JobStates ==
  {Idle}
    \cup [step : {"hire", "conclude"}, flow : {"review", "loop"}, now : Times,
          approval : {NoApproval} \cup SUBSET Rows, observer : Addresses,
          began : SUBSET UIDs]
    \cup [step : {"check"}, rows : SUBSET Rows]
    \cup [step : {"promote"}, rows : SUBSET Rows, value : Values, canonical : SUBSET UIDs]

TypeOK ==
  /\ LedgerTypeOK
  /\ history \in [Addresses -> Nat \cup {NoHistory}]
  /\ approvals \subseteq SUBSET Rows
  /\ reference \in References \cup {NoReference}
  /\ job \in [Actors -> JobStates]
  /\ runs \in [Actors -> 0..MaxRuns]

RowOf(uid) == CHOOSE r \in ledger : r.uid = uid

(* What reads fresh is fresh: in a store only Standing writes, a reference  *)
(* that passes its own schedule rests on rows the acceptance policy would   *)
(* still call fresh at this second, although each of the two uses a time    *)
(* stamp of its own - or on a delivery received before its review began and *)
(* saved while it ran.                                                      *)
(* (_apply_condition_freshness against check_freshness)                     *)
FreshIsFresh ==
  (~imports /\ ReadsFresh(reference, clock) /\ reference.aged) =>
    \A uid \in reference.canonical :
      \/ ~Stale(RowOf(uid), clock)
      \/ uid \notin reference.began /\ RowOf(uid).recorded < reference.acceptedAt

(* A human approved it: where the policy requires approval, the value the   *)
(* gate reads headed, at some second, exactly the rows of an approval.      *)
(* (check_manual_approval, whoever records rows meanwhile)                  *)
AcceptedWasApproved ==
  (ApprovalRequired /\ reference # NoReference) =>
    \E rows \in approvals, now \in 0..reference.acceptedAt :
      /\ CanonicalHead(rows, now) # NoRow
      /\ CanonicalHead(rows, now).value = reference.value
      /\ UidsOf(Candidates(rows, now)) = reference.canonical

-----------------------------------------------------------------------------
(* Claims of the documents that the code does not keep.                     *)

(* "Virtuals ACP: acquires fresh verification when evidence is stale or     *)
(* insufficient" (README.md): a review that ends with rows the policy       *)
(* accepts at this second leaves a reference that reads fresh.              *)
RevalidationRestores ==
  [][\A a \in Actors :
       (Conclude(a) /\ Accepts(ledger, clock, job[a].approval, history))
         => ReadsFresh(reference', clock)]_vars
=============================================================================
