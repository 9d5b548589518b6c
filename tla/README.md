# Standing: TLA+ specifications and proofs

Standing remembers engineering decisions together with the external conditions
they rest on, collects evidence about those conditions, and tells a reviewer
whether a change governed by a decision is allowed. This directory models the
parts of the program in which order, interleaving, clocks and crashes decide
whether that answer is right.

## The system and its parts

| Part | Code | State it keeps | Operations |
|---|---|---|---|
| Bitemporal resolver | `standing/temporal.py` | none | `resolve`, `valid_as_of`, `known_as_of`, history |
| Evidence ledger | `standing/memory.py`, `reviewer.py` | observation rows by UID, each with valid time, knowledge time, link, `accepted` marker | record a delivery, an extraction or a complete row; mark accepted |
| Standing evaluator | `standing/evaluator.py` | none | `evaluate_standing` |
| Acceptance policy | `standing/acceptance.py`, `approval.py`, `freshness.py`, `provenance.py` | observer counters, approvals | `check_acceptance`, `select_observer`, outcome |
| Promotion and standing changes | `standing/reviewer.py` | condition references, hot standing, journal | `promote_acceptance`, `mark_condition_stale`, `write_standing_change` |
| Flows over them | `reviewer.py`, `scripts/run_verifier_loop.py`, `scripts/approve_evidence.py` | a clock value read once or several times | revalidate, loop, approve |
| Decision lifecycle | `reviewer.py`, `lifecycle.py` | decisions, revisions, proposals | confirm, reject, revise, replace |
| Waivers and remediations | `lifecycle.py`, `reviewer.py` | waivers, remediations, stored standing, journal | issue, check, open, move, retell |
| Observer reliability | `scripts/run_verifier_loop.py`, `acceptance.py`, `reputation.py` | counters and identity of each observer | select, identify, count |
| ACP hire | `acp.py`, `scripts/acp_bridge.py`, `acp-adapter/src` | jobs on the marketplace, two child processes, deadlines | create, fund, publish, deliver, complete, give up |
| Dashboard sandbox | `standing/dashboard.py` | the same store, one controller shared by request threads | seed, break, resolve, reset |
| Model review, archive repair, chain publication, offline evaluation, command line | the other files | little or none | tool loop, restore, RPC, batch jobs |

Everything is kept in one entity store (Sibyl, an external package reached
through `standing/memory.py`): named entities that are overwritten whole, a hot
state per name and an append-only journal. There are no transactions over two
calls and no locks in this code, while the dashboard serves each request in a
thread of its own and the scripts and the command line open the same database
file from processes of their own. So two operations interleave between any two
store calls, and a process that dies leaves the calls it had made.

### What is hard

* Deliveries arrive late, out of order, and disagree; each arrival is linked
  into the ledger by what the ledger says at that moment.
* Acceptance is a property of a set of rows at one reading of the clock, and is
  applied later, by another call, to a store that has moved on.
* A promotion writes the markers, the reference, the hot standing and the
  journal one after the other, for every decision that depends on the condition.
* Freshness is judged three times, against three different time stamps.
* A hire is four parties - the bridge, the buyer, the seller, the marketplace -
  of which one may be killed while its transaction is on its way; the next hire
  meets what the last one left.
* Counters, references and whole bodies are read, changed and written back, with
  nothing that holds off another process meanwhile.

The complete list, at the lines where each one bites, is `hazards` in
`PROJECT.json`.

### What makes each part correct

| Part | It is correct when |
|---|---|
| Bitemporal resolver and ledger | history is not rewritten by what is received later; a disagreement is never settled by the order of arrival; a late reading of an old period leaves the current one alone; the links Standing infers never make the ledger unresolvable; nothing takes a supersession back |
| Evaluator | a decision is allowed exactly when every required, human-backed condition is proven; contested evidence dominates; advisory conditions and lost freshness never open the gate |
| Acceptance and the flows over it | what the gate reads was checked as one set of rows, is as fresh as it looks and, where the policy says so, was approved by a human as exactly those rows |
| Promotion | nothing says "allow" without accepted, fresh, satisfying evidence (or, where a condition has no reference, its plain entity), however operations interleave and wherever they die; hot standing and journal follow the references |
| Decision lifecycle | a path that has a governing decision keeps one at every instant; later records change no answer about what was known; revising a decision extends its history and never rewrites it; no link names a decision that is not there |
| Waivers, remediations | nothing passes against a verdict without the waiver that covered it when the verdict was used; the journal retells what is stored, and its past is fixed |
| ACP hire | a reading is published under a paid job; a retry creates no job; a hire that begins alone is answered with the reading of its own job; every hire ends |
| Observer reliability | memory never counts an outcome that was not reported; nobody is trusted without the history the policy asks for; nothing is lost while operations neither overlap nor die |
| Sandbox | the governed path keeps a decision; a reset repairs whatever went before it; the records agree at rest |

## Modules

```
Temporal            the resolver, pure                 standing/temporal.py
  TemporalLedger    the ledger under its writers       memory.py, reviewer.py
  Acceptance        the acceptance policy, pure        acceptance.py, approval.py, freshness.py
    EvidenceGate    review, loop and approver, over both     reviewer.py, scripts/
Evaluator           the gate, pure                     evaluator.py
  EvaluatorWorld    ... over changing records          reviewer.py
  Promotion         promote, mark stale, store by store call   reviewer.py, memory.py
DecisionLifecycle   confirm, replace, revise, save by save     reviewer.py, lifecycle.py
ActionRecords       waivers, remediations, the journal         lifecycle.py, reviewer.py
Hiring              what a hire promises, abstract
  AcpJob            ... by four parties            acp.py, acp_bridge.py, acp-adapter/src
VerifierLoop        the loop over observer records         scripts/run_verifier_loop.py
Sandbox             the dashboard's buttons, over Temporal     dashboard.py
```

`EvidenceGate` extends `TemporalLedger` and shares its clock, its rows and the
deliveries on their way: its readings and extractions go through `Stamp`, `LinkOf` and
`StoreOf`, its imports are `Import`, each with what the flow does besides, while its
promotion is written out as the flows make it. `LedgerSpec`, checked and proved of it,
says that its store behaves as the ledger alone allows; so `TemporalLedger` is the
abstract specification of the ledger under the flows. `EvidenceGate` treats one
promotion as one step; `Promotion` takes that step apart, store call by store call,
for the part the ledger does not show: the reference, the dependents, hot standing and
journal. `VerifierLoop` takes the loop apart in the same way, for the observer records
it reads and writes, and takes from a hire what `Hiring` promises of it: it ends with
a published reading or fails. `AcpJob` implements `Hiring`.

### Temporal and TemporalLedger

A row keeps the fields `resolve()` reads: UID, value, `effective_from` (`eff`),
`effective_until` (`until`), `observed_at`, `recorded_at`, `ref_uid` (`ref`),
`revoked`, `accepted`. Subject, aspect, unit, source and provenance are the same
for all rows of a condition or live in `Acceptance.Origin`. `Candidates` is the
list of the winning effective period; `CanonicalHead` is its last row in
`(recorded_at, observed_at, uid)` order, or `NoRow` when `resolve()` raises,
reports a conflict or finds nothing.

| Action | Code |
|---|---|
| `StampDelivery` | the receipt of a delivery is read from the clock: by `record_verifier_observation` (`reviewer.py:569`), `record_confirmed_extraction` (`:609-613`), or by the caller that passes it (`run_verifier_loop.py:124`) |
| `LinkDelivery` | a row without a link of its own is linked by what the ledger says now (`_predecessor_observation_uid`, `:573`) |
| `StoreDelivery` | the save (`:579`): knowledge time is the receipt read then, never before `observed_at`; `save_observation` refuses to change a stored UID |
| `LoseDelivery` | the save is refused, or its process dies before it |
| `Import` | `record_temporal_observation`: every field from the caller, or a stored row recorded again |
| `Promote` | the marking loop of `promote_acceptance` over the rows its caller read; a caller's `accepted_at` is a second it has read from the clock |
| `LedgerTick` | the wall clock |

Between these steps the clock moves and others write, so a row may be saved with a
knowledge time that has passed, and with a link inferred from a ledger that has
grown since. `Recorders` are the processes that record deliveries; what a delivery
says is chosen where it is first used (its period when it is linked, its UID, value
and `observed_at` when it is saved). A caller may pass any `recorded_at` to the two
recording functions; the callers in the program pass none or the clock. A row whose
receipt is its caller's invention is an `Import`.

`NoHindsight` states what is left of "no hindsight" under this: what was known at
an earlier second, about an instant, changes only by a delivery that was received
by that second and not yet saved, and only for instants from its period's start on.

`imports` is chosen once, at the start: a store in which Standing links all rows
itself, or one in which callers may name links and record complete rows. What is
promised of the first kind alone says `~imports`.

### Acceptance and EvidenceGate

`Accepts` is `check_acceptance` over bitemporal rows: the freshness of the
candidates, trusted vendor and bindings, distinct observers and lineages, the
approval, the observers' history, the head. The digest of an approval is the
set of rows it was computed from, the `accepted` markers included.

An actor is a process running one flow; `job` is what it has read so far and is
going to use. `StartReview`, then `ReceiveHired` and `StoreHired`, then `Conclude` are
`review_paths_with_revalidation` up to the hire, the recording of the hired delivery
in the ledger's three steps, and the second check with the promotion. `StartReview`
and `Conclude` are one step each although the code makes several store calls in
them: what a step reads is one state of the ledger and the observer records, and the
order of a promotion's writes is `Promotion`'s subject. `StartLoop` is the loop's
first check; it goes on like a review, and ends in an error after its promotion (see
`VerifierLoop`), so that no outcome is counted. `StartApproval`, `CheckApproved`,
`PromoteApproved` are the three places where `scripts/approve_evidence.py` touches
the store or reads the clock. `Abandon` is a raised exception or the end of the
process. `ConfirmExtraction` is another process that records what a human
confirmed, in three steps too, so that its delivery may be received before a
review begins and saved while it runs.

`began` in a reference is history: the UIDs its flow read when it began. `FreshIsFresh`
uses it to name its one exception, a row received before the review and saved
during it. `MaxAge`, `Recheck` and the rest of the policy are constants.

### Evaluator and EvaluatorWorld

`ConditionState`, `DecisionState` and `Verdict` follow `_evaluate_condition`,
`_decision_state` and `review_paths`. Which value satisfies which predicate is a
constant (`Match`), as is the unit a predicate implies. Of the four supported
provenances two may block, EXPLICIT and CONFIRMED (`BLOCKING_PROVENANCE`); INFERRED
and EXTERNAL conditions are advisory alike. `EvaluatorWorld` lets the
accepted records change arbitrarily, so its invariants say something about every
pair of records and its action properties about every pair of successive ones.

### Promotion

An actor's state is its place in `promote_acceptance` or
`mark_condition_stale`; every action is one store call (`save_observation`,
`save_condition_reference`, one `read_condition_reference`, `save_standing`, one
journal append). A row is its place in the succession of heads of its
condition. An evaluation carries the references it has seen, which is what its
fingerprint covers. `Crash` stops an actor between two calls.

`Current` is `_current_condition`: the row of the reference, with its freshness, and
where a condition has no reference the plain condition entity on file as it is,
without acceptance or freshness (`reviewer.py:1498-1502`). `Plain` says which entity
each condition has, if any; it is constant because nothing in the program but its
tests calls `save_condition`. `FallDue` is the passing of `max_age_seconds` or
`next_check_at`: nothing is written, a reference to one of the `Dated` conditions (those
promoted with an age or an interval) reads stale from then on, until it is promoted
again. It may come at any time, since the clock is not modelled here. A contested
reference is not modelled: the evaluator would honour an `acceptance_status` or
contradicting observations in a reference (`evaluator.py:412`), but nothing in the
program writes them into one.

### DecisionLifecycle

All decisions of this module govern one path, which is what the three queries
are asked about. An operation does its reads and its checks in one step and then
makes its saves one by one: `actor[a].writes` is the rest of them, `Write` makes
the next and `Crash` drops what is left. The reads may be one step because
decisions are never deleted here: a decision that is missing at the last check
was missing at the first.

| Action | Code |
|---|---|
| `RecordProposal`, `ConfirmProposal`, `RejectProposal` | `record_`, `confirm_`, `reject_decision_proposal`; a proposal recorded again is pending again |
| `ReplaceDecision` | `record_replacement_decision`: the new decision, then the old body as it was read, marked `SUPERSEDED`, then the journal |
| `ReviseDecision` | `record_decision_revision`: `ValidChain` with the new revision in it, the revision, its body as the body of the decision, the journal |
| `CurrentDecision`, `DecisionAsOf`, `DecisionKnownAsOf` | `_decision_for_path`, `decision_as_of`, `decision_known_as_of` |
| `ActiveRevision` | `build_revision_timeline` as `read_decision_at` asks it |

`from`, `until`, `recorded`, `untilRecorded` and `by` are `effective_from`,
`superseded_at`, `recorded_at`, `supersession_recorded_at` and `superseded_by`.
`Introduces` gives each actor the decision ids it uses for decisions of its own, which
it alone confirms, creates and revises; every actor may replace every decision.
`DistinctIds` says that these sets are apart, and the revision ids of two decisions
too. This is an assumption about people, not a rule of the code: with two actors
creating the same id at once the checks of both pass and the later save wins. The
dashboard's threads do so, since its buttons use fixed ids: two presses of one button
at the same moment are outside this module (`Sandbox` has them). The dates of
confirmations and replacements, `recorded_at` included, are the clock when they are
called, as the dashboard passes it; `reviewer.py:429` takes any `recorded_at` without
a check. The effective time of a replacement is free. That a model may not confirm,
reject or replace is a check of an argument and left out.

### ActionRecords

A verdict is what `evaluate_standing` returned: whether the decision stands and,
if not, which conditions block it. `Evaluate` gives a process any verdict, since
evidence may say anything, and the clock it was read at; `WriteStandingChange`
acts on it later, with the waiver as it is stored by then. As in
`DecisionLifecycle` a call checks in one step and saves in later ones. Events of
one second are ordered as they were appended; the code orders them by the id the
store gave them (`lifecycle.py:653`). That these ids grow in the order of the appends
is an assumption about the external store.

| Action | Code |
|---|---|
| `Evaluate`, `WriteStandingChange` | `evaluate_standing` and the caller's clock; `write_standing_change` with `check_waiver` (`Permits`) |
| `IssueWaiver`, `OpenRemediation` | an id that is taken is overwritten |
| `TransitionRemediation` | `transition_remediation` over the table `Moves` |
| `Write`, `Stop` | the next save or journal append; the end of the process |
| `StandingAt` | `project_standing_timeline` over the journal |

### AcpJob and Hiring

A job is a status, the condition it was made for and the log of its entries.
Buyer and seller read the log of every job of their wallet, each at a position
of its own (`pos`); a process that connects finds the active jobs, with or
without the last entry delivered again (`Hydrated`). A transaction the buyer has
sent is in `txs` until it lands, whether or not the buyer still lives.

| Action | Code |
|---|---|
| `Refuse`, `Begin` | the checks of `hire_verifier`, then the bridge with or without a seller, with or without a job to resume |
| `WorkerReady`, `WorkerUnready` | `start_verifier_worker`; a seller whose first line is JSON but no readiness is left running |
| `Finish`, `GiveUp` | `run_acp_job` with the buyer's answer (`parse_verifier_delivery`: exactly one delivery for the condition); the deadline, an error of the buyer, a seller that failed |
| `BuyerStart`, `BuyerHear` | `runJob` of `adapter.ts`: create or resume, then one entry at a time: fund what has a budget, complete what is submitted, settle on what is completed |
| `LandCreation`, `Land`, `Expire` | the marketplace, which is external |
| `WorkerHear`, `SetBudget`, `PublishObservation`, `SendMessage`, `Submit`, `HandlerFails` | `handleEntry` of `verifier.ts`, whose handlers run side by side |

The calls of one operator follow each other. `Alone` is history: whether a call found
nothing of the earlier ones active or on its way, and, if it resumes a job, no seller
left running. `OwnAnswer` is about calls that did. `rejected` is modelled with
`expired`: both end a job for the same listeners. A process that starts hears nothing
until it runs; the buyer registers its handler before `agent.start` (`adapter.ts:86`),
and what is delivered to it while it starts is what `Hydrated` lets it find. What the
seller sends lands at once: its last message may not arrive after its death, which the
buyer's may. Two sellers alive together may publish two readings under one job; an
answer with two deliveries for the condition is refused. `Hiring` knows only which
jobs were paid, which readings are published under which job, and the state of each
hire; `HiringSpec` maps the log entries, the owners of the readings and the phases of
the calls to these.

### VerifierLoop

Records are kept by address *as spelled*; `DeliveredAs` says how the wallet a name
stands for spells itself in its deliveries. An operation goes through the code one
store or network call at a time.

| Action | Code |
|---|---|
| `StartLoop`, `EnsureObserverEntity` | `_ensure_observer_entity`: the look, and the record of zero counts |
| `SelectObserver` | `select_observer`; an operator may insist on a seller without the history |
| `Hire`, `StoreReading` | the hire with its readback, `record_verifier_observation` |
| `ReadIdentity`, `SaveIdentity` | `_record_observer_identity`: the whole record, read and written back |
| `Decide` | the final `check_acceptance` and, if it succeeds, the promotion |
| `WriteReputationSignal` | the end of every loop that comes so far: `run_verifier_loop.py:277` asks the stored body for an `acp_job_id` it does not have (`temporal.py:275-315`) and raises |
| `ReportOutcome`, `ReadOutcome`, `SaveOutcome` | `record_observer_outcome` |
| `Stop` | an exception or the end of the process anywhere |

`record_observer_outcome` is called by the line after the signal
(`run_verifier_loop.py:150`), which is never reached, and by the tests. So no outcome
is the loop's own: `reported` is what any caller of that function has said, and the
properties compare the records with it.

### Sandbox

A request is the list of store calls it has still to make (`BreakPlan`,
`ResetPlan`, `ResolvePlan`); each call is an action, and `Fail` ends a request
where a call raises. The ledger is judged by `Temporal`. The dates of the
scenario are fixed in the code (`SANDBOX_EFFECTIVE_CHANGED` and so on) and keep
their order here; `Opened` is the clock when the sandbox is seeded, and the run
starts it at the date every reset claims to be recorded at.

## The runs

| Run | Bounds | Properties | States |
|---|---|---|---|
| `ledger` | 2 recorders, 3 deliveries, or 2 rows with imports; 2 values, instants 0..2, observed a second before receipt | `LedgerTypeOK`, `InferredLineageResolves`, `DisagreementIsNeverChosen`, `NoHindsight`, `LateReadingKeepsHead`, `SupersessionIsPermanent` | 131,207 |
| `evaluator` | 33 decisions of two conditions, all pairs of records | `GateExact`, `ContestedWins` | 79,233 |
| `promotion_concurrent` | 3 actors that may die, one operation each, 2 conditions, one with a schedule, one with a plain entity, one decision on both | `TypeOK`, `AllowsAreProven`, `BackedReference` | 578,585 |
| `promotion_sequential` | 1 actor that does not die, the same conditions, 2 decisions, 2 rows each, 3 operations | `RestingStandingIsCurrent`, `PromotedStandingIsJournaled`, `ReferenceNeverMovesBack` | 728,003 |
| `gate_review` | 2 reviews, one after the other, beside a recorder of extractions; 3 rows of one vendor and one observer, seconds 0..3, age and interval of 2 | `TypeOK`, `FreshIsFresh`, `LedgerSpec` | 592,112 |
| `gate_approval` | 2 actors, one flow each, loop or approver, a recorder of extractions, 2 rows, imports, seconds 0..1 | `AcceptedWasApproved` | 239,183 |
| `lifecycle` | 2 processes that may die, 3 decisions of which one is there from the start, 1 proposal, 3 revisions, 3 operations, seconds 0..2 | `TypeOK`, `TodayAgrees`, `LinksAreMutual`, `CoverageNeverLost`, `KnownThenStands`, `RevisionPassesToSuccessor` | 467,805 |
| `records` | 2 processes that may die, one decision, one condition, one waiver id, one remediation id, 3 operations, seconds 0..1 | `AllowedByWaiver`, `JournalRetells`, `PastStandingIsFixed` | 488,841 |
| `acp_hire` | 2 hires, 2 conditions, 2 readings | `TypeOK`, `OwnAnswer`, `RetryCreatesNothing`, `HiringSpec` | 350,973 |
| `verifier_loop` | 2 processes that may die, one wallet in two spellings, 5 operations, a history of 1 confirmed and 0 contradicted asked for | `TypeOK`, `CountedWasReported`, `TrustIsOnRecord`, `NothingLostAlone` | 698,268 |
| `sandbox` | 2 request threads, 4 requests, 2 seconds | `NeverUngoverned`, `ResetRepairs`, `RecordsAgree` | 1,194,682 |

`gate_restores` ends in a counterexample, which is the finding below.

**Why these bounds are enough.** Three rows are what the ledger's rules need: two
that disagree or are ordered and a third that arrives late between, before or after
them; the resolver compares rows by pairs and follows one link at a time. Three
instants give a period before, at and after a boundary. Two actors interleave every
pair of steps, and nothing in the code waits for a third. Two conditions let a
decision rest on one reference that is being replaced and one that is not; one of
them has a schedule and one a plain entity to fall back on. The third actor of
`promotion_concurrent` is the retry after a crash. In `ledger` two recorders are a
delivery on its way and one that overtakes it; in `gate_review` the hired delivery
and the extraction that is received before the review and saved during it, with a
second review after the first reference. In `lifecycle` three operations are a
replacement, a second one that races it or follows its crash, and a third on their
result; or a root revision, its successor, and one that would fork the chain. One
decision is in the store from the start, as the dashboard seeds one. In `records`
three operations are a verdict with the waiver it will use and one that overwrites
that waiver, or an opening and two moves. In `acp_hire` the second hire is the
retry, or a hire for another condition beside a job the first one left; one reading
is a job's own and the second one too many. In `verifier_loop` one operation hires
the observer without a history, two outcomes are reported of it, right and wrong,
which may race each other and the writing of its identity, and two more rely on what
was counted. In `sandbox` four requests are a break, a replacement, a reset that
races or repairs them and one more on the result. What these instances cannot show,
that no larger one breaks the invariants, is what the theorems are for. `MaxTime`,
`Lags`, `Room`, `ImportRoom`, `ImportUIDs`, `MaxRows`, `MaxRuns`, `MaxCalls` and
`MaxReadings` are the only bounds in guards; the numbers of UIDs, values, actors,
recorders and conditions are the sets given to TLC.

Values are interchangeable (no rule orders them), so runs over them use value
symmetry; revision ids are too (in a valid chain no two begin together, so their order
never decides); two actors run the same code, so runs over them use actor symmetry.
The run with a liveness property, `acp_hire`, uses neither.

**Deadlock** is checked in `evaluator`, whose records always may change, and nowhere
else: the operations, rows or requests of the other instances are bounded, and a
system that has made them all may rightly be idle for good. That a hire
does not stop in the middle is stated as liveness.

**Fairness.** One property needs any: the last conjunct of `HiringSpec`, that a hire
ends, takes weak fairness of the bridge's deadline. `_run_adapter` and
`start_verifier_worker` poll their processes against the clock, and `hire_verifier`
always passes the timeout of its configuration. Neither the marketplace nor the
buyer nor the seller is fair, and nothing is assumed about operations being started,
rows being delivered or the clock advancing.

## What is proved

The modules ending in `_proofs` and `Facts` hold proofs checked by TLAPS for every
value of the constants that satisfies the named assumptions: any number of rows,
values, actors, recorders, conditions, decisions and seconds.

* `Promotion_proofs`, the evaluator: `GateExact` and `ContestedWins`, first for
  every pair of records, then as invariants of `EvaluatorWorld`. The
  proof splits on the states of a condition; the verdict is "allow" exactly when
  no required, human-backed condition is outside PROVEN, and the decision state
  is a fixed choice over the set of blocking states in which CONTESTED comes
  first.
* `Promotion_proofs`, the protocol: `TypeOK`, `BackedReference`, `AllowsAreProven` for
  any number of actors that may die. An allow rests, for each condition that may
  block, on an accepted row whose reference was fresh when read, or, where there was
  no reference, on the plain entity on file; `EvidenceOrNothing` adds that where no
  such entity is on file, which is every store the program itself fills, it rests on
  accepted evidence alone. The invariant adds to these what an operation in progress
  holds: the row it is about to reference is already marked accepted (`MarkRow`
  empties `todo` first), the references it has read so far pointed at accepted rows,
  those that have fallen due included, the reference a stale marking writes back was
  backed when it was read, and an evaluation waiting to be saved or journaled is a
  proven one. Markers and rows are never taken back in this module, so all of this
  survives the steps of other actors; that is where the argument would fail if the
  order of the writes were changed. The other three are proved for one actor
  (`OneActor`), because with two they are false (see below): `ReferenceNeverMovesBack`
  even if it dies, from "the row it holds is not before the one stored"; and without
  deaths `RestingStandingIsCurrent` and `PromotedStandingIsJournaled` from `KeepInv`:
  the dependents a promotion has still to visit are the only ones whose hot standing
  may be behind the references that are fresh, the one it has just saved is the only
  one the journal does not know.
* `TemporalFacts`: lemmas about the resolver. A finite set of rows has a last one
  in the sort order, so a ledger without conflict has a head and the head is a
  candidate; the predecessor of a period belongs to an earlier one; saving and
  marking rows carries every row over with all its fields but the marker; the
  resolver does not look at markers; what it answers for a past second depends on
  nothing recorded after it.
* `EvidenceGate_proofs`, the ledger: all its properties. The invariant says that the
  ledger is finite and that, where Standing links all rows itself, each row is a
  delivered one: not revoked, without an end, linked only to a row of an earlier
  period. So a later period is never superseded by an earlier one, the rows of the
  last period that has begun are all active, and if two of them disagree there is no
  head. Without the link being to an *earlier* period a third reading could supersede
  one of the two. For `NoHindsight` a write changes a marker, which no answer shows,
  or adds a row; a row Standing stamps is known from its receipt on and speaks from
  the start of its period on, so at a past second only a delivery received by then and
  still under way can change an answer. The invariant therefore describes the
  deliveries under way too (`Traced`): a link already inferred is to a row that is
  stored, of an earlier period. `LateReadingKeepsHead` holds because a delivery of an
  earlier period can neither join the candidates nor supersede one.
* `EvidenceGate_proofs`, the flows: `TypeOK`, `AcceptedWasApproved` and `LedgerSpec`. The
  invariant adds what each flow still knows of the store it will meet again: a
  review's clock reading has passed and its approval is persisted; the
  approver's rows are approved rows, each still in the ledger but for its
  marker; the value it is about to promote headed those rows at a second that
  has passed. The ledger theorem needs the second part: a promotion uses rows
  read long before, and is a `Promote` of the abstract ledger because the
  current copies of those rows still have a head at the same second.
  `FreshIsFresh` is proved for a store only Standing writes, and for a reason nobody
  wrote down: a review starts with no rows or with a stale candidate, so none of the
  rows it found then is what it accepts at its old clock reading (`AwaitsFresh`). What
  it accepts came later and was received by the second the review began in, and if
  in that very second, the reference's own schedule counts from the receipt
  (`CountsFromReceipt`). If it was received before and saved during the review, the
  schedule counts from too late: that is the exception in the statement, and a
  finding.
* `DecisionLifecycle_proofs`: all its properties, in two layers. `BInv` says that a
  body that ends names its successor and the second at which that was recorded, in the
  store and on its way there; from it the queries agree today. `IInv` lists, operation
  by operation, what an actor has still to save and what of it holds already
  (`Confirming`, `Replacing`, `ClosingOld`, ...): that is the order of the saves, and
  a crash merely drops the rest. Coverage needs more than "somebody is in effect at
  t": the old decision is ended by a save that is already decided, so `CoverageHolds`
  asks for one that *stays*, whose next save does not end it; two replacements of one
  decision that race each leave their own new decision, saved before.
  `RevisionPassesToSuccessor` rests on a valid chain being a line in time: from the
  root on, the revisions begun by any instant end in exactly one, and the recorded row
  that joins is its child. Everything but `TypeOK` and `TodayAgrees` assumes
  `DistinctIds`: no two actors introduce one decision id and no two decisions share a
  revision id. This is an assumption about callers that the code does not check, and
  where it fails so do the properties (see below).
* `ActionRecords_proofs`: `AllowedByWaiver`, `PastStandingIsFixed`, `JournalRetells`.
  For the first the invariant adds what is on its
  way: the waivers stored are among those issued, who holds a verdict holds a
  decision, and every change still to be saved or journaled is covered by a waiver
  already. What is issued stays issued, so neither an overwritten waiver nor one
  that expires between check and save uncovers a change. `PastStandingIsFixed`
  needs only that entries carry seconds that have passed. For `JournalRetells`
  the invariant says where the one operation under way stands (`Stage`): before its
  first save the journal retells all records, after it all but the one just saved,
  and the missing entry is next.
* `VerifierLoop_proofs`: `TypeOK`, `CountedWasReported`, `TrustIsOnRecord` and
  `NothingLostAlone`. The invariant gives each name room: the outcomes reported of it
  less those a process has still to count (`Room`). Every record, and every copy of
  a record that a process is about to write back, is within that room (`Fits`). A
  report makes the room its count will take, a death only frees room, a write of an old
  copy loses counts and gains none. So `MinHistory` counts on record mean `MinHistory`
  reports, whatever overlaps; that a lost contradiction was none too many needs that
  nothing overlapped. Where operations neither overlap nor die, what a process has
  read is what is stored, and it owes at most the one count (`Alone`).
* `AcpJob_proofs`: `TypeOK`, `OwnAnswer`, `RetryCreatesNothing` and that every step
  is a step of `Hiring` (`HiringKept`: all of `HiringSpec` but its fairness). Three
  invariants, each on top of the other. `Base` counts: every job made, creation
  in flight and call still to ask for one stands for a call made without a job id, so
  there are never more jobs than ids. `Delivered` relates logs and processes: a
  message carries a reading published for its job, a job is completed only after a
  message, a task is at a step its job has come to; with it publishing
  is under a paid job and an answer is a published reading. `Undisturbed` describes
  a call that began alone. If it asks for a new job, every other job is closed and
  can only bring messages that were sent before the call connected or that it does
  not read, and its own log is heard in order, message before end (`OnANewJob`). If it
  resumes one, no other job is active and no other seller runs, so all that is done
  and heard is about that job (`OnTheOldJob`).
* `Sandbox_proofs`: `NeverUngoverned`, `ResetRepairs` and `RecordsAgree`, for any
  number of threads and requests. A request's place in its plan (`OnPlan`) tells the
  call it makes next, and with it what it may count on (`Inv`): a replacement has
  saved its decision before it ends the first (`Governs`), a break or a reset refers
  to the row it has recorded (`Carries`) and finds what it wrote (`Writes`), each
  unless the request that undoes it has run beside it. Two requests that run side by
  side are known to have (`Overlaps`), which is what lets every other thread be
  excluded. `Counted` says that each reset has a UID left for its row. For
  `RecordsAgree` the invariant (`Agreeing`) adds that whatever has not come to agree
  yet has a request on its way to it: the reference behind the row just recorded, the
  standing behind the reference, the journal behind the standing, the second decision
  beside the first. At rest nobody is on the way. That the head of the rows then has
  the value of the reference follows from the rows themselves (`RowsInForce`): a
  reset's row ends the changed one and nothing ends a reset's. This needs `Opened >=
  ResetOn`: the sandbox is used from its own dates on, as the run has it and as it is
  not if its clock stands before 2026-09-10 (see the findings).

The assumptions are those the modules name: UIDs are ordered, the sentinels are
none of the values, the bounds are natural numbers, the policy and the recorded
origins have their types, the spellings
of deliveries are names (`DeliveredAsType`), the plain condition entities are records, the
processes of the loop and the decisions seeded are finitely many, waiver and
remediation ids differ (`KindsApart`: the journal names both), there is a condition
to hire for (`KeysExist`). A theorem that needs more says so in an `ASSUME` of its
own: `OneActor`, `~MayCrash`, `DistinctIds`, `Opened >= ResetOn`, no plain entity
(`EvidenceOrNothing`). They are needed: without them TLC refutes the property, or
the findings below tell how.

Only model-checked is what is live: that a hire ends, in `HiringSpec` (liveness under
fairness is out of the prover's reach). Every invariant and every action property the
passing runs check is a theorem. `NoHindsight`, `FreshIsFresh` and the properties of
inferred links are stated without imports. A caller that records complete rows may
give them any knowledge time; and one that names a link to a row of the very same
period can keep a stale row out of the candidates while the reference stays fresh.

## Findings

* **A revalidation refuses the reading it paid for** (`gate_restores`). The clock
  is read once, before the hire; the delivery carries its receipt and is "in the
  future" for the check.

Seen on the way. For those that name a module TLC gives a counterexample of a few
steps in that module, if the property they deny is asked for:

* Recording the original of an accepted row again takes its acceptance away:
  `save_observation` (`memory.py:178-184`) compares payloads without their marker
  and stores the incoming one, while its docstring says "Replaying the same
  payload is idempotent." (`TemporalLedger`)
* A crash between hot standing and journal (`reviewer.py:1053`) loses the journal
  entry for good, because the retry skips a dependent whose hot standing is
  already right; `docs/audits/lifecycle.md:25-26` says every mutation is journaled.
  `PromotedStandingIsJournaled` is therefore checked where nobody dies.
  (`Promotion`)
* A revision is overwritten by another decision's of the same id:
  `record_decision_revision` (`reviewer.py:393`) looks for a duplicate within its
  decision, the store keeps the revisions of all decisions under the id alone
  (`memory.py:55-61`, "one immutable decision revision"). The runs give each
  revision an id of its own. (`DecisionLifecycle`, with `RevisionsOf` giving two
  decisions the same ids)
* One wallet spelled in two ways has two records: the loop looks for and would count
  under the configured address (`run_verifier_loop.py:150`), the identity is kept
  under the delivered one (`reviewer.py:1285`, `acp.py:245`). (`VerifierLoop`)
* A superseded remediation, whose status is terminal
  (`docs/audits/lifecycle.md:15-16`), is open again when one is opened under its id
  (`reviewer.py:669`, `:690`). A waiver is overwritten in the same way; what was
  allowed by the first stays covered by it, which is what `AllowedByWaiver` says.
  (`ActionRecords`)
* A delivery is stamped with its receipt, linked by the ledger of that moment, and
  saved later (`reviewer.py:569`, `:573`, `:579`). When it is saved, what was known at
  the seconds in between changes after the fact: a question about the past may be
  answered differently the next time. `NoHindsight` says how far that goes.
  (`TemporalLedger`, with its first disjunct left out)
* A row received before a review began and saved while it ran is accepted with the
  review's clock reading, and its `max_age_seconds` and `next_check_at` count from
  there and not from its receipt (`reviewer.py:569`, `:1155`). So its reference reads
  fresh for longer than the policy allows. `FreshIsFresh` names this exception.
  (`EvidenceGate`, with the exception left out)
* Every run of the verifier loop that stores a reading ends in a `KeyError`:
  `run_verifier_loop.py:277` reads `acp_job_id` from the stored body, which
  `TemporalObservation.as_dict` (`temporal.py:275-315`) does not keep. The reading
  is stored and perhaps promoted by then; the public signal is not sent and
  the outcome not counted, so no observer ever earns the history that the loop asks
  of it. `WriteReputationSignal` is that error.
* A condition without a reference is judged by its plain entity, if there is one,
  without acceptance or freshness (`reviewer.py:1498-1502`). Only tests write
  such an entity. (`Promotion`)
* The marker has no time of its own: asking for accepted rows as known in the
  past uses today's markers (`temporal.py:427`). `NoHindsight` is about the
  answers that leave the marker out.
* The approver reads the clock for its check and again for its promotion. If a
  period begins between the two, the reference takes its value and UIDs from
  one row and its unit, source and periods from another. `PromoteRows` keeps both
  (`value` and `row`), and no property claims that they agree.
* Marking a row changes the digest an approval covers, so a promotion
  withdraws the approval it rested on: the same approval is refused the next
  time, until the rows are approved again.
* All rows of the snapshot are marked accepted, the revoked ones too.
* Two racing promotions can move a reference back to an older head, and leave a
  dependent decision with the standing of the older references when all is
  done: a dependent is evaluated before, and its hot standing written after,
  the other promotion. `RestingStandingIsCurrent` and `ReferenceNeverMovesBack`
  are therefore checked for one actor at a time.
* References promoted by the two scripts never become due: only the review
  attaches the policy's age and interval, although `docs/TRUST-MODEL.md:57-60`
  says a due schedule is treated as unknown.
* A replacement scheduled for the future marks the old decision `SUPERSEDED` at
  once. `current_decision` still names it until then, but `search_decisions`, and
  with it `review_paths`, already skips it: until the new decision takes effect a
  change is reviewed against the new one only.
* Two replacements of one decision that race both succeed; its `superseded_by`
  names the later writer only. Two revisions of one decision that race both
  pass the check and fork the chain, which then can never be read;
  `RevisionPassesToSuccessor` is checked with one reviser per decision.
* After a crash between the two saves of a replacement, or of a revision, the
  retry is refused (the new decision exists, the revision is a duplicate): the
  old decision stays `CURRENT` beside the new one, the decision keeps its old
  body. In the first case the new decision still governs from its effective time
  on, because it begins later (if both begin and were recorded in the same
  second, the larger id governs); in the second the decision is answered as if
  the revision had not begun.
* After a crash between the saves of a confirmation, or when a confirmed proposal
  is recorded again, the proposal is pending and may be rejected while its
  decision governs.
* A revision replaces the whole body of its decision at once, whatever its
  effective time. A body without dates, as the tests write it, makes the
  decision invisible to `decision_as_of` and `decision_known_as_of`, while
  `current_decision` takes it as always in effect; a supersession recorded in
  the old body is gone. A replacement that has read the old body before writes
  it back over the revision. The first three properties of replacements are
  therefore stated for decisions without such a body or revision.
* The stored standing keeps its "allow" after the waiver that covered it has
  expired, until somebody evaluates again. The help of `standing waiver list`
  says active waivers (`cli.py:186`); it lists all of them.
* A hire that resumes a job whose message was sent before can be answered with the
  reading of another job. A seller whose first line is JSON but no readiness is
  left running (`start_verifier_worker` raises without stopping it); it may send the
  reading of a job that has expired meanwhile, the resuming buyer hears that message
  only, and messages name no job (`parse_verifier_delivery`). It takes four calls; TLC
  shows it when `Alone` does not ask that no seller was left.
* A hire that runs beside another active job of its wallet may report that job's
  id with its own reading or the other way round: the messages of a result do
  not name their job, and the first job completed settles it. A hire without a
  job id after one that was killed creates and pays a second job. A job resumed
  after its message was sent is completed and paid, and its reading lost,
  because the buyer never hears the message. A seller that exits with an error
  after the buyer has answered spoils the answer (`stop_verifier_worker` raises).
  The daily cap is judged by what the caller says was spent.
* Two outcomes of one observer that overlap lose a count, the identity written
  over an outcome too. So memory only ever counts too little, of right and of wrong
  outcomes alike: an observer may be trusted although it was wrong too often. The zero
  record `_ensure_observer_entity` writes can wipe counts
  another process has just made.
* A replacement and a reset of the sandbox that overlap may leave the path
  without a decision: the reset reads `CURRENT`, the replacement saves the new
  decision and ends the old one, the reset archives the new one.
* After a replacement that failed between its two saves, or between its saves
  and its standing, the next one returns at `dashboard.py:213` without finishing
  it; only a reset repairs that.
* A break after a reset finds its row recorded already (`dashboard.py:163`), so
  the ledger's head stays the reset's 365 while the reference says 90; one that
  overlaps a reset can leave "allow" over a reference of 90. Before 2026-09-10,
  the date a reset claims for its row, its row is not known yet; pressed before
  2026-09-07, after a break, it links to a later period than its own and the
  resolver raises on the ledger. A missing decision raises
  `NotFoundError`, which `do_POST` does not answer.

## What is not modelled

* Text: parsing, canonical JSON, hashing, URLs, wording of reasons. A digest is
  the set it was computed from.
* Rows without bitemporal fields, contradicted readings and the ranking of
  `select_observer` (`Acceptance`), EAS readback (flows). A contested reference
  (`Promotion`), which nothing in the program writes.
* Chain publication, offline evaluation, command line, source extraction: batch
  code over files and external services, without state that outlives a call.
* Model review: a session validates what a model returns and keeps nothing; what
  it may lead to is a proposal (`DecisionLifecycle`) or an extraction a human
  confirms (`EvidenceGate`).
* Archive repair: each call is one transaction, and restoring a decision has no
  caller in the program but its own script. Archiving one is `Sandbox.Archive`.
* The seller's fetch, extraction and attestation (one step of `AcpJob`), and the
  registry calls behind a reputation signal, which the loop never comes to.
* The sandbox's confirm and reject buttons, which are operations of
  `DecisionLifecycle`, and its buttons that only read.
* The store itself: an entity write, a hot-state write and a journal append are
  each one atomic step, which is what `standing/memory.py` takes from it.

## Plan

All components with state of their own are modelled, and every safety property
is a theorem. Left, in this order:

1. An abstract gate (a reference per condition, allowed only with proof) that
   `Promotion` implements, and the loop of `VerifierLoop` over it.
2. The weaker forms of what is stated for one actor or one clock reading: what a
   reference promoted by the approver still keeps, what two racing promotions
   leave right, and what is left of `NoHindsight` where callers pass any `recorded_at`.
3. `DecisionLifecycle` without `DistinctIds`: what two threads that confirm one
   proposal, or create one id, may still not do.
