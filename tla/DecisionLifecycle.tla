--------------------------- MODULE DecisionLifecycle ---------------------------
(***************************************************************************)
(* The decisions that govern one repository path: how ReviewerTools turns  *)
(* a proposal into a decision, replaces a decision by another, records a   *)
(* revision of one, and what it then answers about today and the past.     *)
(*                                                                         *)
(* An operation reads the store, checks, and then makes its writes one     *)
(* after the other: `writes' is what an actor has still to save, so actors *)
(* interleave between any two saves and may die there.                     *)
(***************************************************************************)
EXTENDS Integers, Sequences, FiniteSets

CONSTANTS Actors,       \* processes that share the store
          Decisions,    \* decision ids, in their sort order
          Introduces,   \* the ids each actor uses for decisions of its own
          Proposals,
          DecisionOf,   \* the decision id each proposal names
          Seeded,       \* decisions that are in the store from the start
          RevisionIds,
          RevisionsOf,  \* the revision ids used for each decision
          NoDecision, NoRevision, NoTime,
          MaxTime,      \* BOUND: last second of the clock
          MaxCalls      \* BOUND: operations started

ASSUME DecisionsAreOrdered == Decisions \subseteq Nat
ASSUME IntroducesType == Introduces \in [Actors -> SUBSET Decisions]
ASSUME SeededType == Seeded \subseteq Decisions /\ IsFiniteSet(Seeded)
ASSUME DecisionOfType == DecisionOf \in [Proposals -> Decisions]
ASSUME RevisionsOfType == RevisionsOf \in [Decisions -> SUBSET RevisionIds]
ASSUME SentinelsAreNone ==
  NoDecision \notin Decisions /\ NoRevision \notin RevisionIds /\ NoTime \notin Nat
ASSUME LifecycleBounds == MaxTime \in Nat /\ MaxCalls \in Nat

(* Each decision id is used by one process, each revision id for one        *)
(* decision.  An assumption about the callers, which the code does not      *)
(* check: two threads of the dashboard that confirm the one proposal of the *)
(* sandbox, or replace its one decision, name the same id (see Sandbox).    *)
DistinctIds ==
  /\ \A a, b \in Actors : a # b => Introduces[a] \cap Introduces[b] = {}
  /\ \A d, e \in Decisions : d # e => RevisionsOf[d] \cap RevisionsOf[e] = {}

Times == 0..MaxTime
MaybeTime == Times \cup {NoTime}
MaybeDecision == Decisions \cup {NoDecision}

(* A decision body: only a body that a revision brings may have no dates    *)
(* and no status of its own.                                                *)
Bodies == [status : {"CURRENT", "SUPERSEDED", "NONE"},
           from : MaybeTime, recorded : MaybeTime,
           until : MaybeTime, untilRecorded : MaybeTime,
           by : MaybeDecision, supersedes : MaybeDecision]

Revisions == [decision : Decisions, eff : Times,
              parent : RevisionIds \cup {NoRevision}]

ASSUME AbsentIsNone == NoDecision \notin Bodies /\ NoRevision \notin Revisions

ProposalStates == {"NONE", "PENDING", "CONFIRMED", "REJECTED"}

Events ==
  [event : {"proposed", "confirmed", "rejected"}, proposal : Proposals]
    \cup [event : {"superseded"}, old : Decisions, new : Decisions]
    \cup [event : {"revised"}, revision : RevisionIds]

VARIABLES clock,
          decisions,   \* the "decision" entities
          proposals,   \* the status of the "decision_proposal" entities
          revisions,   \* the "decision_revision" entities
          journal,     \* the lifecycle events recorded
          actor,       \* when each actor's operation began, what it has yet to save
          calls        \* operations started

vars == <<clock, decisions, proposals, revisions, journal, actor, calls>>
store == <<decisions, proposals, revisions, journal>>

SaveDecision(d, body) == [to |-> "decision", decision |-> d, body |-> body]
SaveProposal(p, status) == [to |-> "proposal", proposal |-> p, status |-> status]
SaveRevision(r, row) == [to |-> "revision", revision |-> r, row |-> row]
RecordEvent(e) == [to |-> "journal", entry |-> e]

Writes ==
  [to : {"decision"}, decision : Decisions, body : Bodies]
    \cup [to : {"proposal"}, proposal : Proposals, status : ProposalStates]
    \cup [to : {"revision"}, revision : RevisionIds, row : Revisions]
    \cup [to : {"journal"}, entry : Events]

TypeOK ==
  /\ clock \in Times
  /\ decisions \in [Decisions -> Bodies \cup {NoDecision}]
  /\ proposals \in [Proposals -> ProposalStates]
  /\ revisions \in [RevisionIds -> Revisions \cup {NoRevision}]
  /\ journal \subseteq Events
  /\ actor \in [Actors -> [since : Times, writes : Seq(Writes)]]
  /\ calls \in 0..MaxCalls

Idle == [since |-> 0, writes |-> <<>>]

(* The body a confirmation or a replacement saves now. *)
NewBody(from, supersedes) ==
  [status |-> "CURRENT", from |-> from, recorded |-> clock, until |-> NoTime,
   untilRecorded |-> NoTime, by |-> NoDecision, supersedes |-> supersedes]

Init ==
  /\ clock = 0
  /\ decisions = [d \in Decisions |-> IF d \in Seeded THEN NewBody(0, NoDecision)
                                     ELSE NoDecision]
  /\ proposals = [p \in Proposals |-> "NONE"]
  /\ revisions = [r \in RevisionIds |-> NoRevision]
  /\ journal = {}
  /\ actor = [a \in Actors |-> Idle]
  /\ calls = 0

Existing == {d \in Decisions : decisions[d] # NoDecision}

Ready == {a \in Actors : actor[a] = Idle /\ calls < MaxCalls}

(* A ready actor starts an operation whose saves will be `writes'. *)
Begin(a, writes) ==
  /\ calls' = calls + 1
  /\ actor' = [actor EXCEPT ![a] = [since |-> clock, writes |-> writes]]
  /\ UNCHANGED <<clock, decisions, proposals, revisions, journal>>

-----------------------------------------------------------------------------
(* record_decision_proposal: whatever became of the same proposal before,   *)
(* it is pending again.                                                     *)
RecordProposal(a, p) ==
  Begin(a, <<SaveProposal(p, "PENDING"),
             RecordEvent([event |-> "proposed", proposal |-> p])>>)

(* confirm_decision_proposal: the decision is saved before the proposal is  *)
(* marked.                                                                  *)
ConfirmProposal(a, p) ==
  /\ DecisionOf[p] \in Introduces[a]
  /\ proposals[p] = "PENDING"
  /\ decisions[DecisionOf[p]] = NoDecision
  /\ Begin(a, <<SaveDecision(DecisionOf[p], NewBody(clock, NoDecision)),
                SaveProposal(p, "CONFIRMED"),
                RecordEvent([event |-> "confirmed", proposal |-> p])>>)

RejectProposal(a, p) ==
  /\ proposals[p] = "PENDING"
  /\ Begin(a, <<SaveProposal(p, "REJECTED"),
                RecordEvent([event |-> "rejected", proposal |-> p])>>)

(* Mutant: the predecessor keeps the first second of its replacement. *)
SupersededOneLater(body, from, new) ==
  [body EXCEPT !.status = "SUPERSEDED", !.until = from + 1,
               !.untilRecorded = clock, !.by = new]

(* Mutant: the supersession is dated when it is recorded, not when the      *)
(* replacement takes effect.                                                *)
SupersededWhenRecorded(body, from, new) ==
  [body EXCEPT !.status = "SUPERSEDED", !.until = clock,
               !.untilRecorded = clock, !.by = new]

(* What a replacement saves of its predecessor. *)
Superseded(body, from, new) ==
  [status |-> "SUPERSEDED", from |-> body.from, recorded |-> body.recorded,
   until |-> from, untilRecorded |-> clock, by |-> new, supersedes |-> body.supersedes]

Replaceable(old, from) ==
  /\ decisions[old] # NoDecision
  /\ decisions[old].status # "SUPERSEDED"
  /\ decisions[old].from # NoTime => from >= decisions[old].from

(* Mutant: the predecessor is closed before its replacement is saved. *)
ReplaceOldFirst(a, old, new, from) ==
  /\ new \in Introduces[a] /\ new # old
  /\ Replaceable(old, from)
  /\ decisions[new] = NoDecision
  /\ Begin(a, <<SaveDecision(old, Superseded(decisions[old], from, new)),
                SaveDecision(new, NewBody(from, old)),
                RecordEvent([event |-> "superseded", old |-> old, new |-> new])>>)

(* record_replacement_decision: the old body is written back as it was read *)
(* here, after the new decision is saved.                                   *)
ReplaceDecision(a, old, new, from) ==
  /\ new \in Introduces[a]
  /\ new # old
  /\ Replaceable(old, from)
  /\ decisions[new] = NoDecision
  /\ Begin(a, <<SaveDecision(new, NewBody(from, old)),
                SaveDecision(old, Superseded(decisions[old], from, new)),
                RecordEvent([event |-> "superseded", old |-> old, new |-> new])>>)

-----------------------------------------------------------------------------
ChainOf(stored, d) ==
  {r \in RevisionIds : stored[r] # NoRevision /\ stored[r].decision = d}

(* Mutant: forks are not looked for. *)
ChainWithForks(stored, d) ==
  LET chain == ChainOf(stored, d) IN
    /\ \E root \in chain : {r \in chain : stored[r].parent = NoRevision} = {root}
    /\ \A r \in chain : stored[r].parent # NoRevision =>
         stored[r].parent \in chain /\ stored[stored[r].parent].eff < stored[r].eff

(* build_revision_timeline does not raise: one root, every other revision   *)
(* later than a parent that is there, no parent with two successors.        *)
ValidChain(stored, d) ==
  LET chain == ChainOf(stored, d) IN
    /\ \E root \in chain : {r \in chain : stored[r].parent = NoRevision} = {root}
    /\ \A r \in chain : stored[r].parent # NoRevision =>
         stored[r].parent \in chain /\ stored[stored[r].parent].eff < stored[r].eff
    /\ \A r, s \in chain :
         (stored[r].parent = stored[s].parent /\ stored[r].parent # NoRevision) => r = s

(* Its active revision at instant t, or NoRevision when it raises or finds  *)
(* none.  No two revisions of a valid chain begin together.                 *)
ActiveRevision(d, t) ==
  LET begun == {r \in ChainOf(revisions, d) : revisions[r].eff <= t}
  IN IF ~ValidChain(revisions, d) \/ begun = {} THEN NoRevision
     ELSE CHOOSE r \in begun : \A s \in begun : revisions[s].eff <= revisions[r].eff

(* A revision body as the tests write it has neither status nor dates; a    *)
(* caller may also put the dates into it.                                   *)
RevisedBody(revision, dated) ==
  [status |-> "NONE", from |-> IF dated THEN revision.eff ELSE NoTime,
   recorded |-> IF dated THEN clock ELSE NoTime, until |-> NoTime,
   untilRecorded |-> NoTime, by |-> NoDecision, supersedes |-> NoDecision]

(* record_decision_revision: the chain is checked with the new revision in  *)
(* it, the revision is saved under its id, and its body becomes the whole   *)
(* body of the decision.                                                    *)
ReviseDecision(a, d, r, revision, dated) ==
  /\ d \in Introduces[a]
  /\ revision.decision = d
  /\ r \notin ChainOf(revisions, d)
  /\ ValidChain([revisions EXCEPT ![r] = revision], d)
  /\ Begin(a, <<SaveRevision(r, revision),
                SaveDecision(d, RevisedBody(revision, dated)),
                RecordEvent([event |-> "revised", revision |-> r])>>)

-----------------------------------------------------------------------------
(* The next save of an operation; every save replaces a whole entity. *)
Write(a) ==
  /\ actor[a] # Idle
  /\ LET w == Head(actor[a].writes) IN
       /\ decisions' = IF w.to = "decision" THEN [decisions EXCEPT ![w.decision] = w.body]
                       ELSE decisions
       /\ proposals' = IF w.to = "proposal" THEN [proposals EXCEPT ![w.proposal] = w.status]
                       ELSE proposals
       /\ revisions' = IF w.to = "revision" THEN [revisions EXCEPT ![w.revision] = w.row]
                       ELSE revisions
       /\ journal' = IF w.to = "journal" THEN journal \cup {w.entry} ELSE journal
  /\ actor' = [actor EXCEPT ![a] =
       IF Len(@.writes) = 1 THEN Idle ELSE [since |-> @.since, writes |-> Tail(@.writes)]]
  /\ UNCHANGED <<clock, calls>>

(* The process dies, or the store raises, before the next save. *)
Crash(a) ==
  /\ actor[a] # Idle
  /\ actor' = [actor EXCEPT ![a] = Idle]
  /\ UNCHANGED <<clock, decisions, proposals, revisions, journal, calls>>

Tick ==
  /\ clock < MaxTime
  /\ clock' = clock + 1
  /\ UNCHANGED <<decisions, proposals, revisions, journal, actor, calls>>

Propose == \E a \in Ready, p \in Proposals : RecordProposal(a, p)
Confirm == \E a \in Ready, p \in Proposals : ConfirmProposal(a, p)
Reject == \E a \in Ready, p \in Proposals : RejectProposal(a, p)
Replace ==
  \E a \in Ready : \E old \in Existing, new \in Introduces[a], from \in Times :
    ReplaceDecision(a, old, new, from)
Revise ==
  \E a \in Ready : \E d \in Introduces[a] : \E r \in RevisionsOf[d], eff \in Times,
     parent \in RevisionsOf[d] \cup {NoRevision}, dated \in BOOLEAN :
    ReviseDecision(a, d, r, [decision |-> d, eff |-> eff, parent |-> parent], dated)

Next ==
  \/ Propose \/ Confirm \/ Reject \/ Replace \/ Revise \/ Tick
  \/ \E a \in Actors : Write(a) \/ Crash(a)

Spec == Init /\ [][Next]_vars

-----------------------------------------------------------------------------
OrZero(t) == IF t = NoTime THEN 0 ELSE t

Outranks(d, e) ==
  LET a == decisions[d]
      b == decisions[e]
  IN \/ OrZero(a.from) > OrZero(b.from)
     \/ /\ OrZero(a.from) = OrZero(b.from)
        /\ \/ OrZero(a.recorded) > OrZero(b.recorded)
           \/ OrZero(a.recorded) = OrZero(b.recorded) /\ d >= e

Governing(eligible) ==
  IF eligible = {} THEN NoDecision
  ELSE CHOOSE d \in eligible : \A e \in eligible : Outranks(d, e)

(* current_decision: a decision without dates counts as always in effect.   *)
CurrentDecision ==
  Governing({d \in Existing :
    LET body == decisions[d] IN
      /\ body.status = "SUPERSEDED" => body.until # NoTime
      /\ body.until # NoTime => clock < body.until
      /\ OrZero(body.from) <= clock
      /\ OrZero(body.recorded) <= clock})

(* Mutant: a period includes the second it ends. *)
AsOfInclusive(t) ==
  Governing({d \in Existing :
    LET body == decisions[d] IN
      /\ body.from # NoTime /\ body.from <= t
      /\ body.until # NoTime => t <= body.until})

(* decision_as_of: what governed at t, as it is known now.                  *)
DecisionAsOf(t) ==
  Governing({d \in Existing :
    LET body == decisions[d] IN
      /\ body.from # NoTime /\ body.from <= t
      /\ body.until # NoTime => t < body.until})

(* Mutant: the second at which a supersession was recorded is not looked at. *)
KnownWithHindsight(k) ==
  Governing({d \in Existing :
    LET body == decisions[d] IN
      /\ body.from # NoTime /\ body.recorded # NoTime
      /\ body.from <= k /\ body.recorded <= k
      /\ body.until # NoTime => k < body.until})

(* decision_known_as_of: what Standing could have said at k.                *)
DecisionKnownAsOf(k) ==
  Governing({d \in Existing :
    LET body == decisions[d] IN
      /\ body.from # NoTime /\ body.recorded # NoTime
      /\ body.from <= k /\ body.recorded <= k
      /\ (body.until # NoTime /\ body.until <= k) => k < body.untilRecorded})

Undated == {d \in Existing : decisions[d].from = NoTime}
NoneRevised == \A r \in RevisionIds : revisions[r] = NoRevision

(* The three queries are written one by one over different fields; asked    *)
(* about this very second they name the same decision, also between two     *)
(* saves and after a crash, whatever replacements have been scheduled.      *)
(* (current_decision, decision_as_of, decision_known_as_of)                 *)
TodayAgrees ==
  Undated = {} =>
    CurrentDecision = DecisionAsOf(clock) /\ CurrentDecision = DecisionKnownAsOf(clock)

(* No instant loses its decision: on a path no revision has touched, an     *)
(* instant that was governed stays governed, between the two saves of a     *)
(* replacement, after a crash there, and when two replacements of one       *)
(* decision, under ids of their own, race.  (record_replacement_decision)   *)
CoverageNeverLost ==
  [][NoneRevised' => \A t \in Times :
       DecisionAsOf(t) # NoDecision => DecisionAsOf(t)' # NoDecision]_decisions

(* A race has got past the check that a decision is superseded only once.   *)
SupersededAgain ==
  \E d \in Existing : decisions[d].by # NoDecision /\ decisions'[d] # decisions[d]

(* No hindsight: a replacement recorded now, even one that takes effect in  *)
(* the past, does not change what Standing says it knew at a second before  *)
(* any operation under way began; on a path no revision has touched, unless *)
(* a race supersedes a decision a second time, and with the clock for the   *)
(* recorded_at of the call, which the code does not insist on.              *)
(* (decision_known_as_of, supersession_recorded_at)                         *)
KnownThenStands ==
  [][(NoneRevised' /\ ~SupersededAgain) => \A k \in Times :
       (k < clock /\ \A a \in Actors : actor[a] # Idle => k < actor[a].since)
         => DecisionKnownAsOf(k)' = DecisionKnownAsOf(k)]_decisions

(* A supersession never dangles: a decision that names its successor has    *)
(* one, which names it back and takes effect when it ends, and nothing is   *)
(* journaled before it is saved; wherever operations die.  A revision of    *)
(* the successor may drop its half of the link.                             *)
(* (record_replacement_decision, confirm_decision_proposal)                 *)
LinksAreMutual ==
  /\ \A d \in Existing : LET body == decisions[d] IN
       body.by # NoDecision =>
         /\ body.by \in Existing
         /\ LET successor == decisions[body.by] IN
              ChainOf(revisions, body.by) = {} =>
                successor.supersedes = d /\ successor.from = body.until
  /\ \A e \in journal :
       /\ e.event = "superseded" => e.new \in Existing
       /\ e.event = "confirmed" => DecisionOf[e.proposal] \in Existing
       /\ e.event = "revised" => revisions[e.revision] # NoRevision

(* Revising a decision rewrites no history: the revision active at an       *)
(* instant stays the active one, or its direct successor, just recorded,    *)
(* takes over; no revision makes the chain unreadable.                      *)
(* (record_decision_revision, build_revision_timeline, read_decision_at)    *)
RevisionPassesToSuccessor ==
  [][\A d \in Decisions, t \in Times :
       LET was == ActiveRevision(d, t)
           is == ActiveRevision(d, t)'
       IN (was # NoRevision /\ is # was) =>
            /\ is # NoRevision
            /\ revisions[is] = NoRevision
            /\ revisions'[is].parent = was]_revisions
=============================================================================
