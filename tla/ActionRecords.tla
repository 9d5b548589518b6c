----------------------------- MODULE ActionRecords -----------------------------
(***************************************************************************)
(* The records kept beside a decision: what the reviewer did about it      *)
(* (allow, block, note), the human waivers that let an action pass while a *)
(* decision does not stand, the remediations, and the journal in which all *)
(* of them are retold and from which the past is read.                     *)
(*                                                                         *)
(* An operation checks and then saves an entity and appends to the journal *)
(* in two steps; `writes' is what a process has still to do.  A verdict is *)
(* taken in one call and acted on in a later one.                          *)
(***************************************************************************)
EXTENDS Integers, Sequences

CONSTANTS Procs,         \* processes that share the store
          Decisions, Conditions,
          OtherDecision, \* a decision that only waivers of the store name
          Waivers,       \* waiver ids
          Remediations,  \* remediation ids
          AnyCondition,  \* the scope of a waiver for the decision as a whole
          None,
          MaxTime,       \* BOUND: last second of the clock
          MaxCalls       \* BOUND: operations started

Times == 0..MaxTime
ASSUME RecordBounds == MaxTime \in Nat /\ MaxCalls \in Nat
ASSUME ScopeIsNoCondition == AnyCondition \notin Conditions
(* An event names its record by id and says of what kind it is.             *)
ASSUME KindsApart == Waivers \cap Remediations = {}

(* A verdict of the evaluator: only a decision that does not stand has      *)
(* blocking conditions, and it need not have any.                           *)
Verdicts == [stands : {TRUE}, blocking : {{}}] \cup [stands : {FALSE}, blocking : SUBSET Conditions]
Statuses == {"OPEN", "IN_PROGRESS", "RESOLVED", "SUPERSEDED"}
Moves == [OPEN        |-> {"IN_PROGRESS", "RESOLVED", "SUPERSEDED"},
          IN_PROGRESS |-> {"OPEN", "RESOLVED", "SUPERSEDED"},
          RESOLVED    |-> {"OPEN", "SUPERSEDED"},
          SUPERSEDED  |-> {}]

WaiverBodies == [decision : Decisions \cup {OtherDecision}, scope : Conditions \cup {AnyCondition},
                 issued : Times, expires : 1..MaxTime + 1]
RemediationBodies == [status : Statuses, updated : Times]
Changes == [decision : Decisions, verdict : Verdicts, action : {"allow", "block", "note"},
            waiver : Waivers \cup {None}, now : Times]
ASSUME NoneIsNone ==
  None \notin WaiverBodies \cup RemediationBodies \cup Changes \cup Waivers

SaveStanding(change) == [to |-> "standing", change |-> change]
RecordStanding(change) == [to |-> "journal_standing", change |-> change]
SaveWaiver(w, body) == [to |-> "waiver", waiver |-> w, body |-> body]
SaveRemediation(r, body) == [to |-> "remediation", remediation |-> r, row |-> body]
RecordLifecycle(id, from, status) ==
  [to |-> "journal_event", id |-> id, from |-> from, status |-> status]

VARIABLES clock,
          standing,     \* the "standing" entities: the last change saved
          waiver,       \* the "waiver" entities
          remediation,  \* the "remediation" entities
          journal,      \* the events appended, each with its time
          proc,         \* each process: the verdict it holds, what it has to write
          calls,        \* operations started
          issued,       \* history: every waiver that was ever saved
          undisturbed   \* history: one at a time, and none was cut short

vars == <<clock, standing, waiver, remediation, journal, proc, calls,
          issued, undisturbed>>
store == <<standing, waiver, remediation, journal, issued>>

Idle == [decision |-> None, verdict |-> None, now |-> 0, writes |-> << >>]

Init ==
  /\ clock = 0 /\ calls = 0 /\ undisturbed = TRUE
  /\ standing = [d \in Decisions |-> None]
  /\ waiver = [w \in Waivers |-> None]
  /\ remediation = [r \in Remediations |-> None]
  /\ journal = << >> /\ issued = {}
  /\ proc = [p \in Procs |-> Idle]

Resting == \A p \in Procs : proc[p] = Idle
Ready == {p \in Procs : proc[p] = Idle /\ calls < MaxCalls}

Begin(p, new) ==
  /\ proc' = [proc EXCEPT ![p] = new]
  /\ calls' = calls + 1
  /\ undisturbed' = (undisturbed /\ Resting)
  /\ UNCHANGED <<clock, standing, waiver, remediation, journal, issued>>

Doing(writes) == [Idle EXCEPT !.writes = writes]

(* evaluate_standing, which says what the evidence of the moment says, and  *)
(* the caller's look at the clock.                                          *)
Evaluate(p, d, v) ==
  Begin(p, [decision |-> d, verdict |-> v, now |-> clock, writes |-> << >>])

(* Mutant: a waiver of one condition covers whatever blocks.                *)
PermitsAnyBlock(body, d, v, now) ==
  /\ body # None
  /\ body.decision = d
  /\ body.issued <= now /\ now < body.expires

(* check_waiver: scope and expiry.                                          *)
Permits(body, d, v, now) ==
  /\ body # None
  /\ body.decision = d
  /\ body.scope # AnyCondition => body.scope \in v.blocking
  /\ body.issued <= now /\ now < body.expires

ChangeWrites(change) == <<SaveStanding(change), RecordStanding(change)>>

(* write_standing_change: the action must agree with the verdict held, or   *)
(* an active waiver let it pass.                                            *)
WriteStandingChange(p, action, w) ==
  LET held == proc[p]
      permitted == w # None /\ Permits(waiver[w], held.decision, held.verdict, held.now)
  IN
  /\ held.verdict # None /\ held.writes = << >>
  /\ held.verdict.stands => action # "block"
  /\ w # None => action = "allow" /\ permitted
  /\ ~held.verdict.stands /\ action # "block" => permitted
  /\ proc' = [proc EXCEPT ![p] = Doing(ChangeWrites(
       [decision |-> held.decision, verdict |-> held.verdict, action |-> action,
        waiver |-> w, now |-> held.now]))]
  /\ UNCHANGED <<clock, standing, waiver, remediation, journal, calls,
                 issued, undisturbed>>

(* issue_waiver: whatever the id stood for before is overwritten.           *)
IssueWaiver(p, w, body) ==
  /\ body.expires > body.issued
  /\ Begin(p, Doing(<<SaveWaiver(w, body), RecordLifecycle(w, None, None)>>))

(* open_remediation: likewise.                                              *)
OpenRemediation(p, r) ==
  Begin(p, Doing(<<SaveRemediation(r, [status |-> "OPEN", updated |-> clock]),
                   RecordLifecycle(r, None, "OPEN")>>))

(* Mutant: any other status will do.                                        *)
MoveAny(row, target, now) == target # row.status /\ now >= row.updated

(* transition_remediation of the record read: a permitted move, not dated   *)
(* before the last one.                                                     *)
MayMove(row, target, now) == target \in Moves[row.status] /\ now >= row.updated

TransitionRemediation(p, r, target) ==
  /\ remediation[r] # None
  /\ MayMove(remediation[r], target, clock)
  /\ Begin(p, Doing(<<SaveRemediation(r, [status |-> target, updated |-> clock]),
                      RecordLifecycle(r, remediation[r].status, target)>>))

Journal(event) == journal' = Append(journal, [ts |-> clock, event |-> event])

(* The next save of a process.                                              *)
Write(p) ==
  LET event == Head(proc[p].writes)
      rest  == Tail(proc[p].writes)
  IN
  /\ proc[p].writes # << >>
  /\ \/ /\ event.to = "standing"
        /\ standing' = [standing EXCEPT ![event.change.decision] = event.change]
        /\ UNCHANGED <<waiver, remediation, journal, issued>>
     \/ /\ event.to = "waiver"
        /\ waiver' = [waiver EXCEPT ![event.waiver] = event.body]
        /\ issued' = issued \cup {[id |-> event.waiver, body |-> event.body]}
        /\ UNCHANGED <<standing, remediation, journal>>
     \/ /\ event.to = "remediation"
        /\ remediation' = [remediation EXCEPT ![event.remediation] = event.row]
        /\ UNCHANGED <<standing, waiver, journal, issued>>
     \/ /\ event.to \in {"journal_standing", "journal_event"}
        /\ Journal(event)
        /\ UNCHANGED <<standing, waiver, remediation, issued>>
  /\ proc' = [proc EXCEPT ![p] = Doing(rest)]
  /\ UNCHANGED <<clock, calls, undisturbed>>

(* A process dies between two saves, or its caller drops the verdict.       *)
Stop(p) ==
  /\ proc[p] # Idle
  /\ proc' = [proc EXCEPT ![p] = Idle]
  /\ undisturbed' = (undisturbed /\ proc[p].writes = << >>)
  /\ UNCHANGED <<clock, store, calls>>

Tick ==
  /\ clock < MaxTime
  /\ clock' = clock + 1
  /\ UNCHANGED <<store, proc, calls, undisturbed>>

Next ==
  \/ \E p \in Ready :
       \/ \E d \in Decisions, v \in Verdicts : Evaluate(p, d, v)
       \/ \E w \in Waivers, b \in WaiverBodies : IssueWaiver(p, w, b)
       \/ \E r \in Remediations :
            OpenRemediation(p, r) \/ \E s \in Statuses : TransitionRemediation(p, r, s)
  \/ \E p \in Procs :
       \/ \E a \in {"allow", "block", "note"}, w \in Waivers \cup {None} :
            WriteStandingChange(p, a, w)
       \/ Write(p) \/ Stop(p)
  \/ Tick

Spec == Init /\ [][Next]_vars
-----------------------------------------------------------------------------
IsChangeOf(d, i) ==
  journal[i].event.to = "journal_standing" /\ journal[i].event.change.decision = d

(* Mutant: the time a change was decided counts, not when it was journaled. *)
StandingByDecisionTime(d, t) ==
  LET known == {i \in DOMAIN journal : IsChangeOf(d, i) /\ journal[i].event.change.now <= t}
  IN IF known = {} THEN None
     ELSE journal[CHOOSE i \in known : \A k \in known : k <= i].event.change

(* project_standing_timeline: the latest change known at t.                 *)
StandingAt(d, t) ==
  LET known == {i \in DOMAIN journal : IsChangeOf(d, i) /\ journal[i].ts <= t}
  IN IF known = {} THEN None
     ELSE journal[CHOOSE i \in known : \A k \in known : k <= i].event.change

(* The positions of the events of a remediation in the journal.             *)
EventsOf(r) ==
  {i \in DOMAIN journal : journal[i].event.to = "journal_event" /\ journal[i].event.id = r}

(* A change against its verdict names a waiver that was issued under that   *)
(* very id, for that decision, for something that blocked it, and had not   *)
(* expired - whatever the id has been overwritten with since.               *)
Covered(change) ==
  ~change.verdict.stands /\ change.action # "block" =>
    \E i \in issued :
      /\ i.id = change.waiver
      /\ i.body.decision = change.decision
      /\ i.body.scope \in change.verdict.blocking \cup {AnyCondition}
      /\ i.body.issued <= change.now /\ change.now < i.body.expires

(* No action is allowed or noted against the verdict, in the journal or in  *)
(* the stored standing, without a waiver that covered it when the verdict   *)
(* was used.  (write_standing_change, check_waiver)                         *)
AllowedByWaiver ==
  /\ \A i \in DOMAIN journal :
       journal[i].event.to = "journal_standing" => Covered(journal[i].event.change)
  /\ \A d \in Decisions : standing[d] # None => Covered(standing[d])

(* What the journal says of an instant that has passed never changes.       *)
PastStandingIsFixed ==
  [][\A d \in Decisions, t \in Times : t < clock => StandingAt(d, t)' = StandingAt(d, t)]_vars

(* Without overlap or death between two saves, the journal retells the      *)
(* records: the standing that is stored is the one read from it, and each   *)
(* remediation is a path of the transition table that starts with its       *)
(* opening and ends where the stored record is.                             *)
JournalRetells ==
  undisturbed /\ Resting =>
    /\ \A d \in Decisions : standing[d] = StandingAt(d, clock)
    /\ \A r \in Remediations : \A i \in EventsOf(r) :
         LET event  == journal[i].event
             before == {k \in EventsOf(r) : k < i}
             after  == {k \in EventsOf(r) : k > i}
         IN
         /\ event.from # None =>
              /\ event.status \in Moves[event.from]
              /\ \E k \in before : /\ \A n \in before : n <= k
                                   /\ journal[k].event.status = event.from
         /\ after = {} => remediation[r].status = event.status
================================================================================
