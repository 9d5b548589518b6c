-------------------------- MODULE ActionRecords_proofs --------------------------
(***************************************************************************)
(* The records beside a decision, for any number of processes, decisions,  *)
(* conditions, waivers and remediations:                                   *)
(*   - nothing passes against a verdict without a waiver (AllowedByWaiver),*)
(*     however issues, uses, overwrites and deaths interleave;             *)
(*   - what the journal says of the past is fixed (PastStandingIsFixed);   *)
(*   - without overlap or death the journal retells the records            *)
(*     (JournalRetells): `Stage' says how far the records are ahead of the *)
(*     journal, by what a process has still to write.                      *)
(***************************************************************************)
EXTENDS ActionRecords, FiniteSetTheorems, WellFoundedInduction, TLAPS

(* What may still have to be written.                                       *)
StandingEvents == [to : {"standing", "journal_standing"}, change : Changes]
WaiverEvents == [to : {"waiver"}, waiver : Waivers, body : WaiverBodies]
RemediationEvents ==
  [to : {"remediation"}, remediation : Remediations, row : RemediationBodies]
LifecycleEvents ==
  [to : {"journal_event"}, id : Waivers \cup Remediations,
   from : Statuses \cup {None}, status : Statuses \cup {None}]
Events == StandingEvents \cup WaiverEvents \cup RemediationEvents \cup LifecycleEvents

ProcStates == [decision : Decisions \cup {None}, verdict : Verdicts \cup {None},
               now : Times, writes : Seq(Events)]

TypeOK ==
  /\ clock \in Times
  /\ standing \in [Decisions -> Changes \cup {None}]
  /\ waiver \in [Waivers -> WaiverBodies \cup {None}]
  /\ remediation \in [Remediations -> RemediationBodies \cup {None}]
  /\ journal \in Seq([ts : Times, event : Events])
  /\ proc \in [Procs -> ProcStates]

(* Whoever holds a verdict holds one about a decision.                      *)
VerdictsHaveDecisions ==
  \A p \in Procs : proc[p].verdict # None => proc[p].decision \in Decisions

(* The waivers stored are among those issued.                               *)
StoredWasIssued ==
  \A w \in Waivers : waiver[w] # None => [id |-> w, body |-> waiver[w]] \in issued

(* A change that is still to be saved or journaled is covered already.      *)
EventCovered(event) == event \in StandingEvents => Covered(event.change)
PendingIsCovered ==
  \A p \in Procs : \A n \in DOMAIN proc[p].writes : EventCovered(proc[p].writes[n])

IInv ==
  /\ TypeOK
  /\ VerdictsHaveDecisions
  /\ StoredWasIssued
  /\ PendingIsCovered
  /\ AllowedByWaiver

-----------------------------------------------------------------------------
(* What was issued once stays issued, so what was covered stays covered.    *)
LEMMA CoverIsStable ==
  ASSUME issued \subseteq issued', NEW change, Covered(change)
  PROVE  Covered(change)'
  BY DEF Covered

(* A process that has nothing left to do is as one that has not begun.      *)
LEMMA IdleType == Idle \in ProcStates /\ Idle.verdict = None /\ Idle.writes = << >>
  BY RecordBounds DEF Idle, ProcStates, Times

LEMMA DoingType ==
  ASSUME NEW writes \in Seq(Events)
  PROVE  /\ Doing(writes) \in ProcStates
         /\ Doing(writes).verdict = None
         /\ Doing(writes).writes = writes
  <1>1. Doing(writes) = [decision |-> None, verdict |-> None, now |-> 0, writes |-> writes]
    BY DEF Doing, Idle
  <1>2. 0 \in Times
    BY RecordBounds DEF Times
  <1>3. QED
    BY <1>1, <1>2 DEF ProcStates

(* The constructors of events make events; those of the standing change are *)
(* the two that carry one.                                                  *)
LEMMA EventTypes ==
  /\ \A c \in Changes : /\ SaveStanding(c) \in StandingEvents /\ SaveStanding(c).change = c
                        /\ RecordStanding(c) \in StandingEvents /\ RecordStanding(c).change = c
  /\ \A w \in Waivers, b \in WaiverBodies : SaveWaiver(w, b) \in WaiverEvents
  /\ \A r \in Remediations, b \in RemediationBodies : SaveRemediation(r, b) \in RemediationEvents
  /\ \A id \in Waivers \cup Remediations, f, s \in Statuses \cup {None} :
       RecordLifecycle(id, f, s) \in LifecycleEvents
  BY DEF SaveStanding, RecordStanding, SaveWaiver, SaveRemediation, RecordLifecycle,
         StandingEvents, WaiverEvents, RemediationEvents, LifecycleEvents

LEMMA OnlyStandingIsCovered ==
  ASSUME NEW event \in WaiverEvents \cup RemediationEvents \cup LifecycleEvents
  PROVE  EventCovered(event)
  BY DEF EventCovered, StandingEvents, WaiverEvents, RemediationEvents, LifecycleEvents

(* A call that begins - or goes on from its check to its writes - keeps the *)
(* invariant if what it is going to write is covered.                       *)
LEMMA NewState ==
  ASSUME IInv, NEW p \in Procs,
         proc' = [proc EXCEPT ![p] = proc'[p]],
         proc'[p] \in ProcStates,
         proc'[p].verdict # None => proc'[p].decision \in Decisions,
         \A n \in DOMAIN proc'[p].writes : EventCovered(proc'[p].writes[n]),
         clock' \in Times,
         UNCHANGED <<standing, waiver, remediation, journal, issued>>
  PROVE  IInv'
  <1>1. TypeOK'
    BY DEF IInv, TypeOK
  <1>2. VerdictsHaveDecisions'
    BY DEF IInv, TypeOK, VerdictsHaveDecisions
  <1>3. StoredWasIssued'
    BY DEF IInv, StoredWasIssued
  <1>4. PendingIsCovered'
    <2> SUFFICES ASSUME NEW q \in Procs, NEW n \in DOMAIN proc'[q].writes
                 PROVE  EventCovered(proc[q].writes[n])'
      BY DEF PendingIsCovered
    <2>1. EventCovered(proc'[q].writes[n])
      <3>1. CASE q = p
        BY <3>1 DEF IInv, TypeOK
      <3>2. CASE q # p
        <4>1. proc'[q] = proc[q]
          BY <3>2 DEF IInv, TypeOK
        <4>2. QED
          BY <4>1 DEF IInv, PendingIsCovered
      <3>3. QED
        BY <3>1, <3>2
    <2>2. QED
      BY <2>1 DEF EventCovered, Covered
  <1>5. AllowedByWaiver'
    BY DEF IInv, AllowedByWaiver, Covered
  <1>6. QED
    BY <1>1, <1>2, <1>3, <1>4, <1>5 DEF IInv

LEMMA AppendType ==
  ASSUME NEW S, NEW s \in Seq(S), NEW e \in S
  PROVE  Append(s, e) \in Seq(S)
  OBVIOUS

LEMMA EntryType ==
  ASSUME NEW S, NEW s \in Seq(S)
  PROVE  \A i \in DOMAIN s : s[i] \in S
  OBVIOUS

LEMMA TwoWrites ==
  ASSUME NEW a \in Events, NEW b \in Events, EventCovered(a), EventCovered(b)
  PROVE  /\ <<a, b>> \in Seq(Events)
         /\ \A n \in DOMAIN <<a, b>> : EventCovered(<<a, b>>[n])
  OBVIOUS
-----------------------------------------------------------------------------
LEMMA InitIInv == Init => IInv
  <1> SUFFICES ASSUME Init PROVE IInv
    OBVIOUS
  <1>1. TypeOK
    BY IdleType, RecordBounds DEF Init, TypeOK, Times
  <1>2. VerdictsHaveDecisions /\ PendingIsCovered
    BY IdleType DEF Init, VerdictsHaveDecisions, PendingIsCovered
  <1>3. StoredWasIssued
    BY DEF Init, StoredWasIssued
  <1>4. AllowedByWaiver
    BY DEF Init, AllowedByWaiver
  <1>5. QED
    BY <1>1, <1>2, <1>3, <1>4 DEF IInv

LEMMA EvaluateStep ==
  ASSUME IInv, NEW p \in Procs, NEW d \in Decisions, NEW v \in Verdicts, Evaluate(p, d, v)
  PROVE  IInv'
  <1> DEFINE new == [decision |-> d, verdict |-> v, now |-> clock, writes |-> << >>]
  <1>1. proc' = [proc EXCEPT ![p] = new]
    BY DEF Evaluate, Begin
  <1>2. new \in ProcStates /\ new.decision \in Decisions /\ DOMAIN new.writes = {}
    BY DEF ProcStates, IInv, TypeOK
  <1>3. clock' \in Times /\ UNCHANGED <<standing, waiver, remediation, journal, issued>>
    BY DEF Evaluate, Begin, IInv, TypeOK
  <1> HIDE DEF new
  <1>4. proc'[p] = new
    BY <1>1 DEF IInv, TypeOK
  <1>5. QED
    BY <1>1, <1>2, <1>3, <1>4, NewState

(* A call that begins with two events to write, neither a standing change.  *)
LEMMA BeginWrites ==
  ASSUME IInv, NEW p \in Procs,
         NEW a \in WaiverEvents \cup RemediationEvents, NEW b \in LifecycleEvents,
         Begin(p, Doing(<<a, b>>))
  PROVE  IInv'
  <1>1. /\ <<a, b>> \in Seq(Events)
        /\ \A n \in DOMAIN <<a, b>> : EventCovered(<<a, b>>[n])
    BY TwoWrites, OnlyStandingIsCovered DEF Events
  <1>2. /\ Doing(<<a, b>>) \in ProcStates
        /\ Doing(<<a, b>>).verdict = None
        /\ Doing(<<a, b>>).writes = <<a, b>>
    BY <1>1, DoingType
  <1>3. proc'[p] = Doing(<<a, b>>)
    BY DEF Begin, IInv, TypeOK
  <1>4. QED
    BY <1>1, <1>2, <1>3, NewState DEF Begin, IInv, TypeOK

LEMMA IssueStep ==
  ASSUME IInv, NEW p \in Procs, NEW w \in Waivers, NEW body \in WaiverBodies,
         IssueWaiver(p, w, body)
  PROVE  IInv'
  BY EventTypes, BeginWrites DEF IssueWaiver

LEMMA OpenStep ==
  ASSUME IInv, NEW p \in Procs, NEW r \in Remediations, OpenRemediation(p, r)
  PROVE  IInv'
  <1>1. [status |-> "OPEN", updated |-> clock] \in RemediationBodies
    BY DEF IInv, TypeOK, RemediationBodies, Statuses
  <1>2. "OPEN" \in Statuses
    BY DEF Statuses
  <1>3. QED
    BY <1>1, <1>2, EventTypes, BeginWrites DEF OpenRemediation

LEMMA TransitionStep ==
  ASSUME IInv, NEW p \in Procs, NEW r \in Remediations, NEW s \in Statuses,
         TransitionRemediation(p, r, s)
  PROVE  IInv'
  <1>1. remediation[r] \in RemediationBodies
    BY DEF IInv, TypeOK, TransitionRemediation
  <1>2. remediation[r].status \in Statuses /\ [status |-> s, updated |-> clock] \in RemediationBodies
    BY <1>1 DEF IInv, TypeOK, RemediationBodies
  <1>3. QED
    BY <1>1, <1>2, EventTypes, BeginWrites DEF TransitionRemediation

(* The check of write_standing_change: against the verdict only with a      *)
(* waiver that is stored now, and so was issued.                            *)
LEMMA PermittedIsCovered ==
  ASSUME IInv, NEW w \in Waivers \cup {None}, NEW change,
         ~change.verdict.stands /\ change.action # "block" =>
           w # None /\ Permits(waiver[w], change.decision, change.verdict, change.now),
         change.waiver = w
  PROVE  Covered(change)
  <1> SUFFICES ASSUME ~change.verdict.stands, change.action # "block"
               PROVE  \E i \in issued :
                        /\ i.id = change.waiver
                        /\ i.body.decision = change.decision
                        /\ i.body.scope \in change.verdict.blocking \cup {AnyCondition}
                        /\ i.body.issued <= change.now /\ change.now < i.body.expires
    BY DEF Covered
  <1>1. w \in Waivers /\ Permits(waiver[w], change.decision, change.verdict, change.now)
    OBVIOUS
  <1>2. [id |-> w, body |-> waiver[w]] \in issued
    BY <1>1 DEF IInv, StoredWasIssued, Permits
  <1>3. /\ waiver[w].decision = change.decision
        /\ waiver[w].scope \in change.verdict.blocking \cup {AnyCondition}
        /\ waiver[w].issued <= change.now /\ change.now < waiver[w].expires
    BY <1>1 DEF Permits
  <1>4. QED
    BY <1>2, <1>3

LEMMA ChangeStep ==
  ASSUME IInv, NEW p \in Procs, NEW action \in {"allow", "block", "note"},
         NEW w \in Waivers \cup {None}, WriteStandingChange(p, action, w)
  PROVE  IInv'
  <1> DEFINE change == [decision |-> proc[p].decision, verdict |-> proc[p].verdict,
                        action |-> action, waiver |-> w, now |-> proc[p].now]
             writes == <<SaveStanding(change), RecordStanding(change)>>
  <1>1. change \in Changes
    <2>1. proc[p] \in ProcStates /\ proc[p].verdict # None
      BY DEF WriteStandingChange, IInv, TypeOK
    <2>2. proc[p].verdict \in Verdicts /\ proc[p].decision \in Decisions /\ proc[p].now \in Times
      BY <2>1 DEF IInv, VerdictsHaveDecisions, ProcStates
    <2>3. QED
      BY <2>2 DEF Changes
  <1>2. Covered(change)
    <2>1. ~change.verdict.stands /\ change.action # "block" =>
            w # None /\ Permits(waiver[w], change.decision, change.verdict, change.now)
      BY DEF WriteStandingChange
    <2>2. change.waiver = w
      OBVIOUS
    <2> HIDE DEF change
    <2>3. QED
      BY <2>1, <2>2, PermittedIsCovered
  <1>3. proc' = [proc EXCEPT ![p] = Doing(writes)]
    BY DEF WriteStandingChange, ChangeWrites
  <1> HIDE DEF change
  <1>4. /\ writes \in Seq(Events)
        /\ \A n \in DOMAIN writes : EventCovered(writes[n])
    BY <1>1, <1>2, EventTypes, TwoWrites DEF EventCovered, Events
  <1> HIDE DEF writes
  <1>5. /\ Doing(writes) \in ProcStates
        /\ Doing(writes).verdict = None
        /\ Doing(writes).writes = writes
    BY <1>4, DoingType
  <1>6. proc'[p] = Doing(writes)
    BY <1>3 DEF IInv, TypeOK
  <1>7. clock' \in Times /\ UNCHANGED <<standing, waiver, remediation, journal, issued>>
    BY DEF WriteStandingChange, IInv, TypeOK
  <1>8. QED
    BY <1>3, <1>4, <1>5, <1>6, <1>7, NewState

LEMMA StopStep ==
  ASSUME IInv, NEW p \in Procs, Stop(p)
  PROVE  IInv'
  <1>1. proc'[p] = Idle /\ proc' = [proc EXCEPT ![p] = Idle]
    BY DEF Stop, IInv, TypeOK
  <1>2. clock' \in Times /\ UNCHANGED <<standing, waiver, remediation, journal, issued>>
    BY DEF Stop, store, IInv, TypeOK
  <1>3. DOMAIN Idle.writes = {}
    BY IdleType
  <1>4. QED
    BY <1>1, <1>2, <1>3, IdleType, NewState

(* The next save: what is written is what was covered when it was checked.  *)
LEMMA WriteStep ==
  ASSUME IInv, NEW p \in Procs, Write(p)
  PROVE  IInv'
  <1> DEFINE event == Head(proc[p].writes)
             rest  == Tail(proc[p].writes)
  <1>1. /\ proc[p] \in ProcStates /\ proc[p].writes \in Seq(Events)
        /\ proc[p].writes # << >>
    BY DEF Write, IInv, TypeOK, ProcStates
  <1>2. /\ event \in Events /\ EventCovered(event)
        /\ rest \in Seq(Events)
        /\ \A n \in DOMAIN rest : EventCovered(rest[n])
    <2>1. \A n \in DOMAIN proc[p].writes : EventCovered(proc[p].writes[n])
      BY DEF IInv, PendingIsCovered
    <2>2. event = proc[p].writes[1] /\ 1 \in DOMAIN proc[p].writes
      BY <1>1
    <2>3. /\ rest \in Seq(Events)
          /\ \A n \in DOMAIN rest : n + 1 \in DOMAIN proc[p].writes
                                   /\ rest[n] = proc[p].writes[n + 1]
      BY <1>1
    <2>4. event \in Events
      BY <1>1
    <2>5. QED
      BY <2>1, <2>2, <2>3, <2>4
  <1>3. proc' = [proc EXCEPT ![p] = Doing(rest)] /\ clock' = clock
    BY DEF Write
  <1>4. /\ Doing(rest) \in ProcStates
        /\ Doing(rest).verdict = None /\ Doing(rest).writes = rest
    BY <1>2, DoingType
  <1>5. /\ event.to = "standing" =>
             /\ standing' = [standing EXCEPT ![event.change.decision] = event.change]
             /\ UNCHANGED <<waiver, remediation, journal, issued>>
        /\ event.to = "waiver" =>
             /\ waiver' = [waiver EXCEPT ![event.waiver] = event.body]
             /\ issued' = issued \cup {[id |-> event.waiver, body |-> event.body]}
             /\ UNCHANGED <<standing, remediation, journal>>
        /\ event.to = "remediation" =>
             /\ remediation' = [remediation EXCEPT ![event.remediation] = event.row]
             /\ UNCHANGED <<standing, waiver, journal, issued>>
        /\ event.to \in {"journal_standing", "journal_event"} =>
             /\ journal' = Append(journal, [ts |-> clock, event |-> event])
             /\ UNCHANGED <<standing, waiver, remediation, issued>>
        /\ event.to \in {"standing", "waiver", "remediation",
                         "journal_standing", "journal_event"}
    BY DEF Write, Journal
  <1>6. /\ event.to \in {"standing", "journal_standing"} =>
             event \in StandingEvents /\ event.change \in Changes /\ event.change.decision \in Decisions
        /\ event.to = "waiver" => event.waiver \in Waivers /\ event.body \in WaiverBodies
        /\ event.to = "remediation" =>
             event.remediation \in Remediations /\ event.row \in RemediationBodies
    BY <1>2 DEF Events, StandingEvents, WaiverEvents, RemediationEvents, LifecycleEvents, Changes
  <1> HIDE DEF event, rest
  <1>7. issued \subseteq issued'
    BY <1>5
  <1>8. TypeOK'
    <2>1. standing' \in [Decisions -> Changes \cup {None}]
      BY <1>5, <1>6 DEF IInv, TypeOK
    <2>2. waiver' \in [Waivers -> WaiverBodies \cup {None}]
      BY <1>5, <1>6 DEF IInv, TypeOK
    <2>3. remediation' \in [Remediations -> RemediationBodies \cup {None}]
      BY <1>5, <1>6 DEF IInv, TypeOK
    <2>4. journal' \in Seq([ts : Times, event : Events])
      <3>1. /\ [ts |-> clock, event |-> event] \in [ts : Times, event : Events]
            /\ journal \in Seq([ts : Times, event : Events])
        BY <1>2 DEF IInv, TypeOK
      <3>2. \/ journal' = journal
            \/ journal' = Append(journal, [ts |-> clock, event |-> event])
        BY <1>5
      <3>3. QED
        BY <3>1, <3>2, AppendType
    <2>5. proc' \in [Procs -> ProcStates] /\ clock' \in Times
      BY <1>3, <1>4 DEF IInv, TypeOK
    <2>6. QED
      BY <2>1, <2>2, <2>3, <2>4, <2>5 DEF TypeOK
  <1>9. VerdictsHaveDecisions'
    BY <1>3, <1>4 DEF IInv, TypeOK, VerdictsHaveDecisions
  <1>10. StoredWasIssued'
    <2>1. CASE event.to = "waiver"
      BY <2>1, <1>5, <1>6 DEF IInv, TypeOK, StoredWasIssued
    <2>2. CASE event.to # "waiver"
      BY <2>2, <1>5 DEF IInv, StoredWasIssued
    <2>3. QED
      BY <2>1, <2>2
  <1>11. PendingIsCovered'
    <2> SUFFICES ASSUME NEW q \in Procs, NEW n \in DOMAIN proc'[q].writes
                 PROVE  EventCovered(proc[q].writes[n])'
      BY DEF PendingIsCovered
    <2>1. EventCovered(proc'[q].writes[n])
      <3>1. CASE q = p
        <4>1. proc'[q].writes = rest
          BY <1>3, <1>4, <3>1 DEF IInv, TypeOK
        <4>2. QED
          BY <4>1, <1>2
      <3>2. CASE q # p
        <4>1. proc'[q] = proc[q]
          BY <1>3, <3>2 DEF IInv, TypeOK
        <4>2. QED
          BY <4>1 DEF IInv, PendingIsCovered
      <3>3. QED
        BY <3>1, <3>2
    <2>2. QED
      BY <2>1, <1>7 DEF EventCovered, Covered
  <1>12. AllowedByWaiver'
    <2>1. \A d \in Decisions : standing'[d] # None => Covered(standing'[d])
      <3>1. CASE event.to = "standing"
        BY <3>1, <1>2, <1>5, <1>6 DEF EventCovered, IInv, TypeOK, AllowedByWaiver
      <3>2. CASE event.to # "standing"
        BY <3>2, <1>5 DEF IInv, AllowedByWaiver
      <3>3. QED
        BY <3>1, <3>2
    <2>2. \A i \in DOMAIN journal' :
            journal'[i].event.to = "journal_standing" => Covered(journal'[i].event.change)
      <3>1. CASE journal' = journal
        BY <3>1 DEF IInv, AllowedByWaiver
      <3>2. CASE journal' = Append(journal, [ts |-> clock, event |-> event])
        <4> SUFFICES ASSUME NEW i \in DOMAIN journal',
                            journal'[i].event.to = "journal_standing"
                     PROVE  Covered(journal'[i].event.change)
          OBVIOUS
        <4>1. journal \in Seq([ts : Times, event : Events])
          BY DEF IInv, TypeOK
        <4>2. \/ i \in DOMAIN journal /\ journal'[i] = journal[i]
              \/ journal'[i].event = event
          BY <3>2, <4>1
        <4>3. CASE i \in DOMAIN journal /\ journal'[i] = journal[i]
          BY <4>3 DEF IInv, AllowedByWaiver
        <4>4. CASE journal'[i].event = event
          BY <4>4, <1>2, <1>6 DEF EventCovered
        <4>5. QED
          BY <4>2, <4>3, <4>4
      <3>3. QED
        BY <3>1, <3>2, <1>5
    <2>3. QED
      BY <2>1, <2>2, <1>7 DEF AllowedByWaiver, Covered
  <1>13. QED
    BY <1>8, <1>9, <1>10, <1>11, <1>12 DEF IInv

LEMMA QuietStep ==
  ASSUME IInv, Tick \/ UNCHANGED vars
  PROVE  IInv'
  <1>1. UNCHANGED <<standing, waiver, remediation, journal, proc, issued>> /\ clock' \in Times
    BY RecordBounds DEF Tick, vars, store, IInv, TypeOK, Times
  <1>2. TypeOK' /\ VerdictsHaveDecisions' /\ StoredWasIssued'
    BY <1>1 DEF IInv, TypeOK, VerdictsHaveDecisions, StoredWasIssued
  <1>3. PendingIsCovered' /\ AllowedByWaiver'
    BY <1>1 DEF IInv, PendingIsCovered, AllowedByWaiver, EventCovered, Covered
  <1>4. QED
    BY <1>2, <1>3 DEF IInv

LEMMA NextIInv == IInv /\ [Next]_vars => IInv'
  <1> SUFFICES ASSUME IInv, [Next]_vars PROVE IInv'
    OBVIOUS
  <1>1. ASSUME NEW p \in Ready, NEW d \in Decisions, NEW v \in Verdicts, Evaluate(p, d, v)
        PROVE  IInv'
    BY <1>1, EvaluateStep DEF Ready
  <1>2. ASSUME NEW p \in Ready, NEW w \in Waivers, NEW b \in WaiverBodies, IssueWaiver(p, w, b)
        PROVE  IInv'
    BY <1>2, IssueStep DEF Ready
  <1>3. ASSUME NEW p \in Ready, NEW r \in Remediations, OpenRemediation(p, r)
        PROVE  IInv'
    BY <1>3, OpenStep DEF Ready
  <1>4. ASSUME NEW p \in Ready, NEW r \in Remediations, NEW s \in Statuses,
               TransitionRemediation(p, r, s)
        PROVE  IInv'
    BY <1>4, TransitionStep DEF Ready
  <1>5. ASSUME NEW p \in Procs, NEW a \in {"allow", "block", "note"},
               NEW w \in Waivers \cup {None}, WriteStandingChange(p, a, w)
        PROVE  IInv'
    BY <1>5, ChangeStep
  <1>6. ASSUME NEW p \in Procs, Write(p) \/ Stop(p)
        PROVE  IInv'
    BY <1>6, WriteStep, StopStep
  <1>7. CASE Tick \/ UNCHANGED vars
    BY <1>7, QuietStep
  <1>8. QED
    BY <1>1, <1>2, <1>3, <1>4, <1>5, <1>6, <1>7 DEF Next

(* A waiver is what lets an action pass: whatever processes do at the same  *)
(* time, overwrite or leave half done, no stored standing and no journal    *)
(* entry goes against its verdict without a waiver that was issued, covered *)
(* it and had not expired when the verdict was used.                        *)
(* (write_standing_change, check_waiver)                                    *)
THEOREM NothingPassesUncovered == Spec => []AllowedByWaiver
  <1>1. IInv => AllowedByWaiver
    BY DEF IInv
  <1>2. QED
    BY InitIInv, NextIInv, <1>1, PTL DEF Spec
-----------------------------------------------------------------------------
(* What the journal retells.  Every entry was appended at or before the     *)
(* present, so the standing it tells now is that of the last change of all. *)
JournalIsPast == \A i \in DOMAIN journal : journal[i].ts <= clock

ChangesOf(d) == {i \in DOMAIN journal : IsChangeOf(d, i)}
IsLastOf(i, S) == i \in S /\ \A k \in S : k <= i

StandingRetold(d) ==
  IF ChangesOf(d) = {} THEN standing[d] = None
  ELSE \E i \in ChangesOf(d) : IsLastOf(i, ChangesOf(d)) /\ standing[d] = journal[i].event.change

(* A move follows from the status of the latest event before it.            *)
Follows(r, i) ==
  journal[i].event.from # None =>
    /\ journal[i].event.status \in Moves[journal[i].event.from]
    /\ \E k \in DOMAIN journal : /\ IsLastOf(k, {n \in EventsOf(r) : n < i})
                                 /\ journal[k].event.status = journal[i].event.from
Path(r) == \A i \in EventsOf(r) : Follows(r, i)

RemediationRetold(r) ==
  /\ Path(r)
  /\ remediation[r] # None =>
       \E k \in DOMAIN journal : /\ IsLastOf(k, EventsOf(r))
                                 /\ journal[k].event.status = remediation[r].status
  /\ EventsOf(r) # {} => remediation[r] # None

Retold ==
  /\ \A d \in Decisions : StandingRetold(d)
  /\ \A r \in Remediations : RemediationRetold(r)

(* A change that is saved and not yet journaled.                            *)
ChangeAhead(c) ==
  /\ standing[c.decision] = c
  /\ \A d \in Decisions \ {c.decision} : StandingRetold(d)
  /\ \A r \in Remediations : RemediationRetold(r)

(* A move that is to be saved, and one that is saved and not yet journaled. *)
MoveIsDue(r, from, status) ==
  /\ Retold
  /\ from # None => /\ status \in Moves[from]
                    /\ remediation[r] # None /\ remediation[r].status = from
MoveAhead(r, from, status) ==
  /\ remediation[r] # None /\ remediation[r].status = status
  /\ Path(r)
  /\ from # None =>
       /\ status \in Moves[from]
       /\ \E k \in DOMAIN journal : IsLastOf(k, EventsOf(r)) /\ journal[k].event.status = from
  /\ \A d \in Decisions : StandingRetold(d)
  /\ \A q \in Remediations \ {r} : RemediationRetold(q)

(* How far the records are ahead of the journal, by what is still to write. *)
Stage(writes) ==
  \/ /\ writes = << >> /\ Retold
  \/ \E c \in Changes : writes = ChangeWrites(c) /\ Retold
  \/ \E c \in Changes : writes = <<RecordStanding(c)>> /\ ChangeAhead(c)
  \/ \E w \in Waivers : \E body \in WaiverBodies :
       writes = <<SaveWaiver(w, body), RecordLifecycle(w, None, None)>> /\ Retold
  \/ \E w \in Waivers : writes = <<RecordLifecycle(w, None, None)>> /\ Retold
  \/ \E r \in Remediations : \E row \in RemediationBodies : \E from \in Statuses \cup {None} :
       /\ writes = <<SaveRemediation(r, row), RecordLifecycle(r, from, row.status)>>
       /\ MoveIsDue(r, from, row.status)
  \/ \E r \in Remediations : \E from \in Statuses \cup {None} : \E status \in Statuses :
       writes = <<RecordLifecycle(r, from, status)>> /\ MoveAhead(r, from, status)

InOrder ==
  undisturbed =>
    /\ Resting => Retold
    /\ \A p \in Procs : proc[p] # Idle =>
         /\ \A q \in Procs \ {p} : proc[q] = Idle
         /\ \A writes \in {proc[p].writes} : Stage(writes)

JInv == IInv /\ JournalIsPast /\ InOrder

-----------------------------------------------------------------------------
(* A nonempty set of positions has a last one: a smallest subset without    *)
(* one would still have none after losing a member.                         *)
LEMMA LastExists ==
  ASSUME NEW n \in Nat, NEW S \in SUBSET (1..n), S # {}
  PROVE  \E i \in S : IsLastOf(i, S)
  <1> DEFINE Endless == {T \in SUBSET S : T # {} /\ ~\E i \in T : IsLastOf(i, T)}
  <1>1. SUFFICES ASSUME Endless # {} PROVE FALSE
    OBVIOUS
  <1>2. IsFiniteSet(S)
    <2>1. IsFiniteSet(1..n)
      BY FS_Interval
    <2>2. QED
      BY <2>1, FS_Subset
  <1>3. PICK T \in Endless : \A U \in Endless : <<U, T>> \notin StrictSubsetOrdering(S)
    <2>1. Endless \subseteq FiniteSubsetsOf(S)
      BY <1>2, FS_Subset DEF FiniteSubsetsOf
    <2>2. IsWellFoundedOn(StrictSubsetOrdering(S), FiniteSubsetsOf(S))
      BY <1>2, FS_StrictSubsetOrderingWellFounded
    <2> HIDE DEF Endless
    <2>3. QED
      BY <1>1, <2>1, <2>2, WFMin
  <1>4. PICK x \in T : TRUE
    OBVIOUS
  <1>5. T \ {x} # {}
    <2>1. SUFFICES ASSUME T = {x} PROVE FALSE
      BY <1>4
    <2>2. x \in Int
      OBVIOUS
    <2>3. QED
      BY <2>1, <2>2 DEF IsLastOf
  <1>6. PICK i \in T \ {x} : IsLastOf(i, T \ {x})
    <2>1. <<T \ {x}, T>> \in StrictSubsetOrdering(S)
      BY <1>4 DEF StrictSubsetOrdering
    <2>2. QED
      BY <1>3, <1>5, <2>1
  <1>7. x \in Int /\ i \in Int /\ \A k \in T : k \in Int
    OBVIOUS
  <1>8. IsLastOf(i, T) \/ IsLastOf(x, T)
    <2>1. CASE x <= i
      BY <1>6, <1>7, <2>1 DEF IsLastOf
    <2>2. CASE i <= x
      <3>1. \A k \in T : k = x \/ k <= i
        BY <1>6 DEF IsLastOf
      <3>2. QED
        BY <3>1, <1>4, <1>7, <2>2 DEF IsLastOf
    <2>3. QED
      BY <1>7, <2>1, <2>2
  <1>9. QED
    BY <1>4, <1>6, <1>8

(* What a step does to the journal: nothing, or one entry of the present.   *)
LEMMA JournalStep ==
  ASSUME [Next]_vars
  PROVE  \/ journal' = journal
         \/ \E p \in Procs : Write(p) /\ journal' = Append(journal, [ts |-> clock, event |-> Head(proc[p].writes)])
  <1>1. \A p, new : Begin(p, new) => journal' = journal
    BY DEF Begin
  <1>2. ASSUME NEW p \in Ready
        PROVE  /\ \A d, v : Evaluate(p, d, v) => journal' = journal
               /\ \A w, b : IssueWaiver(p, w, b) => journal' = journal
               /\ \A r : OpenRemediation(p, r) => journal' = journal
               /\ \A r, s : TransitionRemediation(p, r, s) => journal' = journal
    BY <1>1 DEF Evaluate, IssueWaiver, OpenRemediation, TransitionRemediation
  <1>3. \A p, a, w : WriteStandingChange(p, a, w) => journal' = journal
    BY DEF WriteStandingChange
  <1>4. \A p : Write(p) => \/ journal' = journal
                           \/ journal' = Append(journal, [ts |-> clock, event |-> Head(proc[p].writes)])
    BY DEF Write, Journal
  <1>5. /\ \A p : Stop(p) => journal' = journal
        /\ Tick \/ UNCHANGED vars => journal' = journal
    BY DEF Stop, Tick, vars, store
  <1>6. QED
    BY <1>2, <1>3, <1>4, <1>5 DEF Next

LEMMA ClockStep ==
  ASSUME IInv, [Next]_vars
  PROVE  clock' \in Int /\ clock <= clock'
  <1>1. clock \in Int
    BY RecordBounds DEF IInv, TypeOK, Times
  <1>2. \A p, new : Begin(p, new) => clock' = clock
    BY DEF Begin
  <1>3. ASSUME NEW p \in Ready
        PROVE  /\ \A d, v : Evaluate(p, d, v) => clock' = clock
               /\ \A w, b : IssueWaiver(p, w, b) => clock' = clock
               /\ \A r : OpenRemediation(p, r) => clock' = clock
               /\ \A r, s : TransitionRemediation(p, r, s) => clock' = clock
    BY <1>2 DEF Evaluate, IssueWaiver, OpenRemediation, TransitionRemediation
  <1>4. /\ \A p, a, w : WriteStandingChange(p, a, w) => clock' = clock
        /\ \A p : Write(p) => clock' = clock
        /\ \A p : Stop(p) => clock' = clock
        /\ UNCHANGED vars => clock' = clock
        /\ Tick => clock' = clock + 1
    BY DEF WriteStandingChange, Write, Stop, Tick, vars
  <1>5. clock' = clock \/ clock' = clock + 1
    BY <1>3, <1>4 DEF Next
  <1>6. QED
    BY <1>1, <1>5

LEMMA JournalStaysPast ==
  ASSUME IInv, JournalIsPast, [Next]_vars
  PROVE  JournalIsPast'
  <1>1. /\ clock \in Int /\ clock' \in Int /\ clock <= clock'
        /\ journal \in Seq([ts : Times, event : Events])
    BY RecordBounds, ClockStep DEF IInv, TypeOK, Times
  <1>2. \A i \in DOMAIN journal : journal[i].ts \in Int /\ journal[i].ts <= clock'
    <2>1. \A i \in DOMAIN journal : journal[i] \in [ts : Times, event : Events]
      BY <1>1, EntryType
    <2>2. \A i \in DOMAIN journal : journal[i].ts \in Int
      BY <2>1, RecordBounds DEF Times
    <2>3. QED
      BY <1>1, <2>2 DEF JournalIsPast
  <1>3. CASE journal' = journal
    BY <1>2, <1>3 DEF JournalIsPast
  <1>4. ASSUME NEW p \in Procs,
               journal' = Append(journal, [ts |-> clock, event |-> Head(proc[p].writes)])
        PROVE  JournalIsPast'
    <2>1. ASSUME NEW i \in DOMAIN journal' PROVE journal'[i].ts <= clock'
      <3>1. \/ i \in DOMAIN journal /\ journal'[i] = journal[i]
            \/ journal'[i].ts = clock
        BY <1>1, <1>4
      <3>2. QED
        BY <3>1, <1>1, <1>2
    <2>2. QED
      BY <2>1 DEF JournalIsPast
  <1>5. QED
    BY <1>3, <1>4, JournalStep

(* The changes known at a past instant are the same after any step: what is *)
(* appended bears the time of the present.                                  *)
LEMMA KnownThenIsKnown ==
  ASSUME IInv, [Next]_vars, NEW d \in Decisions, NEW t \in Times, t < clock
  PROVE  LET known == {i \in DOMAIN journal : IsChangeOf(d, i) /\ journal[i].ts <= t}
         IN known' = known /\ \A i \in known : journal'[i] = journal[i]
  <1> DEFINE known == {i \in DOMAIN journal : IsChangeOf(d, i) /\ journal[i].ts <= t}
  <1>1. clock \in Int /\ t \in Int /\ journal \in Seq([ts : Times, event : Events])
    BY RecordBounds DEF IInv, TypeOK, Times
  <1>2. ASSUME NEW entry, journal' = Append(journal, entry), entry.ts = clock
        PROVE  /\ \A i \in DOMAIN journal : i \in DOMAIN journal' /\ journal'[i] = journal[i]
               /\ \A i \in DOMAIN journal' : i \in DOMAIN journal \/ journal'[i].ts = clock
    BY <1>1, <1>2
  <1>3. /\ \A i \in DOMAIN journal : i \in DOMAIN journal' /\ journal'[i] = journal[i]
        /\ \A i \in DOMAIN journal' : i \in DOMAIN journal \/ journal'[i].ts = clock
    BY <1>2, JournalStep
  <1>4. known' = {i \in DOMAIN journal' :
                    /\ journal'[i].event.to = "journal_standing" /\ journal'[i].event.change.decision = d
                    /\ journal'[i].ts <= t}
    BY DEF IsChangeOf
  <1>5. known = {i \in DOMAIN journal :
                    /\ journal[i].event.to = "journal_standing" /\ journal[i].event.change.decision = d
                    /\ journal[i].ts <= t}
    BY DEF IsChangeOf
  <1>6. known' = known
    <2>1. \A i \in DOMAIN journal' : journal'[i].ts <= t => i \in DOMAIN journal
      BY <1>1, <1>3
    <2>2. QED
      BY <1>3, <1>4, <1>5, <2>1
  <1>7. QED
    BY <1>3, <1>6

(* What the journal says of an instant that has passed is never changed by  *)
(* an operation, however it is interleaved or cut short.                    *)
(* (project_standing_timeline)                                              *)
THEOREM ThePastIsFixed == Spec => PastStandingIsFixed
  <1>1. ASSUME IInv, [Next]_vars
        PROVE  \A d \in Decisions, t \in Times : t < clock => StandingAt(d, t)' = StandingAt(d, t)
    <2> SUFFICES ASSUME NEW d \in Decisions, NEW t \in Times, t < clock
                 PROVE  StandingAt(d, t)' = StandingAt(d, t)
      OBVIOUS
    <2> DEFINE known == {i \in DOMAIN journal : IsChangeOf(d, i) /\ journal[i].ts <= t}
               last(S) == CHOOSE i \in S : \A k \in S : k <= i
    <2>1. known' = known /\ \A i \in known : journal'[i] = journal[i]
      BY <1>1, KnownThenIsKnown
    <2>2. known \in SUBSET (1..Len(journal)) /\ Len(journal) \in Nat
      BY <1>1 DEF IInv, TypeOK
    <2>3. known # {} => last(known) \in known
      BY <2>2, LastExists DEF IsLastOf
    <2>4. StandingAt(d, t) = IF known = {} THEN None ELSE journal[last(known)].event.change
      BY DEF StandingAt
    <2>5. StandingAt(d, t)' = IF known' = {} THEN None ELSE journal'[last(known')].event.change
      BY DEF StandingAt
    <2> HIDE DEF known, last
    <2>6. QED
      BY <2>1, <2>3, <2>4, <2>5
  <1>2. QED
    BY <1>1, InitIInv, NextIInv, PTL DEF Spec, PastStandingIsFixed
-----------------------------------------------------------------------------
(* One more entry: the positions before it keep theirs, and only the        *)
(* positions it belongs to grow by its own.                                 *)
LEMMA AppendPositions ==
  ASSUME IInv, NEW entry, journal' = Append(journal, entry)
  PROVE  /\ \A i \in DOMAIN journal : /\ i \in DOMAIN journal' /\ journal'[i] = journal[i]
                                      /\ i \in Int /\ i < Len(journal) + 1
         /\ Len(journal) + 1 \in DOMAIN journal' /\ journal'[Len(journal) + 1] = entry
         /\ \A i \in DOMAIN journal' : i \in DOMAIN journal \/ i = Len(journal) + 1
  <1>1. journal \in Seq([ts : Times, event : Events])
    BY DEF IInv, TypeOK
  <1>2. QED
    BY <1>1

LEMMA AppendChanges ==
  ASSUME IInv, NEW entry, journal' = Append(journal, entry), NEW d
  PROVE  ChangesOf(d)' = ChangesOf(d) \cup
           {i \in {Len(journal) + 1} :
              entry.event.to = "journal_standing" /\ entry.event.change.decision = d}
  <1> DEFINE N == Len(journal) + 1
  <1>1. ChangesOf(d)' = {i \in DOMAIN journal' : /\ journal'[i].event.to = "journal_standing"
                                                 /\ journal'[i].event.change.decision = d}
    BY DEF ChangesOf, IsChangeOf
  <1>2. ChangesOf(d) = {i \in DOMAIN journal : /\ journal[i].event.to = "journal_standing"
                                               /\ journal[i].event.change.decision = d}
    BY DEF ChangesOf, IsChangeOf
  <1>3. QED
    BY <1>1, <1>2, AppendPositions

LEMMA AppendEvents ==
  ASSUME IInv, NEW entry, journal' = Append(journal, entry), NEW r
  PROVE  EventsOf(r)' = EventsOf(r) \cup
           {i \in {Len(journal) + 1} : entry.event.to = "journal_event" /\ entry.event.id = r}
  <1>1. EventsOf(r)' = {i \in DOMAIN journal' : /\ journal'[i].event.to = "journal_event"
                                                /\ journal'[i].event.id = r}
    BY DEF EventsOf
  <1>2. QED
    BY <1>1, AppendPositions DEF EventsOf

LEMMA StandingKept ==
  ASSUME NEW d, ChangesOf(d)' = ChangesOf(d), \A i \in ChangesOf(d) : journal'[i] = journal[i],
         standing'[d] = standing[d], StandingRetold(d)
  PROVE  StandingRetold(d)'
  BY DEF StandingRetold, IsLastOf

(* The path of a remediation is made of its events alone.                   *)
LEMMA PathKept ==
  ASSUME NEW r, EventsOf(r)' = EventsOf(r),
         \A i \in DOMAIN journal : i \in DOMAIN journal' /\ journal'[i] = journal[i],
         Path(r)
  PROVE  Path(r)'
  <1> SUFFICES ASSUME NEW i \in EventsOf(r) PROVE Follows(r, i)'
    BY DEF Path
  <1>1. Follows(r, i) /\ journal'[i] = journal[i]
    BY DEF Path, EventsOf
  <1>2. {n \in EventsOf(r) : n < i}' = {n \in EventsOf(r) : n < i}
    OBVIOUS
  <1>3. ASSUME journal[i].event.from # None
        PROVE  /\ journal'[i].event.status \in Moves[journal'[i].event.from]
               /\ \E k \in DOMAIN journal' :
                    /\ IsLastOf(k, {n \in EventsOf(r) : n < i}')
                    /\ journal'[k].event.status = journal'[i].event.from
    <2>1. PICK k \in DOMAIN journal : /\ IsLastOf(k, {n \in EventsOf(r) : n < i})
                                      /\ journal[k].event.status = journal[i].event.from
      BY <1>1, <1>3 DEF Follows
    <2>2. journal[i].event.status \in Moves[journal[i].event.from]
      BY <1>1, <1>3 DEF Follows
    <2>3. QED
      BY <1>1, <1>2, <2>1, <2>2
  <1>4. QED
    BY <1>1, <1>3 DEF Follows, IsLastOf

LEMMA RemediationKept ==
  ASSUME NEW r, EventsOf(r)' = EventsOf(r),
         \A i \in DOMAIN journal : i \in DOMAIN journal' /\ journal'[i] = journal[i],
         remediation'[r] = remediation[r], RemediationRetold(r)
  PROVE  RemediationRetold(r)'
  <1>1. Path(r)'
    BY PathKept DEF RemediationRetold
  <1>2. ASSUME remediation[r] # None
        PROVE  \E k \in DOMAIN journal' : /\ IsLastOf(k, EventsOf(r)')
                                          /\ journal'[k].event.status = remediation'[r].status
    BY <1>2 DEF RemediationRetold
  <1>3. EventsOf(r)' # {} => remediation'[r] # None
    BY DEF RemediationRetold
  <1>4. QED
    BY <1>1, <1>2, <1>3 DEF RemediationRetold, IsLastOf

(* Where neither the records nor the journal change, nothing changes.       *)
LEMMA NothingWritten ==
  ASSUME UNCHANGED <<standing, remediation, journal>>
  PROVE  /\ \A d : StandingRetold(d) => StandingRetold(d)'
         /\ \A r : RemediationRetold(r) => RemediationRetold(r)'
         /\ \A r : Path(r) => Path(r)'
         /\ \A d : ChangesOf(d)' = ChangesOf(d)
         /\ \A r : EventsOf(r)' = EventsOf(r)
  <1>1. \A d : ChangesOf(d)' = ChangesOf(d)
    BY DEF ChangesOf, IsChangeOf
  <1>2. \A r : EventsOf(r)' = EventsOf(r)
    BY DEF EventsOf
  <1>3. \A d : StandingRetold(d) => StandingRetold(d)'
    BY <1>1, StandingKept
  <1>4. \A r : RemediationRetold(r) => RemediationRetold(r)'
    BY <1>2, RemediationKept
  <1>5. \A r : Path(r) => Path(r)'
    BY <1>2, PathKept
  <1>6. QED
    BY <1>1, <1>2, <1>3, <1>4, <1>5

LEMMA RetoldStays ==
  ASSUME UNCHANGED <<standing, remediation, journal>>, Retold
  PROVE  Retold'
  BY NothingWritten DEF Retold

LEMMA StageStays ==
  ASSUME UNCHANGED <<standing, remediation, journal>>, NEW writes, Stage(writes)
  PROVE  Stage(writes)'
  <1>1. Retold => Retold'
    BY RetoldStays
  <1>2. \A c : ChangeAhead(c) => ChangeAhead(c)'
    BY NothingWritten DEF ChangeAhead
  <1>3. \A r, from, status : MoveIsDue(r, from, status) => MoveIsDue(r, from, status)'
    BY <1>1 DEF MoveIsDue
  <1>4. ASSUME NEW r, NEW from, NEW status, MoveAhead(r, from, status)
        PROVE  MoveAhead(r, from, status)'
    <2>1. Path(r)' /\ EventsOf(r)' = EventsOf(r)
      BY <1>4, NothingWritten DEF MoveAhead
    <2>2. /\ \A d \in Decisions : StandingRetold(d)'
          /\ \A q \in Remediations \ {r} : RemediationRetold(q)'
      BY <1>4, NothingWritten DEF MoveAhead
    <2>3. QED
      BY <1>4, <2>1, <2>2 DEF MoveAhead, IsLastOf
  <1>5. QED
    BY <1>1, <1>2, <1>3, <1>4 DEF Stage
-----------------------------------------------------------------------------
(* An entry disturbs only the record that it is about.                      *)
LEMMA OthersKept ==
  ASSUME IInv, NEW entry, journal' = Append(journal, entry)
  PROVE  /\ \A d : /\ ~(entry.event.to = "journal_standing" /\ entry.event.change.decision = d)
                   /\ standing'[d] = standing[d] /\ StandingRetold(d)
                   => StandingRetold(d)'
         /\ \A r : /\ ~(entry.event.to = "journal_event" /\ entry.event.id = r)
                   /\ remediation'[r] = remediation[r] /\ RemediationRetold(r)
                   => RemediationRetold(r)'
  <1>1. \A i \in DOMAIN journal : i \in DOMAIN journal' /\ journal'[i] = journal[i]
    BY AppendPositions
  <1>2. ASSUME NEW d, standing'[d] = standing[d], StandingRetold(d),
               ~(entry.event.to = "journal_standing" /\ entry.event.change.decision = d)
        PROVE  StandingRetold(d)'
    <2>1. ChangesOf(d)' = ChangesOf(d)
      BY <1>2, AppendChanges
    <2>2. \A i \in ChangesOf(d) : journal'[i] = journal[i]
      BY <1>1 DEF ChangesOf
    <2>3. QED
      BY <1>2, <2>1, <2>2, StandingKept
  <1>3. ASSUME NEW r, remediation'[r] = remediation[r], RemediationRetold(r),
               ~(entry.event.to = "journal_event" /\ entry.event.id = r)
        PROVE  RemediationRetold(r)'
    <2>1. EventsOf(r)' = EventsOf(r)
      BY <1>3, AppendEvents
    <2>2. QED
      BY <1>1, <1>3, <2>1, RemediationKept
  <1>4. QED
    BY <1>2, <1>3

(* The change saved before is journaled: it is the last one now.            *)
LEMMA ChangeJournaled ==
  ASSUME IInv, NEW c \in Changes, NEW entry, journal' = Append(journal, entry),
         entry.event = RecordStanding(c), UNCHANGED <<standing, remediation>>, ChangeAhead(c)
  PROVE  Retold'
  <1> DEFINE N == Len(journal) + 1
  <1>1. entry.event.to = "journal_standing" /\ entry.event.change = c
    BY DEF RecordStanding
  <1>2. \A r \in Remediations : RemediationRetold(r)'
    BY <1>1, OthersKept DEF ChangeAhead
  <1>3. \A d \in Decisions \ {c.decision} : StandingRetold(d)'
    BY <1>1, OthersKept DEF ChangeAhead
  <1>4. StandingRetold(c.decision)'
    <2>1. ChangesOf(c.decision)' = ChangesOf(c.decision) \cup {N}
      BY <1>1, AppendChanges
    <2>2. \A k \in ChangesOf(c.decision) : k \in Int /\ k < N
      BY AppendPositions DEF ChangesOf
    <2>3. N \in Int /\ journal'[N] = entry
      BY AppendPositions DEF IInv, TypeOK
    <2> HIDE DEF N
    <2>4. IsLastOf(N, ChangesOf(c.decision)')
      BY <2>1, <2>2, <2>3 DEF IsLastOf
    <2>5. standing'[c.decision] = journal'[N].event.change
      BY <1>1, <2>3 DEF ChangeAhead
    <2>6. QED
      BY <2>1, <2>4, <2>5 DEF StandingRetold, IsLastOf
  <1>5. QED
    BY <1>2, <1>3, <1>4 DEF Retold

(* A waiver's event is about no decision's standing and no remediation.     *)
LEMMA WaiverJournaled ==
  ASSUME IInv, NEW w \in Waivers, NEW entry, journal' = Append(journal, entry),
         entry.event = RecordLifecycle(w, None, None), UNCHANGED <<standing, remediation>>, Retold
  PROVE  Retold'
  <1>1. entry.event.to = "journal_event" /\ entry.event.id = w
    BY DEF RecordLifecycle
  <1>2. \A r \in Remediations : w # r
    BY KindsApart
  <1>3. QED
    BY <1>1, <1>2, OthersKept DEF Retold

(* The move saved before is journaled: it follows from what was last.       *)
LEMMA MoveJournaled ==
  ASSUME IInv, NEW r \in Remediations, NEW from, NEW status, NEW entry,
         journal' = Append(journal, entry), entry.event = RecordLifecycle(r, from, status),
         UNCHANGED <<standing, remediation>>, MoveAhead(r, from, status)
  PROVE  Retold'
  <1>0. PICK N : N = Len(journal) + 1
    OBVIOUS
  <1>1. /\ entry.event.to = "journal_event" /\ entry.event.id = r
        /\ entry.event.from = from /\ entry.event.status = status
    BY DEF RecordLifecycle
  <1>2. /\ \A d \in Decisions : StandingRetold(d)'
        /\ \A q \in Remediations \ {r} : RemediationRetold(q)'
    BY <1>1, OthersKept DEF MoveAhead
  <1>3. EventsOf(r)' = EventsOf(r) \cup {N}
    BY <1>0, <1>1, AppendEvents
  <1>4. /\ \A i \in DOMAIN journal : /\ i \in DOMAIN journal' /\ journal'[i] = journal[i]
                                     /\ i \in Int /\ i < N
        /\ N \in DOMAIN journal' /\ journal'[N] = entry /\ N \in Int
    BY <1>0, AppendPositions DEF IInv, TypeOK
  <1>5. \A k \in EventsOf(r) : k \in DOMAIN journal
    BY DEF EventsOf
  <1>6. {n \in EventsOf(r)' : n < N} = EventsOf(r)
    <2>1. ~(N < N)
      BY <1>4
    <2>2. \A k \in EventsOf(r) : k < N
      BY <1>4, <1>5
    <2>3. QED
      BY <1>3, <2>1, <2>2
  <1>7. ASSUME NEW i \in EventsOf(r) PROVE Follows(r, i)'
    <2>1. Follows(r, i) /\ i \in DOMAIN journal /\ i < N
      BY <1>4, <1>5 DEF MoveAhead, Path
    <2>2. ~(N < i)
      BY <1>4, <2>1
    <2>3. {n \in EventsOf(r)' : n < i} = {n \in EventsOf(r) : n < i}
      BY <1>3, <2>2
    <2>4. ASSUME journal[i].event.from # None
          PROVE  /\ journal[i].event.status \in Moves[journal[i].event.from]
                 /\ \E k \in DOMAIN journal' :
                      /\ IsLastOf(k, {n \in EventsOf(r)' : n < i})
                      /\ journal'[k].event.status = journal[i].event.from
      <3>1. PICK k \in DOMAIN journal : /\ IsLastOf(k, {n \in EventsOf(r) : n < i})
                                        /\ journal[k].event.status = journal[i].event.from
        BY <2>1, <2>4 DEF Follows
      <3>2. journal[i].event.status \in Moves[journal[i].event.from]
        BY <2>1, <2>4 DEF Follows
      <3>3. QED
        BY <1>4, <2>3, <3>1, <3>2
    <2>5. journal'[i] = journal[i]
      BY <1>4, <2>1
    <2>6. QED
      BY <2>4, <2>5 DEF Follows, IsLastOf
  <1>8. Follows(r, N)'
    <2>1. ASSUME from # None
          PROVE  /\ status \in Moves[from]
                 /\ \E k \in DOMAIN journal' : /\ IsLastOf(k, EventsOf(r))
                                               /\ journal'[k].event.status = from
      BY <2>1, <1>4 DEF MoveAhead
    <2>2. journal'[N].event.from = from /\ journal'[N].event.status = status
      BY <1>1, <1>4
    <2>3. QED
      BY <1>6, <2>1, <2>2 DEF Follows, IsLastOf
  <1>9. Path(r)'
    BY <1>3, <1>7, <1>8 DEF Path
  <1>10. IsLastOf(N, EventsOf(r)')
    BY <1>3, <1>4, <1>5 DEF IsLastOf
  <1>11. /\ remediation'[r] # None /\ remediation'[r].status = status
         /\ journal'[N].event.status = status
    BY <1>1, <1>4 DEF MoveAhead
  <1>12. RemediationRetold(r)'
    BY <1>4, <1>9, <1>10, <1>11 DEF RemediationRetold, IsLastOf
  <1>13. QED
    BY <1>2, <1>12 DEF Retold

(* A save runs ahead of the journal in the record that is saved alone.      *)
LEMMA ChangeSaved ==
  ASSUME IInv, NEW c \in Changes, standing' = [standing EXCEPT ![c.decision] = c],
         UNCHANGED <<remediation, journal>>, Retold
  PROVE  ChangeAhead(c)'
  <1>1. c.decision \in Decisions
    BY DEF Changes
  <1>2. /\ standing'[c.decision] = c
        /\ \A d \in Decisions \ {c.decision} : standing'[d] = standing[d]
    BY <1>1 DEF IInv, TypeOK
  <1>3. \A d : ChangesOf(d)' = ChangesOf(d)
    BY DEF ChangesOf, IsChangeOf
  <1>4. \A r : EventsOf(r)' = EventsOf(r)
    BY DEF EventsOf
  <1>5. \A d \in Decisions \ {c.decision} : StandingRetold(d)'
    BY <1>2, <1>3, StandingKept DEF Retold
  <1>6. \A r \in Remediations : RemediationRetold(r)'
    BY <1>4, RemediationKept DEF Retold
  <1>7. QED
    BY <1>2, <1>5, <1>6 DEF ChangeAhead

LEMMA MoveSaved ==
  ASSUME IInv, NEW r \in Remediations, NEW row \in RemediationBodies, NEW from,
         remediation' = [remediation EXCEPT ![r] = row],
         UNCHANGED <<standing, journal>>, MoveIsDue(r, from, row.status)
  PROVE  MoveAhead(r, from, row.status)'
  <1>1. /\ remediation'[r] = row /\ row # None
        /\ \A q \in Remediations \ {r} : remediation'[q] = remediation[q]
    BY NoneIsNone DEF IInv, TypeOK
  <1>2. \A d : ChangesOf(d)' = ChangesOf(d)
    BY DEF ChangesOf, IsChangeOf
  <1>3. \A q : EventsOf(q)' = EventsOf(q)
    BY DEF EventsOf
  <1>4. \A d \in Decisions : StandingRetold(d)'
    BY <1>2, StandingKept DEF MoveIsDue, Retold
  <1>5. \A q \in Remediations \ {r} : RemediationRetold(q)'
    BY <1>1, <1>3, RemediationKept DEF MoveIsDue, Retold
  <1>6. Path(r)'
    BY <1>3, PathKept DEF MoveIsDue, Retold, RemediationRetold
  <1>7. ASSUME from # None
        PROVE  /\ row.status \in Moves[from]
               /\ \E k \in DOMAIN journal' : /\ IsLastOf(k, EventsOf(r)')
                                             /\ journal'[k].event.status = from
    <2>1. RemediationRetold(r)
      BY DEF MoveIsDue, Retold
    <2>2. row.status \in Moves[from] /\ remediation[r] # None /\ remediation[r].status = from
      BY <1>7 DEF MoveIsDue
    <2>3. QED
      BY <1>3, <2>1, <2>2 DEF RemediationRetold
  <1>8. QED
    BY <1>1, <1>4, <1>5, <1>6, <1>7 DEF MoveAhead, IsLastOf
-----------------------------------------------------------------------------
(* A process with nothing to write is in step with the journal.             *)
LEMMA EmptyStage ==
  /\ Stage(<< >>) <=> Retold
  /\ Stage(<< >>)' <=> Retold'
  BY DEF Stage, ChangeWrites

LEMMA NothingDoing == Doing(<< >>) = Idle
  BY DEF Doing, Idle

(* What the next save does, by the record or journal it goes to.            *)
LEMMA WriteEffect ==
  ASSUME NEW p, Write(p), NEW event, event = Head(proc[p].writes)
  PROVE  /\ event.to = "standing" =>
              /\ standing' = [standing EXCEPT ![event.change.decision] = event.change]
              /\ UNCHANGED <<remediation, journal>>
         /\ event.to = "waiver" => UNCHANGED <<standing, remediation, journal>>
         /\ event.to = "remediation" =>
              /\ remediation' = [remediation EXCEPT ![event.remediation] = event.row]
              /\ UNCHANGED <<standing, journal>>
         /\ event.to \in {"journal_standing", "journal_event"} =>
              /\ journal' = Append(journal, [ts |-> clock, event |-> event])
              /\ UNCHANGED <<standing, remediation>>
  BY DEF Write, Journal

(* A save brings a process from one stage to the next.                      *)
LEMMA WriteStage ==
  ASSUME IInv, NEW p \in Procs, Write(p), NEW writes, writes = proc[p].writes,
         NEW rest, rest = Tail(writes), Stage(writes)
  PROVE  Stage(rest)'
  <1>1. writes # << >>
    BY DEF Write
  <1>2. \A event : event = Head(writes) =>
           /\ event.to = "standing" =>
                /\ standing' = [standing EXCEPT ![event.change.decision] = event.change]
                /\ UNCHANGED <<remediation, journal>>
           /\ event.to = "remediation" =>
                /\ remediation' = [remediation EXCEPT ![event.remediation] = event.row]
                /\ UNCHANGED <<standing, journal>>
           /\ event.to \in {"journal_standing", "journal_event"} =>
                /\ journal' = Append(journal, [ts |-> clock, event |-> event])
                /\ UNCHANGED <<standing, remediation>>
    BY WriteEffect
  <1>3. CASE \E c \in Changes : writes = ChangeWrites(c) /\ Retold
    <2>1. PICK c \in Changes : writes = ChangeWrites(c) /\ Retold
      BY <1>3
    <2>2. Head(writes) = SaveStanding(c) /\ rest = <<RecordStanding(c)>>
      BY <2>1 DEF ChangeWrites
    <2>3. SaveStanding(c).to = "standing" /\ SaveStanding(c).change = c
      BY DEF SaveStanding
    <2>4. /\ standing' = [standing EXCEPT ![c.decision] = c]
          /\ UNCHANGED <<remediation, journal>>
      <3>1. PICK event : event = SaveStanding(c)
        OBVIOUS
      <3>2. event = Head(writes) /\ event.to = "standing" /\ event.change = c
        BY <2>2, <2>3, <3>1
      <3>3. QED
        BY <1>2, <3>2
    <2>5. ChangeAhead(c)'
      BY <2>1, <2>4, ChangeSaved
    <2>6. QED
      BY <2>2, <2>5 DEF Stage
  <1>4. CASE \E c \in Changes : writes = <<RecordStanding(c)>> /\ ChangeAhead(c)
    <2>1. PICK c \in Changes : writes = <<RecordStanding(c)>> /\ ChangeAhead(c)
      BY <1>4
    <2>2. Head(writes) = RecordStanding(c) /\ rest = << >>
      BY <2>1
    <2>3. RecordStanding(c).to = "journal_standing"
      BY DEF RecordStanding
    <2>4. PICK entry : entry = [ts |-> clock, event |-> RecordStanding(c)]
      OBVIOUS
    <2>5. journal' = Append(journal, entry) /\ UNCHANGED <<standing, remediation>>
      BY <1>2, <2>2, <2>3, <2>4
    <2>6. Retold'
      BY <2>1, <2>4, <2>5, ChangeJournaled
    <2>7. QED
      BY <2>2, <2>6, EmptyStage
  <1>5. CASE \E w \in Waivers : \E body \in WaiverBodies :
               writes = <<SaveWaiver(w, body), RecordLifecycle(w, None, None)>> /\ Retold
    <2>1. PICK w \in Waivers, body \in WaiverBodies :
               writes = <<SaveWaiver(w, body), RecordLifecycle(w, None, None)>> /\ Retold
      BY <1>5
    <2>2. Head(writes) = SaveWaiver(w, body) /\ rest = <<RecordLifecycle(w, None, None)>>
      BY <2>1
    <2>3. SaveWaiver(w, body).to = "waiver"
      BY DEF SaveWaiver
    <2>4. UNCHANGED <<standing, remediation, journal>>
      BY <2>2, <2>3, WriteEffect
    <2>5. Retold'
      BY <2>1, <2>4, RetoldStays
    <2>6. QED
      BY <2>2, <2>5 DEF Stage
  <1>6. CASE \E w \in Waivers : writes = <<RecordLifecycle(w, None, None)>> /\ Retold
    <2>1. PICK w \in Waivers : writes = <<RecordLifecycle(w, None, None)>> /\ Retold
      BY <1>6
    <2>2. Head(writes) = RecordLifecycle(w, None, None) /\ rest = << >>
      BY <2>1
    <2>3. RecordLifecycle(w, None, None).to = "journal_event"
      BY DEF RecordLifecycle
    <2>4. PICK entry : entry = [ts |-> clock, event |-> RecordLifecycle(w, None, None)]
      OBVIOUS
    <2>5. journal' = Append(journal, entry) /\ UNCHANGED <<standing, remediation>>
      BY <1>2, <2>2, <2>3, <2>4
    <2>6. Retold'
      BY <2>1, <2>4, <2>5, WaiverJournaled
    <2>7. QED
      BY <2>2, <2>6, EmptyStage
  <1>7. CASE \E r \in Remediations : \E row \in RemediationBodies : \E from \in Statuses \cup {None} :
               /\ writes = <<SaveRemediation(r, row), RecordLifecycle(r, from, row.status)>>
               /\ MoveIsDue(r, from, row.status)
    <2>1. PICK r \in Remediations, row \in RemediationBodies, from \in Statuses \cup {None} :
               /\ writes = <<SaveRemediation(r, row), RecordLifecycle(r, from, row.status)>>
               /\ MoveIsDue(r, from, row.status)
      BY <1>7
    <2>2. /\ Head(writes) = SaveRemediation(r, row)
          /\ rest = <<RecordLifecycle(r, from, row.status)>>
      BY <2>1
    <2>3. /\ SaveRemediation(r, row).to = "remediation"
          /\ SaveRemediation(r, row).remediation = r /\ SaveRemediation(r, row).row = row
      BY DEF SaveRemediation
    <2>4. remediation' = [remediation EXCEPT ![r] = row] /\ UNCHANGED <<standing, journal>>
      <3>1. PICK event : event = SaveRemediation(r, row)
        OBVIOUS
      <3>2. /\ event = Head(writes) /\ event.to = "remediation"
            /\ event.remediation = r /\ event.row = row
        BY <2>2, <2>3, <3>1
      <3>3. QED
        BY <1>2, <3>2
    <2>5. MoveAhead(r, from, row.status)'
      BY <2>1, <2>4, MoveSaved
    <2>6. row.status \in Statuses
      BY DEF RemediationBodies
    <2>7. QED
      BY <2>2, <2>5, <2>6 DEF Stage
  <1>8. CASE \E r \in Remediations : \E from \in Statuses \cup {None} : \E status \in Statuses :
               writes = <<RecordLifecycle(r, from, status)>> /\ MoveAhead(r, from, status)
    <2>1. PICK r \in Remediations, from \in Statuses \cup {None}, status \in Statuses :
               writes = <<RecordLifecycle(r, from, status)>> /\ MoveAhead(r, from, status)
      BY <1>8
    <2>2. Head(writes) = RecordLifecycle(r, from, status) /\ rest = << >>
      BY <2>1
    <2>3. RecordLifecycle(r, from, status).to = "journal_event"
      BY DEF RecordLifecycle
    <2>4. PICK entry : entry = [ts |-> clock, event |-> RecordLifecycle(r, from, status)]
      OBVIOUS
    <2>5. journal' = Append(journal, entry) /\ UNCHANGED <<standing, remediation>>
      BY <1>2, <2>2, <2>3, <2>4
    <2>6. Retold'
      BY <2>1, <2>4, <2>5, MoveJournaled
    <2>7. QED
      BY <2>2, <2>6, EmptyStage
  <1>9. QED
    BY <1>1, <1>3, <1>4, <1>5, <1>6, <1>7, <1>8 DEF Stage

(* A step of one process that leaves it at a stage, the others being idle.  *)
LEMMA InOrderStep ==
  ASSUME IInv, NEW p \in Procs, NEW new, proc' = [proc EXCEPT ![p] = new],
         undisturbed' => /\ \A q \in Procs \ {p} : proc[q] = Idle
                         /\ Stage(new.writes)'
  PROVE  InOrder'
  <1> SUFFICES ASSUME undisturbed' PROVE (InOrder')
    BY DEF InOrder
  <1>1. /\ proc'[p] = new
        /\ \A q \in Procs \ {p} : proc'[q] = Idle
    BY DEF IInv, TypeOK
  <1>2. PICK writes : writes = new.writes
    OBVIOUS
  <1>3. Stage(writes)'
    BY <1>2 DEF Stage
  <1>4. ASSUME Resting' PROVE Retold'
    <2>1. writes = << >>
      BY <1>1, <1>2, <1>4, IdleType DEF Resting
    <2>2. QED
      BY <1>3, <2>1, EmptyStage
  <1>5. ASSUME NEW q \in Procs, proc'[q] # Idle
        PROVE  /\ \A o \in Procs \ {q} : proc'[o] = Idle
               /\ \A ws \in {proc'[q].writes} : Stage(ws)'
    <2>1. q = p
      BY <1>1, <1>5
    <2>2. QED
      BY <1>1, <1>2, <1>3, <2>1
  <1>6. QED
    BY <1>4, <1>5 DEF InOrder

(* A call begins: out of rest, or the history was disturbed already.        *)
LEMMA BeginInOrder ==
  ASSUME IInv, InOrder, NEW p \in Procs, NEW new, Begin(p, new),
         Retold /\ Resting => Stage(new.writes)
  PROVE  InOrder'
  <1>1. /\ proc' = [proc EXCEPT ![p] = new]
        /\ undisturbed' => undisturbed /\ Resting
        /\ UNCHANGED <<standing, remediation, journal>>
    BY DEF Begin
  <1>2. ASSUME undisturbed' PROVE Stage(new.writes)' /\ \A q \in Procs \ {p} : proc[q] = Idle
    <2>1. Resting /\ Retold
      BY <1>1, <1>2 DEF InOrder
    <2>2. PICK writes : writes = new.writes
      OBVIOUS
    <2>3. Stage(writes)
      BY <2>1, <2>2
    <2>4. Stage(writes)'
      BY <1>1, <2>3, StageStays
    <2>5. QED
      BY <2>1, <2>2, <2>4 DEF Resting, Stage
  <1>3. QED
    BY <1>1, <1>2, InOrderStep

LEMMA InitJInv == Init => JInv
  <1> SUFFICES ASSUME Init PROVE JInv
    OBVIOUS
  <1>1. IInv
    BY InitIInv
  <1>2. journal = << >> /\ \A d \in Decisions : ChangesOf(d) = {}
    BY DEF Init, ChangesOf
  <1>3. \A r \in Remediations : EventsOf(r) = {}
    BY <1>2 DEF EventsOf
  <1>4. JournalIsPast
    BY <1>2 DEF JournalIsPast
  <1>5. Retold
    BY <1>2, <1>3 DEF Init, Retold, StandingRetold, RemediationRetold, Path
  <1>6. InOrder
    BY <1>5 DEF Init, InOrder
  <1>7. QED
    BY <1>1, <1>4, <1>6 DEF JInv

(* The calls that begin: what they set out to write is due.                 *)
LEMMA CallsInOrder ==
  ASSUME IInv, InOrder, NEW p \in Procs
  PROVE  /\ \A d \in Decisions, v \in Verdicts : Evaluate(p, d, v) => InOrder'
         /\ \A w \in Waivers, body \in WaiverBodies : IssueWaiver(p, w, body) => InOrder'
         /\ \A r \in Remediations : OpenRemediation(p, r) => InOrder'
         /\ \A r \in Remediations, s \in Statuses : TransitionRemediation(p, r, s) => InOrder'
  <1>1. ASSUME NEW d \in Decisions, NEW v \in Verdicts, Evaluate(p, d, v)
        PROVE  InOrder'
    <2>1. PICK new : new = [decision |-> d, verdict |-> v, now |-> clock, writes |-> << >>]
      OBVIOUS
    <2>2. new.writes = << >>
      BY <2>1
    <2>3. Begin(p, new)
      BY <1>1, <2>1 DEF Evaluate
    <2>4. QED
      BY <2>2, <2>3, BeginInOrder, EmptyStage
  <1>2. ASSUME NEW w \in Waivers, NEW body \in WaiverBodies, IssueWaiver(p, w, body)
        PROVE  InOrder'
    <2>1. PICK writes : writes = <<SaveWaiver(w, body), RecordLifecycle(w, None, None)>>
      OBVIOUS
    <2>2. Doing(writes).writes = writes
      BY DEF Doing, Idle
    <2>3. Retold => Stage(writes)
      BY <2>1 DEF Stage
    <2>4. Begin(p, Doing(writes))
      BY <1>2, <2>1 DEF IssueWaiver
    <2>5. QED
      BY <2>2, <2>3, <2>4, BeginInOrder
  <1>3. ASSUME NEW r \in Remediations, OpenRemediation(p, r)
        PROVE  InOrder'
    <2>1. PICK row : row = [status |-> "OPEN", updated |-> clock]
      OBVIOUS
    <2>2. row \in RemediationBodies /\ row.status = "OPEN"
      BY <2>1 DEF RemediationBodies, Statuses, IInv, TypeOK
    <2>3. PICK writes : writes = <<SaveRemediation(r, row), RecordLifecycle(r, None, row.status)>>
      OBVIOUS
    <2>4. Doing(writes).writes = writes
      BY DEF Doing, Idle
    <2>5. Retold => MoveIsDue(r, None, row.status)
      BY DEF MoveIsDue
    <2>6. Retold => Stage(writes)
      BY <2>2, <2>3, <2>5 DEF Stage
    <2>7. Begin(p, Doing(writes))
      BY <1>3, <2>1, <2>2, <2>3 DEF OpenRemediation
    <2>8. QED
      BY <2>4, <2>6, <2>7, BeginInOrder
  <1>4. ASSUME NEW r \in Remediations, NEW s \in Statuses, TransitionRemediation(p, r, s)
        PROVE  InOrder'
    <2>1. PICK row, from : row = [status |-> s, updated |-> clock] /\ from = remediation[r].status
      OBVIOUS
    <2>2. remediation[r] # None /\ s \in Moves[from]
      BY <1>4, <2>1 DEF TransitionRemediation, MayMove
    <2>3. row \in RemediationBodies /\ row.status = s
      BY <2>1 DEF RemediationBodies, IInv, TypeOK
    <2>4. from \in Statuses
      <3>1. remediation[r] \in RemediationBodies
        BY <2>2 DEF IInv, TypeOK
      <3>2. QED
        BY <2>1, <3>1 DEF RemediationBodies
    <2>5. PICK writes : writes = <<SaveRemediation(r, row), RecordLifecycle(r, from, row.status)>>
      OBVIOUS
    <2>6. Doing(writes).writes = writes
      BY DEF Doing, Idle
    <2>7. Retold => MoveIsDue(r, from, row.status)
      BY <2>1, <2>2, <2>3 DEF MoveIsDue
    <2>8. Retold => Stage(writes)
      BY <2>3, <2>4, <2>5, <2>7 DEF Stage
    <2>9. Begin(p, Doing(writes))
      BY <1>4, <2>1, <2>3, <2>5 DEF TransitionRemediation
    <2>10. QED
      BY <2>6, <2>8, <2>9, BeginInOrder
  <1>5. QED
    BY <1>1, <1>2, <1>3, <1>4

(* What goes on from a held verdict, saves, or stops.                       *)
LEMMA GoingOnInOrder ==
  ASSUME IInv, InOrder, NEW p \in Procs
  PROVE  /\ \A a \in {"allow", "block", "note"}, w \in Waivers \cup {None} :
              WriteStandingChange(p, a, w) => InOrder'
         /\ Write(p) => InOrder'
         /\ Stop(p) => InOrder'
  <1>1. ASSUME undisturbed, proc[p] # Idle
        PROVE  /\ \A q \in Procs \ {p} : proc[q] = Idle
               /\ \A writes \in {proc[p].writes} : Stage(writes)
    BY <1>1 DEF InOrder
  <1>2. ASSUME NEW a \in {"allow", "block", "note"}, NEW w \in Waivers \cup {None},
               WriteStandingChange(p, a, w)
        PROVE  InOrder'
    <2>1. PICK change : change = [decision |-> proc[p].decision, verdict |-> proc[p].verdict,
                                  action |-> a, waiver |-> w, now |-> proc[p].now]
      OBVIOUS
    <2>2. change \in Changes
      <3>1. proc[p] \in ProcStates /\ proc[p].verdict # None
        BY <1>2 DEF WriteStandingChange, IInv, TypeOK
      <3>2. proc[p].verdict \in Verdicts /\ proc[p].decision \in Decisions /\ proc[p].now \in Times
        BY <3>1 DEF IInv, VerdictsHaveDecisions, ProcStates
      <3>3. QED
        BY <2>1, <3>2 DEF Changes
    <2>3. PICK new : new = Doing(ChangeWrites(change))
      OBVIOUS
    <2>4. proc' = [proc EXCEPT ![p] = new]
      BY <1>2, <2>1, <2>3 DEF WriteStandingChange
    <2>5. new.writes = ChangeWrites(change)
      BY <2>3 DEF Doing, Idle
    <2>6. /\ proc[p] # Idle /\ proc[p].writes = << >> /\ undisturbed' = undisturbed
          /\ UNCHANGED <<standing, remediation, journal>>
      BY <1>2, IdleType DEF WriteStandingChange
    <2>7. PICK writes : writes = new.writes
      OBVIOUS
    <2>8. ASSUME undisturbed' PROVE Stage(new.writes)' /\ \A q \in Procs \ {p} : proc[q] = Idle
      <3>1. Retold
        BY <1>1, <2>6, <2>8, EmptyStage
      <3>2. Stage(writes)
        BY <2>2, <2>5, <2>7, <3>1 DEF Stage
      <3>3. Stage(writes)'
        BY <2>6, <3>2, StageStays
      <3>4. QED
        BY <1>1, <2>6, <2>7, <2>8, <3>3 DEF Stage
    <2>9. QED
      BY <2>4, <2>8, InOrderStep
  <1>3. ASSUME Write(p) PROVE InOrder'
    <2>1. PICK writes, rest, new : /\ writes = proc[p].writes /\ rest = Tail(writes)
                                   /\ new = Doing(rest)
      OBVIOUS
    <2>2. proc' = [proc EXCEPT ![p] = new] /\ undisturbed' = undisturbed /\ writes # << >>
      BY <1>3, <2>1 DEF Write
    <2>3. new.writes = rest
      BY <2>1 DEF Doing, Idle
    <2>4. proc[p] # Idle
      BY <2>1, <2>2, IdleType
    <2>5. ASSUME undisturbed' PROVE Stage(new.writes)' /\ \A q \in Procs \ {p} : proc[q] = Idle
      <3>1. Stage(writes)
        BY <1>1, <2>1, <2>2, <2>4, <2>5
      <3>2. Stage(rest)'
        BY <1>3, <2>1, <3>1, WriteStage
      <3>3. QED
        BY <1>1, <2>2, <2>3, <2>4, <2>5, <3>2 DEF Stage
    <2>6. QED
      BY <2>2, <2>5, InOrderStep
  <1>4. ASSUME Stop(p) PROVE InOrder'
    <2>1. /\ proc[p] # Idle /\ proc' = [proc EXCEPT ![p] = Idle]
          /\ undisturbed' => undisturbed /\ proc[p].writes = << >>
          /\ UNCHANGED <<standing, remediation, journal>>
      BY <1>4 DEF Stop, store
    <2>2. ASSUME undisturbed' PROVE Stage(Idle.writes)' /\ \A q \in Procs \ {p} : proc[q] = Idle
      <3>1. Retold /\ \A q \in Procs \ {p} : proc[q] = Idle
        BY <1>1, <2>1, <2>2, EmptyStage
      <3>2. Retold'
        BY <2>1, <3>1, RetoldStays
      <3>3. Idle.writes = << >>
        BY IdleType
      <3>4. QED
        BY <3>1, <3>2, <3>3 DEF Stage
    <2>3. QED
      BY <2>1, <2>2, InOrderStep
  <1>5. QED
    BY <1>2, <1>3, <1>4

LEMMA QuietInOrder ==
  ASSUME InOrder, Tick \/ UNCHANGED vars
  PROVE  InOrder'
  <1>1. UNCHANGED <<standing, remediation, journal, proc, undisturbed>>
    BY DEF Tick, vars, store
  <1>2. Retold => Retold'
    BY <1>1, RetoldStays
  <1>3. \A writes : Stage(writes) => Stage(writes)'
    BY <1>1, StageStays
  <1>4. QED
    BY <1>1, <1>2, <1>3 DEF InOrder, Resting

LEMMA NextJInv == JInv /\ [Next]_vars => JInv'
  <1> SUFFICES ASSUME IInv, JournalIsPast, InOrder, [Next]_vars PROVE (JInv')
    BY DEF JInv
  <1>1. IInv' /\ JournalIsPast'
    BY NextIInv, JournalStaysPast
  <1>2. ASSUME NEW p \in Ready
        PROVE  /\ \A d \in Decisions, v \in Verdicts : Evaluate(p, d, v) => InOrder'
               /\ \A w \in Waivers, body \in WaiverBodies : IssueWaiver(p, w, body) => InOrder'
               /\ \A r \in Remediations : OpenRemediation(p, r) => InOrder'
               /\ \A r \in Remediations, s \in Statuses : TransitionRemediation(p, r, s) => InOrder'
    BY <1>2, CallsInOrder DEF Ready
  <1>3. ASSUME NEW p \in Procs
        PROVE  /\ \A a \in {"allow", "block", "note"}, w \in Waivers \cup {None} :
                    WriteStandingChange(p, a, w) => InOrder'
               /\ Write(p) => InOrder'
               /\ Stop(p) => InOrder'
    BY <1>3, GoingOnInOrder
  <1>4. CASE Tick \/ UNCHANGED vars
    BY <1>1, <1>4, QuietInOrder DEF JInv
  <1>5. InOrder'
    BY <1>2, <1>3, <1>4, QuietInOrder DEF Next
  <1>6. QED
    BY <1>1, <1>5 DEF JInv

(* The standing that StandingAt reads at the present is that of the last    *)
(* change of all, for no entry is later than the present.                   *)
LEMMA RetoldNow ==
  ASSUME IInv, JournalIsPast, NEW d, StandingRetold(d)
  PROVE  standing[d] = StandingAt(d, clock)
  <1> DEFINE known == {i \in DOMAIN journal : IsChangeOf(d, i) /\ journal[i].ts <= clock}
             lastOf(S) == CHOOSE i \in S : \A k \in S : k <= i
             last == lastOf(ChangesOf(d))
  <1>1. known = ChangesOf(d)
    BY DEF JournalIsPast, ChangesOf
  <1>2. StandingAt(d, clock) =
          IF ChangesOf(d) = {} THEN None ELSE journal[last].event.change
    <2>1. StandingAt(d, clock) = IF known = {} THEN None ELSE journal[lastOf(known)].event.change
      BY DEF StandingAt
    <2> HIDE DEF known, lastOf
    <2>2. QED
      BY <1>1, <2>1
  <1>3. ASSUME ChangesOf(d) # {}
        PROVE  standing[d] = journal[last].event.change
    <2>1. PICK i \in ChangesOf(d) : /\ IsLastOf(i, ChangesOf(d))
                                    /\ standing[d] = journal[i].event.change
      BY <1>3 DEF StandingRetold
    <2>2. last \in ChangesOf(d) /\ \A k \in ChangesOf(d) : k <= last
      BY <2>1 DEF IsLastOf
    <2>3. last = i
      <3>1. last <= i /\ i <= last
        BY <2>1, <2>2 DEF IsLastOf
      <3>2. last \in Int /\ i \in Int
        BY <2>1, <2>2 DEF ChangesOf, IInv, TypeOK
      <3>3. QED
        BY <3>1, <3>2
    <2>4. QED
      BY <2>1, <2>3
  <1>4. QED
    BY <1>2, <1>3 DEF StandingRetold

(* Without overlap or death between two saves, the journal retells the      *)
(* records: the standing stored is the one read from it, and every          *)
(* remediation is a path of the transition table that ends where the stored *)
(* record is - for any number of processes, decisions and remediations.     *)
(* (write_standing_change, transition_remediation, record_lifecycle_event)  *)
THEOREM TheJournalRetells == Spec => []JournalRetells
  <1>1. ASSUME JInv PROVE JournalRetells
    <2> SUFFICES ASSUME undisturbed, Resting
                 PROVE  /\ \A d \in Decisions : standing[d] = StandingAt(d, clock)
                        /\ \A r \in Remediations : \A i \in EventsOf(r) :
                             /\ journal[i].event.from # None =>
                                  /\ journal[i].event.status \in Moves[journal[i].event.from]
                                  /\ \E k \in {n \in EventsOf(r) : n < i} :
                                       /\ \A n \in {n \in EventsOf(r) : n < i} : n <= k
                                       /\ journal[k].event.status = journal[i].event.from
                             /\ {k \in EventsOf(r) : k > i} = {} =>
                                  remediation[r].status = journal[i].event.status
      BY DEF JournalRetells
    <2>1. IInv /\ JournalIsPast /\ Retold
      BY <1>1 DEF JInv, InOrder
    <2>2. \A d \in Decisions : standing[d] = StandingAt(d, clock)
      BY <2>1, RetoldNow DEF Retold
    <2>3. ASSUME NEW r \in Remediations, NEW i \in EventsOf(r), journal[i].event.from # None
          PROVE  /\ journal[i].event.status \in Moves[journal[i].event.from]
                 /\ \E k \in {n \in EventsOf(r) : n < i} :
                      /\ \A n \in {n \in EventsOf(r) : n < i} : n <= k
                      /\ journal[k].event.status = journal[i].event.from
      BY <2>1, <2>3 DEF Retold, RemediationRetold, Path, Follows, IsLastOf
    <2>4. ASSUME NEW r \in Remediations, NEW i \in EventsOf(r),
                 {k \in EventsOf(r) : k > i} = {}
          PROVE  remediation[r].status = journal[i].event.status
      <3>1. PICK k \in DOMAIN journal : /\ IsLastOf(k, EventsOf(r))
                                        /\ journal[k].event.status = remediation[r].status
        BY <2>1 DEF Retold, RemediationRetold
      <3>2. i <= k /\ ~(k > i)
        BY <2>4, <3>1 DEF IsLastOf
      <3>3. i \in Int /\ k \in Int
        BY <2>1 DEF EventsOf, IInv, TypeOK
      <3>4. QED
        BY <3>1, <3>2, <3>3
    <2>5. QED
      BY <2>2, <2>3, <2>4
  <1>2. QED
    BY InitJInv, NextJInv, <1>1, PTL DEF Spec
=================================================================================
