------------------------ MODULE DecisionLifecycle_proofs ------------------------
(***************************************************************************)
(* What confirming, replacing and revising the decisions of a path keeps   *)
(* true, for any number of processes, decisions, revisions and seconds,    *)
(* however their saves interleave and wherever they die.                   *)
(***************************************************************************)
EXTENDS DecisionLifecycle, FiniteSetTheorems, TLAPS

(* What every save keeps true of a decision body.                           *)
BodyHolds(body) ==
  /\ body \in Bodies
  /\ body.from # NoTime => body.recorded # NoTime
  /\ body.recorded # NoTime => body.recorded <= clock
  /\ body.status = "SUPERSEDED" => body.until # NoTime
  /\ body.until # NoTime => /\ body.by # NoDecision
                            /\ body.untilRecorded # NoTime
                            /\ body.untilRecorded <= clock

WriteHolds(w) == w.to = "decision" => BodyHolds(w.body)

(* The bodies stored, and those on their way.                               *)
BodiesHold ==
  /\ \A d \in Existing : BodyHolds(decisions[d])
  /\ \A a \in Actors : \A n \in DOMAIN actor[a].writes : WriteHolds(actor[a].writes[n])

(* Who has nothing left to save is idle.                                    *)
RestIsIdle == \A a \in Actors : actor[a].writes = << >> => actor[a] = Idle

BInv == TypeOK /\ BodiesHold /\ RestIsIdle

-----------------------------------------------------------------------------
LEMMA TimeFacts ==
  /\ Times \subseteq Nat
  /\ 0 \in Times
  /\ NoTime \notin Times
  /\ \A t \in MaybeTime : t # NoTime => t \in Nat
  BY LifecycleBounds, SentinelsAreNone DEF Times, MaybeTime

LEMMA BodyFields ==
  ASSUME NEW body \in Bodies
  PROVE  /\ body # NoDecision
         /\ body.status \in {"CURRENT", "SUPERSEDED", "NONE"}
         /\ body.from \in MaybeTime /\ body.recorded \in MaybeTime
         /\ body.until \in MaybeTime /\ body.untilRecorded \in MaybeTime
         /\ body.by \in MaybeDecision /\ body.supersedes \in MaybeDecision
  BY AbsentIsNone DEF Bodies

(* The saves, by kind.                                                      *)
LEMMA WriteKinds ==
  /\ \A d \in Decisions, body \in Bodies :
       /\ SaveDecision(d, body) \in Writes
       /\ SaveDecision(d, body).to = "decision"
       /\ SaveDecision(d, body).decision = d
       /\ SaveDecision(d, body).body = body
  /\ \A p \in Proposals, status \in ProposalStates :
       /\ SaveProposal(p, status) \in Writes
       /\ SaveProposal(p, status).to = "proposal"
  /\ \A r \in RevisionIds, row \in Revisions :
       /\ SaveRevision(r, row) \in Writes
       /\ SaveRevision(r, row).to = "revision"
       /\ SaveRevision(r, row).revision = r
       /\ SaveRevision(r, row).row = row
  /\ \A e \in Events :
       /\ RecordEvent(e) \in Writes
       /\ RecordEvent(e).to = "journal"
       /\ RecordEvent(e).entry = e
  BY DEF SaveDecision, SaveProposal, SaveRevision, RecordEvent, Writes

LEMMA EventKinds ==
  /\ \A p \in Proposals : \A kind \in {"proposed", "confirmed", "rejected"} :
       [event |-> kind, proposal |-> p] \in Events
  /\ \A old, new \in Decisions :
       [event |-> "superseded", old |-> old, new |-> new] \in Events
  /\ \A r \in RevisionIds : [event |-> "revised", revision |-> r] \in Events
  BY DEF Events

(* Bodies stay as good as they were while time passes.                      *)
LEMMA BodyStays ==
  ASSUME clock \in Times, clock' \in Times, clock <= clock',
         NEW body, BodyHolds(body)
  PROVE  BodyHolds(body)'
  <1>1. /\ body \in Bodies
        /\ body.from # NoTime => body.recorded # NoTime
        /\ body.recorded # NoTime => body.recorded <= clock
        /\ body.status = "SUPERSEDED" => body.until # NoTime
        /\ body.until # NoTime => /\ body.by # NoDecision
                                  /\ body.untilRecorded # NoTime
                                  /\ body.untilRecorded <= clock
    BY DEF BodyHolds
  <1>2. /\ body.recorded # NoTime => body.recorded \in Nat
        /\ body.untilRecorded # NoTime => body.untilRecorded \in Nat
        /\ clock \in Nat /\ clock' \in Nat
    BY <1>1, BodyFields, TimeFacts
  <1>3. /\ body.recorded # NoTime => body.recorded <= clock'
        /\ body.until # NoTime => body.untilRecorded <= clock'
    BY <1>1, <1>2
  <1>4. QED
    BY <1>1, <1>3 DEF BodyHolds

LEMMA WriteStays ==
  ASSUME clock \in Times, clock' \in Times, clock <= clock', NEW w, WriteHolds(w)
  PROVE  WriteHolds(w)'
  BY BodyStays DEF WriteHolds

(* The bodies an operation saves.                                           *)
LEMMA NewBodyHolds ==
  ASSUME clock \in Times, NEW from \in Times, NEW supersedes \in MaybeDecision
  PROVE  BodyHolds(NewBody(from, supersedes))
  <1>1. NewBody(from, supersedes) \in Bodies
    BY DEF NewBody, Bodies, MaybeTime, MaybeDecision
  <1>2. clock <= clock /\ clock # NoTime
    BY TimeFacts
  <1>3. QED
    BY <1>1, <1>2 DEF BodyHolds, NewBody

LEMMA SupersededHolds ==
  ASSUME clock \in Times, NEW from \in Times, NEW new \in Decisions,
         NEW body, BodyHolds(body)
  PROVE  BodyHolds(Superseded(body, from, new))
  <1>1. body \in Bodies
    BY DEF BodyHolds
  <1>2. Superseded(body, from, new) \in Bodies
    BY <1>1, BodyFields DEF Superseded, Bodies, MaybeTime, MaybeDecision
  <1>3. clock <= clock /\ clock # NoTime /\ from # NoTime /\ new # NoDecision
    BY TimeFacts, SentinelsAreNone
  <1>4. QED
    BY <1>2, <1>3 DEF BodyHolds, Superseded

LEMMA RevisedBodyHolds ==
  ASSUME clock \in Times, NEW row \in Revisions, NEW dated \in BOOLEAN
  PROVE  BodyHolds(RevisedBody(row, dated))
  <1>1. row.eff \in Times
    BY DEF Revisions
  <1>2. RevisedBody(row, dated) \in Bodies
    BY <1>1 DEF RevisedBody, Bodies, MaybeTime, MaybeDecision
  <1>3. clock <= clock /\ clock # NoTime
    BY TimeFacts
  <1>4. QED
    BY <1>2, <1>3 DEF BodyHolds, RevisedBody

(* Two saves, or three, are a list of saves.                                *)
LEMMA ListOfSaves ==
  ASSUME NEW x \in Writes, NEW y \in Writes, WriteHolds(x), WriteHolds(y)
  PROVE  /\ <<x, y>> \in Seq(Writes)
         /\ \A n \in DOMAIN <<x, y>> : WriteHolds(<<x, y>>[n])
         /\ \A z \in Writes : WriteHolds(z) =>
              /\ <<x, y, z>> \in Seq(Writes)
              /\ \A n \in DOMAIN <<x, y, z>> : WriteHolds(<<x, y, z>>[n])
  OBVIOUS

LEMMA OtherSavesHold ==
  /\ \A p \in Proposals, status \in ProposalStates : WriteHolds(SaveProposal(p, status))
  /\ \A r \in RevisionIds, row \in Revisions : WriteHolds(SaveRevision(r, row))
  /\ \A e \in Events : WriteHolds(RecordEvent(e))
  BY WriteKinds DEF WriteHolds

LEMMA DecisionSaveHolds ==
  ASSUME NEW d \in Decisions, NEW body, BodyHolds(body)
  PROVE  SaveDecision(d, body) \in Writes /\ WriteHolds(SaveDecision(d, body))
  BY WriteKinds DEF WriteHolds, BodyHolds

LEMMA IdleType == Idle \in [since : Times, writes : Seq(Writes)] /\ Idle.writes = << >>
  BY TimeFacts DEF Idle

-----------------------------------------------------------------------------
(* An operation that begins, with saves that are good, ...                  *)
LEMMA BeginKeepsBodies ==
  ASSUME BInv, NEW a \in Ready, NEW writes \in Seq(Writes), writes # << >>,
         \A n \in DOMAIN writes : WriteHolds(writes[n]), Begin(a, writes)
  PROVE  BInv'
  <1>1. /\ a \in Actors /\ calls < MaxCalls /\ clock \in Times
        /\ actor' = [actor EXCEPT ![a] = [since |-> clock, writes |-> writes]]
        /\ calls' = calls + 1
        /\ UNCHANGED <<clock, decisions, proposals, revisions, journal>>
    BY DEF Begin, Ready, BInv, TypeOK
  <1>2. TypeOK'
    <2>1. calls' \in 0..MaxCalls
      BY <1>1, LifecycleBounds DEF BInv, TypeOK
    <2>2. actor' \in [Actors -> [since : Times, writes : Seq(Writes)]]
      BY <1>1 DEF BInv, TypeOK
    <2>3. QED
      BY <1>1, <2>1, <2>2 DEF BInv, TypeOK
  <1>3. ASSUME NEW body, BodyHolds(body) PROVE BodyHolds(body)'
    BY <1>1, <1>3 DEF BodyHolds
  <1>4. \A d \in Existing' : BodyHolds(decisions[d])'
    BY <1>1, <1>3 DEF BInv, BodiesHold, Existing, BodyHolds
  <1>5. ASSUME NEW b \in Actors, NEW n \in DOMAIN actor'[b].writes
        PROVE  WriteHolds(actor[b].writes[n])'
    <2>1. CASE b = a
      <3>1. actor'[b].writes = writes
        BY <1>1, <2>1 DEF BInv, TypeOK
      <3>2. WriteHolds(writes[n])
        BY <1>5, <3>1
      <3>3. QED
        BY <1>1, <3>1, <3>2 DEF WriteHolds, BodyHolds
    <2>2. CASE b # a
      <3>1. actor'[b] = actor[b]
        BY <1>1, <2>2 DEF BInv, TypeOK
      <3>2. WriteHolds(actor[b].writes[n])
        BY <1>5, <3>1 DEF BInv, BodiesHold
      <3>3. QED
        BY <1>1, <3>1, <3>2 DEF WriteHolds, BodyHolds
    <2>3. QED
      BY <2>1, <2>2
  <1>6. RestIsIdle'
    BY <1>1 DEF BInv, TypeOK, RestIsIdle
  <1>7. QED
    BY <1>2, <1>4, <1>5, <1>6 DEF BInv, BodiesHold

LEMMA WriteFields ==
  ASSUME NEW w \in Writes
  PROVE  /\ w.to \in {"decision", "proposal", "revision", "journal"}
         /\ w.to = "decision" => w.decision \in Decisions /\ w.body \in Bodies
         /\ w.to = "proposal" => w.proposal \in Proposals /\ w.status \in ProposalStates
         /\ w.to = "revision" => w.revision \in RevisionIds /\ w.row \in Revisions
         /\ w.to = "journal" => w.entry \in Events
  BY DEF Writes

(* The first save of an operation, and the rest of them.                    *)
LEMMA SavesInOrder ==
  ASSUME NEW s \in Seq(Writes), s # << >>
  PROVE  /\ Head(s) \in Writes /\ Head(s) = s[1] /\ 1 \in DOMAIN s
         /\ Tail(s) \in Seq(Writes)
         /\ Len(s) # 1 => Tail(s) # << >>
         /\ \A n \in DOMAIN Tail(s) : n + 1 \in DOMAIN s /\ Tail(s)[n] = s[n + 1]
  OBVIOUS

(* ... a save, which is the first of what was good, ...                     *)
LEMMA WriteKeepsBodies ==
  ASSUME BInv, NEW a \in Actors, Write(a)
  PROVE  BInv'
  <1> DEFINE writes == actor[a].writes
             w == Head(writes)
             rest == IF Len(writes) = 1 THEN Idle
                     ELSE [since |-> actor[a].since, writes |-> Tail(writes)]
  <1>1. /\ actor[a] \in [since : Times, writes : Seq(Writes)] /\ actor[a] # Idle
        /\ writes \in Seq(Writes) /\ writes # << >>
    BY DEF BInv, TypeOK, RestIsIdle, Write
  <1>2. w \in Writes /\ WriteHolds(w)
    BY <1>1, SavesInOrder DEF BInv, BodiesHold
  <1>3. /\ decisions' = IF w.to = "decision" THEN [decisions EXCEPT ![w.decision] = w.body]
                        ELSE decisions
        /\ proposals' = IF w.to = "proposal" THEN [proposals EXCEPT ![w.proposal] = w.status]
                        ELSE proposals
        /\ revisions' = IF w.to = "revision" THEN [revisions EXCEPT ![w.revision] = w.row]
                        ELSE revisions
        /\ journal' = IF w.to = "journal" THEN journal \cup {w.entry} ELSE journal
        /\ clock' = clock /\ calls' = calls
    BY DEF Write
  <1>4. actor' = [actor EXCEPT ![a] = rest]
    BY DEF Write
  <1>5. /\ rest \in [since : Times, writes : Seq(Writes)]
        /\ rest.writes = << >> => rest = Idle
        /\ \A n \in DOMAIN rest.writes : WriteHolds(rest.writes[n])
    <2>1. CASE Len(writes) = 1
      BY <2>1, IdleType
    <2>2. CASE Len(writes) # 1
      <3>1. rest.writes = Tail(writes) /\ Tail(writes) # << >> /\ Tail(writes) \in Seq(Writes)
        BY <1>1, <2>2, SavesInOrder
      <3>2. \A n \in DOMAIN Tail(writes) : WriteHolds(Tail(writes)[n])
        BY <1>1, SavesInOrder DEF BInv, BodiesHold
      <3>3. QED
        BY <1>1, <2>2, <3>1, <3>2
    <2>3. QED
      BY <2>1, <2>2
  <1> HIDE DEF rest, w, writes
  <1>6. TypeOK'
    <2>1. /\ decisions' \in [Decisions -> Bodies \cup {NoDecision}]
          /\ proposals' \in [Proposals -> ProposalStates]
          /\ revisions' \in [RevisionIds -> Revisions \cup {NoRevision}]
          /\ journal' \subseteq Events
      BY <1>2, <1>3, WriteFields DEF BInv, TypeOK
    <2>2. QED
      BY <1>3, <1>4, <1>5, <2>1 DEF BInv, TypeOK
  <1>7. ASSUME NEW body, BodyHolds(body) PROVE BodyHolds(body)'
    BY <1>3, <1>7 DEF BodyHolds
  <1>8. ASSUME NEW d \in Existing' PROVE BodyHolds(decisions[d])'
    <2>1. CASE w.to = "decision" /\ w.decision = d
      <3>1. decisions'[d] = w.body /\ BodyHolds(w.body)
        BY <1>2, <1>3, <2>1 DEF BInv, TypeOK, WriteHolds, Existing
      <3>2. QED
        BY <1>7, <3>1 DEF BodyHolds
    <2>2. CASE ~(w.to = "decision" /\ w.decision = d)
      <3>1. decisions'[d] = decisions[d] /\ d \in Existing
        BY <1>2, <1>3, <1>8, <2>2, WriteFields DEF BInv, TypeOK, Existing
      <3>2. BodyHolds(decisions[d])
        BY <3>1 DEF BInv, BodiesHold
      <3>3. QED
        BY <1>3, <3>1, <3>2 DEF BodyHolds
    <2>3. QED
      BY <2>1, <2>2
  <1>9. ASSUME NEW b \in Actors
        PROVE  /\ \A n \in DOMAIN actor'[b].writes : WriteHolds(actor'[b].writes[n])
               /\ actor'[b].writes = << >> => actor'[b] = Idle
    <2>1. CASE b = a
      BY <1>4, <1>5, <2>1 DEF BInv, TypeOK
    <2>2. CASE b # a
      BY <1>4, <2>2 DEF BInv, TypeOK, BodiesHold, RestIsIdle
    <2>3. QED
      BY <2>1, <2>2
  <1>10. BodiesHold'
    <2>1. \A b \in Actors : \A n \in DOMAIN actor'[b].writes : WriteHolds(actor[b].writes[n])'
      BY <1>3, <1>9 DEF WriteHolds, BodyHolds
    <2>2. QED
      BY <1>8, <2>1 DEF BodiesHold
  <1>11. RestIsIdle'
    BY <1>9 DEF RestIsIdle
  <1>12. QED
    BY <1>6, <1>10, <1>11 DEF BInv

(* ... a death, and the time that passes, keep all bodies good.             *)
LEMMA CrashKeepsBodies ==
  ASSUME BInv, NEW a \in Actors, Crash(a)
  PROVE  BInv'
  <1>1. /\ actor' = [actor EXCEPT ![a] = Idle]
        /\ UNCHANGED <<clock, decisions, proposals, revisions, journal, calls>>
    BY DEF Crash
  <1>2. TypeOK'
    BY <1>1, IdleType DEF BInv, TypeOK
  <1>3. \A b \in Actors : actor'[b] = actor[b] \/ actor'[b] = Idle
    BY <1>1 DEF BInv, TypeOK
  <1>4. RestIsIdle'
    BY <1>3 DEF BInv, RestIsIdle
  <1>5. BodiesHold'
    <2>1. \A d \in Existing' : BodyHolds(decisions[d])'
      BY <1>1 DEF BInv, BodiesHold, Existing, BodyHolds
    <2>2. ASSUME NEW b \in Actors, NEW n \in DOMAIN actor'[b].writes
          PROVE  WriteHolds(actor[b].writes[n])'
      <3>1. CASE actor'[b] = Idle
        BY <2>2, <3>1, IdleType
      <3>2. CASE actor'[b] = actor[b]
        BY <1>1, <2>2, <3>2 DEF BInv, BodiesHold, WriteHolds, BodyHolds
      <3>3. QED
        BY <1>3, <3>1, <3>2
    <2>3. QED
      BY <2>1, <2>2 DEF BodiesHold
  <1>6. QED
    BY <1>2, <1>4, <1>5 DEF BInv

LEMMA TickKeepsBodies ==
  ASSUME BInv, Tick
  PROVE  BInv'
  <1>1. /\ clock \in Times /\ clock' \in Times /\ clock <= clock'
        /\ UNCHANGED <<decisions, proposals, revisions, journal, actor, calls>>
    BY LifecycleBounds DEF BInv, TypeOK, Tick, Times
  <1>2. TypeOK' /\ RestIsIdle'
    BY <1>1 DEF BInv, TypeOK, RestIsIdle
  <1>3. \A d \in Existing' : BodyHolds(decisions[d])'
    <2>1. ASSUME NEW d \in Existing PROVE BodyHolds(decisions[d])'
      <3>1. BodyHolds(decisions[d])
        BY DEF BInv, BodiesHold
      <3>2. ASSUME NEW body, body = decisions[d] PROVE BodyHolds(body)'
        BY <1>1, <3>1, <3>2, BodyStays
      <3>3. QED
        BY <1>1, <3>2 DEF BodyHolds
    <2>2. QED
      BY <1>1, <2>1 DEF Existing
  <1>4. ASSUME NEW b \in Actors, NEW n \in DOMAIN actor'[b].writes
        PROVE  WriteHolds(actor[b].writes[n])'
    <2>1. WriteHolds(actor[b].writes[n])
      BY <1>1, <1>4 DEF BInv, BodiesHold
    <2>2. ASSUME NEW w, w = actor[b].writes[n] PROVE WriteHolds(w)'
      BY <1>1, <2>1, <2>2, WriteStays
    <2>3. QED
      BY <1>1, <2>2 DEF WriteHolds, BodyHolds
  <1>5. QED
    BY <1>2, <1>3, <1>4 DEF BInv, BodiesHold

LEMMA BodiesInit ==
  ASSUME Init
  PROVE  BInv
  <1>1. clock = 0 /\ clock \in Times
    BY TimeFacts DEF Init
  <1>2. BodyHolds(NewBody(0, NoDecision)) /\ NewBody(0, NoDecision) \in Bodies
    BY <1>1, TimeFacts, NewBodyHolds DEF MaybeDecision, BodyHolds
  <1>3. TypeOK
    BY <1>1, <1>2, IdleType, LifecycleBounds DEF Init, TypeOK, ProposalStates
  <1>4. \A d \in Existing : BodyHolds(decisions[d])
    BY <1>2 DEF Init, Existing
  <1>5. \A a \in Actors : actor[a] = Idle
    BY DEF Init
  <1>6. QED
    BY <1>3, <1>4, <1>5, IdleType DEF BInv, BodiesHold, RestIsIdle

(* The saves of each operation are good.                                    *)
LEMMA BodiesStep ==
  ASSUME BInv, [Next]_vars
  PROVE  BInv'
  <1>0. clock \in Times
    BY DEF BInv, TypeOK
  <1>1. ASSUME NEW a \in Ready, NEW p \in Proposals, RecordProposal(a, p)
        PROVE  BInv'
    <2>1. /\ SaveProposal(p, "PENDING") \in Writes
          /\ RecordEvent([event |-> "proposed", proposal |-> p]) \in Writes
          /\ WriteHolds(SaveProposal(p, "PENDING"))
          /\ WriteHolds(RecordEvent([event |-> "proposed", proposal |-> p]))
      BY WriteKinds, EventKinds, OtherSavesHold DEF ProposalStates
    <2>2. QED
      BY <1>1, <2>1, ListOfSaves, BeginKeepsBodies DEF RecordProposal
  <1>2. ASSUME NEW a \in Ready, NEW p \in Proposals, RejectProposal(a, p)
        PROVE  BInv'
    <2>1. /\ SaveProposal(p, "REJECTED") \in Writes
          /\ RecordEvent([event |-> "rejected", proposal |-> p]) \in Writes
          /\ WriteHolds(SaveProposal(p, "REJECTED"))
          /\ WriteHolds(RecordEvent([event |-> "rejected", proposal |-> p]))
      BY WriteKinds, EventKinds, OtherSavesHold DEF ProposalStates
    <2>2. QED
      BY <1>2, <2>1, ListOfSaves, BeginKeepsBodies DEF RejectProposal
  <1>3. ASSUME NEW a \in Ready, NEW p \in Proposals, ConfirmProposal(a, p)
        PROVE  BInv'
    <2> DEFINE x == SaveDecision(DecisionOf[p], NewBody(clock, NoDecision))
               y == SaveProposal(p, "CONFIRMED")
               z == RecordEvent([event |-> "confirmed", proposal |-> p])
    <2>1. x \in Writes /\ WriteHolds(x)
      <3>1. BodyHolds(NewBody(clock, NoDecision))
        BY <1>0, NewBodyHolds DEF MaybeDecision
      <3>2. QED
        BY <3>1, DecisionOfType, DecisionSaveHolds
    <2>2. y \in Writes /\ z \in Writes /\ WriteHolds(y) /\ WriteHolds(z)
      BY WriteKinds, EventKinds, OtherSavesHold DEF ProposalStates
    <2>3. Begin(a, <<x, y, z>>)
      BY <1>3 DEF ConfirmProposal
    <2> HIDE DEF x, y, z
    <2>4. QED
      BY <2>1, <2>2, <2>3, ListOfSaves, BeginKeepsBodies
  <1>4. ASSUME NEW a \in Ready, NEW old \in Existing, NEW new \in Introduces[a],
               NEW from \in Times, ReplaceDecision(a, old, new, from)
        PROVE  BInv'
    <2> DEFINE x == SaveDecision(new, NewBody(from, old))
               y == SaveDecision(old, Superseded(decisions[old], from, new))
               z == RecordEvent([event |-> "superseded", old |-> old, new |-> new])
    <2>0. old \in Decisions /\ new \in Decisions /\ BodyHolds(decisions[old])
      BY IntroducesType DEF Ready, Existing, BInv, BodiesHold
    <2>1. BodyHolds(NewBody(from, old)) /\ BodyHolds(Superseded(decisions[old], from, new))
      BY <1>0, <2>0, NewBodyHolds, SupersededHolds DEF MaybeDecision
    <2>2. x \in Writes /\ y \in Writes /\ WriteHolds(x) /\ WriteHolds(y)
      BY <2>0, <2>1, DecisionSaveHolds
    <2>3. z \in Writes /\ WriteHolds(z)
      BY <2>0, WriteKinds, EventKinds, OtherSavesHold
    <2>4. Begin(a, <<x, y, z>>)
      BY <1>4 DEF ReplaceDecision
    <2> HIDE DEF x, y, z
    <2>5. QED
      BY <2>2, <2>3, <2>4, ListOfSaves, BeginKeepsBodies
  <1>5. ASSUME NEW a \in Ready, NEW d \in Introduces[a], NEW r \in RevisionsOf[d],
               NEW eff \in Times, NEW parent \in RevisionsOf[d] \cup {NoRevision},
               NEW dated \in BOOLEAN,
               ReviseDecision(a, d, r, [decision |-> d, eff |-> eff, parent |-> parent], dated)
        PROVE  BInv'
    <2> DEFINE row == [decision |-> d, eff |-> eff, parent |-> parent]
               x == SaveRevision(r, row)
               y == SaveDecision(d, RevisedBody(row, dated))
               z == RecordEvent([event |-> "revised", revision |-> r])
    <2>0. d \in Decisions /\ r \in RevisionIds
      BY IntroducesType, RevisionsOfType DEF Ready
    <2>1. row \in Revisions
      BY <2>0, RevisionsOfType DEF Revisions
    <2>2. y \in Writes /\ WriteHolds(y)
      BY <1>0, <2>0, <2>1, RevisedBodyHolds, DecisionSaveHolds
    <2>3. x \in Writes /\ z \in Writes /\ WriteHolds(x) /\ WriteHolds(z)
      BY <2>0, <2>1, WriteKinds, EventKinds, OtherSavesHold
    <2>4. Begin(a, <<x, y, z>>)
      BY <1>5 DEF ReviseDecision
    <2> HIDE DEF row, x, y, z
    <2>5. QED
      BY <2>2, <2>3, <2>4, ListOfSaves, BeginKeepsBodies
  <1>6. CASE UNCHANGED vars
    <2>1. TypeOK' /\ RestIsIdle'
      BY <1>6 DEF BInv, TypeOK, RestIsIdle, vars
    <2>2. BodiesHold'
      BY <1>6 DEF BInv, BodiesHold, Existing, WriteHolds, BodyHolds, vars
    <2>3. QED
      BY <2>1, <2>2 DEF BInv
  <1>7. QED
    BY <1>1, <1>2, <1>3, <1>4, <1>5, <1>6, WriteKeepsBodies, CrashKeepsBodies, TickKeepsBodies
    DEF Next, Propose, Confirm, Reject, Replace, Revise

LEMMA BodiesInvariant == Spec => []BInv
  BY BodiesInit, BodiesStep, PTL DEF Spec

(* No save ever brings a decision, a proposal or a revision of a shape the  *)
(* queries do not know.                                                     *)
THEOREM TypeCorrect == Spec => []TypeOK
  BY BodiesInvariant, PTL DEF BInv

-----------------------------------------------------------------------------
(* The three queries name the same decision for this second, whatever has   *)
(* been saved and wherever operations died: they choose in the same order   *)
(* and, as the bodies are, each of their filters says the same.             *)
THEOREM QueriesAgreeToday == Spec => []TodayAgrees
  <1>1. ASSUME BInv, Undated = {}
        PROVE  /\ CurrentDecision = DecisionAsOf(clock)
               /\ CurrentDecision = DecisionKnownAsOf(clock)
    <2> DEFINE Current == {d \in Existing :
                 LET body == decisions[d] IN
                   /\ body.status = "SUPERSEDED" => body.until # NoTime
                   /\ body.until # NoTime => clock < body.until
                   /\ OrZero(body.from) <= clock
                   /\ OrZero(body.recorded) <= clock}
               AsOf == {d \in Existing :
                 LET body == decisions[d] IN
                   /\ body.from # NoTime /\ body.from <= clock
                   /\ body.until # NoTime => clock < body.until}
               Known == {d \in Existing :
                 LET body == decisions[d] IN
                   /\ body.from # NoTime /\ body.recorded # NoTime
                   /\ body.from <= clock /\ body.recorded <= clock
                   /\ (body.until # NoTime /\ body.until <= clock)
                        => clock < body.untilRecorded}
    <2>1. ASSUME NEW d \in Existing
          PROVE  (d \in Current <=> d \in AsOf) /\ (d \in Current <=> d \in Known)
      <3> DEFINE body == decisions[d]
      <3>1. /\ BodyHolds(body)
            /\ body.from # NoTime
        BY <1>1 DEF BInv, BodiesHold, Undated
      <3>2. /\ body.recorded # NoTime /\ body.recorded <= clock
            /\ body.status = "SUPERSEDED" => body.until # NoTime
            /\ body.until # NoTime => body.untilRecorded # NoTime /\ body.untilRecorded <= clock
            /\ body \in Bodies
        BY <3>1 DEF BodyHolds
      <3>3. /\ body.from \in Nat /\ body.recorded \in Nat /\ clock \in Nat
            /\ body.until # NoTime => body.until \in Nat
            /\ body.until # NoTime => body.untilRecorded \in Nat
        BY <1>1, <3>1, <3>2, BodyFields, TimeFacts DEF BInv, TypeOK
      <3>4. OrZero(body.from) = body.from /\ OrZero(body.recorded) = body.recorded
        BY <3>1, <3>2 DEF OrZero
      <3>5. d \in Current <=> /\ body.until # NoTime => clock < body.until
                              /\ body.from <= clock
        BY <3>2, <3>4
      <3>6. d \in AsOf <=> /\ body.until # NoTime => clock < body.until
                           /\ body.from <= clock
        BY <3>1
      <3>7. d \in Known <=> /\ body.from <= clock
                            /\ ~(body.until # NoTime /\ body.until <= clock)
        BY <3>1, <3>2, <3>3
      <3>8. (body.until # NoTime => clock < body.until)
              <=> ~(body.until # NoTime /\ body.until <= clock)
        BY <3>3
      <3>9. QED
        BY <3>5, <3>6, <3>7, <3>8
    <2>2. Current = AsOf /\ Current = Known
      BY <2>1
    <2>3. /\ CurrentDecision = Governing(Current)
          /\ DecisionAsOf(clock) = Governing(AsOf)
          /\ DecisionKnownAsOf(clock) = Governing(Known)
      BY DEF CurrentDecision, DecisionAsOf, DecisionKnownAsOf
    <2> HIDE DEF Current, AsOf, Known
    <2>4. QED
      BY <2>2, <2>3
  <1>2. BInv => TodayAgrees
    BY <1>1 DEF TodayAgrees
  <1>3. QED
    BY <1>2, BodiesInvariant, PTL

-----------------------------------------------------------------------------
Unrevised(d) == ChainOf(revisions, d) = {}

(* The body names a successor that is there and names it back.              *)
LinkHolds(d, body) ==
  body.by # NoDecision =>
    /\ body.by \in Existing
    /\ Unrevised(body.by) => /\ decisions[body.by].supersedes = d
                             /\ decisions[body.by].from = body.until

DecisionsHold ==
  \A d \in Existing : /\ LinkHolds(d, decisions[d])
                      /\ Unrevised(d) => decisions[d].from # NoTime

RevisionsHold ==
  \A r \in RevisionIds :
    revisions[r] # NoRevision => r \in RevisionsOf[revisions[r].decision]

(* What the event is about has been saved.                                  *)
EventHolds(e) ==
  /\ e.event = "superseded" => e.new \in Existing
  /\ e.event = "confirmed" => DecisionOf[e.proposal] \in Existing
  /\ e.event = "revised" => revisions[e.revision] # NoRevision

-----------------------------------------------------------------------------
(* The bodies on their way: of a decision that is not there yet, ...        *)
NewHolds(a, d, body) ==
  /\ d \in Introduces[a] /\ d \notin Existing
  /\ body.from # NoTime
  /\ body.recorded = actor[a].since
  /\ body.until = NoTime /\ body.by = NoDecision

(* ... of one that is being replaced, with the rest of it as it was read;   *)
(* unless it has been revised, that is as it still is, ...                  *)
ClosingHolds(a, d, body, new) ==
  /\ d \in Existing
  /\ body.by = new /\ body.until # NoTime
  /\ body.untilRecorded = actor[a].since
  /\ Unrevised(d) => /\ body.from = decisions[d].from
                     /\ body.recorded = decisions[d].recorded
                     /\ body.supersedes = decisions[d].supersedes

(* ... and of one that is being revised.                                    *)
RevisedHolds(a, d, body) ==
  d \in Introduces[a] /\ body.by = NoDecision

(* What an actor has yet to save, operation by operation, last save last.   *)
Announcing(a, e) ==
  /\ actor[a].writes = <<RecordEvent(e)>>
  /\ EventHolds(e)

MarkingProposal(a, p, status, e) ==
  /\ actor[a].writes = <<SaveProposal(p, status), RecordEvent(e)>>
  /\ EventHolds(e)

SupersededEvent(old, new) == [event |-> "superseded", old |-> old, new |-> new]

ClosingOld(a, old, body, new) ==
  /\ actor[a].writes = <<SaveDecision(old, body), RecordEvent(SupersededEvent(old, new))>>
  /\ ClosingHolds(a, old, body, new)
  /\ LinkHolds(old, body)

RevisingBody(a, d, body, r) ==
  /\ actor[a].writes =
       <<SaveDecision(d, body), RecordEvent([event |-> "revised", revision |-> r])>>
  /\ RevisedHolds(a, d, body)
  /\ r \in ChainOf(revisions, d)

Confirming(a, p, body) ==
  /\ actor[a].writes =
       <<SaveDecision(DecisionOf[p], body), SaveProposal(p, "CONFIRMED"),
         RecordEvent([event |-> "confirmed", proposal |-> p])>>
  /\ NewHolds(a, DecisionOf[p], body)

Replacing(a, new, newBody, old, body) ==
  /\ actor[a].writes =
       <<SaveDecision(new, newBody), SaveDecision(old, body),
         RecordEvent(SupersededEvent(old, new))>>
  /\ NewHolds(a, new, newBody)
  /\ newBody.supersedes = old /\ newBody.from = body.until
  /\ ClosingHolds(a, old, body, new)

Revising(a, d, r, row, body) ==
  /\ actor[a].writes =
       <<SaveRevision(r, row), SaveDecision(d, body),
         RecordEvent([event |-> "revised", revision |-> r])>>
  /\ RevisedHolds(a, d, body)
  /\ row.decision = d
  /\ r \in RevisionsOf[d] /\ r \notin ChainOf(revisions, d)
  /\ ValidChain([revisions EXCEPT ![r] = row], d)

ActorHolds(a) ==
  \/ actor[a] = Idle
  \/ \E e \in Events : Announcing(a, e)
  \/ \E p \in Proposals, status \in ProposalStates, e \in Events :
       MarkingProposal(a, p, status, e)
  \/ \E old, new \in Decisions, body \in Bodies : ClosingOld(a, old, body, new)
  \/ \E d \in Decisions, body \in Bodies, r \in RevisionIds : RevisingBody(a, d, body, r)
  \/ \E p \in Proposals, body \in Bodies : Confirming(a, p, body)
  \/ \E new, old \in Decisions, newBody, body \in Bodies :
       Replacing(a, new, newBody, old, body)
  \/ \E d \in Decisions, r \in RevisionIds, row \in Revisions, body \in Bodies :
       Revising(a, d, r, row, body)

-----------------------------------------------------------------------------
(* The decision is in effect at t ...                                       *)
InEffect(d, t) ==
  /\ d \in Existing
  /\ decisions[d].from # NoTime /\ decisions[d].from <= t
  /\ decisions[d].until # NoTime => t < decisions[d].until

(* ... and no save that is next ends it by then.                            *)
Ends(a, d, t) ==
  /\ actor[a] # Idle
  /\ Head(actor[a].writes).to = "decision"
  /\ Head(actor[a].writes).decision = d
  /\ Head(actor[a].writes).body.by # NoDecision
  /\ Head(actor[a].writes).body.until <= t

Stays(d, t) == InEffect(d, t) /\ \A a \in Actors : ~Ends(a, d, t)

(* Without revisions, whatever has begun by t leaves somebody in effect at  *)
(* t, whoever dies.                                                         *)
CoverageHolds ==
  NoneRevised =>
    \A d \in Existing, t \in Times :
      decisions[d].from <= t => \E e \in Existing : Stays(e, t)

IInv ==
  /\ BInv
  /\ IsFiniteSet(Existing)
  /\ DecisionsHold
  /\ RevisionsHold
  /\ \A e \in journal : EventHolds(e)
  /\ \A a \in Actors : ActorHolds(a)
  /\ CoverageHolds

-----------------------------------------------------------------------------
(* The store as it may change under whoever is in the middle of something.  *)
Grows ==
  /\ Existing \subseteq Existing'
  /\ \A r \in RevisionIds : revisions[r] # NoRevision => revisions'[r] # NoRevision
  /\ \A d \in Existing : Unrevised(d)' =>
       /\ Unrevised(d)
       /\ decisions'[d].from = decisions[d].from
       /\ decisions'[d].recorded = decisions[d].recorded
       /\ decisions'[d].supersedes = decisions[d].supersedes

(* The ids of its own are left to an actor.                                 *)
Apart(a) ==
  \A d \in Introduces[a] :
    /\ d \notin Existing => d \notin Existing'
    /\ ChainOf(revisions, d)' = ChainOf(revisions, d)
    /\ \A r \in ChainOf(revisions, d) : revisions'[r] = revisions[r]

LEMMA ChainFields ==
  ASSUME NEW stored, NEW d
  PROVE  /\ ChainOf(stored, d) \subseteq RevisionIds
         /\ \A r \in RevisionIds :
              r \in ChainOf(stored, d) <=> stored[r] # NoRevision /\ stored[r].decision = d
  BY DEF ChainOf

(* Whether a chain is valid is a matter of its own revisions.               *)
LEMMA ChainsAgree ==
  ASSUME NEW s, NEW t, NEW d,
         ChainOf(s, d) = ChainOf(t, d),
         \A r \in ChainOf(s, d) : s[r] = t[r]
  PROVE  ValidChain(s, d) <=> ValidChain(t, d)
  <1> DEFINE C == ChainOf(s, d)
  <1>1. \A root \in C : {r \in C : s[r].parent = NoRevision} = {r \in C : t[r].parent = NoRevision}
    OBVIOUS
  <1>2. \A r \in C : s[r].parent # NoRevision /\ s[r].parent \in C =>
          s[s[r].parent].eff = t[t[r].parent].eff
    OBVIOUS
  <1> HIDE DEF C
  <1>3. C = ChainOf(s, d) /\ C = ChainOf(t, d) /\ \A r \in C : s[r] = t[r]
    BY DEF C
  <1>4. ValidChain(s, d) <=>
          /\ \E root \in C : {r \in C : s[r].parent = NoRevision} = {root}
          /\ \A r \in C : s[r].parent # NoRevision =>
               s[r].parent \in C /\ s[s[r].parent].eff < s[r].eff
          /\ \A r, q \in C :
               (s[r].parent = s[q].parent /\ s[r].parent # NoRevision) => r = q
    BY <1>3 DEF ValidChain
  <1>5. ValidChain(t, d) <=>
          /\ \E root \in C : {r \in C : t[r].parent = NoRevision} = {root}
          /\ \A r \in C : t[r].parent # NoRevision =>
               t[r].parent \in C /\ t[t[r].parent].eff < t[r].eff
          /\ \A r, q \in C :
               (t[r].parent = t[q].parent /\ t[r].parent # NoRevision) => r = q
    BY <1>3 DEF ValidChain
  <1>6. QED
    BY <1>1, <1>2, <1>3, <1>4, <1>5

LEMMA LinkStays ==
  ASSUME Grows, NEW d, NEW body \in Bodies, LinkHolds(d, body)
  PROVE  LinkHolds(d, body)'
  BY DEF Grows, LinkHolds

LEMMA EventStays ==
  ASSUME Grows, NEW e \in Events, EventHolds(e)
  PROVE  EventHolds(e)'
  <1>1. /\ e.event = "superseded" => e.new \in Existing'
        /\ e.event = "confirmed" => DecisionOf[e.proposal] \in Existing'
    BY DEF Grows, EventHolds
  <1>2. e.event = "revised" => revisions'[e.revision] # NoRevision
    BY DEF Grows, EventHolds, Events
  <1>3. QED
    BY <1>1, <1>2 DEF EventHolds

LEMMA ClosingStays ==
  ASSUME Grows, NEW a, actor'[a].since = actor[a].since, NEW d, NEW body, NEW new,
         ClosingHolds(a, d, body, new)
  PROVE  ClosingHolds(a, d, body, new)'
  BY DEF Grows, ClosingHolds

LEMMA NewStays ==
  ASSUME NEW a, Apart(a), actor'[a].since = actor[a].since, NEW d, NEW body,
         NewHolds(a, d, body)
  PROVE  NewHolds(a, d, body)'
  BY DEF Apart, NewHolds

(* So whoever is not at it keeps what it holds.                             *)
LEMMA ActorStays ==
  ASSUME BInv, BInv', Grows, NEW a \in Actors, Apart(a), actor'[a] = actor[a], ActorHolds(a)
  PROVE  ActorHolds(a)'
  <1>1. CASE actor[a] = Idle
    BY <1>1 DEF ActorHolds
  <1>2. ASSUME NEW e \in Events, Announcing(a, e) PROVE ActorHolds(a)'
    <2>1. Announcing(a, e)'
      BY <1>2, EventStays DEF Announcing
    <2>2. QED
      BY <2>1 DEF ActorHolds
  <1>3. ASSUME NEW p \in Proposals, NEW status \in ProposalStates, NEW e \in Events,
               MarkingProposal(a, p, status, e)
        PROVE  ActorHolds(a)'
    <2>1. MarkingProposal(a, p, status, e)'
      BY <1>3, EventStays DEF MarkingProposal
    <2>2. QED
      BY <2>1 DEF ActorHolds
  <1>4. ASSUME NEW old \in Decisions, NEW new \in Decisions, NEW body \in Bodies,
               ClosingOld(a, old, body, new)
        PROVE  ActorHolds(a)'
    <2>1. ClosingOld(a, old, body, new)'
      BY <1>4, LinkStays, ClosingStays DEF ClosingOld
    <2>2. QED
      BY <2>1 DEF ActorHolds
  <1>5. ASSUME NEW d \in Decisions, NEW body \in Bodies, NEW r \in RevisionIds,
               RevisingBody(a, d, body, r)
        PROVE  ActorHolds(a)'
    <2>1. RevisingBody(a, d, body, r)'
      BY <1>5 DEF RevisingBody, RevisedHolds, Apart
    <2>2. QED
      BY <2>1 DEF ActorHolds
  <1>6. ASSUME NEW p \in Proposals, NEW body \in Bodies, Confirming(a, p, body)
        PROVE  ActorHolds(a)'
    <2>1. Confirming(a, p, body)'
      BY <1>6, NewStays DEF Confirming
    <2>2. QED
      BY <2>1 DEF ActorHolds
  <1>7. ASSUME NEW new \in Decisions, NEW old \in Decisions, NEW newBody \in Bodies,
               NEW body \in Bodies, Replacing(a, new, newBody, old, body)
        PROVE  ActorHolds(a)'
    <2>1. Replacing(a, new, newBody, old, body)'
      BY <1>7, NewStays, ClosingStays DEF Replacing
    <2>2. QED
      BY <2>1 DEF ActorHolds
  <1>8. ASSUME NEW d \in Decisions, NEW r \in RevisionIds, NEW row \in Revisions,
               NEW body \in Bodies, Revising(a, d, r, row, body)
        PROVE  ActorHolds(a)'
    <2> DEFINE before == [revisions EXCEPT ![r] = row]
               after == [revisions' EXCEPT ![r] = row]
    <2>1. d \in Introduces[a] /\ row.decision = d /\ r \notin ChainOf(revisions, d)
      BY <1>8 DEF Revising, RevisedHolds
    <2>2. /\ ChainOf(revisions, d)' = ChainOf(revisions, d)
          /\ \A q \in ChainOf(revisions, d) : revisions'[q] = revisions[q]
      BY <2>1 DEF Apart
    <2>3. /\ before[r] = row /\ after[r] = row
          /\ \A q \in RevisionIds \ {r} : before[q] = revisions[q] /\ after[q] = revisions'[q]
      BY DEF BInv, TypeOK
    <2> HIDE DEF before, after
    <2>7. \A q \in RevisionIds \ {r} : /\ q \in ChainOf(before, d) <=> q \in ChainOf(revisions, d)
                                       /\ q \in ChainOf(after, d) <=> q \in ChainOf(revisions, d)'
      BY <2>3 DEF ChainOf
    <2>8. /\ r \in ChainOf(before, d) <=> r \in ChainOf(after, d)
          /\ ChainOf(before, d) \subseteq RevisionIds /\ ChainOf(after, d) \subseteq RevisionIds
      BY <2>3 DEF ChainOf
    <2>9. /\ ChainOf(before, d) = ChainOf(after, d)
          /\ \A q \in ChainOf(before, d) : before[q] = after[q]
      BY <2>2, <2>3, <2>7, <2>8
    <2>4. ValidChain(after, d)
      BY <1>8, <2>9, ChainsAgree DEF Revising, before
    <2>5. Revising(a, d, r, row, body)'
      BY <1>8, <2>2, <2>4 DEF Revising, RevisedHolds, after
    <2>6. QED
      BY <2>5 DEF ActorHolds
  <1>9. QED
    BY <1>1, <1>2, <1>3, <1>4, <1>5, <1>6, <1>7, <1>8 DEF ActorHolds

-----------------------------------------------------------------------------
(* What a step has to leave behind.                                         *)
LEMMA StepHolds ==
  ASSUME IInv, BInv', Grows,
         IsFiniteSet(Existing)',
         \A d \in Existing' :
           \/ d \in Existing /\ decisions'[d] = decisions[d]
           \/ /\ LinkHolds(d, decisions[d])'
              /\ Unrevised(d)' => decisions'[d].from # NoTime,
         RevisionsHold',
         \A e \in journal' : e \in journal \/ EventHolds(e)',
         \A a \in Actors : ActorHolds(a)',
         CoverageHolds'
  PROVE  IInv'
  <1>1. ASSUME NEW d \in Existing'
        PROVE  /\ LinkHolds(d, decisions[d])'
               /\ Unrevised(d)' => decisions'[d].from # NoTime
    <2>1. CASE d \in Existing /\ decisions'[d] = decisions[d]
      <3>1. /\ LinkHolds(d, decisions[d]) /\ decisions[d] \in Bodies
            /\ Unrevised(d) => decisions[d].from # NoTime
        BY <2>1 DEF IInv, DecisionsHold, BInv, BodiesHold, BodyHolds
      <3>2. ASSUME NEW body, body = decisions[d] PROVE LinkHolds(d, body)'
        BY <3>1, <3>2, LinkStays
      <3>3. LinkHolds(d, decisions[d])'
        BY <2>1, <3>2 DEF LinkHolds
      <3>4. Unrevised(d)' => Unrevised(d)
        BY <2>1 DEF Grows
      <3>5. QED
        BY <2>1, <3>1, <3>3, <3>4
    <2>2. CASE ~(d \in Existing /\ decisions'[d] = decisions[d])
      BY <2>2
    <2>3. QED
      BY <2>1, <2>2
  <1>2. DecisionsHold'
    BY <1>1 DEF DecisionsHold
  <1>3. \A e \in journal' : EventHolds(e)'
    BY EventStays DEF IInv, BInv, TypeOK
  <1>4. QED
    BY <1>2, <1>3 DEF IInv

(* Whoever saves a decision as its next step either brings a new one or     *)
(* ends one that is there.                                                  *)
LEMMA EndsIsClosing ==
  ASSUME NEW a \in Actors, ActorHolds(a), NEW d, NEW t, Ends(a, d, t)
  PROVE  \E body \in Bodies, new \in Decisions :
           ClosingOld(a, d, body, new) /\ body.until <= t /\ d \in Existing
  <1> DEFINE w == Head(actor[a].writes)
  <1>1. /\ actor[a] # Idle /\ w.to = "decision" /\ w.decision = d
        /\ w.body.by # NoDecision /\ w.body.until <= t
    BY DEF Ends
  <1>2. ASSUME NEW e \in Events, Announcing(a, e) PROVE FALSE
    <2>1. w = RecordEvent(e)
      BY <1>2 DEF Announcing
    <2>2. QED
      BY <1>1, <2>1, WriteKinds
  <1>3. ASSUME NEW p \in Proposals, NEW status \in ProposalStates, NEW e \in Events,
               MarkingProposal(a, p, status, e)
        PROVE  FALSE
    <2>1. w = SaveProposal(p, status)
      BY <1>3 DEF MarkingProposal
    <2>2. QED
      BY <1>1, <2>1, WriteKinds
  <1>4. ASSUME NEW old \in Decisions, NEW new \in Decisions, NEW body \in Bodies,
               ClosingOld(a, old, body, new)
        PROVE  d = old /\ body.until <= t /\ d \in Existing
    <2>1. w = SaveDecision(old, body) /\ old \in Existing
      BY <1>4 DEF ClosingOld, ClosingHolds
    <2>2. w.decision = old /\ w.body = body
      BY <2>1, WriteKinds
    <2>3. QED
      BY <1>1, <2>1, <2>2
  <1>5. ASSUME NEW e \in Decisions, NEW body \in Bodies, NEW r \in RevisionIds,
               RevisingBody(a, e, body, r)
        PROVE  FALSE
    <2>1. w = SaveDecision(e, body) /\ body.by = NoDecision
      BY <1>5 DEF RevisingBody, RevisedHolds
    <2>2. QED
      BY <1>1, <2>1, WriteKinds
  <1>6. ASSUME NEW p \in Proposals, NEW body \in Bodies, Confirming(a, p, body)
        PROVE  FALSE
    <2>1. w = SaveDecision(DecisionOf[p], body) /\ body.by = NoDecision
      BY <1>6 DEF Confirming, NewHolds
    <2>2. QED
      BY <1>1, <2>1, WriteKinds, DecisionOfType
  <1>7. ASSUME NEW new \in Decisions, NEW old \in Decisions, NEW newBody \in Bodies,
               NEW body \in Bodies, Replacing(a, new, newBody, old, body)
        PROVE  FALSE
    <2>1. w = SaveDecision(new, newBody) /\ newBody.by = NoDecision
      BY <1>7 DEF Replacing, NewHolds
    <2>2. QED
      BY <1>1, <2>1, WriteKinds
  <1>8. ASSUME NEW e \in Decisions, NEW r \in RevisionIds, NEW row \in Revisions,
               NEW body \in Bodies, Revising(a, e, r, row, body)
        PROVE  FALSE
    <2>1. w = SaveRevision(r, row)
      BY <1>8 DEF Revising
    <2>2. QED
      BY <1>1, <2>1, WriteKinds
  <1> HIDE DEF w
  <1>9. QED
    BY <1>1, <1>2, <1>3, <1>4, <1>5, <1>6, <1>7, <1>8 DEF ActorHolds

LEMMA StaysOn ==
  ASSUME NEW e, NEW t, Stays(e, t), InEffect(e, t)', NEW a \in Actors, ~Ends(a, e, t)',
         \A b \in Actors \ {a} : actor'[b] = actor[b]
  PROVE  Stays(e, t)'
  BY DEF Stays, Ends

(* Where the decisions, the revisions and the journal are left alone, only  *)
(* the actor that moves needs a look.                                       *)
LEMMA QuietHolds ==
  ASSUME IInv, BInv', NEW a \in Actors,
         \A b \in Actors \ {a} : actor'[b] = actor[b],
         ActorHolds(a)',
         \A d \in Decisions, t \in Times : ~Ends(a, d, t)',
         decisions' = decisions, revisions' = revisions,
         \A e \in journal' : e \in journal \/ EventHolds(e)'
  PROVE  IInv'
  <1>1. Existing' = Existing /\ \A d : ChainOf(revisions, d)' = ChainOf(revisions, d)
    BY DEF Existing, ChainOf
  <1>2. Grows
    BY <1>1 DEF Grows, Unrevised
  <1>3. \A b \in Actors : Apart(b)
    BY <1>1 DEF Apart
  <1>4. \A b \in Actors : ActorHolds(b)'
    BY <1>2, <1>3, ActorStays DEF IInv
  <1>5. CoverageHolds'
    <2> SUFFICES ASSUME NoneRevised, NEW d \in Existing, NEW t \in Times,
                        decisions[d].from <= t
                 PROVE  \E e \in Existing : Stays(e, t)'
      BY <1>1 DEF CoverageHolds, NoneRevised
    <2>1. PICK e \in Existing : Stays(e, t)
      BY DEF IInv, CoverageHolds
    <2>2. InEffect(e, t)'
      BY <1>1, <2>1 DEF Stays, InEffect
    <2>3. ~Ends(a, e, t)'
      BY DEF Existing
    <2>4. QED
      BY <2>1, <2>2, <2>3, StaysOn
  <1>6. RevisionsHold' /\ IsFiniteSet(Existing)'
    BY <1>1 DEF IInv, RevisionsHold
  <1>7. \A d \in Existing' : d \in Existing /\ decisions'[d] = decisions[d]
    BY <1>1
  <1>8. QED
    BY <1>2, <1>4, <1>5, <1>6, <1>7, StepHolds

-----------------------------------------------------------------------------
(* An operation that begins: its list is one of those of ActorHolds, and it *)
(* does not begin with the end of a decision.                               *)
LEMMA BeginHolds ==
  ASSUME IInv, BInv', NEW a \in Ready, NEW writes, Begin(a, writes),
         ActorHolds(a)',
         \/ Head(writes).to # "decision"
         \/ Head(writes).body.by = NoDecision
  PROVE  IInv'
  <1>1. /\ actor' = [actor EXCEPT ![a] = [since |-> clock, writes |-> writes]]
        /\ UNCHANGED <<decisions, revisions, journal>>
        /\ a \in Actors /\ actor'[a].writes = writes
        /\ \A b \in Actors \ {a} : actor'[b] = actor[b]
    BY DEF Begin, Ready, IInv, BInv, TypeOK
  <1>2. \A d \in Decisions, t \in Times : ~Ends(a, d, t)'
    BY <1>1 DEF Ends
  <1>3. QED
    BY <1>1, <1>2, QuietHolds

LEMMA ProposalsHold ==
  ASSUME IInv, BInv', NEW a \in Ready, NEW p \in Proposals,
         RecordProposal(a, p) \/ RejectProposal(a, p)
  PROVE  IInv'
  <1>1. PICK status \in ProposalStates, kind \in {"proposed", "rejected"} :
          Begin(a, <<SaveProposal(p, status),
                     RecordEvent([event |-> kind, proposal |-> p])>>)
    BY DEF RecordProposal, RejectProposal, ProposalStates
  <1> DEFINE e == [event |-> kind, proposal |-> p]
  <1>2. e \in Events /\ EventHolds(e)'
    BY EventKinds DEF EventHolds
  <1>3. a \in Actors /\ actor'[a].writes = <<SaveProposal(p, status), RecordEvent(e)>>
    BY <1>1 DEF Begin, Ready, IInv, BInv, TypeOK
  <1>4. MarkingProposal(a, p, status, e)'
    BY <1>2, <1>3 DEF MarkingProposal
  <1>5. ActorHolds(a)'
    BY <1>2, <1>4 DEF ActorHolds
  <1>6. Head(<<SaveProposal(p, status), RecordEvent(e)>>).to # "decision"
    BY WriteKinds
  <1>7. QED
    BY <1>1, <1>5, <1>6, BeginHolds

(* What a new body is, and the decision it is for.                          *)
LEMMA NewBodyIsNew ==
  ASSUME IInv, NEW a \in Ready, NEW writes, Begin(a, writes),
         NEW d \in Introduces[a], decisions[d] = NoDecision,
         NEW from \in Times, NEW old \in MaybeDecision
  PROVE  /\ NewBody(from, old) \in Bodies
         /\ NewHolds(a, d, NewBody(from, old))'
         /\ NewBody(from, old).from = from
         /\ NewBody(from, old).supersedes = old
  <1>1. /\ a \in Actors /\ actor'[a].since = clock
        /\ decisions' = decisions /\ clock \in Times
    BY DEF Begin, Ready, IInv, BInv, TypeOK
  <1>2. /\ NewBody(from, old) \in Bodies
        /\ NewBody(from, old).from = from /\ NewBody(from, old).from # NoTime
        /\ NewBody(from, old).recorded = clock
        /\ NewBody(from, old).until = NoTime
        /\ NewBody(from, old).by = NoDecision
        /\ NewBody(from, old).supersedes = old
    BY <1>1, NewBodyHolds, TimeFacts DEF NewBody, BodyHolds
  <1>3. d \notin Existing'
    BY <1>1 DEF Existing
  <1> DEFINE body == NewBody(from, old)
  <1>4. ASSUME NEW b, b = body
        PROVE  NewHolds(a, d, b)'
    BY <1>1, <1>2, <1>3, <1>4 DEF NewHolds
  <1>5. NewHolds(a, d, body)'
    <2>1. actor'[a].since = clock
      BY <1>1
    <2>2. clock' = clock
      BY DEF Begin
    <2>3. body' = body
      BY <2>2 DEF NewBody
    <2> HIDE DEF body
    <2>4. QED
      BY <1>4, <2>3 DEF NewHolds
  <1>6. QED
    BY <1>2, <1>5

LEMMA ConfirmationHolds ==
  ASSUME IInv, BInv', NEW a \in Ready, NEW p \in Proposals, ConfirmProposal(a, p)
  PROVE  IInv'
  <1>0. PICK now \in Times : now = clock
    BY DEF IInv, BInv, TypeOK
  <1>00. PICK body : body = NewBody(now, NoDecision)
    OBVIOUS
  <1> DEFINE d == DecisionOf[p]
             writes == <<SaveDecision(d, body), SaveProposal(p, "CONFIRMED"),
                         RecordEvent([event |-> "confirmed", proposal |-> p])>>
  <1>1. /\ d \in Introduces[a] /\ decisions[d] = NoDecision /\ d \in Decisions
        /\ Begin(a, writes) /\ clock \in Times /\ a \in Actors
    BY <1>0, <1>00, DecisionOfType DEF ConfirmProposal, Ready, IInv, BInv, TypeOK
  <1>2. body \in Bodies /\ NewHolds(a, d, body)'
    <2>1. NewHolds(a, d, NewBody(now, NoDecision))' /\ NewBody(now, NoDecision) \in Bodies
      BY <1>1, NewBodyIsNew DEF MaybeDecision
    <2>2. clock' = clock
      BY <1>1 DEF Begin
    <2>3. QED
      BY <1>0, <1>00, <2>1, <2>2 DEF NewHolds, NewBody
  <1>3. actor'[a].writes = writes
    BY <1>1 DEF Begin, Ready, IInv, BInv, TypeOK
  <1>4. Confirming(a, p, body)'
    BY <1>2, <1>3 DEF Confirming
  <1>5. ActorHolds(a)'
    BY <1>2, <1>4 DEF ActorHolds
  <1>6. Head(writes).body.by = NoDecision
    BY <1>1, <1>2, WriteKinds DEF NewHolds
  <1>7. QED
    BY <1>1, <1>5, <1>6, BeginHolds

LEMMA ReplacementHolds ==
  ASSUME IInv, BInv', NEW a \in Ready, NEW old \in Existing, NEW new \in Introduces[a],
         NEW from \in Times, ReplaceDecision(a, old, new, from)
  PROVE  IInv'
  <1>0. PICK newBody, body : /\ newBody = NewBody(from, old)
                             /\ body = Superseded(decisions[old], from, new)
    OBVIOUS
  <1> DEFINE writes == <<SaveDecision(new, newBody), SaveDecision(old, body),
                         RecordEvent(SupersededEvent(old, new))>>
  <1>1. /\ decisions[new] = NoDecision /\ old \in Decisions /\ new \in Decisions
        /\ Begin(a, writes) /\ clock \in Times /\ a \in Actors
    BY <1>0, IntroducesType
    DEF ReplaceDecision, Ready, Existing, IInv, BInv, TypeOK, SupersededEvent
  <1>2. /\ newBody \in Bodies /\ NewHolds(a, new, newBody)'
        /\ newBody.from = from /\ newBody.supersedes = old
    <2>1. /\ NewHolds(a, new, NewBody(from, old))' /\ NewBody(from, old) \in Bodies
          /\ NewBody(from, old).from = from /\ NewBody(from, old).supersedes = old
      BY <1>1, NewBodyIsNew DEF MaybeDecision
    <2>2. clock' = clock
      BY <1>1 DEF Begin
    <2>3. QED
      BY <1>0, <2>1, <2>2 DEF NewHolds, NewBody
  <1>3. /\ actor'[a].writes = writes /\ actor'[a].since = clock
        /\ decisions' = decisions /\ revisions' = revisions
    BY <1>1 DEF Begin, Ready, IInv, BInv, TypeOK
  <1>4. /\ body \in Bodies
        /\ body.by = new /\ body.until = from /\ from # NoTime
        /\ body.untilRecorded = clock
        /\ body.from = decisions[old].from
        /\ body.recorded = decisions[old].recorded
        /\ body.supersedes = decisions[old].supersedes
    <2>1. BodyHolds(decisions[old])
      BY DEF IInv, BInv, BodiesHold
    <2>2. BodyHolds(Superseded(decisions[old], from, new))
      BY <1>1, <2>1, SupersededHolds
    <2>3. QED
      BY <1>0, <2>2, TimeFacts DEF Superseded, BodyHolds
  <1>5. ClosingHolds(a, old, body, new)'
    BY <1>3, <1>4 DEF ClosingHolds, Existing
  <1>6. Replacing(a, new, newBody, old, body)'
    BY <1>2, <1>3, <1>4, <1>5 DEF Replacing
  <1>7. ActorHolds(a)'
    BY <1>1, <1>2, <1>4, <1>6 DEF ActorHolds
  <1>8. Head(writes).body.by = NoDecision
    BY <1>1, <1>2, WriteKinds DEF NewHolds
  <1>9. QED
    BY <1>1, <1>7, <1>8, BeginHolds

LEMMA RevisionHolds ==
  ASSUME IInv, BInv', NEW a \in Ready, NEW d \in Introduces[a], NEW r \in RevisionsOf[d],
         NEW row \in Revisions, NEW dated \in BOOLEAN, ReviseDecision(a, d, r, row, dated)
  PROVE  IInv'
  <1>0. PICK body : body = RevisedBody(row, dated)
    OBVIOUS
  <1> DEFINE writes == <<SaveRevision(r, row), SaveDecision(d, body),
                         RecordEvent([event |-> "revised", revision |-> r])>>
  <1>1. /\ d \in Decisions /\ r \in RevisionIds /\ row.decision = d
        /\ r \notin ChainOf(revisions, d)
        /\ ValidChain([revisions EXCEPT ![r] = row], d)
        /\ Begin(a, writes) /\ clock \in Times /\ a \in Actors
    BY <1>0, IntroducesType, RevisionsOfType DEF ReviseDecision, Ready, IInv, BInv, TypeOK
  <1>2. body \in Bodies /\ body.by = NoDecision
    BY <1>0, <1>1, RevisedBodyHolds DEF BodyHolds, RevisedBody
  <1>3. /\ actor'[a].writes = writes
        /\ decisions' = decisions /\ revisions' = revisions
    BY <1>1 DEF Begin, Ready, IInv, BInv, TypeOK
  <1>4. Revising(a, d, r, row, body)'
    BY <1>1, <1>2, <1>3 DEF Revising, RevisedHolds
  <1>5. ActorHolds(a)'
    BY <1>1, <1>2, <1>4 DEF ActorHolds
  <1>6. Head(writes).to # "decision"
    BY <1>1, WriteKinds
  <1>7. QED
    BY <1>1, <1>5, <1>6, BeginHolds

LEMMA CrashHolds ==
  ASSUME IInv, BInv', NEW a \in Actors, Crash(a)
  PROVE  IInv'
  <1>1. /\ UNCHANGED <<decisions, revisions, journal>>
        /\ actor'[a] = Idle
        /\ \A b \in Actors \ {a} : actor'[b] = actor[b]
    BY DEF Crash, IInv, BInv, TypeOK
  <1>2. ActorHolds(a)'
    BY <1>1 DEF ActorHolds
  <1>3. \A d \in Decisions, t \in Times : ~Ends(a, d, t)'
    BY <1>1 DEF Ends
  <1>4. QED
    BY <1>1, <1>2, <1>3, QuietHolds

(* Where nothing but the clock moves.                                       *)
LEMMA TickHolds ==
  ASSUME IInv, BInv', UNCHANGED <<decisions, revisions, journal, actor>>
  PROVE  IInv'
  <1>1. Existing' = Existing /\ DecisionsHold' /\ RevisionsHold'
    BY DEF IInv, Existing, DecisionsHold, LinkHolds, Unrevised, RevisionsHold, ChainOf
  <1>2. \A e \in journal' : EventHolds(e)'
    BY <1>1 DEF IInv, EventHolds
  <1>3. \A a \in Actors : ActorHolds(a)'
    <2>1. \A d : ChainOf(revisions, d)' = ChainOf(revisions, d)
      BY DEF ChainOf
    <2>2. Grows /\ \A a \in Actors : Apart(a)
      BY <1>1, <2>1 DEF Grows, Apart, Unrevised
    <2>3. QED
      BY <2>2, ActorStays DEF IInv
  <1>4. CoverageHolds'
    <2>1. \A e, t : Stays(e, t)' <=> Stays(e, t)
      BY <1>1 DEF Stays, InEffect, Ends
    <2>2. QED
      BY <1>1, <2>1 DEF IInv, CoverageHolds, NoneRevised
  <1>5. QED
    BY <1>1, <1>2, <1>3, <1>4 DEF IInv

-----------------------------------------------------------------------------
(* What the next save does to the store, and what is left to save.          *)
LEMMA SaveEffect ==
  ASSUME BInv, NEW a \in Actors, Write(a), NEW w, w = Head(actor[a].writes)
  PROVE  /\ w.to = "decision" => decisions' = [decisions EXCEPT ![w.decision] = w.body]
         /\ w.to # "decision" => decisions' = decisions
         /\ w.to = "revision" => revisions' = [revisions EXCEPT ![w.revision] = w.row]
         /\ w.to # "revision" => revisions' = revisions
         /\ w.to = "journal" => journal' = journal \cup {w.entry}
         /\ w.to # "journal" => journal' = journal
         /\ clock' = clock
         /\ \A b \in Actors \ {a} : actor'[b] = actor[b]
         /\ Len(actor[a].writes) = 1 => actor'[a] = Idle
         /\ Len(actor[a].writes) # 1 => /\ actor'[a].since = actor[a].since
                                        /\ actor'[a].writes = Tail(actor[a].writes)
         /\ actor' \in [Actors -> [since : Times, writes : Seq(Writes)]]
  <1>1. /\ decisions' = IF w.to = "decision" THEN [decisions EXCEPT ![w.decision] = w.body]
                        ELSE decisions
        /\ revisions' = IF w.to = "revision" THEN [revisions EXCEPT ![w.revision] = w.row]
                        ELSE revisions
        /\ journal' = IF w.to = "journal" THEN journal \cup {w.entry} ELSE journal
        /\ clock' = clock
    BY DEF Write
  <1> DEFINE rest == IF Len(actor[a].writes) = 1 THEN Idle
                     ELSE [since |-> actor[a].since, writes |-> Tail(actor[a].writes)]
  <1>2. actor' = [actor EXCEPT ![a] = rest]
    BY DEF Write
  <1>3. /\ actor'[a] = rest
        /\ \A b \in Actors \ {a} : actor'[b] = actor[b]
    BY <1>2 DEF BInv, TypeOK
  <1>4. BInv'
    BY WriteKeepsBodies
  <1>5. QED
    BY <1>1, <1>3, <1>4 DEF BInv, TypeOK

LEMMA EventSaved ==
  ASSUME IInv, BInv', NEW a \in Actors, Write(a), NEW e \in Events, Announcing(a, e)
  PROVE  IInv'
  <1> DEFINE w == RecordEvent(e)
  <1>1. w = Head(actor[a].writes) /\ Len(actor[a].writes) = 1 /\ EventHolds(e)
    BY DEF Announcing
  <1>2. w.to = "journal" /\ w.entry = e
    BY WriteKinds
  <1>3. /\ decisions' = decisions /\ revisions' = revisions
        /\ journal' = journal \cup {e}
        /\ \A b \in Actors \ {a} : actor'[b] = actor[b]
        /\ actor'[a] = Idle
    BY <1>1, <1>2, SaveEffect DEF IInv
  <1>4. \A f \in journal' : f \in journal \/ EventHolds(f)'
    BY <1>1, <1>3 DEF EventHolds, Existing
  <1>5. ActorHolds(a)' /\ \A d \in Decisions, t \in Times : ~Ends(a, d, t)'
    BY <1>3 DEF ActorHolds, Ends
  <1>6. QED
    BY <1>3, <1>4, <1>5, QuietHolds

LEMMA ProposalSaved ==
  ASSUME IInv, BInv', NEW a \in Actors, Write(a), NEW p \in Proposals,
         NEW status \in ProposalStates, NEW e \in Events, MarkingProposal(a, p, status, e)
  PROVE  IInv'
  <1> DEFINE w == SaveProposal(p, status)
  <1>1. /\ w = Head(actor[a].writes) /\ Len(actor[a].writes) # 1
        /\ Tail(actor[a].writes) = <<RecordEvent(e)>> /\ EventHolds(e)
    BY DEF MarkingProposal
  <1>2. w.to = "proposal"
    BY WriteKinds
  <1>3. /\ decisions' = decisions /\ revisions' = revisions /\ journal' = journal
        /\ \A b \in Actors \ {a} : actor'[b] = actor[b]
        /\ actor'[a].writes = <<RecordEvent(e)>>
    BY <1>1, <1>2, SaveEffect DEF IInv
  <1>4. Announcing(a, e)'
    BY <1>1, <1>3 DEF Announcing, EventHolds, Existing
  <1>5. ActorHolds(a)'
    BY <1>4 DEF ActorHolds
  <1>6. \A d \in Decisions, t \in Times : ~Ends(a, d, t)'
    BY <1>3, WriteKinds DEF Ends
  <1>7. QED
    BY <1>3, <1>5, <1>6, QuietHolds

(* A decision that is not there yet is saved: no other decision changes,    *)
(* nobody ends the new one yet, and it is in effect from its beginning on.  *)
LEMMA NewSaved ==
  ASSUME IInv, DistinctIds, BInv', NEW a \in Actors, Write(a),
         NEW d \in Decisions, NEW body \in Bodies,
         Head(actor[a].writes) = SaveDecision(d, body), NewHolds(a, d, body)
  PROVE  /\ decisions' = [decisions EXCEPT ![d] = body]
         /\ revisions' = revisions /\ journal' = journal
         /\ Existing' = Existing \cup {d}
         /\ Grows
         /\ \A b \in Actors \ {a} : Apart(b)
         /\ \A t \in Times : body.from <= t => InEffect(d, t)'
         /\ \A b \in Actors \ {a}, t \in Times : ~Ends(b, d, t)
  <1> DEFINE w == SaveDecision(d, body)
  <1>1. w.to = "decision" /\ w.decision = d /\ w.body = body
    BY WriteKinds
  <1>2. /\ decisions' = [decisions EXCEPT ![d] = body]
        /\ revisions' = revisions /\ journal' = journal
    BY <1>1, SaveEffect DEF IInv
  <1>3. /\ decisions'[d] = body
        /\ \A e \in Decisions \ {d} : decisions'[e] = decisions[e]
    BY <1>2 DEF IInv, BInv, TypeOK
  <1>4. Existing' = Existing \cup {d}
    BY <1>3, BodyFields DEF Existing
  <1>5. \A e : ChainOf(revisions, e)' = ChainOf(revisions, e)
    BY <1>2 DEF ChainOf
  <1>6. Grows
    <2>1. \A e \in Existing : decisions'[e] = decisions[e]
      BY <1>3 DEF NewHolds, Existing
    <2>2. QED
      BY <1>2, <1>4, <1>5, <2>1 DEF Grows, Unrevised
  <1>7. \A b \in Actors \ {a} : Apart(b)
    <2>1. \A b \in Actors \ {a} : d \notin Introduces[b]
      BY DEF DistinctIds, NewHolds
    <2>2. QED
      BY <1>2, <1>4, <1>5, <2>1 DEF Apart
  <1>8. \A t \in Times : body.from <= t => InEffect(d, t)'
    BY <1>3, <1>4 DEF InEffect, NewHolds
  <1>9. \A b \in Actors \ {a}, t \in Times : ~Ends(b, d, t)
    BY EndsIsClosing DEF IInv, NewHolds
  <1>10. QED
    BY <1>2, <1>4, <1>6, <1>7, <1>8, <1>9

(* The rest of what such a save keeps.                                      *)
LEMMA NewHoldsOn ==
  ASSUME IInv, DistinctIds, BInv', NEW a \in Actors, Write(a),
         NEW d \in Decisions, NEW body \in Bodies,
         Head(actor[a].writes) = SaveDecision(d, body), NewHolds(a, d, body),
         ActorHolds(a)', CoverageHolds'
  PROVE  IInv'
  <1>1. /\ decisions' = [decisions EXCEPT ![d] = body]
        /\ revisions' = revisions /\ journal' = journal
        /\ Existing' = Existing \cup {d}
        /\ Grows
        /\ \A b \in Actors \ {a} : Apart(b)
    BY NewSaved
  <1>2. \A e \in Existing' :
          \/ e \in Existing /\ decisions'[e] = decisions[e]
          \/ /\ LinkHolds(e, decisions[e])'
             /\ Unrevised(e)' => decisions'[e].from # NoTime
    <2> SUFFICES ASSUME NEW e \in Existing'
                 PROVE  \/ e \in Existing /\ decisions'[e] = decisions[e]
                        \/ /\ LinkHolds(e, decisions[e])'
                           /\ Unrevised(e)' => decisions'[e].from # NoTime
      OBVIOUS
    <2>1. CASE e = d
      <3>1. decisions'[e] = body /\ body.by = NoDecision /\ body.from # NoTime
        BY <1>1, <2>1 DEF IInv, BInv, TypeOK, NewHolds
      <3>2. QED
        BY <3>1 DEF LinkHolds
    <2>2. CASE e # d
      BY <1>1, <2>2 DEF IInv, BInv, TypeOK, Existing
    <2>3. QED
      BY <2>1, <2>2
  <1>3. \A b \in Actors : ActorHolds(b)'
    <2>1. \A b \in Actors \ {a} : actor'[b] = actor[b]
      BY SaveEffect DEF IInv
    <2>2. QED
      BY <1>1, <2>1, ActorStays DEF IInv
  <1>4. IsFiniteSet(Existing)' /\ RevisionsHold'
    BY <1>1, FS_AddElement DEF IInv, RevisionsHold
  <1>5. QED
    BY <1>1, <1>2, <1>3, <1>4, StepHolds

LEMMA ConfirmedSaved ==
  ASSUME IInv, DistinctIds, BInv', NEW a \in Actors, Write(a),
         NEW p \in Proposals, NEW body \in Bodies, Confirming(a, p, body)
  PROVE  IInv'
  <1> DEFINE d == DecisionOf[p]
             e == [event |-> "confirmed", proposal |-> p]
  <1>1. /\ Head(actor[a].writes) = SaveDecision(d, body) /\ Len(actor[a].writes) # 1
        /\ Tail(actor[a].writes) = <<SaveProposal(p, "CONFIRMED"), RecordEvent(e)>>
        /\ NewHolds(a, d, body) /\ d \in Decisions
    BY DecisionOfType DEF Confirming
  <1>2. /\ decisions' = [decisions EXCEPT ![d] = body]
        /\ revisions' = revisions
        /\ Existing' = Existing \cup {d}
        /\ \A t \in Times : body.from <= t => InEffect(d, t)'
        /\ \A b \in Actors \ {a}, t \in Times : ~Ends(b, d, t)
    BY <1>1, NewSaved
  <1>3. /\ \A b \in Actors \ {a} : actor'[b] = actor[b]
        /\ actor'[a].writes = <<SaveProposal(p, "CONFIRMED"), RecordEvent(e)>>
    BY <1>1, SaveEffect DEF IInv
  <1>4. ActorHolds(a)'
    <2>1. e \in Events /\ EventHolds(e)' /\ "CONFIRMED" \in ProposalStates
      BY <1>2, EventKinds DEF EventHolds, ProposalStates
    <2>2. MarkingProposal(a, p, "CONFIRMED", e)'
      BY <1>3, <2>1 DEF MarkingProposal
    <2>3. QED
      BY <2>1, <2>2 DEF ActorHolds
  <1>5. \A c \in Decisions, t \in Times : ~Ends(a, c, t)'
    <2>1. "CONFIRMED" \in ProposalStates
      BY DEF ProposalStates
    <2>2. QED
      BY <1>3, <2>1, WriteKinds DEF Ends
  <1>6. CoverageHolds'
    <2> SUFFICES ASSUME NoneRevised, NEW c \in Existing', NEW t \in Times,
                        decisions'[c].from <= t
                 PROVE  \E f \in Existing' : Stays(f, t)'
      BY <1>2 DEF CoverageHolds, NoneRevised
    <2>1. CASE c = d
      <3>1. decisions'[c] = body
        BY <1>1, <1>2, <2>1 DEF IInv, BInv, TypeOK
      <3>2. InEffect(d, t)'
        BY <1>2, <3>1
      <3>3. \A b \in Actors : ~Ends(b, d, t)'
        BY <1>1, <1>2, <1>3, <1>5 DEF Ends
      <3>4. QED
        BY <1>2, <3>2, <3>3 DEF Stays
    <2>2. CASE c # d
      <3>1. c \in Existing /\ decisions'[c] = decisions[c]
        BY <1>2, <2>2 DEF IInv, BInv, TypeOK, Existing
      <3>2. PICK f \in Existing : Stays(f, t)
        BY <3>1 DEF IInv, CoverageHolds
      <3>3. f \in Decisions /\ f # d /\ decisions'[f] = decisions[f]
        BY <1>1, <1>2 DEF NewHolds, Existing, IInv, BInv, TypeOK
      <3>4. InEffect(f, t)'
        BY <1>2, <3>2, <3>3 DEF Stays, InEffect
      <3>5. Stays(f, t)'
        BY <1>3, <1>5, <3>2, <3>3, <3>4, StaysOn
      <3>6. QED
        BY <1>2, <3>5
    <2>3. QED
      BY <2>1, <2>2
  <1>7. QED
    BY <1>1, <1>4, <1>6, NewHoldsOn

(* The replacement is there before the end of the replaced one is saved, so *)
(* the end leaves nothing uncovered.                                        *)
LEMMA ReplacementSaved ==
  ASSUME IInv, DistinctIds, BInv', NEW a \in Actors, Write(a),
         NEW d \in Decisions, NEW old \in Decisions,
         NEW newBody \in Bodies, NEW body \in Bodies, Replacing(a, d, newBody, old, body)
  PROVE  IInv'
  <1> DEFINE e == SupersededEvent(old, d)
  <1>1. /\ Head(actor[a].writes) = SaveDecision(d, newBody) /\ Len(actor[a].writes) # 1
        /\ Tail(actor[a].writes) = <<SaveDecision(old, body), RecordEvent(e)>>
        /\ NewHolds(a, d, newBody)
        /\ newBody.supersedes = old /\ newBody.from = body.until
        /\ ClosingHolds(a, old, body, d)
        /\ old \in Existing /\ old # d
    BY DEF Replacing, NewHolds, ClosingHolds
  <1>2. /\ decisions' = [decisions EXCEPT ![d] = newBody]
        /\ revisions' = revisions
        /\ Existing' = Existing \cup {d}
        /\ Grows
        /\ \A t \in Times : newBody.from <= t => InEffect(d, t)'
        /\ \A b \in Actors \ {a}, t \in Times : ~Ends(b, d, t)
    BY <1>1, NewSaved
  <1>3. /\ \A b \in Actors \ {a} : actor'[b] = actor[b]
        /\ actor'[a].writes = <<SaveDecision(old, body), RecordEvent(e)>>
        /\ actor'[a].since = actor[a].since
    BY <1>1, SaveEffect DEF IInv
  <1>4. ActorHolds(a)'
    <2>1. ClosingHolds(a, old, body, d)'
      BY <1>1, <1>2, <1>3, ClosingStays
    <2>2. decisions'[d] = newBody /\ body.by = d /\ d \in Existing'
      BY <1>1, <1>2 DEF IInv, BInv, TypeOK, ClosingHolds
    <2>3. LinkHolds(old, body)'
      BY <1>1, <2>2 DEF LinkHolds
    <2>4. ClosingOld(a, old, body, d)'
      BY <1>3, <2>1, <2>3 DEF ClosingOld
    <2>5. QED
      BY <2>4 DEF ActorHolds
  <1>5. \A c \in Decisions, t \in Times : Ends(a, c, t)' => c = old /\ body.until <= t
    BY <1>3, WriteKinds DEF Ends
  <1>6. CoverageHolds'
    <2> SUFFICES ASSUME NoneRevised, NEW c \in Existing', NEW t \in Times,
                        decisions'[c].from <= t
                 PROVE  \E f \in Existing' : Stays(f, t)'
      BY <1>2 DEF CoverageHolds, NoneRevised
    <2>1. ASSUME newBody.from <= t PROVE Stays(d, t)'
      <3>1. InEffect(d, t)'
        BY <1>2, <2>1
      <3>2. \A b \in Actors : ~Ends(b, d, t)'
        BY <1>1, <1>2, <1>3, <1>5 DEF Ends
      <3>3. QED
        BY <3>1, <3>2 DEF Stays
    <2>2. CASE newBody.from <= t
      BY <1>2, <2>1, <2>2
    <2>3. CASE ~(newBody.from <= t)
      <3>1. c \in Existing /\ decisions'[c] = decisions[c]
        BY <1>2, <2>3 DEF IInv, BInv, TypeOK, Existing
      <3>2. PICK f \in Existing : Stays(f, t)
        BY <3>1 DEF IInv, CoverageHolds
      <3>3. f \in Decisions /\ f # d /\ decisions'[f] = decisions[f]
        BY <1>1, <1>2 DEF NewHolds, Existing, IInv, BInv, TypeOK
      <3>4. InEffect(f, t)'
        BY <1>2, <3>2, <3>3 DEF Stays, InEffect
      <3>5. ~Ends(a, f, t)'
        BY <1>1, <1>5, <2>3, <3>3
      <3>6. Stays(f, t)'
        BY <1>3, <3>2, <3>4, <3>5, StaysOn
      <3>7. QED
        BY <1>2, <3>6
    <2>4. QED
      BY <2>2, <2>3
  <1>7. QED
    BY <1>1, <1>4, <1>6, NewHoldsOn

(* A decision that is there is saved with another body.                     *)
LEMMA OldSaved ==
  ASSUME IInv, BInv', NEW a \in Actors, Write(a),
         NEW d \in Existing, NEW body \in Bodies,
         Head(actor[a].writes) = SaveDecision(d, body)
  PROVE  /\ decisions'[d] = body
         /\ \A e \in Decisions \ {d} : decisions'[e] = decisions[e]
         /\ revisions' = revisions /\ journal' = journal
         /\ Existing' = Existing
         /\ \A e : ChainOf(revisions, e)' = ChainOf(revisions, e)
         /\ \A b \in Actors : Apart(b)
  <1>0. d \in Decisions
    BY DEF Existing
  <1>1. /\ SaveDecision(d, body).to = "decision" /\ SaveDecision(d, body).decision = d
        /\ SaveDecision(d, body).body = body
    BY <1>0, WriteKinds
  <1>2. /\ decisions' = [decisions EXCEPT ![d] = body]
        /\ revisions' = revisions /\ journal' = journal
    BY <1>1, SaveEffect DEF IInv
  <1>3. /\ decisions'[d] = body
        /\ \A e \in Decisions \ {d} : decisions'[e] = decisions[e]
    BY <1>0, <1>2 DEF IInv, BInv, TypeOK
  <1>4. Existing' = Existing
    BY <1>3, BodyFields DEF Existing
  <1>5. \A e : ChainOf(revisions, e)' = ChainOf(revisions, e)
    BY <1>2 DEF ChainOf
  <1>6. \A b \in Actors : Apart(b)
    BY <1>2, <1>4, <1>5 DEF Apart
  <1>7. QED
    BY <1>2, <1>3, <1>4, <1>5, <1>6

LEMMA EndSaved ==
  ASSUME IInv, BInv', NEW a \in Actors, Write(a), NEW old \in Decisions, NEW new \in Decisions,
         NEW body \in Bodies, ClosingOld(a, old, body, new)
  PROVE  IInv'
  <1> DEFINE e == SupersededEvent(old, new)
  <1>1. /\ Head(actor[a].writes) = SaveDecision(old, body) /\ Len(actor[a].writes) # 1
        /\ Tail(actor[a].writes) = <<RecordEvent(e)>>
        /\ ClosingHolds(a, old, body, new) /\ LinkHolds(old, body)
        /\ old \in Existing /\ body.by = new /\ new # NoDecision /\ body.until # NoTime
        /\ actor[a] # Idle
    BY SentinelsAreNone DEF ClosingOld, ClosingHolds, Write
  <1>2. /\ decisions'[old] = body
        /\ \A d \in Decisions \ {old} : decisions'[d] = decisions[d]
        /\ revisions' = revisions /\ journal' = journal /\ Existing' = Existing
        /\ \A d : ChainOf(revisions, d)' = ChainOf(revisions, d)
        /\ \A b \in Actors : Apart(b)
    BY <1>1, OldSaved
  <1>3. Grows
    BY <1>1, <1>2 DEF Grows, Unrevised, ClosingHolds, Existing
  <1>4. /\ \A b \in Actors \ {a} : actor'[b] = actor[b]
        /\ actor'[a].writes = <<RecordEvent(e)>>
    BY <1>1, SaveEffect DEF IInv
  <1>5. LinkHolds(old, decisions[old])'
    <2>1. LinkHolds(old, body)'
      BY <1>1, <1>3, LinkStays
    <2>2. QED
      BY <1>2, <2>1 DEF LinkHolds
  <1>6. Unrevised(old)' => decisions'[old].from # NoTime
    BY <1>1, <1>2 DEF Unrevised, ClosingHolds, IInv, DecisionsHold
  <1>7. e \in Events /\ EventHolds(e)'
    <2>1. new \in Existing'
      BY <1>1, <1>2 DEF LinkHolds
    <2>2. QED
      BY <2>1, EventKinds DEF EventHolds, SupersededEvent
  <1>8. Announcing(a, e)'
    BY <1>4, <1>7 DEF Announcing
  <1>9. \A b \in Actors : ActorHolds(b)'
    <2>1. ActorHolds(a)'
      BY <1>7, <1>8 DEF ActorHolds
    <2>2. QED
      BY <1>2, <1>3, <1>4, <2>1, ActorStays DEF IInv
  <1>10. \A d \in Decisions, t \in Times : ~Ends(a, d, t)'
    BY <1>4, <1>7, WriteKinds DEF Ends
  <1>11. CoverageHolds'
    <2> SUFFICES ASSUME NoneRevised, NEW c \in Existing, NEW t \in Times,
                        decisions'[c].from <= t
                 PROVE  \E f \in Existing : Stays(f, t)'
      BY <1>2 DEF CoverageHolds, NoneRevised
    <2>0. \A d \in Decisions : Unrevised(d) /\ Unrevised(d)'
      BY <1>2 DEF NoneRevised, Unrevised, ChainOf
    <2>1. decisions'[c].from = decisions[c].from
      BY <1>3, <2>0 DEF Grows, Existing
    <2>2. PICK f \in Existing : Stays(f, t)
      BY <2>1 DEF IInv, CoverageHolds
    <2>3. InEffect(f, t)'
      <3>1. CASE f = old
        <4>1. ~Ends(a, old, t)
          BY <2>2, <3>1 DEF Stays
        <4>2. ~(body.until <= t)
          BY <1>1, <4>1, WriteKinds DEF Ends
        <4>3. t < body.until
          BY <1>1, <4>2, BodyFields, TimeFacts
        <4>4. body.from = decisions[old].from
          BY <1>1, <2>0 DEF ClosingHolds
        <4>5. QED
          BY <1>2, <2>2, <3>1, <4>3, <4>4 DEF Stays, InEffect
      <3>2. CASE f # old
        BY <1>2, <2>2, <3>2 DEF Stays, InEffect, Existing
      <3>3. QED
        BY <3>1, <3>2
    <2>4. Stays(f, t)'
      BY <1>4, <1>10, <2>2, <2>3, StaysOn DEF Existing
    <2>5. QED
      BY <2>4
  <1>12. IsFiniteSet(Existing)' /\ RevisionsHold'
    BY <1>2 DEF IInv, RevisionsHold
  <1>13. \A d \in Existing' :
           \/ d \in Existing /\ decisions'[d] = decisions[d]
           \/ /\ LinkHolds(d, decisions[d])'
              /\ Unrevised(d)' => decisions'[d].from # NoTime
    BY <1>2, <1>5, <1>6 DEF Existing
  <1>14. QED
    BY <1>2, <1>3, <1>9, <1>11, <1>12, <1>13, StepHolds

(* The body of a decision that is under revision is saved.                  *)
LEMMA RevisedSaved ==
  ASSUME IInv, DistinctIds, BInv', NEW a \in Actors, Write(a), NEW d \in Decisions,
         NEW body \in Bodies, NEW r \in RevisionIds, RevisingBody(a, d, body, r)
  PROVE  IInv'
  <1> DEFINE e == [event |-> "revised", revision |-> r]
  <1>1. /\ Head(actor[a].writes) = SaveDecision(d, body) /\ Len(actor[a].writes) # 1
        /\ Tail(actor[a].writes) = <<RecordEvent(e)>>
        /\ d \in Introduces[a] /\ body.by = NoDecision
        /\ r \in ChainOf(revisions, d)
    BY DEF RevisingBody, RevisedHolds
  <1>2. /\ SaveDecision(d, body).to = "decision" /\ SaveDecision(d, body).decision = d
        /\ SaveDecision(d, body).body = body
    BY WriteKinds
  <1>3. /\ decisions' = [decisions EXCEPT ![d] = body]
        /\ revisions' = revisions /\ journal' = journal
        /\ \A b \in Actors \ {a} : actor'[b] = actor[b]
        /\ actor'[a].writes = <<RecordEvent(e)>>
    BY <1>1, <1>2, SaveEffect DEF IInv
  <1>4. /\ decisions'[d] = body
        /\ \A c \in Decisions \ {d} : decisions'[c] = decisions[c]
    BY <1>3 DEF IInv, BInv, TypeOK
  <1>5. Existing' = Existing \cup {d}
    BY <1>4, BodyFields DEF Existing
  <1>6. /\ \A c : ChainOf(revisions, c)' = ChainOf(revisions, c)
        /\ ~Unrevised(d) /\ ~Unrevised(d)'
        /\ revisions[r] # NoRevision
    BY <1>1, <1>3 DEF ChainOf, Unrevised
  <1>7. Grows
    <2>1. \A c \in Existing : Unrevised(c)' => Unrevised(c) /\ decisions'[c] = decisions[c]
      BY <1>4, <1>6 DEF Unrevised, Existing
    <2>2. QED
      BY <1>3, <1>5, <2>1 DEF Grows
  <1>8. \A b \in Actors \ {a} : Apart(b)
    <2>1. \A b \in Actors \ {a} : d \notin Introduces[b]
      BY <1>1 DEF DistinctIds
    <2>2. QED
      BY <1>3, <1>5, <1>6, <2>1 DEF Apart
  <1>9. \A b \in Actors : ActorHolds(b)'
    <2>1. e \in Events /\ EventHolds(e)'
      BY <1>3, <1>6, EventKinds DEF EventHolds
    <2>2. Announcing(a, e)'
      BY <1>3, <2>1 DEF Announcing
    <2>3. ActorHolds(a)'
      BY <2>1, <2>2 DEF ActorHolds
    <2>4. QED
      BY <1>3, <1>7, <1>8, <2>3, ActorStays DEF IInv
  <1>10. CoverageHolds'
    <2>1. revisions'[r] # NoRevision
      BY <1>3, <1>6
    <2>2. QED
      BY <2>1 DEF CoverageHolds, NoneRevised
  <1>11. IsFiniteSet(Existing)' /\ RevisionsHold'
    BY <1>3, <1>5, FS_AddElement DEF IInv, RevisionsHold
  <1>12. \A c \in Existing' :
           \/ c \in Existing /\ decisions'[c] = decisions[c]
           \/ /\ LinkHolds(c, decisions[c])'
              /\ Unrevised(c)' => decisions'[c].from # NoTime
    <2>1. LinkHolds(d, decisions[d])'
      BY <1>1, <1>4 DEF LinkHolds
    <2>2. QED
      BY <1>4, <1>5, <1>6, <2>1 DEF Existing
  <1>13. QED
    BY <1>3, <1>7, <1>9, <1>10, <1>11, <1>12, StepHolds

(* A revision joins the chain of its decision and no other.                 *)
LEMMA RevisionJoins ==
  ASSUME IInv, DistinctIds, BInv', NEW a \in Actors, Write(a), NEW d \in Decisions,
         NEW r \in RevisionIds, NEW row \in Revisions, NEW body \in Bodies,
         Revising(a, d, r, row, body)
  PROVE  /\ revisions[r] = NoRevision
         /\ revisions' = [revisions EXCEPT ![r] = row]
         /\ decisions' = decisions /\ journal' = journal
         /\ ChainOf(revisions, d)' = ChainOf(revisions, d) \cup {r}
         /\ \A q \in RevisionIds \ {r} : revisions'[q] = revisions[q]
         /\ \A c \in Decisions \ {d} : r \notin ChainOf(revisions, c)
         /\ \A c \in Decisions \ {d} : ChainOf(revisions, c)' = ChainOf(revisions, c)
  <1>1. /\ Head(actor[a].writes) = SaveRevision(r, row)
        /\ row.decision = d /\ row # NoRevision
        /\ r \in RevisionsOf[d] /\ r \notin ChainOf(revisions, d)
    BY AbsentIsNone DEF Revising
  <1>2. /\ SaveRevision(r, row).to = "revision" /\ SaveRevision(r, row).revision = r
        /\ SaveRevision(r, row).row = row
    BY WriteKinds DEF SaveRevision
  <1>3. /\ decisions' = decisions /\ journal' = journal
        /\ revisions' = [revisions EXCEPT ![r] = row]
    BY <1>1, <1>2, SaveEffect DEF IInv
  <1>4. /\ revisions'[r] = row
        /\ \A q \in RevisionIds \ {r} : revisions'[q] = revisions[q]
    BY <1>3 DEF IInv, BInv, TypeOK
  <1>5. revisions[r] = NoRevision
    <2> SUFFICES ASSUME revisions[r] # NoRevision PROVE FALSE
      OBVIOUS
    <2>1. /\ revisions[r].decision \in Decisions
          /\ r \in RevisionsOf[revisions[r].decision]
      BY DEF IInv, BInv, TypeOK, Revisions, RevisionsHold
    <2>2. revisions[r].decision = d
      BY <1>1, <2>1 DEF DistinctIds
    <2>3. QED
      BY <1>1, <2>2 DEF ChainOf
  <1>6. \A c \in Decisions \ {d} : r \notin ChainOf(revisions, c)
    BY <1>5 DEF ChainOf
  <1>7. \A c \in Decisions \ {d} : ChainOf(revisions, c)' = ChainOf(revisions, c)
    <2> SUFFICES ASSUME NEW c \in Decisions \ {d}, NEW q \in RevisionIds
                 PROVE  q \in ChainOf(revisions, c)' <=> q \in ChainOf(revisions, c)
      BY DEF ChainOf
    <2>1. QED
      BY <1>1, <1>4, <1>5 DEF ChainOf
  <1>8. ChainOf(revisions, d)' = ChainOf(revisions, d) \cup {r}
    BY <1>1, <1>4 DEF ChainOf
  <1>9. QED
    BY <1>3, <1>4, <1>5, <1>6, <1>7, <1>8

LEMMA RevisionSaved ==
  ASSUME IInv, DistinctIds, BInv', NEW a \in Actors, Write(a), NEW d \in Decisions,
         NEW r \in RevisionIds, NEW row \in Revisions, NEW body \in Bodies,
         Revising(a, d, r, row, body)
  PROVE  IInv'
  <1> DEFINE e == [event |-> "revised", revision |-> r]
  <1>1. /\ Head(actor[a].writes) = SaveRevision(r, row) /\ Len(actor[a].writes) # 1
        /\ Tail(actor[a].writes) = <<SaveDecision(d, body), RecordEvent(e)>>
        /\ row.decision = d /\ row # NoRevision
        /\ r \in RevisionsOf[d]
        /\ d \in Introduces[a] /\ body.by = NoDecision
    BY AbsentIsNone DEF Revising, RevisedHolds
  <1>2. /\ revisions[r] = NoRevision
        /\ revisions' = [revisions EXCEPT ![r] = row]
        /\ decisions' = decisions /\ journal' = journal
        /\ ChainOf(revisions, d)' = ChainOf(revisions, d) \cup {r}
        /\ \A q \in RevisionIds \ {r} : revisions'[q] = revisions[q]
        /\ \A c \in Decisions \ {d} : r \notin ChainOf(revisions, c)
        /\ \A c \in Decisions \ {d} : ChainOf(revisions, c)' = ChainOf(revisions, c)
    BY RevisionJoins
  <1>3. /\ \A b \in Actors \ {a} : actor'[b] = actor[b]
        /\ actor'[a].writes = <<SaveDecision(d, body), RecordEvent(e)>>
    <2>1. SaveRevision(r, row).to = "revision"
      BY WriteKinds
    <2>2. QED
      BY <1>1, <2>1, SaveEffect DEF IInv
  <1>4. Existing' = Existing /\ revisions'[r] = row
    BY <1>2 DEF Existing, IInv, BInv, TypeOK
  <1>5. \A c \in Decisions : Unrevised(c)' => Unrevised(c)
    BY <1>2 DEF Unrevised
  <1>6. Grows
    BY <1>1, <1>2, <1>4, <1>5 DEF Grows, Existing
  <1>7. \A b \in Actors \ {a} : Apart(b)
    <2>1. \A b \in Actors \ {a} : d \notin Introduces[b] /\ Introduces[b] \subseteq Decisions
      BY <1>1, IntroducesType DEF DistinctIds
    <2>2. \A c \in Decisions : ChainOf(revisions, c) \subseteq RevisionIds
      BY ChainFields
    <2>3. QED
      BY <1>2, <1>4, <2>1, <2>2 DEF Apart
  <1>8. \A b \in Actors : ActorHolds(b)'
    <2>1. RevisingBody(a, d, body, r)'
      BY <1>1, <1>2, <1>3 DEF RevisingBody, RevisedHolds
    <2>2. ActorHolds(a)'
      BY <2>1 DEF ActorHolds
    <2>3. QED
      BY <1>3, <1>6, <1>7, <2>2, ActorStays DEF IInv
  <1>9. CoverageHolds'
    BY <1>1, <1>4 DEF CoverageHolds, NoneRevised
  <1>10. RevisionsHold'
    BY <1>1, <1>2, <1>4 DEF RevisionsHold, IInv
  <1>11. QED
    BY <1>2, <1>4, <1>6, <1>8, <1>9, <1>10, StepHolds DEF IInv

-----------------------------------------------------------------------------
LEMMA IInvInit ==
  ASSUME Init
  PROVE  IInv
  <1>1. BInv
    BY BodiesInit
  <1>2. /\ decisions = [d \in Decisions |-> IF d \in Seeded THEN NewBody(0, NoDecision)
                                           ELSE NoDecision]
        /\ revisions = [r \in RevisionIds |-> NoRevision]
        /\ journal = {}
        /\ actor = [a \in Actors |-> Idle]
        /\ clock \in Times
    BY <1>1 DEF Init, BInv, TypeOK
  <1>3. /\ NewBody(0, NoDecision) \in Bodies
        /\ NewBody(0, NoDecision).from = 0
        /\ NewBody(0, NoDecision).until = NoTime
        /\ NewBody(0, NoDecision).by = NoDecision
    BY <1>2, NewBodyHolds, TimeFacts DEF NewBody, BodyHolds, MaybeDecision
  <1>4. Existing = Seeded
    BY <1>2, <1>3, AbsentIsNone, SeededType DEF Existing
  <1>5. \A d \in Existing : decisions[d] = NewBody(0, NoDecision)
    BY <1>2, <1>4, SeededType
  <1>6. DecisionsHold
    BY <1>3, <1>5, TimeFacts DEF DecisionsHold, LinkHolds
  <1>7. RevisionsHold
    BY <1>2 DEF RevisionsHold
  <1>8. \A a \in Actors : ActorHolds(a)
    BY <1>2 DEF ActorHolds
  <1>9. CoverageHolds
    <2>1. ASSUME NEW d \in Existing, NEW t \in Times, decisions[d].from <= t PROVE Stays(d, t)
      BY <1>2, <1>3, <1>5, <2>1, TimeFacts DEF Stays, InEffect, Ends
    <2>2. QED
      BY <2>1 DEF CoverageHolds
  <1>10. QED
    BY <1>1, <1>2, <1>4, <1>6, <1>7, <1>8, <1>9, SeededType DEF IInv

LEMMA SaveHolds ==
  ASSUME IInv, DistinctIds, BInv', NEW a \in Actors, Write(a)
  PROVE  IInv'
  <1>1. ActorHolds(a) /\ actor[a] # Idle
    BY DEF IInv, Write
  <1>2. QED
    BY <1>1, EventSaved, ProposalSaved, EndSaved, RevisedSaved, ConfirmedSaved,
       ReplacementSaved, RevisionSaved DEF ActorHolds

LEMMA IInvStep ==
  ASSUME IInv, DistinctIds, [Next]_vars
  PROVE  IInv'
  <1>1. BInv'
    BY BodiesStep DEF IInv
  <1>2. CASE Propose
    BY <1>1, <1>2, ProposalsHold DEF Propose
  <1>3. CASE Confirm
    BY <1>1, <1>3, ConfirmationHolds DEF Confirm
  <1>4. CASE Reject
    BY <1>1, <1>4, ProposalsHold DEF Reject
  <1>5. CASE Replace
    BY <1>1, <1>5, ReplacementHolds DEF Replace
  <1>6. CASE Revise
    <2>0. PICK a \in Ready : \E d \in Introduces[a] : \E r \in RevisionsOf[d], eff \in Times,
                 parent \in RevisionsOf[d] \cup {NoRevision}, dated \in BOOLEAN :
            ReviseDecision(a, d, r, [decision |-> d, eff |-> eff, parent |-> parent], dated)
      BY <1>6 DEF Revise
    <2>1. PICK d \in Introduces[a] : \E r \in RevisionsOf[d], eff \in Times,
                 parent \in RevisionsOf[d] \cup {NoRevision}, dated \in BOOLEAN :
            ReviseDecision(a, d, r, [decision |-> d, eff |-> eff, parent |-> parent], dated)
      BY <2>0
    <2>2. PICK r \in RevisionsOf[d], eff \in Times,
               parent \in RevisionsOf[d] \cup {NoRevision}, dated \in BOOLEAN :
            ReviseDecision(a, d, r, [decision |-> d, eff |-> eff, parent |-> parent], dated)
      BY <2>1
    <2>3. a \in Actors /\ d \in Decisions /\ RevisionsOf[d] \subseteq RevisionIds
      BY IntroducesType, RevisionsOfType DEF Ready
    <2>4. [decision |-> d, eff |-> eff, parent |-> parent] \in Revisions
      BY <2>3 DEF Revisions
    <2>5. QED
      BY <1>1, <2>2, <2>4, RevisionHolds
  <1>7. ASSUME NEW a \in Actors, Write(a) PROVE IInv'
    BY <1>1, <1>7, SaveHolds
  <1>8. ASSUME NEW a \in Actors, Crash(a) PROVE IInv'
    BY <1>1, <1>8, CrashHolds
  <1>9. CASE Tick \/ UNCHANGED vars
    BY <1>1, <1>9, TickHolds DEF Tick, vars
  <1>10. QED
    BY <1>2, <1>3, <1>4, <1>5, <1>6, <1>7, <1>8, <1>9 DEF Next

LEMMA IInvInvariant ==
  ASSUME DistinctIds
  PROVE  Spec => []IInv
  <1>1. IInv /\ [Next]_vars => IInv'
    BY IInvStep
  <1>2. QED
    BY <1>1, IInvInit, PTL DEF Spec

(* Whatever operations run and wherever they die, a decision that names its *)
(* successor has one, and an unrevised successor names it back and begins   *)
(* when it ends; and nothing is journaled before it is saved.  A decision   *)
(* that names a predecessor need not be named by it: after a crash, or a    *)
(* race, it is not.  Assumed is that no two processes and no two decisions  *)
(* share an id.  (record_replacement_decision, confirm_decision_proposal)   *)
THEOREM SupersessionsAreMutual ==
  ASSUME DistinctIds
  PROVE  Spec => []LinksAreMutual
  <1>1. IInv => LinksAreMutual
    BY DEF IInv, DecisionsHold, LinkHolds, Unrevised, EventHolds, LinksAreMutual
  <1>2. QED
    BY <1>1, IInvInvariant, PTL
-----------------------------------------------------------------------------
(* Finitely many things in a total order have a greatest.                   *)
LEMMA GreatestExists ==
  ASSUME NEW S, IsFiniteSet(S), S # {}, NEW R,
         \A x, y \in S : <<x, y>> \in R \/ <<y, x>> \in R,
         \A x, y, z \in S : <<x, y>> \in R /\ <<y, z>> \in R => <<x, z>> \in R
  PROVE  \E m \in S : \A x \in S : <<m, x>> \in R
  <1> DEFINE Headless == {T \in SUBSET S : T # {} /\ ~\E m \in T : \A x \in T : <<m, x>> \in R}
  <1>1. SUFFICES ASSUME Headless # {} PROVE FALSE
    OBVIOUS
  <1>2. PICK T \in Headless : \A U \in Headless : <<U, T>> \notin StrictSubsetOrdering(S)
    <2>1. Headless \subseteq FiniteSubsetsOf(S)
      BY FS_Subset DEF FiniteSubsetsOf
    <2>2. IsWellFoundedOn(StrictSubsetOrdering(S), FiniteSubsetsOf(S))
      BY FS_StrictSubsetOrderingWellFounded
    <2> HIDE DEF Headless
    <2>3. QED
      BY <1>1, <2>1, <2>2, WFMin
  <1>3. PICK x \in T : TRUE
    OBVIOUS
  <1>4. T \ {x} # {}
    OBVIOUS
  <1>5. PICK m \in T \ {x} : \A y \in T \ {x} : <<m, y>> \in R
    <2>1. <<T \ {x}, T>> \in StrictSubsetOrdering(S)
      BY <1>3 DEF StrictSubsetOrdering
    <2>2. QED
      BY <1>2, <1>4, <2>1
  <1>6. CASE <<m, x>> \in R
    BY <1>5, <1>6
  <1>7. CASE <<x, m>> \in R
    <2>1. \A y \in T : <<x, y>> \in R
      BY <1>3, <1>5, <1>7
    <2>2. QED
      BY <1>3, <2>1
  <1>8. QED
    BY <1>3, <1>5, <1>6, <1>7

(* The order in which decisions govern is total, and has no ties.           *)
LEMMA OutranksOrders ==
  ASSUME BInv
  PROVE  /\ \A d, e \in Existing : Outranks(d, e) \/ Outranks(e, d)
         /\ \A d, e \in Existing : Outranks(d, e) /\ Outranks(e, d) => d = e
         /\ \A d, e, f \in Existing : Outranks(d, e) /\ Outranks(e, f) => Outranks(d, f)
  <1>1. \A d \in Existing : /\ d \in Nat
                            /\ OrZero(decisions[d].from) \in Nat
                            /\ OrZero(decisions[d].recorded) \in Nat
    <2> SUFFICES ASSUME NEW d \in Existing
                 PROVE  /\ d \in Nat
                        /\ OrZero(decisions[d].from) \in Nat
                        /\ OrZero(decisions[d].recorded) \in Nat
      OBVIOUS
    <2>1. decisions[d] \in Bodies /\ d \in Nat
      BY DecisionsAreOrdered DEF BInv, BodiesHold, BodyHolds, Existing
    <2>2. QED
      BY <2>1, BodyFields, TimeFacts DEF OrZero
  <1>2. QED
    BY <1>1 DEF Outranks

LEMMA GoverningIsGreatest ==
  ASSUME BInv, NEW S \in SUBSET Existing, IsFiniteSet(S), S # {}
  PROVE  /\ Governing(S) \in S
         /\ Governing(S) # NoDecision
         /\ \A e \in S : Outranks(Governing(S), e)
  <1> DEFINE R == {x \in S \X S : Outranks(x[1], x[2])}
  <1>1. \A d, e \in S : <<d, e>> \in R <=> Outranks(d, e)
    OBVIOUS
  <1>2. /\ \A d, e \in S : <<d, e>> \in R \/ <<e, d>> \in R
        /\ \A d, e, f \in S : <<d, e>> \in R /\ <<e, f>> \in R => <<d, f>> \in R
    <2> HIDE DEF R
    <2>1. QED
      BY <1>1, OutranksOrders
  <1> HIDE DEF R
  <1>3. \E d \in S : \A e \in S : Outranks(d, e)
    BY <1>1, <1>2, GreatestExists
  <1>4. Governing(S) \in S /\ \A e \in S : Outranks(Governing(S), e)
    BY <1>3 DEF Governing
  <1>5. QED
    BY <1>4, SentinelsAreNone DEF Existing

(* A save that changes the decisions, as long as nothing is revised: it     *)
(* brings a new decision or ends one that is there.                         *)
LEMMA DecisionsChange ==
  ASSUME IInv, DistinctIds, [Next]_vars, NoneRevised', decisions' # decisions
  PROVE  \E a \in Actors, d \in Decisions, body \in Bodies :
           /\ actor[a] # Idle
           /\ decisions'[d] = body
           /\ \A e \in Decisions \ {d} : decisions'[e] = decisions[e]
           /\ NoneRevised /\ d \in Existing'
           /\ NewHolds(a, d, body) \/ \E new \in Decisions : ClosingHolds(a, d, body, new)
  <1>1. PICK a \in Actors : Write(a)
    <2>1. \A a, writes : Begin(a, writes) => decisions' = decisions
      BY DEF Begin
    <2>2. ~Propose /\ ~Confirm /\ ~Reject
      BY <2>1 DEF Propose, Confirm, Reject, RecordProposal, ConfirmProposal, RejectProposal
    <2>3. ~Replace /\ ~Revise
      <3>1. \A b, old, new, from : ReplaceDecision(b, old, new, from) => decisions' = decisions
        BY <2>1 DEF ReplaceDecision
      <3>2. \A b, d, r, row, dated : ReviseDecision(b, d, r, row, dated) => decisions' = decisions
        BY <2>1 DEF ReviseDecision
      <3>3. QED
        BY <3>1, <3>2 DEF Replace, Revise
    <2>4. ~Tick
      BY DEF Tick
    <2>5. \A a \in Actors : ~Crash(a)
      BY DEF Crash
    <2>6. ~UNCHANGED vars
      BY DEF vars
    <2>7. QED
      BY <2>2, <2>3, <2>4, <2>5, <2>6 DEF Next
  <1>2. BInv' /\ ActorHolds(a) /\ actor[a] # Idle
    BY <1>1, BodiesStep DEF IInv, Write
  <1> DEFINE w == Head(actor[a].writes)
  <1>3. w.to = "decision" /\ decisions' = [decisions EXCEPT ![w.decision] = w.body]
    BY <1>1, SaveEffect DEF IInv
  <1>4. revisions' = revisions /\ NoneRevised
    <2>1. revisions' = revisions
      BY <1>1, <1>3, SaveEffect DEF IInv
    <2>2. QED
      BY <2>1 DEF NoneRevised
  <1>5. ASSUME NEW d \in Decisions, NEW body \in Bodies, w = SaveDecision(d, body),
               NewHolds(a, d, body) \/ \E new \in Decisions : ClosingHolds(a, d, body, new)
        PROVE  \E c \in Decisions, b \in Bodies :
                 /\ decisions'[c] = b
                 /\ \A e \in Decisions \ {c} : decisions'[e] = decisions[e]
                 /\ c \in Existing'
                 /\ NewHolds(a, c, b) \/ \E new \in Decisions : ClosingHolds(a, c, b, new)
    <2>1. decisions' = [decisions EXCEPT ![d] = body]
      <3>1. SaveDecision(d, body).decision = d /\ SaveDecision(d, body).body = body
        BY WriteKinds
      <3>2. w.decision = d /\ w.body = body
        BY <1>5, <3>1
      <3> HIDE DEF w
      <3>3. QED
        BY <1>3, <3>2
    <2>2. decisions'[d] = body /\ \A e \in Decisions \ {d} : decisions'[e] = decisions[e]
      BY <2>1 DEF IInv, BInv, TypeOK
    <2>3. d \in Existing'
      BY <2>2, BodyFields DEF Existing
    <2>4. QED
      BY <1>5, <2>2, <2>3
  <1>6. ASSUME NEW old \in Decisions, NEW new \in Decisions, NEW body \in Bodies,
               ClosingOld(a, old, body, new)
        PROVE  w = SaveDecision(old, body) /\ ClosingHolds(a, old, body, new)
    BY <1>6 DEF ClosingOld
  <1>7. ASSUME NEW p \in Proposals, NEW body \in Bodies, Confirming(a, p, body)
        PROVE  w = SaveDecision(DecisionOf[p], body) /\ NewHolds(a, DecisionOf[p], body)
    BY <1>7 DEF Confirming
  <1>8. ASSUME NEW new \in Decisions, NEW old \in Decisions, NEW newBody \in Bodies,
               NEW body \in Bodies, Replacing(a, new, newBody, old, body)
        PROVE  w = SaveDecision(new, newBody) /\ NewHolds(a, new, newBody)
    BY <1>8 DEF Replacing
  <1>9. ASSUME NEW d \in Decisions, NEW body \in Bodies, NEW r \in RevisionIds,
               RevisingBody(a, d, body, r)
        PROVE  FALSE
    BY <1>4, <1>9 DEF RevisingBody, NoneRevised, ChainOf
  <1>10. ASSUME NEW e \in Events, Announcing(a, e) PROVE FALSE
    <2>1. w = RecordEvent(e)
      BY <1>10 DEF Announcing
    <2>2. QED
      BY <1>3, <2>1, WriteKinds
  <1>11. ASSUME NEW p \in Proposals, NEW status \in ProposalStates, NEW e \in Events,
                MarkingProposal(a, p, status, e)
         PROVE  FALSE
    <2>1. w = SaveProposal(p, status)
      BY <1>11 DEF MarkingProposal
    <2>2. QED
      BY <1>3, <2>1, WriteKinds
  <1>12. ASSUME NEW e \in Decisions, NEW r \in RevisionIds, NEW row \in Revisions,
                NEW body \in Bodies, Revising(a, e, r, row, body)
         PROVE  FALSE
    <2>1. w = SaveRevision(r, row)
      BY <1>12 DEF Revising
    <2>2. QED
      BY <1>3, <2>1, WriteKinds
  <1> HIDE DEF w
  <1>13. \E d \in Decisions, body \in Bodies :
           /\ w = SaveDecision(d, body)
           /\ NewHolds(a, d, body) \/ \E new \in Decisions : ClosingHolds(a, d, body, new)
    BY <1>2, <1>6, <1>7, <1>8, <1>9, <1>10, <1>11, <1>12, DecisionOfType DEF ActorHolds
  <1>14. QED
    BY <1>2, <1>4, <1>5, <1>13

-----------------------------------------------------------------------------
(* As long as nothing is revised, every instant by which some decision has  *)
(* begun is governed.                                                       *)
Covered ==
  NoneRevised => \A d \in Existing, t \in Times :
                   decisions[d].from <= t => DecisionAsOf(t) # NoDecision

LEMMA CoveredInvariant ==
  ASSUME DistinctIds
  PROVE  Spec => []Covered
  <1>1. ASSUME IInv, NoneRevised, NEW d \in Existing, NEW t \in Times, decisions[d].from <= t
        PROVE  DecisionAsOf(t) # NoDecision
    <2> DEFINE AsOf == {e \in Existing :
                          LET body == decisions[e] IN
                            /\ body.from # NoTime /\ body.from <= t
                            /\ body.until # NoTime => t < body.until}
    <2>1. PICK e \in Existing : InEffect(e, t)
      BY <1>1 DEF IInv, CoverageHolds, Stays
    <2>2. e \in AsOf /\ AsOf \subseteq Existing
      BY <2>1 DEF InEffect
    <2>3. IsFiniteSet(AsOf)
      BY <1>1, <2>2, FS_Subset DEF IInv
    <2>4. DecisionAsOf(t) = Governing(AsOf)
      BY DEF DecisionAsOf
    <2> HIDE DEF AsOf
    <2>5. QED
      BY <1>1, <2>2, <2>3, <2>4, GoverningIsGreatest DEF IInv
  <1>2. IInv => Covered
    BY <1>1 DEF Covered
  <1>3. QED
    BY <1>2, IInvInvariant, PTL

(* On a path no revision has touched, whatever confirmations and            *)
(* replacements race, each under ids of its own, and wherever they die, an  *)
(* instant that was governed stays governed.  (record_replacement_decision) *)
THEOREM CoverageKept ==
  ASSUME DistinctIds
  PROVE  Spec => CoverageNeverLost
  <1>1. ASSUME IInv, [Next]_vars, Covered'
        PROVE  [NoneRevised' => \A t \in Times :
                  DecisionAsOf(t) # NoDecision => DecisionAsOf(t)' # NoDecision]_decisions
    <2> SUFFICES ASSUME decisions' # decisions, NoneRevised', NEW t \in Times,
                        DecisionAsOf(t) # NoDecision
                 PROVE  DecisionAsOf(t)' # NoDecision
      OBVIOUS
    <2>1. PICK a \in Actors, c \in Decisions, body \in Bodies :
            /\ decisions'[c] = body
            /\ \A e \in Decisions \ {c} : decisions'[e] = decisions[e]
            /\ NoneRevised /\ c \in Existing'
            /\ NewHolds(a, c, body) \/ \E new \in Decisions : ClosingHolds(a, c, body, new)
      BY <1>1, DecisionsChange
    <2>2. PICK d \in Existing : decisions[d].from <= t
      BY DEF DecisionAsOf, Governing
    <2>3. d \in Existing' /\ decisions'[d].from = decisions[d].from
      <3>1. Unrevised(d)
        BY <2>1 DEF NoneRevised, Unrevised, ChainOf
      <3>2. CASE d = c
        BY <2>1, <3>1, <3>2 DEF NewHolds, ClosingHolds
      <3>3. CASE d # c
        BY <2>1, <3>3 DEF Existing
      <3>4. QED
        BY <3>2, <3>3
    <2>4. QED
      BY <1>1, <2>2, <2>3 DEF Covered
  <1>2. QED
    BY <1>1, IInvInvariant, CoveredInvariant, PTL DEF Spec, CoverageNeverLost
-----------------------------------------------------------------------------
Known(k) ==
  {d \in Existing :
    LET body == decisions[d] IN
      /\ body.from # NoTime /\ body.recorded # NoTime
      /\ body.from <= k /\ body.recorded <= k
      /\ (body.until # NoTime /\ body.until <= k) => k < body.untilRecorded}

(* What governs a set of decisions depends on nothing else.                 *)
LEMMA SameGoverns ==
  ASSUME BInv, NEW S \in SUBSET Existing, IsFiniteSet(S),
         \A d, e \in S : Outranks(d, e)' <=> Outranks(d, e)
  PROVE  Governing(S)' = Governing(S)
  <1>1. CASE S = {}
    BY <1>1 DEF Governing
  <1>2. CASE S # {}
    <2>1. Governing(S) \in S /\ \A e \in S : Outranks(Governing(S), e)
      BY <1>2, GoverningIsGreatest
    <2>2. \E d \in S : \A e \in S : Outranks(d, e)'
      BY <2>1
    <2>3. Governing(S)' \in S /\ \A e \in S : Outranks(Governing(S)', e)
      <3>1. Governing(S)' = CHOOSE d \in S : \A e \in S : Outranks(d, e)'
        BY <1>2 DEF Governing
      <3>2. Governing(S)' \in S /\ \A e \in S : (\A d \in S : d = Governing(S)' => Outranks(d, e)')
        BY <2>2, <3>1
      <3>3. QED
        BY <3>2
    <2>4. QED
      BY <2>1, <2>3, OutranksOrders
  <1>3. QED
    BY <1>1, <1>2

(* The dates that matter to a second before whatever is under way began.    *)
LEMMA KnownStays ==
  ASSUME IInv, IInv', DistinctIds, [Next]_vars, NoneRevised', ~SupersededAgain,
         decisions' # decisions, NEW k \in Times,
         \A a \in Actors : actor[a] # Idle => k < actor[a].since
  PROVE  /\ Known(k)' = Known(k)
         /\ \A d \in Known(k) : /\ decisions'[d].from = decisions[d].from
                                /\ decisions'[d].recorded = decisions[d].recorded
  <1>1. PICK a \in Actors, c \in Decisions, body \in Bodies :
          /\ actor[a] # Idle
          /\ decisions'[c] = body
          /\ \A e \in Decisions \ {c} : decisions'[e] = decisions[e]
          /\ NoneRevised /\ c \in Existing'
          /\ NewHolds(a, c, body) \/ \E new \in Decisions : ClosingHolds(a, c, body, new)
    BY DecisionsChange
  <1>2. k < actor[a].since /\ k \in Nat /\ actor[a].since \in Nat
    BY <1>1, TimeFacts DEF IInv, BInv, TypeOK
  <1>3. \A e \in Decisions \ {c} : e \in Known(k)' <=> e \in Known(k)
    BY <1>1 DEF Known, Existing
  <1>4. CASE NewHolds(a, c, body)
    <2>1. c \notin Known(k)
      BY <1>4 DEF NewHolds, Known
    <2>2. c \notin Known(k)'
      BY <1>1, <1>2, <1>4 DEF NewHolds, Known
    <2>3. QED
      BY <1>1, <1>3, <2>1, <2>2 DEF Known, Existing
  <1>5. ASSUME NEW new \in Decisions, ClosingHolds(a, c, body, new)
        PROVE  /\ c \in Existing
               /\ body.from = decisions[c].from /\ body.recorded = decisions[c].recorded
               /\ c \in Known(k)' <=> c \in Known(k)
    <2>1. Unrevised(c)
      BY <1>1 DEF NoneRevised, Unrevised, ChainOf
    <2>2. /\ c \in Existing
          /\ body.from = decisions[c].from /\ body.recorded = decisions[c].recorded
          /\ body.untilRecorded = actor[a].since
      BY <1>5, <2>1 DEF ClosingHolds
    <2>3. decisions[c].until = NoTime
      <3>1. decisions[c] # decisions'[c]
        BY <1>1 DEF IInv, BInv, TypeOK
      <3>2. decisions[c].by = NoDecision
        BY <2>2, <3>1 DEF SupersededAgain
      <3>3. BodyHolds(decisions[c])
        BY <2>2 DEF IInv, BInv, BodiesHold
      <3>4. QED
        BY <3>2, <3>3 DEF BodyHolds
    <2>4. QED
      BY <1>1, <1>2, <2>2, <2>3 DEF Known
  <1>6. CASE \E new \in Decisions : ClosingHolds(a, c, body, new)
    BY <1>1, <1>3, <1>5, <1>6 DEF Known, Existing
  <1>7. QED
    BY <1>1, <1>4, <1>6

(* No hindsight: a replacement recorded now, with effect in the past or     *)
(* not, does not change what Standing says it knew at a second before any   *)
(* operation under way began; on a path no revision has touched, unless a   *)
(* race supersedes a decision twice, with no id shared by two processes,    *)
(* and with the clock for the recorded_at of the call.                      *)
(* (decision_known_as_of)                                                   *)
THEOREM KnowledgeStands ==
  ASSUME DistinctIds
  PROVE  Spec => KnownThenStands
  <1>1. ASSUME IInv, IInv', [Next]_vars
        PROVE  [(NoneRevised' /\ ~SupersededAgain) => \A k \in Times :
                  (k < clock /\ \A a \in Actors : actor[a] # Idle => k < actor[a].since)
                    => DecisionKnownAsOf(k)' = DecisionKnownAsOf(k)]_decisions
    <2> SUFFICES ASSUME decisions' # decisions, NoneRevised', ~SupersededAgain,
                        NEW k \in Times,
                        \A a \in Actors : actor[a] # Idle => k < actor[a].since
                 PROVE  DecisionKnownAsOf(k)' = DecisionKnownAsOf(k)
      OBVIOUS
    <2>1. PICK S : S = Known(k)
      OBVIOUS
    <2>2. /\ S = Known(k) /\ S = Known(k)'
          /\ \A d \in S : /\ decisions'[d].from = decisions[d].from
                          /\ decisions'[d].recorded = decisions[d].recorded
      BY <1>1, <2>1, KnownStays
    <2>3. S \in SUBSET Existing /\ IsFiniteSet(S)
      BY <1>1, <2>1, FS_Subset DEF Known, IInv
    <2>4. \A d, e \in S : Outranks(d, e)' <=> Outranks(d, e)
      BY <2>2 DEF Outranks
    <2>5. Governing(S)' = Governing(S)
      BY <1>1, <2>3, <2>4, SameGoverns DEF IInv
    <2>6. DecisionKnownAsOf(k) = Governing(S) /\ DecisionKnownAsOf(k)' = Governing(S)'
      BY <2>2 DEF DecisionKnownAsOf, Known
    <2>7. QED
      BY <2>5, <2>6
  <1>2. QED
    BY <1>1, IInvInvariant, PTL DEF Spec, KnownThenStands
-----------------------------------------------------------------------------
LEMMA TimesHaveEnds ==
  ASSUME NEW S \in SUBSET Times, S # {}
  PROVE  /\ \E m \in S : \A x \in S : m <= x
         /\ \E m \in S : \A x \in S : x <= m
  <1> DEFINE Up == {x \in S \X S : x[1] <= x[2]}
             Down == {x \in S \X S : x[2] <= x[1]}
  <1>1. S \subseteq Nat /\ IsFiniteSet(S)
    <2>1. IsFiniteSet(0..MaxTime)
      BY LifecycleBounds, FS_Interval
    <2>2. QED
      BY <2>1, TimeFacts, FS_Subset DEF Times
  <1>2. \A x, y \in S : (<<x, y>> \in Up <=> x <= y) /\ (<<x, y>> \in Down <=> y <= x)
    OBVIOUS
  <1> HIDE DEF Up, Down
  <1>3. /\ \A x, y \in S : <<x, y>> \in Up \/ <<y, x>> \in Up
        /\ \A x, y, z \in S : <<x, y>> \in Up /\ <<y, z>> \in Up => <<x, z>> \in Up
        /\ \A x, y \in S : <<x, y>> \in Down \/ <<y, x>> \in Down
        /\ \A x, y, z \in S : <<x, y>> \in Down /\ <<y, z>> \in Down => <<x, z>> \in Down
    BY <1>1, <1>2
  <1>4. \E m \in S : \A x \in S : <<m, x>> \in Up
    BY <1>1, <1>3, GreatestExists
  <1>5. \E m \in S : \A x \in S : <<m, x>> \in Down
    BY <1>1, <1>3, GreatestExists
  <1>6. QED
    BY <1>2, <1>4, <1>5

StoredRevisions == [RevisionIds -> Revisions \cup {NoRevision}]

LEMMA ChainRows ==
  ASSUME NEW s \in StoredRevisions, NEW d, NEW r \in ChainOf(s, d)
  PROVE  /\ r \in RevisionIds /\ r # NoRevision
         /\ s[r].eff \in Times /\ s[r].eff \in Nat
  <1>1. r \in RevisionIds /\ s[r] # NoRevision
    BY DEF ChainOf
  <1>2. s[r].eff \in Times
    BY <1>1 DEF StoredRevisions, Revisions
  <1>3. QED
    BY <1>1, <1>2, TimeFacts, SentinelsAreNone

(* The revisions begun by n that have no successor begun by n.              *)
Frontier(s, d, n) ==
  {x \in ChainOf(s, d) : /\ s[x].eff <= n
                         /\ \A z \in ChainOf(s, d) : s[z].parent = x => ~(s[z].eff <= n)}

(* The root of a valid chain begins first, and nothing begins with it.      *)
LEMMA RootIsFirst ==
  ASSUME NEW s \in StoredRevisions, NEW d, ValidChain(s, d),
         NEW x \in ChainOf(s, d), s[x].parent = NoRevision,
         NEW y \in ChainOf(s, d), y # x
  PROVE  s[x].eff < s[y].eff
  <1> DEFINE C == ChainOf(s, d)
             Effs == {s[z].eff : z \in C}
  <1>1. \A z \in C : s[z].eff \in Times /\ s[z].eff \in Nat
    BY ChainRows
  <1>2. PICK m \in C : \A z \in C : s[m].eff <= s[z].eff
    <2>1. Effs \in SUBSET Times /\ Effs # {}
      BY <1>1
    <2>2. PICK e \in Effs : \A f \in Effs : e <= f
      BY <2>1, TimesHaveEnds
    <2>3. QED
      BY <2>2
  <1>3. /\ \A z \in C : s[z].parent # NoRevision =>
             s[z].parent \in C /\ s[s[z].parent].eff < s[z].eff
        /\ \A z \in C : s[z].parent = NoRevision => z = x
    BY DEF ValidChain
  <1> HIDE DEF C, Effs
  <1>4. x \in C /\ y \in C
    BY DEF C
  <1>5. m = x
    BY <1>1, <1>2, <1>3
  <1>6. QED
    BY <1>1, <1>2, <1>3, <1>4, <1>5

(* A valid chain is a line: at every instant it has one end.                *)
LEMMA ChainIsLine ==
  ASSUME NEW s \in StoredRevisions, NEW d, ValidChain(s, d), NEW n \in Times,
         NEW x \in Frontier(s, d, n), NEW y \in Frontier(s, d, n)
  PROVE  x = y
  <1> DEFINE C == ChainOf(s, d)
             Forks == {k \in Times : \E u, v \in Frontier(s, d, k) : u # v}
  <1>1. SUFFICES ASSUME Forks # {} PROVE FALSE
    OBVIOUS
  <1>2. PICK k \in Forks : \A j \in Forks : k <= j
    <2>1. Forks \in SUBSET Times
      OBVIOUS
    <2> HIDE DEF Forks
    <2>2. QED
      BY <1>1, <2>1, TimesHaveEnds
  <1>3. PICK u \in Frontier(s, d, k), v \in Frontier(s, d, k) : u # v
    OBVIOUS
  <1>4. /\ \A z \in C : s[z].eff \in Nat
        /\ \A z \in C : s[z].parent # NoRevision =>
             s[z].parent \in C /\ s[s[z].parent].eff < s[z].eff
        /\ \A w, z \in C : (s[w].parent = s[z].parent /\ s[w].parent # NoRevision) => w = z
    BY ChainRows DEF ValidChain
  <1>5. k \in Nat /\ k <= MaxTime /\ \A j \in Nat : j <= MaxTime => j \in Times
    BY LifecycleBounds DEF Times
  <1>6. /\ u \in C /\ v \in C /\ s[u].eff <= k /\ s[v].eff <= k
        /\ \A z \in C : s[z].parent = u \/ s[z].parent = v => ~(s[z].eff <= k)
    BY DEF Frontier
  (* Whoever begins at k has its parent at the end before k. *)
  <1>7. ASSUME NEW z \in C, s[z].eff = k, s[z].parent # NoRevision
        PROVE  k - 1 \in Times /\ s[z].parent \in Frontier(s, d, k - 1)
    <2>1. s[z].parent \in C /\ s[s[z].parent].eff <= k - 1 /\ k - 1 \in Times
      BY <1>4, <1>5, <1>7, LifecycleBounds
    <2>2. \A w \in C : s[w].parent = s[z].parent => w = z
      BY <1>4, <1>7
    <2>3. \A w \in C : s[w].parent = s[z].parent => ~(s[w].eff <= k - 1)
      BY <1>5, <1>7, <2>2
    <2>4. QED
      BY <2>1, <2>3 DEF Frontier
  (* Whoever is at the end at k and began before was already there. *)
  <1>8. ASSUME NEW z \in Frontier(s, d, k), s[z].eff # k
        PROVE  k - 1 \in Times /\ z \in Frontier(s, d, k - 1)
    <2>1. /\ z \in C /\ s[z].eff <= k - 1 /\ k - 1 \in Times
          /\ \A w \in C : s[w].parent = z => ~(s[w].eff <= k)
      BY <1>4, <1>5, <1>8, LifecycleBounds DEF Frontier
    <2>2. \A w \in C : s[w].parent = z => ~(s[w].eff <= k - 1)
      BY <1>4, <1>5, <2>1
    <2>3. QED
      BY <2>1, <2>2 DEF Frontier
  <1>9. ASSUME k - 1 \in Times, NEW w \in Frontier(s, d, k - 1), NEW z \in Frontier(s, d, k - 1)
        PROVE  w = z
    BY <1>2, <1>5, <1>9
  <1>10. ASSUME NEW w \in C, NEW z \in C, w # z, s[w].parent = NoRevision
         PROVE  s[w].eff < s[z].eff
    BY <1>10, RootIsFirst
  <1> HIDE DEF C, Forks
  <1>11. CASE s[u].eff # k /\ s[v].eff # k
    BY <1>3, <1>8, <1>9, <1>11
  <1>12. CASE s[u].eff = k /\ s[v].eff = k
    <2>1. s[u].parent # NoRevision /\ s[v].parent # NoRevision
      BY <1>3, <1>4, <1>5, <1>6, <1>10, <1>12
    <2>2. s[u].parent = s[v].parent
      BY <1>6, <1>7, <1>9, <1>12, <2>1
    <2>3. QED
      BY <1>3, <1>4, <1>6, <2>1, <2>2
  <1>13. ASSUME NEW w \in Frontier(s, d, k), NEW z \in Frontier(s, d, k),
                w \in C, z \in C, w # z, s[w].eff = k, s[z].eff # k, s[z].eff <= k,
                \A q \in C : s[q].parent = z => ~(s[q].eff <= k)
         PROVE  FALSE
    <2>1. s[w].parent # NoRevision
      BY <1>4, <1>5, <1>10, <1>13
    <2>2. s[w].parent = z
      BY <1>7, <1>8, <1>9, <1>13, <2>1
    <2>3. QED
      BY <1>5, <1>13, <2>2
  <1>14. QED
    BY <1>3, <1>6, <1>11, <1>12, <1>13

(* So no two revisions of a valid chain begin together.                     *)
LEMMA NoTwoTogether ==
  ASSUME NEW s \in StoredRevisions, NEW d, ValidChain(s, d),
         NEW x \in ChainOf(s, d), NEW y \in ChainOf(s, d), s[x].eff = s[y].eff
  PROVE  x = y
  <1> PICK n : n = s[x].eff
    OBVIOUS
  <1>1. n \in Times /\ n \in Nat /\ \A z \in ChainOf(s, d) : s[z].eff \in Nat
    BY ChainRows
  <1>2. \A w, z \in ChainOf(s, d) : s[w].eff = n /\ s[z].parent = w => ~(s[z].eff <= n)
    <2> SUFFICES ASSUME NEW w \in ChainOf(s, d), NEW z \in ChainOf(s, d),
                        s[w].eff = n, s[z].parent = w
                 PROVE  ~(s[z].eff <= n)
      OBVIOUS
    <2>1. w # NoRevision
      BY ChainRows
    <2>2. s[w].eff < s[z].eff
      BY <2>1 DEF ValidChain
    <2>3. QED
      BY <1>1, <2>2
  <1>3. x \in Frontier(s, d, n) /\ y \in Frontier(s, d, n)
    BY <1>1, <1>2 DEF Frontier
  <1>4. QED
    BY <1>1, <1>3, ChainIsLine
Begun(s, d, t) == {r \in ChainOf(s, d) : s[r].eff <= t}

(* The revision active at t, of any store.                                  *)
Active(s, d, t) ==
  CHOOSE r \in Begun(s, d, t) : \A q \in Begun(s, d, t) : s[q].eff <= s[r].eff

(* It is the one that has begun last, and the only one.                     *)
LEMMA ActiveIsLast ==
  ASSUME NEW s \in StoredRevisions, NEW d, ValidChain(s, d), NEW t \in Times,
         Begun(s, d, t) # {}
  PROVE  /\ Active(s, d, t) \in Begun(s, d, t)
         /\ \A q \in Begun(s, d, t) : s[q].eff <= s[Active(s, d, t)].eff
         /\ \A r \in Begun(s, d, t) :
              (\A q \in Begun(s, d, t) : s[q].eff <= s[r].eff) => r = Active(s, d, t)
  <1> DEFINE B == Begun(s, d, t)
             Effs == {s[r].eff : r \in B}
  <1>1. \A r \in B : r \in ChainOf(s, d) /\ s[r].eff \in Times /\ s[r].eff \in Nat
    BY ChainRows DEF Begun
  <1>2. \E r \in B : \A q \in B : s[q].eff <= s[r].eff
    <2>1. Effs \in SUBSET Times /\ Effs # {}
      BY <1>1
    <2>2. PICK e \in Effs : \A f \in Effs : f <= e
      BY <2>1, TimesHaveEnds
    <2>3. QED
      BY <2>2
  <1>3. /\ Active(s, d, t) \in B
        /\ \A q \in B : s[q].eff <= s[Active(s, d, t)].eff
    BY <1>2 DEF Active
  <1>4. ASSUME NEW r \in B, \A q \in B : s[q].eff <= s[r].eff
        PROVE  r = Active(s, d, t)
    <2>1. s[r].eff = s[Active(s, d, t)].eff
      BY <1>1, <1>3, <1>4
    <2>2. QED
      BY <1>1, <1>3, <2>1, NoTwoTogether
  <1>5. QED
    BY <1>3, <1>4

(* A chain that is left alone keeps its active revision, ...                *)
LEMMA ActiveStays ==
  ASSUME NEW s \in StoredRevisions, NEW u \in StoredRevisions, NEW d, NEW t \in Times,
         ValidChain(s, d), Begun(s, d, t) # {}, ValidChain(u, d),
         Begun(u, d, t) = Begun(s, d, t), \A r \in Begun(s, d, t) : u[r] = s[r]
  PROVE  Active(u, d, t) = Active(s, d, t)
  <1>1. /\ Active(s, d, t) \in Begun(u, d, t)
        /\ \A q \in Begun(u, d, t) : u[q].eff <= u[Active(s, d, t)].eff
    BY ActiveIsLast
  <1>2. QED
    BY <1>1, ActiveIsLast

(* ... and one that a revision joins keeps it or passes it to that one.     *)
LEMMA ActivePasses ==
  ASSUME NEW s \in StoredRevisions, NEW u \in StoredRevisions, NEW d, NEW t \in Times,
         ValidChain(s, d), Begun(s, d, t) # {}, ValidChain(u, d),
         NEW r \in RevisionIds, r \notin ChainOf(s, d),
         ChainOf(u, d) = ChainOf(s, d) \cup {r},
         \A q \in ChainOf(s, d) : u[q] = s[q],
         Active(u, d, t) # Active(s, d, t)
  PROVE  /\ Active(u, d, t) = r
         /\ u[r].parent = Active(s, d, t)
  <1> PICK was, is : was = Active(s, d, t) /\ is = Active(u, d, t)
    OBVIOUS
  <1>1. /\ was \in ChainOf(s, d) /\ s[was].eff <= t
        /\ \A q \in ChainOf(s, d) : s[q].eff <= t => s[q].eff <= s[was].eff
    BY ActiveIsLast DEF Begun
  <1>2. Begun(u, d, t) # {}
    BY <1>1 DEF Begun
  <1>3. /\ is \in ChainOf(u, d) /\ u[is].eff <= t
        /\ \A q \in ChainOf(u, d) : u[q].eff <= t => u[q].eff <= u[is].eff
    BY <1>2, ActiveIsLast DEF Begun
  <1>4. \A q \in ChainOf(u, d) : u[q].eff \in Nat /\ u[q].eff \in Times
    BY ChainRows
  <1>5. is = r
    <2> SUFFICES ASSUME is # r PROVE FALSE
      OBVIOUS
    <2>1. is \in ChainOf(s, d) /\ u[is] = s[is] /\ u[was] = s[was]
      BY <1>1, <1>3
    <2>2. \A q \in Begun(s, d, t) : s[q].eff <= s[is].eff
      BY <1>3 DEF Begun
    <2>3. is \in Begun(s, d, t)
      BY <1>3, <2>1 DEF Begun
    <2>4. is = was
      BY <2>2, <2>3, ActiveIsLast
    <2>5. QED
      BY <2>4
  <1>6. u[r].eff <= t /\ was # r /\ u[was].eff < u[r].eff
    <2>1. u[r].eff <= t /\ was # r /\ u[was].eff <= u[r].eff
      BY <1>1, <1>3, <1>5
    <2>2. u[was].eff # u[r].eff
      BY <1>1, <1>3, <1>5, <2>1, NoTwoTogether
    <2>3. QED
      BY <1>1, <1>3, <1>4, <1>5, <2>1, <2>2
  <1>7. u[r].parent # NoRevision
    <2>1. PICK root \in ChainOf(s, d) : s[root].parent = NoRevision
      BY DEF ValidChain
    <2>2. root # r /\ root \in ChainOf(u, d) /\ u[root].parent = NoRevision
      BY <2>1
    <2>3. QED
      BY <1>3, <1>5, <2>2 DEF ValidChain
  <1> PICK p : p = u[r].parent
    OBVIOUS
  <1>8. /\ p \in ChainOf(u, d) /\ u[p].eff < u[r].eff
        /\ \A q \in ChainOf(u, d) : u[q].parent = p => q = r
        /\ \A q \in ChainOf(u, d) : u[q].parent = was => u[was].eff < u[q].eff
    <2>1. was # NoRevision
      BY <1>1, ChainRows
    <2>2. QED
      BY <1>3, <1>5, <1>7, <2>1 DEF ValidChain
  <1> PICK n : n = u[r].eff - 1
    OBVIOUS
  <1>9. /\ n \in Times /\ n \in Int /\ u[r].eff = n + 1
        /\ u[p].eff <= n /\ u[was].eff <= n /\ t \in Nat
    BY <1>1, <1>3, <1>4, <1>5, <1>6, <1>8, LifecycleBounds DEF Times
  <1>10. p \in Frontier(u, d, n)
    <2>1. ~(u[r].eff <= n)
      BY <1>9
    <2>2. \A z \in ChainOf(u, d) : u[z].parent = p => ~(u[z].eff <= n)
      BY <1>8, <2>1
    <2>3. QED
      BY <1>8, <1>9, <2>2 DEF Frontier
  <1>11. was \in Frontier(u, d, n)
    <2> SUFFICES ASSUME NEW z \in ChainOf(u, d), u[z].parent = was, u[z].eff <= n
                 PROVE  FALSE
      BY <1>1, <1>9 DEF Frontier
    <2>1. z # r
      BY <1>4, <1>9
    <2>2. z \in ChainOf(s, d) /\ u[z] = s[z] /\ u[was] = s[was]
      BY <1>1, <2>1
    <2>3. u[z].eff <= t
      BY <1>4, <1>6, <1>9
    <2>4. u[z].eff <= u[was].eff
      BY <1>1, <2>2, <2>3
    <2>5. QED
      BY <1>1, <1>4, <1>8, <2>4
  <1>12. QED
    BY <1>5, <1>9, <1>10, <1>11, ChainIsLine

-----------------------------------------------------------------------------
(* Only the save of a revision changes the revisions.                       *)
LEMMA RevisionsChange ==
  ASSUME IInv, [Next]_vars, revisions' # revisions
  PROVE  \E a \in Actors, d \in Decisions, r \in RevisionIds, row \in Revisions,
            body \in Bodies : Write(a) /\ Revising(a, d, r, row, body)
  <1>1. PICK a \in Actors : Write(a)
    <2>1. \A a, writes : Begin(a, writes) => revisions' = revisions
      BY DEF Begin
    <2>2. ~Propose /\ ~Confirm /\ ~Reject
      BY <2>1 DEF Propose, Confirm, Reject, RecordProposal, ConfirmProposal, RejectProposal
    <2>3. ~Replace /\ ~Revise
      <3>1. \A b, old, new, from : ReplaceDecision(b, old, new, from) => revisions' = revisions
        BY <2>1 DEF ReplaceDecision
      <3>2. \A b, d, r, row, dated : ReviseDecision(b, d, r, row, dated) => revisions' = revisions
        BY <2>1 DEF ReviseDecision
      <3>3. QED
        BY <3>1, <3>2 DEF Replace, Revise
    <2>4. ~Tick
      BY DEF Tick
    <2>5. \A a \in Actors : ~Crash(a)
      BY DEF Crash
    <2>6. ~UNCHANGED vars
      BY DEF vars
    <2>7. QED
      BY <2>2, <2>3, <2>4, <2>5, <2>6 DEF Next
  <1> DEFINE w == Head(actor[a].writes)
  <1>2. w.to = "revision"
    BY <1>1, SaveEffect DEF IInv
  <1>3. ActorHolds(a) /\ actor[a] # Idle
    BY <1>1 DEF IInv, Write
  <1>4. ASSUME NEW e \in Events PROVE ~Announcing(a, e)
    <2>1. Announcing(a, e) => w = RecordEvent(e)
      BY DEF Announcing
    <2>2. QED
      BY <1>2, <2>1, WriteKinds
  <1>5. ASSUME NEW p \in Proposals, NEW status \in ProposalStates, NEW e \in Events
        PROVE  ~MarkingProposal(a, p, status, e)
    <2>1. MarkingProposal(a, p, status, e) => w = SaveProposal(p, status)
      BY DEF MarkingProposal
    <2>2. QED
      BY <1>2, <2>1, WriteKinds
  <1>6. \A d \in Decisions, body \in Bodies : w # SaveDecision(d, body)
    BY <1>2, WriteKinds
  <1>7. /\ \A old, new \in Decisions, body \in Bodies : ~ClosingOld(a, old, body, new)
        /\ \A d \in Decisions, body \in Bodies, r \in RevisionIds : ~RevisingBody(a, d, body, r)
    BY <1>6 DEF ClosingOld, RevisingBody
  <1>8. \A p \in Proposals, body \in Bodies : ~Confirming(a, p, body)
    BY <1>6, DecisionOfType DEF Confirming
  <1>9. \A new, old \in Decisions, newBody, body \in Bodies :
          ~Replacing(a, new, newBody, old, body)
    BY <1>6 DEF Replacing
  <1> HIDE DEF w
  <1>10. QED
    BY <1>1, <1>3, <1>4, <1>5, <1>7, <1>8, <1>9 DEF ActorHolds

LEMMA ActiveRevisionIs ==
  ASSUME NEW d, NEW t
  PROVE  /\ ActiveRevision(d, t) = IF ~ValidChain(revisions, d) \/ Begun(revisions, d, t) = {}
                                   THEN NoRevision ELSE Active(revisions, d, t)
         /\ ActiveRevision(d, t)' = IF ~ValidChain(revisions', d) \/ Begun(revisions', d, t) = {}
                                    THEN NoRevision ELSE Active(revisions', d, t)
  BY DEF ActiveRevision, Active, Begun

(* Revising a decision rewrites no history: at every instant the revision   *)
(* active there stays it, or its direct successor, just recorded, takes     *)
(* over; the chain stays readable.                                          *)
(* (record_decision_revision, build_revision_timeline, read_decision_at)    *)
THEOREM HistoryPassesOn ==
  ASSUME DistinctIds
  PROVE  Spec => RevisionPassesToSuccessor
  <1>1. ASSUME IInv, IInv', [Next]_vars
        PROVE  [\A d \in Decisions, t \in Times :
                  LET was == ActiveRevision(d, t)
                      is == ActiveRevision(d, t)'
                  IN (was # NoRevision /\ is # was) =>
                       /\ is # NoRevision
                       /\ revisions[is] = NoRevision
                       /\ revisions'[is].parent = was]_revisions
    <2> SUFFICES ASSUME revisions' # revisions, NEW c \in Decisions, NEW t \in Times,
                        NEW was, was = ActiveRevision(c, t),
                        NEW is, is = ActiveRevision(c, t)',
                        was # NoRevision, is # was
                 PROVE  /\ is # NoRevision
                        /\ revisions[is] = NoRevision
                        /\ revisions'[is].parent = was
      OBVIOUS
    <2>1. PICK a \in Actors, d \in Decisions, r \in RevisionIds, row \in Revisions,
               body \in Bodies : Write(a) /\ Revising(a, d, r, row, body)
      BY <1>1, RevisionsChange
    <2>2. /\ revisions[r] = NoRevision
          /\ revisions' = [revisions EXCEPT ![r] = row]
          /\ ChainOf(revisions, d)' = ChainOf(revisions, d) \cup {r}
          /\ \A q \in RevisionIds \ {r} : revisions'[q] = revisions[q]
          /\ \A e \in Decisions \ {d} : r \notin ChainOf(revisions, e)
          /\ \A e \in Decisions \ {d} : ChainOf(revisions, e)' = ChainOf(revisions, e)
      BY <1>1, <2>1, RevisionJoins DEF IInv
    <2>3. /\ revisions \in StoredRevisions /\ revisions' \in StoredRevisions
          /\ r \notin ChainOf(revisions, d)
          /\ ValidChain(revisions', d)
      BY <1>1, <2>1, <2>2 DEF IInv, BInv, TypeOK, StoredRevisions, Revising
    <2>4. /\ ValidChain(revisions, c) /\ Begun(revisions, c, t) # {}
          /\ was = Active(revisions, c, t)
      BY ActiveRevisionIs
    <2>5. \A q \in ChainOf(revisions, c) : revisions'[q] = revisions[q]
      BY <2>2, <2>3, ChainFields
    <2>6. CASE c = d
      <3>1. ChainOf(revisions', d) = ChainOf(revisions, d) \cup {r}
        BY <2>2 DEF ChainOf
      <3>2. Begun(revisions', d, t) # {}
        BY <2>4, <2>5, <2>6, <3>1 DEF Begun
      <3>3. is = Active(revisions', d, t)
        BY <2>3, <2>6, <3>2, ActiveRevisionIs
      <3>4. is = r /\ revisions'[r].parent = was
        BY <2>3, <2>4, <2>5, <2>6, <3>1, <3>3, ActivePasses
      <3>5. QED
        BY <2>2, <3>4, SentinelsAreNone
    <2>7. CASE c # d
      <3>1. ChainOf(revisions', c) = ChainOf(revisions, c)
        BY <2>2, <2>7 DEF ChainOf
      <3>2. ValidChain(revisions', c)
        BY <2>4, <2>5, <3>1, ChainsAgree
      <3>3. Begun(revisions', c, t) = Begun(revisions, c, t)
        BY <2>5, <3>1 DEF Begun
      <3>4. \A q \in Begun(revisions, c, t) : revisions'[q] = revisions[q]
        BY <2>5 DEF Begun
      <3>5. Active(revisions', c, t) = Active(revisions, c, t)
        BY <2>3, <2>4, <3>2, <3>3, <3>4, ActiveStays
      <3>6. is = was
        BY <2>4, <3>2, <3>3, <3>5, ActiveRevisionIs
      <3>7. QED
        BY <3>6
    <2>8. QED
      BY <2>6, <2>7
  <1>2. QED
    BY <1>1, IInvInvariant, PTL DEF Spec, RevisionPassesToSuccessor
=============================================================================
