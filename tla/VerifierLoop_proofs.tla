-------------------------- MODULE VerifierLoop_proofs --------------------------
(***************************************************************************)
(* For any number of processes and names, however their steps interleave   *)
(* and wherever they die: no record counts an outcome that was not         *)
(* reported (CountedWasReported), and nobody is trusted without the        *)
(* history (TrustIsOnRecord).  Operations that neither overlap nor are cut *)
(* short lose nothing (NothingLostAlone).                                  *)
(*                                                                         *)
(* A record is read by one step and saved by a later one, so what it       *)
(* counts is bounded by what was reported less what is still to be counted *)
(* (Room), and so is every copy a process holds.                           *)
(***************************************************************************)
EXTENDS VerifierLoop, FiniteSetTheorems, TLAPS

Kinds == {"right", "wrong"}
CountOf(history, kind) == IF kind = "right" THEN history.confirmed ELSE history.contradicted
ReportsOf(n, kind) == IF kind = "right" THEN reported[n].confirmed ELSE reported[n].contradicted

(* The processes that were told of an outcome and have not counted it yet.  *)
Owes(p, n, kind) ==
  /\ proc[p].step \in {"outcome", "save_outcome"}
  /\ proc[p].name = n
  /\ (IF proc[p].confirmed THEN "right" ELSE "wrong") = kind
Pending(n, kind) == {p \in Procs : Owes(p, n, kind)}

(* What may be counted for a name already: what was reported, less what is  *)
(* still to be counted.                                                     *)
Room(n, kind) == ReportsOf(n, kind) - Cardinality(Pending(n, kind))

Sound(history) == history.given >= history.confirmed + history.contradicted

ProcStates == [step : Steps, name : Names \cup {NoName}, chosen : BOOLEAN,
               approved : BOOLEAN, confirmed : BOOLEAN, promoted : BOOLEAN,
               read : Histories]

Fits(history, n) == \A kind \in Kinds : CountOf(history, kind) <= Room(n, kind)

(* What a process holds: a copy of a record fits into the room of its name  *)
(* as the record did, a reading about to be judged is stored, and trust is  *)
(* put on a history.                                                        *)
HeldState(p) ==
  /\ proc[p].step # "idle" => proc[p].name \in Names
  /\ proc[p].step = "idle" => ~proc[p].chosen /\ ~proc[p].promoted
  /\ Sound(proc[p].read)
  /\ proc[p].step = "save_identity" => Fits(proc[p].read, Delivered(p))
  /\ proc[p].step = "save_outcome" => Fits(proc[p].read, proc[p].name)
  /\ proc[p].step \in {"identify", "save_identity", "decide"} => Delivered(p) \in delivered
  /\ proc[p].chosen => reported[proc[p].name].confirmed >= MinHistory
  /\ proc[p].promoted => reported[Delivered(p)].confirmed >= MinHistory

Counted == \A n \in Names : Fits(observer[n], n)

IInv ==
  /\ TypeOK
  /\ Counted
  /\ \A p \in Procs : HeldState(p)

-----------------------------------------------------------------------------
LEMMA PendingIsFinite ==
  ASSUME NEW n, NEW kind
  PROVE  /\ IsFiniteSet(Pending(n, kind)) /\ Cardinality(Pending(n, kind)) \in Nat
         /\ IsFiniteSet(Pending(n, kind)') /\ Cardinality(Pending(n, kind)') \in Nat
  <1>1. Pending(n, kind) \in SUBSET Procs /\ Pending(n, kind)' \in SUBSET Procs
    BY DEF Pending
  <1>2. QED
    BY <1>1, ProcsAreFinite, FS_Subset, FS_CardinalityType

LEMMA RoomNow ==
  ASSUME TypeOK, NEW n \in Names, NEW kind \in Kinds
  PROVE  /\ Room(n, kind) = ReportsOf(n, kind) - Cardinality(Pending(n, kind))
         /\ Room(n, kind) \in Int /\ ReportsOf(n, kind) \in Nat
         /\ Room(n, kind) <= ReportsOf(n, kind)
         /\ CountOf(observer[n], kind) \in Nat
  <1>1. ReportsOf(n, kind) \in Nat
    BY DEF TypeOK, ReportsOf
  <1>2. CountOf(observer[n], kind) \in Nat
    BY DEF TypeOK, CountOf, Histories
  <1>3. QED
    BY <1>1, <1>2, PendingIsFinite DEF Room

LEMMA RoomNext ==
  ASSUME TypeOK', NEW n \in Names, NEW kind \in Kinds
  PROVE  /\ Room(n, kind)' = ReportsOf(n, kind)' - Cardinality(Pending(n, kind)')
         /\ Room(n, kind)' \in Int /\ ReportsOf(n, kind)' \in Nat
         /\ Room(n, kind)' <= ReportsOf(n, kind)'
         /\ CountOf(observer'[n], kind) \in Nat
  <1>1. ReportsOf(n, kind)' \in Nat
    BY DEF TypeOK, ReportsOf
  <1>2. CountOf(observer'[n], kind) \in Nat
    BY DEF TypeOK, CountOf, Histories
  <1>3. QED
    BY <1>1, <1>2, PendingIsFinite DEF Room

(* Room does not shrink when the promise of a count is dropped ...          *)
LEMMA RoomStays ==
  ASSUME TypeOK, TypeOK', NEW n \in Names, NEW kind \in Kinds,
         Pending(n, kind)' \subseteq Pending(n, kind),
         ReportsOf(n, kind)' >= ReportsOf(n, kind)
  PROVE  Room(n, kind) <= Room(n, kind)'
  <1>1. Cardinality(Pending(n, kind)') <= Cardinality(Pending(n, kind))
    BY PendingIsFinite, FS_Subset
  <1>2. QED
    BY <1>1, RoomNow, RoomNext, PendingIsFinite

(* ... nor when an outcome is reported together with the promise.           *)
LEMMA RoomOnReport ==
  ASSUME TypeOK, TypeOK', NEW n \in Names, NEW kind \in Kinds, NEW p \in Procs,
         Pending(n, kind)' \subseteq Pending(n, kind) \cup {p},
         ReportsOf(n, kind)' = ReportsOf(n, kind) + 1
  PROVE  Room(n, kind) <= Room(n, kind)'
  <1> DEFINE S == Pending(n, kind)
  <1>1. IsFiniteSet(S) /\ Cardinality(S) \in Nat
    BY PendingIsFinite
  <1>2. /\ IsFiniteSet(S \cup {p})
        /\ \/ Cardinality(S \cup {p}) = Cardinality(S)
           \/ Cardinality(S \cup {p}) = Cardinality(S) + 1
    BY <1>1, FS_AddElement
  <1>3. Cardinality(Pending(n, kind)') <= Cardinality(S \cup {p})
    BY <1>2, FS_Subset
  <1>4. QED
    BY <1>1, <1>2, <1>3, RoomNow, RoomNext, PendingIsFinite

(* Counting what was reported makes room for it.                            *)
LEMMA RoomOnCount ==
  ASSUME TypeOK, TypeOK', NEW n \in Names, NEW kind \in Kinds, NEW p \in Pending(n, kind),
         Pending(n, kind)' \subseteq Pending(n, kind) \ {p},
         ReportsOf(n, kind)' = ReportsOf(n, kind)
  PROVE  Room(n, kind) + 1 <= Room(n, kind)'
  <1>1. /\ IsFiniteSet(Pending(n, kind) \ {p})
        /\ Cardinality(Pending(n, kind) \ {p}) = Cardinality(Pending(n, kind)) - 1
    BY PendingIsFinite, FS_RemoveElement
  <1>2. Cardinality(Pending(n, kind)') <= Cardinality(Pending(n, kind) \ {p})
    BY <1>1, FS_Subset
  <1>3. QED
    BY <1>1, <1>2, RoomNow, RoomNext, PendingIsFinite

(* A step of one process that makes no promise of its own.                  *)
LEMMA RoomKept ==
  ASSUME TypeOK, TypeOK', NEW p \in Procs, reported' = reported,
         \A q \in Procs \ {p} : proc'[q] = proc[q],
         \A n, kind : Owes(p, n, kind)' => Owes(p, n, kind)
  PROVE  \A n \in Names, kind \in Kinds : Room(n, kind) <= Room(n, kind)'
  <1>1. SUFFICES ASSUME NEW n \in Names, NEW kind \in Kinds
                 PROVE  Room(n, kind) <= Room(n, kind)'
    OBVIOUS
  <1>2. Pending(n, kind)' \subseteq Pending(n, kind)
    BY DEF Pending, Owes
  <1>3. ReportsOf(n, kind)' >= ReportsOf(n, kind)
    BY RoomNow DEF ReportsOf
  <1>4. QED
    BY <1>2, <1>3, RoomStays

-----------------------------------------------------------------------------
(* A process and the records it names, as IInv has them.                    *)
LEMMA StateOf ==
  ASSUME IInv, NEW p \in Procs
  PROVE  /\ proc \in [Procs -> ProcStates] /\ proc[p] \in ProcStates
         /\ proc[p].read \in Histories /\ Sound(proc[p].read)
         /\ observer \in [Names -> Histories]
         /\ \A n \in Names : Sound(observer[n])
         /\ proc[p].step # "idle" => proc[p].name \in Names /\ Delivered(p) \in Names
         /\ reported \in [Names -> [confirmed : Nat, contradicted : Nat]]
         /\ delivered \in SUBSET Names
         /\ Idle \in ProcStates /\ NoHistory \in Histories
         /\ runs \in 0..MaxRuns /\ undisturbed \in BOOLEAN
  <1>1. /\ proc \in [Procs -> ProcStates] /\ observer \in [Names -> Histories]
        /\ \A n \in Names : Sound(observer[n])
        /\ reported \in [Names -> [confirmed : Nat, contradicted : Nat]]
        /\ delivered \in SUBSET Names
        /\ runs \in 0..MaxRuns /\ undisturbed \in BOOLEAN
        /\ HeldState(p)
    BY DEF IInv, TypeOK, ProcStates, Sound
  <1>2. NoHistory \in Histories
    BY DEF NoHistory, Histories
  <1>3. Idle \in ProcStates
    BY <1>2 DEF Idle, ProcStates, Steps
  <1>4. proc[p] \in ProcStates
    BY <1>1
  <1>5. proc[p].read \in Histories /\ Sound(proc[p].read)
    BY <1>1, <1>4 DEF ProcStates, HeldState
  <1>6. proc[p].step # "idle" => proc[p].name \in Names /\ Delivered(p) \in Names
    BY <1>1, DeliveredAsType DEF HeldState, Delivered
  <1>7. QED
    BY <1>1, <1>2, <1>3, <1>4, <1>5, <1>6

(* What is to be shown of a step to see that the types hold after it.       *)
LEMMA TypesOf ==
  ASSUME proc' \in [Procs -> ProcStates], observer' \in [Names -> Histories],
         \A n \in Names : Sound(observer'[n]),
         reported' \in [Names -> [confirmed : Nat, contradicted : Nat]],
         delivered' \in SUBSET Names, runs' \in 0..MaxRuns, undisturbed' \in BOOLEAN
  PROVE  TypeOK'
  BY DEF TypeOK, ProcStates, Sound

(* A record after an outcome is counted.                                    *)
LEMMA OutcomeCounts ==
  ASSUME NEW history \in Histories, NEW yes \in BOOLEAN, Sound(history)
  PROVE  /\ ApplyOutcome(history, yes) \in Histories
         /\ Sound(ApplyOutcome(history, yes))
         /\ ApplyOutcome(history, yes).confirmed = history.confirmed + IF yes THEN 1 ELSE 0
         /\ ApplyOutcome(history, yes).contradicted = history.contradicted + IF yes THEN 0 ELSE 1
  <1> DEFINE up == IF yes THEN 1 ELSE 0
  <1> DEFINE down == IF yes THEN 0 ELSE 1
  <1>1. up \in Nat /\ down \in Nat /\ up + down = 1
    OBVIOUS
  <1>2. ApplyOutcome(history, yes) = [history EXCEPT !.given = @ + 1, !.confirmed = @ + up,
                                                    !.contradicted = @ + down]
    BY DEF ApplyOutcome
  <1> DEFINE after == ApplyOutcome(history, yes)
  <1>3. /\ after.given = history.given + 1
        /\ after.confirmed = history.confirmed + up
        /\ after.contradicted = history.contradicted + down
    <2> HIDE DEF up, down
    <2>1. QED
      BY <1>1, <1>2 DEF Histories
  <1>4. after \in Histories
    <2> HIDE DEF up, down
    <2>1. after = [present |-> history.present, identified |-> history.identified,
                   given |-> history.given + 1, confirmed |-> history.confirmed + up,
                   contradicted |-> history.contradicted + down]
      BY <1>2 DEF Histories
    <2>2. QED
      BY <1>1, <2>1 DEF Histories
  <1>5. /\ history.given \in Nat /\ history.confirmed \in Nat
        /\ history.contradicted \in Nat
    BY DEF Histories
  <1>6. Sound(after)
    <2> HIDE DEF up, down, after
    <2>1. QED
      BY <1>1, <1>3, <1>5 DEF Sound
  <1>7. QED
    BY <1>3, <1>4, <1>6

LEMMA StartTypes ==
  ASSUME IInv, NEW p \in Procs, Start(p)
  PROVE  undisturbed' \in BOOLEAN /\ runs' \in 0..MaxRuns
  <1>1. runs' = runs + 1 /\ runs < MaxRuns /\ runs \in 0..MaxRuns
    BY StateOf DEF Start
  <1>2. undisturbed' = (undisturbed /\ Resting)
    BY DEF Start
  <1>3. undisturbed' \in BOOLEAN
    BY <1>2, Zenon
  <1>4. QED
    BY <1>1, <1>3, LoopPolicy

(* What a call reports of a name.                                           *)
LEMMA ReportCounts ==
  ASSUME IInv, NEW p \in Procs, NEW m \in Names, NEW yes \in BOOLEAN, ReportOutcome(p, m, yes)
  PROVE  /\ reported' \in [Names -> [confirmed : Nat, contradicted : Nat]]
         /\ \A n \in Names :
              /\ n # m => reported'[n] = reported[n]
              /\ reported'[n].confirmed =
                   reported[n].confirmed + IF n = m /\ yes THEN 1 ELSE 0
              /\ reported'[n].contradicted =
                   reported[n].contradicted + IF n = m /\ ~yes THEN 1 ELSE 0
  <1>1. reported \in [Names -> [confirmed : Nat, contradicted : Nat]]
    BY StateOf
  <1>2. CASE yes
    <2>1. reported' = [reported EXCEPT ![m].confirmed = @ + 1]
      BY <1>2 DEF ReportOutcome
    <2>2. QED
      BY <1>1, <1>2, <2>1
  <1>3. CASE ~yes
    <2>1. reported' = [reported EXCEPT ![m].contradicted = @ + 1]
      BY <1>3 DEF ReportOutcome
    <2>2. QED
      BY <1>1, <1>3, <2>1
  <1>4. QED
    BY <1>2, <1>3

LEMMA NextTypeOK ==
  ASSUME IInv, Next
  PROVE  TypeOK'
  <1> PICK p \in Procs :
        \/ \E n \in Names, yes \in BOOLEAN : StartLoop(p, n, yes) \/ ReportOutcome(p, n, yes)
        \/ Step(p) \/ Stop(p)
    BY DEF Next
  <1> USE StateOf, LoopPolicy
  <1>1. ASSUME NEW n \in Names, NEW yes \in BOOLEAN, ReportOutcome(p, n, yes) PROVE TypeOK'
    <2>1. proc' \in [Procs -> ProcStates]
      BY <1>1 DEF ReportOutcome, ProcStates, Steps, Idle
    <2>2. undisturbed' \in BOOLEAN /\ runs' \in 0..MaxRuns
      BY <1>1, StartTypes DEF ReportOutcome
    <2>3. reported' \in [Names -> [confirmed : Nat, contradicted : Nat]]
      BY <1>1, ReportCounts
    <2>4. QED
      BY <1>1, <2>1, <2>2, <2>3, TypesOf DEF ReportOutcome, Start
  <1>2. ASSUME NEW n \in Names, NEW yes \in BOOLEAN, StartLoop(p, n, yes) PROVE TypeOK'
    <2>1. proc' \in [Procs -> ProcStates]
      BY <1>2 DEF StartLoop, ProcStates, Steps, Idle
    <2>2. undisturbed' \in BOOLEAN /\ runs' \in 0..MaxRuns
      BY <1>2, StartTypes DEF StartLoop
    <2>3. QED
      BY <1>2, <2>1, <2>2, TypesOf DEF StartLoop, Start
  <1>3. CASE EnsureObserverEntity(p)
    <2>1. proc' \in [Procs -> ProcStates]
      BY <1>3 DEF EnsureObserverEntity, Goto, ProcStates, Steps
    <2>2. ZeroCounts \in Histories /\ Sound(ZeroCounts)
      BY DEF ZeroCounts, Histories, Sound
    <2>3. QED
      BY <1>3, <2>1, <2>2, TypesOf DEF EnsureObserverEntity
  <1>4. ASSUME NEW yes \in BOOLEAN, SelectObserver(p, yes) PROVE TypeOK'
    <2>1. proc' \in [Procs -> ProcStates]
      BY <1>4 DEF SelectObserver, ProcStates, Steps
    <2>2. QED
      BY <1>4, <2>1, TypesOf DEF SelectObserver
  <1>5. CASE Hire(p)
    <2>1. proc' \in [Procs -> ProcStates]
      BY <1>5 DEF Hire, Goto, ProcStates, Steps
    <2>2. QED
      BY <1>5, <2>1, TypesOf DEF Hire
  <1>6. CASE StoreReading(p)
    <2>1. proc' \in [Procs -> ProcStates]
      BY <1>6 DEF StoreReading, Goto, ProcStates, Steps
    <2>2. delivered' \in SUBSET Names
      BY <1>6 DEF StoreReading, At
    <2>3. QED
      BY <1>6, <2>1, <2>2, TypesOf DEF StoreReading
  <1>7. CASE ReadIdentity(p)
    <2>1. At(p, "identify") /\ observer[Delivered(p)] \in Histories
      BY <1>7 DEF ReadIdentity, At
    <2>2. proc' \in [Procs -> ProcStates]
      BY <1>7, <2>1 DEF ReadIdentity, ProcStates, Steps
    <2>3. QED
      BY <1>7, <2>2, TypesOf DEF ReadIdentity
  <1>8. CASE SaveIdentity(p)
    <2>1. proc' \in [Procs -> ProcStates]
      BY <1>8 DEF SaveIdentity, Goto, ProcStates, Steps
    <2> DEFINE h == [proc[p].read EXCEPT !.present = TRUE, !.identified = TRUE]
    <2>2. h \in Histories /\ Sound(h)
      BY DEF Histories, Sound
    <2>3. observer' = [observer EXCEPT ![Delivered(p)] = h]
      BY <1>8 DEF SaveIdentity
    <2> HIDE DEF h
    <2>4. QED
      BY <1>8, <2>1, <2>2, <2>3, TypesOf DEF SaveIdentity
  <1>9. ASSUME NEW yes \in BOOLEAN, Decide(p, yes) PROVE TypeOK'
    <2>1. proc' \in [Procs -> ProcStates]
      BY <1>9 DEF Decide, ProcStates, Steps
    <2>2. QED
      BY <1>9, <2>1, TypesOf DEF Decide
  <1>10. CASE WriteReputationSignal(p)
    <2>1. proc' \in [Procs -> ProcStates]
      BY <1>10 DEF WriteReputationSignal
    <2>2. QED
      BY <1>10, <2>1, TypesOf DEF WriteReputationSignal
  <1>11. CASE ReadOutcome(p)
    <2>1. At(p, "outcome") /\ observer[proc[p].name] \in Histories
      BY <1>11 DEF ReadOutcome, At
    <2>2. proc' \in [Procs -> ProcStates]
      BY <1>11, <2>1 DEF ReadOutcome, ProcStates, Steps
    <2>3. QED
      BY <1>11, <2>2, TypesOf DEF ReadOutcome
  <1>12. CASE SaveOutcome(p)
    <2>1. proc' \in [Procs -> ProcStates]
      BY <1>12 DEF SaveOutcome
    <2> DEFINE h == ApplyOutcome(proc[p].read, proc[p].confirmed)
    <2>2. h \in Histories /\ Sound(h)
      BY OutcomeCounts DEF ProcStates
    <2>3. observer' = [observer EXCEPT ![proc[p].name] = h]
      BY <1>12 DEF SaveOutcome
    <2> HIDE DEF h
    <2>4. QED
      BY <1>12, <2>1, <2>2, <2>3, TypesOf DEF SaveOutcome
  <1>13. CASE Stop(p)
    <2>1. proc' \in [Procs -> ProcStates]
      BY <1>13 DEF Stop
    <2>2. QED
      BY <1>13, <2>1, TypesOf DEF Stop
  <1>14. QED
    BY <1>1, <1>2, <1>3, <1>4, <1>5, <1>6, <1>7, <1>8, <1>9, <1>10, <1>11, <1>12, <1>13
    DEF Step

-----------------------------------------------------------------------------
(* What fits into a room that does not shrink fits afterwards.              *)
LEMMA FitsStays ==
  ASSUME TypeOK, TypeOK', NEW n \in Names, NEW history \in Histories, Fits(history, n),
         \A kind \in Kinds : Room(n, kind) <= Room(n, kind)'
  PROVE  Fits(history, n)'
  <1> SUFFICES ASSUME NEW kind \in Kinds PROVE CountOf(history, kind) <= Room(n, kind)'
    BY DEF Fits
  <1>1. CountOf(history, kind) \in Nat
    BY DEF CountOf, Histories
  <1>2. CountOf(history, kind) <= Room(n, kind) /\ Room(n, kind) <= Room(n, kind)'
    BY DEF Fits
  <1>3. Room(n, kind) \in Int /\ Room(n, kind)' \in Int
    BY RoomNow, RoomNext
  <1>4. QED
    BY <1>1, <1>2, <1>3

ReportsGrow ==
  \A n \in Names : /\ reported'[n].confirmed >= reported[n].confirmed
                   /\ reported'[n].contradicted >= reported[n].contradicted

RoomsGrow == \A n \in Names, kind \in Kinds : Room(n, kind) <= Room(n, kind)'

(* What a process that does not move holds stays true.                      *)
LEMMA OthersStay ==
  ASSUME IInv, TypeOK', NEW q \in Procs, proc'[q] = proc[q],
         ReportsGrow, RoomsGrow, delivered \subseteq delivered'
  PROVE  HeldState(q)'
  <1>1. proc[q] \in ProcStates /\ proc[q].read \in Histories /\ HeldState(q)
    BY StateOf DEF IInv
  <1>2. proc[q].step # "idle" => proc[q].name \in Names /\ Delivered(q) \in Names
    BY StateOf
  <1>3. Delivered(q)' = Delivered(q)
    BY DEF Delivered
  <1>4. ASSUME proc[q].step = "save_identity" PROVE Fits(proc[q].read, Delivered(q))'
    <2>1. Delivered(q) \in Names /\ Fits(proc[q].read, Delivered(q))
      BY <1>1, <1>2, <1>4 DEF HeldState
    <2>2. PICK m \in Names : m = Delivered(q)
      BY <2>1
    <2>3. PICK h \in Histories : h = proc[q].read
      BY <1>1
    <2>4. Fits(h, m)'
      BY <2>1, <2>2, <2>3, FitsStays DEF IInv, RoomsGrow
    <2>5. QED
      BY <2>2, <2>3, <2>4, <1>3 DEF Fits
  <1>5. ASSUME proc[q].step = "save_outcome" PROVE Fits(proc[q].read, proc[q].name)'
    <2>1. proc[q].name \in Names /\ Fits(proc[q].read, proc[q].name)
      BY <1>1, <1>2, <1>5 DEF HeldState
    <2>2. PICK m \in Names : m = proc[q].name
      BY <2>1
    <2>3. PICK h \in Histories : h = proc[q].read
      BY <1>1
    <2>4. Fits(h, m)'
      BY <2>1, <2>2, <2>3, FitsStays DEF IInv, RoomsGrow
    <2>5. QED
      BY <2>2, <2>3, <2>4 DEF Fits
  <1>6. ASSUME NEW n \in Names, reported[n].confirmed >= MinHistory
        PROVE  reported'[n].confirmed >= MinHistory
    BY <1>6, LoopPolicy DEF IInv, TypeOK, ReportsGrow
  <1>7. proc[q].chosen \/ proc[q].promoted => proc[q].name \in Names /\ Delivered(q) \in Names
    BY <1>1, <1>2 DEF HeldState
  <1>8. QED
    BY <1>1, <1>3, <1>4, <1>5, <1>6, <1>7 DEF HeldState

(* So a step of one process leaves to be shown what it makes of its own     *)
(* state and of the records.                                                *)
LEMMA OneMoves ==
  ASSUME IInv, TypeOK', NEW p \in Procs, \A q \in Procs \ {p} : proc'[q] = proc[q],
         ReportsGrow, RoomsGrow, delivered \subseteq delivered', Counted', HeldState(p)'
  PROVE  IInv'
  <1>1. \A q \in Procs \ {p} : HeldState(q)'
    BY OthersStay
  <1>2. QED
    BY <1>1 DEF IInv

LEMMA SameReports ==
  ASSUME TypeOK, reported' = reported
  PROVE  ReportsGrow
  BY DEF ReportsGrow, TypeOK

(* Records that stay keep within a room that does not shrink.               *)
LEMMA CountsStay ==
  ASSUME TypeOK, TypeOK', Counted, observer' = observer, RoomsGrow
  PROVE  Counted'
  <1>1. \A n \in Names : observer[n] \in Histories /\ Fits(observer[n], n)
    BY DEF TypeOK, Counted
  <1>2. ASSUME NEW n \in Names PROVE Fits(observer[n], n)'
    <2>1. PICK h \in Histories : h = observer[n]
      BY <1>1
    <2>2. Fits(h, n)'
      BY <1>1, <2>1, FitsStays DEF RoomsGrow
    <2>3. QED
      BY <2>1, <2>2 DEF Fits
  <1>3. QED
    BY <1>2 DEF Counted

(* A step that writes no record, reports nothing and promises no count.     *)
LEMMA QuietStep ==
  ASSUME IInv, TypeOK', NEW p \in Procs, \A q \in Procs \ {p} : proc'[q] = proc[q],
         \A n, kind : Owes(p, n, kind)' => Owes(p, n, kind),
         observer' = observer, reported' = reported, delivered \subseteq delivered',
         RoomsGrow => HeldState(p)'
  PROVE  IInv'
  <1>1. RoomsGrow
    BY RoomKept DEF IInv, RoomsGrow
  <1>2. Counted' /\ ReportsGrow
    BY <1>1, CountsStay, SameReports DEF IInv
  <1>3. QED
    BY <1>1, <1>2, OneMoves

LEMMA NextIInv ==
  ASSUME IInv, Next
  PROVE  IInv'
  <1> PICK p \in Procs :
        \/ \E n \in Names, yes \in BOOLEAN : StartLoop(p, n, yes) \/ ReportOutcome(p, n, yes)
        \/ Step(p) \/ Stop(p)
    BY DEF Next
  <1>t. TypeOK' /\ TypeOK
    BY NextTypeOK DEF IInv
  <1>s. /\ proc \in [Procs -> ProcStates] /\ proc[p] \in ProcStates
        /\ HeldState(p)
        /\ MinHistory \in Nat
    BY LoopPolicy DEF IInv, TypeOK, ProcStates
  <1>i. Sound(NoHistory)
    BY DEF Sound, NoHistory
  (* The outcome reported makes the room that its count will take.          *)
  <1>1. ASSUME NEW m \in Names, NEW yes \in BOOLEAN, ReportOutcome(p, m, yes) PROVE IInv'
    <2>1. /\ proc' = [proc EXCEPT ![p] = [Idle EXCEPT !.step = "outcome", !.name = m,
                                                      !.confirmed = yes]]
          /\ observer' = observer /\ delivered' = delivered
      BY <1>1 DEF ReportOutcome, Start
    <2>2. /\ proc'[p].step = "outcome" /\ proc'[p].name = m /\ proc'[p].read = NoHistory
          /\ ~proc'[p].chosen /\ ~proc'[p].promoted
          /\ \A q \in Procs \ {p} : proc'[q] = proc[q]
      BY <2>1, <1>s DEF Idle
    <2>2a. proc'[p].confirmed = yes
      BY <2>1, <1>s, Zenon DEF Idle
    <2>3. ReportsGrow
      BY <1>1, <1>t, ReportCounts DEF ReportsGrow, TypeOK
    <2>4. ASSUME NEW n \in Names, NEW kind \in Kinds PROVE Room(n, kind) <= Room(n, kind)'
      <3>1. CASE n = m /\ kind = (IF yes THEN "right" ELSE "wrong")
        <4>1. Pending(n, kind)' \subseteq Pending(n, kind) \cup {p}
          BY <2>2 DEF Pending, Owes
        <4>2. ReportsOf(n, kind)' = ReportsOf(n, kind) + 1
          BY <1>1, <3>1, ReportCounts DEF ReportsOf
        <4>3. QED
          BY <4>1, <4>2, <1>t, RoomOnReport
      <3>2. CASE ~(n = m /\ kind = (IF yes THEN "right" ELSE "wrong"))
        <4>1. ~Owes(p, n, kind)'
          BY <2>2, <2>2a, <3>2 DEF Owes
        <4>2. Pending(n, kind)' \subseteq Pending(n, kind)
          BY <2>2, <4>1 DEF Pending, Owes
        <4>3. ReportsOf(n, kind)' >= ReportsOf(n, kind)
          BY <2>3 DEF ReportsOf, ReportsGrow
        <4>4. QED
          BY <4>2, <4>3, <1>t, RoomStays
      <3>3. QED
        BY <3>1, <3>2
    <2>5. RoomsGrow
      BY <2>4 DEF RoomsGrow
    <2>6. Counted'
      BY <2>1, <2>5, <1>t, CountsStay DEF IInv
    <2>7. HeldState(p)'
      BY <2>2, <1>i DEF HeldState
    <2>8. delivered \subseteq delivered'
      BY <2>1
    <2>9. QED
      BY <2>2, <2>3, <2>5, <2>6, <2>7, <2>8, <1>t, OneMoves
  (* Who starts the loop, or stops, holds nothing.                          *)
  <1>2. ASSUME NEW n \in Names, NEW yes \in BOOLEAN, StartLoop(p, n, yes) PROVE IInv'
    <2> DEFINE first == IF observer[n].present THEN "select" ELSE "ensure"
    <2>1. proc' = [proc EXCEPT ![p] = [Idle EXCEPT !.name = n, !.approved = yes,
                                                   !.step = first]]
      BY <1>2 DEF StartLoop
    <2>2. first \in {"select", "ensure"}
      OBVIOUS
    <2> HIDE DEF first
    <2>3. /\ proc'[p].step = first /\ proc'[p].name = n /\ proc'[p].read = NoHistory
          /\ ~proc'[p].chosen /\ ~proc'[p].promoted
          /\ \A q \in Procs \ {p} : proc'[q] = proc[q]
      BY <2>1, <1>s DEF Idle
    <2>4. HeldState(p)' /\ \A m, kind : ~Owes(p, m, kind)'
      BY <2>2, <2>3, <1>i DEF HeldState, Owes
    <2>5. QED
      BY <1>2, <2>3, <2>4, <1>t, QuietStep DEF StartLoop, Start
  <1>3. CASE Stop(p) \/ WriteReputationSignal(p)
    <2>1. /\ proc'[p] = Idle /\ \A q \in Procs \ {p} : proc'[q] = proc[q]
          /\ observer' = observer /\ reported' = reported /\ delivered' = delivered
      BY <1>3, <1>s DEF Stop, WriteReputationSignal
    <2>2. HeldState(p)' /\ \A n, kind : ~Owes(p, n, kind)'
      BY <2>1, <1>i DEF HeldState, Idle, Owes
    <2>3. QED
      BY <2>1, <2>2, <1>t, QuietStep
  (* A record written anew counts nothing.                                  *)
  <1>4. CASE EnsureObserverEntity(p)
    <2>1. /\ proc[p].step = "ensure" /\ proc'[p] = [proc[p] EXCEPT !.step = "select"]
          /\ \A q \in Procs \ {p} : proc'[q] = proc[q]
          /\ observer' = [observer EXCEPT ![proc[p].name] = ZeroCounts]
          /\ reported' = reported /\ delivered' = delivered
      BY <1>4, <1>s DEF EnsureObserverEntity, At, Goto
    <2>2. /\ proc'[p].step = "select" /\ proc'[p].name = proc[p].name
          /\ proc'[p].read = proc[p].read /\ proc'[p].chosen = proc[p].chosen
          /\ proc'[p].promoted = proc[p].promoted
      BY <2>1, <1>s DEF ProcStates
    <2>3. RoomsGrow
      <3>1. \A n, kind : ~Owes(p, n, kind)'
        BY <2>2 DEF Owes
      <3>2. QED
        BY <2>1, <3>1, <1>t, RoomKept DEF RoomsGrow
    <2>4. Counted'
      <3> SUFFICES ASSUME NEW n \in Names, NEW kind \in Kinds
                   PROVE  CountOf(observer'[n], kind) <= Room(n, kind)'
        BY DEF Counted, Fits
      <3>1. CountOf(ZeroCounts, kind) = 0
        BY DEF ZeroCounts, CountOf
      <3>2. observer'[n] = ZeroCounts \/ observer'[n] = observer[n]
        BY <2>1, StateOf
      <3>3. CountOf(observer'[n], kind) <= CountOf(observer[n], kind)
        BY <3>1, <3>2, <1>t, RoomNow
      <3>4. CountOf(observer[n], kind) <= Room(n, kind) /\ Room(n, kind) <= Room(n, kind)'
        BY <2>3 DEF IInv, Counted, Fits, RoomsGrow
      <3>5. QED
        BY <3>3, <3>4, <1>t, RoomNow, RoomNext
    <2>5. HeldState(p)'
      BY <2>1, <2>2, <1>s DEF HeldState, Delivered
    <2>6. QED
      BY <2>1, <2>3, <2>4, <2>5, <1>t, SameReports, OneMoves
  (* A record that meets the history has no more than was reported.         *)
  <1>5. ASSUME NEW yes \in BOOLEAN, SelectObserver(p, yes) PROVE IInv'
    <2>1. /\ proc[p].step = "select"
          /\ yes \/ proc[p].name \in Strongest({proc[p].name})
          /\ proc'[p] = [proc[p] EXCEPT !.step = "hire", !.chosen = ~yes]
          /\ \A q \in Procs \ {p} : proc'[q] = proc[q]
          /\ observer' = observer /\ reported' = reported /\ delivered' = delivered
      BY <1>5, <1>s DEF SelectObserver, At
    <2>2. /\ proc'[p].step = "hire" /\ proc'[p].name = proc[p].name
          /\ proc'[p].read = proc[p].read /\ proc'[p].chosen = ~yes
          /\ proc'[p].promoted = proc[p].promoted
      BY <2>1, <1>s DEF ProcStates
    <2>3. ASSUME ~yes PROVE reported[proc[p].name].confirmed >= MinHistory
      <3>1. proc[p].name \in Names /\ Meets(observer[proc[p].name])
        BY <2>1, <2>3, StateOf DEF Strongest
      <3>2. PICK n \in Names : n = proc[p].name
        BY <3>1
      <3>3. "right" \in Kinds
        BY DEF Kinds
      <3>4. /\ CountOf(observer[n], "right") <= Room(n, "right")
            /\ CountOf(observer[n], "right") = observer[n].confirmed
            /\ ReportsOf(n, "right") = reported[n].confirmed
        BY <3>3 DEF IInv, Counted, Fits, CountOf, ReportsOf
      <3>5. observer[n].confirmed >= MinHistory
        BY <3>1, <3>2 DEF Meets
      <3>6. reported[n].confirmed >= MinHistory
        BY <3>3, <3>4, <3>5, <1>t, <1>s, RoomNow
      <3>7. QED
        BY <3>2, <3>6
    <2>4. HeldState(p)'
      BY <2>1, <2>2, <2>3, <1>s DEF HeldState, Delivered
    <2>5. \A n, kind : ~Owes(p, n, kind)'
      BY <2>2 DEF Owes
    <2>6. QED
      BY <2>1, <2>4, <2>5, <1>t, QuietStep
  <1>6. CASE Hire(p)
    <2>1. /\ proc[p].step = "hire" /\ proc'[p] = [proc[p] EXCEPT !.step = "store"]
          /\ \A q \in Procs \ {p} : proc'[q] = proc[q]
          /\ observer' = observer /\ reported' = reported /\ delivered' = delivered
      BY <1>6, <1>s DEF Hire, At, Goto
    <2>2. /\ proc'[p].step = "store" /\ proc'[p].name = proc[p].name
          /\ proc'[p].read = proc[p].read /\ proc'[p].chosen = proc[p].chosen
          /\ proc'[p].promoted = proc[p].promoted
      BY <2>1, <1>s DEF ProcStates
    <2>3. HeldState(p)' /\ \A n, kind : ~Owes(p, n, kind)'
      BY <2>1, <2>2, <1>s DEF HeldState, Delivered, Owes
    <2>4. QED
      BY <2>1, <2>3, <1>t, QuietStep
  <1>7. CASE StoreReading(p)
    <2>1. /\ proc[p].step = "store" /\ proc'[p] = [proc[p] EXCEPT !.step = "identify"]
          /\ \A q \in Procs \ {p} : proc'[q] = proc[q]
          /\ delivered' = delivered \cup {Delivered(p)}
          /\ observer' = observer /\ reported' = reported
      BY <1>7, <1>s DEF StoreReading, At, Goto
    <2>2. /\ proc'[p].step = "identify" /\ proc'[p].name = proc[p].name
          /\ proc'[p].read = proc[p].read /\ proc'[p].chosen = proc[p].chosen
          /\ proc'[p].promoted = proc[p].promoted
      BY <2>1, <1>s DEF ProcStates
    <2>3. HeldState(p)' /\ \A n, kind : ~Owes(p, n, kind)'
      BY <2>1, <2>2, <1>s DEF HeldState, Delivered, Owes
    <2>4. QED
      BY <2>1, <2>3, <1>t, QuietStep
  (* A copy that is read fits as the record does.                           *)
  <1>8. CASE ReadIdentity(p)
    <2>1. /\ proc[p].step = "identify"
          /\ proc'[p] = [proc[p] EXCEPT !.step = "save_identity", !.read = observer[Delivered(p)]]
          /\ \A q \in Procs \ {p} : proc'[q] = proc[q]
          /\ observer' = observer /\ reported' = reported /\ delivered' = delivered
      BY <1>8, <1>s DEF ReadIdentity, At
    <2>2. /\ proc'[p].step = "save_identity" /\ proc'[p].name = proc[p].name
          /\ proc'[p].read = observer[Delivered(p)] /\ proc'[p].chosen = proc[p].chosen
          /\ proc'[p].promoted = proc[p].promoted
      BY <2>1, <1>s DEF ProcStates
    <2>3. Delivered(p) \in Names /\ Sound(observer[Delivered(p)]) /\ Delivered(p)' = Delivered(p)
      BY <2>1, <2>2, StateOf DEF Delivered
    <2>4. \A n, kind : ~Owes(p, n, kind)'
      BY <2>2 DEF Owes
    <2>5. ASSUME RoomsGrow PROVE HeldState(p)'
      <3>1. Counted'
        BY <2>1, <2>5, <1>t, CountsStay DEF IInv
      <3>2. Fits(observer[Delivered(p)], Delivered(p))'
        BY <2>1, <2>3, <3>1 DEF Counted
      <3>3. Fits(proc[p].read, Delivered(p))'
        BY <2>1, <2>2, <2>3, <3>2 DEF Fits
      <3>4. QED
        BY <2>1, <2>2, <2>3, <3>3, <1>s DEF HeldState
    <2>6. QED
      BY <2>1, <2>4, <2>5, <1>t, QuietStep
  <1>9. CASE SaveIdentity(p)
    <2> DEFINE h == [proc[p].read EXCEPT !.present = TRUE, !.identified = TRUE]
    <2>1. /\ proc[p].step = "save_identity" /\ proc'[p] = [proc[p] EXCEPT !.step = "decide"]
          /\ \A q \in Procs \ {p} : proc'[q] = proc[q]
          /\ observer' = [observer EXCEPT ![Delivered(p)] = h]
          /\ reported' = reported /\ delivered' = delivered
      BY <1>9, <1>s DEF SaveIdentity, At, Goto
    <2>2. \A kind \in Kinds : CountOf(h, kind) = CountOf(proc[p].read, kind)
      BY StateOf DEF Histories, CountOf
    <2> HIDE DEF h
    <2>3. /\ proc'[p].step = "decide" /\ proc'[p].name = proc[p].name
          /\ proc'[p].read = proc[p].read /\ proc'[p].chosen = proc[p].chosen
          /\ proc'[p].promoted = proc[p].promoted
      BY <2>1, <1>s DEF ProcStates
    <2>4. RoomsGrow
      <3>1. \A n, kind : ~Owes(p, n, kind)'
        BY <2>3 DEF Owes
      <3>2. QED
        BY <2>1, <3>1, <1>t, RoomKept DEF RoomsGrow
    <2>5. Delivered(p) \in Names /\ Fits(proc[p].read, Delivered(p))
      BY <2>1, <1>s, StateOf DEF HeldState
    <2>6. Counted'
      <3> SUFFICES ASSUME NEW n \in Names, NEW kind \in Kinds
                   PROVE  CountOf(observer'[n], kind) <= Room(n, kind)'
        BY DEF Counted, Fits
      <3>1. n = Delivered(p) => observer'[n] = h
        BY <2>1, StateOf
      <3>2. n # Delivered(p) => observer'[n] = observer[n]
        BY <2>1, StateOf
      <3>3. CountOf(observer'[n], kind) <= Room(n, kind)
        BY <2>2, <2>5, <3>1, <3>2 DEF IInv, Counted, Fits
      <3>4. Room(n, kind) <= Room(n, kind)'
        BY <2>4 DEF RoomsGrow
      <3>5. QED
        BY <3>3, <3>4, <1>t, RoomNow, RoomNext
    <2>7. HeldState(p)'
      BY <2>1, <2>3, <1>s DEF HeldState, Delivered
    <2>8. QED
      BY <2>1, <2>4, <2>6, <2>7, <1>t, SameReports, OneMoves
  <1>10. ASSUME NEW yes \in BOOLEAN, Decide(p, yes) PROVE IInv'
    <2>0. ASSUME yes PROVE ObserversSuffice
      BY <1>10, <2>0, Zenon DEF Decide
    <2>1. /\ proc[p].step = "decide"
          /\ proc'[p] = [proc[p] EXCEPT !.step = "signal", !.promoted = yes]
          /\ \A q \in Procs \ {p} : proc'[q] = proc[q]
          /\ observer' = observer /\ reported' = reported /\ delivered' = delivered
      BY <1>10, <1>s DEF Decide, At
    <2>2. /\ proc'[p].step = "signal" /\ proc'[p].name = proc[p].name
          /\ proc'[p].read = proc[p].read /\ proc'[p].chosen = proc[p].chosen
          /\ proc'[p].promoted = yes
      BY <2>1, <1>s DEF ProcStates
    <2>3. ASSUME yes PROVE reported[Delivered(p)].confirmed >= MinHistory
      <3>1. Delivered(p) \in Names /\ Meets(observer[Delivered(p)])
        BY <2>0, <2>1, <2>3, <1>s, StateOf DEF HeldState, ObserversSuffice
      <3>2. PICK n \in Names : n = Delivered(p)
        BY <3>1
      <3>3. "right" \in Kinds
        BY DEF Kinds
      <3>4. /\ CountOf(observer[n], "right") <= Room(n, "right")
            /\ CountOf(observer[n], "right") = observer[n].confirmed
            /\ ReportsOf(n, "right") = reported[n].confirmed
        BY <3>3 DEF IInv, Counted, Fits, CountOf, ReportsOf
      <3>5. observer[n].confirmed >= MinHistory
        BY <3>1, <3>2 DEF Meets
      <3>6. reported[n].confirmed >= MinHistory
        BY <3>3, <3>4, <3>5, <1>t, <1>s, RoomNow
      <3>7. QED
        BY <3>2, <3>6
    <2>4. Delivered(p)' = Delivered(p)
      BY <2>2 DEF Delivered
    <2>5. HeldState(p)'
      BY <2>1, <2>2, <2>3, <2>4, <1>s DEF HeldState
    <2>6. \A n, kind : ~Owes(p, n, kind)'
      BY <2>2 DEF Owes
    <2>7. QED
      BY <2>1, <2>5, <2>6, <1>t, QuietStep
  <1>11. CASE ReadOutcome(p)
    <2>1. /\ proc[p].step = "outcome" /\ proc[p].name \in Names
          /\ proc'[p] = [proc[p] EXCEPT !.step = "save_outcome", !.read = observer[proc[p].name]]
          /\ \A q \in Procs \ {p} : proc'[q] = proc[q]
          /\ observer' = observer /\ reported' = reported /\ delivered' = delivered
      BY <1>11, <1>s, StateOf DEF ReadOutcome, At
    <2>2. /\ proc'[p].step = "save_outcome" /\ proc'[p].name = proc[p].name
          /\ proc'[p].read = observer[proc[p].name] /\ proc'[p].chosen = proc[p].chosen
          /\ proc'[p].promoted = proc[p].promoted
      BY <2>1, <1>s DEF ProcStates
    <2>2a. proc'[p].confirmed = proc[p].confirmed
      BY <2>1, <1>s, Zenon DEF ProcStates
    <2>3. Sound(observer[proc[p].name])
      BY <2>1, StateOf
    <2>4. \A n, kind : Owes(p, n, kind)' => Owes(p, n, kind)
      BY <2>1, <2>2, <2>2a DEF Owes
    <2>5. ASSUME RoomsGrow PROVE HeldState(p)'
      <3>1. Counted'
        BY <2>1, <2>5, <1>t, CountsStay DEF IInv
      <3>2. Fits(observer[proc[p].name], proc[p].name)'
        BY <2>1, <2>2, <3>1 DEF Counted
      <3>3. Fits(proc[p].read, proc[p].name)'
        BY <2>1, <2>2, <3>2 DEF Fits
      <3>4. QED
        BY <2>1, <2>2, <2>3, <3>3, <1>s DEF HeldState, Delivered
    <2>6. QED
      BY <2>1, <2>4, <2>5, <1>t, QuietStep
  (* The count takes the room the promise had kept.                         *)
  <1>12. CASE SaveOutcome(p)
    <2> DEFINE name == proc[p].name
    <2> DEFINE yes == proc[p].confirmed
    <2> DEFINE h == ApplyOutcome(proc[p].read, yes)
    <2>1. /\ proc[p].step = "save_outcome" /\ name \in Names /\ yes \in BOOLEAN
          /\ proc'[p] = Idle /\ \A q \in Procs \ {p} : proc'[q] = proc[q]
          /\ observer' = [observer EXCEPT ![name] = h]
          /\ reported' = reported /\ delivered' = delivered
      BY <1>12, <1>s, StateOf DEF SaveOutcome, At, ProcStates
    <2>2. /\ h.confirmed = proc[p].read.confirmed + IF yes THEN 1 ELSE 0
          /\ h.contradicted = proc[p].read.contradicted + IF yes THEN 0 ELSE 1
          /\ proc[p].read.confirmed \in Nat /\ proc[p].read.contradicted \in Nat
      BY <2>1, StateOf, OutcomeCounts DEF Histories
    <2> HIDE DEF h
    <2>3. /\ RoomsGrow
          /\ \A n, kind : ~Owes(p, n, kind)'
      <3>1. \A n, kind : ~Owes(p, n, kind)'
        BY <2>1 DEF Owes, Idle
      <3>2. QED
        BY <2>1, <3>1, <1>t, RoomKept DEF RoomsGrow
    <2>4. ASSUME NEW kind \in Kinds, NEW n \in Names, n = name
          PROVE  CountOf(h, kind) <= Room(n, kind)'
      <3>1. CountOf(proc[p].read, kind) <= Room(n, kind)
        BY <2>1, <2>4, <1>s DEF HeldState, Fits
      <3>2. Room(n, kind) \in Int /\ Room(n, kind)' \in Int /\ Room(n, kind) <= Room(n, kind)'
        BY <2>3, <1>t, RoomNow, RoomNext DEF RoomsGrow
      <3>3. CountOf(proc[p].read, kind) \in Nat
        BY <2>2 DEF CountOf
      <3>4. CASE (IF yes THEN "right" ELSE "wrong") = kind
        <4>1. p \in Pending(n, kind)
          BY <2>1, <2>4, <3>4 DEF Pending, Owes
        <4>2. Pending(n, kind)' \subseteq Pending(n, kind) \ {p}
          BY <2>1, <2>3 DEF Pending, Owes
        <4>3. ReportsOf(n, kind)' = ReportsOf(n, kind)
          BY <2>1 DEF ReportsOf
        <4>4. Room(n, kind) + 1 <= Room(n, kind)'
          BY <4>1, <4>2, <4>3, <1>t, RoomOnCount
        <4>5. CountOf(h, kind) = CountOf(proc[p].read, kind) + 1
          BY <2>2, <3>4 DEF CountOf
        <4>6. QED
          BY <3>1, <3>2, <3>3, <4>4, <4>5
      <3>5. CASE (IF yes THEN "right" ELSE "wrong") # kind
        <4>1. CountOf(h, kind) = CountOf(proc[p].read, kind)
          BY <2>2, <3>5 DEF CountOf, Kinds
        <4>2. QED
          BY <3>1, <3>2, <3>3, <4>1
      <3>6. QED
        BY <3>4, <3>5
    <2>5. Counted'
      <3> SUFFICES ASSUME NEW n \in Names, NEW kind \in Kinds
                   PROVE  CountOf(observer'[n], kind) <= Room(n, kind)'
        BY DEF Counted, Fits
      <3>1. CASE n # name
        <4>1. observer'[n] = observer[n]
          BY <2>1, <3>1, StateOf
        <4>2. CountOf(observer[n], kind) <= Room(n, kind) /\ Room(n, kind) <= Room(n, kind)'
          BY <2>3 DEF IInv, Counted, Fits, RoomsGrow
        <4>3. QED
          BY <4>1, <4>2, <1>t, RoomNow, RoomNext
      <3>2. CASE n = name
        BY <2>1, <2>4, <3>2, StateOf
      <3>3. QED
        BY <3>1, <3>2
    <2>6. HeldState(p)'
      BY <2>1, <1>i DEF HeldState, Idle
    <2>7. QED
      BY <2>1, <2>3, <2>5, <2>6, <1>t, SameReports, OneMoves
  <1>13. QED
    BY <1>1, <1>2, <1>3, <1>4, <1>5, <1>6, <1>7, <1>8, <1>9, <1>10, <1>11, <1>12
    DEF Step

-----------------------------------------------------------------------------
LEMMA AtFirst ==
  ASSUME Init
  PROVE  /\ \A p \in Procs : proc[p] = Idle
         /\ \A n \in Names, kind \in Kinds : /\ Room(n, kind) = 0
                                             /\ CountOf(observer[n], kind) = 0
  <1>1. \A p \in Procs : proc[p] = Idle
    BY DEF Init
  <1>2. ASSUME NEW n \in Names, NEW kind \in Kinds
        PROVE  Room(n, kind) = 0 /\ CountOf(observer[n], kind) = 0
    <2>1. Pending(n, kind) = {}
      BY <1>1 DEF Pending, Owes, Idle
    <2>2. Cardinality(Pending(n, kind)) = 0
      BY <2>1, FS_EmptySet
    <2>3. ReportsOf(n, kind) = 0 /\ CountOf(observer[n], kind) = 0
      BY DEF Init, ReportsOf, NoReports, CountOf, NoHistory
    <2>4. QED
      BY <2>2, <2>3 DEF Room
  <1>3. QED
    BY <1>1, <1>2

LEMMA InitIInv == Init => IInv
  <1> SUFFICES ASSUME Init PROVE IInv
    OBVIOUS
  <1>1. NoHistory \in Histories /\ Sound(NoHistory)
    BY DEF NoHistory, Histories, Sound
  <1>2. Idle \in ProcStates
    BY <1>1 DEF Idle, ProcStates, Steps
  <1>3. TypeOK
    BY <1>1, <1>2, LoopPolicy DEF Init, TypeOK, ProcStates, Sound, NoReports
  <1>4. \A p \in Procs : HeldState(p)
    BY <1>1, AtFirst DEF HeldState, Idle
  <1>5. Counted
    BY AtFirst DEF Counted, Fits
  <1>6. QED
    BY <1>3, <1>4, <1>5 DEF IInv

LEMMA StutterIInv ==
  ASSUME IInv, UNCHANGED vars
  PROVE  IInv'
  <1>1. /\ observer' = observer /\ delivered' = delivered /\ reported' = reported
        /\ proc' = proc /\ runs' = runs /\ undisturbed' = undisturbed
    BY DEF vars
  <1>2. \A n, kind : Room(n, kind)' = Room(n, kind)
    BY <1>1 DEF Room, Pending, Owes, ReportsOf
  <1>3. TypeOK' /\ Counted'
    BY <1>1, <1>2 DEF IInv, TypeOK, Counted, Fits
  <1>4. \A p \in Procs : HeldState(p)'
    BY <1>1, <1>2 DEF IInv, HeldState, Delivered, Fits
  <1>5. QED
    BY <1>3, <1>4 DEF IInv

LEMMA InvariantHolds == Spec => []IInv
  <1>1. IInv /\ [Next]_vars => IInv'
    BY NextIInv, StutterIInv
  <1>2. QED
    BY <1>1, InitIInv, PTL DEF Spec

(* Whatever overlaps or dies, no observer record gives fewer readings than  *)
(* it confirms and contradicts: ObserverHistory can read what was written.  *)
THEOREM RecordsStayReadable == Spec => []TypeOK
  <1>1. IInv => TypeOK
    BY DEF IInv
  <1>2. QED
    BY <1>1, InvariantHolds, PTL

(* However many processes write the records back, and wherever they die, no *)
(* observer has more confirmed or contradicted readings in memory than      *)
(* record_observer_outcome was told of.                                     *)
THEOREM CountsAreReported == Spec => []CountedWasReported
  <1>1. IInv => CountedWasReported
    <2> SUFFICES ASSUME IInv, NEW n \in Names
                 PROVE  /\ observer[n].confirmed <= reported[n].confirmed
                        /\ observer[n].contradicted <= reported[n].contradicted
      BY DEF CountedWasReported
    <2>1. \A kind \in Kinds : /\ CountOf(observer[n], kind) <= Room(n, kind)
                              /\ Room(n, kind) <= ReportsOf(n, kind)
                              /\ Room(n, kind) \in Int /\ ReportsOf(n, kind) \in Nat
                              /\ CountOf(observer[n], kind) \in Nat
      BY RoomNow DEF IInv, Counted, Fits
    <2>2. \A kind \in Kinds : CountOf(observer[n], kind) <= ReportsOf(n, kind)
      BY <2>1
    <2>3. QED
      BY <2>2 DEF Kinds, CountOf, ReportsOf
  <1>2. QED
    BY <1>1, InvariantHolds, PTL

-----------------------------------------------------------------------------
(* As long as nothing was disturbed: at most one process is at work, what   *)
(* it read is what is stored, the records count all that was reported but   *)
(* what it still owes, and whom it trusts was not found wrong too often.    *)
UpToDate(p) ==
  /\ proc[p].step = "ensure" => ~observer[proc[p].name].present
  /\ proc[p].step = "save_identity" => proc[p].read = observer[Delivered(p)]
  /\ proc[p].step = "save_outcome" => /\ proc[p].read = observer[proc[p].name]
                                      /\ proc[p].read.present
  /\ proc[p].chosen => reported[proc[p].name].contradicted <= MaxContradictions
  /\ proc[p].promoted => reported[Delivered(p)].contradicted <= MaxContradictions

AllCounted == \A n \in Names, kind \in Kinds : CountOf(observer[n], kind) = Room(n, kind)
AbsentIsEmpty ==
  \A n \in Names : ~observer[n].present =>
    observer[n].confirmed = 0 /\ observer[n].contradicted = 0

Alone ==
  undisturbed =>
    /\ \A p, q \in Procs : proc[p].step # "idle" /\ proc[q].step # "idle" => p = q
    /\ AllCounted
    /\ AbsentIsEmpty
    /\ \A p \in Procs : UpToDate(p)

LEMMA RoomSame ==
  ASSUME NEW p \in Procs, \A q \in Procs \ {p} : proc'[q] = proc[q],
         NEW n, NEW kind, Owes(p, n, kind)' <=> Owes(p, n, kind),
         ReportsOf(n, kind)' = ReportsOf(n, kind)
  PROVE  Room(n, kind)' = Room(n, kind)
  <1>1. Pending(n, kind)' = Pending(n, kind)
    BY DEF Pending, Owes
  <1>2. QED
    BY <1>1 DEF Room

(* With one process at work nothing or one outcome is owed.                 *)
LEMMA RoomOfOne ==
  ASSUME NEW p \in Procs, \A q \in Procs \ {p} : proc[q].step = "idle",
         NEW n, NEW kind, ReportsOf(n, kind) \in Nat
  PROVE  Room(n, kind) = ReportsOf(n, kind) - IF Owes(p, n, kind) THEN 1 ELSE 0
  <1>1. CASE Owes(p, n, kind)
    <2>1. Pending(n, kind) = {p}
      BY <1>1 DEF Pending, Owes
    <2>2. Cardinality(Pending(n, kind)) = 1
      BY <2>1, FS_Singleton
    <2>3. QED
      BY <1>1, <2>2 DEF Room
  <1>2. CASE ~Owes(p, n, kind)
    <2>1. Pending(n, kind) = {}
      BY <1>2 DEF Pending, Owes
    <2>2. Cardinality(Pending(n, kind)) = 0
      BY <2>1, FS_EmptySet
    <2>3. QED
      BY <1>2, <2>2 DEF Room
  <1>3. QED
    BY <1>1, <1>2

LEMMA RoomOfOneNext ==
  ASSUME NEW p \in Procs, \A q \in Procs \ {p} : proc'[q].step = "idle",
         NEW n, NEW kind, ReportsOf(n, kind)' \in Nat
  PROVE  Room(n, kind)' = ReportsOf(n, kind)' - IF Owes(p, n, kind)' THEN 1 ELSE 0
  <1>1. CASE Owes(p, n, kind)'
    <2>1. Pending(n, kind)' = {p}
      BY <1>1 DEF Pending, Owes
    <2>2. Cardinality(Pending(n, kind)') = 1
      BY <2>1, FS_Singleton
    <2>3. QED
      BY <1>1, <2>2 DEF Room
  <1>2. CASE ~Owes(p, n, kind)'
    <2>1. Pending(n, kind)' = {}
      BY <1>2 DEF Pending, Owes
    <2>2. Cardinality(Pending(n, kind)') = 0
      BY <2>1, FS_EmptySet
    <2>3. QED
      BY <1>2, <2>2 DEF Room
  <1>3. QED
    BY <1>1, <1>2

(* A step of the only process at work that changes no count.                *)
LEMMA AloneStays ==
  ASSUME IInv, Alone, undisturbed, NEW p \in Procs,
         \A q \in Procs \ {p} : proc'[q] = proc[q] /\ proc[q].step = "idle",
         reported' = reported, \A n, kind : Owes(p, n, kind)' <=> Owes(p, n, kind),
         \A n \in Names, kind \in Kinds : CountOf(observer'[n], kind) = CountOf(observer[n], kind),
         AbsentIsEmpty', UpToDate(p)'
  PROVE  Alone'
  <1>1. AllCounted'
    <2> SUFFICES ASSUME NEW n \in Names, NEW kind \in Kinds
                 PROVE  CountOf(observer'[n], kind) = Room(n, kind)'
      BY DEF AllCounted
    <2>1. ReportsOf(n, kind)' = ReportsOf(n, kind)
      BY DEF ReportsOf
    <2>2. Room(n, kind)' = Room(n, kind)
      BY <2>1, RoomSame
    <2>3. CountOf(observer[n], kind) = Room(n, kind)
      BY DEF Alone, AllCounted
    <2>4. QED
      BY <2>2, <2>3
  <1>2. \A q \in Procs \ {p} : UpToDate(q)'
    BY DEF UpToDate, IInv, HeldState
  <1>3. QED
    BY <1>1, <1>2 DEF Alone

(* A record that meets the history, with nothing owed, was not found wrong  *)
(* more often than the policy allows.                                       *)
LEMMA NotFoundWrong ==
  ASSUME IInv, Alone, undisturbed, NEW p \in Procs, NEW n \in Names,
         proc[p].step \notin {"idle", "outcome", "save_outcome"}, Meets(observer[n])
  PROVE  reported[n].contradicted <= MaxContradictions
  <1>1. \A q \in Procs \ {p} : proc[q].step = "idle"
    BY DEF Alone
  <1>2. "wrong" \in Kinds /\ "wrong" # "right"
    BY DEF Kinds
  <1>3. ReportsOf(n, "wrong") = reported[n].contradicted /\ ReportsOf(n, "wrong") \in Nat
    BY <1>2, StateOf DEF ReportsOf
  <1>4. ~Owes(p, n, "wrong")
    BY DEF Owes
  <1>5. Room(n, "wrong") = ReportsOf(n, "wrong")
    BY <1>1, <1>3, <1>4, RoomOfOne
  <1>6. observer[n].contradicted = CountOf(observer[n], "wrong")
    BY <1>2 DEF CountOf
  <1>7. CountOf(observer[n], "wrong") = Room(n, "wrong")
    BY <1>2 DEF Alone, AllCounted
  <1>8. QED
    BY <1>3, <1>5, <1>6, <1>7 DEF Meets

LEMMA NextAlone ==
  ASSUME IInv, Alone, Next
  PROVE  Alone'
  <1> SUFFICES ASSUME undisturbed' PROVE Alone'
    BY DEF Alone
  <1> PICK p \in Procs :
        \/ \E n \in Names, yes \in BOOLEAN : StartLoop(p, n, yes) \/ ReportOutcome(p, n, yes)
        \/ Step(p) \/ Stop(p)
    BY DEF Next
  <1>t. TypeOK /\ TypeOK'
    BY NextTypeOK DEF IInv
  <1>s. /\ proc \in [Procs -> ProcStates] /\ proc[p] \in ProcStates
        /\ observer \in [Names -> Histories]
        /\ proc[p].step # "idle" => proc[p].name \in Names /\ Delivered(p) \in Names
        /\ HeldState(p)
    BY StateOf DEF IInv
  <1>m. undisturbed /\ proc[p].step # "idle" =>
          /\ \A q \in Procs \ {p} : proc[q].step = "idle"
          /\ UpToDate(p) /\ AbsentIsEmpty
    BY DEF Alone
  (* The report promises its own count.                                     *)
  <1>1. ASSUME NEW m \in Names, NEW yes \in BOOLEAN, ReportOutcome(p, m, yes) PROVE Alone'
    <2>1. /\ proc' = [proc EXCEPT ![p] = [Idle EXCEPT !.step = "outcome", !.name = m,
                                                      !.confirmed = yes]]
          /\ observer' = observer /\ undisturbed' = (undisturbed /\ Resting)
      BY <1>1 DEF ReportOutcome, Start
    <2>2. undisturbed /\ Resting
      BY <2>1, Zenon
    <2>3. /\ proc'[p].step = "outcome" /\ proc'[p].name = m
          /\ ~proc'[p].chosen /\ ~proc'[p].promoted
          /\ \A q \in Procs \ {p} : proc'[q] = proc[q]
          /\ \A q \in Procs : proc[q].step = "idle"
      BY <2>1, <2>2, <1>s DEF Idle, Resting, At
    <2>4. proc'[p].confirmed = yes
      BY <2>1, <1>s, Zenon DEF Idle
    <2>5. AllCounted'
      <3> SUFFICES ASSUME NEW n \in Names, NEW kind \in Kinds
                   PROVE  CountOf(observer[n], kind) = Room(n, kind)'
        BY <2>1 DEF AllCounted
      <3>1. CountOf(observer[n], kind) = Room(n, kind)
        BY <2>2 DEF Alone, AllCounted
      <3>2. ReportsOf(n, kind) \in Nat /\ ReportsOf(n, kind)' \in Nat
        BY <1>t, RoomNow, RoomNext
      <3>3. Room(n, kind) = ReportsOf(n, kind)
        <4>1. ~Owes(p, n, kind)
          BY <2>3 DEF Owes
        <4>2. QED
          BY <2>3, <3>2, <4>1, RoomOfOne
      <3>4. Room(n, kind)' = ReportsOf(n, kind)' - IF Owes(p, n, kind)' THEN 1 ELSE 0
        BY <2>3, <3>2, RoomOfOneNext
      <3>5. CASE n = m /\ kind = (IF yes THEN "right" ELSE "wrong")
        <4>1. Owes(p, n, kind)'
          BY <2>3, <2>4, <3>5 DEF Owes
        <4>2. ReportsOf(n, kind)' = ReportsOf(n, kind) + 1
          BY <1>1, <3>5, ReportCounts DEF ReportsOf
        <4>3. QED
          BY <3>1, <3>2, <3>3, <3>4, <4>1, <4>2
      <3>6. CASE ~(n = m /\ kind = (IF yes THEN "right" ELSE "wrong"))
        <4>1. ~Owes(p, n, kind)'
          BY <2>3, <2>4, <3>6 DEF Owes
        <4>2. ReportsOf(n, kind)' = ReportsOf(n, kind)
          <5>1. /\ n # m => reported'[n] = reported[n]
                /\ reported'[n].confirmed =
                     reported[n].confirmed + IF n = m /\ yes THEN 1 ELSE 0
                /\ reported'[n].contradicted =
                     reported[n].contradicted + IF n = m /\ ~yes THEN 1 ELSE 0
                /\ reported[n].confirmed \in Nat /\ reported[n].contradicted \in Nat
            BY <1>1, ReportCounts, StateOf
          <5>2. CASE n # m
            BY <5>1, <5>2 DEF ReportsOf
          <5>3. CASE n = m /\ yes
            <6>1. kind # "right"
              BY <3>6, <5>3
            <6>2. QED
              BY <5>1, <5>3, <6>1 DEF ReportsOf
          <5>4. CASE n = m /\ ~yes
            <6>1. kind = "right"
              BY <3>6, <5>4 DEF Kinds
            <6>2. QED
              BY <5>1, <5>4, <6>1 DEF ReportsOf
          <5>5. QED
            BY <5>2, <5>3, <5>4
        <4>3. QED
          BY <3>1, <3>2, <3>3, <3>4, <4>1, <4>2
      <3>7. QED
        BY <3>5, <3>6
    <2>6. \A q \in Procs : UpToDate(q)'
      BY <2>3 DEF UpToDate, IInv, HeldState
    <2>7. AbsentIsEmpty'
      BY <2>1, <2>2 DEF Alone, AbsentIsEmpty
    <2>8. QED
      BY <2>3, <2>5, <2>6, <2>7 DEF Alone
  <1>2. ASSUME NEW n \in Names, NEW yes \in BOOLEAN, StartLoop(p, n, yes) PROVE Alone'
    <2> DEFINE first == IF observer[n].present THEN "select" ELSE "ensure"
    <2>1. /\ proc' = [proc EXCEPT ![p] = [Idle EXCEPT !.name = n, !.approved = yes,
                                                      !.step = first]]
          /\ proc[p].step = "idle"
          /\ observer' = observer /\ reported' = reported
          /\ undisturbed' = (undisturbed /\ Resting)
      BY <1>2 DEF StartLoop, Start, At
    <2>2. undisturbed /\ Resting
      BY <2>1, Zenon
    <2>3. first \in {"select", "ensure"} /\ (first = "ensure" => ~observer[n].present)
      OBVIOUS
    <2> HIDE DEF first
    <2>4. /\ proc'[p].step = first /\ proc'[p].name = n
          /\ ~proc'[p].chosen /\ ~proc'[p].promoted
          /\ \A q \in Procs \ {p} : proc'[q] = proc[q] /\ proc[q].step = "idle"
      BY <2>1, <2>2, <1>s DEF Idle, Resting, At
    <2>5. UpToDate(p)' /\ \A m, kind : Owes(p, m, kind)' <=> Owes(p, m, kind)
      BY <2>1, <2>3, <2>4 DEF UpToDate, Owes
    <2>6. AbsentIsEmpty'
      BY <2>1, <2>2 DEF Alone, AbsentIsEmpty
    <2>7. \A m \in Names, kind \in Kinds :
            CountOf(observer'[m], kind) = CountOf(observer[m], kind)
      BY <2>1
    <2>8. QED
      BY <2>1, <2>2, <2>4, <2>5, <2>6, <2>7, AloneStays
  <1>3. CASE Stop(p)
    BY <1>3, Zenon DEF Stop
  (* The record written anew was not there: it counted nothing.             *)
  <1>4. CASE EnsureObserverEntity(p)
    <2>1. /\ proc[p].step = "ensure" /\ proc' = [proc EXCEPT ![p].step = "select"]
          /\ observer' = [observer EXCEPT ![proc[p].name] = ZeroCounts]
          /\ reported' = reported /\ undisturbed' = undisturbed
      BY <1>4 DEF EnsureObserverEntity, At, Goto
    <2>2. undisturbed
      BY <2>1, Zenon
    <2>3. /\ proc'[p] = [proc[p] EXCEPT !.step = "select"]
          /\ \A q \in Procs \ {p} : proc'[q] = proc[q]
      BY <2>1, <1>s
    <2>3a. /\ proc'[p].step = "select" /\ proc'[p].name = proc[p].name
           /\ proc'[p].chosen = proc[p].chosen /\ proc'[p].promoted = proc[p].promoted
      BY <2>3, <1>s DEF ProcStates
    <2>4. ZeroCounts.present /\ ZeroCounts.confirmed = 0 /\ ZeroCounts.contradicted = 0
      BY DEF ZeroCounts
    <2>5. /\ proc[p].name \in Names /\ observer[proc[p].name].confirmed = 0
          /\ observer[proc[p].name].contradicted = 0
      BY <2>1, <2>2, <1>m, <1>s DEF UpToDate, AbsentIsEmpty
    <2>6. \A n \in Names : /\ observer'[n].confirmed = observer[n].confirmed
                           /\ observer'[n].contradicted = observer[n].contradicted
      BY <2>1, <2>4, <2>5, <1>s
    <2>7. AbsentIsEmpty'
      BY <2>1, <2>2, <2>4, <2>6, <1>m, <1>s DEF AbsentIsEmpty
    <2>8. UpToDate(p)' /\ \A n, kind : Owes(p, n, kind)' <=> Owes(p, n, kind)
      BY <2>1, <2>2, <2>3a, <1>m DEF UpToDate, Owes, Delivered
    <2>9. \A n \in Names, kind \in Kinds :
            CountOf(observer'[n], kind) = CountOf(observer[n], kind)
      BY <2>6 DEF CountOf
    <2>10. QED
      BY <2>1, <2>2, <2>3, <2>7, <2>8, <2>9, <1>m, AloneStays
  (* Trust is put on a record from which nothing is missing.                *)
  <1>5. ASSUME NEW yes \in BOOLEAN, SelectObserver(p, yes) PROVE Alone'
    <2>1. /\ proc[p].step = "select"
          /\ yes \/ proc[p].name \in Strongest({proc[p].name})
          /\ proc'[p] = [proc[p] EXCEPT !.step = "hire", !.chosen = ~yes]
          /\ \A q \in Procs \ {p} : proc'[q] = proc[q]
          /\ observer' = observer /\ reported' = reported /\ undisturbed' = undisturbed
      BY <1>5, <1>s DEF SelectObserver, At
    <2>2. undisturbed
      BY <2>1, Zenon
    <2>3. /\ proc'[p].step = "hire" /\ proc'[p].name = proc[p].name
          /\ proc'[p].chosen = ~yes /\ proc'[p].promoted = proc[p].promoted
      BY <2>1, <1>s DEF ProcStates
    <2>4. ASSUME ~yes PROVE reported[proc[p].name].contradicted <= MaxContradictions
      <3>1. proc[p].name \in Names /\ Meets(observer[proc[p].name])
        BY <2>1, <2>4, <1>s DEF Strongest
      <3>2. PICK n \in Names : n = proc[p].name
        BY <3>1
      <3>3. reported[n].contradicted <= MaxContradictions
        BY <2>1, <2>2, <3>1, <3>2, NotFoundWrong
      <3>4. QED
        BY <3>2, <3>3
    <2>5. UpToDate(p)' /\ \A n, kind : Owes(p, n, kind)' <=> Owes(p, n, kind)
      BY <2>1, <2>2, <2>3, <2>4, <1>m DEF UpToDate, Owes, Delivered
    <2>6. AbsentIsEmpty'
      BY <2>1, <2>2, <1>m DEF AbsentIsEmpty
    <2>7. \A n \in Names, kind \in Kinds :
            CountOf(observer'[n], kind) = CountOf(observer[n], kind)
      BY <2>1
    <2>8. QED
      BY <2>1, <2>2, <2>5, <2>6, <2>7, <1>m, AloneStays
  <1>6. ASSUME NEW yes \in BOOLEAN, Decide(p, yes) PROVE Alone'
    <2>0. ASSUME yes PROVE ObserversSuffice
      BY <1>6, <2>0, Zenon DEF Decide
    <2>1. /\ proc[p].step = "decide"
          /\ proc'[p] = [proc[p] EXCEPT !.step = "signal", !.promoted = yes]
          /\ \A q \in Procs \ {p} : proc'[q] = proc[q]
          /\ observer' = observer /\ reported' = reported /\ undisturbed' = undisturbed
      BY <1>6, <1>s DEF Decide, At
    <2>2. undisturbed
      BY <2>1, Zenon
    <2>3. /\ proc'[p].step = "signal" /\ proc'[p].name = proc[p].name
          /\ proc'[p].chosen = proc[p].chosen /\ proc'[p].promoted = yes
      BY <2>1, <1>s DEF ProcStates
    <2>4. ASSUME yes PROVE reported[Delivered(p)].contradicted <= MaxContradictions
      <3>1. Delivered(p) \in Names /\ Meets(observer[Delivered(p)])
        BY <2>0, <2>1, <2>4, <1>s DEF HeldState, ObserversSuffice
      <3>2. PICK n \in Names : n = Delivered(p)
        BY <3>1
      <3>3. reported[n].contradicted <= MaxContradictions
        BY <2>1, <2>2, <3>1, <3>2, NotFoundWrong
      <3>4. QED
        BY <3>2, <3>3
    <2>5. UpToDate(p)' /\ \A n, kind : Owes(p, n, kind)' <=> Owes(p, n, kind)
      BY <2>1, <2>2, <2>3, <2>4, <1>m DEF UpToDate, Owes, Delivered
    <2>6. AbsentIsEmpty'
      BY <2>1, <2>2, <1>m DEF AbsentIsEmpty
    <2>7. \A n \in Names, kind \in Kinds :
            CountOf(observer'[n], kind) = CountOf(observer[n], kind)
      BY <2>1
    <2>8. QED
      BY <2>1, <2>2, <2>5, <2>6, <2>7, <1>m, AloneStays
  (* Steps that write no record and read none.                              *)
  <1>7. CASE Hire(p) \/ StoreReading(p)
    <2>1. /\ proc[p].step \in {"hire", "store"}
          /\ \/ proc'[p] = [proc[p] EXCEPT !.step = "store"]
             \/ proc'[p] = [proc[p] EXCEPT !.step = "identify"]
          /\ \A q \in Procs \ {p} : proc'[q] = proc[q]
          /\ observer' = observer /\ reported' = reported /\ undisturbed' = undisturbed
      BY <1>7, <1>s DEF Hire, StoreReading, At, Goto
    <2>2. undisturbed
      BY <2>1, Zenon
    <2>3. /\ proc'[p].step \in {"store", "identify"} /\ proc'[p].name = proc[p].name
          /\ proc'[p].chosen = proc[p].chosen /\ proc'[p].promoted = proc[p].promoted
      BY <2>1, <1>s DEF ProcStates
    <2>4. UpToDate(p)' /\ \A n, kind : Owes(p, n, kind)' <=> Owes(p, n, kind)
      BY <2>1, <2>2, <2>3, <1>m DEF UpToDate, Owes, Delivered
    <2>5. AbsentIsEmpty'
      BY <2>1, <2>2, <1>m DEF AbsentIsEmpty
    <2>6. \A n \in Names, kind \in Kinds :
            CountOf(observer'[n], kind) = CountOf(observer[n], kind)
      BY <2>1
    <2>7. QED
      BY <2>1, <2>2, <2>4, <2>5, <2>6, <1>m, AloneStays
  <1>8. CASE WriteReputationSignal(p)
    <2>1. /\ proc[p].step = "signal" /\ proc'[p] = Idle
          /\ \A q \in Procs \ {p} : proc'[q] = proc[q]
          /\ observer' = observer /\ reported' = reported /\ undisturbed' = undisturbed
      BY <1>8, <1>s DEF WriteReputationSignal, At
    <2>2. undisturbed
      BY <2>1, Zenon
    <2>3. UpToDate(p)' /\ \A n, kind : Owes(p, n, kind)' <=> Owes(p, n, kind)
      BY <2>1 DEF UpToDate, Owes, Idle
    <2>4. AbsentIsEmpty'
      BY <2>1, <2>2, <1>m DEF AbsentIsEmpty
    <2>5. \A n \in Names, kind \in Kinds :
            CountOf(observer'[n], kind) = CountOf(observer[n], kind)
      BY <2>1
    <2>6. QED
      BY <2>1, <2>2, <2>3, <2>4, <2>5, <1>m, AloneStays
  <1>9. CASE ReadIdentity(p)
    <2>1. /\ proc[p].step = "identify"
          /\ proc'[p] = [proc[p] EXCEPT !.step = "save_identity", !.read = observer[Delivered(p)]]
          /\ \A q \in Procs \ {p} : proc'[q] = proc[q]
          /\ observer' = observer /\ reported' = reported /\ undisturbed' = undisturbed
      BY <1>9, <1>s DEF ReadIdentity, At
    <2>2. undisturbed
      BY <2>1, Zenon
    <2>3. /\ proc'[p].step = "save_identity" /\ proc'[p].name = proc[p].name
          /\ proc'[p].read = observer[Delivered(p)]
          /\ proc'[p].chosen = proc[p].chosen /\ proc'[p].promoted = proc[p].promoted
      BY <2>1, <1>s DEF ProcStates
    <2>4. UpToDate(p)' /\ \A n, kind : Owes(p, n, kind)' <=> Owes(p, n, kind)
      BY <2>1, <2>2, <2>3, <1>m DEF UpToDate, Owes, Delivered
    <2>5. AbsentIsEmpty'
      BY <2>1, <2>2, <1>m DEF AbsentIsEmpty
    <2>6. \A n \in Names, kind \in Kinds :
            CountOf(observer'[n], kind) = CountOf(observer[n], kind)
      BY <2>1
    <2>7. QED
      BY <2>1, <2>2, <2>4, <2>5, <2>6, <1>m, AloneStays
  (* The record is written back as it is stored, but for its identity.      *)
  <1>10. CASE SaveIdentity(p)
    <2> DEFINE h == [proc[p].read EXCEPT !.present = TRUE, !.identified = TRUE]
    <2>1. /\ proc[p].step = "save_identity" /\ proc'[p] = [proc[p] EXCEPT !.step = "decide"]
          /\ \A q \in Procs \ {p} : proc'[q] = proc[q]
          /\ observer' = [observer EXCEPT ![Delivered(p)] = h]
          /\ reported' = reported /\ undisturbed' = undisturbed
      BY <1>10, <1>s DEF SaveIdentity, At, Goto
    <2>2. undisturbed
      BY <2>1, Zenon
    <2>3. /\ proc'[p].step = "decide" /\ proc'[p].name = proc[p].name
          /\ proc'[p].chosen = proc[p].chosen /\ proc'[p].promoted = proc[p].promoted
      BY <2>1, <1>s DEF ProcStates
    <2>4. /\ h.present /\ h.confirmed = proc[p].read.confirmed
          /\ h.contradicted = proc[p].read.contradicted
      BY StateOf DEF Histories
    <2>5. /\ Delivered(p) \in Names /\ proc[p].read = observer[Delivered(p)]
      BY <2>1, <2>2, <1>m, <1>s DEF UpToDate
    <2> HIDE DEF h
    <2>6. \A n \in Names : /\ observer'[n].confirmed = observer[n].confirmed
                           /\ observer'[n].contradicted = observer[n].contradicted
      BY <2>1, <2>4, <2>5, <1>s
    <2>7. AbsentIsEmpty'
      BY <2>1, <2>2, <2>4, <2>6, <1>m, <1>s DEF AbsentIsEmpty
    <2>8. UpToDate(p)' /\ \A n, kind : Owes(p, n, kind)' <=> Owes(p, n, kind)
      BY <2>1, <2>2, <2>3, <1>m DEF UpToDate, Owes, Delivered
    <2>9. \A n \in Names, kind \in Kinds :
            CountOf(observer'[n], kind) = CountOf(observer[n], kind)
      BY <2>6 DEF CountOf
    <2>10. QED
      BY <2>1, <2>2, <2>7, <2>8, <2>9, <1>m, AloneStays
  <1>11. CASE ReadOutcome(p)
    <2>1. /\ proc[p].step = "outcome" /\ observer[proc[p].name].present
          /\ proc'[p] = [proc[p] EXCEPT !.step = "save_outcome", !.read = observer[proc[p].name]]
          /\ \A q \in Procs \ {p} : proc'[q] = proc[q]
          /\ observer' = observer /\ reported' = reported /\ undisturbed' = undisturbed
      BY <1>11, <1>s DEF ReadOutcome, At
    <2>2. undisturbed
      BY <2>1, Zenon
    <2>3. /\ proc'[p].step = "save_outcome" /\ proc'[p].name = proc[p].name
          /\ proc'[p].read = observer[proc[p].name]
          /\ proc'[p].chosen = proc[p].chosen /\ proc'[p].promoted = proc[p].promoted
      BY <2>1, <1>s DEF ProcStates
    <2>3a. proc'[p].confirmed = proc[p].confirmed
      BY <2>1, <1>s, Zenon DEF ProcStates
    <2>4. UpToDate(p)' /\ \A n, kind : Owes(p, n, kind)' <=> Owes(p, n, kind)
      BY <2>1, <2>2, <2>3, <2>3a, <1>m DEF UpToDate, Owes, Delivered
    <2>5. AbsentIsEmpty'
      BY <2>1, <2>2, <1>m DEF AbsentIsEmpty
    <2>6. \A n \in Names, kind \in Kinds :
            CountOf(observer'[n], kind) = CountOf(observer[n], kind)
      BY <2>1
    <2>7. QED
      BY <2>1, <2>2, <2>4, <2>5, <2>6, <1>m, AloneStays
  (* What is owed is counted.                                               *)
  <1>12. CASE SaveOutcome(p)
    <2> DEFINE name == proc[p].name
    <2> DEFINE yes == proc[p].confirmed
    <2> DEFINE h == ApplyOutcome(proc[p].read, yes)
    <2>1. /\ proc[p].step = "save_outcome" /\ name \in Names /\ yes \in BOOLEAN
          /\ proc'[p] = Idle /\ \A q \in Procs \ {p} : proc'[q] = proc[q]
          /\ observer' = [observer EXCEPT ![name] = h]
          /\ reported' = reported /\ undisturbed' = undisturbed
      BY <1>12, <1>s DEF SaveOutcome, At, ProcStates
    <2>2. undisturbed
      BY <2>1, Zenon
    <2>3. proc[p].read = observer[name] /\ proc[p].read.present
      BY <2>1, <2>2, <1>m DEF UpToDate
    <2>4. /\ h.confirmed = proc[p].read.confirmed + IF yes THEN 1 ELSE 0
          /\ h.contradicted = proc[p].read.contradicted + IF yes THEN 0 ELSE 1
          /\ proc[p].read.confirmed \in Nat /\ proc[p].read.contradicted \in Nat
      BY <2>1, StateOf, OutcomeCounts DEF Histories
    <2>5. h.present
      BY <2>3, StateOf DEF ApplyOutcome, Histories
    <2> HIDE DEF h
    <2>6. AbsentIsEmpty'
      <3> SUFFICES ASSUME NEW n \in Names, ~observer'[n].present
                   PROVE  observer'[n].confirmed = 0 /\ observer'[n].contradicted = 0
        BY DEF AbsentIsEmpty
      <3>1. n # name
        BY <2>1, <2>5, <1>s
      <3>2. observer'[n] = observer[n]
        BY <2>1, <3>1, <1>s
      <3>3. QED
        BY <2>1, <2>2, <3>2, <1>m DEF AbsentIsEmpty
    <2>7. /\ \A q \in Procs \ {p} : proc[q].step = "idle" /\ proc'[q].step = "idle"
          /\ proc'[p].step = "idle" /\ ~proc'[p].chosen /\ ~proc'[p].promoted
      BY <2>1, <2>2, <1>m DEF Idle
    <2>8. AllCounted'
      <3> SUFFICES ASSUME NEW n \in Names, NEW kind \in Kinds
                   PROVE  CountOf(observer'[n], kind) = Room(n, kind)'
        BY DEF AllCounted
      <3>1. CountOf(observer[n], kind) = Room(n, kind)
        BY <2>2 DEF Alone, AllCounted
      <3>2. ReportsOf(n, kind) \in Nat /\ ReportsOf(n, kind)' = ReportsOf(n, kind)
        BY <2>1, <1>t, RoomNow DEF ReportsOf
      <3>3. Room(n, kind) = ReportsOf(n, kind) - IF Owes(p, n, kind) THEN 1 ELSE 0
        BY <2>7, <3>2, RoomOfOne
      <3>4. Room(n, kind)' = ReportsOf(n, kind)
        <4>1. ~Owes(p, n, kind)'
          BY <2>7 DEF Owes
        <4>2. QED
          BY <2>7, <3>2, <4>1, RoomOfOneNext
      <3>5. CASE n # name
        <4>1. observer'[n] = observer[n] /\ ~Owes(p, n, kind)
          BY <2>1, <3>5, <1>s DEF Owes
        <4>2. QED
          BY <3>1, <3>2, <3>3, <3>4, <4>1
      <3>6. CASE n = name
        <4>1. observer'[n] = h /\ observer[n] = proc[p].read
          BY <2>1, <2>3, <3>6, <1>s
        <4>2. CASE kind = (IF yes THEN "right" ELSE "wrong")
          <5>1. Owes(p, n, kind)
            BY <2>1, <3>6, <4>2 DEF Owes
          <5>2. CountOf(h, kind) = CountOf(proc[p].read, kind) + 1
            BY <2>4, <4>2 DEF CountOf
          <5>3. QED
            BY <3>1, <3>2, <3>3, <3>4, <4>1, <5>1, <5>2
        <4>3. CASE kind # (IF yes THEN "right" ELSE "wrong")
          <5>1. ~Owes(p, n, kind)
            BY <4>3 DEF Owes
          <5>2. CountOf(h, kind) = CountOf(proc[p].read, kind)
            BY <2>4, <4>3 DEF CountOf, Kinds
          <5>3. QED
            BY <3>1, <3>2, <3>3, <3>4, <4>1, <5>1, <5>2
        <4>4. QED
          BY <4>2, <4>3
      <3>7. QED
        BY <3>5, <3>6
    <2>9. \A q \in Procs : UpToDate(q)'
      BY <2>1, <2>7 DEF UpToDate, IInv, HeldState
    <2>10. QED
      BY <2>6, <2>7, <2>8, <2>9 DEF Alone
  <1>13. QED
    BY <1>1, <1>2, <1>3, <1>4, <1>5, <1>6, <1>7, <1>8, <1>9, <1>10, <1>11, <1>12 DEF Step

LEMMA AloneHolds == Spec => []Alone
  <1>1. Init => Alone
    <2> SUFFICES ASSUME Init PROVE Alone
      OBVIOUS
    <2>1. \A p \in Procs : UpToDate(p) /\ proc[p].step = "idle"
      BY AtFirst DEF UpToDate, Idle
    <2>2. AllCounted
      BY AtFirst DEF AllCounted
    <2>3. AbsentIsEmpty
      BY DEF Init, AbsentIsEmpty, NoHistory
    <2>4. QED
      BY <2>1, <2>2, <2>3 DEF Alone
  <1>2. IInv /\ Alone /\ [Next]_vars => Alone'
    <2>1. ASSUME Alone, UNCHANGED vars PROVE Alone'
      <3>1. /\ proc' = proc /\ reported' = reported /\ observer' = observer
            /\ undisturbed' = undisturbed
        BY <2>1 DEF vars
      <3>2. \A n, kind : Room(n, kind)' = Room(n, kind)
        BY <3>1 DEF Room, Pending, Owes, ReportsOf
      <3>3. AllCounted' = AllCounted /\ AbsentIsEmpty' = AbsentIsEmpty
        BY <3>1, <3>2 DEF AllCounted, AbsentIsEmpty
      <3>4. \A p \in Procs : UpToDate(p)' = UpToDate(p)
        BY <3>1 DEF UpToDate, Delivered
      <3>5. QED
        BY <2>1, <3>1, <3>3, <3>4 DEF Alone
    <2>2. QED
      BY <2>1, NextAlone
  <1>3. QED
    BY <1>1, <1>2, InvariantHolds, PTL DEF Spec

(* However many processes run the loop, and wherever they die, a seller     *)
(* chosen on its record, and an observer whose reading is promoted, was     *)
(* reported right at least MinHistory times; and no more often wrong than   *)
(* the policy allows, unless calls overlapped or were cut short.            *)
THEOREM TrustIsEarned == Spec => []TrustIsOnRecord
  <1>1. IInv /\ Alone => TrustIsOnRecord
    <2> SUFFICES ASSUME IInv, Alone, NEW p \in Procs
                 PROVE  /\ proc[p].chosen => Trusted(proc[p].name)
                        /\ proc[p].promoted => Trusted(Delivered(p))
      BY DEF TrustIsOnRecord
    <2>1. HeldState(p) /\ (undisturbed => UpToDate(p))
      BY DEF IInv, Alone
    <2>2. QED
      BY <2>1 DEF HeldState, UpToDate, Trusted
  <1>2. QED
    BY <1>1, InvariantHolds, AloneHolds, PTL

(* Operations that never overlap and are never cut short lose nothing: at   *)
(* rest every outcome reported is counted.  (record_observer_outcome)       *)
THEOREM NothingIsLost == Spec => []NothingLostAlone
  <1>1. IInv /\ Alone => NothingLostAlone
    <2> SUFFICES ASSUME IInv, Alone, undisturbed, Resting, NEW n \in Names
                 PROVE  /\ observer[n].confirmed = reported[n].confirmed
                        /\ observer[n].contradicted = reported[n].contradicted
      BY DEF NothingLostAlone
    <2>1. ASSUME NEW kind \in Kinds PROVE CountOf(observer[n], kind) = ReportsOf(n, kind)
      <3>1. Pending(n, kind) = {}
        BY DEF Resting, At, Pending, Owes
      <3>2. Cardinality(Pending(n, kind)) = 0
        BY <3>1, FS_EmptySet
      <3>3. CountOf(observer[n], kind) = Room(n, kind)
        BY DEF Alone, AllCounted
      <3>4. QED
        BY <3>2, <3>3, RoomNow DEF IInv
    <2>2. QED
      BY <2>1 DEF Kinds, CountOf, ReportsOf
  <1>2. QED
    BY <1>1, InvariantHolds, AloneHolds, PTL

===============================================================================
