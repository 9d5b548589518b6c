-------------------------- MODULE EvidenceGate_proofs --------------------------
(***************************************************************************)
(* However deliveries, reviews, verifiers and approvers overlap over one    *)
(* store: every value is of its type, what the ledger has answered stands, *)
(* what is accepted under a policy that requires approval was approved,    *)
(* the store is a ledger as module TemporalLedger describes it, and what a *)
(* review finds fresh is as fresh as the policy asks.                      *)
(***************************************************************************)
EXTENDS EvidenceGate, TemporalFacts

(* The row a linked delivery names is one of an earlier period.            *)
Traced(d, L) ==
  d.step = "linked" /\ d.ref # NoUID => \E p \in L : p.uid = d.ref /\ p.eff < d.eff

LedgerInv ==
  /\ LedgerTypeOK
  /\ IsFiniteSet(ledger)
  /\ ~imports => /\ \A r \in ledger : IsDelivered(r, ledger)
                 /\ \A p \in Recorders : Traced(receiving[p], ledger)

(* Every row is carried over, and time does not go back. *)
LedgerGrows ==
  Within(ledger, ledger') /\ clock <= clock' /\ imports' = imports

-----------------------------------------------------------------------------
LEMMA SameFacts ==
  ASSUME NEW r \in Rows, NEW t \in Rows, Unaccepted(t) = Unaccepted(r)
  PROVE  SameRow(r, t)
  BY DEF Unaccepted, Rows, SameRow

-----------------------------------------------------------------------------
(* What one write of a row does to the ledger. *)
LEMMA SavedLedger ==
  ASSUME LedgerTypeOK, IsFiniteSet(ledger), NEW row \in Rows, SaveObservation(row)
  PROVE  /\ ledger' \in Ledgers /\ IsFiniteSet(ledger') /\ clock' = clock
         /\ Within(ledger, ledger')
         /\ \A t \in ledger' : t = row \/ t \in ledger
  <1>1. /\ ledger' = {r \in ledger : r.uid # row.uid} \cup {row}
        /\ \A r \in ledger : r.uid = row.uid => Unaccepted(r) = Unaccepted(row)
        /\ clock' = clock
    BY DEF SaveObservation, Immutable
  <1>2. \A r \in ledger : r.uid = row.uid => SameRow(r, row)
    BY <1>1, SameFacts DEF LedgerTypeOK, Ledgers
  <1>3. ledger' \in Ledgers /\ IsFiniteSet(ledger') /\ Within(ledger, ledger')
    BY <1>1, <1>2, SavedRows DEF LedgerTypeOK
  <1>4. QED
    BY <1>1, <1>3

(* What a promotion does to it. *)
LEMMA MarkedLedger ==
  ASSUME LedgerTypeOK, IsFiniteSet(ledger), NEW snapshot, PromoteAcceptance(snapshot)
  PROVE  /\ ledger' \in Ledgers /\ IsFiniteSet(ledger') /\ clock' = clock
         /\ Within(ledger, ledger') /\ Within(ledger', ledger)
  BY MarkedRows DEF PromoteAcceptance, LedgerTypeOK

LEMMA ArrivingAreUIDs == Arriving \subseteq UIDs
  BY ImportUIDsAreUIDs DEF Arriving

(* What a delivery on its way carries. *)
LEMMA DeliveryFields ==
  ASSUME NEW d \in DeliveryStates
  PROVE  /\ d.step \in {"stamped", "linked"} => d.receipt \in Times
         /\ d.step = "linked" => d.eff \in Times /\ d.ref \in UIDs \cup {NoUID}
  <1>1. CASE d = Nothing
    BY <1>1 DEF Nothing
  <1>2. CASE d \in [step : {"stamped"}, receipt : Times]
    BY <1>2
  <1>3. CASE d \in [step : {"linked"}, receipt : Times, eff : Times, ref : UIDs \cup {NoUID}]
    BY <1>3
  <1>4. QED
    BY <1>1, <1>2, <1>3 DEF DeliveryStates

(* One recorder takes a step with its delivery, or none does. *)
LEMMA OneRecorderSteps ==
  ASSUME LedgerInv, Within(ledger, ledger'), NEW p \in Recorders, NEW d \in DeliveryStates,
         receiving' = [receiving EXCEPT ![p] = d], ~imports => Traced(d, ledger')
  PROVE  /\ receiving' \in [Recorders -> DeliveryStates]
         /\ ~imports => \A q \in Recorders : Traced(receiving'[q], ledger')
  <1>1. receiving \in [Recorders -> DeliveryStates]
    BY DEF LedgerInv, LedgerTypeOK
  <1>2. ASSUME ~imports, NEW q \in Recorders PROVE Traced(receiving'[q], ledger')
    <2>1. CASE q = p
      BY <1>1, <1>2, <2>1
    <2>2. CASE q # p
      BY <1>1, <1>2, <2>2 DEF LedgerInv, Traced, Within, SameRow
    <2>3. QED
      BY <2>1, <2>2
  <1>3. QED
    BY <1>1, <1>2

LEMMA NoRecorderSteps ==
  ASSUME LedgerInv, Within(ledger, ledger'), receiving' = receiving
  PROVE  /\ receiving' \in [Recorders -> DeliveryStates]
         /\ ~imports => \A q \in Recorders : Traced(receiving'[q], ledger')
  BY DEF LedgerInv, LedgerTypeOK, Traced, Within, SameRow

LEMMA WithinItself ==
  ASSUME NEW L PROVE Within(L, L)
  BY DEF Within, SameRow

LEMMA NothingIsTraced == Nothing \in DeliveryStates /\ \A L : Traced(Nothing, L)
  BY DEF Nothing, DeliveryStates, Traced

(* What carries over when no row is added. *)
LEMMA NoNewRow ==
  ASSUME LedgerInv, LedgerGrows, ledger' \in Ledgers, IsFiniteSet(ledger'),
         clock' \in Times, Within(ledger', ledger),
         receiving' \in [Recorders -> DeliveryStates],
         ~imports => \A q \in Recorders : Traced(receiving'[q], ledger')
  PROVE  LedgerInv'
  <1>1. ASSUME ~imports, NEW t \in ledger' PROVE IsDelivered(t, ledger')
    <2>1. PICK r \in ledger : SameRow(t, r)
      BY DEF Within
    <2>2. SameRow(r, t) /\ IsDelivered(r, ledger)
      BY <1>1, <2>1 DEF SameRow, LedgerInv
    <2>3. QED
      BY <2>2, DeliveredIsCarried DEF LedgerGrows
  <1>2. QED
    BY <1>1 DEF LedgerInv, LedgerTypeOK, LedgerGrows

(* A delivery is stamped, lost or linked: the ledger stays as it is.        *)
LEMMA ReceiveStep ==
  ASSUME LedgerInv, NEW p \in Recorders,
         \/ StampDelivery(p) \/ LoseDelivery(p)
         \/ \E references \in SUBSET Recorded :
              (~imports => references = {}) /\ LinkOf(p, references),
         imports' = imports
  PROVE  LedgerInv' /\ LedgerGrows
  <1>1. UNCHANGED <<clock, ledger>>
    BY DEF StampDelivery, LoseDelivery, LinkOf, LinkDelivery
  <1>2. /\ ledger \in SUBSET Rows /\ IsFiniteSet(ledger) /\ clock \in Times /\ clock \in Int
        /\ receiving[p] \in DeliveryStates
    BY TimeBound DEF LedgerInv, LedgerTypeOK, Ledgers, Times
  <1>3. PICK d \in DeliveryStates :
          receiving' = [receiving EXCEPT ![p] = d] /\ (~imports => Traced(d, ledger))
    <2>1. CASE StampDelivery(p)
      <3>1. Stamped(clock) \in DeliveryStates /\ Traced(Stamped(clock), ledger)
        BY <1>2 DEF Stamped, DeliveryStates, Traced
      <3>2. QED
        BY <2>1, <3>1 DEF StampDelivery
    <2>2. CASE LoseDelivery(p)
      BY <2>2, NothingIsTraced DEF LoseDelivery
    <2>3. ASSUME NEW references \in SUBSET Recorded, ~imports => references = {},
                 LinkOf(p, references)
          PROVE  \E d \in DeliveryStates :
                   receiving' = [receiving EXCEPT ![p] = d] /\ (~imports => Traced(d, ledger))
      <3>1. PICK eff \in Times, named \in references \cup {NoUID} : LinkDelivery(p, eff, named)
        BY <2>3 DEF LinkOf
      <3> DEFINE link == IF named # NoUID THEN named ELSE Predecessor(ledger, eff)
                 d == Linked(receiving[p].receipt, eff, link)
      <3>2. named \in UIDs \cup {NoUID}
        BY <1>2, <2>3, <3>1, RowFields DEF Recorded
      <3>3. link \in UIDs \cup {NoUID} /\ receiving[p].receipt \in Times
        BY <1>2, <3>1, <3>2, PredecessorType, DeliveryFields DEF LinkDelivery
      <3>4. d \in DeliveryStates
        BY <3>3 DEF Linked, DeliveryStates
      <3>5. ASSUME ~imports PROVE Traced(d, ledger)
        <4>1. link = Predecessor(ledger, eff)
          BY <2>3, <3>1, <3>5
        <4>2. link # NoUID => \E q \in ledger : q.uid = link /\ q.eff < eff
          BY <1>2, <4>1, PredecessorIsEarlier
        <4>3. d.ref = link /\ d.eff = eff
          BY DEF Linked
        <4>4. QED
          BY <4>2, <4>3 DEF Traced
      <3>6. receiving' = [receiving EXCEPT ![p] = d]
        BY <3>1 DEF LinkDelivery
      <3>7. QED
        BY <3>4, <3>5, <3>6
    <2>4. QED
      BY <2>1, <2>2, <2>3
  <1>4. LedgerGrows /\ Within(ledger', ledger)
    BY <1>1, <1>2, WithinItself DEF LedgerGrows
  <1>5. /\ receiving' \in [Recorders -> DeliveryStates]
        /\ ~imports => \A q \in Recorders : Traced(receiving'[q], ledger')
    BY <1>1, <1>3, <1>4, OneRecorderSteps DEF LedgerGrows
  <1>6. QED
    BY <1>1, <1>2, <1>4, <1>5, NoNewRow DEF LedgerInv, LedgerTypeOK

(* The row a delivery leaves: when it was received, or later, and of the    *)
(* period it was linked for.                                                *)
LEMMA StoredRow ==
  ASSUME LedgerInv, NEW p \in Recorders, NEW uids \in SUBSET Arriving, NEW lags, StoreOf(p, uids, lags)
  PROVE  /\ receiving[p].step = "linked" /\ receiving' = [receiving EXCEPT ![p] = Nothing]
         /\ \E row \in Rows :
              /\ SaveObservation(row)
              /\ row.recorded >= receiving[p].receipt /\ row.eff = receiving[p].eff
              /\ ~imports => IsDelivered(row, ledger)
  <1> DEFINE d == receiving[p]
  <1>1. PICK uid \in uids, value \in Values, lag \in lags :
          /\ d.receipt + lag \in Times
          /\ StoreDelivery(p, uid, value, d.receipt + lag)
    BY DEF StoreOf
  <1>2. d.step = "linked" /\ receiving' = [receiving EXCEPT ![p] = Nothing]
    BY <1>1 DEF StoreDelivery
  <1>3. d \in DeliveryStates
    BY DEF LedgerInv, LedgerTypeOK
  <1>4. d.receipt \in Times /\ d.eff \in Times /\ d.ref \in UIDs \cup {NoUID}
    BY <1>2, <1>3, DeliveryFields
  <1>5. PICK observed \in Times : observed = d.receipt + lag
    BY <1>1
  <1> DEFINE row == [uid |-> uid, value |-> value, eff |-> d.eff, until |-> NoTime,
                     observed |-> observed, recorded |-> ReceiptTime(d.receipt, observed),
                     ref |-> d.ref, revoked |-> FALSE, accepted |-> FALSE]
  <1>6. /\ ReceiptTime(d.receipt, observed) \in Times
        /\ ReceiptTime(d.receipt, observed) >= d.receipt
    BY <1>4, TimeBound DEF ReceiptTime, Later, Times
  <1>7. row \in Rows
    BY <1>4, <1>6, ArrivingAreUIDs DEF Rows
  <1>8. SaveObservation(row)
    BY <1>1, <1>5 DEF StoreDelivery
  <1>9. ~imports => IsDelivered(row, ledger)
    BY <1>2 DEF IsDelivered, LedgerInv, Traced
  <1>10. QED
    BY <1>2, <1>6, <1>7, <1>8, <1>9

LEMMA StoreStep ==
  ASSUME LedgerInv, NEW p \in Recorders, NEW uids \in SUBSET Arriving, NEW lags, StoreOf(p, uids, lags),
         imports' = imports
  PROVE  LedgerInv' /\ LedgerGrows
  <1>1. receiving' = [receiving EXCEPT ![p] = Nothing]
    BY StoredRow
  <1>2. PICK row \in Rows : SaveObservation(row) /\ (~imports => IsDelivered(row, ledger))
    BY StoredRow
  <1>3. /\ ledger' \in Ledgers /\ IsFiniteSet(ledger') /\ clock' = clock
        /\ Within(ledger, ledger')
        /\ \A t \in ledger' : t = row \/ t \in ledger
    BY <1>2, SavedLedger DEF LedgerInv
  <1>4. ASSUME ~imports, NEW t \in ledger' PROVE IsDelivered(t, ledger')
    <2>1. IsDelivered(t, ledger) /\ SameRow(t, t)
      BY <1>2, <1>3, <1>4 DEF SameRow, LedgerInv
    <2>2. QED
      BY <1>3, <2>1, DeliveredIsCarried
  <1>5. /\ receiving' \in [Recorders -> DeliveryStates]
        /\ ~imports => \A q \in Recorders : Traced(receiving'[q], ledger')
    BY <1>1, <1>3, NothingIsTraced, OneRecorderSteps
  <1>6. clock \in Times /\ clock \in Int
    BY TimeBound DEF LedgerInv, LedgerTypeOK, Times
  <1>7. QED
    BY <1>3, <1>4, <1>5, <1>6 DEF LedgerInv, LedgerTypeOK, LedgerGrows

(* The row of an import. *)
LEMMA ImportedRow ==
  ASSUME LedgerTypeOK, Import
  PROVE  \E row \in Rows : SaveObservation(row)
  <1>1. CASE \E row \in ledger : RecordTemporal(Unaccepted(row))
    <2>1. PICK row \in ledger : SaveObservation(Unaccepted(row))
      BY <1>1 DEF RecordTemporal
    <2>2. Unaccepted(row) \in Rows
      BY DEF LedgerTypeOK, Ledgers, Rows, Unaccepted
    <2>3. QED
      BY <2>1, <2>2
  <1>2. CASE ~ \E row \in ledger : RecordTemporal(Unaccepted(row))
    <2>1. PICK uid \in Arriving, value \in Values, eff \in Times, recorded \in Times,
               until \in Times \cup {NoTime}, revoked \in BOOLEAN,
               ref \in Recorded \cup {NoUID} :
            RecordTemporal([uid |-> uid, value |-> value, eff |-> eff,
               until |-> until, observed |-> recorded, recorded |-> recorded,
               ref |-> ref, revoked |-> revoked, accepted |-> FALSE])
      BY <1>2 DEF Import
    <2>2. ref \in UIDs \cup {NoUID}
      BY RowFields DEF Recorded, LedgerTypeOK, Ledgers
    <2>3. QED
      BY <2>1, <2>2, ArrivingAreUIDs DEF RecordTemporal, Rows
  <1>3. QED
    BY <1>1, <1>2

LEMMA ImportStep ==
  ASSUME LedgerInv, Import
  PROVE  LedgerInv' /\ LedgerGrows
  <1>1. PICK row \in Rows : SaveObservation(row)
    BY ImportedRow DEF LedgerInv
  <1>2. /\ ledger' \in Ledgers /\ IsFiniteSet(ledger') /\ clock' = clock /\ Within(ledger, ledger')
    BY <1>1, SavedLedger DEF LedgerInv
  <1>3. imports /\ imports' = imports /\ receiving' = receiving
    BY DEF Import
  <1>4. clock \in Times /\ clock \in Int
    BY TimeBound DEF LedgerInv, LedgerTypeOK, Times
  <1>5. QED
    BY <1>2, <1>3, <1>4 DEF LedgerInv, LedgerTypeOK, LedgerGrows

LEMMA PromoteStep ==
  ASSUME LedgerInv, Promote
  PROVE  LedgerInv' /\ LedgerGrows /\ Within(ledger', ledger)
  <1>1. PICK snapshot : PromoteAcceptance(snapshot)
    BY DEF Promote
  <1>2. /\ ledger' \in Ledgers /\ IsFiniteSet(ledger') /\ clock' = clock
        /\ Within(ledger, ledger') /\ Within(ledger', ledger)
    BY <1>1, MarkedLedger DEF LedgerInv
  <1>3. imports' = imports /\ receiving' = receiving
    BY DEF Promote
  <1>4. clock \in Times /\ clock \in Int
    BY TimeBound DEF LedgerInv, LedgerTypeOK, Times
  <1>5. LedgerGrows
    BY <1>2, <1>3, <1>4 DEF LedgerGrows
  <1>6. QED
    BY <1>2, <1>3, <1>4, <1>5, NoRecorderSteps, NoNewRow

LEMMA QuietStep ==
  ASSUME LedgerInv, LedgerTick \/ UNCHANGED ledgerVars
  PROVE  LedgerInv' /\ LedgerGrows /\ ledger' = ledger
  <1>1. /\ clock' \in Times /\ clock <= clock' /\ ledger' = ledger
        /\ imports' = imports /\ receiving' = receiving
    BY TimeBound DEF LedgerTick, ledgerVars, LedgerInv, LedgerTypeOK, Times
  <1>2. LedgerGrows
    BY <1>1, WithinItself DEF LedgerGrows
  <1>3. QED
    BY <1>1, <1>2 DEF LedgerInv, LedgerTypeOK

(* Every step carries the rows over. *)
LEMMA LedgerStep ==
  ASSUME LedgerInv, [LedgerNext]_ledgerVars
  PROVE  LedgerInv' /\ LedgerGrows
  <1>1. ASSUME NEW p \in Recorders, Deliver(p) PROVE LedgerInv' /\ LedgerGrows
    <2>1. imports' = imports
      BY <1>1 DEF Deliver
    <2>2. CASE Stamp(p) \/ LoseDelivery(p)
      BY <2>1, <2>2, ReceiveStep DEF Stamp
    <2>3. CASE Link(p)
      <3>1. LinkOf(p, IF imports THEN Recorded ELSE {})
        BY <2>3 DEF Link
      <3>2. QED
        BY <2>1, <3>1, ReceiveStep
    <2>4. CASE Store(p)
      BY <2>1, <2>4, StoreStep DEF Store
    <2>5. QED
      BY <1>1, <2>2, <2>3, <2>4 DEF Deliver
  <1>2. QED
    BY <1>1, ImportStep, PromoteStep, QuietStep DEF LedgerNext

LEMMA LedgerInvariance == LedgerSpec => []LedgerInv
  <1>1. LedgerInit => LedgerInv
    BY TimeBound, FS_EmptySet, NothingIsTraced
       DEF LedgerInit, LedgerInv, LedgerTypeOK, Ledgers, Times
  <1>2. LedgerInv /\ [LedgerNext]_ledgerVars => LedgerInv'
    BY LedgerStep
  <1>3. QED
    BY <1>1, <1>2, PTL DEF LedgerSpec

(* The ledger has its type: one row per UID, whatever is written.           *)
THEOREM LedgerTypeCorrect == LedgerSpec => []LedgerTypeOK
  <1>1. LedgerInv => LedgerTypeOK
    BY DEF LedgerInv
  <1>2. QED
    BY <1>1, LedgerInvariance, PTL

-----------------------------------------------------------------------------
(* As long as Standing links the rows itself, the resolver never raises: a  *)
(* link is inferred from the rows of earlier periods only, and a row keeps  *)
(* its period.  (_predecessor_observation_uid, save_observation)            *)
THEOREM DeliveriesResolve == LedgerSpec => []InferredLineageResolves
  <1>1. LedgerInv => InferredLineageResolves
    BY DeliveredResolves DEF LedgerInv, LedgerTypeOK, InferredLineageResolves
  <1>2. QED
    BY <1>1, LedgerInvariance, PTL

-----------------------------------------------------------------------------
(* What supersedes a row is carried over with it. *)
LEMMA SupersededIsCarried ==
  ASSUME NEW L, NEW M, Within(L, M), NEW v, NEW s \in Superseded(L, v)
  PROVE  \E t \in Superseded(M, v) : t.uid = s.uid /\ t.value = s.value
  <1>1. s \in L /\ ~s.revoked
    BY DEF Superseded, Available
  <1>2. PICK e \in Ends(L, s) : v >= e
    BY DEF Superseded
  <1>3. PICK t \in M : SameRow(s, t)
    BY <1>1 DEF Within
  <1>4. e \in Ends(M, t)
    <2>1. ASSUME NEW c \in Children(L, s), e = c.eff
          PROVE  \E d \in Children(M, t) : e = d.eff
      <3>1. c \in L /\ ~c.revoked /\ c.ref = s.uid
        BY DEF Children, Available
      <3>2. PICK d \in M : SameRow(c, d)
        BY <3>1 DEF Within
      <3>3. QED
        BY <1>3, <2>1, <3>1, <3>2 DEF SameRow, Children, Available
    <2>2. QED
      BY <1>2, <1>3, <2>1 DEF Ends, SameRow
  <1>5. t \in Superseded(M, v)
    BY <1>1, <1>2, <1>3, <1>4 DEF Superseded, Available, SameRow
  <1>6. QED
    BY <1>3, <1>5 DEF SameRow

(* No write takes a supersession back: a row superseded at an instant stays *)
(* so, whatever is delivered, imported or accepted afterwards.              *)
(* (save_observation's refusal to change a stored row)                      *)
THEOREM SupersessionStays == LedgerSpec => SupersessionIsPermanent
  <1> DEFINE Kept == \A v \in Times : \A s \in Superseded(ledger, v) :
                       \E t \in Superseded(ledger, v)' : t.uid = s.uid /\ t.value = s.value
  <1>1. LedgerInv /\ [LedgerNext]_ledgerVars => Kept
    <2> SUFFICES ASSUME LedgerInv, [LedgerNext]_ledgerVars, NEW v \in Times, NEW s \in Superseded(ledger, v)
                 PROVE  \E t \in Superseded(ledger', v) : t.uid = s.uid /\ t.value = s.value
      BY DEF Superseded
    <2>1. Within(ledger, ledger')
      BY LedgerStep DEF LedgerGrows
    <2>2. QED
      BY <2>1, SupersededIsCarried
  <1>2. QED
    BY <1>1, LedgerInvariance, PTL DEF LedgerSpec, SupersessionIsPermanent

-----------------------------------------------------------------------------
(* Standing does not settle a disagreement by arrival: two readings of one  *)
(* period with different values leave every instant of it without a head,   *)
(* until a later period begins, however many rows follow.                   *)
(* (resolve's conflict rule and the links of _predecessor_observation_uid)  *)
THEOREM NobodyChooses == LedgerSpec => []DisagreementIsNeverChosen
  <1>1. LedgerInv => DisagreementIsNeverChosen
    <2> SUFFICES ASSUME LedgerInv, ~imports, NEW a \in ledger, NEW b \in ledger,
                        a.eff = b.eff, a.value # b.value, NEW v \in a.eff..MaxTime,
                        CanonicalHead(ledger, v) # NoRow
                 PROVE  CanonicalHead(ledger, v).eff > a.eff
      BY DEF DisagreementIsNeverChosen
    <2> DEFINE head == CanonicalHead(ledger, v)
               begun == {x \in ledger : x.eff <= v}
    <2>1. ledger \in SUBSET Rows /\ IsFiniteSet(ledger)
      BY DEF LedgerInv, LedgerTypeOK, Ledgers
    <2>2. a.eff \in Times /\ a.eff \in Int
      BY <2>1, RowFields
    <2>3. v \in Times /\ v \in Int /\ a.eff <= v
      BY <2>2, TimeBound DEF Times
    <2>4. begun \in SUBSET Rows /\ IsFiniteSet(begun) /\ a \in begun /\ b \in begun
      BY <2>1, <2>3, FS_Subset
    <2>5. PICK m \in begun : \A x \in begun : x.eff <= m.eff
      BY <2>4, LatestExists
    <2>6. m \in Active(ledger, v) /\ m.eff \in Int /\ a.eff <= m.eff
      BY <2>3, <2>4, <2>5, LatestIsActive, RowFields DEF LedgerInv, LedgerTypeOK
    <2>7. head \in Candidates(ledger, v)
      BY <2>1, HeadIsCandidate
    <2>8. head \in ledger /\ m.eff <= head.eff
      BY <2>6, <2>7, CandidateIsRow DEF Candidates
    <2>9. head.eff \in Int
      BY <2>1, <2>8, RowFields
    <2>10. ASSUME head.eff = a.eff PROVE FALSE
      <3>1. a.eff = m.eff
        BY <2>2, <2>6, <2>8, <2>9, <2>10
      <3>2. a \in Active(ledger, v) /\ b \in Active(ledger, v)
        BY <2>3, <2>5, <3>1, LatestIsActive DEF LedgerInv, LedgerTypeOK
      <3>3. a \in Candidates(ledger, v) /\ b \in Candidates(ledger, v)
        BY <2>7, <2>10, <3>2 DEF Candidates
      <3>4. Disagree(Candidates(ledger, v))
        BY <3>3 DEF Disagree
      <3>5. QED
        BY <3>4 DEF CanonicalHead
    <2>11. QED
      BY <2>2, <2>6, <2>8, <2>9, <2>10
  <1>2. QED
    BY <1>1, LedgerInvariance, PTL
-----------------------------------------------------------------------------
(* A ledger and its copy give the same answers, but for accepted markers.   *)
Said(L, v) ==
  LET head == CanonicalHead(L, v)
  IN <<Unresolvable(L), Contested(L, v), IF head = NoRow THEN NoRow ELSE Unaccepted(head)>>

LEMMA CopiesAgree ==
  ASSUME NEW L, NEW M, Within(L, M), NEW v
  PROVE  /\ Unresolvable(L) => Unresolvable(M)
         /\ Within(M, L) /\ Contested(L, v) => Contested(M, v)
  <1>1. ASSUME NEW p \in Available(L), NEW c \in Children(L, p), c.eff < p.eff
        PROVE  Unresolvable(M)
    <2>1. p \in L /\ c \in L /\ ~p.revoked /\ ~c.revoked /\ c.ref = p.uid
      BY <1>1 DEF Available, Children
    <2>2. PICK q \in M : SameRow(p, q)
      BY <2>1 DEF Within
    <2>3. PICK d \in M : SameRow(c, d)
      BY <2>1 DEF Within
    <2>4. q \in Available(M) /\ d \in Children(M, q) /\ d.eff < q.eff
      BY <1>1, <2>1, <2>2, <2>3 DEF SameRow, Available, Children
    <2>5. QED
      BY <2>4 DEF Unresolvable
  <1>2. ASSUME Within(M, L), NEW a \in Candidates(L, v), NEW b \in Candidates(L, v),
               a.value # b.value
        PROVE  Contested(M, v)
    <2>1. PICK x \in Candidates(M, v) : SameRow(a, x)
      BY <1>2, CandidatesAreCarried
    <2>2. PICK y \in Candidates(M, v) : SameRow(b, y)
      BY <1>2, CandidatesAreCarried
    <2>3. QED
      BY <1>2, <2>1, <2>2 DEF SameRow, Contested, Disagree
  <1>3. QED
    BY <1>1, <1>2 DEF Unresolvable, Contested, Disagree

LEMMA CopiesSayTheSame ==
  ASSUME NEW L \in Ledgers, NEW M \in Ledgers, IsFiniteSet(L), IsFiniteSet(M),
         Within(L, M), Within(M, L), NEW v
  PROVE  Said(L, v) = Said(M, v)
  <1>1. L \in SUBSET Rows /\ M \in SUBSET Rows
    BY DEF Ledgers
  <1>2. Unresolvable(L) = Unresolvable(M)
    BY CopiesAgree DEF Unresolvable
  <1>3. Contested(L, v) = Contested(M, v)
    BY CopiesAgree DEF Contested, Disagree
  <1>4. PICK h, g : h = CanonicalHead(L, v) /\ g = CanonicalHead(M, v)
    OBVIOUS
  <1>5. h = NoRow <=> g = NoRow
    BY <1>1, <1>4, HeadSurvives
  <1>6. ASSUME h # NoRow PROVE Unaccepted(h) = Unaccepted(g)
    <2>1. SameRow(h, g) /\ g # NoRow
      BY <1>4, <1>5, <1>6, HeadIsCarried
    <2>2. h \in Rows /\ g \in Rows
      BY <1>1, <1>4, <1>6, <2>1, HeadIsCandidate, CandidateIsRow
    <2>3. QED
      BY <2>1, <2>2 DEF SameRow, Unaccepted, Rows
  <1>7. (IF h = NoRow THEN NoRow ELSE Unaccepted(h)) = (IF g = NoRow THEN NoRow ELSE Unaccepted(g))
    BY <1>5, <1>6
  <1>8. QED
    BY <1>2, <1>3, <1>4, <1>7 DEF Said

(* A row whose period has not begun says nothing yet.                       *)
Begun(L, v) == {r \in L : r.eff <= v}

LEMMA CandidatesHaveBegun ==
  ASSUME NEW L \in SUBSET Rows, NEW v \in Times
  PROVE  Candidates(L, v) = Candidates(Begun(L, v), v)
  <1>1. v \in Int /\ \A r \in L : r.eff \in Int
    BY RowFields, TimeBound DEF Times
  <1>2. ASSUME NEW r \in L, r.eff <= v
        PROVE  r \in Superseded(L, v) <=> r \in Superseded(Begun(L, v), v)
    <2>1. ASSUME NEW c \in Children(L, r), v >= c.eff
          PROVE  c \in Children(Begun(L, v), r)
      BY <1>1, <2>1 DEF Children, Available, Begun
    <2>2. Children(Begun(L, v), r) \subseteq Children(L, r)
      BY DEF Children, Available, Begun
    <2>3. QED
      BY <1>2, <2>1, <2>2 DEF Superseded, Ends, Available, Begun
  <1>3. Active(L, v) = Active(Begun(L, v), v)
    BY <1>2 DEF Active, Available, Begun
  <1>4. QED
    BY <1>3 DEF Candidates

(* Part of a ledger that resolves, resolves.                                *)
LEMMA PartResolves ==
  ASSUME NEW L, NEW M, M \subseteq L, ~Unresolvable(L)
  PROVE  ~Unresolvable(M)
  BY DEF Unresolvable, Available, Children

LEMMA SaidOfBegun ==
  ASSUME NEW L \in SUBSET Rows, NEW v \in Times, ~Unresolvable(L)
  PROVE  Said(L, v) = Said(Begun(L, v), v)
  <1>1. ~Unresolvable(Begun(L, v))
    BY PartResolves DEF Begun
  <1>2. Candidates(L, v) = Candidates(Begun(L, v), v)
    BY CandidatesHaveBegun
  <1>3. CanonicalHead(L, v) = CanonicalHead(Begun(L, v), v)
    BY <1>1, <1>2 DEF CanonicalHead
  <1>4. Unresolvable(L) = Unresolvable(Begun(L, v))
    BY <1>1 DEF Unresolvable
  <1>5. QED
    BY <1>2, <1>3, <1>4 DEF Said, Contested

(* What a step adds to the ledger: nothing, or the row of one delivery.     *)
LEMMA NewRowsAreReceived ==
  ASSUME LedgerInv, [LedgerNext]_ledgerVars, ~imports
  PROVE  \/ Within(ledger', ledger)
         \/ \E p \in Recorders :
              /\ receiving[p].step = "linked"
              /\ \E row \in Rows : /\ row.recorded >= receiving[p].receipt
                                  /\ row.eff = receiving[p].eff
                                  /\ \A t \in ledger' : t = row \/ t \in ledger
  <1>1. ASSUME NEW p \in Recorders, Deliver(p), ~Store(p) PROVE Within(ledger', ledger)
    <2>1. ledger' = ledger
      BY <1>1 DEF Deliver, Stamp, StampDelivery, Link, LinkOf, LinkDelivery, LoseDelivery
    <2>2. QED
      BY <2>1, WithinItself
  <1>2. ASSUME NEW p \in Recorders, Store(p)
        PROVE  /\ receiving[p].step = "linked"
               /\ \E row \in Rows : /\ row.recorded >= receiving[p].receipt
                                   /\ row.eff = receiving[p].eff
                                   /\ \A t \in ledger' : t = row \/ t \in ledger
    <2>1. receiving[p].step = "linked"
      BY <1>2, StoredRow DEF Store
    <2>2. PICK row \in Rows : /\ SaveObservation(row)
                             /\ row.recorded >= receiving[p].receipt
                             /\ row.eff = receiving[p].eff
      BY <1>2, StoredRow DEF Store
    <2>3. QED
      BY <2>1, <2>2, SavedLedger DEF LedgerInv
  <1>3. ~Import
    BY DEF Import
  <1>4. (LedgerTick \/ UNCHANGED ledgerVars) => Within(ledger', ledger)
    BY QuietStep, WithinItself
  <1>5. QED
    BY <1>1, <1>2, <1>3, <1>4, PromoteStep DEF LedgerNext

(* No hindsight: what was known at an earlier second, about an instant, is  *)
(* what it was, but for a delivery that was received by then, was not yet   *)
(* saved, and whose period has begun at that instant: a row brings its      *)
(* receipt with it, says nothing before its period, and an acceptance moves *)
(* no row in time.                                                          *)
(* (record_verifier_observation's receipt time, resolve's knowledge cutoff) *)
THEOREM EarlierAnswersStand == LedgerSpec => NoHindsight
  <1> DEFINE Stands == ~imports => \A k \in 0..(clock - 1), v \in Times :
                         \/ \E p \in Recorders : /\ receiving[p].step = "linked"
                                                 /\ receiving[p].receipt <= k
                                                 /\ receiving[p].eff <= v
                         \/ Answer(k, v)' = Answer(k, v)
  <1>1. LedgerInv /\ [LedgerNext]_ledgerVars => Stands
    <2> SUFFICES ASSUME LedgerInv, [LedgerNext]_ledgerVars, ~imports, NEW k \in 0..(clock - 1), NEW v \in Times,
                        ~ \E p \in Recorders : /\ receiving[p].step = "linked"
                                               /\ receiving[p].receipt <= k
                                               /\ receiving[p].eff <= v
                 PROVE  Answer(k, v)' = Answer(k, v)
      OBVIOUS
    <2>1. PICK L, M : L = Known(ledger, k, FALSE) /\ M = Known(ledger', k, FALSE)
      OBVIOUS
    <2>2. /\ ledger \in Ledgers /\ ledger' \in Ledgers
          /\ IsFiniteSet(ledger) /\ IsFiniteSet(ledger') /\ Within(ledger, ledger')
          /\ clock \in Times /\ clock \in Int /\ k \in Int
          /\ ~Unresolvable(ledger) /\ ~Unresolvable(ledger')
      BY LedgerStep, TimeBound, DeliveredResolves DEF LedgerInv, LedgerTypeOK, LedgerGrows, Times
    <2>3. L = {r \in ledger : r.recorded <= k} /\ M = {r \in ledger' : r.recorded <= k}
      <3>1. k # NoTime
        BY <2>2, TimeBound, Sentinels DEF Times
      <3>2. QED
        BY <2>1, <3>1 DEF Known
    <2> DEFINE Lv == Begun(L, v)
               Mv == Begun(M, v)
    <2>4. /\ L \in SUBSET Rows /\ M \in SUBSET Rows /\ Lv \in Ledgers /\ Mv \in Ledgers
          /\ IsFiniteSet(Lv) /\ IsFiniteSet(Mv)
      BY <2>2, <2>3, FS_Subset DEF Ledgers, Begun
    <2>5. Within(Lv, Mv)
      BY <2>2, <2>3 DEF Within, SameRow, Begun
    <2>6. Within(Mv, Lv)
      <3>1. CASE Within(ledger', ledger)
        BY <2>3, <3>1 DEF Within, SameRow, Begun
      <3>2. ASSUME NEW p \in Recorders, receiving[p].step = "linked",
                   NEW row \in Rows, row.recorded >= receiving[p].receipt,
                   row.eff = receiving[p].eff,
                   \A t \in ledger' : t = row \/ t \in ledger
            PROVE  Within(Mv, Lv)
        <4>1. receiving[p].receipt \in Int /\ row.recorded \in Int
          BY <3>2, DeliveryFields, RowFields, TimeBound DEF LedgerInv, LedgerTypeOK, Times
        <4>2. ~(row.recorded <= k /\ row.eff <= v)
          BY <2>2, <3>2, <4>1
        <4>3. \A t \in Mv : t \in Lv
          BY <2>3, <3>2, <4>2 DEF Begun
        <4>4. QED
          BY <4>3 DEF Within, SameRow
      <3>3. QED
        BY <3>1, <3>2, NewRowsAreReceived
    <2>7. Said(Lv, v) = Said(Mv, v)
      BY <2>4, <2>5, <2>6, CopiesSayTheSame
    <2>8. ~Unresolvable(L) /\ ~Unresolvable(M)
      BY <2>2, <2>3, PartResolves
    <2>9. Said(L, v) = Said(M, v)
      BY <2>4, <2>7, <2>8, SaidOfBegun
    <2>10. Answer(k, v) = Said(L, v) /\ Answer(k, v)' = Said(M, v)
      BY <2>1 DEF Answer, Said
    <2>11. QED
      BY <2>9, <2>10
  <1>2. QED
    BY <1>1, LedgerInvariance, PTL DEF LedgerSpec, NoHindsight

-----------------------------------------------------------------------------
(* A late reading of an earlier period leaves the head where it was: the    *)
(* rows of the latest period stay the only candidates.                      *)
(* (_predecessor_observation_uid, resolve)                                  *)
THEOREM LateReadingsWait == LedgerSpec => LateReadingKeepsHead
  <1> DEFINE Kept ==
        ~imports => \A v \in Times :
          LET head == CanonicalHead(ledger, v)
              next == CanonicalHead(ledger, v)'
          IN (head # NoRow /\ \A r \in ledger' \ ledger : r.eff < head.eff)
               => next # NoRow /\ next.uid = head.uid
  <1>1. LedgerInv /\ [LedgerNext]_ledgerVars => Kept
    <2> SUFFICES ASSUME LedgerInv, [LedgerNext]_ledgerVars, ~imports, NEW v \in Times,
                        CanonicalHead(ledger, v) # NoRow,
                        \A r \in ledger' \ ledger : r.eff < CanonicalHead(ledger, v).eff
                 PROVE  /\ CanonicalHead(ledger', v) # NoRow
                        /\ CanonicalHead(ledger', v).uid = CanonicalHead(ledger, v).uid
      BY DEF CanonicalHead
    <2>1. PICK L, M, h : L = ledger /\ M = ledger' /\ h = CanonicalHead(ledger, v)
      OBVIOUS
    <2>2. /\ L \in Ledgers /\ M \in Ledgers /\ L \in SUBSET Rows /\ M \in SUBSET Rows
          /\ IsFiniteSet(L) /\ IsFiniteSet(M) /\ Within(L, M)
      BY <2>1, LedgerStep DEF LedgerInv, LedgerTypeOK, Ledgers, LedgerGrows
    <2>3. imports' = imports
      BY LedgerStep DEF LedgerGrows
    <2>4. (\A r \in L : IsDelivered(r, L)) /\ (\A r \in M : IsDelivered(r, M))
      BY <2>1, <2>3, LedgerStep DEF LedgerInv
    <2>5. /\ h \in Candidates(L, v) /\ h \in L /\ h.eff <= v /\ h # NoRow
          /\ ~Disagree(Candidates(L, v))
      BY <2>1, <2>2, HeadIsCandidate, CandidateIsRow DEF CanonicalHead
    <2>6. \A x \in L : x.eff <= v => x.eff <= h.eff
      BY <2>2, <2>4, <2>5, CandidatesAreLatest
    <2>7. PICK t \in M : SameRow(h, t)
      BY <2>2, <2>5 DEF Within
    <2>8. \A x \in M : x.eff \in Int
      BY <2>2, RowFields
    <2>9. t.eff = h.eff /\ \A x \in M : x.eff <= v => x.eff <= t.eff
      BY <2>1, <2>6, <2>7, <2>8 DEF SameRow
    <2>10. t \in Candidates(M, v)
      BY <2>2, <2>4, <2>5, <2>7, <2>9, CandidatesAreLatest
    <2>11. ASSUME NEW c \in Candidates(M, v) PROVE c \in Candidates(L, v)
      <3>1. c \in M /\ c.eff <= v
        BY CandidateIsRow
      <3>2. t.eff <= c.eff
        BY <2>5, <2>9, <2>10, <2>11, <2>2, <2>4, <3>1, CandidatesAreLatest
      <3>3. c.eff = h.eff
        BY <2>7, <2>8, <2>9, <3>1, <3>2
      <3>4. c \in L
        BY <2>1, <2>8, <3>1, <3>3
      <3>5. QED
        BY <2>2, <2>4, <2>6, <3>1, <3>3, <3>4, CandidatesAreLatest
    <2>12. ~Disagree(Candidates(M, v))
      BY <2>5, <2>11 DEF Disagree
    <2>13. CanonicalHead(M, v) # NoRow
      BY <2>2, <2>4, <2>10, <2>12, DeliveredResolves, HeadExists
    <2>14. PICK g : g = CanonicalHead(M, v)
      OBVIOUS
    <2>15. g \in Candidates(M, v) /\ SortsBefore(t, g)
      BY <2>2, <2>10, <2>13, <2>14, HeadIsCandidate, HeadIsLast
    <2>16. SortsBefore(g, h)
      BY <2>1, <2>2, <2>5, <2>11, <2>15, HeadIsLast
    <2>17. SortsBefore(h, g)
      BY <2>7, <2>15 DEF SortsBefore, SameRow
    <2>18. g.uid = h.uid
      BY <2>2, <2>5, <2>11, <2>15, <2>16, <2>17, CandidateIsRow, SortIsAntisymmetric
    <2>19. QED
      BY <2>1, <2>13, <2>14, <2>18
  <1>2. QED
    BY <1>1, LedgerInvariance, PTL DEF LedgerSpec, LateReadingKeepsHead

-----------------------------------------------------------------------------
(* The value and the UIDs a check read off the rows, not after a second.    *)
Headed(rows, value, canonical, limit) ==
  \E now \in 0..limit :
    /\ CanonicalHead(rows, now) # NoRow
    /\ value = CanonicalHead(rows, now).value
    /\ canonical = UidsOf(Candidates(rows, now))

(* What a flow in progress knows of the store it will meet again.           *)
JobHolds(j, now, approved, rows) ==
  /\ j.step \in {"hire", "conclude"} =>
       /\ j.now <= now /\ j.approval \in approved \cup {NoApproval}
       /\ j.began \subseteq UidsOf(rows)
  /\ j.step \in {"check", "promote"} =>
       j.rows \in approved /\ IsFiniteSet(j.rows) /\ Within(j.rows, rows)
  /\ j.step = "promote" => Headed(j.rows, j.value, j.canonical, now)

IInv ==
  /\ TypeOK /\ LedgerInv
  /\ imports = Imports
  /\ \A a \in Actors : JobHolds(job[a], clock, approvals, ledger)
  /\ AcceptedWasApproved

(* What every step shows before anything else: it is one of the ledger, or  *)
(* none.                                                                    *)
Steps == LedgerInv' /\ LedgerGrows

-----------------------------------------------------------------------------
LEMMA WithinIsTransitive ==
  ASSUME NEW L, NEW M, NEW N, Within(L, M), Within(M, N)
  PROVE  Within(L, N)
  BY DEF Within, SameRow

LEMMA ClockIsInt ==
  ASSUME IInv
  PROVE  clock \in Times /\ clock \in 0..clock /\ clock \in Int /\ Times \subseteq Int
  BY TimeBound DEF IInv, LedgerInv, LedgerTypeOK, Times

LEMMA LedgerFacts ==
  ASSUME IInv
  PROVE  ledger \in Ledgers /\ ledger \in SUBSET Rows /\ IsFiniteSet(ledger)
  BY DEF IInv, LedgerInv, LedgerTypeOK, Ledgers

(* The fields a job has at each of its steps.                               *)
LEMMA JobFields ==
  ASSUME NEW j \in JobStates
  PROVE  /\ j.step \in {"hire", "conclude"} =>
              /\ j.flow \in {"review", "loop"} /\ j.now \in Times
              /\ j.approval \in {NoApproval} \cup SUBSET Rows /\ j.observer \in Addresses
              /\ j.began \in SUBSET UIDs
         /\ j.step \in {"check", "promote"} => j.rows \in SUBSET Rows
         /\ j.step = "promote" => j.value \in Values /\ j.canonical \in SUBSET UIDs
  <1>1. CASE j = Idle
    BY <1>1 DEF Idle
  <1>2. CASE j \in [step : {"hire", "conclude"}, flow : {"review", "loop"}, now : Times,
                    approval : {NoApproval} \cup SUBSET Rows, observer : Addresses,
                    began : SUBSET UIDs]
    BY <1>2
  <1>3. CASE j \in [step : {"check"}, rows : SUBSET Rows]
    BY <1>3
  <1>4. CASE j \in [step : {"promote"}, rows : SUBSET Rows, value : Values,
                    canonical : SUBSET UIDs]
    BY <1>4
  <1>5. QED
    BY <1>1, <1>2, <1>3, <1>4 DEF JobStates

LEMMA JobAtHand ==
  ASSUME IInv, NEW a \in Actors
  PROVE  job[a] \in JobStates /\ JobHolds(job[a], clock, approvals, ledger)
  BY DEF IInv, TypeOK

LEMMA UidsAreCarried ==
  ASSUME NEW L, NEW M, Within(L, M)
  PROVE  UidsOf(L) \subseteq UidsOf(M)
  BY DEF Within, SameRow, UidsOf

(* What a flow knows stays true while the store grows.                      *)
LEMMA JobHoldsStill ==
  ASSUME IInv, Steps, approvals \subseteq approvals', NEW j \in JobStates,
         JobHolds(j, clock, approvals, ledger)
  PROVE  JobHolds(j, clock', approvals', ledger')
  <1>1. /\ clock \in Int /\ clock' \in Int /\ clock <= clock' /\ Times \subseteq Int
        /\ Within(ledger, ledger')
    BY ClockIsInt DEF Steps, LedgerGrows, LedgerInv, LedgerTypeOK
  <1>2. ASSUME j.step \in {"hire", "conclude"}
        PROVE  /\ j.now <= clock' /\ j.approval \in approvals' \cup {NoApproval}
               /\ j.began \subseteq UidsOf(ledger')
    <2>1. j.now \in Int
      BY <1>1, <1>2, JobFields
    <2>2. j.began \subseteq UidsOf(ledger')
      BY <1>1, <1>2, UidsAreCarried DEF JobHolds
    <2>3. QED
      BY <1>1, <1>2, <2>1, <2>2 DEF JobHolds
  <1>3. ASSUME j.step \in {"check", "promote"}
        PROVE  j.rows \in approvals' /\ IsFiniteSet(j.rows) /\ Within(j.rows, ledger')
    BY <1>1, <1>3, WithinIsTransitive DEF JobHolds
  <1>4. ASSUME j.step = "promote"
        PROVE  Headed(j.rows, j.value, j.canonical, clock')
    BY <1>1, <1>4 DEF JobHolds, Headed
  <1>5. QED
    BY <1>2, <1>3, <1>4 DEF JobHolds

(* So a step is good for every flow if it is for the one that takes it.     *)
LEMMA OneActorSteps ==
  ASSUME IInv, Steps, approvals \subseteq approvals', NEW a \in Actors, NEW j \in JobStates,
         Becomes(a, j), JobHolds(j, clock', approvals', ledger')
  PROVE  /\ job' \in [Actors -> JobStates]
         /\ \A b \in Actors : JobHolds(job'[b], clock', approvals', ledger')
  <1>1. job \in [Actors -> JobStates] /\ job' = [job EXCEPT ![a] = j]
    BY DEF IInv, TypeOK, Becomes
  <1>2. ASSUME NEW b \in Actors
        PROVE  JobHolds(job'[b], clock', approvals', ledger')
    <2>1. CASE b = a
      BY <1>1, <2>1
    <2>2. CASE b # a
      <3>1. job'[b] = job[b] /\ job[b] \in JobStates
        BY <1>1, <2>2
      <3>2. QED
        BY <3>1, JobHoldsStill DEF IInv
    <2>3. QED
      BY <2>1, <2>2
  <1>3. QED
    BY <1>1, <1>2

LEMMA NoActorSteps ==
  ASSUME IInv, Steps, approvals' = approvals, job' = job
  PROVE  /\ job' \in [Actors -> JobStates]
         /\ \A b \in Actors : JobHolds(job'[b], clock', approvals', ledger')
  <1>1. job \in [Actors -> JobStates]
    BY DEF IInv, TypeOK
  <1>2. QED
    BY <1>1, JobHoldsStill DEF IInv

LEMMA ReferenceUnchanged ==
  ASSUME IInv, approvals \subseteq approvals', reference' = reference
  PROVE  reference' \in References \cup {NoReference} /\ AcceptedWasApproved'
  BY DEF IInv, TypeOK, AcceptedWasApproved

(* What an action has to show beside its step of the ledger.                *)
LEMMA Preserved ==
  ASSUME IInv, Steps, approvals' \subseteq SUBSET Rows,
         history' \in [Addresses -> Nat \cup {NoHistory}],
         reference' \in References \cup {NoReference},
         AcceptedWasApproved', runs' \in [Actors -> 0..MaxRuns],
         job' \in [Actors -> JobStates],
         \A b \in Actors : JobHolds(job'[b], clock', approvals', ledger')
  PROVE  IInv'
  <1>1. LedgerInv' /\ LedgerTypeOK' /\ imports' = Imports
    BY DEF IInv, Steps, LedgerGrows, LedgerInv
  <1>2. QED
    BY <1>1 DEF IInv, TypeOK

LEMMA RunsCounted ==
  ASSUME IInv, NEW a \in Actors, NEW flow, NEW j, Start(a, flow, j)
  PROVE  /\ runs' \in [Actors -> 0..MaxRuns] /\ Becomes(a, j)
         /\ UNCHANGED <<clock, receiving, imports>>
  BY MaxRunsType DEF IInv, TypeOK, Start

LEMMA StoreTypes ==
  ASSUME IInv
  PROVE  /\ history \in [Addresses -> Nat \cup {NoHistory}]
         /\ approvals \subseteq SUBSET Rows /\ runs \in [Actors -> 0..MaxRuns]
         /\ reference \in References \cup {NoReference}
  BY DEF IInv, TypeOK

LEMMA IdleHolds ==
  ASSUME NEW now, NEW approved, NEW rows
  PROVE  Idle \in JobStates /\ JobHolds(Idle, now, approved, rows)
  BY DEF Idle, JobStates, JobHolds

LEMMA HiringHolds ==
  ASSUME IInv, NEW flow \in {"review", "loop"}, NEW approval \in approvals \cup {NoApproval},
         NEW observer \in Addresses
  PROVE  /\ Hiring(flow, clock, approval, observer, Recorded) \in JobStates
         /\ JobHolds(Hiring(flow, clock, approval, observer, Recorded), clock, approvals, ledger)
  <1>1. approval \in {NoApproval} \cup SUBSET Rows /\ clock \in Times /\ clock <= clock
    BY ClockIsInt, StoreTypes
  <1>2. Recorded \in SUBSET UIDs /\ Recorded = UidsOf(ledger)
    BY LedgerFacts, RowFields DEF Recorded, UidsOf
  <1>3. Hiring(flow, clock, approval, observer, Recorded) \in JobStates
    BY <1>1, <1>2 DEF Hiring, JobStates
  <1>4. QED
    BY <1>1, <1>2, <1>3 DEF Hiring, JobHolds

(* A record of reliability is created.                                      *)
LEMMA Created ==
  ASSUME IInv, NEW o, history' = [history EXCEPT ![o] = IF @ = NoHistory THEN 0 ELSE @]
  PROVE  history' \in [Addresses -> Nat \cup {NoHistory}]
  BY StoreTypes

-----------------------------------------------------------------------------
(* The rows read before, as they are in the ledger now.                     *)
LEMMA SnapshotIsWithin ==
  ASSUME IInv, NEW rows \in SUBSET Rows, Within(rows, ledger),
         NEW snapshot, snapshot = {s \in ledger : s.uid \in UidsOf(rows)}
  PROVE  /\ snapshot \in SUBSET Rows /\ IsFiniteSet(snapshot)
         /\ Within(rows, snapshot) /\ Within(snapshot, rows)
  <1>1. /\ ledger \in SUBSET Rows /\ IsFiniteSet(ledger)
        /\ \A x, y \in ledger : x.uid = y.uid => x = y
    BY LedgerFacts DEF Ledgers
  <1>2. snapshot \in SUBSET Rows /\ IsFiniteSet(snapshot)
    BY <1>1, FS_Subset
  <1>3. Within(rows, snapshot)
    BY DEF Within, SameRow, UidsOf
  <1>4. ASSUME NEW t \in snapshot PROVE \E r \in rows : SameRow(t, r)
    <2>1. PICK r \in rows : r.uid = t.uid
      BY DEF UidsOf
    <2>2. PICK u \in ledger : SameRow(r, u)
      BY DEF Within
    <2>3. u = t
      BY <1>1, <2>1, <2>2 DEF SameRow
    <2>4. QED
      BY <2>2, <2>3 DEF SameRow
  <1>5. QED
    BY <1>2, <1>3, <1>4 DEF Within

(* Rows read before and promoted now: what the ledger calls a promotion.    *)
LEMMA PromotingRows ==
  ASSUME IInv, NEW rows \in SUBSET Rows, Within(rows, ledger), NEW acceptedAt \in 0..clock,
         CanonicalHead(rows, acceptedAt) # NoRow,
         ledger' = {[r EXCEPT !.accepted = @ \/ r.uid \in UidsOf(rows)] : r \in ledger},
         UNCHANGED <<clock, receiving, imports>>
  PROVE  Promote
  <1> DEFINE snapshot == {s \in ledger : s.uid \in UidsOf(rows)}
  <1>1. /\ snapshot \in SUBSET Rows /\ IsFiniteSet(snapshot)
        /\ Within(rows, snapshot) /\ Within(snapshot, rows)
    BY SnapshotIsWithin
  <1>2. CanonicalHead(snapshot, acceptedAt) # NoRow
    BY <1>1, HeadSurvives
  <1>3. ledger' = {[r EXCEPT !.accepted = @ \/ r \in snapshot] : r \in ledger}
    OBVIOUS
  <1>4. snapshot \in SUBSET ledger
    OBVIOUS
  <1> HIDE DEF snapshot
  <1>5. QED
    BY <1>2, <1>3, <1>4 DEF Promote, PromoteAcceptance

LEMMA ConcludePromotes ==
  ASSUME IInv, NEW a \in Actors, Conclude(a)
  PROVE  Promote \/ UNCHANGED ledgerVars
  <1> DEFINE j == job[a]
  <1>1. j.step = "conclude" /\ UNCHANGED <<clock, imports>>
    BY DEF Conclude
  <1>2. j.now \in 0..clock
    BY <1>1, JobAtHand, JobFields, ClockIsInt, TimeBound DEF JobHolds, Times
  <1>3. CASE ~Accepts(ledger, j.now, j.approval, history)
    BY <1>1, <1>3 DEF Conclude, CheckAcceptance, ledgerVars
  <1>4. CASE Accepts(ledger, j.now, j.approval, history)
    <2>1. /\ CanonicalHead(ledger, j.now) # NoRow /\ receiving' = receiving
          /\ ledger' = {[r EXCEPT !.accepted = @ \/ r.uid \in UidsOf(ledger)] : r \in ledger}
      BY <1>4 DEF Conclude, CheckAcceptance, PromoteRows
    <2>2. QED
      BY <1>1, <1>2, <2>1, LedgerFacts, WithinItself, PromotingRows
  <1>5. QED
    BY <1>3, <1>4

LEMMA ApprovedPromotes ==
  ASSUME IInv, NEW a \in Actors, PromoteApproved(a)
  PROVE  Promote
  <1> DEFINE rows == job[a].rows
  <1>1. /\ job[a].step = "promote" /\ UNCHANGED <<clock, receiving, imports>>
        /\ CanonicalHead(rows, clock) # NoRow
        /\ ledger' = {[r EXCEPT !.accepted = @ \/ r.uid \in UidsOf(rows)] : r \in ledger}
    BY DEF PromoteApproved, PromoteRows
  <1>2. rows \in SUBSET Rows /\ Within(rows, ledger)
    BY <1>1, JobAtHand, JobFields DEF JobHolds
  <1>3. QED
    BY <1>1, <1>2, ClockIsInt, PromotingRows

(* A delivery in three steps, whoever waits for it.                         *)
LEMMA HiredDelivers ==
  ASSUME NEW a \in Actors, ReceiveHired(a) \/ StoreHired(a)
  PROVE  Deliver(a)
  <1>1. imports' = imports
    BY DEF ReceiveHired, StoreHired
  <1>2. StoreHired(a) => Store(a)
    BY DEF StoreHired, Store, StoreOf
  <1>3. QED
    BY <1>1, <1>2 DEF Deliver, ReceiveHired

LEMMA ExtractionDelivers ==
  ASSUME NEW p \in Recorders, ConfirmExtraction(p)
  PROVE  Deliver(p)
  <1>1. imports' = imports
    BY DEF ConfirmExtraction
  <1>2. LinkOf(p, {}) => Link(p)
    BY DEF Link, LinkOf
  <1>3. StoreOf(p, {uid \in Arriving : Origin[uid].vendor}, {lag \in Lags : lag <= 0}) => Store(p)
    BY DEF Store, StoreOf
  <1>4. QED
    BY <1>1, <1>2, <1>3 DEF Deliver, ConfirmExtraction

LEMMA AbandonLoses ==
  ASSUME IInv, NEW a \in Actors, Abandon(a)
  PROVE  (LoseDelivery(a) /\ imports' = imports) \/ UNCHANGED ledgerVars
  <1>1. /\ receiving' = [receiving EXCEPT ![a] = Nothing]
        /\ UNCHANGED <<clock, ledger, imports>>
    BY DEF Abandon, Persisted
  <1>2. a \in Recorders /\ receiving \in [Recorders -> DeliveryStates]
    BY ActorsRecord DEF IInv, LedgerInv, LedgerTypeOK
  <1>3. CASE receiving[a] = Nothing
    BY <1>1, <1>2, <1>3 DEF ledgerVars
  <1>4. CASE receiving[a] # Nothing
    BY <1>1, <1>4 DEF LoseDelivery
  <1>5. QED
    BY <1>3, <1>4

(* Every step is one of the ledger, or none.                                *)
LEMMA StepOfLedger ==
  ASSUME IInv, [Next]_vars
  PROVE  [LedgerNext]_ledgerVars
  <1>1. ASSUME NEW a \in Actors, NEW approval, NEW observer,
               StartReview(a, approval, observer) \/ StartLoop(a, approval, observer)
        PROVE  UNCHANGED ledgerVars
    BY <1>1 DEF StartReview, StartLoop, Start, ledgerVars
  <1>2. ASSUME NEW a \in Actors, StartApproval(a) \/ CheckApproved(a)
        PROVE  UNCHANGED ledgerVars
    BY <1>2 DEF StartApproval, CheckApproved, Start, Persisted, ledgerVars
  <1>3. ASSUME NEW a \in Actors, ReceiveHired(a) \/ StoreHired(a) \/ Abandon(a)
        PROVE  LedgerNext \/ UNCHANGED ledgerVars
    BY <1>3, HiredDelivers, AbandonLoses, ActorsRecord DEF LedgerNext, Deliver
  <1>4. ASSUME NEW a \in Actors, Conclude(a) \/ PromoteApproved(a)
        PROVE  LedgerNext \/ UNCHANGED ledgerVars
    BY <1>4, ConcludePromotes, ApprovedPromotes DEF LedgerNext
  <1>5. ASSUME NEW p \in Recorders, ConfirmExtraction(p) PROVE LedgerNext
    BY <1>5, ExtractionDelivers DEF LedgerNext
  <1>6. (ImportRow \/ Tick) => LedgerNext
    BY DEF ImportRow, Tick, LedgerNext
  <1>7. UNCHANGED vars => UNCHANGED ledgerVars
    BY DEF vars, ledgerVars
  <1>8. QED
    BY <1>1, <1>2, <1>3, <1>4, <1>5, <1>6, <1>7 DEF Next

LEMMA EveryStep ==
  ASSUME IInv, [Next]_vars
  PROVE  Steps
  BY StepOfLedger, LedgerStep DEF IInv, Steps

-----------------------------------------------------------------------------
(* A promotion leaves a reference to the head of its rows.                  *)
LEMMA Promoted ==
  ASSUME NEW rows \in SUBSET Rows, IsFiniteSet(rows), NEW value \in Values,
         NEW canonical \in SUBSET UIDs, NEW acceptedAt \in Times, NEW aged \in BOOLEAN,
         NEW began \in SUBSET UIDs,
         PromoteRows(rows, value, canonical, acceptedAt, aged, began)
  PROVE  /\ reference' \in References
         /\ reference'.value = value /\ reference'.canonical = canonical
         /\ reference'.acceptedAt = acceptedAt
         /\ approvals' = approvals
  <1>1. CanonicalHead(rows, acceptedAt) \in Candidates(rows, acceptedAt)
    BY HeadIsCandidate DEF PromoteRows
  <1>2. CanonicalHead(rows, acceptedAt) \in Rows
    BY <1>1, CandidateIsRow
  <1>3. CanonicalHead(rows, acceptedAt).uid \in UIDs
    BY <1>2, RowFields
  <1>4. QED
    BY <1>3 DEF PromoteRows, References

(* What a check reads off the rows it accepts.                              *)
LEMMA CheckedRows ==
  ASSUME NEW rows \in SUBSET Rows, IsFiniteSet(rows), NEW now \in Times,
         NEW approval, Accepts(rows, now, approval, history)
  PROVE  /\ CanonicalHead(rows, now) # NoRow
         /\ CanonicalHead(rows, now).value \in Values
         /\ UidsOf(Candidates(rows, now)) \in SUBSET UIDs
         /\ ApprovalRequired => approval # NoApproval /\ approval = rows
  <1>1. CanonicalHead(rows, now) # NoRow /\ Approved(rows, approval)
    BY DEF Accepts
  <1>2. CanonicalHead(rows, now) \in rows
    BY <1>1, HeadIsCandidate, CandidateIsRow
  <1>3. CanonicalHead(rows, now).value \in Values
    BY <1>2, RowFields
  <1>4. \A r \in Candidates(rows, now) : r \in Rows
    BY CandidateIsRow
  <1>5. UidsOf(Candidates(rows, now)) \in SUBSET UIDs
    BY <1>4, RowFields DEF UidsOf
  <1>6. QED
    BY <1>1, <1>3, <1>5 DEF Approved

-----------------------------------------------------------------------------
LEMMA StartReviewStep ==
  ASSUME IInv, Steps, NEW a \in Actors, NEW approval \in approvals \cup {NoApproval},
         NEW observer \in Addresses, StartReview(a, approval, observer)
  PROVE  IInv'
  <1> DEFINE j == Hiring("review", clock, approval, observer, Recorded)
  <1>1. Start(a, "review", j) /\ UNCHANGED <<ledger, history, approvals>>
    BY DEF StartReview
  <1>2. runs' \in [Actors -> 0..MaxRuns] /\ Becomes(a, j) /\ clock' = clock
    BY <1>1, RunsCounted
  <1>3. reference' \in References \cup {NoReference} /\ AcceptedWasApproved'
    <2>1. CASE reference = NoReference
      BY <1>1, <2>1, ReferenceUnchanged DEF StartReview
    <2>2. CASE reference # NoReference
      <3>1. reference \in References
        BY <2>2, StoreTypes
      <3>2. /\ reference' \in References /\ reference'.value = reference.value
            /\ reference'.canonical = reference.canonical
            /\ reference'.acceptedAt = reference.acceptedAt
        BY <2>2, <3>1 DEF StartReview, References
      <3>3. QED
        BY <1>1, <2>2, <3>2 DEF IInv, AcceptedWasApproved
    <2>3. QED
      BY <2>1, <2>2
  <1>4. j \in JobStates /\ JobHolds(j, clock', approvals', ledger')
    BY <1>1, <1>2, HiringHolds
  <1>5. QED
    BY <1>1, <1>2, <1>3, <1>4, StoreTypes, OneActorSteps, Preserved

LEMMA StartLoopStep ==
  ASSUME IInv, Steps, NEW a \in Actors, NEW approval \in approvals \cup {NoApproval},
         NEW observer \in Addresses, StartLoop(a, approval, observer)
  PROVE  IInv'
  <1> DEFINE j == IF Accepts(ledger, clock, approval, history') THEN Idle
                  ELSE Hiring("loop", clock, approval, observer, Recorded)
  <1>1. Start(a, "loop", j) /\ UNCHANGED <<ledger, approvals, reference>>
    BY DEF StartLoop
  <1>2. runs' \in [Actors -> 0..MaxRuns] /\ Becomes(a, j) /\ clock' = clock
    BY <1>1, RunsCounted
  <1>3. history' \in [Addresses -> Nat \cup {NoHistory}]
    BY Created DEF StartLoop
  <1>4. j \in JobStates /\ JobHolds(j, clock', approvals', ledger')
    BY <1>1, <1>2, HiringHolds, IdleHolds
  <1>5. QED
    BY <1>1, <1>2, <1>3, <1>4, StoreTypes, ReferenceUnchanged, OneActorSteps, Preserved

LEMMA ReceiveHiredStep ==
  ASSUME IInv, Steps, NEW a \in Actors, ReceiveHired(a)
  PROVE  IInv'
  BY NoActorSteps, Preserved, ReferenceUnchanged, StoreTypes DEF ReceiveHired

LEMMA StoreHiredStep ==
  ASSUME IInv, Steps, NEW a \in Actors, StoreHired(a)
  PROVE  IInv'
  <1> DEFINE h == job[a]
             j == Concluding(h.flow, h.now, h.approval, h.observer, h.began)
  <1>1. /\ h.step = "hire" /\ Becomes(a, j)
        /\ history' = [history EXCEPT ![h.observer] = IF @ = NoHistory THEN 0 ELSE @]
        /\ UNCHANGED <<approvals, reference, runs>>
    BY DEF StoreHired
  <1>2. /\ h.flow \in {"review", "loop"} /\ h.now \in Times
        /\ h.approval \in {NoApproval} \cup SUBSET Rows /\ h.observer \in Addresses
        /\ h.began \in SUBSET UIDs
        /\ JobHolds(h, clock', approvals', ledger')
    BY <1>1, JobAtHand, JobFields, JobHoldsStill
  <1>3. j \in JobStates
    BY <1>2 DEF Concluding, JobStates
  <1>4. JobHolds(j, clock', approvals', ledger')
    BY <1>1, <1>2 DEF Concluding, JobHolds
  <1>5. history' \in [Addresses -> Nat \cup {NoHistory}]
    BY <1>1, Created
  <1>6. QED
    BY <1>1, <1>3, <1>4, <1>5, StoreTypes, ReferenceUnchanged, OneActorSteps, Preserved

LEMMA ConcludeStep ==
  ASSUME IInv, Steps, NEW a \in Actors, Conclude(a)
  PROVE  IInv'
  <1> DEFINE j == job[a]
             value == CanonicalHead(ledger, j.now).value
             canonical == UidsOf(Candidates(ledger, j.now))
  <1>1. j.step = "conclude" /\ Becomes(a, Idle) /\ UNCHANGED <<history, runs>>
    BY DEF Conclude
  <1>2. /\ j.flow \in {"review", "loop"} /\ j.now \in Times /\ j.began \in SUBSET UIDs
        /\ j.now <= clock /\ j.approval \in approvals \cup {NoApproval}
    BY <1>1, JobAtHand, JobFields DEF JobHolds
  <1>3. ledger \in SUBSET Rows /\ IsFiniteSet(ledger)
    BY LedgerFacts
  <1>4. approvals' = approvals /\ reference' \in References \cup {NoReference} /\ AcceptedWasApproved'
    <2>1. CASE ~Accepts(ledger, j.now, j.approval, history)
      <3>1. UNCHANGED <<approvals, reference>>
        BY <2>1 DEF Conclude, CheckAcceptance
      <3>2. QED
        BY <3>1, ReferenceUnchanged
    <2>2. CASE Accepts(ledger, j.now, j.approval, history)
      <3>1. PromoteRows(ledger, value, canonical, j.now, j.flow = "review", j.began)
        BY <2>2 DEF Conclude, CheckAcceptance
      <3>2. /\ CanonicalHead(ledger, j.now) # NoRow
            /\ value \in Values /\ canonical \in SUBSET UIDs
            /\ ApprovalRequired => j.approval # NoApproval /\ j.approval = ledger
        BY <1>2, <1>3, <2>2, CheckedRows
      <3>3. /\ reference' \in References
            /\ reference'.value = value /\ reference'.canonical = canonical
            /\ reference'.acceptedAt = j.now /\ approvals' = approvals
        BY <1>2, <1>3, <3>1, <3>2, Promoted
      <3>4. ASSUME ApprovalRequired PROVE ledger \in approvals'
        BY <1>2, <3>2, <3>3, <3>4
      <3>5. j.now \in 0..reference'.acceptedAt
        BY <1>2, <3>3, TimeBound DEF Times
      <3>6. QED
        BY <3>2, <3>3, <3>4, <3>5 DEF AcceptedWasApproved
    <2>3. QED
      BY <2>1, <2>2
  <1>5. QED
    BY <1>1, <1>4, StoreTypes, IdleHolds, OneActorSteps, Preserved

LEMMA StartApprovalStep ==
  ASSUME IInv, Steps, NEW a \in Actors, StartApproval(a)
  PROVE  IInv'
  <1>1. Start(a, "approve", Checking(ledger)) /\ UNCHANGED <<ledger, history, reference>>
        /\ approvals' = approvals \cup {ledger}
    BY DEF StartApproval, RecordManualApproval
  <1>2. runs' \in [Actors -> 0..MaxRuns] /\ Becomes(a, Checking(ledger))
    BY <1>1, RunsCounted
  <1>3. ledger \in SUBSET Rows /\ IsFiniteSet(ledger) /\ approvals' \subseteq SUBSET Rows
    BY <1>1, LedgerFacts, StoreTypes
  <1>4. Checking(ledger) \in JobStates
    BY <1>3 DEF Checking, JobStates
  <1>5. JobHolds(Checking(ledger), clock', approvals', ledger')
    BY <1>1, <1>3, WithinItself DEF Checking, JobHolds
  <1>6. QED
    BY <1>1, <1>2, <1>3, <1>4, <1>5, StoreTypes, OneActorSteps, Preserved, ReferenceUnchanged

LEMMA CheckApprovedStep ==
  ASSUME IInv, Steps, NEW a \in Actors, CheckApproved(a)
  PROVE  IInv'
  <1> DEFINE rows == job[a].rows
             value == CanonicalHead(rows, clock).value
             canonical == UidsOf(Candidates(rows, clock))
             j == IF Accepts(rows, clock, rows, history)
                  THEN Promoting(rows, value, canonical) ELSE Idle
  <1>1. /\ job[a].step = "check" /\ Becomes(a, j)
        /\ UNCHANGED <<clock, ledger, history, approvals, reference, runs>>
    BY DEF CheckApproved, CheckAcceptance, Persisted
  <1>2. /\ rows \in SUBSET Rows /\ rows \in approvals
        /\ IsFiniteSet(rows) /\ Within(rows, ledger)
    BY <1>1, JobAtHand, JobFields DEF JobHolds
  <1>3. j \in JobStates /\ JobHolds(j, clock', approvals', ledger')
    <2>1. CASE ~Accepts(rows, clock, rows, history)
      BY <2>1, IdleHolds
    <2>2. CASE Accepts(rows, clock, rows, history)
      <3>1. /\ CanonicalHead(rows, clock) # NoRow
            /\ value \in Values /\ canonical \in SUBSET UIDs
        BY <1>2, <2>2, CheckedRows, ClockIsInt
      <3>2. Headed(rows, value, canonical, clock)
        BY <3>1, ClockIsInt DEF Headed
      <3>3. Promoting(rows, value, canonical) \in JobStates
        BY <1>2, <3>1 DEF Promoting, JobStates
      <3> HIDE DEF value, canonical
      <3>4. JobHolds(Promoting(rows, value, canonical), clock, approvals, ledger)
        BY <1>2, <3>2 DEF Promoting, JobHolds
      <3>5. QED
        BY <1>1, <2>2, <3>3, <3>4
    <2>3. QED
      BY <2>1, <2>2
  <1>4. QED
    BY <1>1, <1>3, StoreTypes, OneActorSteps, Preserved, ReferenceUnchanged

LEMMA PromoteApprovedStep ==
  ASSUME IInv, Steps, NEW a \in Actors, PromoteApproved(a)
  PROVE  IInv'
  <1> DEFINE rows == job[a].rows
             value == job[a].value
             canonical == job[a].canonical
  <1>1. /\ job[a].step = "promote" /\ Becomes(a, Idle) /\ UNCHANGED <<history, runs>>
        /\ PromoteRows(rows, value, canonical, clock, FALSE, UidsOf(rows))
    BY DEF PromoteApproved
  <1>2. /\ rows \in SUBSET Rows /\ rows \in approvals /\ IsFiniteSet(rows)
        /\ value \in Values /\ canonical \in SUBSET UIDs
        /\ Headed(rows, value, canonical, clock)
    BY <1>1, JobAtHand, JobFields DEF JobHolds
  <1>3. UidsOf(rows) \in SUBSET UIDs
    BY <1>2, RowFields DEF UidsOf
  <1>4. /\ reference' \in References
        /\ reference'.value = value /\ reference'.canonical = canonical
        /\ reference'.acceptedAt = clock /\ approvals' = approvals
    BY <1>1, <1>2, <1>3, ClockIsInt, Promoted
  <1>5. AcceptedWasApproved'
    BY <1>2, <1>4 DEF AcceptedWasApproved, Headed
  <1>6. QED
    BY <1>1, <1>4, <1>5, StoreTypes, IdleHolds, OneActorSteps, Preserved

LEMMA AbandonStep ==
  ASSUME IInv, Steps, NEW a \in Actors, Abandon(a)
  PROVE  IInv'
  <1>1. Becomes(a, Idle) /\ UNCHANGED <<history, approvals, reference, runs>>
    BY DEF Abandon, Persisted
  <1>2. QED
    BY <1>1, StoreTypes, IdleHolds, OneActorSteps, Preserved, ReferenceUnchanged

(* A delivery outside every flow, an import, the clock.                     *)
LEMMA OutsideStep ==
  ASSUME IInv, Steps, UNCHANGED <<history, approvals, reference, job, runs>>
  PROVE  IInv'
  BY NoActorSteps, Preserved, ReferenceUnchanged, StoreTypes

-----------------------------------------------------------------------------
LEMMA NextInv ==
  ASSUME IInv, [Next]_vars
  PROVE  IInv'
  <1>1. Steps
    BY EveryStep
  <1>2. ASSUME NEW a \in Actors, NEW approval \in approvals \cup {NoApproval},
               NEW observer \in Addresses,
               StartReview(a, approval, observer) \/ StartLoop(a, approval, observer)
        PROVE  IInv'
    BY <1>1, <1>2, StartReviewStep, StartLoopStep
  <1>3. ASSUME NEW a \in Actors, ReceiveHired(a) \/ StoreHired(a) \/ Conclude(a) \/ Abandon(a)
        PROVE  IInv'
    BY <1>1, <1>3, ReceiveHiredStep, StoreHiredStep, ConcludeStep, AbandonStep
  <1>4. ASSUME NEW a \in Actors, StartApproval(a) \/ CheckApproved(a) \/ PromoteApproved(a)
        PROVE  IInv'
    BY <1>1, <1>4, StartApprovalStep, CheckApprovedStep, PromoteApprovedStep
  <1>5. ASSUME NEW p \in Recorders, ConfirmExtraction(p) PROVE IInv'
    BY <1>1, <1>5, OutsideStep DEF ConfirmExtraction
  <1>6. (ImportRow \/ Tick \/ UNCHANGED vars) => IInv'
    BY <1>1, OutsideStep DEF ImportRow, Tick, vars
  <1>7. QED
    BY <1>2, <1>3, <1>4, <1>5, <1>6 DEF Next

LEMMA InitInvariant == Init => IInv
  <1> SUFFICES ASSUME Init PROVE IInv
    OBVIOUS
  <1>1. LedgerInv
    BY TimeBound, FS_EmptySet, NothingIsTraced
       DEF Init, LedgerInit, LedgerInv, LedgerTypeOK, Ledgers, Times
  <1>2. TypeOK
    BY <1>1, StartHistoryType, MaxRunsType, IdleHolds DEF Init, TypeOK, LedgerInv
  <1>3. \A a \in Actors : JobHolds(job[a], clock, approvals, ledger)
    BY IdleHolds DEF Init
  <1>4. AcceptedWasApproved
    BY DEF Init, AcceptedWasApproved
  <1>5. QED
    BY <1>1, <1>2, <1>3, <1>4 DEF IInv, Init

LEMMA Invariance == Spec => []IInv
  <1>1. IInv /\ [Next]_vars => IInv'
    BY NextInv
  <1>2. QED
    BY InitInvariant, <1>1, PTL DEF Spec

(* Every value is of its type, whatever the flows do to the store.          *)
THEOREM TypeCorrect == Spec => []TypeOK
  <1>1. IInv => TypeOK
    BY DEF IInv
  <1>2. QED
    BY <1>1, Invariance, PTL

(* A human approved it: where the policy requires approval, the value the   *)
(* gate reads headed exactly the rows of an approval, whoever records rows  *)
(* between the steps of the approver, the loop and the review.              *)
(* (check_manual_approval)                                                  *)
THEOREM HumanApproved == Spec => []AcceptedWasApproved
  <1>1. IInv => AcceptedWasApproved
    BY DEF IInv
  <1>2. QED
    BY <1>1, Invariance, PTL

(* The flows implement the ledger: their deliveries, extractions and        *)
(* promotions are those of TemporalLedger, so that what holds of that       *)
(* module holds of their store.  (record_verifier_observation,              *)
(* promote_acceptance)                                                      *)
THEOREM GateImplementsLedger == Spec => LedgerSpec
  <1>1. Init => LedgerInit
    BY DEF Init
  <1>2. IInv /\ [Next]_vars => [LedgerNext]_ledgerVars
    BY StepOfLedger
  <1>3. QED
    BY <1>1, <1>2, Invariance, PTL DEF Spec, LedgerSpec

-----------------------------------------------------------------------------
(* A review began at `now' with no rows, or with a candidate that was       *)
(* stale: none of the rows it found then is of a later period.              *)
AwaitsFresh(rows, now, began) ==
  \/ began = {}
  \/ \E s \in rows : /\ Stale(s, now) /\ s.eff <= now
                     /\ \A r \in rows : r.eff <= now /\ r.uid \in began => r.eff <= s.eff

(* So what a review accepts was not there when it began, and its schedule   *)
(* counts from no earlier instant than the policy.                          *)
CountsFromReceipt ==
  (reference # NoReference /\ reference.aged) =>
    /\ reference.acceptedAt <= clock
    /\ \A uid \in reference.canonical :
         /\ uid \notin reference.began
         /\ \E r \in ledger : /\ r.uid = uid
                              /\ AgeLimit # NoTime => r.recorded <= reference.acceptedAt

FreshInv ==
  ~imports =>
    /\ \A a \in Actors : (job[a].step \in {"hire", "conclude"} /\ job[a].flow = "review")
                           => AwaitsFresh(ledger, job[a].now, job[a].began)
    /\ CountsFromReceipt

(* What a review waits for, it still waits for when the ledger has grown.   *)
LEMMA AwaitsStill ==
  ASSUME NEW L, NEW M \in Ledgers, Within(L, M), NEW now, NEW began,
         began \subseteq UidsOf(L), AwaitsFresh(L, now, began)
  PROVE  AwaitsFresh(M, now, began)
  <1>1. CASE began = {}
    BY <1>1 DEF AwaitsFresh
  <1>2. CASE \E s \in L : /\ Stale(s, now) /\ s.eff <= now
                          /\ \A r \in L : r.eff <= now /\ r.uid \in began => r.eff <= s.eff
    <2>1. PICK s \in L : /\ Stale(s, now) /\ s.eff <= now
                         /\ \A r \in L : r.eff <= now /\ r.uid \in began => r.eff <= s.eff
      BY <1>2
    <2>2. PICK m \in M : SameRow(s, m)
      BY DEF Within
    <2>3. Stale(m, now) /\ m.eff <= now
      BY <2>1, <2>2 DEF Stale, SameRow
    <2>4. ASSUME NEW t \in M, t.eff <= now, t.uid \in began PROVE t.eff <= m.eff
      <3>1. PICK r \in L : r.uid = t.uid
        BY <2>4 DEF UidsOf
      <3>2. PICK u \in M : SameRow(r, u)
        BY DEF Within
      <3>3. u = t
        BY <3>1, <3>2 DEF SameRow, Ledgers
      <3>4. QED
        BY <2>1, <2>2, <2>4, <3>2, <3>3 DEF SameRow
    <2>5. QED
      BY <2>3, <2>4 DEF AwaitsFresh
  <1>3. QED
    BY <1>1, <1>2 DEF AwaitsFresh

(* A review that may begin awaits a fresh reading.  (review_paths_with_...) *)
LEMMA ReviewAwaits ==
  ASSUME IInv, ~imports, ledger = {} \/ StaleRows(ledger, clock) # {}
  PROVE  AwaitsFresh(ledger, clock, Recorded)
  <1>1. /\ ledger \in Ledgers /\ IsFiniteSet(ledger) /\ clock \in Times
        /\ \A r \in ledger : IsDelivered(r, ledger)
    BY ClockIsInt, LedgerFacts DEF IInv, LedgerInv
  <1>2. CASE ledger = {}
    BY <1>2 DEF AwaitsFresh, Recorded
  <1>3. CASE StaleRows(ledger, clock) # {}
    <2>1. PICK s \in Candidates(ledger, clock) : Stale(s, clock)
      BY <1>1, <1>3, DeliveredResolves DEF StaleRows
    <2>2. s \in ledger /\ s.eff <= clock
      BY <2>1, CandidateIsRow
    <2>3. \A x \in ledger : x.eff <= clock => x.eff <= s.eff
      BY <1>1, <2>1, <2>2, CandidatesAreLatest
    <2>4. QED
      BY <2>1, <2>2, <2>3 DEF AwaitsFresh
  <1>4. QED
    BY <1>2, <1>3

(* What a review accepts is new, and was received by the second it began.   *)
LEMMA AcceptedIsNew ==
  ASSUME IInv, ~imports, NEW now \in Times, NEW began,
         AwaitsFresh(ledger, now, began), StaleRows(ledger, now) = {},
         NEW c \in Candidates(ledger, now)
  PROVE  c.uid \notin began /\ (AgeLimit # NoTime => c.recorded <= now)
  <1>1. /\ ledger \in Ledgers /\ ledger \in SUBSET Rows /\ IsFiniteSet(ledger)
        /\ now \in Int /\ c \in ledger /\ c.eff <= now
        /\ \A r \in ledger : IsDelivered(r, ledger)
    BY ClockIsInt, LedgerFacts, CandidateIsRow DEF IInv, LedgerInv
  <1>2. \A x \in ledger : x.eff \in Int /\ x.recorded \in Int
    BY <1>1, RowFields
  <1>3. \A x \in Candidates(ledger, now) : ~Stale(x, now)
    BY <1>1, DeliveredResolves DEF StaleRows
  <1>4. AgeLimit # NoTime => c.recorded <= now
    BY <1>1, <1>2, <1>3 DEF Stale
  <1>5. ASSUME c.uid \in began PROVE FALSE
    <2>1. PICK s \in ledger :
                 /\ Stale(s, now) /\ s.eff <= now
                 /\ \A r \in ledger : r.eff <= now /\ r.uid \in began => r.eff <= s.eff
      BY <1>5 DEF AwaitsFresh
    <2>2. c.eff <= s.eff
      BY <1>1, <1>5, <2>1
    <2>3. \A x \in ledger : x.eff <= now => x.eff <= c.eff
      BY <1>1, CandidatesAreLatest
    <2>4. \A x \in ledger : x.eff <= now => x.eff <= s.eff
      BY <1>1, <1>2, <2>1, <2>2, <2>3
    <2>5. s \in Candidates(ledger, now)
      BY <1>1, <2>1, <2>4, CandidatesAreLatest
    <2>6. QED
      BY <1>3, <2>1, <2>5
  <1>6. QED
    BY <1>4, <1>5

(* The review a step leaves an actor in: the one it was in, or one that     *)
(* began at this second.                                                    *)
LEMMA ReviewStep ==
  ASSUME IInv, [Next]_vars, NEW b \in Actors, job'[b].step \in {"hire", "conclude"},
         job'[b].flow = "review"
  PROVE  \/ /\ job[b].step \in {"hire", "conclude"} /\ job[b].flow = "review"
            /\ job'[b].now = job[b].now /\ job'[b].began = job[b].began
         \/ /\ job'[b].now = clock /\ job'[b].began = Recorded /\ ledger' = ledger
            /\ ledger = {} \/ StaleRows(ledger, clock) # {}
  <1> DEFINE Stays == /\ job[b].step \in {"hire", "conclude"} /\ job[b].flow = "review"
                      /\ job'[b].now = job[b].now /\ job'[b].began = job[b].began
             Begins == /\ job'[b].now = clock /\ job'[b].began = Recorded /\ ledger' = ledger
                       /\ ledger = {} \/ StaleRows(ledger, clock) # {}
  <1>1. job \in [Actors -> JobStates]
    BY DEF IInv, TypeOK
  <1>2. \A a \in Actors : \A j : Becomes(a, j) => job'[b] = IF b = a THEN j ELSE job[b]
    BY <1>1 DEF Becomes
  <1>3. job'[b] = job[b] => Stays
    OBVIOUS
  <1>4. job'[b] # Idle
    BY DEF Idle
  <1>5. ASSUME NEW a \in Actors, NEW approval, NEW observer, StartReview(a, approval, observer)
        PROVE  Stays \/ Begins
    <2>1. /\ Becomes(a, Hiring("review", clock, approval, observer, Recorded)) /\ ledger' = ledger
          /\ ledger = {} \/ StaleRows(ledger, clock) # {}
      BY <1>5 DEF StartReview, Start
    <2>2. QED
      BY <1>2, <1>3, <2>1 DEF Hiring
  <1>6. ASSUME NEW a \in Actors, NEW approval, NEW observer, StartLoop(a, approval, observer)
        PROVE  Stays
    <2>1. \E j \in {Idle, Hiring("loop", clock, approval, observer, Recorded)} : Becomes(a, j)
      BY <1>6 DEF StartLoop, Start
    <2>2. QED
      BY <1>2, <1>3, <1>4, <2>1 DEF Hiring
  <1>7. ASSUME NEW a \in Actors, StoreHired(a) PROVE Stays
    <2>1. /\ job[a].step = "hire"
          /\ Becomes(a, Concluding(job[a].flow, job[a].now, job[a].approval, job[a].observer,
                                   job[a].began))
      BY <1>7 DEF StoreHired
    <2>2. QED
      BY <1>2, <1>3, <2>1 DEF Concluding
  <1>8. ASSUME NEW a \in Actors, Conclude(a) \/ Abandon(a) \/ PromoteApproved(a) PROVE Stays
    BY <1>2, <1>3, <1>4, <1>8 DEF Conclude, Abandon, PromoteApproved
  <1>9. ASSUME NEW a \in Actors, StartApproval(a) \/ CheckApproved(a) PROVE Stays
    <2>1. \E j : Becomes(a, j) /\ (j = Idle \/ j.step \in {"check", "promote"})
      BY <1>9 DEF StartApproval, Start, CheckApproved, Checking, Promoting
    <2>2. QED
      BY <1>2, <1>3, <1>4, <2>1
  <1>10. ASSUME NEW p \in Recorders,
                \/ ConfirmExtraction(p) \/ ImportRow \/ Tick \/ UNCHANGED vars
                \/ p \in Actors /\ ReceiveHired(p)
         PROVE  Stays
    BY <1>3, <1>10 DEF ConfirmExtraction, ImportRow, Tick, vars, ReceiveHired
  <1>11. (ImportRow \/ Tick \/ UNCHANGED vars) => Stays
    BY <1>3 DEF ImportRow, Tick, vars
  <1> HIDE DEF Stays, Begins
  <1>12. Stays \/ Begins
    BY <1>5, <1>6, <1>7, <1>8, <1>9, <1>10, <1>11, ActorsRecord DEF Next
  <1>13. QED
    BY <1>12 DEF Stays, Begins

(* What a step does to the reference.                                       *)
LEMMA ReferenceStep ==
  ASSUME [Next]_vars
  PROVE  \/ reference' = reference
         \/ reference # NoReference /\ reference' = [reference EXCEPT !.fresh = FALSE]
         \/ \E a \in Actors :
              /\ job[a].step = "conclude"
              /\ Accepts(ledger, job[a].now, job[a].approval, history)
              /\ PromoteRows(ledger, CanonicalHead(ledger, job[a].now).value,
                         UidsOf(Candidates(ledger, job[a].now)), job[a].now,
                         job[a].flow = "review", job[a].began)
         \/ reference'.aged = FALSE
  <1>1. ASSUME NEW a \in Actors, NEW approval, NEW observer,
               StartReview(a, approval, observer) \/ StartLoop(a, approval, observer)
        PROVE  \/ reference' = reference
               \/ reference # NoReference /\ reference' = [reference EXCEPT !.fresh = FALSE]
    BY <1>1 DEF StartReview, StartLoop
  <1>2. ASSUME NEW a \in Actors, Conclude(a), reference' # reference
        PROVE  /\ job[a].step = "conclude"
               /\ Accepts(ledger, job[a].now, job[a].approval, history)
               /\ PromoteRows(ledger, CanonicalHead(ledger, job[a].now).value,
                          UidsOf(Candidates(ledger, job[a].now)), job[a].now,
                          job[a].flow = "review", job[a].began)
    BY <1>2 DEF Conclude, CheckAcceptance
  <1>3. ASSUME NEW a \in Actors,
               \/ ReceiveHired(a) \/ StoreHired(a) \/ Abandon(a)
               \/ StartApproval(a) \/ CheckApproved(a)
        PROVE  reference' = reference
    BY <1>3 DEF ReceiveHired, StoreHired, Abandon, StartApproval, CheckApproved, Persisted
  <1>4. ASSUME NEW a \in Actors, PromoteApproved(a) PROVE reference'.aged = FALSE
    BY <1>4 DEF PromoteApproved, PromoteRows
  <1>5. ASSUME NEW p \in Recorders, ConfirmExtraction(p) PROVE reference' = reference
    BY <1>5 DEF ConfirmExtraction
  <1>6. (ImportRow \/ Tick \/ UNCHANGED vars) => reference' = reference
    BY DEF ImportRow, Tick, vars
  <1>7. QED
    BY <1>1, <1>2, <1>3, <1>4, <1>5, <1>6 DEF Next

LEMMA NextFreshInv ==
  ASSUME IInv, FreshInv, [Next]_vars
  PROVE  FreshInv'
  <1> SUFFICES ASSUME ~imports
               PROVE  /\ \A b \in Actors :
                           (job'[b].step \in {"hire", "conclude"} /\ job'[b].flow = "review")
                             => AwaitsFresh(ledger', job'[b].now, job'[b].began)
                      /\ CountsFromReceipt'
    BY EveryStep DEF FreshInv, Steps, LedgerGrows
  <1>1. Within(ledger, ledger') /\ ledger' \in Ledgers
    BY EveryStep DEF Steps, LedgerGrows, LedgerInv, LedgerTypeOK
  <1>2. clock \in Int /\ clock' \in Int /\ clock <= clock' /\ Times \subseteq Int
    BY EveryStep, ClockIsInt DEF Steps, LedgerGrows, LedgerInv, LedgerTypeOK
  <1>3. ASSUME NEW b \in Actors, job'[b].step \in {"hire", "conclude"}, job'[b].flow = "review"
        PROVE  AwaitsFresh(ledger', job'[b].now, job'[b].began)
    <2>1. CASE /\ job[b].step \in {"hire", "conclude"} /\ job[b].flow = "review"
               /\ job'[b].now = job[b].now /\ job'[b].began = job[b].began
      <3>1. AwaitsFresh(ledger, job[b].now, job[b].began) /\ job[b].began \subseteq UidsOf(ledger)
        BY <2>1, JobAtHand DEF FreshInv, JobHolds
      <3>2. QED
        BY <1>1, <2>1, <3>1, AwaitsStill
    <2>2. CASE /\ job'[b].now = clock /\ job'[b].began = Recorded /\ ledger' = ledger
               /\ ledger = {} \/ StaleRows(ledger, clock) # {}
      BY <2>2, ReviewAwaits
    <2>3. QED
      BY <1>3, <2>1, <2>2, ReviewStep
  <1>4. CountsFromReceipt'
    <2>1. CASE reference' = reference
      <3>1. reference # NoReference => reference.acceptedAt \in Int
        BY <1>2, StoreTypes DEF References
      <3> SUFFICES ASSUME reference # NoReference, reference.aged, NEW uid \in reference.canonical
                   PROVE  /\ uid \notin reference.began
                          /\ \E t \in ledger' :
                               /\ t.uid = uid
                               /\ AgeLimit # NoTime => t.recorded <= reference.acceptedAt
        BY <1>2, <2>1, <3>1 DEF FreshInv, CountsFromReceipt
      <3>2. uid \notin reference.began
        BY DEF FreshInv, CountsFromReceipt
      <3>3. PICK r \in ledger :
                   r.uid = uid /\ (AgeLimit # NoTime => r.recorded <= reference.acceptedAt)
        BY DEF FreshInv, CountsFromReceipt
      <3>4. QED
        BY <1>1, <3>2, <3>3 DEF Within, SameRow
    <2>2. CASE reference # NoReference /\ reference' = [reference EXCEPT !.fresh = FALSE]
      <3>1. reference \in References
        BY <2>2, StoreTypes
      <3>2. /\ reference'.aged = reference.aged /\ reference'.acceptedAt = reference.acceptedAt
            /\ reference'.canonical = reference.canonical /\ reference'.began = reference.began
            /\ reference.acceptedAt \in Int
        BY <1>2, <2>2, <3>1 DEF References
      <3> SUFFICES ASSUME reference.aged, NEW uid \in reference.canonical
                   PROVE  /\ uid \notin reference.began
                          /\ \E t \in ledger' :
                               /\ t.uid = uid
                               /\ AgeLimit # NoTime => t.recorded <= reference.acceptedAt
        BY <1>2, <2>2, <3>2 DEF FreshInv, CountsFromReceipt
      <3>3. uid \notin reference.began
        BY <2>2 DEF FreshInv, CountsFromReceipt
      <3>4. PICK r \in ledger :
                   r.uid = uid /\ (AgeLimit # NoTime => r.recorded <= reference.acceptedAt)
        BY <2>2 DEF FreshInv, CountsFromReceipt
      <3>5. QED
        BY <1>1, <3>3, <3>4 DEF Within, SameRow
    <2>3. ASSUME NEW a \in Actors, job[a].step = "conclude",
                 Accepts(ledger, job[a].now, job[a].approval, history),
                 PromoteRows(ledger, CanonicalHead(ledger, job[a].now).value,
                         UidsOf(Candidates(ledger, job[a].now)), job[a].now,
                         job[a].flow = "review", job[a].began)
          PROVE  CountsFromReceipt'
      <3>1. PICK now, began : now = job[a].now /\ began = job[a].began
        OBVIOUS
      <3>2. now \in Times /\ now <= clock /\ now \in Int
        BY <1>2, <2>3, <3>1, JobAtHand, JobFields DEF JobHolds
      <3>3. /\ reference'.acceptedAt = now /\ reference'.began = began
            /\ reference'.canonical = UidsOf(Candidates(ledger, now))
        BY <2>3, <3>1 DEF PromoteRows
      <3>4. StaleRows(ledger, now) = {}
        BY <2>3, <3>1 DEF Accepts
      <3>5. ASSUME job[a].flow = "review", NEW uid \in UidsOf(Candidates(ledger, now))
            PROVE  /\ uid \notin began
                   /\ \E t \in ledger' : t.uid = uid /\ (AgeLimit # NoTime => t.recorded <= now)
        <4>1. PICK c \in Candidates(ledger, now) : c.uid = uid
          BY <3>5 DEF UidsOf
        <4>2. AwaitsFresh(ledger, now, began)
          BY <2>3, <3>1, <3>5 DEF FreshInv
        <4>3. c.uid \notin began /\ (AgeLimit # NoTime => c.recorded <= now)
          BY <3>2, <3>4, <4>2, AcceptedIsNew
        <4>4. PICK t \in ledger' : SameRow(c, t)
          BY <1>1, CandidateIsRow DEF Within
        <4>5. QED
          BY <4>1, <4>3, <4>4 DEF SameRow
      <3>6. job[a].flow # "review" => reference'.aged = FALSE
        BY <2>3 DEF PromoteRows
      <3>7. QED
        BY <1>2, <3>2, <3>3, <3>5, <3>6 DEF CountsFromReceipt
    <2>4. CASE reference'.aged = FALSE
      BY <2>4 DEF CountsFromReceipt
    <2>5. QED
      BY <2>1, <2>2, <2>3, <2>4, ReferenceStep
  <1>5. QED
    BY <1>3, <1>4

(* What reads fresh is fresh: in a store only Standing writes, whatever     *)
(* flows run beside each other, a reference that passes its own schedule    *)
(* rests on rows the policy calls fresh at this second, or on a delivery    *)
(* received before its review began and saved while it ran: a review        *)
(* accepts nothing that was there when it began.                            *)
(* (review_paths_with_revalidation, _apply_condition_freshness)             *)
THEOREM ReviewedIsFresh == Spec => []FreshIsFresh
  <1>1. Init => FreshInv
    BY DEF Init, Idle, FreshInv, CountsFromReceipt
  <1>2. IInv /\ FreshInv /\ [Next]_vars => FreshInv'
    BY NextFreshInv
  <1>3. IInv /\ FreshInv => FreshIsFresh
    <2> SUFFICES ASSUME IInv, FreshInv, ~imports, ReadsFresh(reference, clock), reference.aged,
                        NEW uid \in reference.canonical
                 PROVE  \/ ~Stale(RowOf(uid), clock)
                        \/ uid \notin reference.began /\ RowOf(uid).recorded < reference.acceptedAt
      BY DEF FreshIsFresh
    <2>1. /\ reference \in References /\ uid \notin reference.began
          /\ reference.acceptedAt <= clock
          /\ MaxAge # NoTime => clock - reference.acceptedAt <= MaxAge
          /\ Recheck # NoTime => clock < reference.acceptedAt + Recheck
      BY StoreTypes DEF FreshInv, CountsFromReceipt, ReadsFresh
    <2>2. PICK r \in ledger :
                 r.uid = uid /\ (AgeLimit # NoTime => r.recorded <= reference.acceptedAt)
      BY DEF FreshInv, CountsFromReceipt, ReadsFresh
    <2>3. RowOf(uid) = r
      BY <2>2, LedgerFacts DEF RowOf, Ledgers
    <2>4. clock \in Int /\ reference.acceptedAt \in Int /\ r.recorded \in Int
      BY <2>1, ClockIsInt, LedgerFacts, RowFields DEF References
    <2>5. ASSUME Stale(r, clock), r.recorded >= reference.acceptedAt PROVE FALSE
      <3>1. AgeLimit # NoTime /\ r.recorded = reference.acceptedAt
        BY <2>2, <2>4, <2>5 DEF Stale
      <3>2. \/ r.recorded > clock
            \/ clock - reference.acceptedAt > AgeLimit
            \/ Recheck # NoTime /\ clock - reference.acceptedAt >= Recheck
        BY <2>5, <3>1 DEF Stale
      <3>3. QED
        BY <2>1, <2>4, <3>1, <3>2, PolicyType DEF AgeLimit
    <2>6. QED
      BY <2>1, <2>3, <2>4, <2>5
  <1>4. QED
    BY <1>1, <1>2, <1>3, Invariance, PTL DEF Spec
=============================================================================
