---------------------------- MODULE TemporalLedger ----------------------------
(***************************************************************************)
(* The evidence ledger of one condition: how ReviewerTools and MemoryStore *)
(* write observation rows, and what the resolver of module Temporal then   *)
(* answers about them.                                                     *)
(*                                                                         *)
(* Rows come from verifier deliveries and human-confirmed extractions.     *)
(* Standing reads the clock for their receipt, then reads the ledger for   *)
(* their predecessor, then saves them: three steps, between which time     *)
(* passes and other processes write.  A store with imports also has        *)
(* deliveries that name the row they supersede, and complete rows from     *)
(* record_temporal_observation, whose caller supplies every field.         *)
(***************************************************************************)
EXTENDS Temporal, FiniteSets

CONSTANTS Recorders,  \* threads or processes that record deliveries
          ImportUIDs, \* BOUND: the UIDs of a store with imports
          Lags,       \* BOUND: how far observed_at may be from the receipt
          Room,       \* BOUND: rows stored and deliveries under way, and
          ImportRoom  \* BOUND: the same of a store with imports

ASSUME ImportUIDsAreUIDs == ImportUIDs \subseteq UIDs
ASSUME LagsAreOffsets == Lags \subseteq Int

VARIABLES clock,     \* Standing's wall clock, in whole seconds
          ledger,    \* the rows stored under the "observation" category
          receiving, \* what each recorder is in the middle of recording
          imports    \* whether links and complete rows come from outside too

ledgerVars == <<clock, ledger, receiving, imports>>

(* A delivery on its way: the receipt that was read for it, then the start  *)
(* of its period and its link.                                              *)
Nothing == [step |-> "nothing"]
Stamped(receipt) == [step |-> "stamped", receipt |-> receipt]
Linked(receipt, eff, ref) ==
  [step |-> "linked", receipt |-> receipt, eff |-> eff, ref |-> ref]

DeliveryStates ==
  {Nothing} \cup [step : {"stamped"}, receipt : Times]
    \cup [step : {"linked"}, receipt : Times, eff : Times, ref : UIDs \cup {NoUID}]

LedgerTypeOK ==
  /\ clock \in Times /\ ledger \in Ledgers /\ imports \in BOOLEAN
  /\ receiving \in [Recorders -> DeliveryStates]

LedgerInit ==
  /\ clock = 0 /\ ledger = {} /\ imports \in BOOLEAN
  /\ receiving = [p \in Recorders |-> Nothing]

Arriving == IF imports THEN ImportUIDs ELSE UIDs

Later(a, b) == IF a >= b THEN a ELSE b

Unaccepted(row) == [row EXCEPT !.accepted = FALSE]

(* Mutant: a stored UID may be overwritten with other facts. *)
Overwritable(row) == TRUE

(* MemoryStore.save_observation: a stored UID may be written again only     *)
(* with the same facts; the accepted marker is whatever the writer sends.   *)
Immutable(row) ==
  \A r \in ledger : r.uid = row.uid => Unaccepted(r) = Unaccepted(row)

(* Mutant: the row is appended, without looking for its UID. *)
AppendObservation(row) == ledger' = ledger \cup {row} /\ UNCHANGED clock

SaveObservation(row) ==
  /\ Immutable(row)
  /\ ledger' = {r \in ledger : r.uid # row.uid} \cup {row}
  /\ UNCHANGED clock

(* record_verifier_observation and record_confirmed_extraction.  What a     *)
(* delivery says is chosen below where it is first used.  The receipt is    *)
(* read from the clock, by the recording call or by its caller just before, *)
StampDelivery(p) ==
  /\ receiving[p] = Nothing
  /\ receiving' = [receiving EXCEPT ![p] = Stamped(clock)]
  /\ UNCHANGED <<clock, ledger>>

(* the ledger of that moment gives the predecessor of a row that names      *)
(* none,                                                                    *)
LinkDelivery(p, eff, named) ==
  /\ receiving[p].step = "stamped"
  /\ receiving' = [receiving EXCEPT ![p] =
       Linked(receiving[p].receipt, eff,
              IF named # NoUID THEN named ELSE Predecessor(ledger, eff))]
  /\ UNCHANGED <<clock, ledger>>

(* Mutant: the verifier's own observation time is the knowledge time. *)
ObservationTime(receipt, observed) == observed

(* The knowledge time of a delivery: the receipt, never before observed_at. *)
ReceiptTime(receipt, observed) == Later(receipt, observed)

(* and the row, which has no end and is not revoked, is saved.              *)
StoreDelivery(p, uid, value, observed) ==
  /\ receiving[p].step = "linked"
  /\ SaveObservation(
       [uid |-> uid, value |-> value, eff |-> receiving[p].eff, until |-> NoTime,
        observed |-> observed, recorded |-> ReceiptTime(receiving[p].receipt, observed),
        ref |-> receiving[p].ref, revoked |-> FALSE, accepted |-> FALSE])
  /\ receiving' = [receiving EXCEPT ![p] = Nothing]

(* The save is refused, or its process dies before it.                      *)
LoseDelivery(p) ==
  /\ receiving[p] # Nothing
  /\ receiving' = [receiving EXCEPT ![p] = Nothing]
  /\ UNCHANGED <<clock, ledger>>

Recorded == {r.uid : r \in ledger}

(* record_temporal_observation: the caller supplies every field.            *)
RecordTemporal(row) == WellTimed(row) /\ SaveObservation(row)

(* promote_acceptance, as far as the ledger sees it: the rows its caller    *)
(* read some time ago are marked accepted, all of them and whatever their   *)
(* period, unless their head at accepted_at, a second its caller read from  *)
(* the clock, is contested or missing.                                      *)
PromoteAcceptance(snapshot) ==
  /\ {acceptedAt \in 0..clock : CanonicalHead(snapshot, acceptedAt) # NoRow} # {}
  /\ ledger' = {[r EXCEPT !.accepted = @ \/ r \in snapshot] : r \in ledger}
  /\ UNCHANGED clock

LedgerTick ==
  clock < MaxTime /\ clock' = clock + 1 /\ UNCHANGED <<ledger, receiving, imports>>

LinkOf(p, references) ==
  \E eff \in Times, named \in references \cup {NoUID} : LinkDelivery(p, eff, named)

(* The observation time is off the receipt by one of the lags.              *)
StoreOf(p, uids, lags) ==
  /\ receiving[p].step = "linked"
  /\ \E uid \in uids, value \in Values, lag \in lags :
       /\ receiving[p].receipt + lag \in Times
       /\ receiving[p].ref # uid
       /\ StoreDelivery(p, uid, value, receiving[p].receipt + lag)

HasRoom ==
  Cardinality(ledger) + Cardinality({p \in Recorders : receiving[p] # Nothing})
    < (IF imports THEN ImportRoom ELSE Room)

Stamp(p) ==
  HasRoom /\ (\E lag \in Lags : clock + lag \in Times) /\ StampDelivery(p)

Link(p) == LinkOf(p, IF imports THEN Recorded ELSE {})

Store(p) == StoreOf(p, Arriving, Lags)

Deliver(p) ==
  imports' = imports /\ (Stamp(p) \/ Link(p) \/ Store(p) \/ LoseDelivery(p))

(* A complete row arrives, or one that is stored is recorded again.         *)
Import ==
  /\ imports /\ UNCHANGED <<receiving, imports>>
  /\ \/ \E row \in ledger : RecordTemporal(Unaccepted(row))
     \/ /\ HasRoom
        /\ \E uid \in Arriving, value \in Values, eff, recorded \in Times,
              until \in Times \cup {NoTime}, revoked \in BOOLEAN,
              ref \in Recorded \cup {NoUID} :
             /\ ref # uid
             /\ RecordTemporal([uid |-> uid, value |-> value, eff |-> eff,
                   until |-> until, observed |-> recorded, recorded |-> recorded,
                   ref |-> ref, revoked |-> revoked, accepted |-> FALSE])

Promote ==
  /\ UNCHANGED <<receiving, imports>>
  /\ \E snapshot \in SUBSET ledger : PromoteAcceptance(snapshot)

LedgerNext ==
  \/ \E p \in Recorders : Deliver(p)
  \/ Import \/ Promote \/ LedgerTick

LedgerSpec == LedgerInit /\ [][LedgerNext]_ledgerVars

-----------------------------------------------------------------------------
(* What the resolver says of instant v, given the rows known at k, but for   *)
(* the accepted marker, which has no time of its own.                       *)
Answer(k, v) ==
  LET L == Known(ledger, k, FALSE)
      head == CanonicalHead(L, v)
  IN <<Unresolvable(L), Contested(L, v), IF head = NoRow THEN NoRow ELSE Unaccepted(head)>>

(* Answers can only differ after a step that writes the ledger.             *)
Writes == ledger' # ledger

(* No hindsight: where Standing stamps the rows, what it could answer from  *)
(* the rows it knew at an earlier second changes only by a delivery it had  *)
(* received by then and not yet saved, and only from the start of that      *)
(* delivery's period on - not by one that claims an early observed_at, nor  *)
(* by the supersession edge it brings.                                      *)
(* (record_verifier_observation's receipt time, resolve's knowledge cutoff) *)
NoHindsight ==
  [][~imports /\ Writes => \A k \in 0..(clock - 1), v \in Times :
        \/ \E p \in Recorders : /\ receiving[p].step = "linked"
                                /\ receiving[p].receipt <= k
                                /\ receiving[p].eff <= v
        \/ Answer(k, v)' = Answer(k, v)]_ledger

(* The lineage Standing infers by itself never poisons the ledger: however  *)
(* late a reading arrives, no predecessor link makes resolve() raise.       *)
(* (_predecessor_observation_uid)                                           *)
InferredLineageResolves == ~imports => ~Unresolvable(ledger)

(* A late-arriving historical reading does not replace the newer current    *)
(* period: recording a row of an earlier period leaves the head alone.      *)
LateReadingKeepsHead ==
  [][~imports /\ Writes => \A v \in Times :
       LET head == CanonicalHead(ledger, v)
           next == CanonicalHead(ledger, v)'
       IN (head # NoRow /\ \A r \in ledger' \ ledger : r.eff < head.eff)
            => next # NoRow /\ next.uid = head.uid]_ledger

(* Standing does not choose by arrival time: once two deliveries disagree   *)
(* about the same effective period, neither of them, nor a third reading of *)
(* that period or an earlier one, heads the ledger at any instant of it.    *)
(* (resolve's conflict rule, and the linking that must not step around it)  *)
DisagreementIsNeverChosen ==
  \A a, b \in ledger : (~imports /\ a.eff = b.eff /\ a.value # b.value) =>
    \A v \in a.eff..MaxTime :
      LET head == CanonicalHead(ledger, v) IN head = NoRow \/ head.eff > a.eff

(* The ledger is append-only evidence: a row, once superseded at an         *)
(* instant, is superseded there for good, whatever is recorded or accepted. *)
SupersessionIsPermanent ==
  [][Writes => \A v \in Times : \A s \in Superseded(ledger, v) :
       \E t \in Superseded(ledger, v)' : t.uid = s.uid /\ t.value = s.value]_ledger
=============================================================================
