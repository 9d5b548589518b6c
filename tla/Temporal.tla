------------------------------- MODULE Temporal -------------------------------
(***************************************************************************)
(* The bitemporal resolver of standing/temporal.py.                        *)
(*                                                                         *)
(* A row is one observation of one condition.  Valid time is eff..until    *)
(* (effective_from, effective_until); knowledge time is recorded           *)
(* (recorded_at).  A ledger is a set of rows with distinct uids, which is  *)
(* what TemporalEvidence.__init__ insists on; every operator below is a    *)
(* query over such a set and none of them has state.                       *)
(***************************************************************************)
EXTENDS Integers

CONSTANTS Values,    \* what a source can say about the condition
          UIDs,      \* observation UIDs; they are ordered, as strings are
          MaxTime,   \* BOUND: the last instant of valid and knowledge time
          NoTime,    \* an absent effective_until or knowledge cutoff
          NoUID,     \* an absent ref_uid
          NoRow      \* "no current observation" (Python's None)

ASSUME UIDsOrdered == UIDs \subseteq Int
ASSUME TimeBound == MaxTime \in Nat
ASSUME Sentinels == NoTime \notin 0..MaxTime /\ NoUID \notin UIDs

Times == 0..MaxTime

Rows ==
  [uid : UIDs, value : Values, eff : Times, until : Times \cup {NoTime},
   observed : Times, recorded : Times, ref : UIDs \cup {NoUID},
   revoked : BOOLEAN, accepted : BOOLEAN]

ASSUME NoRowIsNone == NoRow \notin Rows

(* What TemporalObservation.validate demands of the two pairs of times. *)
WellTimed(row) ==
  /\ row.until # NoTime => row.until > row.eff
  /\ row.recorded >= row.observed

Ledgers == {L \in SUBSET Rows : \A a, b \in L : a.uid = b.uid => a = b}

-----------------------------------------------------------------------------
(* resolve(): the rows a query may see at all.                              *)

Known(L, knowledgeAt, acceptedOnly) ==
  {r \in L : /\ acceptedOnly => r.accepted
             /\ knowledgeAt = NoTime \/ r.recorded <= knowledgeAt}

(* A revoked row neither heads the ledger nor supersedes another row. *)
Available(L) == {r \in L : ~r.revoked}

Children(L, parent) == {c \in Available(L) : c.ref = parent.uid}

(* resolve() raises when a row supersedes one from a later period. *)
Unresolvable(L) ==
  \E p \in Available(L) : \E c \in Children(L, p) : c.eff < p.eff

(* The instants that end a row: its own end and the start of each child. *)
Ends(L, row) ==
  {c.eff : c \in Children(L, row)}
    \cup (IF row.until = NoTime THEN {} ELSE {row.until})

Superseded(L, validAt) ==
  {r \in Available(L) : \E e \in Ends(L, r) : validAt >= e}

Active(L, validAt) ==
  {r \in Available(L) \ Superseded(L, validAt) : r.eff <= validAt}

(* Mutant: every active row competes, whatever its period. *)
ActiveCandidates(L, validAt) == Active(L, validAt)

(* The rows of the winning (latest) effective period. *)
Candidates(L, validAt) ==
  LET active == Active(L, validAt)
  IN {r \in active : \A a \in active : a.eff <= r.eff}

Disagree(rows) == \E a, b \in rows : a.value # b.value

Contested(L, validAt) == Disagree(Candidates(L, validAt))

(* Candidates are sorted by (recorded_at, observed_at, uid); the last wins. *)
SortsBefore(a, b) ==
  \/ a.recorded < b.recorded
  \/ a.recorded = b.recorded /\ a.observed < b.observed
  \/ a.recorded = b.recorded /\ a.observed = b.observed /\ a.uid <= b.uid

CanonicalHead(L, validAt) ==
  LET candidates == Candidates(L, validAt)
  IN IF Unresolvable(L) \/ Disagree(candidates) \/ candidates = {}
     THEN NoRow
     ELSE CHOOSE r \in candidates : \A c \in candidates : SortsBefore(c, r)

-----------------------------------------------------------------------------
(* The queries of the product.                                              *)

ValidAsOf(L, validAt, acceptedOnly) ==
  CanonicalHead(Known(L, NoTime, acceptedOnly), validAt)

KnownAsOf(L, knowledgeAt, validAt, acceptedOnly) ==
  CanonicalHead(Known(L, knowledgeAt, acceptedOnly), validAt)

(* Mutant: the link goes to the newest head, not to the one before eff. *)
NewestHead(L, eff) ==
  LET head == CanonicalHead(L, MaxTime) IN IF head = NoRow THEN NoUID ELSE head.uid

(* Mutant: off by one - a reading of the very same period may be linked to. *)
HeadAtStart(L, eff) ==
  LET head == CanonicalHead(L, eff) IN
  IF head = NoRow THEN NoUID ELSE IF head.eff > eff THEN NoUID ELSE head.uid

(* ReviewerTools._predecessor_observation_uid: the row a new effective      *)
(* period is linked to, if the ledger has one canonical earlier row.  The   *)
(* resolver error of an unusable ledger is caught and means "no link".      *)
Predecessor(L, eff) ==
  LET validAt == IF eff = 0 THEN 0 ELSE eff - 1
      head == CanonicalHead(L, validAt)
  IN IF head = NoRow THEN NoUID
     ELSE IF head.eff >= eff THEN NoUID ELSE head.uid
=============================================================================
