------------------------------ MODULE Acceptance ------------------------------
(***************************************************************************)
(* The acceptance policy of standing/acceptance.py over the rows of one    *)
(* condition, all of them bitemporal.                                      *)
(*                                                                         *)
(* What a row says about its origin never changes, so it is the constant   *)
(* Origin.  The digest of an approval is the set of rows it was computed   *)
(* from.  No flow of the program ever records a contradicted reading, so   *)
(* an observer's history is its number of confirmed readings.              *)
(***************************************************************************)
EXTENDS Temporal, FiniteSets

CONSTANTS Addresses,          \* observer wallets
          NoAddress,          \* a reading without an observer
          Names,              \* operators, sources and extractors
          NoLineage,          \* a reading without provenance
          Origin,             \* Origin[uid]: where the row comes from
          NoHistory,          \* an observer without a reliability record
          NoApproval,         \* no approval record, or no approval flag
          ObserversNeeded,    \* independent_observers
          HistoryNeeded,      \* min_observer_history
          ProvenanceRequired, \* require_independence_provenance
          ApprovalRequired,   \* manual_approval_required
          MaxAge,             \* max_observation_age_seconds, or NoTime
          Recheck             \* recheck_interval_seconds, or NoTime

Lineages == [operator : Names, source : Names, extractor : Names]

(* source_type and source binding: vendor is "declared vendor primary";     *)
(* canonical is "from the canonical URL and publisher of the binding";      *)
(* bound is "from an allowed host, of the right type and unit".             *)
Origins == [vendor : BOOLEAN, canonical : BOOLEAN, bound : BOOLEAN,
            address : Addresses \cup {NoAddress}, lineage : Lineages \cup {NoLineage}]

ASSUME OriginType == Origin \in [UIDs -> Origins]
ASSUME PolicyType ==
  /\ ObserversNeeded \in Nat \ {0} /\ HistoryNeeded \in Nat \ {0}
  /\ ProvenanceRequired \in BOOLEAN /\ ApprovalRequired \in BOOLEAN
  /\ MaxAge \in (Nat \ {0}) \cup {NoTime} /\ Recheck \in (Nat \ {0}) \cup {NoTime}
ASSUME AbsentIsNoValue ==
  /\ NoAddress \notin Addresses /\ NoLineage \notin Lineages
  /\ NoHistory \notin Nat /\ NoTime \notin Nat

-----------------------------------------------------------------------------
(* check_freshness: a policy without an age and an interval checks nothing; *)
(* an interval alone is also the age.                                       *)
AgeLimit == IF MaxAge # NoTime THEN MaxAge ELSE Recheck

Stale(row, now) ==
  /\ AgeLimit # NoTime
  /\ \/ row.recorded > now
     \/ now - row.recorded > AgeLimit
     \/ Recheck # NoTime /\ now - row.recorded >= Recheck

(* Mutant: only the head is asked, not every row that agrees with it. *)
StaleHead(L, now) == {r \in L : r = CanonicalHead(L, now) /\ Stale(r, now)}

(* Freshness is asked of the candidates, or of all rows of a ledger the     *)
(* resolver refuses.                                                        *)
StaleRows(L, now) ==
  {r \in (IF Unresolvable(L) THEN L ELSE Candidates(L, now)) : Stale(r, now)}

-----------------------------------------------------------------------------
(* The rest of the policy looks at every row, whatever its period.          *)
VendorRows(L) == {r \in L : Origin[r.uid].vendor}

TrustedVendor(L) ==
  /\ VendorRows(L) # {}
  /\ \A r \in VendorRows(L) : Origin[r.uid].canonical
  /\ \A r \in L : Origin[r.uid].bound

Readings(L, a) == {r \in L \ VendorRows(L) : Origin[r.uid].address = a}

Observers(L) == {a \in Addresses : Readings(L, a) # {}}

LineagesOf(L, a) == {Origin[r.uid].lineage : r \in Readings(L, a)} \ {NoLineage}

Distinct(x, y) ==
  x.operator # y.operator /\ x.source # y.source /\ x.extractor # y.extractor

(* One lineage per observer, and no two observers share a part of theirs. *)
Independent(L) ==
  /\ \A a \in Observers(L) : Cardinality(LineagesOf(L, a)) = 1
  /\ \A a, b \in Observers(L) : a # b =>
       \A x \in LineagesOf(L, a), y \in LineagesOf(L, b) : Distinct(x, y)

Proven(L, history) ==
  \A a \in Observers(L) : history[a] # NoHistory /\ history[a] >= HistoryNeeded

(* Mutant: any persisted approval of the condition is good. *)
ApprovedSometime(L, approval) == ApprovalRequired => approval # NoApproval

(* check_manual_approval: the digest is the one of exactly these rows. *)
Approved(L, approval) == ApprovalRequired => approval # NoApproval /\ approval = L

(* check_acceptance: no reason against these rows remains. *)
Accepts(L, now, approval, history) ==
  /\ StaleRows(L, now) = {}
  /\ TrustedVendor(L)
  /\ Cardinality(Observers(L)) >= ObserversNeeded
  /\ ProvenanceRequired => Independent(L)
  /\ Approved(L, approval)
  /\ Proven(L, history)
  /\ CanonicalHead(L, now) # NoRow
=============================================================================
