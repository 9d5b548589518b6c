----------------------------- MODULE VerifierLoop -----------------------------
(***************************************************************************)
(* The verifier loop (run_verifier_loop.py) and the reliability records of *)
(* observers it reads and writes: select an observer, hire it, store its   *)
(* reading, decide, and stop.  What follows in the code, the public signal *)
(* and the count of the outcome, is never reached: the stored reading has  *)
(* no job id to put into the signal.  Outcomes are counted for whoever     *)
(* else calls record_observer_outcome.                                     *)
(*                                                                         *)
(* The records live in a store that several processes share, every update  *)
(* of one is a read and a later save, and a process may die anywhere.  The *)
(* hire itself is Hiring: it ends with a published reading or fails.  A    *)
(* record is kept under the address as it was spelled; two spellings of    *)
(* one wallet are two names.                                               *)
(***************************************************************************)
EXTENDS Integers, FiniteSets

CONSTANTS Procs,            \* processes that run the loop or report outcomes
          Names,            \* observer addresses as they are spelled
          DeliveredAs,      \* how the wallet of a name spells itself in its deliveries
          MinHistory,       \* policy: confirmed readings an observer needs
          MaxContradictions,\* policy: contradicted readings it may have
          MaxRuns,          \* BOUND: operations started
          NoName

ASSUME DeliveredAsType == DeliveredAs \in [Names -> Names]
ASSUME LoopPolicy == MinHistory \in Nat /\ MaxContradictions \in Nat /\ MaxRuns \in Nat
ASSUME NoNameIsNone == NoName \notin Names
ASSUME ProcsAreFinite == IsFiniteSet(Procs)

Histories == [present : BOOLEAN, identified : BOOLEAN,
              given : Nat, confirmed : Nat, contradicted : Nat]
NoHistory == [present |-> FALSE, identified |-> FALSE,
              given |-> 0, confirmed |-> 0, contradicted |-> 0]
ZeroCounts == [present |-> TRUE, identified |-> FALSE,
               given |-> 0, confirmed |-> 0, contradicted |-> 0]
NoReports == [confirmed |-> 0, contradicted |-> 0]

Steps == {"idle", "ensure", "select", "hire", "store", "identify", "save_identity",
          "decide", "signal", "outcome", "save_outcome"}

VARIABLES observer,   \* the "observer" entities
          delivered,  \* the names readings are stored under
          reported,   \* history: outcomes reported for each name
          proc,       \* each process: its step, the name it works for, what it read
          runs,       \* operations started
          undisturbed \* history: one at a time, and none was cut short

vars == <<observer, delivered, reported, proc, runs, undisturbed>>

Idle == [step |-> "idle", name |-> NoName, chosen |-> FALSE, approved |-> FALSE,
         confirmed |-> FALSE, promoted |-> FALSE, read |-> NoHistory]

TypeOK ==
  /\ observer \in [Names -> Histories]
  /\ delivered \in SUBSET Names
  /\ reported \in [Names -> [confirmed : Nat, contradicted : Nat]]
  /\ proc \in [Procs -> [step : Steps, name : Names \cup {NoName},
                         chosen : BOOLEAN, approved : BOOLEAN, confirmed : BOOLEAN,
                         promoted : BOOLEAN, read : Histories]]
  /\ runs \in 0..MaxRuns
  /\ undisturbed \in BOOLEAN
  \* what ObserverHistory refuses to read is never written
  /\ \A n \in Names : observer[n].given >= observer[n].confirmed + observer[n].contradicted

Init ==
  /\ observer = [n \in Names |-> NoHistory]
  /\ delivered = {}
  /\ reported = [n \in Names |-> NoReports]
  /\ proc = [p \in Procs |-> Idle]
  /\ runs = 0 /\ undisturbed = TRUE

Goto(p, step) == proc' = [proc EXCEPT ![p].step = step]
At(p, step) == proc[p].step = step
Resting == \A p \in Procs : At(p, "idle")

Start(p) ==
  /\ At(p, "idle") /\ runs < MaxRuns
  /\ runs' = runs + 1
  /\ undisturbed' = (undisturbed /\ Resting)
  /\ UNCHANGED <<observer, delivered>>

(* The loop looks whether the seller has a record ...                       *)
StartLoop(p, n, approved) ==
  /\ Start(p)
  /\ proc' = [proc EXCEPT ![p] = [Idle EXCEPT !.name = n, !.approved = approved,
                !.step = IF observer[n].present THEN "select" ELSE "ensure"]]
  /\ UNCHANGED reported

(* ... and writes one of zero counts when it saw none.                      *)
EnsureObserverEntity(p) ==
  /\ At(p, "ensure")
  /\ observer' = [observer EXCEPT ![proc[p].name] = ZeroCounts]
  /\ Goto(p, "select")
  /\ UNCHANGED <<delivered, reported, runs, undisturbed>>

(* Mutant: the reading about to be made is counted too.                     *)
MeetsWithThisOne(history) ==
  /\ history.present
  /\ history.confirmed + 1 >= MinHistory
  /\ history.contradicted <= MaxContradictions

Meets(history) ==
  /\ history.present
  /\ history.confirmed >= MinHistory
  /\ history.contradicted <= MaxContradictions

(* Fewer contradictions, then more confirmed, then more given readings.     *)
Stronger(h, g) ==
  \/ h.contradicted < g.contradicted
  \/ /\ h.contradicted = g.contradicted
     /\ \/ h.confirmed > g.confirmed
        \/ h.confirmed = g.confirmed /\ h.given > g.given

(* The eligible candidates that no other is stronger than; the loop offers  *)
(* one candidate, its seller.                                               *)
Strongest(candidates) ==
  LET eligible == {n \in candidates : Meets(observer[n])} IN
  {n \in eligible : \A m \in eligible : ~Stronger(observer[m], observer[n])}

(* A seller without the history is hired only when the operator says so:    *)
(* --bootstrap, or an external provider named on the command line.          *)
SelectObserver(p, insist) ==
  /\ At(p, "select")
  /\ insist \/ proc[p].name \in Strongest({proc[p].name})
  /\ proc' = [proc EXCEPT ![p].step = "hire", ![p].chosen = ~insist]
  /\ UNCHANGED <<observer, delivered, reported, runs, undisturbed>>

(* Hiring ends with a reading whose attestation agrees with it.             *)
Hire(p) ==
  /\ At(p, "hire")
  /\ Goto(p, "store")
  /\ UNCHANGED <<observer, delivered, reported, runs, undisturbed>>

Delivered(p) == DeliveredAs[proc[p].name]

StoreReading(p) ==
  /\ At(p, "store")
  /\ delivered' = delivered \cup {Delivered(p)}
  /\ Goto(p, "identify")
  /\ UNCHANGED <<observer, reported, runs, undisturbed>>

(* Who the observer is, by the address in the delivery: the whole record is *)
(* read, and written back with its identity and the counters as read.       *)
ReadIdentity(p) ==
  /\ At(p, "identify")
  /\ proc' = [proc EXCEPT ![p].step = "save_identity", ![p].read = observer[Delivered(p)]]
  /\ UNCHANGED <<observer, delivered, reported, runs, undisturbed>>

(* Mutant: the record is written anew, with its identity and zero counts.   *)
SaveFreshIdentity(p) ==
  /\ At(p, "save_identity")
  /\ observer' = [observer EXCEPT ![Delivered(p)] = [ZeroCounts EXCEPT !.identified = TRUE]]
  /\ Goto(p, "decide")
  /\ UNCHANGED <<delivered, reported, runs, undisturbed>>

SaveIdentity(p) ==
  /\ At(p, "save_identity")
  /\ observer' = [observer EXCEPT ![Delivered(p)] =
                    [proc[p].read EXCEPT !.present = TRUE, !.identified = TRUE]]
  /\ Goto(p, "decide")
  /\ UNCHANGED <<delivered, reported, runs, undisturbed>>

(* What the acceptance policy asks of observers: each that has stored a     *)
(* reading has the history; explicit approval does not replace it.  What    *)
(* else it asks is the Acceptance module's.                                 *)
ObserversSuffice == \A n \in delivered : Meets(observer[n])

(* Accepted or not, the loop goes on; accepted, it promotes first.          *)
Decide(p, accepted) ==
  /\ At(p, "decide")
  /\ accepted => ObserversSuffice /\ proc[p].approved
  /\ proc' = [proc EXCEPT ![p].step = "signal", ![p].promoted = accepted]
  /\ UNCHANGED <<observer, delivered, reported, runs, undisturbed>>

(* The evidence of the signal names the job of the stored reading, and a    *)
(* stored reading names none: the loop ends here with an error, before      *)
(* anything is sent or counted.                                             *)
WriteReputationSignal(p) ==
  /\ At(p, "signal")
  /\ proc' = [proc EXCEPT ![p] = Idle]
  /\ UNCHANGED <<observer, delivered, reported, runs, undisturbed>>

(* record_observer_outcome is called for a reading that proved right, or    *)
(* wrong; the record must exist.                                            *)
ReportOutcome(p, n, confirmed) ==
  /\ Start(p)
  /\ reported' = IF confirmed THEN [reported EXCEPT ![n].confirmed = @ + 1]
                 ELSE [reported EXCEPT ![n].contradicted = @ + 1]
  /\ proc' = [proc EXCEPT ![p] = [Idle EXCEPT !.step = "outcome", !.name = n,
                                              !.confirmed = confirmed]]

ReadOutcome(p) ==
  /\ At(p, "outcome")
  /\ observer[proc[p].name].present
  /\ proc' = [proc EXCEPT ![p].step = "save_outcome", ![p].read = observer[proc[p].name]]
  /\ UNCHANGED <<observer, delivered, reported, runs, undisturbed>>

(* Mutant: a confirmation is counted twice.                                 *)
CountedTwice(history, confirmed) ==
  [history EXCEPT !.given = @ + 2,
                  !.confirmed = @ + IF confirmed THEN 2 ELSE 0,
                  !.contradicted = @ + IF confirmed THEN 0 ELSE 1]

(* Mutant: only readings that are confirmed are counted as given.           *)
CountedIfConfirmed(history, confirmed) ==
  [history EXCEPT !.given = @ + IF confirmed THEN 1 ELSE 0,
                  !.confirmed = @ + IF confirmed THEN 1 ELSE 0,
                  !.contradicted = @ + IF confirmed THEN 0 ELSE 1]

ApplyOutcome(history, confirmed) ==
  [history EXCEPT !.given = @ + 1,
                  !.confirmed = @ + IF confirmed THEN 1 ELSE 0,
                  !.contradicted = @ + IF confirmed THEN 0 ELSE 1]

SaveOutcome(p) ==
  /\ At(p, "save_outcome")
  /\ observer' = [observer EXCEPT ![proc[p].name] = ApplyOutcome(proc[p].read, proc[p].confirmed)]
  /\ proc' = [proc EXCEPT ![p] = Idle]
  /\ UNCHANGED <<delivered, reported, runs, undisturbed>>

(* Dying, or an error anywhere: a refused hire, an attestation that does    *)
(* not agree, a store or a node that cannot be reached.                     *)
Stop(p) ==
  /\ ~At(p, "idle")
  /\ proc' = [proc EXCEPT ![p] = Idle]
  /\ undisturbed' = FALSE
  /\ UNCHANGED <<observer, delivered, reported, runs>>

Step(p) ==
  \/ EnsureObserverEntity(p) \/ Hire(p) \/ StoreReading(p)
  \/ ReadIdentity(p) \/ SaveIdentity(p) \/ WriteReputationSignal(p)
  \/ ReadOutcome(p) \/ SaveOutcome(p)
  \/ \E yes \in BOOLEAN :
       SelectObserver(p, yes) \/ Decide(p, yes)

Next ==
  \E p \in Procs :
    \/ \E n \in Names, yes \in BOOLEAN : StartLoop(p, n, yes) \/ ReportOutcome(p, n, yes)
    \/ Step(p) \/ Stop(p)

Spec == Init /\ [][Next]_vars
-----------------------------------------------------------------------------
(* Whatever overlaps or dies, and whoever writes a record back as it was,   *)
(* no observer has more confirmed or contradicted readings in memory than   *)
(* were reported of it: no error of the store makes a reputation.           *)
CountedWasReported ==
  \A n \in Names : /\ observer[n].confirmed <= reported[n].confirmed
                   /\ observer[n].contradicted <= reported[n].contradicted

(* A seller chosen on its record, and an observer whose reading is accepted *)
(* and promoted, has had MinHistory readings confirmed, whatever overlapped *)
(* or died; unless something did, it has not been found wrong too often.    *)
Trusted(n) ==
  /\ reported[n].confirmed >= MinHistory
  /\ undisturbed => reported[n].contradicted <= MaxContradictions

TrustIsOnRecord ==
  \A p \in Procs : /\ proc[p].chosen => Trusted(proc[p].name)
                   /\ proc[p].promoted => Trusted(Delivered(p))

(* Operations that never overlap and are never cut short lose nothing: at   *)
(* rest, every outcome reported is counted.                                 *)
NothingLostAlone ==
  undisturbed /\ Resting =>
    \A n \in Names : /\ observer[n].confirmed = reported[n].confirmed
                     /\ observer[n].contradicted = reported[n].contradicted
===============================================================================
