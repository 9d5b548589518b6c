-------------------------------- MODULE Sandbox --------------------------------
(***************************************************************************)
(* The sandbox behind the dashboard's buttons: one SandboxController, one  *)
(* store, and a server that gives every request a thread of its own.       *)
(*                                                                         *)
(* BREAK ASSUMPTION records that the vendor now keeps 90 days, RESET goes  *)
(* back to 365 and to the first decision, RECORD REPLACEMENT DECISION puts *)
(* STORAGE-002 in its place.  Each is a list of store calls, `todo', that  *)
(* other threads may come between; a call that raises ends its request and *)
(* leaves the server running.                                              *)
(***************************************************************************)
EXTENDS Temporal, Sequences, FiniteSets

CONSTANTS Threads,  \* request threads of the server
          Opened,   \* the clock when the sandbox is created
          MaxCalls  \* BOUND: requests made

(* The fixed dates of the scenario, in their order.                         *)
DecidedOn == 0    \* SANDBOX_EFFECTIVE_INITIAL, and when its row was recorded
ChangedOn == 1    \* SANDBOX_EFFECTIVE_CHANGED, 2026-09-07
FoundOn == 2      \* when the change was recorded, 2026-09-09
ResetOn == 3      \* when every reset says it was recorded, 2026-09-10

ASSUME SandboxDates == Opened \in Times /\ ResetOn \in Times
ASSUME SandboxUIDs == UIDs = 1..MaxCalls + 2
ASSUME SandboxValues == Values = {90, 365}
ASSUME MaxCallsType == MaxCalls \in Nat

VARIABLES clock,
          acme,       \* the status in the body of ACME-001
          storage,    \* whether STORAGE-002 is active
          archive,    \* copies of STORAGE-002 in the archive
          ledger,     \* the observations of the retention
          reference,  \* the row the retention reference was saved from
          supported,  \* whether the reference STORAGE-002 rests on is there
          standing,   \* the action of the stored standing of each decision
          journal,    \* the last action journaled of each
          thread,     \* what each thread is in the middle of
          calls,      \* requests made
          overlapped, \* history: the kinds of requests that ran side by side
          failed,     \* history: a request ended part way
          last        \* history: the last request, if it came to its end

store == <<acme, storage, archive, ledger, reference, supported, standing, journal>>
vars == <<clock, store, thread, calls, overlapped, failed, last>>

Row(uid, value, eff, recorded, ref) ==
  [uid |-> uid, value |-> value, eff |-> eff, until |-> NoTime, observed |-> recorded,
   recorded |-> recorded, ref |-> ref, revoked |-> FALSE, accepted |-> TRUE]
InitialRow == Row(1, 365, DecidedOn, DecidedOn, NoUID)
ChangedRow == Row(2, 90, ChangedOn, FoundOn, NoUID)

Idle == [op |-> "none", todo |-> << >>, saw |-> "none", row |-> NoRow, alone |-> TRUE]
Nobody == [op |-> "none", alone |-> FALSE]

(* create and seed, before the server listens.                              *)
Init ==
  /\ clock = Opened
  /\ acme = "CURRENT" /\ storage = FALSE /\ archive = 0
  /\ ledger = {InitialRow} /\ reference = InitialRow /\ supported = FALSE
  /\ standing = [ACME |-> "allow", STORAGE |-> "none"]
  /\ journal = standing
  /\ thread = [t \in Threads |-> Idle]
  /\ calls = 0 /\ overlapped = {} /\ failed = FALSE /\ last = Nobody

Busy == {t \in Threads : thread[t] # Idle}
Resting == Busy = {}

(* break_assumption *)
BreakPlan == <<"look", "record", "reference", "evaluate", "standing", "journal">>

(* Mutant: a reset does not reopen the decision.                            *)
ResetForgetsDecision ==
  <<"archive", "record", "reference", "evaluate", "standing", "journal">>

(* reset *)
ResetPlan ==
  <<"read_old", "reopen", "archive", "record", "reference", "evaluate", "standing", "journal">>

(* Mutant: the old decision is ended before the new one is there.           *)
SupersedeFirst ==
  <<"find", "read_old", "read_new", "supersede", "save_new", "read_saved",
    "reference", "evaluate", "standing", "journal">>

(* resolve, with record_replacement_decision in it *)
ResolvePlan ==
  <<"find", "read_old", "read_new", "save_new", "supersede", "read_saved",
    "reference", "evaluate", "standing", "journal">>

Plan(op) == [break |-> BreakPlan, reset |-> ResetPlan, resolve |-> ResolvePlan][op]

Subject(op) == IF op = "resolve" THEN "STORAGE" ELSE "ACME"
Exists(d) == d = "STORAGE" => storage

(* A request arrives.                                                       *)
Request(t, op) ==
  /\ thread[t] = Idle /\ calls < MaxCalls
  /\ thread' = [u \in Threads |->
       IF u = t THEN [Idle EXCEPT !.op = op, !.todo = Plan(op), !.alone = (Busy = {})]
       ELSE IF u \in Busy THEN [thread[u] EXCEPT !.alone = FALSE] ELSE Idle]
  /\ calls' = calls + 1
  /\ overlapped' = overlapped \cup {{op, thread[u].op} : u \in Busy}
  /\ UNCHANGED <<clock, store, failed, last>>

At(t, call) == thread[t].todo # << >> /\ Head(thread[t].todo) = call

(* The call is made; whoever has nothing left to do has answered.           *)
Go(t, new) ==
  /\ thread' = [thread EXCEPT ![t] = IF new.todo = << >> THEN Idle ELSE new]
  /\ last' = IF new.todo = << >> THEN [op |-> new.op, alone |-> new.alone] ELSE last
  /\ UNCHANGED <<clock, calls, overlapped, failed>>
Onward(t) == [thread[t] EXCEPT !.todo = Tail(@)]
Done(t) == [thread[t] EXCEPT !.todo = << >>]

(* break: the row is recorded once.                                         *)
Look(t) ==
  /\ At(t, "look")
  /\ Go(t, IF ChangedRow \in ledger
           THEN [Onward(t) EXCEPT !.todo = Tail(@), !.row = ChangedRow]
           ELSE [Onward(t) EXCEPT !.row = ChangedRow])
  /\ UNCHANGED store

(* resolve returns if the replacement is there.                             *)
Find(t) ==
  /\ At(t, "find")
  /\ Go(t, IF storage THEN Done(t) ELSE Onward(t))
  /\ UNCHANGED store

(* The body of ACME-001 is read; record_replacement_decision refuses a      *)
(* superseded one.                                                          *)
ReadOld(t) ==
  /\ At(t, "read_old")
  /\ thread[t].op = "resolve" => acme # "SUPERSEDED"
  /\ Go(t, [Onward(t) EXCEPT !.saw = acme])
  /\ UNCHANGED store

(* reset writes back the body it has read, if that was superseded.          *)
Reopen(t) ==
  /\ At(t, "reopen")
  /\ acme' = IF thread[t].saw = "SUPERSEDED" THEN "CURRENT" ELSE acme
  /\ Go(t, Onward(t))
  /\ UNCHANGED <<storage, archive, ledger, reference, supported, standing, journal>>

(* archive_decision; that there is nothing to archive is ignored.           *)
Archive(t) ==
  /\ At(t, "archive")
  /\ archive' = IF storage THEN archive + 1 ELSE archive
  /\ storage' = FALSE
  /\ Go(t, Onward(t))
  /\ UNCHANGED <<acme, ledger, reference, supported, standing, journal>>

Fresh == 3 + Cardinality({r \in ledger : r.uid > 2})

(* Mutant: the reset's row begins with the change and takes no row's place. *)
ResetRowOfChange(now) == Row(Fresh, 365, ChangedOn, ResetOn, NoUID)

(* _sandbox_observation of a reset: a UID of its own, from now on.          *)
ResetRow(now) == Row(Fresh, 365, now, ResetOn, ChangedRow.uid)

Record(t) ==
  /\ At(t, "record")
  /\ LET row == IF thread[t].op = "reset" THEN ResetRow(clock) ELSE thread[t].row IN
       /\ ledger' = ledger \cup {row}
       /\ Go(t, [Onward(t) EXCEPT !.row = row])
  /\ UNCHANGED <<acme, storage, archive, reference, supported, standing, journal>>

(* _save_sandbox_reference, and the fixed one of the replacement.           *)
SaveReference(t) ==
  /\ At(t, "reference")
  /\ IF thread[t].op = "resolve" THEN supported' = TRUE /\ UNCHANGED reference
                                 ELSE reference' = thread[t].row /\ UNCHANGED supported
  /\ Go(t, Onward(t))
  /\ UNCHANGED <<acme, storage, archive, ledger, standing, journal>>

(* record_replacement_decision: it looks whether the new decision exists,   *)
(* saves it, ends the old one as it was read, and reads the new one.        *)
ReadNew(t) ==
  /\ At(t, "read_new") /\ ~storage
  /\ Go(t, Onward(t))
  /\ UNCHANGED store

SaveNew(t) ==
  /\ At(t, "save_new")
  /\ storage' = TRUE
  /\ Go(t, Onward(t))
  /\ UNCHANGED <<acme, archive, ledger, reference, supported, standing, journal>>

Supersede(t) ==
  /\ At(t, "supersede")
  /\ acme' = "SUPERSEDED"
  /\ Go(t, Onward(t))
  /\ UNCHANGED <<storage, archive, ledger, reference, supported, standing, journal>>

ReadSaved(t) ==
  /\ At(t, "read_saved") /\ storage
  /\ Go(t, Onward(t))
  /\ UNCHANGED store

(* evaluate_standing.  Where the decision does not stand, break goes on to  *)
(* block it and reset's allow is refused; where it stands, break is done.   *)
Evaluate(t) ==
  LET op == thread[t].op
      stands == IF op = "resolve" THEN supported ELSE reference.value >= 365
  IN
  /\ At(t, "evaluate") /\ Exists(Subject(op))
  /\ op # "break" => stands
  /\ Go(t, IF op = "break" /\ stands THEN Done(t) ELSE Onward(t))
  /\ UNCHANGED store

(* write_standing_change: the entity, then, with the decision read once     *)
(* more, the journal.                                                       *)
ActionOf(op) == IF op = "break" THEN "block" ELSE "allow"

SaveStanding(t) ==
  /\ At(t, "standing")
  /\ standing' = [standing EXCEPT ![Subject(thread[t].op)] = ActionOf(thread[t].op)]
  /\ Go(t, Onward(t))
  /\ UNCHANGED <<acme, storage, archive, ledger, reference, supported, journal>>

JournalStanding(t) ==
  /\ At(t, "journal") /\ Exists(Subject(thread[t].op))
  /\ journal' = [journal EXCEPT ![Subject(thread[t].op)] = ActionOf(thread[t].op)]
  /\ Go(t, Onward(t))
  /\ UNCHANGED <<acme, storage, archive, ledger, reference, supported, standing>>

(* A call raises: it must, where the step above is not enabled, and it may, *)
(* where the store cannot be written or read.                               *)
Fail(t) ==
  /\ t \in Busy
  /\ thread' = [thread EXCEPT ![t] = Idle]
  /\ failed' = TRUE /\ last' = Nobody
  /\ UNCHANGED <<clock, store, calls, overlapped>>

Tick ==
  /\ clock < MaxTime
  /\ clock' = clock + 1
  /\ UNCHANGED <<store, thread, calls, overlapped, failed, last>>

Next ==
  \/ \E t \in Threads :
       \/ \E op \in {"break", "reset", "resolve"} : Request(t, op)
       \/ Look(t) \/ Find(t) \/ ReadOld(t) \/ Reopen(t) \/ Archive(t) \/ Record(t)
       \/ SaveReference(t) \/ ReadNew(t) \/ SaveNew(t) \/ Supersede(t) \/ ReadSaved(t)
       \/ Evaluate(t) \/ SaveStanding(t) \/ JournalStanding(t) \/ Fail(t)
  \/ Tick

Spec == Init /\ [][Next]_vars
-----------------------------------------------------------------------------
Ran(op1, op2) == {op1, op2} \in overlapped

(* The path is never without its decision: between any two calls, and after *)
(* any of them has raised, an active decision governs it; unless a          *)
(* replacement and a reset ran side by side.                                *)
(* (reset reopens before it archives, record_replacement_decision saves the *)
(* new decision before it ends the old one)                                 *)
NeverUngoverned ==
  Ran("resolve", "reset") \/ acme = "CURRENT" \/ storage

(* "Return the sandbox to its initial state": whatever requests came before *)
(* - part way, side by side - a reset that runs alone to its end repairs.   *)
ResetRepairs ==
  Resting /\ last = [op |-> "reset", alone |-> TRUE] =>
    /\ acme = "CURRENT" /\ ~storage
    /\ reference.value = 365
    /\ standing.ACME = "allow" /\ journal.ACME = "allow"

(* At rest the records agree: the head of the accepted rows known now has   *)
(* the value of the reference, the standing stored and the one journaled    *)
(* are those of that value, and a replacement is active exactly when it has *)
(* superseded and been allowed; if no request ended part way, none that     *)
(* undo each other overlapped and no break followed a reset.                *)
RecordsAgree ==
  LET head == KnownAsOf(ledger, clock, clock, TRUE) IN
  Resting /\ ~failed /\ ~Ran("break", "reset") /\ ~Ran("resolve", "reset") =>
    /\ reference # ChangedRow \/ ledger \subseteq {InitialRow, ChangedRow} =>
         head # NoRow /\ head.value = reference.value
    /\ standing.ACME = (IF reference.value = 365 THEN "allow" ELSE "block")
    /\ journal.ACME = standing.ACME
    /\ storage <=> acme = "SUPERSEDED"
    /\ storage => standing.STORAGE = "allow" /\ journal.STORAGE = "allow"
===============================================================================
