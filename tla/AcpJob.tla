-------------------------------- MODULE AcpJob --------------------------------
(***************************************************************************)
(* One hire of a verifier over the agent marketplace: the Python bridge    *)
(* that starts and kills processes, the buyer (adapter.ts) that creates,   *)
(* funds and completes jobs, and the seller (verifier.ts) that publishes   *)
(* a reading for a funded job.                                             *)
(*                                                                         *)
(* The calls of an operator are made one after the other; what an earlier  *)
(* call left behind - a transaction in flight, a job nobody waits for, a   *)
(* seller still running - meets the processes of the later ones.  A job    *)
(* is the log of its entries, which every process of its two wallets reads *)
(* at a pace of its own.                                                   *)
(***************************************************************************)
EXTENDS Integers, Sequences, FiniteSets

CONSTANTS Keys,         \* condition keys
          Asks,         \* the conditions each call may be about
          MaxCalls,     \* BOUND: hires an operator makes
          MaxReadings,  \* BOUND: readings published
          Spent,        \* what the caller of each hire says was spent today
          Budget, DailyCap,
          NoTx

Calls == 1..MaxCalls
Jobs == 1..MaxCalls     \* job ids, in the order of their creation
NoJob == 0
NoReading == 0
Readings == 1..MaxReadings

ASSUME KeysExist == Keys # {}
ASSUME HireBounds == MaxCalls \in Nat /\ MaxReadings \in Nat
ASSUME AsksType == Asks \in [Calls -> SUBSET Keys]
ASSUME SpendType == Spent \in [Calls -> Nat] /\ Budget \in Nat /\ DailyCap \in Nat

(* The event that brought a job where it is; an "expired" job stands for a  *)
(* rejected one too, which no process tells apart.                          *)
Statuses == {"none", "open", "budget.set", "funded", "submitted", "completed", "expired"}
Active == {"open", "budget.set", "funded", "submitted"}

(* The states of a job in which the marketplace takes a transaction.        *)
Takes(event) ==
  {s \in Active : \/ event = "budget.set" /\ s \in {"open", "budget.set"}
                  \/ event = "funded"     /\ s = "budget.set"
                  \/ event = "submitted"  /\ s = "funded"
                  \/ event = "completed"  /\ s = "submitted"
                  \/ event = "expired"}

Entries == [event : (Statuses \ {"none", "open"}) \cup {"requirement", "message"},
            reading : Readings \cup {NoReading}]
Transactions == [event : {"created", "funded", "completed"},
                 job : Jobs \cup {NoJob}, call : Calls]
ASSUME NoTxIsNone == NoTx \notin Transactions

VARIABLES job,      \* the marketplace: status, condition key and entries of each job
          txs,      \* the buyer's transactions that have not landed
          owner,    \* owner[r]: the job a published reading was made for
          hire,     \* each call of AcpVerifierClient.hire_verifier
          buyer,    \* the adapter process of the running call
          worker    \* the seller process each call has started

vars == <<job, txs, owner, hire, buyer, worker>>

KeyOf(r) == job[owner[r]].key
Unread == {r \in Readings : owner[r] = NoJob}
(* Mutant: every entry moves the status of its job. *)
PostMovesStatus(jobs, j, event, r) ==
  [jobs EXCEPT ![j].status = event,
               ![j].log = Append(@, [event |-> event, reading |-> r])]

Post(jobs, j, event, r) ==
  [jobs EXCEPT ![j].status = IF event = "message" THEN @ ELSE event,
               ![j].log = Append(@, [event |-> event, reading |-> r])]

NotAJob == [status |-> "none", key |-> CHOOSE k \in Keys : TRUE, log |-> << >>]
Off == [phase |-> "off", job |-> NoJob, awaits |-> NoTx, settled |-> NoJob,
        heard |-> {}, pos |-> [j \in Jobs |-> 0]]
NoWorker == [phase |-> "off", active |-> {}, tasks |-> {}, pos |-> [j \in Jobs |-> 0]]

TypeOK ==
  /\ job \in [Jobs -> [status : Statuses, key : Keys, log : Seq(Entries)]]
  /\ txs \subseteq Transactions
  /\ owner \in [Readings -> Jobs \cup {NoJob}]
  /\ hire \in [Calls -> [phase : {"idle", "worker", "adapter", "answered", "failed"},
                         key : Keys, resume : Jobs \cup {NoJob}, alone : BOOLEAN,
                         job : Jobs \cup {NoJob}, reading : Readings \cup {NoReading}]]
  /\ buyer \in [phase : {"off", "starting", "creating", "waiting"},
                job : Jobs \cup {NoJob}, settled : Jobs \cup {NoJob},
                awaits : Transactions \cup {NoTx}, heard : SUBSET Readings,
                pos : [Jobs -> Nat]]
  /\ worker \in [Calls -> [phase : {"off", "starting", "up", "done", "failed"},
                           active : SUBSET Jobs, pos : [Jobs -> Nat],
                           tasks : SUBSET [job : Jobs, reading : Readings \cup {NoReading},
                                           step : {"budget", "publish", "message", "submit"}]]]

Init ==
  /\ job = [j \in Jobs |-> NotAJob]
  /\ txs = {}
  /\ owner = [r \in Readings |-> NoJob]
  /\ hire = [c \in Calls |-> [phase |-> "idle", key |-> NotAJob.key, resume |-> NoJob,
                              alone |-> FALSE, job |-> NoJob, reading |-> NoReading]]
  /\ buyer = Off
  /\ worker = [c \in Calls |-> NoWorker]
-----------------------------------------------------------------------------
(* The bridge: acp.py and acp_bridge.py. *)

Earlier(c) == \A b \in Calls : b < c => hire[b].phase \in {"answered", "failed"}

(* The caller's acceptance check has already succeeded, or the spending it  *)
(* reports leaves no room for the fee: nothing is started.                  *)
Refuse(c, accepted) ==
  /\ hire[c].phase = "idle" /\ Earlier(c)
  /\ accepted \/ Spent[c] + Budget > DailyCap
  /\ hire' = [hire EXCEPT ![c].phase = "failed"]
  /\ UNCHANGED <<job, txs, owner, buyer, worker>>

(* History: nothing but the resumed job is under way when the call begins,  *)
(* and if there is one, no seller has been left running.                    *)
Alone(resume) ==
  /\ \A j \in Jobs \ {resume} : job[j].status \notin Active
  /\ \A t \in txs : t.event # "created"
  /\ resume # NoJob => \A w \in Calls : worker[w].phase = "off"

Begin(c, key, resume, startVerifier) ==
  /\ hire[c].phase = "idle" /\ Earlier(c)
  /\ Spent[c] + Budget <= DailyCap
  /\ resume # NoJob => job[resume].status # "none"
  /\ hire' = [hire EXCEPT ![c] = [@ EXCEPT !.key = key, !.resume = resume,
                !.alone = Alone(resume),
                !.phase = IF startVerifier THEN "worker" ELSE "adapter"]]
  /\ worker' = IF startVerifier THEN [worker EXCEPT ![c].phase = "starting"] ELSE worker
  /\ buyer' = IF startVerifier THEN Off ELSE [Off EXCEPT !.phase = "starting"]
  /\ UNCHANGED <<job, txs, owner>>

(* Mutant: the last entry of a closed job is delivered again as well. *)
HydratedClosedToo(replay) ==
  [j \in Jobs |-> IF job[j].status = "none" THEN 0
                  ELSE Len(job[j].log) - IF replay THEN 1 ELSE 0]

(* A process that connects finds the active jobs; the last entry of each is *)
(* delivered to it again or not.                                            *)
Hydrated(replay) ==
  [j \in Jobs |-> IF job[j].status = "none" THEN 0
                  ELSE Len(job[j].log) - IF replay /\ job[j].status \in Active THEN 1 ELSE 0]

(* The seller announces itself within its startup time.                     *)
WorkerReady(c, replay) ==
  /\ hire[c].phase = "worker"
  /\ worker' = [worker EXCEPT ![c].phase = "up", ![c].pos = Hydrated(replay)]
  /\ hire' = [hire EXCEPT ![c].phase = "adapter"]
  /\ buyer' = [Off EXCEPT !.phase = "starting"]
  /\ UNCHANGED <<job, txs, owner>>

(* It dies or says nothing in time; or its first line is something else,    *)
(* and then it is left running.                                             *)
WorkerUnready(c, runsOn, replay) ==
  /\ hire[c].phase = "worker"
  /\ worker' = [worker EXCEPT ![c] = IF runsOn THEN [NoWorker EXCEPT !.phase = "up", !.pos = Hydrated(replay)]
                                     ELSE NoWorker]
  /\ hire' = [hire EXCEPT ![c].phase = "failed"]
  /\ UNCHANGED <<job, txs, owner, buyer>>

Running(c) == hire[c].phase = "adapter"
Stopped(c) == [worker EXCEPT ![c] = NoWorker]

(* The readings for the condition among the messages of the result; the     *)
(* messages do not say which job they belong to.                            *)
Deliveries(c) == {r \in buyer.heard : KeyOf(r) = hire[c].key}

(* The buyer's last line is an answer: it is taken, if it holds exactly one *)
(* delivery, unless the seller has exited with an error meanwhile.          *)
Finish(c, exited) ==
  /\ Running(c)
  /\ buyer.phase = "waiting" /\ buyer.settled # NoJob
  /\ hire' = [hire EXCEPT ![c] =
       IF ~(worker[c].phase = "failed" /\ exited) /\ Cardinality(Deliveries(c)) = 1
       THEN [@ EXCEPT !.phase = "answered", !.job = buyer.settled,
                      !.reading = CHOOSE r \in Deliveries(c) : TRUE]
       ELSE [@ EXCEPT !.phase = "failed"]]
  /\ buyer' = Off
  /\ worker' = Stopped(c)
  /\ UNCHANGED <<job, txs, owner>>

(* Mutant: the bridge has no deadline: it waits for a buyer that may never exit. *)
GiveUpOnFailure(c) ==
  /\ Running(c) /\ worker[c].phase = "failed"
  /\ hire' = [hire EXCEPT ![c].phase = "failed"]
  /\ buyer' = Off
  /\ worker' = Stopped(c)
  /\ UNCHANGED <<job, txs, owner>>

(* The deadline passes, the buyer exits with an error, or the seller has    *)
(* failed: both processes are killed, whatever they have in flight.         *)
GiveUp(c) ==
  /\ Running(c)
  /\ hire' = [hire EXCEPT ![c].phase = "failed"]
  /\ buyer' = Off
  /\ worker' = Stopped(c)
  /\ UNCHANGED <<job, txs, owner>>
-----------------------------------------------------------------------------
(* The buyer: adapter.ts. *)

Send(c, event, j) == txs' = txs \cup {[event |-> event, job |-> j, call |-> c]}

(* Mutant: a job to resume that is not active is created anew. *)
BuyerStartOrCreate(c, replay) ==
  /\ Running(c) /\ buyer.phase = "starting"
  /\ IF hire[c].resume = NoJob \/ job[hire[c].resume].status \notin Active
     THEN /\ Send(c, "created", NoJob)
          /\ buyer' = [buyer EXCEPT !.phase = "creating", !.pos = Hydrated(replay)]
     ELSE /\ buyer' = [buyer EXCEPT !.phase = "waiting", !.job = hire[c].resume,
                                    !.pos = Hydrated(replay)]
          /\ UNCHANGED txs
  /\ UNCHANGED <<job, owner, hire, worker>>

(* agent.start: a job to resume must be among the active ones; without one  *)
(* a job is created.                                                        *)
BuyerStart(c, replay) ==
  /\ Running(c) /\ buyer.phase = "starting"
  /\ IF hire[c].resume = NoJob
     THEN /\ Send(c, "created", NoJob)
          /\ buyer' = [buyer EXCEPT !.phase = "creating", !.pos = Hydrated(replay)]
     ELSE /\ job[hire[c].resume].status \in Active
          /\ buyer' = [buyer EXCEPT !.phase = "waiting", !.job = hire[c].resume,
                                    !.pos = Hydrated(replay)]
          /\ UNCHANGED txs
  /\ UNCHANGED <<job, owner, hire, worker>>

(* The next entry of any job of the wallet, one handler at a time, until    *)
(* the result is settled - by whichever job is completed first.             *)
BuyerHear(c, j) ==
  LET entry == job[j].log[buyer.pos[j] + 1]
      read  == [buyer EXCEPT !.pos[j] = @ + 1]
      sends(event) == /\ Send(c, event, j)
                      /\ buyer' = [read EXCEPT !.awaits = [event |-> event, job |-> j, call |-> c]]
  IN
  /\ Running(c) /\ buyer.phase \in {"creating", "waiting"}
  /\ buyer.awaits = NoTx /\ buyer.settled = NoJob
  /\ buyer.pos[j] < Len(job[j].log)
  /\ \/ entry.event = "message"
        /\ buyer' = [read EXCEPT !.heard = @ \cup {entry.reading}] /\ UNCHANGED txs
     \/ entry.event = "budget.set" /\ sends("funded")
     \/ entry.event = "submitted" /\ sends("completed")
     \/ entry.event = "completed"
        /\ buyer' = [read EXCEPT !.settled = j] /\ UNCHANGED txs
     \/ entry.event \in {"requirement", "funded"} /\ buyer' = read /\ UNCHANGED txs
  /\ UNCHANGED <<job, owner, hire, worker>>

(* A transaction lands, perhaps after the process that sent it was killed.  *)
LandCreation(t) ==
  LET j == 1 + Cardinality({i \in Jobs : job[i].status # "none"})
  IN
  /\ t \in txs /\ t.event = "created"
  /\ job' = [job EXCEPT ![j] = [status |-> "open", key |-> hire[t.call].key,
                 log |-> <<[event |-> "requirement", reading |-> NoReading]>>]]
  /\ txs' = txs \ {t}
  /\ buyer' = IF Running(t.call) THEN [buyer EXCEPT !.phase = "waiting", !.job = j] ELSE buyer
  /\ UNCHANGED <<owner, hire, worker>>

Land(t) ==
  /\ t \in txs /\ t.event # "created"
  /\ job[t.job].status \in Takes(t.event)
  /\ job' = Post(job, t.job, t.event, NoReading)
  /\ txs' = txs \ {t}
  /\ buyer' = IF buyer.awaits = t THEN [buyer EXCEPT !.awaits = NoTx] ELSE buyer
  /\ UNCHANGED <<owner, hire, worker>>

(* Whoever ends it, a job may be rejected or expire.                        *)
Expire(j) ==
  /\ job[j].status \in Takes("expired")
  /\ job' = Post(job, j, "expired", NoReading)
  /\ UNCHANGED <<txs, owner, hire, buyer, worker>>
-----------------------------------------------------------------------------
(* The seller: verifier.ts.  Its handlers run side by side. *)

Task(j, step, r) == [job |-> j, step |-> step, reading |-> r]

(* handleEntry: a requirement of a job still open, or a funded job - again  *)
(* if the entry comes again - starts a task; the end of a job it knows ends *)
(* the process, well or badly.  A seller not configured for the condition   *)
(* starts none, as one that never takes its steps.                          *)
WorkerHear(w, j) ==
  LET entry == job[j].log[worker[w].pos[j] + 1]
      read  == [worker[w] EXCEPT !.pos[j] = @ + 1]
      becomes(new) == worker' = [worker EXCEPT ![w] = new]
      serves(step) == becomes([read EXCEPT !.active = @ \cup {j},
                                           !.tasks = @ \cup {Task(j, step, NoReading)}])
      asked == entry.event = "requirement" /\ job[j].status = "open"
      ended == entry.event \in {"expired", "completed"} /\ j \in worker[w].active
  IN
  /\ worker[w].phase = "up"
  /\ worker[w].pos[j] < Len(job[j].log)
  /\ \/ asked /\ serves("budget")
     \/ entry.event = "funded" /\ serves("publish")
     \/ /\ ended
        /\ becomes([read EXCEPT !.phase = IF entry.event = "expired" THEN "failed" ELSE "done"])
     \/ ~asked /\ ~ended /\ entry.event # "funded" /\ becomes(read)
  /\ UNCHANGED <<job, txs, owner, hire, buyer>>

Serving(w, t) == worker[w].phase # "off" /\ t \in worker[w].tasks
Replace(w, t, next) == worker' = [worker EXCEPT ![w].tasks = (@ \ {t}) \cup next]

SetBudget(w, t) ==
  /\ Serving(w, t) /\ t.step = "budget"
  /\ job[t.job].status \in Takes("budget.set")
  /\ job' = Post(job, t.job, "budget.set", NoReading)
  /\ Replace(w, t, {})
  /\ UNCHANGED <<txs, owner, hire, buyer>>

(* publishObservation: fetch, extract, attest; the receipt names the        *)
(* reading.                                                                 *)
PublishObservation(w, t, r) ==
  /\ Serving(w, t) /\ t.step = "publish"
  /\ r \in Unread /\ \A s \in Unread : r <= s
  /\ owner' = [owner EXCEPT ![r] = t.job]
  /\ Replace(w, t, {Task(t.job, "message", r)})
  /\ UNCHANGED <<job, txs, hire, buyer>>

SendMessage(w, t) ==
  /\ Serving(w, t) /\ t.step = "message"
  /\ job' = Post(job, t.job, "message", t.reading)
  /\ Replace(w, t, {Task(t.job, "submit", NoReading)})
  /\ UNCHANGED <<txs, owner, hire, buyer>>

Submit(w, t) ==
  /\ Serving(w, t) /\ t.step = "submit"
  /\ job[t.job].status \in Takes("submitted")
  /\ job' = Post(job, t.job, "submitted", NoReading)
  /\ Replace(w, t, {})
  /\ UNCHANGED <<txs, owner, hire, buyer>>

(* A step of a handler throws: the process reports it and ends.             *)
HandlerFails(w, t) ==
  /\ Serving(w, t)
  /\ worker' = [worker EXCEPT ![w].phase = IF @ = "up" THEN "failed" ELSE @,
                              ![w].tasks = @ \ {t}]
  /\ UNCHANGED <<job, txs, owner, hire, buyer>>
-----------------------------------------------------------------------------
Bridge(c) ==
  \/ \E accepted \in BOOLEAN : Refuse(c, accepted)
  \/ \E k \in Asks[c], r \in Jobs \cup {NoJob}, s \in BOOLEAN : Begin(c, k, r, s)
  \/ \E replay \in BOOLEAN : WorkerReady(c, replay)
  \/ \E runsOn, replay \in BOOLEAN : WorkerUnready(c, runsOn, replay)
  \/ \E exited \in BOOLEAN : Finish(c, exited)
  \/ GiveUp(c)

Buyer(c) ==
  \/ \E replay \in BOOLEAN : BuyerStart(c, replay)
  \/ \E j \in Jobs : BuyerHear(c, j)

Market ==
  \/ \E t \in txs : LandCreation(t) \/ Land(t)
  \/ \E j \in Jobs : Expire(j)

Worker(w) ==
  \/ \E j \in Jobs : WorkerHear(w, j)
  \/ \E t \in worker[w].tasks :
       \/ SetBudget(w, t) \/ SendMessage(w, t) \/ Submit(w, t) \/ HandlerFails(w, t)
       \/ \E r \in Readings : PublishObservation(w, t, r)

Next ==
  \/ \E c \in Calls : Bridge(c) \/ Buyer(c) \/ Worker(c)
  \/ Market

(* The bridge polls its processes against a deadline: a call that waits for *)
(* a seller or a buyer does not wait for ever.  Nothing else is fair: not   *)
(* the marketplace, not the seller, not the buyer.                          *)
Deadline(c) == GiveUp(c) \/ WorkerUnready(c, FALSE, FALSE)
Spec == Init /\ [][Next]_vars /\ \A c \in Calls : WF_vars(Deadline(c))
-----------------------------------------------------------------------------
Outcome(phase) == IF phase \in {"worker", "adapter"} THEN "hired" ELSE phase
WasFunded(j) == \E i \in DOMAIN job[j].log : job[j].log[i].event = "funded"

Hiring == INSTANCE Hiring WITH
            paid      <- {j \in Jobs : WasFunded(j)},
            published <- {[job |-> owner[r], reading |-> r] : r \in Readings \ Unread},
            state     <- [c \in Calls |-> Outcome(hire[c].phase)],
            reading   <- [c \in Calls |-> hire[c].reading]

(* Through every kill, replay and late transaction, the processes together  *)
(* keep the promise of Hiring: readings are published under a job that is   *)
(* already paid for, a hire is answered by a published reading or fails,    *)
(* ends once, and does end.                                                 *)
HiringSpec == Hiring!Spec

(* A hire that begins with nothing else under way is answered with the      *)
(* reading of the very job it reports, which is the one it was to resume:   *)
(* late transactions, messages and replays of earlier calls cannot get into *)
(* it, nor, into a job of its own, what a seller they left running sends.   *)
OwnAnswer ==
  \A c \in Calls :
    hire[c].phase = "answered" /\ hire[c].alone =>
      /\ owner[hire[c].reading] = hire[c].job
      /\ hire[c].resume \in {NoJob, hire[c].job}

(* "when jobId is present, the adapter never calls the job-creation         *)
(* endpoint": there are never more jobs and creations in flight than calls  *)
(* were made without a job id.                                              *)
RetryCreatesNothing ==
  Cardinality({j \in Jobs : job[j].status # "none"})
    + Cardinality({t \in txs : t.event = "created"})
      <= Cardinality({c \in Calls : hire[c].phase # "idle" /\ hire[c].resume = NoJob})
=============================================================================
