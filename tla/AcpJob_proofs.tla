----------------------------- MODULE AcpJob_proofs -----------------------------
(***************************************************************************)
(* Hires over the agent marketplace: what holds for any number of calls,   *)
(* readings and conditions, through every kill and late transaction.       *)
(*                                                                         *)
(* Three invariants, each built on the one before it.                      *)
(*   Base         types, one call under way at a time, and the counting:   *)
(*                a job made, a creation in flight and a call still to ask *)
(*                for one each stand for a call made without a job id.     *)
(*   Delivered    a message carries a reading of its own job, a job is     *)
(*                completed only after a message, a task is at a step its  *)
(*                job has come to.  With it every step is one of Hiring.   *)
(*   Undisturbed  while a call that began with nothing else under way      *)
(*                runs, either every other job is closed and its own is    *)
(*                heard in order, or all that is done is about the job it  *)
(*                resumed.                                                 *)
(***************************************************************************)
EXTENDS AcpJob, FiniteSetTheorems, TLAPS

JobStates == [status : Statuses, key : Keys, log : Seq(Entries)]
HireStates == [phase : {"idle", "worker", "adapter", "answered", "failed"},
               key : Keys, resume : Jobs \cup {NoJob}, alone : BOOLEAN,
               job : Jobs \cup {NoJob}, reading : Readings \cup {NoReading}]
BuyerStates == [phase : {"off", "starting", "creating", "waiting"},
                job : Jobs \cup {NoJob}, settled : Jobs \cup {NoJob},
                awaits : Transactions \cup {NoTx}, heard : SUBSET Readings,
                pos : [Jobs -> Nat]]
Tasks == [job : Jobs, reading : Readings \cup {NoReading},
          step : {"budget", "publish", "message", "submit"}]
WorkerStates == [phase : {"off", "starting", "up", "done", "failed"},
                 active : SUBSET Jobs, pos : [Jobs -> Nat], tasks : SUBSET Tasks]

Posts == {"budget.set", "funded", "submitted", "completed", "expired", "message"}

Made == {j \in Jobs : job[j].status # "none"}
Creations == {t \in txs : t.event = "created"}
Asking == {c \in Calls : hire[c].phase # "idle" /\ hire[c].resume = NoJob}

(* The calls that may still send a creation. *)
ToAsk == {c \in Calls : /\ hire[c].resume = NoJob
                        /\ \/ hire[c].phase = "worker"
                           \/ Running(c) /\ buyer.phase = "starting"}

Under(c) == hire[c].phase \in {"worker", "adapter"}

(* Calls are made one after the other. *)
InOrder ==
  \A b, c \in Calls :
    b < c /\ hire[c].phase # "idle" => hire[b].phase \in {"answered", "failed"}

(* Each job was asked for by a call of its own. *)
Counted ==
  /\ IsFiniteSet(txs)
  /\ Made = 1..Cardinality(Made)
  /\ Cardinality(Made) + Cardinality(Creations) + Cardinality(ToAsk) <= Cardinality(Asking)

(* What messages, their tasks and transactions name is there. *)
Carried ==
  /\ \A j \in Jobs : /\ job[j].status = "none" <=> job[j].log = << >>
                     /\ \A i \in 1..Len(job[j].log) :
                          job[j].log[i].event = "message" => job[j].log[i].reading \in Readings
  /\ \A w \in Calls : \A t \in worker[w].tasks :
       /\ job[t.job].status # "none"
       /\ t.step = "message" => t.reading \in Readings
  /\ \A t \in txs : t.event # "created" => t.job \in Jobs

Base == TypeOK /\ InOrder /\ Counted /\ Carried

-----------------------------------------------------------------------------
LEMMA Numbers ==
  /\ IsFiniteSet(Calls) /\ IsFiniteSet(Jobs) /\ Cardinality(Calls) = MaxCalls
  /\ MaxCalls \in Nat /\ Calls \subseteq Nat /\ Jobs \subseteq Nat /\ 0 \notin Jobs
  <1>1. MaxCalls \in Nat
    BY HireBounds
  <1>2. /\ IsFiniteSet(1..MaxCalls) /\ Cardinality(1..MaxCalls) = MaxCalls
    BY <1>1, FS_Interval
  <1>3. QED
    BY <1>1, <1>2 DEF Calls, Jobs

LEMMA Types ==
  TypeOK <=> /\ job \in [Jobs -> JobStates] /\ txs \subseteq Transactions
             /\ owner \in [Readings -> Jobs \cup {NoJob}]
             /\ hire \in [Calls -> HireStates]
             /\ buyer \in BuyerStates /\ worker \in [Calls -> WorkerStates]
  BY DEF TypeOK, JobStates, HireStates, BuyerStates, WorkerStates, Tasks

LEMMA TypesNext ==
  TypeOK' <=> /\ job' \in [Jobs -> JobStates] /\ txs' \subseteq Transactions
              /\ owner' \in [Readings -> Jobs \cup {NoJob}]
              /\ hire' \in [Calls -> HireStates]
              /\ buyer' \in BuyerStates /\ worker' \in [Calls -> WorkerStates]
  BY DEF TypeOK, JobStates, HireStates, BuyerStates, WorkerStates, Tasks

LEMMA OffIsTyped == Off \in BuyerStates /\ NoWorker \in WorkerStates
  BY DEF Off, NoWorker, BuyerStates, WorkerStates, NoJob

(* Two calls are not under way at once. *)
LEMMA OneUnderWay ==
  ASSUME InOrder, NEW b \in Calls, NEW c \in Calls, Under(b), Under(c)
  PROVE  b = c
  BY Numbers DEF InOrder, Under

(* One entry more in the log of a job, and its status follows. *)
LEMMA PostEffect ==
  ASSUME NEW jobs \in [Jobs -> JobStates], NEW j \in Jobs, NEW event \in Posts,
         NEW r \in Readings \cup {NoReading}
  PROVE  LET new == Post(jobs, j, event, r) IN
         /\ new \in [Jobs -> JobStates]
         /\ \A i \in Jobs \ {j} : new[i] = jobs[i]
         /\ new[j].key = jobs[j].key
         /\ new[j].status = IF event = "message" THEN jobs[j].status ELSE event
         /\ Len(new[j].log) = Len(jobs[j].log) + 1
         /\ \A i \in 1..Len(jobs[j].log) : new[j].log[i] = jobs[j].log[i]
         /\ new[j].log[Len(jobs[j].log) + 1] = [event |-> event, reading |-> r]
  <1> DEFINE status == IF event = "message" THEN jobs[j].status ELSE event
             entry == [event |-> event, reading |-> r]
             new == [jobs EXCEPT ![j].status = status, ![j].log = Append(@, entry)]
  <1>1. /\ status \in Statuses /\ entry \in Entries
        /\ jobs[j] \in JobStates /\ jobs[j].log \in Seq(Entries)
    BY DEF Posts, Statuses, Entries, JobStates
  <1>2. /\ Append(jobs[j].log, entry) \in Seq(Entries)
        /\ Len(Append(jobs[j].log, entry)) = Len(jobs[j].log) + 1
        /\ \A i \in 1..Len(jobs[j].log) : Append(jobs[j].log, entry)[i] = jobs[j].log[i]
        /\ Append(jobs[j].log, entry)[Len(jobs[j].log) + 1] = entry
    BY <1>1
  <1>3. Post(jobs, j, event, r) = new
    BY DEF Post
  <1> HIDE DEF status, entry
  <1>4. /\ new[j].status = status /\ new[j].key = jobs[j].key
        /\ new[j].log = Append(jobs[j].log, entry)
        /\ \A i \in Jobs \ {j} : new[i] = jobs[i]
    BY <1>1 DEF JobStates
  <1>5. new \in [Jobs -> JobStates]
    BY <1>1, <1>2 DEF JobStates
  <1>6. QED
    BY <1>2, <1>3, <1>4, <1>5 DEF status, entry

LEMMA SetsAreFinite ==
  ASSUME Counted
  PROVE  /\ IsFiniteSet(Made) /\ IsFiniteSet(Creations)
         /\ IsFiniteSet(ToAsk) /\ IsFiniteSet(Asking)
         /\ Cardinality(Made) \in Nat /\ Cardinality(Creations) \in Nat
         /\ Cardinality(ToAsk) \in Nat /\ Cardinality(Asking) \in Nat
         /\ Cardinality(Asking) <= MaxCalls
  <1>1. /\ Made \in SUBSET Jobs /\ Creations \in SUBSET txs
        /\ ToAsk \in SUBSET Calls /\ Asking \in SUBSET Calls
    BY DEF Made, Creations, ToAsk, Asking
  <1>2. IsFiniteSet(txs)
    BY DEF Counted
  <1>3. /\ IsFiniteSet(Made) /\ IsFiniteSet(Creations)
        /\ IsFiniteSet(ToAsk) /\ IsFiniteSet(Asking)
        /\ Cardinality(Asking) <= MaxCalls
    BY <1>1, <1>2, Numbers, FS_Subset
  <1>4. QED
    BY <1>3, FS_CardinalityType

(* A creation that lands finds a place: the next job is not there yet.      *)
LEMMA NextJobIsFree ==
  ASSUME Base, NEW t \in txs, t.event = "created"
  PROVE  LET j == 1 + Cardinality(Made) IN
         j \in Jobs /\ j \notin Made /\ job[j].status = "none" /\ job[j].log = << >>
  <1> DEFINE n == Cardinality(Made)
  <1>1. Creations # {}
    BY DEF Creations
  <1>2. Cardinality(Creations) >= 1
    BY <1>1, SetsAreFinite, FS_EmptySet DEF Base
  <1>3. n \in Nat /\ n + 1 <= MaxCalls
    BY <1>2, SetsAreFinite, Numbers DEF Base, Counted
  <1>4. Made = 1..n
    BY DEF Base, Counted
  <1> HIDE DEF n
  <1>5. 1 + n \in Jobs /\ 1 + n \notin Made
    BY <1>3, <1>4, Numbers DEF Jobs
  <1>6. job[1 + n].status = "none" /\ job[1 + n].log = << >>
    BY <1>5 DEF Made, Base, Carried
  <1>7. QED
    BY <1>5, <1>6 DEF n

(* What each step of the marketplace, the buyer and the sellers writes into *)
(* the jobs.                                                                *)
Posted(j, event, r) ==
  /\ job' \in [Jobs -> JobStates]
  /\ \A i \in Jobs \ {j} : job'[i] = job[i]
  /\ job'[j].key = job[j].key
  /\ job'[j].status = IF event = "message" THEN job[j].status ELSE event
  /\ Len(job'[j].log) = Len(job[j].log) + 1
  /\ \A i \in 1..Len(job[j].log) : job'[j].log[i] = job[j].log[i]
  /\ job'[j].log[Len(job[j].log) + 1] = [event |-> event, reading |-> r]

LEMMA PostIsPosted ==
  ASSUME TypeOK, NEW j \in Jobs, NEW event \in Posts, NEW r \in Readings \cup {NoReading},
         job' = Post(job, j, event, r)
  PROVE  Posted(j, event, r)
  BY Types, PostEffect DEF Posted

(* The number of entries is a number, each entry has its parts. *)
LEMMA LogTypes ==
  ASSUME TypeOK, NEW j \in Jobs
  PROVE  /\ job[j] \in JobStates /\ job[j].log \in Seq(Entries) /\ Len(job[j].log) \in Nat
         /\ job[j].status \in Statuses /\ job[j].key \in Keys
         /\ \A i \in 1..Len(job[j].log) :
              /\ job[j].log[i] \in Entries
              /\ job[j].log[i].reading \in Readings \cup {NoReading}
  <1>1. job[j] \in JobStates
    BY Types
  <1>2. job[j].log \in Seq(Entries)
    BY <1>1 DEF JobStates
  <1>3. Len(job[j].log) \in Nat /\ \A i \in 1..Len(job[j].log) : job[j].log[i] \in Entries
    BY <1>2
  <1>4. \A e \in Entries : e.reading \in Readings \cup {NoReading}
    BY DEF Entries
  <1>5. job[j].status \in Statuses /\ job[j].key \in Keys
    BY <1>1 DEF JobStates
  <1>6. QED
    BY <1>1, <1>2, <1>3, <1>4, <1>5

LEMMA TakesActive ==
  ASSUME NEW event, NEW s \in Takes(event)
  PROVE  s \in Active /\ s \in Statuses /\ s # "none"
  BY DEF Takes, Active, Statuses

(* The parts of the processes. *)
LEMMA ProcessTypes ==
  ASSUME TypeOK
  PROVE  /\ buyer \in BuyerStates /\ buyer.pos \in [Jobs -> Nat] /\ buyer.heard \subseteq Readings
         /\ buyer.settled \in Jobs \cup {NoJob} /\ buyer.job \in Jobs \cup {NoJob}
         /\ \A c \in Calls :
              /\ hire[c] \in HireStates /\ hire[c].resume \in Jobs \cup {NoJob}
              /\ worker[c] \in WorkerStates /\ worker[c].pos \in [Jobs -> Nat]
              /\ worker[c].active \subseteq Jobs
              /\ \A t \in worker[c].tasks : /\ t \in Tasks /\ t.job \in Jobs
                                            /\ t.reading \in Readings \cup {NoReading}
  BY Types DEF BuyerStates, HireStates, WorkerStates, Tasks

LEMMA HydratedType ==
  ASSUME TypeOK, Carried, NEW replay \in BOOLEAN
  PROVE  Hydrated(replay) \in [Jobs -> Nat]
  <1> SUFFICES ASSUME NEW j \in Jobs
               PROVE  (IF job[j].status = "none" THEN 0
                       ELSE Len(job[j].log) - IF replay /\ job[j].status \in Active THEN 1 ELSE 0)
                        \in Nat
    BY DEF Hydrated
  <1>1. job[j].log \in Seq(Entries) /\ Len(job[j].log) \in Nat
    BY LogTypes
  <1>2. job[j].status # "none" => Len(job[j].log) # 0
    BY <1>1 DEF Carried
  <1>3. QED
    BY <1>1, <1>2

(* Type correctness of every step. *)
LEMMA BridgeTypes ==
  ASSUME Base, NEW c \in Calls, Bridge(c)
  PROVE  TypeOK'
  <1> USE DEF Base
  <1>t. /\ job \in [Jobs -> JobStates] /\ txs \subseteq Transactions
        /\ owner \in [Readings -> Jobs \cup {NoJob}] /\ hire \in [Calls -> HireStates]
        /\ buyer \in BuyerStates /\ worker \in [Calls -> WorkerStates]
    BY Types
  <1>o. Off \in BuyerStates /\ [Off EXCEPT !.phase = "starting"] \in BuyerStates
        /\ NoWorker \in WorkerStates
    BY OffIsTyped DEF BuyerStates
  <1>1. ASSUME NEW accepted \in BOOLEAN, Refuse(c, accepted) PROVE TypeOK'
    BY <1>1, <1>t, TypesNext DEF Refuse, HireStates
  <1>2. ASSUME NEW k \in Asks[c], NEW r \in Jobs \cup {NoJob}, NEW s \in BOOLEAN, Begin(c, k, r, s)
        PROVE  TypeOK'
    <2> DEFINE phase == IF s THEN "worker" ELSE "adapter"
               alone == Alone(r)
               begun == [hire[c] EXCEPT !.key = k, !.resume = r,
                                        !.alone = alone, !.phase = phase]
               started == [worker[c] EXCEPT !.phase = "starting"]
    <2>1. k \in Keys /\ alone \in BOOLEAN /\ phase \in {"worker", "adapter"}
      BY AsksType DEF Alone
    <2>2. /\ hire' = [hire EXCEPT ![c] = begun]
          /\ worker' = worker \/ worker' = [worker EXCEPT ![c] = started]
          /\ buyer' = Off \/ buyer' = [Off EXCEPT !.phase = "starting"]
          /\ job' = job /\ txs' = txs /\ owner' = owner
      BY <1>2 DEF Begin
    <2> HIDE DEF phase, alone
    <2>a. begun \in HireStates /\ started \in WorkerStates
      <3>1. hire[c] \in HireStates /\ worker[c] \in WorkerStates
        BY <1>t
      <3>2. QED
        BY <2>1, <3>1 DEF HireStates, WorkerStates
    <2> HIDE DEF begun, started
    <2>3. hire' \in [Calls -> HireStates]
      BY <2>2, <2>a, <1>t
    <2>4. worker' \in [Calls -> WorkerStates]
      BY <2>2, <2>a, <1>t
    <2>5. buyer' \in BuyerStates
      BY <2>2, <1>o
    <2>6. QED
      BY <2>2, <2>3, <2>4, <2>5, <1>t, TypesNext
  <1>3. ASSUME NEW replay \in BOOLEAN, WorkerReady(c, replay) PROVE TypeOK'
    <2>1. Hydrated(replay) \in [Jobs -> Nat]
      BY HydratedType
    <2> DEFINE up == [worker[c] EXCEPT !.phase = "up", !.pos = Hydrated(replay)]
    <2>a. up \in WorkerStates
      <3>1. worker[c] \in WorkerStates
        BY <1>t
      <3>2. QED
        BY <2>1, <3>1 DEF WorkerStates
    <2>b. worker' = [worker EXCEPT ![c] = up]
      BY <1>3 DEF WorkerReady
    <2> HIDE DEF up
    <2>2. worker' \in [Calls -> WorkerStates]
      BY <2>a, <2>b, <1>t
    <2>3. hire' \in [Calls -> HireStates]
      BY <1>3, <1>t DEF WorkerReady, HireStates
    <2>4. QED
      BY <1>3, <2>2, <2>3, <1>t, <1>o, TypesNext DEF WorkerReady
  <1>4. ASSUME NEW runsOn \in BOOLEAN, NEW replay \in BOOLEAN, WorkerUnready(c, runsOn, replay)
        PROVE  TypeOK'
    <2> DEFINE left == [NoWorker EXCEPT !.phase = "up", !.pos = Hydrated(replay)]
    <2>1. Hydrated(replay) \in [Jobs -> Nat]
      BY HydratedType
    <2>2. left \in WorkerStates
      BY <2>1, <1>o DEF WorkerStates
    <2>3. worker' = [worker EXCEPT ![c] = left] \/ worker' = [worker EXCEPT ![c] = NoWorker]
      BY <1>4 DEF WorkerUnready
    <2> HIDE DEF left
    <2>4. worker' \in [Calls -> WorkerStates]
      BY <2>2, <2>3, <1>t, <1>o
    <2>5. hire' \in [Calls -> HireStates]
      BY <1>4, <1>t DEF WorkerUnready, HireStates
    <2>6. QED
      BY <1>4, <2>4, <2>5, <1>t, TypesNext DEF WorkerUnready
  <1>5. ASSUME NEW exited \in BOOLEAN, Finish(c, exited) PROVE TypeOK'
    <2> DEFINE r == CHOOSE r \in Deliveries(c) : TRUE
               won == [hire[c] EXCEPT !.phase = "answered", !.job = buyer.settled, !.reading = r]
               lost == [hire[c] EXCEPT !.phase = "failed"]
    <2>1. /\ \/ hire' = [hire EXCEPT ![c] = won] /\ Cardinality(Deliveries(c)) = 1
             \/ hire' = [hire EXCEPT ![c] = lost]
          /\ buyer' = Off /\ worker' = [worker EXCEPT ![c] = NoWorker]
          /\ job' = job /\ txs' = txs /\ owner' = owner
      BY <1>5 DEF Finish, Stopped
    <2>2. Cardinality(Deliveries(c)) = 1 => r \in Readings
      <3>1. Deliveries(c) \subseteq Readings
        BY ProcessTypes DEF Deliveries
      <3>2. Cardinality(Deliveries(c)) = 1 => Deliveries(c) # {}
        BY FS_EmptySet
      <3>3. QED
        BY <3>1, <3>2
    <2> HIDE DEF r
    <2>3. lost \in HireStates /\ (r \in Readings => won \in HireStates)
      <3>1. buyer.settled \in Jobs \cup {NoJob} /\ hire[c] \in HireStates
        BY ProcessTypes
      <3>2. QED
        BY <3>1 DEF HireStates
    <2> HIDE DEF won, lost
    <2>4. hire' \in [Calls -> HireStates]
      BY <2>1, <2>2, <2>3, <1>t
    <2>5. QED
      BY <2>1, <2>4, <1>t, <1>o, TypesNext
  <1>6. CASE GiveUp(c)
    <2>1. hire' \in [Calls -> HireStates]
      BY <1>6, <1>t DEF GiveUp, HireStates
    <2>2. QED
      BY <1>6, <2>1, <1>t, <1>o, TypesNext DEF GiveUp, Stopped
  <1>7. QED
    BY <1>1, <1>2, <1>3, <1>4, <1>5, <1>6 DEF Bridge

LEMMA BuyerTypes ==
  ASSUME Base, NEW c \in Calls, Buyer(c)
  PROVE  TypeOK'
  <1> USE DEF Base
  <1>t. /\ job \in [Jobs -> JobStates] /\ txs \subseteq Transactions
        /\ owner \in [Readings -> Jobs \cup {NoJob}] /\ hire \in [Calls -> HireStates]
        /\ buyer \in BuyerStates /\ worker \in [Calls -> WorkerStates]
    BY Types
  <1>1. ASSUME NEW replay \in BOOLEAN, BuyerStart(c, replay) PROVE TypeOK'
    <2>1. Hydrated(replay) \in [Jobs -> Nat]
      BY HydratedType
    <2>2. CASE hire[c].resume = NoJob
      <3>1. [event |-> "created", job |-> NoJob, call |-> c] \in Transactions
        BY DEF Transactions
      <3>2. buyer' \in BuyerStates
        BY <1>1, <2>1, <2>2, <1>t DEF BuyerStart, BuyerStates
      <3>3. QED
        BY <1>1, <2>2, <3>1, <3>2, <1>t, TypesNext DEF BuyerStart, Send
    <2>3. CASE hire[c].resume # NoJob
      <3>1. hire[c].resume \in Jobs \cup {NoJob}
        BY ProcessTypes
      <3>2. buyer' \in BuyerStates
        BY <1>1, <2>1, <2>3, <3>1, <1>t DEF BuyerStart, BuyerStates
      <3>3. QED
        BY <1>1, <2>3, <3>2, <1>t, TypesNext DEF BuyerStart
    <2>4. QED
      BY <2>2, <2>3
  <1>2. ASSUME NEW j \in Jobs, BuyerHear(c, j) PROVE TypeOK'
    <2> DEFINE entry == job[j].log[buyer.pos[j] + 1]
               read == [buyer EXCEPT !.pos[j] = @ + 1]
               tx(event) == [event |-> event, job |-> j, call |-> c]
    <2>1. /\ \/ entry.event = "message" /\ buyer' = [read EXCEPT !.heard = @ \cup {entry.reading}] /\ txs' = txs
             \/ \E event \in {"funded", "completed"} :
                  buyer' = [read EXCEPT !.awaits = tx(event)] /\ txs' = txs \cup {tx(event)}
             \/ buyer' = [read EXCEPT !.settled = j] /\ txs' = txs
             \/ buyer' = read /\ txs' = txs
          /\ buyer.pos[j] < Len(job[j].log)
          /\ job' = job /\ owner' = owner /\ hire' = hire /\ worker' = worker
      BY <1>2 DEF BuyerHear, Send
    <2>2. /\ buyer.pos[j] \in Nat /\ Len(job[j].log) \in Nat
          /\ buyer.pos[j] + 1 \in 1..Len(job[j].log)
      BY <2>1, ProcessTypes, LogTypes
    <2>3. entry.event = "message" => entry.reading \in Readings
      BY <2>2 DEF Carried
    <2>4. \A event \in {"funded", "completed"} : tx(event) \in Transactions
      BY DEF Transactions
    <2> HIDE DEF entry, tx
    <2>5. read \in BuyerStates
      <3>1. buyer.pos \in [Jobs -> Nat] /\ buyer \in BuyerStates
        BY ProcessTypes
      <3>a. [buyer.pos EXCEPT ![j] = @ + 1] \in [Jobs -> Nat]
        BY <3>1
      <3>2. PICK pos \in [Jobs -> Nat] : pos = [buyer.pos EXCEPT ![j] = @ + 1]
        BY <3>a
      <3>3. read = [buyer EXCEPT !.pos = pos]
        BY <3>2
      <3>4. QED
        BY <3>1, <3>2, <3>3 DEF BuyerStates
    <2> HIDE DEF read
    <2>6. buyer' \in BuyerStates
      <3>1. entry.reading \in Readings => [read EXCEPT !.heard = @ \cup {entry.reading}] \in BuyerStates
        BY <2>5 DEF BuyerStates
      <3>2. \A event \in {"funded", "completed"} : [read EXCEPT !.awaits = tx(event)] \in BuyerStates
        BY <2>4, <2>5 DEF BuyerStates
      <3>3. [read EXCEPT !.settled = j] \in BuyerStates
        BY <2>5 DEF BuyerStates
      <3>4. QED
        BY <2>1, <2>3, <2>5, <3>1, <3>2, <3>3
    <2>7. txs' \subseteq Transactions
      BY <2>1, <2>4, <1>t
    <2>8. QED
      BY <2>1, <2>6, <2>7, <1>t, TypesNext
  <1>3. QED
    BY <1>1, <1>2 DEF Buyer

LEMMA LandCreationTypes ==
  ASSUME Base, NEW t \in txs, LandCreation(t)
  PROVE  LET j == 1 + Cardinality(Made) IN
         /\ TypeOK'
         /\ j \in Jobs /\ job[j].status = "none" /\ j \notin Made
         /\ \A i \in Jobs \ {j} : job'[i] = job[i]
         /\ job'[j].status = "open" /\ job'[j].key = hire[t.call].key
         /\ Len(job'[j].log) = 1 /\ job'[j].log # << >>
         /\ job'[j].log[1] = [event |-> "requirement", reading |-> NoReading]
  <1> DEFINE j == 1 + Cardinality(Made)
             entry == [event |-> "requirement", reading |-> NoReading]
             new == [status |-> "open", key |-> hire[t.call].key, log |-> <<entry>>]
  <1>1. t.event = "created" /\ t.call \in Calls
    BY Types DEF LandCreation, Base, Transactions
  <1>2. j \in Jobs /\ j \notin Made /\ job[j].status = "none"
    BY <1>1, NextJobIsFree
  <1>3. /\ job' = [job EXCEPT ![j] = new] /\ txs' = txs \ {t}
        /\ buyer' = [buyer EXCEPT !.phase = "waiting", !.job = j] \/ buyer' = buyer
        /\ owner' = owner /\ hire' = hire /\ worker' = worker
    BY DEF LandCreation, Made
  <1> HIDE DEF j
  <1>4. /\ entry \in Entries /\ <<entry>> \in Seq(Entries) /\ Len(<<entry>>) = 1
        /\ <<entry>>[1] = entry /\ <<entry>> # << >>
    BY DEF Entries
  <1>5. new \in JobStates
    <2>1. hire[t.call].key \in Keys
      BY <1>1, Types DEF Base, HireStates
    <2>2. QED
      BY <1>4, <2>1 DEF JobStates, Statuses
  <1>6. /\ new.status = "open" /\ new.key = hire[t.call].key /\ new.log = <<entry>>
    OBVIOUS
  <1> HIDE DEF new
  <1>7. job' \in [Jobs -> JobStates] /\ job'[j] = new /\ \A i \in Jobs \ {j} : job'[i] = job[i]
    BY <1>2, <1>3, <1>5, Types DEF Base
  <1>8. buyer' \in BuyerStates
    BY <1>2, <1>3, Types DEF Base, BuyerStates
  <1>9. TypeOK'
    BY <1>3, <1>7, <1>8, Types, TypesNext DEF Base
  <1>10. job'[j].log # << >>
    BY <1>4, <1>6, <1>7
  <1>11. QED
    BY <1>2, <1>4, <1>6, <1>7, <1>9, <1>10 DEF j

LEMMA LandTypes ==
  ASSUME Base, NEW t \in txs, Land(t)
  PROVE  /\ TypeOK' /\ t.job \in Jobs /\ t.event \in {"funded", "completed"}
         /\ job[t.job].status \in Takes(t.event)
         /\ Posted(t.job, t.event, NoReading)
  <1>1. t.job \in Jobs /\ t.event \in {"funded", "completed"}
    BY Types DEF Land, Base, Carried, Transactions
  <1>2. Posted(t.job, t.event, NoReading)
    <2>1. /\ t.event \in Posts /\ NoReading \in Readings \cup {NoReading} /\ TypeOK
          /\ job' = Post(job, t.job, t.event, NoReading)
      BY <1>1 DEF Land, Base, Posts
    <2>2. QED
      BY <1>1, <2>1, PostIsPosted
  <1>3. buyer' \in BuyerStates
    BY Types DEF Base, Land, BuyerStates
  <1>4. QED
    BY <1>1, <1>2, <1>3, Types, TypesNext DEF Land, Base, Posted

LEMMA ExpireTypes ==
  ASSUME Base, NEW j \in Jobs, Expire(j)
  PROVE  TypeOK' /\ Posted(j, "expired", NoReading)
  <1>1. Posted(j, "expired", NoReading)
    BY PostIsPosted DEF Expire, Base, Posts
  <1>2. QED
    BY <1>1, Types, TypesNext DEF Expire, Base, Posted

(* A seller's tasks become other tasks. *)
LEMMA ReplaceTypes ==
  ASSUME TypeOK, NEW w \in Calls, NEW t, NEW next \in SUBSET Tasks, Replace(w, t, next)
  PROVE  /\ worker' \in [Calls -> WorkerStates]
         /\ worker'[w].tasks = (worker[w].tasks \ {t}) \cup next
         /\ worker'[w].phase = worker[w].phase /\ worker'[w].pos = worker[w].pos
         /\ worker'[w].active = worker[w].active
         /\ \A v \in Calls \ {w} : worker'[v] = worker[v]
  <1>1. worker[w] \in WorkerStates /\ worker \in [Calls -> WorkerStates]
    BY Types
  <1>2. PICK tasks \in SUBSET Tasks : tasks = (worker[w].tasks \ {t}) \cup next
    BY <1>1 DEF WorkerStates
  <1>3. worker' = [worker EXCEPT ![w].tasks = tasks]
    BY <1>2 DEF Replace
  <1>4. QED
    BY <1>1, <1>2, <1>3 DEF WorkerStates

LEMMA WorkerHearTypes ==
  ASSUME Base, NEW w \in Calls, NEW j \in Jobs, WorkerHear(w, j)
  PROVE  LET entry == job[j].log[worker[w].pos[j] + 1]
             asked == entry.event = "requirement" /\ job[j].status = "open"
             ended == entry.event \in {"expired", "completed"} /\ j \in worker[w].active
         IN
         /\ TypeOK'
         /\ worker[w].pos[j] + 1 \in 1..Len(job[j].log)
         /\ \A v \in Calls \ {w} : worker'[v] = worker[v]
         /\ worker'[w].phase \in {"up", "done", "failed"}
         /\ worker'[w].pos = [worker[w].pos EXCEPT ![j] = @ + 1]
         /\ \/ worker'[w].tasks = worker[w].tasks
            \/ /\ asked /\ worker'[w].tasks = worker[w].tasks \cup {Task(j, "budget", NoReading)}
            \/ /\ entry.event = "funded"
               /\ worker'[w].tasks = worker[w].tasks \cup {Task(j, "publish", NoReading)}
  <1> DEFINE entry == job[j].log[worker[w].pos[j] + 1]
             asked == entry.event = "requirement" /\ job[j].status = "open"
             ended == entry.event \in {"expired", "completed"} /\ j \in worker[w].active
             read == [worker[w] EXCEPT !.pos[j] = @ + 1]
             serving(step) == [read EXCEPT !.active = @ \cup {j},
                                           !.tasks = @ \cup {Task(j, step, NoReading)}]
             stopped == [read EXCEPT !.phase = IF entry.event = "expired" THEN "failed" ELSE "done"]
  <1>1. /\ \/ asked /\ worker' = [worker EXCEPT ![w] = serving("budget")]
           \/ entry.event = "funded" /\ worker' = [worker EXCEPT ![w] = serving("publish")]
           \/ worker' = [worker EXCEPT ![w] = stopped]
           \/ worker' = [worker EXCEPT ![w] = read]
        /\ worker[w].phase = "up" /\ worker[w].pos[j] < Len(job[j].log)
        /\ job' = job /\ txs' = txs /\ owner' = owner /\ hire' = hire /\ buyer' = buyer
    BY DEF WorkerHear
  <1>2. /\ worker[w] \in WorkerStates /\ worker[w].pos \in [Jobs -> Nat]
        /\ worker \in [Calls -> WorkerStates]
        /\ worker[w].active \subseteq Jobs /\ worker[w].tasks \subseteq Tasks
    BY ProcessTypes, Types DEF Base, WorkerStates
  <1>3. worker[w].pos[j] + 1 \in 1..Len(job[j].log)
    BY <1>1, <1>2, LogTypes DEF Base
  <1>4. /\ Task(j, "budget", NoReading) \in Tasks /\ Task(j, "publish", NoReading) \in Tasks
    BY DEF Task, Tasks
  <1>5. /\ read \in WorkerStates /\ read.phase = worker[w].phase
        /\ read.tasks = worker[w].tasks /\ read.active = worker[w].active
        /\ read.pos = [worker[w].pos EXCEPT ![j] = @ + 1]
    <2>a. [worker[w].pos EXCEPT ![j] = @ + 1] \in [Jobs -> Nat]
      BY <1>2
    <2>1. PICK pos \in [Jobs -> Nat] : pos = [worker[w].pos EXCEPT ![j] = @ + 1]
      BY <2>a
    <2>2. read = [worker[w] EXCEPT !.pos = pos]
      BY <2>1
    <2>3. QED
      BY <1>2, <2>1, <2>2 DEF WorkerStates
  <1> HIDE DEF read
  <1>6. ASSUME NEW step \in {"budget", "publish"}
        PROVE  /\ serving(step) \in WorkerStates /\ serving(step).phase = read.phase
               /\ serving(step).tasks = read.tasks \cup {Task(j, step, NoReading)}
               /\ serving(step).pos = read.pos
    <2>1. PICK tasks \in SUBSET Tasks : tasks = read.tasks \cup {Task(j, step, NoReading)}
      BY <1>2, <1>4, <1>5
    <2>2. PICK active \in SUBSET Jobs : active = read.active \cup {j}
      BY <1>2, <1>5
    <2>3. serving(step) = [read EXCEPT !.active = active, !.tasks = tasks]
      BY <2>1, <2>2
    <2>4. QED
      BY <1>5, <2>1, <2>2, <2>3 DEF WorkerStates
  <1>7. /\ stopped \in WorkerStates /\ stopped.phase \in {"done", "failed"}
        /\ stopped.tasks = read.tasks /\ stopped.pos = read.pos
    <2>1. PICK phase \in {"done", "failed"} : phase = IF entry.event = "expired" THEN "failed" ELSE "done"
      OBVIOUS
    <2>2. stopped = [read EXCEPT !.phase = phase]
      BY <2>1
    <2>3. QED
      BY <1>5, <2>1, <2>2 DEF WorkerStates
  <1> HIDE DEF serving, stopped, entry
  <1>8. worker' \in [Calls -> WorkerStates]
    BY <1>1, <1>2, <1>5, <1>6, <1>7
  <1>9. TypeOK'
    BY <1>1, <1>8, Types, TypesNext DEF Base
  <1>10. /\ \A v \in Calls \ {w} : worker'[v] = worker[v]
         /\ worker'[w].phase \in {"up", "done", "failed"}
         /\ worker'[w].pos = [worker[w].pos EXCEPT ![j] = @ + 1]
         /\ \/ worker'[w].tasks = worker[w].tasks
            \/ asked /\ worker'[w].tasks = worker[w].tasks \cup {Task(j, "budget", NoReading)}
            \/ /\ entry.event = "funded"
               /\ worker'[w].tasks = worker[w].tasks \cup {Task(j, "publish", NoReading)}
    BY <1>1, <1>2, <1>5, <1>6, <1>7
  <1>11. QED
    BY <1>3, <1>9, <1>10 DEF entry

LEMMA SetBudgetTypes ==
  ASSUME Base, NEW w \in Calls, NEW t \in worker[w].tasks, SetBudget(w, t)
  PROVE  TypeOK' /\ t.job \in Jobs /\ Posted(t.job, "budget.set", NoReading)
  <1>1. t.job \in Jobs
    BY ProcessTypes DEF Base
  <1>2. Posted(t.job, "budget.set", NoReading)
    BY <1>1, PostIsPosted DEF SetBudget, Base, Posts
  <1>3. worker' \in [Calls -> WorkerStates]
    BY ReplaceTypes DEF SetBudget, Base
  <1>4. QED
    BY <1>1, <1>2, <1>3, Types, TypesNext DEF SetBudget, Base, Posted

LEMMA PublishTypes ==
  ASSUME Base, NEW w \in Calls, NEW t \in worker[w].tasks, NEW r \in Readings,
         PublishObservation(w, t, r)
  PROVE  /\ TypeOK' /\ t.job \in Jobs /\ owner[r] = NoJob
         /\ owner' = [owner EXCEPT ![r] = t.job]
         /\ worker'[w].tasks = (worker[w].tasks \ {t}) \cup {Task(t.job, "message", r)}
         /\ \A v \in Calls \ {w} : worker'[v] = worker[v]
         /\ worker'[w].phase = worker[w].phase /\ worker'[w].pos = worker[w].pos
  <1>1. t.job \in Jobs
    BY ProcessTypes DEF Base
  <1>2. {Task(t.job, "message", r)} \in SUBSET Tasks
    BY <1>1 DEF Task, Tasks
  <1>3. /\ worker' \in [Calls -> WorkerStates]
        /\ worker'[w].tasks = (worker[w].tasks \ {t}) \cup {Task(t.job, "message", r)}
        /\ worker'[w].phase = worker[w].phase /\ worker'[w].pos = worker[w].pos
        /\ \A v \in Calls \ {w} : worker'[v] = worker[v]
    BY <1>2, ReplaceTypes DEF PublishObservation, Base
  <1>4. QED
    BY <1>1, <1>3, Types, TypesNext DEF PublishObservation, Unread, Base

LEMMA SendMessageTypes ==
  ASSUME Base, NEW w \in Calls, NEW t \in worker[w].tasks, SendMessage(w, t)
  PROVE  /\ TypeOK' /\ t.job \in Jobs /\ t.reading \in Readings
         /\ Posted(t.job, "message", t.reading)
         /\ worker'[w].tasks = (worker[w].tasks \ {t}) \cup {Task(t.job, "submit", NoReading)}
         /\ \A v \in Calls \ {w} : worker'[v] = worker[v]
         /\ worker'[w].phase = worker[w].phase /\ worker'[w].pos = worker[w].pos
  <1>1. t.job \in Jobs /\ t.reading \in Readings
    BY ProcessTypes DEF Base, Carried, SendMessage
  <1>2. {Task(t.job, "submit", NoReading)} \in SUBSET Tasks
    BY <1>1 DEF Task, Tasks
  <1>3. /\ worker' \in [Calls -> WorkerStates]
        /\ worker'[w].tasks = (worker[w].tasks \ {t}) \cup {Task(t.job, "submit", NoReading)}
        /\ worker'[w].phase = worker[w].phase /\ worker'[w].pos = worker[w].pos
        /\ \A v \in Calls \ {w} : worker'[v] = worker[v]
    BY <1>2, ReplaceTypes DEF SendMessage, Base
  <1>4. Posted(t.job, "message", t.reading)
    BY <1>1, PostIsPosted DEF SendMessage, Base, Posts
  <1>5. QED
    BY <1>1, <1>3, <1>4, Types, TypesNext DEF SendMessage, Base, Posted

LEMMA SubmitTypes ==
  ASSUME Base, NEW w \in Calls, NEW t \in worker[w].tasks, Submit(w, t)
  PROVE  TypeOK' /\ t.job \in Jobs /\ Posted(t.job, "submitted", NoReading)
  <1>1. t.job \in Jobs
    BY ProcessTypes DEF Base
  <1>2. Posted(t.job, "submitted", NoReading)
    BY <1>1, PostIsPosted DEF Submit, Base, Posts
  <1>3. worker' \in [Calls -> WorkerStates]
    BY ReplaceTypes DEF Submit, Base
  <1>4. QED
    BY <1>1, <1>2, <1>3, Types, TypesNext DEF Submit, Base, Posted

LEMMA HandlerFailsTypes ==
  ASSUME Base, NEW w \in Calls, NEW t \in worker[w].tasks, HandlerFails(w, t)
  PROVE  /\ TypeOK' /\ worker'[w].tasks \subseteq worker[w].tasks
         /\ \A v \in Calls \ {w} : worker'[v] = worker[v]
         /\ worker'[w].phase # "off"
         /\ worker[w].phase = "starting" => worker'[w].phase = "starting"
         /\ worker'[w].pos = worker[w].pos
  <1>1. worker[w] \in WorkerStates /\ worker \in [Calls -> WorkerStates]
    BY Types DEF Base
  <1>2. PICK phase \in {"off", "starting", "up", "done", "failed"} :
          phase = IF worker[w].phase = "up" THEN "failed" ELSE worker[w].phase
    BY <1>1 DEF WorkerStates
  <1>3. PICK tasks \in SUBSET Tasks : tasks = worker[w].tasks \ {t}
    BY <1>1 DEF WorkerStates
  <1>4. worker' = [worker EXCEPT ![w].phase = phase, ![w].tasks = tasks]
    BY <1>2, <1>3 DEF HandlerFails
  <1>5. /\ worker' \in [Calls -> WorkerStates] /\ worker'[w].tasks = tasks
        /\ worker'[w].phase = phase /\ worker'[w].pos = worker[w].pos
        /\ \A v \in Calls \ {w} : worker'[v] = worker[v]
    BY <1>1, <1>4 DEF WorkerStates
  <1>6. phase # "off"
    BY <1>2 DEF HandlerFails, Serving
  <1>7. QED
    BY <1>2, <1>3, <1>5, <1>6, Types, TypesNext DEF HandlerFails, Base

-----------------------------------------------------------------------------
LEMMA InOrderKept ==
  ASSUME InOrder, NEW c \in Calls, \A b \in Calls \ {c} : hire'[b] = hire[b],
         Under(c) \/ (hire[c].phase = "idle" /\ Earlier(c))
  PROVE  InOrder'
  BY Numbers DEF InOrder, Under, Earlier

LEMMA CountedKept ==
  ASSUME Counted, Made' = Made, Creations' = Creations, IsFiniteSet(txs'),
         ToAsk' \subseteq ToAsk, Asking' \in SUBSET Calls, Asking \subseteq Asking'
  PROVE  Counted'
  <1>1. Cardinality(ToAsk') <= Cardinality(ToAsk) /\ Cardinality(ToAsk') \in Nat
    BY SetsAreFinite, FS_Subset, FS_CardinalityType
  <1>2. Cardinality(Asking) <= Cardinality(Asking') /\ Cardinality(Asking') \in Nat
    BY Numbers, FS_Subset, FS_CardinalityType
  <1>3. QED
    BY <1>1, <1>2, SetsAreFinite DEF Counted

LEMMA MadeKept ==
  ASSUME NEW j \in Jobs, NEW event \in Posts, NEW r, Posted(j, event, r),
         job[j].status # "none"
  PROVE  Made' = Made
  <1>1. \A i \in Jobs : job'[i].status # "none" <=> job[i].status # "none"
    BY DEF Posted, Posts
  <1>2. QED
    BY <1>1 DEF Made

(* An entry more leaves what is carried, if the entry carries what it must. *)
LEMMA CarriedByJobs ==
  ASSUME TypeOK, Carried, NEW j \in Jobs, NEW event \in Posts, NEW r, Posted(j, event, r),
         job[j].status # "none", event = "message" => r \in Readings
  PROVE  /\ \A i \in Jobs : /\ job'[i].status = "none" <=> job'[i].log = << >>
                            /\ \A k \in 1..Len(job'[i].log) :
                                 job'[i].log[k].event = "message"
                                   => job'[i].log[k].reading \in Readings
         /\ \A i \in Jobs : job[i].status # "none" => job'[i].status # "none"
  <1>1. \A i \in Jobs : job'[i].status # "none" <=> job[i].status # "none"
    BY DEF Posted, Posts
  <1>2. Len(job[j].log) \in Nat /\ Len(job'[j].log) = Len(job[j].log) + 1
    BY LogTypes DEF Posted
  <1>3. job'[j].log # << >>
    <2>1. Len(<< >>) = 0
      OBVIOUS
    <2>2. QED
      BY <1>2, <2>1
  <1>4. \A k \in 1..Len(job'[j].log) :
          job'[j].log[k].event = "message" => job'[j].log[k].reading \in Readings
    <2> SUFFICES ASSUME NEW k \in 1..Len(job'[j].log)
                 PROVE  job'[j].log[k].event = "message" => job'[j].log[k].reading \in Readings
      OBVIOUS
    <2>1. CASE k = Len(job[j].log) + 1
      BY <2>1 DEF Posted
    <2>2. CASE k # Len(job[j].log) + 1
      <3>1. k \in 1..Len(job[j].log)
        BY <1>2, <2>2
      <3>2. QED
        BY <3>1 DEF Posted, Carried
    <2>3. QED
      BY <2>1, <2>2
  <1>5. ASSUME NEW i \in Jobs, i # j
        PROVE  /\ job'[i].status = "none" <=> job'[i].log = << >>
               /\ \A k \in 1..Len(job'[i].log) :
                    job'[i].log[k].event = "message" => job'[i].log[k].reading \in Readings
    BY <1>5 DEF Carried, Posted
  <1>6. QED
    BY <1>1, <1>3, <1>4, <1>5

LEMMA BridgeBase ==
  ASSUME Base, NEW c \in Calls, Bridge(c)
  PROVE  Base'
  <1>t. /\ TypeOK' /\ TypeOK /\ InOrder /\ Counted /\ Carried
        /\ buyer \in BuyerStates /\ hire \in [Calls -> HireStates]
        /\ worker \in [Calls -> WorkerStates]
    BY BridgeTypes, Types DEF Base
  <1>u. ASSUME job' = job, txs' = txs
        PROVE  Made' = Made /\ Creations' = Creations /\ IsFiniteSet(txs')
    BY <1>t, <1>u DEF Made, Creations, Counted
  <1>w. ASSUME job' = job, txs' = txs,
               \A w \in Calls : worker'[w].tasks = worker[w].tasks \/ worker'[w].tasks = {}
        PROVE  Carried'
    BY <1>t, <1>w DEF Carried
  <1>n. NoWorker.tasks = {}
    BY DEF NoWorker
  <1>1. ASSUME NEW accepted \in BOOLEAN, Refuse(c, accepted) PROVE Base'
    <2>1. /\ \A b \in Calls \ {c} : hire'[b] = hire[b]
          /\ hire'[c].phase = "failed" /\ hire'[c].resume = hire[c].resume
          /\ hire[c].phase = "idle" /\ Earlier(c)
          /\ job' = job /\ txs' = txs /\ buyer' = buyer /\ worker' = worker
      BY <1>1, <1>t DEF Refuse, HireStates
    <2>2. ToAsk' \subseteq ToAsk /\ Asking \subseteq Asking' /\ Asking' \in SUBSET Calls
      BY <2>1 DEF ToAsk, Asking, Running
    <2>3. Counted' /\ InOrder' /\ Carried'
      BY <2>1, <2>2, <1>t, <1>u, <1>w, CountedKept, InOrderKept
    <2>4. QED
      BY <2>3, <1>t DEF Base
  <1>2. ASSUME NEW k \in Asks[c], NEW r \in Jobs \cup {NoJob}, NEW s \in BOOLEAN, Begin(c, k, r, s)
        PROVE  Base'
    <2>1. /\ \A b \in Calls \ {c} : hire'[b] = hire[b]
          /\ hire'[c].resume = r /\ hire'[c].phase # "idle"
          /\ hire[c].phase = "idle" /\ Earlier(c)
          /\ job' = job /\ txs' = txs
      <3> DEFINE phase == IF s THEN "worker" ELSE "adapter"
                 alone == Alone(r)
      <3>1. phase # "idle"
        OBVIOUS
      <3>2. /\ hire' = [hire EXCEPT ![c] = [hire[c] EXCEPT !.key = k, !.resume = r,
                                              !.alone = alone, !.phase = phase]]
            /\ hire[c].phase = "idle" /\ Earlier(c) /\ job' = job /\ txs' = txs
        BY <1>2 DEF Begin
      <3> HIDE DEF phase, alone
      <3>3. QED
        BY <3>1, <3>2, <1>t DEF HireStates
    <2>2. \A w \in Calls : worker'[w].tasks = worker[w].tasks
      BY <1>2, <1>t DEF Begin, WorkerStates
    <2>3. ToAsk = {} /\ ToAsk' \subseteq {c}
      <3>1. ASSUME NEW d \in Calls, Under(d) PROVE FALSE
        BY <2>1, <3>1, <1>t, Numbers DEF Under, Earlier, InOrder
      <3>2. \A d \in Calls \ {c} : ~Under(d) /\ ~Under(d)'
        BY <2>1, <3>1 DEF Under
      <3>3. QED
        BY <3>1, <3>2 DEF ToAsk, Running, Under
    <2>4. Counted'
      <3>1. CASE r = NoJob
        <4>1. Asking' = Asking \cup {c} /\ c \notin Asking
          BY <2>1, <3>1 DEF Asking
        <4>2. Cardinality(Asking') = Cardinality(Asking) + 1
          BY <4>1, <1>t, SetsAreFinite, FS_AddElement
        <4>3. Cardinality(ToAsk') <= 1 /\ Cardinality(ToAsk') \in Nat /\ Cardinality(ToAsk) = 0
          <5>1. IsFiniteSet({c}) /\ Cardinality({c}) = 1
            BY FS_Singleton
          <5>2. ToAsk' \in SUBSET {c}
            BY <2>3
          <5>3. IsFiniteSet(ToAsk') /\ Cardinality(ToAsk') <= 1
            BY <5>1, <5>2, FS_Subset
          <5>4. QED
            BY <2>3, <5>3, FS_EmptySet, FS_CardinalityType
        <4>4. QED
          BY <4>2, <4>3, <2>1, <1>t, <1>u, SetsAreFinite DEF Counted
      <3>2. CASE r # NoJob
        <4>1. ToAsk' \subseteq ToAsk /\ Asking \subseteq Asking' /\ Asking' \in SUBSET Calls
          BY <2>1, <2>3, <3>2 DEF Asking, ToAsk
        <4>2. QED
          BY <4>1, <2>1, <1>t, <1>u, CountedKept
      <3>3. QED
        BY <3>1, <3>2
    <2>5. InOrder' /\ Carried'
      BY <2>1, <2>2, <1>t, <1>w, InOrderKept
    <2>6. QED
      BY <2>4, <2>5, <1>t DEF Base
  <1>3. ASSUME Under(c), \A b \in Calls \ {c} : hire'[b] = hire[b],
               hire'[c].phase \in {"adapter", "failed", "answered"},
               hire'[c].phase = "adapter" => hire[c].phase = "worker",
               hire'[c].resume = hire[c].resume,
               job' = job, txs' = txs,
               \A w \in Calls : worker'[w].tasks = worker[w].tasks \/ worker'[w].tasks = {}
        PROVE  Base'
    <2>1. Asking \subseteq Asking' /\ Asking' \in SUBSET Calls
      BY <1>3 DEF Asking, Under
    <2>2. ToAsk' \subseteq ToAsk
      <3> SUFFICES ASSUME NEW d \in Calls, d \in ToAsk' PROVE d \in ToAsk
        BY DEF ToAsk
      <3>1. CASE d = c
        BY <3>1, <1>3 DEF ToAsk, Running
      <3>2. CASE d # c
        <4>1. Under(d)
          BY <3>2, <1>3 DEF ToAsk, Under, Running
        <4>2. QED
          BY <4>1, <3>2, <1>3, <1>t, OneUnderWay
      <3>3. QED
        BY <3>1, <3>2
    <2>3. Counted' /\ InOrder' /\ Carried'
      BY <2>1, <2>2, <1>3, <1>t, <1>u, <1>w, CountedKept, InOrderKept
    <2>4. QED
      BY <2>3, <1>t DEF Base
  <1>4. ASSUME NEW replay \in BOOLEAN, WorkerReady(c, replay) PROVE Base'
    <2>1. /\ Under(c) /\ \A b \in Calls \ {c} : hire'[b] = hire[b]
          /\ hire'[c].phase = "adapter" /\ hire[c].phase = "worker"
          /\ hire'[c].resume = hire[c].resume /\ job' = job /\ txs' = txs
      BY <1>4, <1>t DEF WorkerReady, HireStates, Under
    <2>2. \A w \in Calls : worker'[w].tasks = worker[w].tasks
      BY <1>4, <1>t DEF WorkerReady, WorkerStates
    <2>3. QED
      BY <2>1, <2>2, <1>3
  <1>5. ASSUME NEW runsOn \in BOOLEAN, NEW replay \in BOOLEAN, WorkerUnready(c, runsOn, replay)
        PROVE  Base'
    <2>1. /\ Under(c) /\ \A b \in Calls \ {c} : hire'[b] = hire[b]
          /\ hire'[c].phase = "failed"
          /\ hire'[c].resume = hire[c].resume /\ job' = job /\ txs' = txs /\ buyer' = buyer
      BY <1>5, <1>t DEF WorkerUnready, HireStates, Under
    <2>2. \A w \in Calls : worker'[w].tasks = worker[w].tasks \/ worker'[w].tasks = {}
      <3> DEFINE left == [NoWorker EXCEPT !.phase = "up", !.pos = Hydrated(replay)]
      <3>1. worker' = [worker EXCEPT ![c] = left] \/ worker' = [worker EXCEPT ![c] = NoWorker]
        BY <1>5 DEF WorkerUnready
      <3>2. left.tasks = {}
        BY DEF NoWorker
      <3> HIDE DEF left
      <3>3. QED
        BY <3>1, <3>2, <1>n, <1>t
    <2>3. QED
      BY <2>1, <2>2, <1>3
  <1>6. ASSUME Running(c), \A b \in Calls \ {c} : hire'[b] = hire[b],
               hire'[c].phase \in {"failed", "answered"}, hire'[c].resume = hire[c].resume,
               worker' = Stopped(c), job' = job, txs' = txs
        PROVE  Base'
    <2>1. Under(c)
      BY <1>6 DEF Running, Under
    <2>2. \A w \in Calls : worker'[w].tasks = worker[w].tasks \/ worker'[w].tasks = {}
      BY <1>6, <1>n, <1>t DEF Stopped
    <2>3. QED
      BY <2>1, <2>2, <1>6, <1>3
  <1>7. ASSUME NEW exited \in BOOLEAN, Finish(c, exited) PROVE Base'
    <2> DEFINE r == CHOOSE r \in Deliveries(c) : TRUE
               won == [hire[c] EXCEPT !.phase = "answered", !.job = buyer.settled, !.reading = r]
               lost == [hire[c] EXCEPT !.phase = "failed"]
    <2>1. /\ hire' = [hire EXCEPT ![c] = won] \/ hire' = [hire EXCEPT ![c] = lost]
          /\ Running(c) /\ worker' = Stopped(c) /\ job' = job /\ txs' = txs
      BY <1>7 DEF Finish
    <2> HIDE DEF r
    <2>2. /\ won.phase = "answered" /\ won.resume = hire[c].resume
          /\ lost.phase = "failed" /\ lost.resume = hire[c].resume
      <3>1. hire[c] \in HireStates
        BY <1>t
      <3>2. QED
        BY <3>1 DEF HireStates
    <2> HIDE DEF won, lost
    <2>3. /\ \A b \in Calls \ {c} : hire'[b] = hire[b]
          /\ hire'[c].phase \in {"failed", "answered"} /\ hire'[c].resume = hire[c].resume
      BY <2>1, <2>2, <1>t
    <2>4. QED
      BY <2>1, <2>3, <1>6
  <1>8. CASE GiveUp(c)
    <2>1. /\ \A b \in Calls \ {c} : hire'[b] = hire[b]
          /\ hire'[c].phase = "failed" /\ hire'[c].resume = hire[c].resume
          /\ Running(c) /\ worker' = Stopped(c) /\ job' = job /\ txs' = txs
      BY <1>8, <1>t DEF GiveUp, HireStates
    <2>2. QED
      BY <2>1, <1>6
  <1>9. QED
    BY <1>1, <1>2, <1>4, <1>5, <1>7, <1>8 DEF Bridge

(* A step that posts at most one entry to a job that is there, and whose    *)
(* new tasks are for such jobs.                                             *)
LEMMA StepBase ==
  ASSUME Base, TypeOK', hire' = hire, buyer'.phase = buyer.phase,
         txs' \in SUBSET txs, Creations' = Creations,
         \/ job' = job
         \/ \E j \in Jobs, event \in Posts, r \in Readings \cup {NoReading} :
              /\ Posted(j, event, r) /\ job[j].status # "none"
              /\ event = "message" => r \in Readings,
         \A w \in Calls : \A t \in worker'[w].tasks \ worker[w].tasks :
           /\ job[t.job].status # "none"
           /\ t.step = "message" => t.reading \in Readings
  PROVE  Base'
  <1>t. TypeOK /\ InOrder /\ Counted /\ Carried
    BY DEF Base
  <1>1. /\ Made' = Made
        /\ \A i \in Jobs : /\ job'[i].status = "none" <=> job'[i].log = << >>
                           /\ \A k \in 1..Len(job'[i].log) :
                                job'[i].log[k].event = "message"
                                  => job'[i].log[k].reading \in Readings
        /\ \A i \in Jobs : job[i].status # "none" => job'[i].status # "none"
    <2>1. CASE job' = job
      BY <2>1, <1>t DEF Made, Carried
    <2>2. CASE job' # job
      <3>1. PICK j \in Jobs, event \in Posts, r \in Readings \cup {NoReading} :
              /\ Posted(j, event, r) /\ job[j].status # "none"
              /\ event = "message" => r \in Readings
        BY <2>2
      <3>2. QED
        BY <3>1, <1>t, MadeKept, CarriedByJobs
    <2>3. QED
      BY <2>1, <2>2
  <1>2. Counted'
    <2>1. ToAsk' = ToAsk /\ Asking' = Asking /\ Asking' \in SUBSET Calls
      BY DEF ToAsk, Asking, Running
    <2>2. IsFiniteSet(txs')
      BY <1>t, FS_Subset DEF Counted
    <2>3. QED
      BY <1>t, <1>1, <2>1, <2>2, CountedKept
  <1>3. InOrder'
    BY <1>t DEF InOrder
  <1>4. Carried'
    <2>1. ASSUME NEW w \in Calls, NEW t \in worker'[w].tasks
          PROVE  job'[t.job].status # "none" /\ (t.step = "message" => t.reading \in Readings)
      <3>1. t.job \in Jobs
        BY TypesNext DEF WorkerStates, Tasks
      <3>2. job[t.job].status # "none" /\ (t.step = "message" => t.reading \in Readings)
        BY <1>t DEF Carried
      <3>3. QED
        BY <1>1, <3>1, <3>2
    <2>2. \A t \in txs' : t.event # "created" => t.job \in Jobs
      BY <1>t DEF Carried
    <2>3. QED
      BY <1>1, <2>1, <2>2 DEF Carried
  <1>5. QED
    BY <1>2, <1>3, <1>4 DEF Base

LEMMA BuyerStartBase ==
  ASSUME Base, NEW c \in Calls, NEW replay \in BOOLEAN, BuyerStart(c, replay)
  PROVE  Base'
  <1>t. /\ TypeOK' /\ TypeOK /\ InOrder /\ Counted /\ Carried /\ buyer \in BuyerStates
    BY BuyerTypes, Types DEF Base, Buyer
  <1>c. /\ job' = job /\ hire' = hire /\ worker' = worker /\ owner' = owner
        /\ buyer.phase = "starting" /\ Running(c) /\ buyer'.phase # "starting"
    BY <1>t DEF BuyerStart, BuyerStates
  <1>1. Made' = Made /\ Asking' = Asking /\ InOrder'
    BY <1>c, <1>t DEF Made, Asking, InOrder
  <1>2. CASE hire[c].resume # NoJob
    <2>1. txs' = txs
      BY <1>2 DEF BuyerStart
    <2>2. ToAsk' \subseteq ToAsk /\ Creations' = Creations /\ Asking' \in SUBSET Calls
      BY <2>1, <1>c DEF ToAsk, Running, Creations, Asking
    <2>3. Counted' /\ Carried'
      BY <1>1, <1>c, <1>t, <2>1, <2>2, CountedKept DEF Counted, Carried
    <2>4. QED
      BY <1>1, <1>t, <2>3 DEF Base
  <1>3. CASE hire[c].resume = NoJob
    <2> DEFINE tx == [event |-> "created", job |-> NoJob, call |-> c]
    <2>1. txs' = txs \cup {tx}
      BY <1>3 DEF BuyerStart, Send
    <2>2. tx.event = "created"
      OBVIOUS
    <2> HIDE DEF tx
    <2>3. Creations' = Creations \cup {tx} /\ IsFiniteSet(txs')
      BY <2>1, <2>2, <1>t, FS_AddElement DEF Creations, Counted
    <2>4. Cardinality(Creations') <= Cardinality(Creations) + 1 /\ Cardinality(Creations') \in Nat
      <3>1. IsFiniteSet(Creations) /\ Cardinality(Creations) \in Nat
        BY <1>t, SetsAreFinite
      <3>2. Cardinality(Creations \cup {tx}) \in {Cardinality(Creations), Cardinality(Creations) + 1}
        BY <3>1, FS_AddElement
      <3>3. QED
        BY <2>3, <3>1, <3>2
    <2>5. ToAsk' = ToAsk \ {c} /\ c \in ToAsk
      <3>1. c \in ToAsk
        BY <1>3, <1>c DEF ToAsk
      <3>2. \A d \in Calls : d \in ToAsk' <=> d \in ToAsk /\ d # c
        <4>1. ASSUME NEW d \in Calls, d # c, d \in ToAsk PROVE FALSE
          <5>1. Under(d) /\ Under(c)
            BY <4>1, <1>c DEF ToAsk, Under, Running
          <5>2. QED
            BY <4>1, <5>1, <1>t, OneUnderWay
        <4>2. ASSUME NEW d \in Calls, d \in ToAsk' PROVE hire[d].phase = "worker" /\ d \in ToAsk
          BY <4>2, <1>c DEF ToAsk, Running
        <4>3. hire[c].phase # "worker"
          BY <1>c DEF Running
        <4>4. QED
          BY <4>1, <4>2, <4>3
      <3>3. QED
        BY <3>1, <3>2 DEF ToAsk
    <2>6. Cardinality(ToAsk') = Cardinality(ToAsk) - 1
      BY <2>5, <1>t, SetsAreFinite, FS_RemoveElement
    <2>7. Counted'
      BY <1>1, <1>t, <2>3, <2>4, <2>6, SetsAreFinite DEF Counted
    <2>8. Carried'
      BY <1>c, <1>t, <2>1, <2>2 DEF Carried
    <2>9. QED
      BY <1>1, <1>t, <2>7, <2>8 DEF Base
  <1>4. QED
    BY <1>2, <1>3

LEMMA BuyerHearBase ==
  ASSUME Base, NEW c \in Calls, NEW j \in Jobs, BuyerHear(c, j)
  PROVE  Base'
  <1>1. TypeOK' /\ buyer \in BuyerStates
    BY BuyerTypes, Types DEF Base, Buyer
  <1>2. PICK new \in BuyerStates : new = [buyer EXCEPT !.pos[j] = @ + 1]
    <2>1. [buyer.pos EXCEPT ![j] = @ + 1] \in [Jobs -> Nat]
      BY ProcessTypes DEF Base
    <2>2. [buyer EXCEPT !.pos = [buyer.pos EXCEPT ![j] = @ + 1]] \in BuyerStates
      BY <1>1, <2>1 DEF BuyerStates
    <2>3. QED
      BY <2>2
  <1>3. /\ job' = job /\ hire' = hire /\ worker' = worker /\ owner' = owner
        /\ buyer'.phase = new.phase
        /\ \/ txs' = txs
           \/ \E event \in {"funded", "completed"} :
                txs' = txs \cup {[event |-> event, job |-> j, call |-> c]}
    BY <1>2 DEF BuyerHear, Send, BuyerStates
  <1>4. buyer'.phase = buyer.phase
    BY <1>1, <1>2, <1>3 DEF BuyerStates
  <1>5. /\ Creations' = Creations /\ IsFiniteSet(txs')
        /\ \A t \in txs' : t.event # "created" => t.job \in Jobs
    <2>1. CASE txs' = txs
      BY <2>1 DEF Base, Creations, Counted, Carried
    <2>2. ASSUME NEW event \in {"funded", "completed"}, NEW tx,
                 tx = [event |-> event, job |-> j, call |-> c], txs' = txs \cup {tx}
          PROVE  <1>5
      <3>1. tx.event # "created" /\ tx.job = j
        BY <2>2
      <3>2. IsFiniteSet(txs')
        BY <2>2, FS_AddElement DEF Base, Counted
      <3>3. Creations' = Creations
        BY <2>2, <3>1 DEF Creations
      <3>4. \A t \in txs' : t.event # "created" => t.job \in Jobs
        BY <2>2, <3>1 DEF Base, Carried
      <3>5. QED
        BY <3>2, <3>3, <3>4
    <2>3. QED
      BY <1>3, <2>1, <2>2
  <1>6. Made' = Made /\ Asking' = Asking /\ ToAsk' = ToAsk /\ ToAsk \in SUBSET Calls
    BY <1>3, <1>4 DEF Made, Asking, ToAsk, Running
  <1>7. Counted'
    BY <1>5, <1>6 DEF Base, Counted
  <1>8. InOrder' /\ Carried'
    BY <1>3, <1>5 DEF Base, InOrder, Carried
  <1>9. QED
    BY <1>1, <1>7, <1>8 DEF Base

LEMMA LandCreationBase ==
  ASSUME Base, NEW t \in txs, LandCreation(t)
  PROVE  Base'
  <1> DEFINE j == 1 + Cardinality(Made)
  <1>1. /\ TypeOK' /\ j \in Jobs /\ job[j].status = "none" /\ j \notin Made
        /\ \A i \in Jobs \ {j} : job'[i] = job[i]
        /\ job'[j].status = "open" /\ Len(job'[j].log) = 1 /\ job'[j].log # << >>
        /\ job'[j].log[1] = [event |-> "requirement", reading |-> NoReading]
    BY LandCreationTypes
  <1>2. /\ t.event = "created" /\ txs' = txs \ {t} /\ hire' = hire /\ worker' = worker
        /\ buyer' = buyer \/ buyer'.phase # "starting"
    <2>1. buyer \in BuyerStates
      BY Types DEF Base
    <2>2. QED
      BY <2>1 DEF LandCreation, BuyerStates
  <1>3. PICK n \in Nat : n = Cardinality(Made)
    BY SetsAreFinite DEF Base
  <1>4. Made' = Made \cup {j} /\ Made = 1..n /\ j = n + 1
    <2>1. Made = 1..n /\ j = n + 1
      BY <1>3 DEF Base, Counted
    <2> HIDE DEF j
    <2>2. Made' = Made \cup {j}
      BY <1>1 DEF Made
    <2>3. QED
      BY <2>1, <2>2
  <1> HIDE DEF j
  <1>5. Made' = 1..(n + 1)
    BY <1>4
  <1>6. Cardinality(Made') = n + 1
    BY <1>5, FS_Interval
  <1>7. Creations' = Creations \ {t} /\ t \in Creations /\ IsFiniteSet(txs')
    BY <1>2, FS_RemoveElement DEF Creations, Base, Counted
  <1>8. Cardinality(Creations') = Cardinality(Creations) - 1
    BY <1>7, SetsAreFinite, FS_RemoveElement DEF Base
  <1>9. ToAsk' \in SUBSET ToAsk /\ Asking' = Asking
    BY <1>2 DEF ToAsk, Asking, Running
  <1>10. Cardinality(ToAsk') <= Cardinality(ToAsk) /\ Cardinality(ToAsk') \in Nat
    BY <1>9, SetsAreFinite, FS_Subset, FS_CardinalityType DEF Base
  <1>11. Counted'
    BY <1>3, <1>5, <1>6, <1>7, <1>8, <1>9, <1>10, SetsAreFinite DEF Base, Counted
  <1>12. InOrder'
    BY <1>2 DEF Base, InOrder
  <1>13. Carried'
    <2>1. \A i \in Jobs : /\ job'[i].status = "none" <=> job'[i].log = << >>
                         /\ \A k \in 1..Len(job'[i].log) :
                              job'[i].log[k].event = "message"
                                => job'[i].log[k].reading \in Readings
      <3>1. ASSUME NEW i \in Jobs, i # j
            PROVE  /\ job'[i].status = "none" <=> job'[i].log = << >>
                   /\ \A k \in 1..Len(job'[i].log) :
                        job'[i].log[k].event = "message" => job'[i].log[k].reading \in Readings
        BY <1>1, <3>1 DEF Base, Carried
      <3>2. \A k \in 1..Len(job'[j].log) : job'[j].log[k].event # "message"
        BY <1>1
      <3>3. QED
        BY <1>1, <3>1, <3>2
    <2>2. \A w \in Calls : \A u \in worker'[w].tasks :
            job'[u.job].status # "none" /\ (u.step = "message" => u.reading \in Readings)
      <3> SUFFICES ASSUME NEW w \in Calls, NEW u \in worker[w].tasks
                   PROVE  job'[u.job].status # "none" /\ (u.step = "message" => u.reading \in Readings)
        BY <1>2
      <3>1. u.job \in Jobs
        BY ProcessTypes DEF Base
      <3>2. QED
        BY <1>1, <3>1 DEF Base, Carried
    <2>3. QED
      BY <1>2, <2>1, <2>2 DEF Base, Carried
  <1>14. QED
    BY <1>1, <1>11, <1>12, <1>13 DEF Base

LEMMA LandBase ==
  ASSUME Base, NEW t \in txs, Land(t)
  PROVE  Base'
  <1>1. /\ TypeOK' /\ t.job \in Jobs /\ t.event \in {"funded", "completed"}
        /\ job[t.job].status # "none" /\ Posted(t.job, t.event, NoReading)
    BY LandTypes, TakesActive
  <1>2. buyer \in BuyerStates
    BY Types DEF Base
  <1>3. /\ hire' = hire /\ worker' = worker /\ buyer'.phase = buyer.phase
        /\ txs' \in SUBSET txs /\ Creations' = Creations
    BY <1>2 DEF Land, BuyerStates, Creations
  <1>4. t.event \in Posts /\ t.event # "message"
    BY <1>1 DEF Posts
  <1>5. QED
    BY <1>1, <1>3, <1>4, StepBase

LEMMA ExpireBase ==
  ASSUME Base, NEW j \in Jobs, Expire(j)
  PROVE  Base'
  <1>1. TypeOK' /\ Posted(j, "expired", NoReading) /\ job[j].status # "none"
    BY ExpireTypes, TakesActive DEF Expire
  <1>2. /\ hire' = hire /\ worker' = worker /\ buyer'.phase = buyer.phase
        /\ txs' \in SUBSET txs /\ Creations' = Creations
    BY DEF Expire, Creations
  <1>3. "expired" \in Posts
    BY DEF Posts
  <1>4. QED
    BY <1>1, <1>2, <1>3, StepBase

LEMMA WorkerBase ==
  ASSUME Base, NEW w \in Calls, Worker(w)
  PROVE  Base'
  <1>1. ASSUME NEW j \in Jobs, WorkerHear(w, j) PROVE Base'
    <2>1. /\ TypeOK' /\ worker[w].pos[j] + 1 \in 1..Len(job[j].log)
          /\ \A v \in Calls \ {w} : worker'[v] = worker[v]
          /\ \/ worker'[w].tasks = worker[w].tasks
             \/ worker'[w].tasks = worker[w].tasks \cup {Task(j, "budget", NoReading)}
             \/ worker'[w].tasks = worker[w].tasks \cup {Task(j, "publish", NoReading)}
      BY <1>1, WorkerHearTypes
    <2>2. /\ job' = job /\ hire' = hire /\ buyer'.phase = buyer.phase
          /\ txs' \in SUBSET txs /\ Creations' = Creations
      BY <1>1 DEF WorkerHear, Creations
    <2>3. job[j].status # "none"
      <3>1. Len(job[j].log) # 0
        BY <2>1, LogTypes DEF Base
      <3>2. job[j].log # << >>
        BY <3>1
      <3>3. QED
        BY <3>2 DEF Base, Carried
    <2>4. \A t \in worker'[w].tasks \ worker[w].tasks : t.job = j /\ t.step # "message"
      BY <2>1 DEF Task
    <2>5. \A v \in Calls : \A t \in worker'[v].tasks \ worker[v].tasks :
            job[t.job].status # "none" /\ (t.step = "message" => t.reading \in Readings)
      BY <2>1, <2>3, <2>4
    <2>6. QED
      BY <2>1, <2>2, <2>5, StepBase
  <1>2. ASSUME NEW t \in worker[w].tasks, SetBudget(w, t) PROVE Base'
    <2>1. /\ TypeOK' /\ t.job \in Jobs /\ job[t.job].status # "none"
          /\ Posted(t.job, "budget.set", NoReading)
      BY <1>2, SetBudgetTypes, TakesActive DEF SetBudget
    <2>2. /\ hire' = hire /\ buyer'.phase = buyer.phase
          /\ txs' \in SUBSET txs /\ Creations' = Creations
      BY <1>2 DEF SetBudget, Creations
    <2>3. \A v \in Calls : worker'[v].tasks \subseteq worker[v].tasks
      BY <1>2, ReplaceTypes DEF SetBudget, Base
    <2>4. "budget.set" \in Posts
      BY DEF Posts
    <2>5. QED
      BY <2>1, <2>2, <2>3, <2>4, StepBase
  <1>3. ASSUME NEW t \in worker[w].tasks, SendMessage(w, t) PROVE Base'
    <2>1. /\ TypeOK' /\ t.job \in Jobs /\ t.reading \in Readings
          /\ Posted(t.job, "message", t.reading) /\ job[t.job].status # "none"
          /\ worker'[w].tasks = (worker[w].tasks \ {t}) \cup {Task(t.job, "submit", NoReading)}
          /\ \A v \in Calls \ {w} : worker'[v] = worker[v]
      BY <1>3, SendMessageTypes DEF Base, Carried
    <2>2. /\ hire' = hire /\ buyer'.phase = buyer.phase
          /\ txs' \in SUBSET txs /\ Creations' = Creations
      BY <1>3 DEF SendMessage, Creations
    <2>3. /\ Task(t.job, "submit", NoReading).job = t.job
          /\ Task(t.job, "submit", NoReading).step # "message"
      BY DEF Task
    <2>4. \A v \in Calls : \A u \in worker'[v].tasks \ worker[v].tasks :
            job[u.job].status # "none" /\ (u.step = "message" => u.reading \in Readings)
      BY <2>1, <2>3
    <2>5. "message" \in Posts
      BY DEF Posts
    <2>6. QED
      BY <2>1, <2>2, <2>4, <2>5, StepBase
  <1>4. ASSUME NEW t \in worker[w].tasks, Submit(w, t) PROVE Base'
    <2>1. /\ TypeOK' /\ t.job \in Jobs /\ job[t.job].status # "none"
          /\ Posted(t.job, "submitted", NoReading)
      BY <1>4, SubmitTypes, TakesActive DEF Submit
    <2>2. /\ hire' = hire /\ buyer'.phase = buyer.phase
          /\ txs' \in SUBSET txs /\ Creations' = Creations
      BY <1>4 DEF Submit, Creations
    <2>3. \A v \in Calls : worker'[v].tasks \subseteq worker[v].tasks
      BY <1>4, ReplaceTypes DEF Submit, Base
    <2>4. "submitted" \in Posts
      BY DEF Posts
    <2>5. QED
      BY <2>1, <2>2, <2>3, <2>4, StepBase
  <1>5. ASSUME NEW t \in worker[w].tasks, HandlerFails(w, t) PROVE Base'
    <2>1. TypeOK' /\ \A v \in Calls : worker'[v].tasks \subseteq worker[v].tasks
      BY <1>5, HandlerFailsTypes
    <2>2. /\ job' = job /\ hire' = hire /\ buyer'.phase = buyer.phase
          /\ txs' \in SUBSET txs /\ Creations' = Creations
      BY <1>5 DEF HandlerFails, Creations
    <2>3. QED
      BY <2>1, <2>2, StepBase
  <1>6. ASSUME NEW t \in worker[w].tasks, NEW r \in Readings, PublishObservation(w, t, r)
        PROVE  Base'
    <2>1. /\ TypeOK' /\ t.job \in Jobs /\ job[t.job].status # "none"
          /\ worker'[w].tasks = (worker[w].tasks \ {t}) \cup {Task(t.job, "message", r)}
          /\ \A v \in Calls \ {w} : worker'[v] = worker[v]
      BY <1>6, PublishTypes DEF Base, Carried
    <2>2. /\ job' = job /\ hire' = hire /\ buyer'.phase = buyer.phase
          /\ txs' \in SUBSET txs /\ Creations' = Creations
      BY <1>6 DEF PublishObservation, Creations
    <2>3. Task(t.job, "message", r).job = t.job /\ Task(t.job, "message", r).reading = r
      BY DEF Task
    <2>4. \A v \in Calls : \A u \in worker'[v].tasks \ worker[v].tasks :
            job[u.job].status # "none" /\ (u.step = "message" => u.reading \in Readings)
      BY <2>1, <2>3
    <2>5. QED
      BY <2>1, <2>2, <2>4, StepBase
  <1>7. QED
    BY <1>1, <1>2, <1>3, <1>4, <1>5, <1>6 DEF Worker

LEMMA BaseInit ==
  ASSUME Init
  PROVE  Base
  <1>1. /\ \A j \in Jobs : job[j] = NotAJob
        /\ NotAJob \in JobStates /\ NotAJob.status = "none" /\ NotAJob.log = << >>
    BY KeysExist DEF Init, NotAJob, JobStates, Statuses
  <1>2. TypeOK
    <2>1. job \in [Jobs -> JobStates]
      BY <1>1 DEF Init
    <2>2. NotAJob.key \in Keys
      BY <1>1 DEF JobStates
    <2>3. hire \in [Calls -> HireStates]
      BY <2>2 DEF Init, HireStates
    <2>4. owner \in [Readings -> Jobs \cup {NoJob}] /\ txs \subseteq Transactions
      BY DEF Init
    <2>5. buyer \in BuyerStates /\ worker \in [Calls -> WorkerStates]
      BY OffIsTyped DEF Init
    <2>6. QED
      BY <2>1, <2>3, <2>4, <2>5, Types
  <1>3. \A c \in Calls : hire[c].phase = "idle"
    BY DEF Init
  <1>4. Made = {} /\ Creations = {} /\ ToAsk = {} /\ Asking = {} /\ txs = {}
    BY <1>1, <1>3 DEF Made, Creations, ToAsk, Asking, Running, Init
  <1>5. Counted
    BY <1>4, FS_EmptySet DEF Counted
  <1>6. InOrder
    BY <1>3 DEF InOrder
  <1>7. Carried
    <2>1. Len(<< >>) = 0
      OBVIOUS
    <2>2. \A w \in Calls : worker[w].tasks = {}
      BY DEF Init, NoWorker
    <2>3. QED
      BY <1>1, <1>4, <2>1, <2>2 DEF Carried
  <1>8. QED
    BY <1>2, <1>5, <1>6, <1>7 DEF Base

LEMMA BaseStutters ==
  ASSUME Base, UNCHANGED vars
  PROVE  Base'
  <1>1. job' = job /\ txs' = txs /\ owner' = owner /\ hire' = hire /\ buyer' = buyer /\ worker' = worker
    BY DEF vars
  <1>2. TypeOK'
    BY <1>1, Types, TypesNext DEF Base
  <1>3. InOrder' /\ Carried'
    BY <1>1 DEF Base, InOrder, Carried
  <1>4. Counted'
    BY <1>1 DEF Base, Counted, Made, Creations, ToAsk, Asking, Running
  <1>5. QED
    BY <1>2, <1>3, <1>4 DEF Base

LEMMA BaseNext ==
  ASSUME Base, [Next]_vars
  PROVE  Base'
  <1>1. ASSUME NEW c \in Calls, Buyer(c) PROVE Base'
    BY <1>1, BuyerStartBase, BuyerHearBase DEF Buyer
  <1>2. CASE Market
    BY <1>2, LandCreationBase, LandBase, ExpireBase DEF Market
  <1>3. QED
    BY <1>1, <1>2, BridgeBase, WorkerBase, BaseStutters DEF Next

LEMMA BaseHolds == Spec => []Base
  <1>1. QED
    BY BaseInit, BaseNext, PTL DEF Spec

(* What the variables hold, at every step of every process.                 *)
THEOREM TypeCorrect == Spec => []TypeOK
  <1>1. Base => TypeOK
    BY DEF Base
  <1>2. QED
    BY <1>1, BaseHolds, PTL

(* Each job and each creation in flight stands for a call that was made     *)
(* without a job id: neither a retry nor a resumed hire creates a job.      *)
THEOREM RetriesCreateNothing == Spec => []RetryCreatesNothing
  <1>1. ASSUME Base
        PROVE  RetryCreatesNothing
    <2>1. /\ Cardinality(Made) + Cardinality(Creations) + Cardinality(ToAsk) <= Cardinality(Asking)
          /\ Cardinality(Made) \in Nat /\ Cardinality(Creations) \in Nat
          /\ Cardinality(ToAsk) \in Nat /\ Cardinality(Asking) \in Nat
      BY <1>1, SetsAreFinite DEF Base, Counted
    <2>2. Cardinality(Made) + Cardinality(Creations) <= Cardinality(Asking)
      BY <2>1
    <2>3. QED
      BY <2>2 DEF RetryCreatesNothing, Made, Creations, Asking
  <1>2. QED
    BY <1>1, BaseHolds, PTL

-----------------------------------------------------------------------------
HasMessage(j) == \E i \in 1..Len(job[j].log) : job[j].log[i].event = "message"

(* Messages carry readings of their own job, and a job is completed only    *)
(* after a message.                                                         *)
LogsInOrder ==
  \A j \in Jobs :
    /\ \A i \in 1..Len(job[j].log) :
         /\ job[j].log[i].event = "message" => owner[job[j].log[i].reading] = j
         /\ job[j].log[i].event = "completed"
              => \E k \in 1..(i - 1) : job[j].log[k].event = "message"
    /\ job[j].status = "submitted" => HasMessage(j)

(* A task is at a step its job has come to.                                 *)
Due(t) == /\ t.step = "publish" => WasFunded(t.job)
          /\ t.step = "message" => owner[t.reading] = t.job
          /\ t.step = "submit" => HasMessage(t.job)

Delivered ==
  /\ LogsInOrder
  /\ \A w \in Calls : \A t \in worker[w].tasks : worker[w].phase # "off" /\ Due(t)
  /\ \A r \in buyer.heard : owner[r] # NoJob

(* Entries stay where they are, and so does the job of a reading.           *)
Grown == \A i \in Jobs : \A k \in 1..Len(job[i].log) :
           k \in 1..Len(job'[i].log) /\ job'[i].log[k] = job[i].log[k]
OwnersStay == \A r \in Readings : owner[r] # NoJob => owner'[r] = owner[r]

LEMMA PostedGrows ==
  ASSUME TypeOK, NEW j \in Jobs, NEW event, NEW r, Posted(j, event, r)
  PROVE  Grown
  <1>1. ASSUME NEW i \in Jobs, i # j
        PROVE  job'[i] = job[i]
    BY <1>1 DEF Posted
  <1>2. \A k \in 1..Len(job[j].log) : k \in 1..Len(job'[j].log) /\ job'[j].log[k] = job[j].log[k]
    BY LogTypes DEF Posted
  <1>3. QED
    BY <1>1, <1>2 DEF Grown

LEMMA CreationGrows ==
  ASSUME Base, NEW t \in txs, LandCreation(t)
  PROVE  Grown
  <1> DEFINE j == 1 + Cardinality(Made)
  <1>1. j \in Jobs /\ job[j].log = << >> /\ \A i \in Jobs \ {j} : job'[i] = job[i]
    BY LandCreationTypes, NextJobIsFree DEF LandCreation
  <1>2. Len(<< >>) = 0
    OBVIOUS
  <1>3. \A k \in 1..Len(job[j].log) : FALSE
    BY <1>1, <1>2
  <1> HIDE DEF j
  <1>4. QED
    BY <1>1, <1>3 DEF Grown

(* What has happened to a job has happened.                                 *)
LEMMA PastOfJobs ==
  ASSUME TypeOK, TypeOK', Grown, NEW j \in Jobs
  PROVE  /\ WasFunded(j) => WasFunded(j)'
         /\ HasMessage(j) => HasMessage(j)'
  <1>1. job[j].log \in Seq(Entries) /\ job'[j].log \in Seq(Entries)
    BY Types, TypesNext DEF JobStates
  <1>2. DOMAIN job[j].log = 1..Len(job[j].log) /\ DOMAIN job'[j].log = 1..Len(job'[j].log)
    BY <1>1
  <1>3. QED
    BY <1>2 DEF Grown, WasFunded, HasMessage

LEMMA LogsStay ==
  ASSUME Base, LogsInOrder, job' = job, OwnersStay
  PROVE  LogsInOrder'
  <1>1. ASSUME NEW j \in Jobs, NEW i \in 1..Len(job[j].log), job[j].log[i].event = "message"
        PROVE  owner'[job[j].log[i].reading] = j
    <2>1. job[j].log[i].reading \in Readings /\ owner[job[j].log[i].reading] = j /\ j # NoJob
      BY <1>1, Numbers DEF Base, Carried, LogsInOrder, NoJob
    <2>2. QED
      BY <2>1 DEF OwnersStay
  <1>2. QED
    BY <1>1 DEF LogsInOrder, HasMessage

LEMMA LogsPosted ==
  ASSUME Base, LogsInOrder, TypeOK', owner' = owner, NEW j \in Jobs, NEW event \in Posts,
         NEW r \in Readings \cup {NoReading}, Posted(j, event, r),
         event = "message" => owner[r] = j,
         event = "completed" => job[j].status = "submitted",
         event = "submitted" => HasMessage(j)
  PROVE  LogsInOrder'
  <1> DEFINE n == Len(job[j].log)
  <1>1. Grown /\ n \in Nat
    BY PostedGrows, LogTypes DEF Base
  <1>2. ASSUME NEW i \in Jobs, i # j
        PROVE  /\ \A k \in 1..Len(job'[i].log) :
                    /\ job'[i].log[k].event = "message" => owner'[job'[i].log[k].reading] = i
                    /\ job'[i].log[k].event = "completed"
                         => \E l \in 1..(k - 1) : job'[i].log[l].event = "message"
               /\ job'[i].status = "submitted" => HasMessage(i)'
    <2>1. job'[i] = job[i]
      BY <1>2 DEF Posted
    <2>2. QED
      BY <2>1 DEF LogsInOrder, HasMessage
  <1>3. ASSUME NEW k \in 1..Len(job'[j].log)
        PROVE  /\ job'[j].log[k].event = "message" => owner'[job'[j].log[k].reading] = j
               /\ job'[j].log[k].event = "completed"
                    => \E l \in 1..(k - 1) : job'[j].log[l].event = "message"
    <2>1. CASE k = n + 1
      <3>1. job'[j].log[k] = [event |-> event, reading |-> r]
        BY <2>1 DEF Posted
      <3>2. ASSUME event = "completed"
            PROVE  \E l \in 1..(k - 1) : job'[j].log[l].event = "message"
        <4>1. PICK l \in 1..n : job[j].log[l].event = "message"
          BY <3>2 DEF LogsInOrder, HasMessage
        <4>2. job'[j].log[l] = job[j].log[l] /\ l \in 1..(k - 1)
          BY <1>1, <2>1, <4>1 DEF Grown
        <4>3. QED
          BY <4>1, <4>2
      <3>3. QED
        BY <3>1, <3>2
    <2>2. CASE k # n + 1
      <3>1. k \in 1..n
        BY <1>1, <2>2 DEF Posted
      <3>2. job'[j].log[k] = job[j].log[k]
        BY <1>1, <3>1 DEF Grown
      <3>3. ASSUME job'[j].log[k].event = "completed"
            PROVE  \E l \in 1..(k - 1) : job'[j].log[l].event = "message"
        <4>1. PICK l \in 1..(k - 1) : job[j].log[l].event = "message"
          BY <3>1, <3>2, <3>3 DEF LogsInOrder
        <4>2. l \in 1..n
          BY <1>1, <3>1
        <4>3. job'[j].log[l] = job[j].log[l]
          BY <1>1, <4>2 DEF Grown
        <4>4. QED
          BY <4>1, <4>3
      <3>4. QED
        BY <3>1, <3>2, <3>3 DEF LogsInOrder
    <2>3. QED
      BY <2>1, <2>2
  <1>4. ASSUME job'[j].status = "submitted"
        PROVE  HasMessage(j)'
    <2>1. event \in {"submitted", "message"}
      BY <1>4 DEF Posted
    <2>2. CASE event = "submitted"
      BY <1>1, <2>2, PastOfJobs DEF Base
    <2>3. CASE event = "message"
      <3>1. job'[j].log[n + 1].event = "message" /\ n + 1 \in 1..Len(job'[j].log)
        BY <1>1, <2>3 DEF Posted
      <3>2. QED
        BY <3>1 DEF HasMessage
    <2>4. QED
      BY <2>1, <2>2, <2>3
  <1>5. QED
    BY <1>2, <1>3, <1>4 DEF LogsInOrder

LEMMA LogsCreated ==
  ASSUME Base, LogsInOrder, NEW t \in txs, LandCreation(t)
  PROVE  LogsInOrder'
  <1> DEFINE j == 1 + Cardinality(Made)
  <1>1. /\ TypeOK' /\ j \in Jobs
        /\ \A i \in Jobs \ {j} : job'[i] = job[i]
        /\ job'[j].status = "open" /\ Len(job'[j].log) = 1
        /\ job'[j].log[1] = [event |-> "requirement", reading |-> NoReading]
        /\ owner' = owner
    BY LandCreationTypes DEF LandCreation
  <1> HIDE DEF j
  <1>2. ASSUME NEW i \in Jobs, i # j
        PROVE  /\ \A k \in 1..Len(job'[i].log) :
                    /\ job'[i].log[k].event = "message" => owner'[job'[i].log[k].reading] = i
                    /\ job'[i].log[k].event = "completed"
                         => \E l \in 1..(k - 1) : job'[i].log[l].event = "message"
               /\ job'[i].status = "submitted" => HasMessage(i)'
    <2>1. job'[i] = job[i]
      BY <1>1, <1>2
    <2>2. QED
      BY <1>1, <2>1 DEF LogsInOrder, HasMessage
  <1>3. \A k \in 1..Len(job'[j].log) : job'[j].log[k].event = "requirement"
    BY <1>1
  <1>4. QED
    BY <1>1, <1>2, <1>3 DEF LogsInOrder

LEMMA DeliveredStep ==
  ASSUME Base, TypeOK', Delivered, Grown, OwnersStay, LogsInOrder',
         \A w \in Calls : \A t \in worker'[w].tasks :
           worker'[w].phase # "off" /\ (t \in worker[w].tasks \/ Due(t)'),
         \A r \in buyer'.heard : r \in buyer.heard \/ owner'[r] # NoJob
  PROVE  Delivered'
  <1>1. ASSUME NEW w \in Calls, NEW t \in worker[w].tasks
        PROVE  Due(t)'
    <2>1. t.job \in Jobs /\ Due(t)
      BY ProcessTypes DEF Base, Delivered
    <2>2. t.step = "message" => t.reading \in Readings /\ owner[t.reading] # NoJob
      BY <2>1, Numbers DEF Base, Carried, Due, NoJob
    <2>3. /\ WasFunded(t.job) => WasFunded(t.job)'
          /\ HasMessage(t.job) => HasMessage(t.job)'
      BY <2>1, PastOfJobs DEF Base
    <2>4. QED
      BY <2>1, <2>2, <2>3 DEF Due, OwnersStay
  <1>2. ASSUME NEW r \in buyer.heard
        PROVE  owner'[r] # NoJob
    BY ProcessTypes DEF Base, Delivered, OwnersStay
  <1>3. QED
    BY <1>1, <1>2 DEF Delivered

LEMMA DeliveredInit ==
  ASSUME Init
  PROVE  Delivered
  <1>1. Len(<< >>) = 0 /\ NotAJob.log = << >> /\ NotAJob.status = "none"
    BY DEF NotAJob
  <1>2. LogsInOrder
    BY <1>1 DEF Init, LogsInOrder
  <1>3. /\ \A w \in Calls : worker[w].tasks = {}
        /\ buyer.heard = {}
    BY DEF Init, NoWorker, Off
  <1>4. QED
    BY <1>2, <1>3 DEF Delivered

(* The bridge clears what its processes hold, or leaves it.                 *)
LEMMA BridgeClears ==
  ASSUME Base, NEW c \in Calls, Bridge(c)
  PROVE  /\ job' = job /\ txs' = txs /\ owner' = owner
         /\ buyer' = buyer \/ buyer' = Off \/ buyer' = [Off EXCEPT !.phase = "starting"]
         /\ \A w \in Calls \ {c} : worker'[w] = worker[w]
         /\ \/ worker'[c] = worker[c]
            \/ worker'[c].tasks = {}
            \/ worker'[c].phase # "off" /\ worker'[c].tasks = worker[c].tasks
  <1>t. worker \in [Calls -> WorkerStates]
    BY Types DEF Base
  <1>n. NoWorker.tasks = {}
    BY DEF NoWorker
  <1>1. ASSUME NEW accepted \in BOOLEAN, Refuse(c, accepted)
        PROVE  /\ job' = job /\ txs' = txs /\ owner' = owner
               /\ buyer' = buyer /\ worker' = worker
    BY <1>1 DEF Refuse
  <1>2. ASSUME NEW k \in Asks[c], NEW r \in Jobs \cup {NoJob}, NEW s \in BOOLEAN, Begin(c, k, r, s)
        PROVE  /\ job' = job /\ txs' = txs /\ owner' = owner
               /\ buyer' = Off \/ buyer' = [Off EXCEPT !.phase = "starting"]
               /\ worker' = worker \/ worker' = [worker EXCEPT ![c].phase = "starting"]
    BY <1>2 DEF Begin
  <1>3. ASSUME NEW replay \in BOOLEAN, WorkerReady(c, replay)
        PROVE  /\ job' = job /\ txs' = txs /\ owner' = owner
               /\ buyer' = [Off EXCEPT !.phase = "starting"]
               /\ \A w \in Calls \ {c} : worker'[w] = worker[w]
               /\ worker'[c].phase = "up" /\ worker'[c].tasks = worker[c].tasks
    BY <1>3, <1>t DEF WorkerReady, WorkerStates
  <1>4. ASSUME NEW runsOn \in BOOLEAN, NEW replay \in BOOLEAN, WorkerUnready(c, runsOn, replay)
        PROVE  /\ job' = job /\ txs' = txs /\ owner' = owner /\ buyer' = buyer
               /\ \A w \in Calls \ {c} : worker'[w] = worker[w]
               /\ worker'[c].tasks = {}
    <2> DEFINE left == [NoWorker EXCEPT !.phase = "up", !.pos = Hydrated(replay)]
    <2>1. worker' = [worker EXCEPT ![c] = left] \/ worker' = [worker EXCEPT ![c] = NoWorker]
      BY <1>4 DEF WorkerUnready
    <2>2. left.tasks = {}
      BY DEF NoWorker
    <2> HIDE DEF left
    <2>3. QED
      BY <1>4, <2>1, <2>2, <1>n, <1>t DEF WorkerUnready
  <1>5. ASSUME NEW exited \in BOOLEAN, Finish(c, exited)
        PROVE  job' = job /\ txs' = txs /\ owner' = owner /\ buyer' = Off /\ worker' = Stopped(c)
    BY <1>5 DEF Finish
  <1>6. GiveUp(c) => job' = job /\ txs' = txs /\ owner' = owner /\ buyer' = Off /\ worker' = Stopped(c)
    BY DEF GiveUp
  <1>7. worker' = Stopped(c) => /\ \A w \in Calls \ {c} : worker'[w] = worker[w]
                               /\ worker'[c].tasks = {}
    BY <1>t, <1>n DEF Stopped
  <1>8. worker' = [worker EXCEPT ![c].phase = "starting"]
          => /\ \A w \in Calls \ {c} : worker'[w] = worker[w]
             /\ worker'[c].phase # "off" /\ worker'[c].tasks = worker[c].tasks
    BY <1>t DEF WorkerStates
  <1>9. QED
    BY <1>1, <1>2, <1>3, <1>4, <1>5, <1>6, <1>7, <1>8 DEF Bridge

LEMMA DeliveredBridge ==
  ASSUME Base, Delivered, NEW c \in Calls, Bridge(c)
  PROVE  Delivered'
  <1>1. TypeOK' /\ Grown /\ OwnersStay /\ LogsInOrder'
    BY BridgeTypes, BridgeClears DEF Grown, OwnersStay, Delivered, LogsInOrder, HasMessage
  <1>2. \A w \in Calls : \A t \in worker'[w].tasks :
          worker'[w].phase # "off" /\ t \in worker[w].tasks
    BY BridgeClears DEF Delivered
  <1>3. \A r \in buyer'.heard : r \in buyer.heard
    BY BridgeClears DEF Off
  <1>4. QED
    BY <1>1, <1>2, <1>3, DeliveredStep

(* What the buyer does with the entry it hears.                             *)
LEMMA BuyerHears ==
  ASSUME Base, NEW c \in Calls, NEW j \in Jobs, BuyerHear(c, j)
  PROVE  LET p == buyer.pos[j] + 1
             entry == job[j].log[p]
         IN
         /\ job' = job /\ owner' = owner /\ hire' = hire /\ worker' = worker
         /\ Creations' = Creations
         /\ Running(c) /\ buyer.phase \in {"creating", "waiting"} /\ buyer.settled = NoJob
         /\ p \in 1..Len(job[j].log)
         /\ buyer'.phase = buyer.phase /\ buyer'.job = buyer.job
         /\ buyer'.pos = [buyer.pos EXCEPT ![j] = p]
         /\ \/ /\ entry.event = "message" /\ entry.reading \in Readings
               /\ buyer'.heard = buyer.heard \cup {entry.reading} /\ buyer'.settled = NoJob
            \/ /\ entry.event = "completed"
               /\ buyer'.heard = buyer.heard /\ buyer'.settled = j
            \/ /\ entry.event \notin {"message", "completed"}
               /\ buyer'.heard = buyer.heard /\ buyer'.settled = NoJob
  <1> DEFINE p == buyer.pos[j] + 1
             entry == job[j].log[p]
             tx(event) == [event |-> event, job |-> j, call |-> c]
             read == [buyer EXCEPT !.pos[j] = @ + 1]
  <1>1. /\ \/ entry.event = "message" /\ buyer' = [read EXCEPT !.heard = @ \cup {entry.reading}] /\ txs' = txs
           \/ /\ entry.event \notin {"message", "completed"}
              /\ \E event \in {"funded", "completed"} :
                   buyer' = [read EXCEPT !.awaits = tx(event)] /\ txs' = txs \cup {tx(event)}
           \/ entry.event = "completed" /\ buyer' = [read EXCEPT !.settled = j] /\ txs' = txs
           \/ entry.event \notin {"message", "completed"} /\ buyer' = read /\ txs' = txs
        /\ buyer.pos[j] < Len(job[j].log) /\ buyer.settled = NoJob
        /\ Running(c) /\ buyer.phase \in {"creating", "waiting"}
        /\ job' = job /\ owner' = owner /\ hire' = hire /\ worker' = worker
    BY DEF BuyerHear, Send
  <1>2. /\ buyer.pos[j] \in Nat /\ p \in 1..Len(job[j].log) /\ buyer.pos \in [Jobs -> Nat]
        /\ buyer \in BuyerStates
    BY <1>1, ProcessTypes, LogTypes DEF Base
  <1>3. entry.event = "message" => entry.reading \in Readings
    BY <1>2 DEF Base, Carried
  <1>4. Creations' = Creations
    <2>1. CASE txs' = txs
      BY <2>1 DEF Creations
    <2>2. ASSUME NEW event \in {"funded", "completed"}, txs' = txs \cup {tx(event)}
          PROVE  Creations' = Creations
      BY <2>2 DEF Creations
    <2>3. QED
      BY <1>1, <2>1, <2>2
  <1>5. /\ read \in BuyerStates /\ read.pos = [buyer.pos EXCEPT ![j] = p]
        /\ read.phase = buyer.phase /\ read.job = buyer.job /\ read.heard = buyer.heard
        /\ read.settled = buyer.settled
    <2>a. [buyer.pos EXCEPT ![j] = p] \in [Jobs -> Nat]
      BY <1>2
    <2>1. PICK pos \in [Jobs -> Nat] : pos = [buyer.pos EXCEPT ![j] = p]
      BY <2>a
    <2>2. read = [buyer EXCEPT !.pos = pos]
      BY <2>1
    <2>3. QED
      BY <1>2, <2>1, <2>2 DEF BuyerStates
  <1> HIDE DEF read, entry, tx
  <1>6. /\ buyer'.phase = buyer.phase /\ buyer'.job = buyer.job
        /\ buyer'.pos = [buyer.pos EXCEPT ![j] = p]
        /\ \/ /\ entry.event = "message"
              /\ buyer'.heard = buyer.heard \cup {entry.reading} /\ buyer'.settled = NoJob
           \/ /\ entry.event = "completed"
              /\ buyer'.heard = buyer.heard /\ buyer'.settled = j
           \/ /\ entry.event \notin {"message", "completed"}
              /\ buyer'.heard = buyer.heard /\ buyer'.settled = NoJob
    <2>1. ASSUME NEW tx0, buyer' = [read EXCEPT !.awaits = tx0]
          PROVE  /\ buyer'.phase = read.phase /\ buyer'.job = read.job /\ buyer'.pos = read.pos
                 /\ buyer'.heard = read.heard /\ buyer'.settled = read.settled
      BY <1>5, <2>1 DEF BuyerStates
    <2>2. ASSUME buyer' = [read EXCEPT !.settled = j]
          PROVE  /\ buyer'.phase = read.phase /\ buyer'.job = read.job /\ buyer'.pos = read.pos
                 /\ buyer'.heard = read.heard /\ buyer'.settled = j
      BY <1>5, <2>2 DEF BuyerStates
    <2>3. ASSUME NEW e, buyer' = [read EXCEPT !.heard = @ \cup {e}]
          PROVE  /\ buyer'.phase = read.phase /\ buyer'.job = read.job /\ buyer'.pos = read.pos
                 /\ buyer'.heard = read.heard \cup {e} /\ buyer'.settled = read.settled
      BY <1>5, <2>3 DEF BuyerStates
    <2>4. QED
      BY <1>1, <1>5, <2>1, <2>2, <2>3
  <1>7. QED
    BY <1>1, <1>2, <1>3, <1>4, <1>6 DEF entry

LEMMA DeliveredBuyer ==
  ASSUME Base, Delivered, NEW c \in Calls, Buyer(c)
  PROVE  Delivered'
  <1>1. TypeOK' /\ buyer \in BuyerStates
    BY BuyerTypes, Types DEF Base
  <1>2. job' = job /\ owner' = owner /\ worker' = worker
    BY DEF Buyer, BuyerStart, BuyerHear
  <1>3. Grown /\ OwnersStay /\ LogsInOrder'
    BY <1>2 DEF Grown, OwnersStay, Delivered, LogsInOrder, HasMessage
  <1>4. \A r \in buyer'.heard : r \in buyer.heard \/ owner'[r] # NoJob
    <2>1. ASSUME NEW replay \in BOOLEAN, BuyerStart(c, replay)
          PROVE  buyer'.heard = buyer.heard
      BY <2>1, <1>1 DEF BuyerStart, BuyerStates
    <2>2. ASSUME NEW j \in Jobs, BuyerHear(c, j), NEW r \in buyer'.heard, r \notin buyer.heard
          PROVE  owner'[r] # NoJob
      <3> DEFINE p == buyer.pos[j] + 1
      <3>1. /\ p \in 1..Len(job[j].log)
            /\ \/ /\ job[j].log[p].event = "message"
                  /\ buyer'.heard = buyer.heard \cup {job[j].log[p].reading}
               \/ buyer'.heard = buyer.heard
        BY <2>2, BuyerHears
      <3>2. job[j].log[p].event = "message" /\ r = job[j].log[p].reading
        BY <2>2, <3>1
      <3>3. QED
        BY <3>1, <3>2, <1>2, Numbers DEF Delivered, LogsInOrder, NoJob
    <2>3. QED
      BY <2>1, <2>2 DEF Buyer
  <1>5. \A w \in Calls : \A t \in worker'[w].tasks :
          worker'[w].phase # "off" /\ t \in worker[w].tasks
    BY <1>2 DEF Delivered
  <1>6. QED
    BY <1>1, <1>3, <1>4, <1>5, DeliveredStep

LEMMA DeliveredMarket ==
  ASSUME Base, Delivered, Market
  PROVE  Delivered'
  <1>t. buyer \in BuyerStates
    BY Types DEF Base
  <1>1. ASSUME TypeOK', Grown, LogsInOrder', owner' = owner, worker' = worker,
               buyer'.heard = buyer.heard
        PROVE  Delivered'
    <2>1. OwnersStay /\ \A w \in Calls : \A t \in worker'[w].tasks :
                          worker'[w].phase # "off" /\ t \in worker[w].tasks
      BY <1>1 DEF OwnersStay, Delivered
    <2>2. QED
      BY <1>1, <2>1, DeliveredStep
  <1>2. ASSUME NEW t \in txs, LandCreation(t) PROVE Delivered'
    <2>1. owner' = owner /\ worker' = worker /\ buyer'.heard = buyer.heard
      BY <1>2, <1>t DEF LandCreation, BuyerStates
    <2>2. QED
      BY <1>1, <1>2, <2>1, LandCreationTypes, CreationGrows, LogsCreated DEF Delivered
  <1>3. ASSUME NEW t \in txs, Land(t) PROVE Delivered'
    <2>1. owner' = owner /\ worker' = worker /\ buyer'.heard = buyer.heard
      BY <1>3, <1>t DEF Land, BuyerStates
    <2>2. /\ TypeOK' /\ t.job \in Jobs /\ t.event \in {"funded", "completed"}
          /\ job[t.job].status \in Takes(t.event) /\ Posted(t.job, t.event, NoReading)
      BY <1>3, LandTypes
    <2>3. t.event = "completed" => job[t.job].status = "submitted"
      BY <2>2 DEF Takes
    <2>4. t.event \in Posts /\ t.event \notin {"message", "submitted"}
      BY <2>2 DEF Posts
    <2>5. LogsInOrder'
      BY <2>1, <2>2, <2>3, <2>4, LogsPosted DEF Delivered
    <2>6. QED
      BY <1>1, <2>1, <2>2, <2>5, PostedGrows DEF Base
  <1>4. ASSUME NEW j \in Jobs, Expire(j) PROVE Delivered'
    <2>1. TypeOK' /\ Posted(j, "expired", NoReading) /\ "expired" \in Posts
      BY <1>4, ExpireTypes DEF Posts
    <2>2. owner' = owner /\ worker' = worker /\ buyer'.heard = buyer.heard
      BY <1>4 DEF Expire
    <2>3. LogsInOrder'
      BY <2>1, <2>2, LogsPosted DEF Delivered
    <2>4. QED
      BY <1>1, <2>1, <2>2, <2>3, PostedGrows DEF Base
  <1>5. QED
    BY <1>2, <1>3, <1>4 DEF Market

LEMMA DeliveredWorker ==
  ASSUME Base, Delivered, NEW w \in Calls, Worker(w)
  PROVE  Delivered'
  <1>p. ASSUME TypeOK', Grown, OwnersStay, LogsInOrder', buyer' = buyer,
               \A v \in Calls \ {w} : worker'[v] = worker[v],
               worker'[w].phase # "off",
               \A t \in worker'[w].tasks : t \in worker[w].tasks \/ Due(t)'
        PROVE  Delivered'
    <2>1. \A v \in Calls : \A t \in worker'[v].tasks :
            worker'[v].phase # "off" /\ (t \in worker[v].tasks \/ Due(t)')
      BY <1>p DEF Delivered
    <2>2. QED
      BY <1>p, <2>1, DeliveredStep
  <1>1. ASSUME NEW j \in Jobs, WorkerHear(w, j) PROVE Delivered'
    <2> DEFINE p == worker[w].pos[j] + 1
    <2>1. /\ TypeOK' /\ p \in 1..Len(job[j].log)
          /\ \A v \in Calls \ {w} : worker'[v] = worker[v]
          /\ worker'[w].phase # "off"
          /\ \/ worker'[w].tasks = worker[w].tasks
             \/ worker'[w].tasks = worker[w].tasks \cup {Task(j, "budget", NoReading)}
             \/ /\ job[j].log[p].event = "funded"
                /\ worker'[w].tasks = worker[w].tasks \cup {Task(j, "publish", NoReading)}
      BY <1>1, WorkerHearTypes
    <2>2. job' = job /\ owner' = owner /\ buyer' = buyer
      BY <1>1 DEF WorkerHear
    <2>3. Grown /\ OwnersStay /\ LogsInOrder'
      BY <2>2 DEF Grown, OwnersStay, Delivered, LogsInOrder, HasMessage
    <2>4. Due(Task(j, "budget", NoReading))'
      BY DEF Due, Task
    <2>5. job[j].log[p].event = "funded" => Due(Task(j, "publish", NoReading))'
      <3>1. job[j].log \in Seq(Entries)
        BY LogTypes DEF Base
      <3>2. p \in DOMAIN job[j].log
        BY <2>1, <3>1
      <3>3. job[j].log[p].event = "funded" => WasFunded(j)'
        BY <2>2, <3>2 DEF WasFunded
      <3>4. QED
        BY <3>3 DEF Due, Task
    <2>6. QED
      BY <1>p, <2>1, <2>2, <2>3, <2>4, <2>5
  <1>2. ASSUME NEW t \in worker[w].tasks, SetBudget(w, t) PROVE Delivered'
    <2>1. TypeOK' /\ t.job \in Jobs /\ Posted(t.job, "budget.set", NoReading)
      BY <1>2, SetBudgetTypes
    <2>2. owner' = owner /\ buyer' = buyer /\ worker[w].phase # "off"
      BY <1>2 DEF SetBudget, Serving
    <2>3. /\ worker'[w].phase = worker[w].phase
          /\ worker'[w].tasks \subseteq worker[w].tasks
          /\ \A v \in Calls \ {w} : worker'[v] = worker[v]
      BY <1>2, ReplaceTypes DEF SetBudget, Base
    <2>4. "budget.set" \in Posts
      BY DEF Posts
    <2>5. LogsInOrder' /\ Grown /\ OwnersStay
      BY <2>1, <2>2, <2>4, LogsPosted, PostedGrows DEF Delivered, OwnersStay, Base
    <2>6. QED
      BY <1>p, <2>1, <2>2, <2>3, <2>5
  <1>3. ASSUME NEW t \in worker[w].tasks, SendMessage(w, t) PROVE Delivered'
    <2>1. /\ TypeOK' /\ t.job \in Jobs /\ t.reading \in Readings
          /\ Posted(t.job, "message", t.reading)
          /\ worker'[w].tasks = (worker[w].tasks \ {t}) \cup {Task(t.job, "submit", NoReading)}
          /\ \A v \in Calls \ {w} : worker'[v] = worker[v]
          /\ worker'[w].phase = worker[w].phase
      BY <1>3, SendMessageTypes
    <2>2. /\ owner' = owner /\ buyer' = buyer /\ worker[w].phase # "off"
          /\ owner[t.reading] = t.job
      BY <1>3 DEF SendMessage, Serving, Delivered, Due
    <2>3. "message" \in Posts
      BY DEF Posts
    <2>4. LogsInOrder' /\ Grown /\ OwnersStay
      BY <2>1, <2>2, <2>3, LogsPosted, PostedGrows DEF Delivered, OwnersStay, Base
    <2>5. Due(Task(t.job, "submit", NoReading))'
      <3>1. PICK n \in Nat : n = Len(job[t.job].log)
        BY <2>1, LogTypes DEF Base
      <3>2. /\ job'[t.job].log[n + 1] = [event |-> "message", reading |-> t.reading]
            /\ Len(job'[t.job].log) = n + 1
        BY <2>1, <3>1 DEF Posted
      <3>3. job'[t.job].log[n + 1].event = "message" /\ n + 1 \in 1..Len(job'[t.job].log)
        BY <3>2
      <3>4. HasMessage(t.job)'
        BY <3>3 DEF HasMessage
      <3>5. QED
        BY <3>4 DEF Due, Task
    <2>6. QED
      BY <1>p, <2>1, <2>2, <2>4, <2>5
  <1>4. ASSUME NEW t \in worker[w].tasks, Submit(w, t) PROVE Delivered'
    <2>1. TypeOK' /\ t.job \in Jobs /\ Posted(t.job, "submitted", NoReading)
      BY <1>4, SubmitTypes
    <2>2. /\ owner' = owner /\ buyer' = buyer /\ worker[w].phase # "off"
          /\ HasMessage(t.job)
      BY <1>4 DEF Submit, Serving, Delivered, Due
    <2>3. /\ worker'[w].phase = worker[w].phase
          /\ worker'[w].tasks \subseteq worker[w].tasks
          /\ \A v \in Calls \ {w} : worker'[v] = worker[v]
      BY <1>4, ReplaceTypes DEF Submit, Base
    <2>4. "submitted" \in Posts
      BY DEF Posts
    <2>5. LogsInOrder' /\ Grown /\ OwnersStay
      BY <2>1, <2>2, <2>4, LogsPosted, PostedGrows DEF Delivered, OwnersStay, Base
    <2>6. QED
      BY <1>p, <2>1, <2>2, <2>3, <2>5
  <1>5. ASSUME NEW t \in worker[w].tasks, HandlerFails(w, t) PROVE Delivered'
    <2>1. /\ TypeOK' /\ worker'[w].tasks \subseteq worker[w].tasks
          /\ \A v \in Calls \ {w} : worker'[v] = worker[v]
          /\ worker'[w].phase # "off"
      BY <1>5, HandlerFailsTypes
    <2>2. job' = job /\ owner' = owner /\ buyer' = buyer
      BY <1>5 DEF HandlerFails
    <2>3. Grown /\ OwnersStay /\ LogsInOrder'
      BY <2>2 DEF Grown, OwnersStay, Delivered, LogsInOrder, HasMessage
    <2>4. QED
      BY <1>p, <2>1, <2>2, <2>3
  <1>6. ASSUME NEW t \in worker[w].tasks, NEW r \in Readings, PublishObservation(w, t, r)
        PROVE  Delivered'
    <2>1. /\ TypeOK' /\ t.job \in Jobs /\ owner[r] = NoJob
          /\ owner' = [owner EXCEPT ![r] = t.job]
          /\ worker'[w].tasks = (worker[w].tasks \ {t}) \cup {Task(t.job, "message", r)}
          /\ \A v \in Calls \ {w} : worker'[v] = worker[v]
          /\ worker'[w].phase = worker[w].phase
      BY <1>6, PublishTypes
    <2>2. job' = job /\ buyer' = buyer /\ worker[w].phase # "off"
      BY <1>6 DEF PublishObservation, Serving
    <2>3. owner \in [Readings -> Jobs \cup {NoJob}]
      BY Types DEF Base
    <2>4. OwnersStay /\ owner'[r] = t.job
      BY <2>1, <2>3 DEF OwnersStay
    <2>5. Grown /\ LogsInOrder'
      BY <2>2, <2>4, LogsStay DEF Grown, Delivered
    <2>6. Due(Task(t.job, "message", r))'
      BY <2>4 DEF Due, Task
    <2>7. QED
      BY <1>p, <2>1, <2>2, <2>4, <2>5, <2>6
  <1>7. QED
    BY <1>1, <1>2, <1>3, <1>4, <1>5, <1>6 DEF Worker

LEMMA DeliveredNext ==
  ASSUME Base, Delivered, [Next]_vars
  PROVE  Delivered'
  <1>1. CASE UNCHANGED vars
    BY <1>1 DEF vars, Delivered, LogsInOrder, HasMessage, Due, WasFunded
  <1>2. QED
    BY <1>1, DeliveredBridge, DeliveredBuyer, DeliveredMarket, DeliveredWorker DEF Next

LEMMA DeliveredHolds == Spec => []Delivered
  <1>1. QED
    BY DeliveredInit, DeliveredNext, BaseHolds, PTL DEF Spec

-----------------------------------------------------------------------------
(* What Hiring sees of the processes. *)
Paid == {j \in Jobs : WasFunded(j)}
Published == {[job |-> owner[r], reading |-> r] : r \in Readings \ Unread}
State == [c \in Calls |-> Outcome(hire[c].phase)]
Answers == [c \in Calls |-> hire[c].reading]

LEMMA PaidByPost ==
  ASSUME TypeOK, TypeOK', NEW j \in Jobs, NEW event, NEW r, Posted(j, event, r)
  PROVE  Paid' = IF event = "funded" THEN Paid \cup {j} ELSE Paid
  <1>1. /\ DOMAIN job[j].log = 1..Len(job[j].log) /\ DOMAIN job'[j].log = 1..Len(job'[j].log)
        /\ Len(job[j].log) \in Nat
    BY Types, TypesNext DEF JobStates
  <1>2. \A i \in Jobs \ {j} : WasFunded(i)' <=> WasFunded(i)
    BY DEF Posted, WasFunded
  <1>3. WasFunded(j)' <=> WasFunded(j) \/ event = "funded"
    <2>1. ASSUME WasFunded(j)
          PROVE  WasFunded(j)'
      BY <2>1, PastOfJobs, PostedGrows
    <2>2. ASSUME event = "funded"
          PROVE  WasFunded(j)'
      <3>1. /\ Len(job[j].log) + 1 \in DOMAIN job'[j].log
            /\ job'[j].log[Len(job[j].log) + 1].event = "funded"
        BY <1>1, <2>2 DEF Posted
      <3>2. QED
        BY <3>1 DEF WasFunded
    <2>3. ASSUME WasFunded(j)'
          PROVE  WasFunded(j) \/ event = "funded"
      <3>1. PICK k \in 1..Len(job'[j].log) : job'[j].log[k].event = "funded"
        BY <1>1, <2>3 DEF WasFunded
      <3>2. CASE k = Len(job[j].log) + 1
        BY <3>1, <3>2 DEF Posted
      <3>3. CASE k # Len(job[j].log) + 1
        <4>1. k \in 1..Len(job[j].log)
          BY <1>1, <3>3 DEF Posted
        <4>2. job[j].log[k].event = "funded" /\ k \in DOMAIN job[j].log
          BY <1>1, <3>1, <4>1 DEF Posted
        <4>3. QED
          BY <4>2 DEF WasFunded
      <3>4. QED
        BY <3>2, <3>3
    <2>4. QED
      BY <2>1, <2>2, <2>3
  <1>4. QED
    BY <1>2, <1>3 DEF Paid

LEMMA CreationPaysNothing ==
  ASSUME Base, NEW t \in txs, LandCreation(t)
  PROVE  Paid' = Paid
  <1>1. PICK new \in Jobs :
          /\ job[new].log = << >> /\ Len(job'[new].log) = 1
          /\ job'[new].log[1] = [event |-> "requirement", reading |-> NoReading]
          /\ \A i \in Jobs \ {new} : job'[i] = job[i]
    <2> DEFINE next == 1 + Cardinality(Made)
    <2>1. next \in Jobs /\ job[next].log = << >>
      BY NextJobIsFree DEF LandCreation
    <2>2. /\ \A i \in Jobs \ {next} : job'[i] = job[i]
          /\ Len(job'[next].log) = 1
          /\ job'[next].log[1] = [event |-> "requirement", reading |-> NoReading]
      BY LandCreationTypes
    <2> HIDE DEF next
    <2>3. QED
      BY <2>1, <2>2
  <1>2. DOMAIN job[new].log = {} /\ DOMAIN job'[new].log = {1}
    <2>1. job'[new].log \in Seq(Entries) /\ Len(<< >>) = 0
      BY LandCreationTypes, TypesNext DEF JobStates
    <2>2. DOMAIN job'[new].log = 1..1
      BY <1>1, <2>1
    <2>3. QED
      BY <1>1, <2>2
  <1>3. ~WasFunded(new) /\ ~WasFunded(new)'
    BY <1>1, <1>2 DEF WasFunded
  <1>4. \A i \in Jobs : WasFunded(i)' <=> WasFunded(i)
    <2>1. ASSUME NEW i \in Jobs, i # new
          PROVE  WasFunded(i)' <=> WasFunded(i)
      BY <1>1, <2>1 DEF WasFunded
    <2>2. QED
      BY <1>3, <2>1
  <1>5. QED
    BY <1>4 DEF Paid

(* The abstract actions in terms of the processes.                          *)
LEMMA HireStep ==
  ASSUME NEW c \in Calls, State[c] = "idle", State' = [State EXCEPT ![c] = "hired"],
         Paid' = Paid, Published' = Published, Answers' = Answers
  PROVE  Hiring!Next
  <1>1. Hiring!Hire(c)
    BY DEF Hiring!Hire, Paid, Published, State, Answers
  <1>2. QED
    BY <1>1 DEF Hiring!Next

LEMMA FailStep ==
  ASSUME NEW c \in Calls, State[c] \in {"idle", "hired"},
         State' = [State EXCEPT ![c] = "failed"],
         Paid' = Paid, Published' = Published, Answers' = Answers
  PROVE  Hiring!Next
  <1>1. Hiring!Fail(c)
    BY DEF Hiring!Fail, Paid, Published, State, Answers
  <1>2. QED
    BY <1>1 DEF Hiring!Next

LEMMA AnswerStep ==
  ASSUME NEW c \in Calls, NEW p \in Published, State[c] = "hired",
         State' = [State EXCEPT ![c] = "answered"],
         Answers' = [Answers EXCEPT ![c] = p.reading],
         Paid' = Paid, Published' = Published
  PROVE  Hiring!Next
  <1>1. Hiring!Answer(c, p)
    BY DEF Hiring!Answer, Paid, Published, State, Answers
  <1>2. QED
    BY <1>1 DEF Hiring!Next, Published

LEMMA PayStep ==
  ASSUME NEW j \in Jobs, Paid' = Paid \cup {j},
         Published' = Published, State' = State, Answers' = Answers
  PROVE  Hiring!Next
  <1>1. Hiring!Pay(j)
    BY DEF Hiring!Pay, Paid, Published, State, Answers
  <1>2. QED
    BY <1>1 DEF Hiring!Next

LEMMA PublishStep ==
  ASSUME NEW j \in Jobs, NEW r \in Readings, j \in Paid,
         \A p \in Published : p.reading # r,
         Published' = Published \cup {[job |-> j, reading |-> r]},
         Paid' = Paid, State' = State, Answers' = Answers
  PROVE  Hiring!Next
  <1>1. Hiring!Publish(j, r)
    BY DEF Hiring!Publish, Paid, Published, State, Answers
  <1>2. QED
    BY <1>1 DEF Hiring!Next

LEMMA HiringStutters ==
  ASSUME Paid' = Paid, Published' = Published, State' = State, Answers' = Answers
  PROVE  UNCHANGED Hiring!vars
  BY DEF Hiring!vars, Paid, Published, State, Answers

LEMMA HiringInit ==
  ASSUME Init
  PROVE  Hiring!Init
  <1>1. Paid = {}
    <2>1. NotAJob.log = << >> /\ DOMAIN << >> = {}
      BY DEF NotAJob
    <2>2. QED
      BY <2>1 DEF Init, Paid, WasFunded
  <1>2. Published = {}
    BY DEF Init, Published, Unread
  <1>3. /\ State = [c \in Calls |-> "idle"]
        /\ Answers = [c \in Calls |-> NoReading]
    BY DEF Init, State, Answers, Outcome
  <1>4. QED
    BY <1>1, <1>2, <1>3 DEF Hiring!Init, Paid, Published, State, Answers

(* Only a publication publishes, only a funding pays, and only the bridge   *)
(* tells the operator.                                                      *)
LEMMA SeenBy ==
  /\ owner' = owner => Published' = Published
  /\ hire' = hire => State' = State /\ Answers' = Answers
  /\ job' = job => Paid' = Paid
  <1>1. owner' = owner => Published' = Published
    BY DEF Published, Unread
  <1>2. hire' = hire => State' = State /\ Answers' = Answers
    BY DEF State, Answers, Outcome
  <1>3. job' = job => Paid' = Paid
    BY DEF Paid, WasFunded
  <1>4. QED
    BY <1>1, <1>2, <1>3

LEMMA HiringBridge ==
  ASSUME Base, Delivered, NEW c \in Calls, Bridge(c)
  PROVE  [Hiring!Next]_(Hiring!vars)
  <1>t. hire \in [Calls -> HireStates] /\ hire[c] \in HireStates
    BY Types DEF Base
  <1>u. Paid' = Paid /\ Published' = Published
    BY BridgeClears, SeenBy
  <1>o. /\ State[c] = Outcome(hire[c].phase)
        /\ Outcome("idle") = "idle" /\ Outcome("worker") = "hired" /\ Outcome("adapter") = "hired"
        /\ Outcome("answered") = "answered" /\ Outcome("failed") = "failed"
    BY DEF State, Outcome
  <1>h. ASSUME \A b \in Calls \ {c} : hire'[b] = hire[b]
        PROVE  /\ State' = [State EXCEPT ![c] = Outcome(hire'[c].phase)]
               /\ Answers' = [Answers EXCEPT ![c] = hire'[c].reading]
               /\ hire'[c].reading = hire[c].reading => Answers' = Answers
    <2>1. State' = [b \in Calls |-> Outcome(hire'[b].phase)]
      BY DEF State, Outcome
    <2>2. Answers' = [b \in Calls |-> hire'[b].reading]
      BY DEF Answers
    <2>3. QED
      BY <1>h, <2>1, <2>2 DEF State, Answers
  <1>f. ASSUME hire' = [hire EXCEPT ![c].phase = "failed"], State[c] \in {"idle", "hired"}
        PROVE  Hiring!Next
    <2>1. /\ \A b \in Calls \ {c} : hire'[b] = hire[b]
          /\ hire'[c].phase = "failed" /\ hire'[c].reading = hire[c].reading
      BY <1>f, <1>t DEF HireStates
    <2>2. State' = [State EXCEPT ![c] = Outcome(hire'[c].phase)] /\ Answers' = Answers
      BY <1>h, <2>1
    <2>3. QED
      BY <1>u, <1>o, <1>f, <2>1, <2>2, FailStep
  <1>1. ASSUME NEW accepted \in BOOLEAN, Refuse(c, accepted) PROVE Hiring!Next
    BY <1>1, <1>f, <1>o DEF Refuse
  <1>2. ASSUME NEW k \in Asks[c], NEW r \in Jobs \cup {NoJob}, NEW s \in BOOLEAN, Begin(c, k, r, s)
        PROVE  Hiring!Next
    <2>1. PICK phase \in {"worker", "adapter"} : phase = IF s THEN "worker" ELSE "adapter"
      OBVIOUS
    <2>2. PICK alone \in BOOLEAN : alone = Alone(r)
      BY DEF Alone
    <2>3. hire' = [hire EXCEPT ![c] = [hire[c] EXCEPT !.key = k, !.resume = r, !.alone = alone,
                                                      !.phase = phase]]
      BY <1>2, <2>1, <2>2 DEF Begin
    <2>4. /\ \A b \in Calls \ {c} : hire'[b] = hire[b]
          /\ hire'[c].phase \in {"worker", "adapter"} /\ hire'[c].reading = hire[c].reading
          /\ hire[c].phase = "idle"
      BY <1>2, <2>3, <1>t DEF HireStates, Begin
    <2>5. State' = [State EXCEPT ![c] = Outcome(hire'[c].phase)] /\ Answers' = Answers
      BY <1>h, <2>4
    <2>6. Outcome(hire'[c].phase) = "hired" /\ State[c] = "idle"
      BY <1>o, <2>4
    <2>7. QED
      BY <1>u, <2>5, <2>6, HireStep
  <1>3. ASSUME NEW replay \in BOOLEAN, WorkerReady(c, replay) PROVE UNCHANGED Hiring!vars
    <2>1. /\ \A b \in Calls \ {c} : hire'[b] = hire[b]
          /\ hire'[c].phase = "adapter" /\ hire'[c].reading = hire[c].reading
          /\ hire[c].phase = "worker"
      BY <1>3, <1>t DEF WorkerReady, HireStates
    <2>2. State' = [State EXCEPT ![c] = Outcome(hire'[c].phase)] /\ Answers' = Answers
      BY <1>h, <2>1
    <2>3. Outcome(hire'[c].phase) = State[c]
      BY <1>o, <2>1
    <2>4. State' = State
      BY <2>2, <2>3 DEF State
    <2>5. QED
      BY <1>u, <2>2, <2>4, HiringStutters
  <1>4. ASSUME NEW runsOn \in BOOLEAN, NEW replay \in BOOLEAN, WorkerUnready(c, runsOn, replay)
        PROVE  Hiring!Next
    BY <1>4, <1>f, <1>o DEF WorkerUnready
  <1>5. ASSUME NEW exited \in BOOLEAN, Finish(c, exited) PROVE Hiring!Next
    <2>1. State[c] = "hired"
      BY <1>5, <1>o DEF Finish, Running
    <2>2. CASE ~(worker[c].phase = "failed" /\ exited) /\ Cardinality(Deliveries(c)) = 1
      <3>1. Deliveries(c) # {}
        BY <2>2, FS_EmptySet
      <3>2. PICK r \in Deliveries(c) : r = CHOOSE x \in Deliveries(c) : TRUE
        BY <3>1
      <3>3. r \in Readings /\ owner[r] # NoJob /\ buyer.settled \in Jobs \cup {NoJob}
        BY ProcessTypes DEF Base, Delivered, Deliveries
      <3>4. hire' = [hire EXCEPT ![c] = [hire[c] EXCEPT !.phase = "answered",
                                                        !.job = buyer.settled, !.reading = r]]
        BY <1>5, <2>2, <3>2 DEF Finish
      <3>5. /\ \A b \in Calls \ {c} : hire'[b] = hire[b]
            /\ hire'[c].phase = "answered" /\ hire'[c].reading = r
        BY <3>3, <3>4, <1>t DEF HireStates
      <3>6. /\ State' = [State EXCEPT ![c] = Outcome(hire'[c].phase)]
            /\ Answers' = [Answers EXCEPT ![c] = hire'[c].reading]
        BY <1>h, <3>5
      <3>7. PICK p \in Published : p.reading = r
        <4>1. [job |-> owner[r], reading |-> r] \in Published
          BY <3>3 DEF Published, Unread
        <4>2. QED
          BY <4>1
      <3>8. QED
        BY <1>u, <1>o, <2>1, <3>5, <3>6, <3>7, AnswerStep
    <2>3. CASE ~(~(worker[c].phase = "failed" /\ exited) /\ Cardinality(Deliveries(c)) = 1)
      <3>1. hire' = [hire EXCEPT ![c].phase = "failed"]
        BY <1>5, <2>3 DEF Finish
      <3>2. QED
        BY <1>f, <2>1, <3>1
    <2>4. QED
      BY <2>2, <2>3
  <1>6. ASSUME GiveUp(c) PROVE Hiring!Next
    BY <1>6, <1>f, <1>o DEF GiveUp, Running
  <1>7. QED
    BY <1>1, <1>2, <1>3, <1>4, <1>5, <1>6 DEF Bridge

LEMMA PostUnseen ==
  ASSUME TypeOK, TypeOK', owner' = owner, hire' = hire,
         NEW j \in Jobs, NEW event, NEW r, event # "funded", Posted(j, event, r)
  PROVE  UNCHANGED Hiring!vars
  <1>1. Paid' = Paid
    BY PaidByPost
  <1>2. QED
    BY <1>1, SeenBy, HiringStutters

LEMMA NothingSeen ==
  ASSUME job' = job, owner' = owner, hire' = hire
  PROVE  UNCHANGED Hiring!vars
  BY SeenBy, HiringStutters

LEMMA HiringMarket ==
  ASSUME Base, Market
  PROVE  [Hiring!Next]_(Hiring!vars)
  <1>1. ASSUME NEW t \in txs, LandCreation(t) PROVE UNCHANGED Hiring!vars
    <2>1. owner' = owner /\ hire' = hire
      BY <1>1 DEF LandCreation
    <2>2. QED
      BY <1>1, <2>1, SeenBy, CreationPaysNothing, HiringStutters
  <1>2. ASSUME NEW t \in txs, Land(t) PROVE [Hiring!Next]_(Hiring!vars)
    <2>1. /\ TypeOK' /\ t.job \in Jobs /\ Posted(t.job, t.event, NoReading)
          /\ owner' = owner /\ hire' = hire
      BY <1>2, LandTypes DEF Land
    <2>2. CASE t.event = "funded"
      <3>1. Paid' = Paid \cup {t.job}
        BY <2>1, <2>2, PaidByPost DEF Base
      <3>2. QED
        BY <2>1, <3>1, SeenBy, PayStep
    <2>3. CASE t.event # "funded"
      BY <2>1, <2>3, PostUnseen DEF Base
    <2>4. QED
      BY <2>2, <2>3
  <1>3. ASSUME NEW j \in Jobs, Expire(j) PROVE UNCHANGED Hiring!vars
    BY <1>3, PostUnseen, ExpireTypes DEF Expire, Base
  <1>4. QED
    BY <1>1, <1>2, <1>3 DEF Market

LEMMA HiringSeller ==
  ASSUME Base, Delivered, NEW w \in Calls, Worker(w)
  PROVE  [Hiring!Next]_(Hiring!vars)
  <1>1. ASSUME NEW j \in Jobs, WorkerHear(w, j) PROVE UNCHANGED Hiring!vars
    BY <1>1, NothingSeen DEF WorkerHear
  <1>2. ASSUME NEW t \in worker[w].tasks, SetBudget(w, t) PROVE UNCHANGED Hiring!vars
    BY <1>2, PostUnseen, SetBudgetTypes DEF SetBudget, Base
  <1>3. ASSUME NEW t \in worker[w].tasks, SendMessage(w, t) PROVE UNCHANGED Hiring!vars
    BY <1>3, PostUnseen, SendMessageTypes DEF SendMessage, Base
  <1>4. ASSUME NEW t \in worker[w].tasks, Submit(w, t) PROVE UNCHANGED Hiring!vars
    BY <1>4, PostUnseen, SubmitTypes DEF Submit, Base
  <1>5. ASSUME NEW t \in worker[w].tasks, HandlerFails(w, t) PROVE UNCHANGED Hiring!vars
    BY <1>5, NothingSeen DEF HandlerFails
  <1>6. ASSUME NEW t \in worker[w].tasks, NEW r \in Readings, PublishObservation(w, t, r)
        PROVE  Hiring!Next
    <2>1. /\ t.job \in Jobs /\ owner[r] = NoJob /\ owner' = [owner EXCEPT ![r] = t.job]
      BY <1>6, PublishTypes
    <2>2. job' = job /\ hire' = hire /\ t.step = "publish"
      BY <1>6 DEF PublishObservation
    <2>3. t.job \in Paid
      BY <2>1, <2>2 DEF Paid, Delivered, Due
    <2>4. \A p \in Published : p.reading # r
      BY <2>1 DEF Published, Unread
    <2>5. Published' = Published \cup {[job |-> t.job, reading |-> r]}
      <3>1. /\ owner \in [Readings -> Jobs \cup {NoJob}] /\ t.job # NoJob
        BY <2>1, Types, Numbers DEF Base, NoJob
      <3>2. Readings \ Unread' = (Readings \ Unread) \cup {r}
        BY <2>1, <3>1 DEF Unread
      <3>3. \A s \in Readings \ Unread : owner'[s] = owner[s]
        BY <2>1, <3>1 DEF Unread
      <3>4. owner'[r] = t.job
        BY <2>1, <3>1
      <3>5. Published' = {[job |-> owner'[s], reading |-> s] : s \in Readings \ Unread'}
        BY DEF Published
      <3>6. QED
        BY <3>2, <3>3, <3>4, <3>5 DEF Published
    <2>6. QED
      BY <2>1, <2>2, <2>3, <2>4, <2>5, SeenBy, PublishStep
  <1>7. QED
    BY <1>1, <1>2, <1>3, <1>4, <1>5, <1>6 DEF Worker

LEMMA HiringNext ==
  ASSUME Base, Delivered, [Next]_vars
  PROVE  [Hiring!Next]_(Hiring!vars)
  <1>1. CASE UNCHANGED vars
    BY <1>1, NothingSeen DEF vars
  <1>2. ASSUME NEW c \in Calls, Buyer(c) PROVE UNCHANGED Hiring!vars
    BY <1>2, NothingSeen DEF Buyer, BuyerStart, BuyerHear
  <1>3. QED
    BY <1>1, <1>2, HiringBridge, HiringSeller, HiringMarket DEF Next

(* The safety part of Hiring: whatever the processes, their kills and late  *)
(* transactions do, a reading is published under a job that was paid, and a *)
(* hire ends once, in failure or with a published reading.                  *)
THEOREM HiringKept == Spec => Hiring!Init /\ [][Hiring!Next]_(Hiring!vars)
  <1>1. QED
    BY HiringInit, HiringNext, BaseHolds, DeliveredHolds, PTL DEF Spec

-----------------------------------------------------------------------------
(* The job the running call has created. *)
Own(c, j) == Running(c) /\ buyer.phase = "waiting" /\ j = buyer.job
Listens == buyer.phase \in {"creating", "waiting"}

(* A call with a job of its own, and nothing else under way: every other    *)
(* job is closed and can only bring messages; those of its own job are      *)
(* heard in order, so that the end of it comes after its message.           *)
NothingElseOpen(c) ==
  /\ \A t \in txs : t.event = "created" =>
       /\ Running(c) /\ buyer.phase = "creating"
       /\ t = [event |-> "created", job |-> NoJob, call |-> c]
  /\ \A j \in Jobs : job[j].status \in Active => Own(c, j)

HearsItsJob(c) ==
  /\ \A j \in Jobs :
       /\ buyer.pos[j] <= Len(job[j].log)
       /\ Listens /\ ~Own(c, j) =>
            \A i \in (buyer.pos[j] + 1)..Len(job[j].log) : job[j].log[i].event = "message"
       /\ Own(c, j) =>
            /\ job[j].key = hire[c].key
            /\ \A i \in 1..buyer.pos[j] :
                 job[j].log[i].event = "message" => job[j].log[i].reading \in buyer.heard
  /\ buyer.settled # NoJob =>
       /\ Own(c, buyer.settled)
       /\ \E i \in 1..buyer.pos[buyer.settled] : job[buyer.settled].log[i].event = "completed"

OnANewJob(c) == NothingElseOpen(c) /\ (Running(c) => HearsItsJob(c))

(* A call that resumes job j, with nothing else under way and no seller     *)
(* left: all that is done and heard is of that job.                         *)
OnTheOldJob(c, j) ==
  /\ Creations = {}
  /\ \A i \in Jobs \ {j} :
       /\ job[i].status \notin Active
       /\ worker[c].phase \notin {"off", "starting"} => worker[c].pos[i] >= Len(job[i].log)
       /\ Running(c) /\ Listens => buyer.pos[i] >= Len(job[i].log)
  /\ \A w \in Calls \ {c} : worker[w].phase = "off"
  /\ \A t \in worker[c].tasks : t.job = j
  /\ Running(c) => /\ \A r \in buyer.heard : owner[r] = j
                   /\ buyer.settled \in {NoJob, j}

(* A call that began with nothing else under way.                           *)
Fine(c) ==
  /\ Under(c) /\ hire[c].resume = NoJob => OnANewJob(c)
  /\ \A j \in Jobs : Under(c) /\ hire[c].resume = j => OnTheOldJob(c, j)
  /\ hire[c].phase = "answered" =>
       /\ hire[c].reading \in Readings /\ hire[c].job # NoJob
       /\ owner[hire[c].reading] = hire[c].job
       /\ hire[c].resume \in {NoJob, hire[c].job}

Undisturbed == \A c \in Calls : hire[c].alone => Fine(c)

LEMMA OthersEnded ==
  ASSUME InOrder, NEW c \in Calls, NEW b \in Calls \ {c},
         Under(c) \/ (hire[c].phase = "idle" /\ Earlier(c))
  PROVE  ~Under(b)
  BY Numbers DEF InOrder, Under, Earlier

(* Where a process that connects begins to read. *)
LEMMA HydratedAt ==
  ASSUME TypeOK, Carried, NEW replay \in BOOLEAN, NEW j \in Jobs, job[j].status \notin Active
  PROVE  Hydrated(replay)[j] = Len(job[j].log)
  <1>1. Hydrated(replay)[j] = IF job[j].status = "none" THEN 0 ELSE Len(job[j].log)
    BY LogTypes DEF Hydrated
  <1>2. Len(<< >>) = 0
    OBVIOUS
  <1>3. QED
    BY <1>1, <1>2 DEF Carried

(* A seller's or the marketplace's step, for a call with a job of its own.  *)
SameBuyer == /\ buyer'.phase = buyer.phase /\ buyer'.job = buyer.job /\ buyer'.pos = buyer.pos
             /\ buyer'.heard = buyer.heard /\ buyer'.settled = buyer.settled

LEMMA NewJobStays ==
  ASSUME Base, NEW c \in Calls, OnANewJob(c), hire' = hire, SameBuyer, txs' \in SUBSET txs,
         job' = job
  PROVE  OnANewJob(c)'
  <1>1. Running(c)' = Running(c) /\ Listens' = Listens /\ \A j : Own(c, j)' = Own(c, j)
    BY DEF Running, Listens, Own, SameBuyer
  <1>2. NothingElseOpen(c)'
    BY <1>1 DEF OnANewJob, NothingElseOpen, SameBuyer
  <1>3. Running(c) /\ HearsItsJob(c) => HearsItsJob(c)'
    BY <1>1 DEF HearsItsJob, SameBuyer
  <1>4. QED
    BY <1>1, <1>2, <1>3 DEF OnANewJob

LEMMA NewJobPosted ==
  ASSUME Base, TypeOK', NEW c \in Calls, OnANewJob(c), hire' = hire, SameBuyer,
         txs' \in SUBSET txs, NEW j \in Jobs, NEW event \in Posts, NEW r, Posted(j, event, r),
         event # "message" => job[j].status \in Active
  PROVE  OnANewJob(c)'
  <1>1. Running(c)' = Running(c) /\ Listens' = Listens /\ \A i : Own(c, i)' = Own(c, i)
    BY DEF Running, Listens, Own, SameBuyer
  <1>2. \A i \in Jobs : job'[i].status \in Active => job[i].status \in Active
    BY DEF Posted
  <1>3. NothingElseOpen(c)'
    BY <1>1, <1>2 DEF OnANewJob, NothingElseOpen, SameBuyer
  <1>4. ASSUME Running(c)
        PROVE  HearsItsJob(c)'
    <2>1. HearsItsJob(c)
      BY <1>4 DEF OnANewJob
    <2>2. Grown /\ buyer.pos \in [Jobs -> Nat]
      BY PostedGrows, ProcessTypes DEF Base
    <2>3. \A i \in Jobs : /\ Len(job[i].log) \in Nat /\ Len(job'[i].log) \in Nat
                         /\ Len(job[i].log) <= Len(job'[i].log)
                         /\ job'[i].key = job[i].key
      BY LogTypes DEF Posted, Base
    <2>4. \A i \in Jobs : buyer.pos[i] <= Len(job'[i].log)
      BY <2>1, <2>2, <2>3 DEF HearsItsJob
    <2>5. \A i \in Jobs : \A k \in 1..buyer.pos[i] : job'[i].log[k] = job[i].log[k]
      BY <2>1, <2>2, <2>3 DEF HearsItsJob, Grown
    <2>6. ASSUME NEW i \in Jobs, Listens, ~Own(c, i), NEW k \in (buyer.pos[i] + 1)..Len(job'[i].log)
          PROVE  job'[i].log[k].event = "message"
      <3>1. CASE k \in 1..Len(job[i].log)
        BY <2>1, <2>2, <2>3, <2>6, <3>1 DEF HearsItsJob, Grown
      <3>2. CASE k \notin 1..Len(job[i].log)
        <4>1. i = j /\ k = Len(job[j].log) + 1
          BY <2>2, <2>3, <2>6, <3>2 DEF Posted
        <4>2. event = "message"
          BY <2>6, <4>1 DEF OnANewJob, NothingElseOpen
        <4>3. QED
          BY <4>1, <4>2 DEF Posted
      <3>3. QED
        BY <3>1, <3>2
    <2>7. \A i \in Jobs : Own(c, i) =>
            /\ job'[i].key = hire[c].key
            /\ \A k \in 1..buyer.pos[i] :
                 job'[i].log[k].event = "message" => job'[i].log[k].reading \in buyer.heard
      BY <2>1, <2>3, <2>5 DEF HearsItsJob
    <2>8. buyer.settled # NoJob =>
            /\ Own(c, buyer.settled)
            /\ \E k \in 1..buyer.pos[buyer.settled] : job'[buyer.settled].log[k].event = "completed"
      BY <2>1, <2>5, ProcessTypes DEF HearsItsJob, Base
    <2>9. QED
      BY <1>1, <2>4, <2>6, <2>7, <2>8 DEF HearsItsJob, SameBuyer
  <1>5. QED
    BY <1>1, <1>3, <1>4 DEF OnANewJob

LEMMA NewJobAsked ==
  ASSUME Base, Base', NEW c \in Calls, OnANewJob(c), hire[c].resume = NoJob,
         NEW replay \in BOOLEAN, BuyerStart(c, replay)
  PROVE  OnANewJob(c)'
  <1>1. buyer \in BuyerStates
    BY Types DEF Base
  <1>2. /\ Running(c) /\ buyer.phase = "starting" /\ buyer'.phase = "creating"
        /\ buyer'.pos = Hydrated(replay) /\ buyer'.settled = buyer.settled
        /\ job' = job /\ hire' = hire
        /\ txs' = txs \cup {[event |-> "created", job |-> NoJob, call |-> c]}
    BY <1>1 DEF BuyerStart, BuyerStates, Send
  <1>3. Running(c)' /\ \A j : ~Own(c, j) /\ ~Own(c, j)'
    BY <1>2 DEF Running, Own
  <1>4. \A j \in Jobs : job[j].status \notin Active
    BY <1>3 DEF OnANewJob, NothingElseOpen
  <1>5. NothingElseOpen(c)'
    <2>1. \A t \in txs : t.event # "created"
      BY <1>2 DEF OnANewJob, NothingElseOpen
    <2>2. QED
      BY <1>2, <1>3, <1>4, <2>1 DEF NothingElseOpen
  <1>6. \A j \in Jobs : buyer'.pos[j] = Len(job[j].log) /\ Len(job[j].log) \in Nat
    BY <1>2, <1>4, HydratedAt, LogTypes DEF Base
  <1>7. buyer'.settled = NoJob
    BY <1>2, <1>3 DEF OnANewJob, HearsItsJob
  <1>8. HearsItsJob(c)'
    <2>1. \A j \in Jobs : /\ buyer'.pos[j] <= Len(job'[j].log)
                         /\ \A i \in (buyer'.pos[j] + 1)..Len(job'[j].log) : FALSE
      BY <1>2, <1>6
    <2>2. QED
      BY <1>3, <1>7, <2>1 DEF HearsItsJob
  <1>9. QED
    BY <1>5, <1>8 DEF OnANewJob

LEMMA NewJobHeard ==
  ASSUME Base, Base', NEW c \in Calls, OnANewJob(c), NEW j \in Jobs, BuyerHear(c, j)
  PROVE  OnANewJob(c)'
  <1> DEFINE entry == job[j].log[buyer.pos[j] + 1]
  <1>1. /\ job' = job /\ hire' = hire /\ Creations' = Creations
        /\ Running(c) /\ buyer.settled = NoJob /\ Listens
        /\ buyer'.phase = buyer.phase /\ buyer'.job = buyer.job
        /\ buyer'.pos = [buyer.pos EXCEPT ![j] = buyer.pos[j] + 1]
        /\ buyer.pos[j] + 1 \in 1..Len(job[j].log)
    BY BuyerHears DEF Listens
  <1>2. \/ /\ entry.event = "message"
           /\ buyer'.heard = buyer.heard \cup {entry.reading} /\ buyer'.settled = NoJob
        \/ /\ entry.event = "completed"
           /\ buyer'.heard = buyer.heard /\ buyer'.settled = j
        \/ /\ entry.event \notin {"message", "completed"}
           /\ buyer'.heard = buyer.heard /\ buyer'.settled = NoJob
    BY BuyerHears
  <1>3. Running(c)' = Running(c) /\ Listens' = Listens /\ \A i : Own(c, i)' = Own(c, i)
    BY <1>1 DEF Running, Listens, Own
  <1>4. NothingElseOpen(c)'
    <2>1. \A t \in txs' : t.event = "created" => t \in txs
      BY <1>1 DEF Creations
    <2>2. QED
      BY <1>1, <1>3, <2>1 DEF OnANewJob, NothingElseOpen
  <1>5. HearsItsJob(c)
    BY <1>1 DEF OnANewJob
  <1>6. /\ buyer.pos \in [Jobs -> Nat] /\ buyer.heard \subseteq buyer'.heard
        /\ \A i \in Jobs : Len(job[i].log) \in Nat
    BY <1>2, ProcessTypes, LogTypes DEF Base
  <1>7. ASSUME NEW i \in Jobs
        PROVE  /\ buyer'.pos[i] <= Len(job[i].log)
               /\ Listens /\ ~Own(c, i) =>
                    \A k \in (buyer'.pos[i] + 1)..Len(job[i].log) : job[i].log[k].event = "message"
               /\ Own(c, i) =>
                    /\ job[i].key = hire[c].key
                    /\ \A k \in 1..buyer'.pos[i] :
                         job[i].log[k].event = "message" => job[i].log[k].reading \in buyer'.heard
    <2>1. CASE i # j
      <3>1. buyer'.pos[i] = buyer.pos[i]
        BY <1>1, <1>6, <2>1
      <3>2. QED
        BY <1>5, <1>6, <3>1 DEF HearsItsJob
    <2>2. CASE i = j
      <3>1. buyer'.pos[i] = buyer.pos[j] + 1
        BY <1>1, <1>6, <2>2
      <3>2. buyer'.pos[i] <= Len(job[i].log)
        BY <1>1, <2>2, <3>1
      <3>3. \A k \in (buyer'.pos[i] + 1)..Len(job[i].log) : k \in (buyer.pos[i] + 1)..Len(job[i].log)
        BY <1>6, <2>2, <3>1
      <3>4. ASSUME Own(c, i), NEW k \in 1..buyer'.pos[i], job[i].log[k].event = "message"
            PROVE  job[i].log[k].reading \in buyer'.heard
        <4>1. CASE k = buyer.pos[j] + 1
          BY <1>2, <2>2, <3>4, <4>1
        <4>2. CASE k # buyer.pos[j] + 1
          <5>1. k \in 1..buyer.pos[i]
            BY <1>6, <2>2, <3>1, <4>2
          <5>2. QED
            BY <1>5, <1>6, <3>4, <5>1 DEF HearsItsJob
        <4>3. QED
          BY <4>1, <4>2
      <3>5. QED
        BY <1>5, <3>2, <3>3, <3>4 DEF HearsItsJob
    <2>3. QED
      BY <2>1, <2>2
  <1>8. ASSUME buyer'.settled # NoJob
        PROVE  /\ Own(c, buyer'.settled)
               /\ \E i \in 1..buyer'.pos[buyer'.settled] :
                    job[buyer'.settled].log[i].event = "completed"
    <2>1. entry.event = "completed" /\ buyer'.settled = j
      BY <1>2, <1>8
    <2>2. buyer.pos[j] + 1 \in (buyer.pos[j] + 1)..Len(job[j].log)
      BY <1>1, <1>6
    <2>3. Own(c, j)
      BY <1>1, <1>5, <2>1, <2>2 DEF HearsItsJob
    <2>4. buyer.pos[j] + 1 \in 1..buyer'.pos[j]
      BY <1>1, <1>6
    <2>5. QED
      BY <2>1, <2>3, <2>4
  <1>9. HearsItsJob(c)'
    BY <1>1, <1>3, <1>7, <1>8 DEF HearsItsJob
  <1>10. QED
    BY <1>4, <1>9 DEF OnANewJob

LEMMA NewJobLands ==
  ASSUME Base, Base', NEW c \in Calls, OnANewJob(c), NEW t \in txs, LandCreation(t)
  PROVE  OnANewJob(c)'
  <1>1. PICK new \in Jobs :
          /\ new = 1 + Cardinality(Made)
          /\ job[new].log = << >> /\ Len(job'[new].log) = 1
          /\ job'[new].key = hire[t.call].key
          /\ \A i \in Jobs \ {new} : job'[i] = job[i]
    <2> DEFINE next == 1 + Cardinality(Made)
    <2>1. next \in Jobs /\ job[next].log = << >>
      BY NextJobIsFree DEF LandCreation
    <2>2. /\ \A i \in Jobs \ {next} : job'[i] = job[i]
          /\ Len(job'[next].log) = 1 /\ job'[next].key = hire[t.call].key
      BY LandCreationTypes
    <2> HIDE DEF next
    <2>3. PICK new \in Jobs : new = next
      BY <2>1
    <2>4. QED
      BY <2>1, <2>2, <2>3 DEF next
  <1>2. /\ Running(c) /\ buyer.phase = "creating" /\ t.call = c /\ t.event = "created"
        /\ \A u \in txs : u.event = "created" => u = t
    BY DEF LandCreation, OnANewJob, NothingElseOpen
  <1>3. buyer \in BuyerStates
    BY Types DEF Base
  <1>4. /\ buyer' = [buyer EXCEPT !.phase = "waiting", !.job = new]
        /\ txs' = txs \ {t} /\ hire' = hire
    BY <1>1, <1>2 DEF LandCreation, Made
  <1>5. /\ buyer'.phase = "waiting" /\ buyer'.job = new /\ buyer'.pos = buyer.pos
        /\ buyer'.settled = buyer.settled
    BY <1>3, <1>4 DEF BuyerStates
  <1>6. /\ Listens /\ Running(c)' /\ \A i : ~Own(c, i) /\ (Own(c, i)' <=> i = new)
    BY <1>2, <1>4, <1>5 DEF Listens, Running, Own
  <1>7. HearsItsJob(c)
    BY <1>2 DEF OnANewJob
  <1>8. NothingElseOpen(c)'
    <2>1. \A u \in txs' : u.event # "created"
      BY <1>2, <1>4
    <2>2. \A i \in Jobs : job'[i].status \in Active => i = new
      BY <1>1, <1>6 DEF OnANewJob, NothingElseOpen
    <2>3. QED
      BY <1>6, <2>1, <2>2 DEF NothingElseOpen
  <1>9. buyer'.settled = NoJob
    BY <1>5, <1>6, <1>7 DEF HearsItsJob
  <1>10. buyer'.pos[new] = 0
    <2>1. Len(<< >>) = 0 /\ buyer.pos[new] \in Nat
      BY ProcessTypes DEF Base
    <2>2. QED
      BY <1>1, <1>5, <1>7, <2>1 DEF HearsItsJob
  <1>11. HearsItsJob(c)'
    <2>1. ASSUME NEW i \in Jobs, i # new
          PROVE  /\ buyer'.pos[i] <= Len(job'[i].log)
                 /\ \A k \in (buyer'.pos[i] + 1)..Len(job'[i].log) : job'[i].log[k].event = "message"
      BY <1>1, <1>5, <1>6, <1>7, <2>1 DEF HearsItsJob
    <2>2. /\ buyer'.pos[new] <= Len(job'[new].log)
          /\ job'[new].key = hire'[c].key
          /\ \A k \in 1..buyer'.pos[new] : FALSE
      BY <1>1, <1>2, <1>4, <1>10
    <2>3. QED
      BY <1>6, <1>9, <2>1, <2>2 DEF HearsItsJob
  <1>12. QED
    BY <1>8, <1>11 DEF OnANewJob

(* The answer of a call with a job of its own is the reading of that job:   *)
(* its message has been heard, and it is the only reading for the condition.*)
LEMMA NewJobAnswer ==
  ASSUME Base, Delivered, NEW c \in Calls, Running(c), OnANewJob(c), buyer.settled # NoJob,
         NEW r \in Deliveries(c), Cardinality(Deliveries(c)) = 1
  PROVE  owner[r] = buyer.settled
  <1>1. PICK j \in Jobs : j = buyer.settled
    BY ProcessTypes DEF Base
  <1>2. PICK i \in 1..buyer.pos[j] : job[j].log[i].event = "completed"
    BY <1>1 DEF OnANewJob, HearsItsJob
  <1>3. Own(c, j) /\ buyer.pos[j] \in Nat /\ buyer.pos[j] <= Len(job[j].log) /\ Len(job[j].log) \in Nat
    BY <1>1, ProcessTypes, LogTypes DEF OnANewJob, HearsItsJob, Base
  <1>4. PICK k \in 1..(i - 1) : job[j].log[k].event = "message"
    BY <1>2, <1>3 DEF Delivered, LogsInOrder
  <1>5. k \in 1..buyer.pos[j] /\ k \in 1..Len(job[j].log)
    BY <1>2, <1>3
  <1>6. PICK s \in Readings : s = job[j].log[k].reading
    BY <1>4, <1>5 DEF Base, Carried
  <1>7. s \in buyer.heard /\ owner[s] = j /\ job[j].key = hire[c].key
    BY <1>3, <1>4, <1>5, <1>6 DEF OnANewJob, HearsItsJob, Delivered, LogsInOrder
  <1>8. s \in Deliveries(c)
    BY <1>7 DEF Deliveries, KeyOf
  <1>9. r = s
    <2>1. IsFiniteSet(Deliveries(c))
      <3>1. IsFiniteSet(Readings)
        BY HireBounds, FS_Interval DEF Readings
      <3>2. Deliveries(c) \in SUBSET Readings
        BY ProcessTypes DEF Deliveries, Base
      <3>3. QED
        BY <3>1, <3>2, FS_Subset
    <2>2. \E x : Deliveries(c) = {x}
      BY <2>1, FS_Singleton
    <2>3. QED
      BY <1>8, <2>2
  <1>10. QED
    BY <1>1, <1>7, <1>9

(* The steps of others for a call that resumes a job. *)
LEMMA OldJobStays ==
  ASSUME Base, Base', Delivered, NEW c \in Calls, NEW j \in Jobs, OnTheOldJob(c, j),
         hire' = hire, SameBuyer, OwnersStay, Creations' \subseteq Creations,
         \A i \in Jobs \ {j} : job'[i] = job[i],
         \A w \in Calls \ {c} : worker'[w].phase = worker[w].phase,
         worker'[c].phase \in {"off", "starting"} \/ worker[c].phase \notin {"off", "starting"},
         \A i \in Jobs \ {j} : worker'[c].pos[i] = worker[c].pos[i],
         \A t \in worker'[c].tasks : t.job = j
  PROVE  OnTheOldJob(c, j)'
  <1>1. Running(c)' = Running(c) /\ Listens' = Listens
    BY DEF Running, Listens, SameBuyer
  <1>2. Running(c) => \A r \in buyer.heard : owner'[r] = j
    BY ProcessTypes, Numbers DEF Base, OnTheOldJob, OwnersStay, NoJob
  <1>3. \A i \in Jobs \ {j} :
          /\ job'[i].status \notin Active
          /\ worker'[c].phase \notin {"off", "starting"} => worker'[c].pos[i] >= Len(job'[i].log)
          /\ Running(c) /\ Listens => buyer'.pos[i] >= Len(job'[i].log)
    BY DEF OnTheOldJob, SameBuyer
  <1>4. Creations' = {}
    BY DEF OnTheOldJob
  <1>5. /\ \A w \in Calls \ {c} : worker'[w].phase = "off"
        /\ Running(c) => buyer'.settled \in {NoJob, j} /\ buyer'.heard = buyer.heard
    BY DEF OnTheOldJob, SameBuyer
  <1>6. QED
    BY <1>1, <1>2, <1>3, <1>4, <1>5 DEF OnTheOldJob

LEMMA OldJobTaken ==
  ASSUME Base, Base', NEW c \in Calls, NEW j \in Jobs, OnTheOldJob(c, j), hire[c].resume = j,
         NEW replay \in BOOLEAN, BuyerStart(c, replay)
  PROVE  OnTheOldJob(c, j)'
  <1>1. buyer \in BuyerStates /\ j # NoJob
    BY Types, Numbers DEF Base, NoJob
  <1>2. /\ buyer'.pos = Hydrated(replay) /\ buyer'.heard = buyer.heard
        /\ buyer'.settled = buyer.settled /\ txs' = txs /\ Running(c)
        /\ job' = job /\ owner' = owner /\ hire' = hire /\ worker' = worker
    BY <1>1 DEF BuyerStart, BuyerStates
  <1>3. \A i \in Jobs \ {j} : buyer'.pos[i] = Len(job[i].log) /\ Len(job[i].log) \in Nat
    BY <1>2, HydratedAt, LogTypes DEF OnTheOldJob, Base
  <1>4. \A i \in Jobs \ {j} : buyer'.pos[i] >= Len(job'[i].log)
    BY <1>2, <1>3
  <1>5. QED
    BY <1>2, <1>4 DEF OnTheOldJob, Creations, Running

LEMMA OldJobHeard ==
  ASSUME Base, Base', Delivered, NEW c \in Calls, NEW j \in Jobs, OnTheOldJob(c, j),
         NEW i \in Jobs, BuyerHear(c, i)
  PROVE  OnTheOldJob(c, j)'
  <1> DEFINE entry == job[i].log[buyer.pos[i] + 1]
  <1>1. /\ job' = job /\ hire' = hire /\ owner' = owner /\ worker' = worker
        /\ Creations' = Creations
        /\ Running(c) /\ buyer.settled = NoJob /\ Listens
        /\ buyer'.phase = buyer.phase
        /\ buyer'.pos = [buyer.pos EXCEPT ![i] = buyer.pos[i] + 1]
        /\ buyer.pos[i] + 1 \in 1..Len(job[i].log)
    BY BuyerHears DEF Listens
  <1>2. \/ /\ entry.event = "message"
           /\ buyer'.heard = buyer.heard \cup {entry.reading} /\ buyer'.settled = NoJob
        \/ buyer'.heard = buyer.heard /\ buyer'.settled = i
        \/ buyer'.heard = buyer.heard /\ buyer'.settled = NoJob
    BY BuyerHears
  <1>3. buyer.pos \in [Jobs -> Nat] /\ Len(job[i].log) \in Nat
    BY ProcessTypes, LogTypes DEF Base
  <1>4. i = j
    <2>1. ~(buyer.pos[i] >= Len(job[i].log))
      BY <1>1, <1>3
    <2>2. QED
      BY <1>1, <2>1 DEF OnTheOldJob
  <1>5. entry.event = "message" => owner[entry.reading] = j
    BY <1>1, <1>4 DEF Delivered, LogsInOrder
  <1>6. /\ \A r \in buyer'.heard : owner[r] = j
        /\ buyer'.settled \in {NoJob, j}
    BY <1>1, <1>2, <1>4, <1>5 DEF OnTheOldJob
  <1>7. \A k \in Jobs \ {j} : buyer'.pos[k] = buyer.pos[k]
    BY <1>1, <1>3, <1>4
  <1>8. Running(c)' = Running(c) /\ Listens' = Listens
    BY <1>1 DEF Running, Listens
  <1>9. QED
    BY <1>1, <1>6, <1>7, <1>8 DEF OnTheOldJob

LEMMA UndisturbedStep ==
  ASSUME Base, Undisturbed, hire' = hire, OwnersStay,
         \A c \in Calls : Under(c) /\ hire[c].resume = NoJob /\ OnANewJob(c) => OnANewJob(c)',
         \A c \in Calls, j \in Jobs :
           Under(c) /\ hire[c].resume = j /\ OnTheOldJob(c, j) => OnTheOldJob(c, j)'
  PROVE  Undisturbed'
  <1> SUFFICES ASSUME NEW c \in Calls, hire[c].alone
               PROVE  Fine(c)'
    BY DEF Undisturbed
  <1>1. Fine(c) /\ Under(c)' = Under(c)
    BY DEF Undisturbed, Under
  <1>2. \A j \in Jobs : Under(c) /\ hire[c].resume = j => OnTheOldJob(c, j)'
    BY <1>1 DEF Fine
  <1>3. Under(c) /\ hire[c].resume = NoJob => OnANewJob(c)'
    BY <1>1 DEF Fine
  <1>4. hire[c].phase = "answered" => owner'[hire[c].reading] = owner[hire[c].reading]
    BY <1>1 DEF Fine, OwnersStay
  <1>5. QED
    BY <1>1, <1>2, <1>3, <1>4 DEF Fine

LEMMA UndisturbedBuyer ==
  ASSUME Base, Base', Delivered, Undisturbed, NEW b \in Calls, Buyer(b)
  PROVE  Undisturbed'
  <1>1. Running(b) /\ hire' = hire /\ owner' = owner
    BY DEF Buyer, BuyerStart, BuyerHear
  <1>2. \A c \in Calls : Under(c) => c = b
    BY <1>1, OneUnderWay DEF Running, Under, Base
  <1>3. hire[b].resume = NoJob /\ OnANewJob(b) => OnANewJob(b)'
    BY NewJobAsked, NewJobHeard DEF Buyer
  <1>4. \A j \in Jobs : hire[b].resume = j /\ OnTheOldJob(b, j) => OnTheOldJob(b, j)'
    BY OldJobTaken, OldJobHeard DEF Buyer
  <1>5. OwnersStay
    BY <1>1 DEF OwnersStay
  <1>6. QED
    BY <1>1, <1>2, <1>3, <1>4, <1>5, UndisturbedStep

LEMMA UndisturbedMarket ==
  ASSUME Base, Base', Delivered, Undisturbed, Market
  PROVE  Undisturbed'
  <1>t. buyer \in BuyerStates
    BY Types DEF Base
  <1>1. ASSUME NEW t \in txs, LandCreation(t) PROVE Undisturbed'
    <2>1. hire' = hire /\ owner' = owner /\ t \in Creations
      BY <1>1 DEF LandCreation, Creations
    <2>2. \A c \in Calls : OnANewJob(c) => OnANewJob(c)'
      BY <1>1, NewJobLands
    <2>3. \A c \in Calls, j \in Jobs : ~OnTheOldJob(c, j)
      BY <2>1 DEF OnTheOldJob
    <2>4. OwnersStay
      BY <2>1 DEF OwnersStay
    <2>5. QED
      BY <2>1, <2>2, <2>3, <2>4, UndisturbedStep
  <1>2. ASSUME NEW j \in Jobs, NEW event \in Posts, Posted(j, event, NoReading),
               job[j].status \in Active, hire' = hire, owner' = owner, worker' = worker,
               SameBuyer, txs' \in SUBSET txs, event # "message"
        PROVE  Undisturbed'
    <2>1. \A c \in Calls : OnANewJob(c) => OnANewJob(c)'
      BY <1>2, NewJobPosted DEF Base
    <2>2. OwnersStay
      BY <1>2 DEF OwnersStay
    <2>3. ASSUME NEW c \in Calls, NEW old \in Jobs, OnTheOldJob(c, old)
          PROVE  OnTheOldJob(c, old)'
      <3>1. j = old
        BY <1>2, <2>3 DEF OnTheOldJob
      <3>2. \A i \in Jobs \ {old} : job'[i] = job[i]
        BY <1>2, <3>1 DEF Posted
      <3>3. \A t \in worker[c].tasks : t.job = old
        BY <2>3 DEF OnTheOldJob
      <3>4. Creations' \subseteq Creations
        BY <1>2 DEF Creations
      <3>5. QED
        BY <1>2, <2>2, <2>3, <3>2, <3>3, <3>4, OldJobStays
    <2>4. QED
      BY <1>2, <2>1, <2>2, <2>3, UndisturbedStep
  <1>3. ASSUME NEW t \in txs, Land(t) PROVE Undisturbed'
    <2>1. /\ t.job \in Jobs /\ t.event \in {"funded", "completed"}
          /\ job[t.job].status \in Active /\ Posted(t.job, t.event, NoReading)
      BY <1>3, LandTypes, TakesActive
    <2>2. /\ hire' = hire /\ owner' = owner /\ worker' = worker
          /\ SameBuyer /\ txs' \in SUBSET txs
      BY <1>3, <1>t DEF Land, SameBuyer, BuyerStates
    <2>3. t.event \in Posts /\ t.event # "message"
      BY <2>1 DEF Posts
    <2>4. QED
      BY <1>2, <2>1, <2>2, <2>3
  <1>4. ASSUME NEW j \in Jobs, Expire(j) PROVE Undisturbed'
    <2>1. job[j].status \in Active /\ Posted(j, "expired", NoReading) /\ "expired" \in Posts
      BY <1>4, ExpireTypes, TakesActive DEF Expire, Posts
    <2>2. /\ hire' = hire /\ owner' = owner /\ worker' = worker
          /\ SameBuyer /\ txs' \in SUBSET txs
      BY <1>4 DEF Expire, SameBuyer
    <2>3. QED
      BY <1>2, <2>1, <2>2
  <1>5. QED
    BY <1>1, <1>3, <1>4 DEF Market

(* A seller's step: it is the seller of the resumed job, or none is.        *)
LEMMA SellerOfOldJob ==
  ASSUME Base, NEW c \in Calls, NEW j \in Jobs, OnTheOldJob(c, j),
         NEW w \in Calls, worker[w].phase # "off"
  PROVE  /\ w = c /\ \A t \in worker[w].tasks : t.job = j
         /\ \A i \in Jobs : worker[w].phase = "up" /\ worker[w].pos[i] + 1 \in 1..Len(job[i].log) => i = j
  <1>1. w = c
    BY DEF OnTheOldJob
  <1>2. ASSUME NEW i \in Jobs \ {j}, worker[w].phase = "up", worker[w].pos[i] + 1 \in 1..Len(job[i].log)
        PROVE  FALSE
    <2>1. worker[w].pos[i] >= Len(job[i].log)
      BY <1>1, <1>2 DEF OnTheOldJob
    <2>2. worker[w].pos[i] \in Nat /\ Len(job[i].log) \in Nat
      BY ProcessTypes, LogTypes DEF Base
    <2>3. QED
      BY <1>2, <2>1, <2>2
  <1>3. QED
    BY <1>1, <1>2 DEF OnTheOldJob

LEMMA UndisturbedWorker ==
  ASSUME Base, Base', Delivered, Undisturbed, NEW w \in Calls, Worker(w)
  PROVE  Undisturbed'
  <1>r. ASSUME NEW served \in Jobs, OwnersStay, hire' = hire, buyer' = buyer, txs' = txs,
               \A c \in Calls : OnANewJob(c) => OnANewJob(c)',
               worker[w].phase # "off",
               \A c \in Calls, j \in Jobs : OnTheOldJob(c, j) => served = j,
               \A i \in Jobs \ {served} : job'[i] = job[i] /\ worker'[w].pos[i] = worker[w].pos[i],
               \A v \in Calls \ {w} : worker'[v] = worker[v],
               worker[w].phase = "starting" => worker'[w].phase = "starting",
               \A t \in worker'[w].tasks : t \in worker[w].tasks \/ t.job = served
        PROVE  Undisturbed'
    <2>1. ASSUME NEW c \in Calls, NEW old \in Jobs, OnTheOldJob(c, old)
          PROVE  OnTheOldJob(c, old)'
      <3>1. old = served /\ w = c /\ \A t \in worker[w].tasks : t.job = old
        BY <1>r, <2>1, SellerOfOldJob
      <3>2. SameBuyer /\ Creations' \subseteq Creations
        BY <1>r DEF SameBuyer, Creations
      <3>3. /\ \A v \in Calls \ {c} : worker'[v].phase = worker[v].phase
            /\ worker'[c].phase \in {"off", "starting"} \/ worker[c].phase \notin {"off", "starting"}
            /\ \A i \in Jobs \ {old} : job'[i] = job[i] /\ worker'[c].pos[i] = worker[c].pos[i]
            /\ \A t \in worker'[c].tasks : t.job = old
        BY <1>r, <3>1
      <3>4. QED
        BY <1>r, <2>1, <3>2, <3>3, OldJobStays
    <2>2. QED
      BY <1>r, <2>1, UndisturbedStep
  <1>q. ASSUME hire' = hire, buyer' = buyer, txs' = txs, job' = job
        PROVE  \A c \in Calls : OnANewJob(c) => OnANewJob(c)'
    BY <1>q, NewJobStays DEF SameBuyer
  <1>p. ASSUME hire' = hire, buyer' = buyer, txs' = txs, NEW j \in Jobs, NEW event \in Posts,
               NEW r, Posted(j, event, r), event # "message" => job[j].status \in Active
        PROVE  \A c \in Calls : OnANewJob(c) => OnANewJob(c)'
    BY <1>p, NewJobPosted DEF SameBuyer, Base
  <1>s. ASSUME NEW t \in worker[w].tasks, Serving(w, t)
        PROVE  /\ worker[w].phase # "off" /\ t.job \in Jobs
               /\ \A c \in Calls, j \in Jobs : OnTheOldJob(c, j) => t.job = j
    BY <1>s, SellerOfOldJob, ProcessTypes DEF Serving, Base
  <1>o. owner' = owner => OwnersStay
    BY DEF OwnersStay
  <1>1. ASSUME NEW j \in Jobs, WorkerHear(w, j) PROVE Undisturbed'
    <2>1. /\ worker[w].pos[j] + 1 \in 1..Len(job[j].log)
          /\ \A v \in Calls \ {w} : worker'[v] = worker[v]
          /\ worker'[w].pos = [worker[w].pos EXCEPT ![j] = @ + 1]
          /\ \/ worker'[w].tasks = worker[w].tasks
             \/ worker'[w].tasks = worker[w].tasks \cup {Task(j, "budget", NoReading)}
             \/ worker'[w].tasks = worker[w].tasks \cup {Task(j, "publish", NoReading)}
      BY <1>1, WorkerHearTypes
    <2>2. /\ job' = job /\ txs' = txs /\ owner' = owner /\ hire' = hire /\ buyer' = buyer
          /\ worker[w].phase = "up"
      BY <1>1 DEF WorkerHear
    <2>3. \A c \in Calls, i \in Jobs : OnTheOldJob(c, i) => j = i
      BY <2>1, <2>2, SellerOfOldJob
    <2>4. \A t \in worker'[w].tasks : t \in worker[w].tasks \/ t.job = j
      BY <2>1 DEF Task
    <2>5. \A i \in Jobs \ {j} : worker'[w].pos[i] = worker[w].pos[i]
      BY <2>1, ProcessTypes DEF Base
    <2>6. QED
      BY <1>r, <1>q, <1>o, <2>1, <2>2, <2>3, <2>4, <2>5
  <1>2. ASSUME NEW t \in worker[w].tasks, SetBudget(w, t) PROVE Undisturbed'
    <2>1. /\ Posted(t.job, "budget.set", NoReading) /\ job[t.job].status \in Active
          /\ t.job \in Jobs /\ "budget.set" \in Posts /\ Serving(w, t)
      BY <1>2, SetBudgetTypes, TakesActive DEF SetBudget, Posts
    <2>2. txs' = txs /\ owner' = owner /\ hire' = hire /\ buyer' = buyer
      BY <1>2 DEF SetBudget
    <2>3. /\ worker'[w].phase = worker[w].phase /\ worker'[w].pos = worker[w].pos
          /\ worker'[w].tasks \subseteq worker[w].tasks
          /\ \A v \in Calls \ {w} : worker'[v] = worker[v]
      BY <1>2, ReplaceTypes DEF SetBudget, Base
    <2>4. \A i \in Jobs \ {t.job} : job'[i] = job[i]
      BY <2>1 DEF Posted
    <2>5. \A c \in Calls : OnANewJob(c) => OnANewJob(c)'
      BY <1>p, <2>1, <2>2
    <2>6. QED
      BY <1>r, <1>s, <1>o, <2>1, <2>2, <2>3, <2>4, <2>5
  <1>3. ASSUME NEW t \in worker[w].tasks, SendMessage(w, t) PROVE Undisturbed'
    <2>1. /\ Posted(t.job, "message", t.reading)
          /\ t.job \in Jobs /\ "message" \in Posts /\ Serving(w, t)
          /\ worker'[w].tasks = (worker[w].tasks \ {t}) \cup {Task(t.job, "submit", NoReading)}
          /\ \A v \in Calls \ {w} : worker'[v] = worker[v]
          /\ worker'[w].phase = worker[w].phase /\ worker'[w].pos = worker[w].pos
      BY <1>3, SendMessageTypes DEF SendMessage, Posts
    <2>2. txs' = txs /\ owner' = owner /\ hire' = hire /\ buyer' = buyer
      BY <1>3 DEF SendMessage
    <2>3. \A u \in worker'[w].tasks : u \in worker[w].tasks \/ u.job = t.job
      BY <2>1 DEF Task
    <2>4. \A i \in Jobs \ {t.job} : job'[i] = job[i]
      BY <2>1 DEF Posted
    <2>5. \A c \in Calls : OnANewJob(c) => OnANewJob(c)'
      BY <1>p, <2>1, <2>2
    <2>6. QED
      BY <1>r, <1>s, <1>o, <2>1, <2>2, <2>3, <2>4, <2>5
  <1>4. ASSUME NEW t \in worker[w].tasks, Submit(w, t) PROVE Undisturbed'
    <2>1. /\ Posted(t.job, "submitted", NoReading) /\ job[t.job].status \in Active
          /\ t.job \in Jobs /\ "submitted" \in Posts /\ Serving(w, t)
      BY <1>4, SubmitTypes, TakesActive DEF Submit, Posts
    <2>2. txs' = txs /\ owner' = owner /\ hire' = hire /\ buyer' = buyer
      BY <1>4 DEF Submit
    <2>3. /\ worker'[w].phase = worker[w].phase /\ worker'[w].pos = worker[w].pos
          /\ worker'[w].tasks \subseteq worker[w].tasks
          /\ \A v \in Calls \ {w} : worker'[v] = worker[v]
      BY <1>4, ReplaceTypes DEF Submit, Base
    <2>4. \A i \in Jobs \ {t.job} : job'[i] = job[i]
      BY <2>1 DEF Posted
    <2>5. \A c \in Calls : OnANewJob(c) => OnANewJob(c)'
      BY <1>p, <2>1, <2>2
    <2>6. QED
      BY <1>r, <1>s, <1>o, <2>1, <2>2, <2>3, <2>4, <2>5
  <1>5. ASSUME NEW t \in worker[w].tasks, HandlerFails(w, t) PROVE Undisturbed'
    <2>1. /\ worker'[w].tasks \subseteq worker[w].tasks /\ worker'[w].pos = worker[w].pos
          /\ \A v \in Calls \ {w} : worker'[v] = worker[v]
          /\ worker[w].phase = "starting" => worker'[w].phase = "starting"
      BY <1>5, HandlerFailsTypes
    <2>2. /\ job' = job /\ txs' = txs /\ owner' = owner /\ hire' = hire /\ buyer' = buyer
          /\ Serving(w, t)
      BY <1>5 DEF HandlerFails
    <2>3. QED
      BY <1>r, <1>s, <1>q, <1>o, <2>1, <2>2
  <1>6. ASSUME NEW t \in worker[w].tasks, NEW r \in Readings, PublishObservation(w, t, r)
        PROVE  Undisturbed'
    <2>1. /\ t.job \in Jobs /\ owner[r] = NoJob /\ owner' = [owner EXCEPT ![r] = t.job]
          /\ worker'[w].tasks = (worker[w].tasks \ {t}) \cup {Task(t.job, "message", r)}
          /\ \A v \in Calls \ {w} : worker'[v] = worker[v]
          /\ worker'[w].phase = worker[w].phase /\ worker'[w].pos = worker[w].pos
      BY <1>6, PublishTypes
    <2>2. /\ job' = job /\ txs' = txs /\ hire' = hire /\ buyer' = buyer
          /\ Serving(w, t)
      BY <1>6 DEF PublishObservation
    <2>3. OwnersStay
      BY <2>1, Types DEF OwnersStay, Base
    <2>4. \A u \in worker'[w].tasks : u \in worker[w].tasks \/ u.job = t.job
      BY <2>1 DEF Task
    <2>5. QED
      BY <1>r, <1>s, <1>q, <2>1, <2>2, <2>3, <2>4
  <1>7. QED
    BY <1>1, <1>2, <1>3, <1>4, <1>5, <1>6 DEF Worker

(* A step of the bridge for call c: the other calls have ended.             *)
LEMMA OthersStayFine ==
  ASSUME Base, Undisturbed, NEW c \in Calls, owner' = owner,
         Under(c) \/ (hire[c].phase = "idle" /\ Earlier(c)),
         \A b \in Calls \ {c} : hire'[b] = hire[b],
         hire'[c].alone => Fine(c)'
  PROVE  Undisturbed'
  <1>1. ASSUME NEW b \in Calls \ {c}, hire[b].alone
        PROVE  Fine(b)'
    <2>1. ~Under(b) /\ ~Under(b)' /\ Fine(b)
      BY <1>1, OthersEnded DEF Base, Undisturbed, Under
    <2>2. QED
      BY <2>1 DEF Fine
  <1>2. QED
    BY <1>1 DEF Undisturbed

LEMMA FineBegin ==
  ASSUME Base, Delivered, NEW c \in Calls, NEW k \in Asks[c], NEW r \in Jobs \cup {NoJob},
         NEW s \in BOOLEAN, Begin(c, k, r, s), hire'[c].alone
  PROVE  Fine(c)'
  <1>t. /\ hire \in [Calls -> HireStates] /\ hire[c] \in HireStates
        /\ worker \in [Calls -> WorkerStates]
    BY Types DEF Base
  <1>1. PICK phase \in {"worker", "adapter"} : phase = IF s THEN "worker" ELSE "adapter"
    OBVIOUS
  <1>2. PICK alone \in BOOLEAN : alone = Alone(r)
    BY DEF Alone
  <1>3. hire' = [hire EXCEPT ![c] = [hire[c] EXCEPT !.key = k, !.resume = r, !.alone = alone,
                                                    !.phase = phase]]
    BY <1>1, <1>2 DEF Begin
  <1>4. hire'[c].phase = phase /\ hire'[c].resume = r /\ hire'[c].alone = alone
    BY <1>3, <1>t DEF HireStates
  <1>5. Alone(r)
    BY <1>2, <1>4
  <1>6. /\ job' = job /\ txs' = txs /\ owner' = owner
        /\ s => worker' = [worker EXCEPT ![c].phase = "starting"]
        /\ ~s => worker' = worker /\ buyer' = [Off EXCEPT !.phase = "starting"]
    BY DEF Begin
  <1>7. Running(c)' => /\ buyer'.phase = "starting" /\ buyer'.settled = NoJob
                       /\ buyer'.heard = {} /\ buyer'.pos = [j \in Jobs |-> 0]
    <2>1. Running(c)' => ~s
      BY <1>1, <1>4 DEF Running
    <2>2. QED
      BY <1>6, <2>1 DEF Off
  <1>8. Creations = {} /\ Creations' = {}
    BY <1>5, <1>6 DEF Alone, Creations
  <1>9. CASE r = NoJob
    <2>1. \A j \in Jobs : job[j].status \notin Active
      BY <1>5, <1>9, Numbers DEF Alone, NoJob
    <2>2. NothingElseOpen(c)'
      BY <1>6, <1>8, <2>1 DEF NothingElseOpen, Creations
    <2>3. \A j \in Jobs : Len(job[j].log) \in Nat
      BY LogTypes DEF Base
    <2>4. Running(c)' => HearsItsJob(c)'
      BY <1>6, <1>7, <2>3 DEF HearsItsJob, Listens, Own
    <2>5. OnANewJob(c)'
      BY <2>2, <2>4 DEF OnANewJob
    <2>6. QED
      BY <1>1, <1>4, <1>9, <2>5, Numbers DEF Fine, NoJob
  <1>10. CASE r # NoJob
    <2>1. /\ \A j \in Jobs \ {r} : job[j].status \notin Active
          /\ \A w \in Calls : worker[w].phase = "off"
      BY <1>5, <1>10 DEF Alone
    <2>2. /\ \A w \in Calls \ {c} : worker'[w].phase = "off"
          /\ worker'[c].phase \in {"off", "starting"} /\ worker'[c].tasks = worker[c].tasks
      <3>1. CASE s
        BY <1>6, <1>t, <2>1, <3>1 DEF WorkerStates
      <3>2. CASE ~s
        BY <1>6, <2>1, <3>2
      <3>3. QED
        BY <3>1, <3>2
    <2>3. worker'[c].tasks = {}
      BY <2>1, <2>2 DEF Delivered
    <2>4. OnTheOldJob(c, r)'
      BY <1>6, <1>7, <1>8, <2>1, <2>2, <2>3 DEF OnTheOldJob, Listens
    <2>5. QED
      BY <1>1, <1>4, <1>10, <2>4 DEF Fine
  <1>11. QED
    BY <1>9, <1>10

LEMMA FineReady ==
  ASSUME Base, Delivered, NEW c \in Calls, Fine(c), NEW replay \in BOOLEAN, WorkerReady(c, replay)
  PROVE  Fine(c)'
  <1>t. /\ hire \in [Calls -> HireStates] /\ hire[c] \in HireStates
        /\ worker \in [Calls -> WorkerStates]
    BY Types DEF Base
  <1>1. /\ hire[c].phase = "worker" /\ hire'[c].phase = "adapter"
        /\ hire'[c].resume = hire[c].resume /\ Under(c) /\ ~Running(c)
    BY <1>t DEF WorkerReady, HireStates, Under, Running
  <1>2. /\ buyer'.phase = "starting" /\ buyer'.settled = NoJob
        /\ buyer'.heard = {} /\ buyer'.pos = [j \in Jobs |-> 0]
        /\ job' = job /\ txs' = txs /\ owner' = owner
    BY DEF WorkerReady, Off
  <1>3. /\ worker'[c].pos = Hydrated(replay) /\ worker'[c].tasks = worker[c].tasks
        /\ \A w \in Calls \ {c} : worker'[w] = worker[w]
    BY <1>t DEF WorkerReady, WorkerStates
  <1>4. ASSUME hire[c].resume = NoJob
        PROVE  OnANewJob(c)'
    <2>1. /\ \A t \in txs : t.event # "created"
          /\ \A j \in Jobs : job[j].status \notin Active
      BY <1>1, <1>4 DEF Fine, OnANewJob, NothingElseOpen, Own
    <2>2. NothingElseOpen(c)'
      BY <1>2, <2>1 DEF NothingElseOpen
    <2>3. \A j \in Jobs : Len(job[j].log) \in Nat
      BY LogTypes DEF Base
    <2>4. HearsItsJob(c)'
      BY <1>2, <2>3 DEF HearsItsJob, Listens, Own
    <2>5. QED
      BY <2>2, <2>4 DEF OnANewJob
  <1>5. ASSUME NEW j \in Jobs, hire[c].resume = j
        PROVE  OnTheOldJob(c, j)'
    <2>1. OnTheOldJob(c, j)
      BY <1>1, <1>5 DEF Fine
    <2>2. \A i \in Jobs \ {j} : Hydrated(replay)[i] = Len(job[i].log) /\ Len(job[i].log) \in Nat
      BY <2>1, HydratedAt, LogTypes DEF OnTheOldJob, Base
    <2>3. \A i \in Jobs \ {j} : worker'[c].pos[i] >= Len(job'[i].log)
      BY <1>2, <1>3, <2>2
    <2>4. ~Listens'
      BY <1>2 DEF Listens
    <2>5. QED
      BY <1>2, <1>3, <2>1, <2>3, <2>4 DEF OnTheOldJob, Creations
  <1>6. QED
    BY <1>1, <1>4, <1>5 DEF Fine

LEMMA FineFinish ==
  ASSUME Base, Delivered, NEW c \in Calls, Fine(c), NEW exited \in BOOLEAN, Finish(c, exited)
  PROVE  Fine(c)'
  <1>t. /\ hire \in [Calls -> HireStates] /\ hire[c] \in HireStates
        /\ hire[c].resume \in Jobs \cup {NoJob} /\ buyer.settled \in Jobs \cup {NoJob}
    BY Types, ProcessTypes DEF Base
  <1>0. Running(c) /\ Under(c) /\ buyer.settled # NoJob /\ owner' = owner
    BY DEF Finish, Running, Under
  <1>1. CASE ~(worker[c].phase = "failed" /\ exited) /\ Cardinality(Deliveries(c)) = 1
    <2>1. Deliveries(c) # {}
      BY <1>1, FS_EmptySet
    <2>2. PICK r \in Deliveries(c) : r = CHOOSE x \in Deliveries(c) : TRUE
      BY <2>1
    <2>3. r \in Readings /\ r \in buyer.heard
      BY ProcessTypes DEF Base, Deliveries
    <2>4. hire' = [hire EXCEPT ![c] = [hire[c] EXCEPT !.phase = "answered",
                                                      !.job = buyer.settled, !.reading = r]]
      BY <1>1, <2>2 DEF Finish
    <2>5. /\ hire'[c].phase = "answered" /\ hire'[c].job = buyer.settled /\ hire'[c].reading = r
          /\ hire'[c].resume = hire[c].resume
      BY <1>t, <2>3, <2>4 DEF HireStates
    <2>6. owner[r] = buyer.settled /\ hire[c].resume \in {NoJob, buyer.settled}
      <3>1. CASE hire[c].resume = NoJob
        BY <1>0, <1>1, <3>1, NewJobAnswer DEF Fine
      <3>2. CASE hire[c].resume # NoJob
        <4>1. PICK old \in Jobs : old = hire[c].resume
          BY <1>t, <3>2
        <4>2. OnTheOldJob(c, old)
          BY <1>0, <4>1 DEF Fine
        <4>3. QED
          BY <1>0, <2>3, <4>1, <4>2 DEF OnTheOldJob
      <3>3. QED
        BY <3>1, <3>2
    <2>7. ~Under(c)'
      BY <2>5 DEF Under
    <2>8. QED
      BY <1>0, <2>3, <2>5, <2>6, <2>7 DEF Fine
  <1>2. CASE ~(~(worker[c].phase = "failed" /\ exited) /\ Cardinality(Deliveries(c)) = 1)
    <2>1. hire' = [hire EXCEPT ![c].phase = "failed"]
      BY <1>2 DEF Finish
    <2>2. hire'[c].phase = "failed"
      BY <1>t, <2>1 DEF HireStates
    <2>3. QED
      BY <2>2 DEF Fine, Under
  <1>3. QED
    BY <1>1, <1>2

LEMMA UndisturbedBridge ==
  ASSUME Base, Delivered, Undisturbed, NEW c \in Calls, Bridge(c)
  PROVE  Undisturbed'
  <1>t. hire \in [Calls -> HireStates] /\ hire[c] \in HireStates
    BY Types DEF Base
  <1>o. owner' = owner
    BY BridgeClears
  <1>f. ASSUME hire' = [hire EXCEPT ![c].phase = "failed"],
               Under(c) \/ (hire[c].phase = "idle" /\ Earlier(c))
        PROVE  Undisturbed'
    <2>1. hire'[c].phase = "failed" /\ \A b \in Calls \ {c} : hire'[b] = hire[b]
      BY <1>f, <1>t DEF HireStates
    <2>2. Fine(c)'
      BY <2>1 DEF Fine, Under
    <2>3. QED
      BY <1>f, <1>o, <2>1, <2>2, OthersStayFine
  <1>1. ASSUME NEW accepted \in BOOLEAN, Refuse(c, accepted) PROVE Undisturbed'
    BY <1>1, <1>f DEF Refuse
  <1>2. ASSUME NEW k \in Asks[c], NEW r \in Jobs \cup {NoJob}, NEW s \in BOOLEAN, Begin(c, k, r, s)
        PROVE  Undisturbed'
    <2>1. /\ \A b \in Calls \ {c} : hire'[b] = hire[b]
          /\ hire[c].phase = "idle" /\ Earlier(c)
      BY <1>2, <1>t DEF Begin
    <2>2. hire'[c].alone => Fine(c)'
      BY <1>2, FineBegin
    <2>3. QED
      BY <1>o, <2>1, <2>2, OthersStayFine
  <1>3. ASSUME NEW replay \in BOOLEAN, WorkerReady(c, replay) PROVE Undisturbed'
    <2>1. /\ \A b \in Calls \ {c} : hire'[b] = hire[b]
          /\ hire'[c].alone = hire[c].alone /\ Under(c)
      BY <1>3, <1>t DEF WorkerReady, HireStates, Under
    <2>2. hire'[c].alone => Fine(c)'
      BY <1>3, <2>1, FineReady DEF Undisturbed
    <2>3. QED
      BY <1>o, <2>1, <2>2, OthersStayFine
  <1>4. ASSUME NEW runsOn \in BOOLEAN, NEW replay \in BOOLEAN, WorkerUnready(c, runsOn, replay)
        PROVE  Undisturbed'
    BY <1>4, <1>f DEF WorkerUnready, Under
  <1>5. ASSUME NEW exited \in BOOLEAN, Finish(c, exited) PROVE Undisturbed'
    <2>1. /\ \A b \in Calls \ {c} : hire'[b] = hire[b]
          /\ hire'[c].alone = hire[c].alone /\ Under(c)
      <3> DEFINE r == CHOOSE r \in Deliveries(c) : TRUE
                 won == [hire[c] EXCEPT !.phase = "answered", !.job = buyer.settled, !.reading = r]
                 lost == [hire[c] EXCEPT !.phase = "failed"]
      <3>1. /\ hire' = [hire EXCEPT ![c] = won] \/ hire' = [hire EXCEPT ![c] = lost]
            /\ Running(c)
        BY <1>5 DEF Finish
      <3> HIDE DEF r
      <3>2. won.alone = hire[c].alone /\ lost.alone = hire[c].alone
        BY <1>t DEF HireStates
      <3> HIDE DEF won, lost
      <3>3. QED
        BY <3>1, <3>2, <1>t DEF Running, Under
    <2>2. hire'[c].alone => Fine(c)'
      BY <1>5, <2>1, FineFinish DEF Undisturbed
    <2>3. QED
      BY <1>o, <2>1, <2>2, OthersStayFine
  <1>6. CASE GiveUp(c)
    BY <1>6, <1>f DEF GiveUp, Running, Under
  <1>7. QED
    BY <1>1, <1>2, <1>3, <1>4, <1>5, <1>6 DEF Bridge

LEMMA UndisturbedNext ==
  ASSUME Base, Delivered, Undisturbed, [Next]_vars
  PROVE  Undisturbed'
  <1>1. CASE UNCHANGED vars
    <2>1. /\ hire' = hire /\ buyer' = buyer /\ txs' = txs /\ job' = job /\ owner' = owner
          /\ worker' = worker
      BY <1>1 DEF vars
    <2>2. \A c \in Calls : OnANewJob(c) => OnANewJob(c)'
      BY <2>1, NewJobStays DEF SameBuyer
    <2>3. \A c \in Calls, j \in Jobs : OnTheOldJob(c, j) => OnTheOldJob(c, j)'
      BY <2>1 DEF OnTheOldJob, Creations, Running, Listens
    <2>4. OwnersStay
      BY <2>1 DEF OwnersStay
    <2>5. QED
      BY <2>1, <2>2, <2>3, <2>4, UndisturbedStep
  <1>2. QED
    BY <1>1, BaseNext, UndisturbedBridge, UndisturbedBuyer, UndisturbedMarket, UndisturbedWorker
       DEF Next

(* A hire that begins with nothing else under way reports the reading of    *)
(* its own job.                                                             *)
THEOREM AnswersAreOwn == Spec => []OwnAnswer
  <1>1. Init => Undisturbed
    BY DEF Init, Undisturbed
  <1>2. Undisturbed => OwnAnswer
    BY DEF Undisturbed, Fine, OwnAnswer
  <1>3. QED
    BY <1>1, <1>2, UndisturbedNext, BaseHolds, DeliveredHolds, PTL DEF Spec
=============================================================================
