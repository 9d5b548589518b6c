----------------------------- MODULE Sandbox_proofs -----------------------------
(***************************************************************************)
(* However many request threads press the three buttons, and however often *)
(* their requests fail part way: the path is never without its decision    *)
(* unless a replacement and a reset ran side by side, a reset that runs    *)
(* alone repairs what came before it, and what is at rest agrees with      *)
(* itself.                                                                 *)
(***************************************************************************)
EXTENDS Sandbox, TemporalFacts

(* A thread is idle, or has the end of its request's plan before it.        *)
Ops == {"break", "reset", "resolve"}

Calls ==
  {"look", "find", "read_old", "read_new", "save_new", "supersede", "read_saved", "reopen",
   "archive", "record", "reference", "evaluate", "standing", "journal"}

Actions == {"allow", "block", "none"}

States ==
  [op : Ops \cup {"none"}, todo : Seq(Calls), saw : {"none", "CURRENT", "SUPERSEDED"},
   row : Rows \cup {NoRow}, alone : BOOLEAN]

OnPlan(j) ==
  /\ j.op \in Ops
  /\ Len(j.todo) \in 1..Len(Plan(j.op))
  /\ \A i \in 1..Len(j.todo) : j.todo[i] = Plan(j.op)[Len(Plan(j.op)) - Len(j.todo) + i]

Left(t) == Len(thread[t].todo)
Is(t, op) == thread[t].op = op

TypeOK ==
  /\ clock \in Opened..MaxTime
  /\ acme \in {"CURRENT", "SUPERSEDED"} /\ storage \in BOOLEAN
  /\ ledger \in SUBSET Rows /\ reference \in ledger
  /\ standing \in [ACME : Actions, STORAGE : Actions]
  /\ journal \in [ACME : Actions, STORAGE : Actions]
  /\ thread \in [Threads -> States]
  /\ \A t \in Threads : thread[t] = Idle \/ OnPlan(thread[t])
  /\ calls \in 0..MaxCalls /\ failed \in BOOLEAN

-----------------------------------------------------------------------------
(* The calls of the three plans, counted from the end.                      *)
LEMMA PlanLengths ==
  Len(Plan("break")) = 6 /\ Len(Plan("reset")) = 8 /\ Len(Plan("resolve")) = 10
  BY DEF Plan, BreakPlan, ResetPlan, ResolvePlan

LEMMA PlansAreSequences ==
  ASSUME NEW op \in Ops
  PROVE  Plan(op) \in Seq(Calls)
  <1>1. /\ Plan("break") = BreakPlan /\ Plan("reset") = ResetPlan
        /\ Plan("resolve") = ResolvePlan
    BY DEF Plan
  <1>2. BreakPlan \in Seq(Calls)
    BY DEF BreakPlan, Calls
  <1>3. ResetPlan \in Seq(Calls)
    BY DEF ResetPlan, Calls
  <1>4. ResolvePlan \in Seq(Calls)
    BY DEF ResolvePlan, Calls
  <1>5. QED
    BY <1>1, <1>2, <1>3, <1>4 DEF Ops

LEMMA BreakCalls ==
  /\ Plan("break")[1] = "look" /\ Plan("break")[2] = "record"
  /\ Plan("break")[3] = "reference" /\ Plan("break")[4] = "evaluate"
  /\ Plan("break")[5] = "standing" /\ Plan("break")[6] = "journal"
  BY DEF Plan, BreakPlan

LEMMA ResetCalls ==
  /\ Plan("reset")[1] = "read_old" /\ Plan("reset")[2] = "reopen"
  /\ Plan("reset")[3] = "archive" /\ Plan("reset")[4] = "record"
  /\ Plan("reset")[5] = "reference" /\ Plan("reset")[6] = "evaluate"
  /\ Plan("reset")[7] = "standing" /\ Plan("reset")[8] = "journal"
  BY DEF Plan, ResetPlan

LEMMA ResolveCalls ==
  /\ Plan("resolve")[1] = "find" /\ Plan("resolve")[2] = "read_old"
  /\ Plan("resolve")[3] = "read_new" /\ Plan("resolve")[4] = "save_new"
  /\ Plan("resolve")[5] = "supersede" /\ Plan("resolve")[6] = "read_saved"
  /\ Plan("resolve")[7] = "reference" /\ Plan("resolve")[8] = "evaluate"
  /\ Plan("resolve")[9] = "standing" /\ Plan("resolve")[10] = "journal"
  BY DEF Plan, ResolvePlan

LEMMA Nothing ==
  ASSUME NEW s \in Seq(Calls)
  PROVE  Len(s) \in Nat /\ (s = << >> <=> Len(s) = 0)
  OBVIOUS

LEMMA HeadTail ==
  ASSUME NEW s \in Seq(Calls), s # << >>
  PROVE  /\ Tail(s) \in Seq(Calls) /\ Len(Tail(s)) = Len(s) - 1
         /\ Head(s) = s[1] /\ Len(s) >= 1
         /\ \A i \in 1..Len(s) - 1 : Tail(s)[i] = s[i + 1]
  OBVIOUS

LEMMA IdleIsState == Idle \in States /\ Idle.op = "none" /\ Idle.todo = << >>
                     /\ Idle.saw = "none" /\ Idle.row = NoRow /\ Idle.alone = TRUE
  BY DEF Idle, States

(* Who has a call to make is busy with it, and its place in the plan tells  *)
(* how much is left.                                                        *)
LEMMA AtWork ==
  ASSUME TypeOK, NEW t \in Threads, NEW call, At(t, call)
  PROVE  /\ thread[t] \in States /\ thread[t] # Idle /\ OnPlan(thread[t]) /\ t \in Busy
         /\ thread[t].todo # << >> /\ Left(t) \in 1..Len(Plan(thread[t].op))
         /\ call = Plan(thread[t].op)[Len(Plan(thread[t].op)) - Left(t) + 1]
  <1>1. thread[t] \in States /\ thread[t].todo # << >> /\ Head(thread[t].todo) = call
    BY DEF TypeOK, At
  <1>2. thread[t] # Idle /\ OnPlan(thread[t]) /\ t \in Busy
    BY <1>1, IdleIsState DEF TypeOK, Busy
  <1>3. thread[t].todo \in Seq(Calls)
    BY <1>1 DEF States
  <1>4. Head(thread[t].todo) = thread[t].todo[1]
    BY <1>1, <1>3, HeadTail
  <1>5. Len(thread[t].todo) \in Nat /\ Len(Plan(thread[t].op)) \in Nat
    BY <1>2, <1>3, PlansAreSequences, Nothing DEF OnPlan
  <1>6. 1 \in 1..Left(t) /\ Left(t) \in 1..Len(Plan(thread[t].op))
    BY <1>2, <1>5 DEF OnPlan, Left
  <1>7. thread[t].todo[1] = Plan(thread[t].op)[Len(Plan(thread[t].op)) - Left(t) + 1]
    BY <1>2, <1>6 DEF OnPlan, Left
  <1>8. QED
    BY <1>1, <1>2, <1>4, <1>6, <1>7

LEMMA Places ==
  ASSUME TypeOK, NEW t \in Threads, NEW call, At(t, call)
  PROVE  /\ call = "look" => Is(t, "break") /\ Left(t) = 6
         /\ call = "find" => Is(t, "resolve") /\ Left(t) = 10
         /\ call = "read_old" => (Is(t, "resolve") /\ Left(t) = 9) \/ (Is(t, "reset") /\ Left(t) = 8)
         /\ call = "reopen" => Is(t, "reset") /\ Left(t) = 7
         /\ call = "archive" => Is(t, "reset") /\ Left(t) = 6
         /\ call = "record" => thread[t].op \in {"break", "reset"} /\ Left(t) = 5
         /\ call = "reference" => Left(t) = 4
         /\ call = "read_new" => Is(t, "resolve") /\ Left(t) = 8
         /\ call = "save_new" => Is(t, "resolve") /\ Left(t) = 7
         /\ call = "supersede" => Is(t, "resolve") /\ Left(t) = 6
         /\ call = "read_saved" => Is(t, "resolve") /\ Left(t) = 5
         /\ call = "evaluate" => Left(t) = 3
         /\ call = "standing" => Left(t) = 2
         /\ call = "journal" => Left(t) = 1
  <1>1. /\ thread[t].op \in Ops /\ Left(t) \in 1..Len(Plan(thread[t].op))
        /\ call = Plan(thread[t].op)[Len(Plan(thread[t].op)) - Left(t) + 1]
    BY AtWork DEF OnPlan
  <1>2. CASE thread[t].op = "break"
    <2>1. Left(t) \in 1..6 /\ call = Plan("break")[6 - Left(t) + 1]
      BY <1>1, <1>2, PlanLengths
    <2>2. PICK n \in 1..6 : Left(t) = 7 - n /\ call = Plan("break")[n]
      BY <2>1
    <2>3. \/ (Left(t) = 6 /\ call = "look") \/ (Left(t) = 5 /\ call = "record")
          \/ (Left(t) = 4 /\ call = "reference") \/ (Left(t) = 3 /\ call = "evaluate")
          \/ (Left(t) = 2 /\ call = "standing") \/ (Left(t) = 1 /\ call = "journal")
      BY <2>2, BreakCalls
    <2>4. QED
      BY <1>2, <2>3 DEF Is
  <1>3. CASE thread[t].op = "reset"
    <2>1. Left(t) \in 1..8 /\ call = Plan("reset")[8 - Left(t) + 1]
      BY <1>1, <1>3, PlanLengths
    <2>2. PICK n \in 1..8 : Left(t) = 9 - n /\ call = Plan("reset")[n]
      BY <2>1
    <2>3. \/ (Left(t) = 8 /\ call = "read_old") \/ (Left(t) = 7 /\ call = "reopen")
          \/ (Left(t) = 6 /\ call = "archive") \/ (Left(t) = 5 /\ call = "record")
          \/ (Left(t) = 4 /\ call = "reference") \/ (Left(t) = 3 /\ call = "evaluate")
          \/ (Left(t) = 2 /\ call = "standing") \/ (Left(t) = 1 /\ call = "journal")
      BY <2>2, ResetCalls
    <2>4. QED
      BY <1>3, <2>3 DEF Is
  <1>4. CASE thread[t].op = "resolve"
    <2>1. Left(t) \in 1..10 /\ call = Plan("resolve")[10 - Left(t) + 1]
      BY <1>1, <1>4, PlanLengths
    <2>2. PICK n \in 1..10 : Left(t) = 11 - n /\ call = Plan("resolve")[n]
      BY <2>1
    <2>3. \/ (Left(t) = 10 /\ call = "find") \/ (Left(t) = 9 /\ call = "read_old")
          \/ (Left(t) = 8 /\ call = "read_new") \/ (Left(t) = 7 /\ call = "save_new")
          \/ (Left(t) = 6 /\ call = "supersede") \/ (Left(t) = 5 /\ call = "read_saved")
          \/ (Left(t) = 4 /\ call = "reference") \/ (Left(t) = 3 /\ call = "evaluate")
          \/ (Left(t) = 2 /\ call = "standing") \/ (Left(t) = 1 /\ call = "journal")
      BY <2>2, ResolveCalls
    <2>4. QED
      BY <1>4, <2>3 DEF Is
  <1>5. QED
    BY <1>1, <1>2, <1>3, <1>4 DEF Ops

-----------------------------------------------------------------------------
(* t makes a call, after which it has m of them left; with none left it has *)
(* answered.                                                                *)
Moves(t, m) ==
  /\ t \in Busy /\ m \in 0..Left(t) - 1
  /\ thread' \in [Threads -> States]
  /\ \A u \in Threads \ {t} : thread'[u] = thread[u]
  /\ m = 0 => thread'[t] = Idle /\ last' = [op |-> thread[t].op, alone |-> thread[t].alone]
  /\ m > 0 => /\ OnPlan(thread'[t]) /\ thread'[t].op = thread[t].op
              /\ thread'[t].alone = thread[t].alone /\ Len(thread'[t].todo) = m
              /\ last' = last
  /\ UNCHANGED <<clock, calls, overlapped, failed>>

LEMMA GoMoves ==
  ASSUME TypeOK, NEW t \in Threads, NEW new \in States, Go(t, new),
         thread[t].todo # << >>, Len(new.todo) < Left(t),
         new.op = thread[t].op, new.alone = thread[t].alone,
         new.todo # << >> => OnPlan(new)
  PROVE  /\ Moves(t, Len(new.todo))
         /\ Len(new.todo) > 0 => thread'[t] = new
  <1>1. new.todo \in Seq(Calls) /\ thread[t].todo \in Seq(Calls)
    BY DEF TypeOK, States
  <1>2. t \in Busy
    BY IdleIsState DEF Busy
  <1>3. Len(new.todo) \in 0..Left(t) - 1
    BY <1>1, Nothing DEF Left
  <1>4. thread' = [thread EXCEPT ![t] = IF new.todo = << >> THEN Idle ELSE new]
    BY DEF Go
  <1>5. /\ thread' \in [Threads -> States]
        /\ \A u \in Threads \ {t} : thread'[u] = thread[u]
        /\ thread'[t] = IF new.todo = << >> THEN Idle ELSE new
    BY <1>4, IdleIsState DEF TypeOK
  <1>6. new.todo = << >> <=> Len(new.todo) = 0
    BY <1>1, Nothing
  <1>7. /\ last' = IF new.todo = << >> THEN [op |-> new.op, alone |-> new.alone] ELSE last
        /\ UNCHANGED <<clock, calls, overlapped, failed>>
    BY DEF Go
  <1>8. QED
    BY <1>1, <1>2, <1>3, <1>5, <1>6, <1>7 DEF Moves

(* What is left after the next call is an end of the plan too.              *)
LEMMA TailOnPlan ==
  ASSUME NEW j \in States, NEW k \in States, OnPlan(j),
         k.op = j.op, k.todo = Tail(j.todo)
  PROVE  /\ Len(k.todo) = Len(j.todo) - 1
         /\ k.todo # << >> => OnPlan(k)
  <1>1. j.todo \in Seq(Calls) /\ k.todo \in Seq(Calls)
    BY DEF States
  <1>2. Len(j.todo) \in 1..Len(Plan(j.op)) /\ j.op \in Ops
    BY DEF OnPlan
  <1>3. Plan(j.op) \in Seq(Calls)
    BY <1>2, PlansAreSequences
  <1>4. j.todo # << >> /\ Len(j.todo) \in Nat /\ Len(Plan(j.op)) \in Nat
    BY <1>1, <1>2, <1>3, Nothing
  <1>5. /\ Len(k.todo) = Len(j.todo) - 1
        /\ \A i \in 1..Len(j.todo) - 1 : k.todo[i] = j.todo[i + 1]
    BY <1>1, <1>4, HeadTail
  <1>6. ASSUME k.todo # << >> PROVE OnPlan(k)
    <2>1. Len(k.todo) \in 1..Len(Plan(k.op))
      BY <1>1, <1>2, <1>4, <1>5, <1>6, Nothing
    <2>2. ASSUME NEW i \in 1..Len(k.todo)
          PROVE  k.todo[i] = Plan(k.op)[Len(Plan(k.op)) - Len(k.todo) + i]
      <3>1. i + 1 \in 1..Len(j.todo) /\ i \in 1..Len(j.todo) - 1
        BY <1>4, <1>5, <2>2
      <3>2. j.todo[i + 1] = Plan(j.op)[Len(Plan(j.op)) - Len(j.todo) + (i + 1)]
        BY <3>1 DEF OnPlan
      <3>3. Len(Plan(j.op)) - Len(j.todo) + (i + 1) = Len(Plan(k.op)) - Len(k.todo) + i
        <4>1. PICK p \in Nat, n \in Nat : p = Len(Plan(j.op)) /\ n = Len(j.todo)
          BY <1>4
        <4>2. i \in Int /\ n \in Int /\ p \in Int /\ Len(k.todo) = n - 1
          BY <1>5, <4>1
        <4>3. p - n + (i + 1) = p - (n - 1) + i
          BY <4>2
        <4>4. QED
          BY <4>1, <4>2, <4>3
      <3>4. QED
        BY <1>5, <3>1, <3>2, <3>3
    <2>3. QED
      BY <1>2, <2>1, <2>2 DEF OnPlan
  <1>7. QED
    BY <1>5, <1>6

(* One call made, and nothing read for later.                               *)
LEMMA OnwardMoves ==
  ASSUME TypeOK, NEW t \in Threads, NEW call, At(t, call), Go(t, Onward(t))
  PROVE  /\ Moves(t, Left(t) - 1) /\ Left(t) >= 1
         /\ Left(t) > 1 => thread'[t].saw = thread[t].saw /\ thread'[t].row = thread[t].row
  <1>1. thread[t] \in States /\ OnPlan(thread[t]) /\ thread[t].todo # << >>
    BY AtWork
  <1>2. thread[t].todo \in Seq(Calls)
    BY <1>1 DEF States
  <1>20. Tail(thread[t].todo) \in Seq(Calls)
        /\ Len(thread[t].todo) >= 1 /\ Len(thread[t].todo) \in Nat
    BY <1>1, <1>2, HeadTail, Nothing
  <1> DEFINE new == Onward(t)
  <1>3. /\ new \in States /\ new.op = thread[t].op /\ new.alone = thread[t].alone
        /\ new.saw = thread[t].saw /\ new.row = thread[t].row
        /\ new.todo = Tail(thread[t].todo)
    BY <1>1, <1>20 DEF Onward, States
  <1>4. Len(new.todo) = Left(t) - 1 /\ (new.todo # << >> => OnPlan(new))
    BY <1>1, <1>3, TailOnPlan DEF Left
  <1>5. Go(t, new)
    OBVIOUS
  <1> HIDE DEF new
  <1>6. QED
    <2>1. Len(new.todo) < Left(t)
      BY <1>4, <1>20 DEF Left
    <2>2. /\ Moves(t, Len(new.todo))
          /\ Len(new.todo) > 0 => thread'[t] = new
      BY <1>1, <1>3, <1>4, <1>5, <2>1, GoMoves
    <2>3. QED
      BY <1>3, <1>4, <1>20, <2>2 DEF Left

-----------------------------------------------------------------------------
(* What each call finds and leaves behind.                                  *)
LEMMA RowsOfTheScenario ==
  /\ InitialRow \in Rows /\ ChangedRow \in Rows
  /\ InitialRow.uid = 1 /\ InitialRow.value = 365 /\ InitialRow.eff = 0
  /\ InitialRow.recorded = 0 /\ InitialRow.ref = NoUID /\ InitialRow.until = NoTime
  /\ ~InitialRow.revoked /\ InitialRow.accepted
  /\ ChangedRow.uid = 2 /\ ChangedRow.value = 90 /\ ChangedRow.eff = 1
  /\ ChangedRow.recorded = 2 /\ ChangedRow.ref = NoUID /\ ChangedRow.until = NoTime
  /\ ~ChangedRow.revoked /\ ChangedRow.accepted
  <1>1. 1 \in UIDs /\ 2 \in UIDs
    BY SandboxUIDs, MaxCallsType
  <1>2. 0 \in Times /\ 1 \in Times /\ 2 \in Times
    BY SandboxDates, TimeBound DEF Times, ResetOn
  <1>3. QED
    BY <1>1, <1>2, SandboxValues
       DEF InitialRow, ChangedRow, Row, Rows, DecidedOn, ChangedOn, FoundOn

(* A call that reads or computes something for later.                       *)
LEMMA OneCallMoves ==
  ASSUME TypeOK, NEW t \in Threads, NEW call, At(t, call), NEW new \in States, Go(t, new),
         new.op = thread[t].op, new.alone = thread[t].alone, new.todo = Tail(thread[t].todo)
  PROVE  /\ Moves(t, Left(t) - 1) /\ Left(t) >= 1
         /\ Left(t) > 1 => thread'[t] = new
  <1>1. thread[t] \in States /\ OnPlan(thread[t]) /\ thread[t].todo # << >>
    BY AtWork
  <1>2. thread[t].todo \in Seq(Calls)
    BY <1>1 DEF States
  <1>3. Len(thread[t].todo) >= 1 /\ Len(thread[t].todo) \in Nat
    BY <1>1, <1>2, HeadTail, Nothing
  <1>4. Len(new.todo) = Left(t) - 1 /\ (new.todo # << >> => OnPlan(new))
    BY <1>1, TailOnPlan DEF Left
  <1>5. Len(new.todo) < Left(t)
    BY <1>3, <1>4 DEF Left
  <1>6. /\ Moves(t, Len(new.todo))
        /\ Len(new.todo) > 0 => thread'[t] = new
    BY <1>1, <1>4, <1>5, GoMoves
  <1>7. QED
    BY <1>3, <1>4, <1>6 DEF Left

(* A call after which the request has nothing more to do.                   *)
LEMMA DoneMoves ==
  ASSUME TypeOK, NEW t \in Threads, NEW call, At(t, call), Go(t, Done(t))
  PROVE  Moves(t, 0)
  <1>1. thread[t] \in States /\ OnPlan(thread[t]) /\ thread[t].todo # << >>
    BY AtWork
  <1>2. thread[t].todo \in Seq(Calls) /\ << >> \in Seq(Calls)
    BY <1>1 DEF States
  <1>3. Len(thread[t].todo) >= 1 /\ Len(<< >>) = 0
    BY <1>1, <1>2, HeadTail
  <1> DEFINE new == Done(t)
  <1>4. new \in States /\ new.op = thread[t].op /\ new.alone = thread[t].alone /\ new.todo = << >>
    BY <1>1, <1>2 DEF Done, States
  <1>5. Go(t, new)
    OBVIOUS
  <1> HIDE DEF new
  <1>6. Len(new.todo) < Left(t) /\ Len(new.todo) = 0
    BY <1>3, <1>4 DEF Left
  <1>7. QED
    BY <1>1, <1>4, <1>5, <1>6, GoMoves

LEMMA LookMoves ==
  ASSUME TypeOK, NEW t \in Threads, Look(t)
  PROVE  /\ Is(t, "break") /\ Left(t) = 6 /\ UNCHANGED store
         /\ Moves(t, 5) \/ (Moves(t, 4) /\ ChangedRow \in ledger)
         /\ thread'[t].row = ChangedRow
  <1>1. At(t, "look") /\ UNCHANGED store
    BY DEF Look
  <1>2. Is(t, "break") /\ Left(t) = 6
    BY <1>1, Places
  <1>3. thread[t] \in States /\ OnPlan(thread[t]) /\ thread[t].todo # << >>
    BY <1>1, AtWork
  <1>4. thread[t].todo \in Seq(Calls)
    BY <1>3 DEF States
  <1>5. Tail(thread[t].todo) \in Seq(Calls) /\ Len(Tail(thread[t].todo)) = 5
    BY <1>2, <1>3, <1>4, HeadTail DEF Left
  <1>6. CASE ChangedRow \notin ledger
    <2> DEFINE new == [Onward(t) EXCEPT !.row = ChangedRow]
    <2>1. /\ new \in States /\ new.op = thread[t].op /\ new.alone = thread[t].alone
          /\ new.todo = Tail(thread[t].todo) /\ new.row = ChangedRow
      BY <1>3, <1>5, RowsOfTheScenario DEF Onward, States
    <2>2. Go(t, new)
      BY <1>6 DEF Look
    <2> HIDE DEF new
    <2>3. QED
      BY <1>1, <1>2, <2>1, <2>2, OneCallMoves
  <1>7. CASE ChangedRow \in ledger
    <2> DEFINE k == Onward(t)
               new == [k EXCEPT !.todo = Tail(@), !.row = ChangedRow]
    <2>1. /\ k \in States /\ k.op = thread[t].op /\ k.alone = thread[t].alone
          /\ k.todo = Tail(thread[t].todo)
      BY <1>3, <1>5 DEF Onward, States
    <2>2. Go(t, new)
      BY <1>7 DEF Look
    <2> HIDE DEF k
    <2>3. k.todo # << >> /\ k.todo \in Seq(Calls) /\ Len(k.todo) = 5
      <3>1. \A s \in Seq(Calls) : Len(s) = 5 => s # << >>
        BY Nothing
      <3>2. k.todo \in Seq(Calls)
        BY <2>1 DEF States
      <3>3. Len(k.todo) = Len(thread[t].todo) - 1
        BY <1>3, <2>1, TailOnPlan
      <3>4. QED
        BY <1>2, <3>1, <3>2, <3>3 DEF Left
    <2>10. OnPlan(k)
      BY <1>3, <2>1, <2>3, TailOnPlan
    <2>4. Tail(k.todo) \in Seq(Calls) /\ Len(Tail(k.todo)) = 4
      BY <2>3, HeadTail
    <2>5. /\ new \in States /\ new.op = k.op /\ new.alone = k.alone
          /\ new.todo = Tail(k.todo) /\ new.row = ChangedRow
      BY <2>1, <2>4, RowsOfTheScenario DEF States
    <2> HIDE DEF new
    <2>6. new.todo # << >> => OnPlan(new)
      BY <2>1, <2>10, <2>5, TailOnPlan
    <2>12. Len(new.todo) = Len(k.todo) - 1
      BY <2>1, <2>10, <2>5, TailOnPlan
    <2>7. Len(new.todo) < Left(t) /\ Len(new.todo) = 4 /\ 4 > 0
      BY <1>2, <2>3, <2>12
    <2>11. new.op = thread[t].op /\ new.alone = thread[t].alone
      BY <2>1, <2>5
    <2>8. Moves(t, 4) /\ thread'[t] = new
      BY <1>3, <2>2, <2>5, <2>11, <2>6, <2>7, GoMoves
    <2>9. QED
      BY <1>1, <1>2, <1>7, <2>5, <2>8
  <1>8. QED
    BY <1>6, <1>7

LEMMA FindMoves ==
  ASSUME TypeOK, NEW t \in Threads, Find(t)
  PROVE  /\ Is(t, "resolve") /\ Left(t) = 10 /\ UNCHANGED store
         /\ Moves(t, 9) \/ (Moves(t, 0) /\ storage)
  <1>1. At(t, "find") /\ UNCHANGED store
    BY DEF Find
  <1>2. Is(t, "resolve") /\ Left(t) = 10
    BY <1>1, Places
  <1>3. CASE storage
    BY <1>1, <1>2, <1>3, DoneMoves DEF Find
  <1>4. CASE ~storage
    BY <1>1, <1>2, <1>4, OnwardMoves DEF Find
  <1>5. QED
    BY <1>3, <1>4

LEMMA ReadOldMoves ==
  ASSUME TypeOK, NEW t \in Threads, ReadOld(t)
  PROVE  /\ (Is(t, "resolve") /\ Left(t) = 9) \/ (Is(t, "reset") /\ Left(t) = 8)
         /\ UNCHANGED store /\ Moves(t, Left(t) - 1) /\ thread'[t].saw = acme
  <1>1. At(t, "read_old") /\ UNCHANGED store /\ Go(t, [Onward(t) EXCEPT !.saw = acme])
    BY DEF ReadOld
  <1>2. (Is(t, "resolve") /\ Left(t) = 9) \/ (Is(t, "reset") /\ Left(t) = 8)
    BY <1>1, Places
  <1>3. thread[t] \in States /\ OnPlan(thread[t]) /\ thread[t].todo # << >>
    BY <1>1, AtWork
  <1>4. thread[t].todo \in Seq(Calls)
    BY <1>3 DEF States
  <1>5. Tail(thread[t].todo) \in Seq(Calls)
    BY <1>3, <1>4, HeadTail
  <1> DEFINE new == [Onward(t) EXCEPT !.saw = acme]
  <1>6. /\ new \in States /\ new.op = thread[t].op /\ new.alone = thread[t].alone
        /\ new.todo = Tail(thread[t].todo) /\ new.saw = acme
    BY <1>3, <1>5 DEF Onward, States, TypeOK
  <1>7. Go(t, new)
    BY <1>1
  <1> HIDE DEF new
  <1>8. QED
    BY <1>1, <1>2, <1>6, <1>7, OneCallMoves

LEMMA RecordMoves ==
  ASSUME TypeOK, NEW t \in Threads, Record(t), Is(t, "reset") => ResetRow(clock) \in Rows
  PROVE  /\ thread[t].op \in {"break", "reset"} /\ Left(t) = 5 /\ Moves(t, 4)
         /\ thread'[t].row = IF Is(t, "reset") THEN ResetRow(clock) ELSE thread[t].row
         /\ ledger' = ledger \cup {thread'[t].row}
         /\ UNCHANGED <<acme, storage, archive, reference, supported, standing, journal>>
  <1> DEFINE row == IF thread[t].op = "reset" THEN ResetRow(clock) ELSE thread[t].row
             new == [Onward(t) EXCEPT !.row = row]
  <1>1. /\ At(t, "record") /\ ledger' = ledger \cup {row} /\ Go(t, new)
        /\ UNCHANGED <<acme, storage, archive, reference, supported, standing, journal>>
    BY DEF Record
  <1>2. thread[t].op \in {"break", "reset"} /\ Left(t) = 5
    BY <1>1, Places
  <1>3. thread[t] \in States /\ OnPlan(thread[t]) /\ thread[t].todo # << >>
    BY <1>1, AtWork
  <1>4. thread[t].todo \in Seq(Calls) /\ row \in Rows \cup {NoRow}
    BY <1>3 DEF States, Is
  <1>5. Tail(thread[t].todo) \in Seq(Calls)
    BY <1>3, <1>4, HeadTail
  <1> HIDE DEF row
  <1>6. /\ new \in States /\ new.op = thread[t].op /\ new.alone = thread[t].alone
        /\ new.todo = Tail(thread[t].todo) /\ new.row = row
    BY <1>3, <1>4, <1>5 DEF Onward, States
  <1> HIDE DEF new
  <1>7. Moves(t, 4) /\ thread'[t] = new
    BY <1>1, <1>2, <1>6, OneCallMoves
  <1>8. QED
    BY <1>1, <1>2, <1>6, <1>7 DEF row, Is

LEMMA ReopenMoves ==
  ASSUME TypeOK, NEW t \in Threads, Reopen(t)
  PROVE  /\ Is(t, "reset") /\ Left(t) = 7 /\ Moves(t, 6)
         /\ acme' = IF thread[t].saw = "SUPERSEDED" THEN "CURRENT" ELSE acme
         /\ UNCHANGED <<storage, archive, ledger, reference, supported, standing, journal>>
  <1>1. At(t, "reopen") /\ Go(t, Onward(t))
    BY DEF Reopen
  <1>2. QED
    BY <1>1, Places, OnwardMoves DEF Reopen

LEMMA ArchiveMoves ==
  ASSUME TypeOK, NEW t \in Threads, Archive(t)
  PROVE  /\ Is(t, "reset") /\ Left(t) = 6 /\ Moves(t, 5) /\ storage' = FALSE
         /\ UNCHANGED <<acme, ledger, reference, supported, standing, journal>>
  <1>1. At(t, "archive") /\ Go(t, Onward(t))
    BY DEF Archive
  <1>2. QED
    BY <1>1, Places, OnwardMoves DEF Archive

LEMMA SaveReferenceMoves ==
  ASSUME TypeOK, NEW t \in Threads, SaveReference(t)
  PROVE  /\ Left(t) = 4 /\ Moves(t, 3) /\ thread'[t].row = thread[t].row
         /\ reference' = IF Is(t, "resolve") THEN reference ELSE thread[t].row
         /\ UNCHANGED <<acme, storage, archive, ledger, standing, journal>>
  <1>1. At(t, "reference") /\ Go(t, Onward(t))
    BY DEF SaveReference
  <1>2. Left(t) = 4 /\ Moves(t, 3) /\ thread'[t].row = thread[t].row
    BY <1>1, Places, OnwardMoves
  <1>3. QED
    BY <1>2 DEF SaveReference, Is

LEMMA ReadNewMoves ==
  ASSUME TypeOK, NEW t \in Threads, ReadNew(t)
  PROVE  Is(t, "resolve") /\ Left(t) = 8 /\ Moves(t, 7) /\ UNCHANGED store
  <1>1. At(t, "read_new") /\ Go(t, Onward(t)) /\ UNCHANGED store
    BY DEF ReadNew
  <1>2. QED
    BY <1>1, Places, OnwardMoves

LEMMA SaveNewMoves ==
  ASSUME TypeOK, NEW t \in Threads, SaveNew(t)
  PROVE  /\ Is(t, "resolve") /\ Left(t) = 7 /\ Moves(t, 6) /\ storage' = TRUE
         /\ UNCHANGED <<acme, archive, ledger, reference, supported, standing, journal>>
  <1>1. At(t, "save_new") /\ Go(t, Onward(t))
    BY DEF SaveNew
  <1>2. QED
    BY <1>1, Places, OnwardMoves DEF SaveNew

LEMMA SupersedeMoves ==
  ASSUME TypeOK, NEW t \in Threads, Supersede(t)
  PROVE  /\ Is(t, "resolve") /\ Left(t) = 6 /\ Moves(t, 5) /\ acme' = "SUPERSEDED"
         /\ UNCHANGED <<storage, archive, ledger, reference, supported, standing, journal>>
  <1>1. At(t, "supersede") /\ Go(t, Onward(t))
    BY DEF Supersede
  <1>2. QED
    BY <1>1, Places, OnwardMoves DEF Supersede

LEMMA ReadSavedMoves ==
  ASSUME TypeOK, NEW t \in Threads, ReadSaved(t)
  PROVE  Is(t, "resolve") /\ Left(t) = 5 /\ Moves(t, 4) /\ UNCHANGED store
  <1>1. At(t, "read_saved") /\ Go(t, Onward(t)) /\ UNCHANGED store
    BY DEF ReadSaved
  <1>2. QED
    BY <1>1, Places, OnwardMoves

LEMMA EvaluateMoves ==
  ASSUME TypeOK, NEW t \in Threads, Evaluate(t)
  PROVE  /\ Left(t) = 3 /\ UNCHANGED store
         /\ \/ Moves(t, 2) /\ thread'[t].row = thread[t].row
            \/ Moves(t, 0) /\ Is(t, "break") /\ reference.value >= 365
  <1>1. At(t, "evaluate") /\ UNCHANGED store
    BY DEF Evaluate
  <1>2. \/ Go(t, Done(t)) /\ thread[t].op = "break" /\ reference.value >= 365
        \/ Go(t, Onward(t))
    BY DEF Evaluate
  <1>3. Left(t) = 3
    BY <1>1, Places
  <1>4. CASE Go(t, Done(t)) /\ thread[t].op = "break" /\ reference.value >= 365
    BY <1>1, <1>3, <1>4, DoneMoves DEF Is
  <1>5. CASE Go(t, Onward(t))
    BY <1>1, <1>3, <1>5, OnwardMoves
  <1>6. QED
    BY <1>2, <1>4, <1>5

LEMMA SaveStandingMoves ==
  ASSUME TypeOK, NEW t \in Threads, SaveStanding(t)
  PROVE  /\ Left(t) = 2 /\ Moves(t, 1) /\ thread'[t].row = thread[t].row
         /\ standing' \in [ACME : Actions, STORAGE : Actions]
         /\ standing'.ACME = IF Is(t, "resolve") THEN standing.ACME ELSE ActionOf(thread[t].op)
         /\ standing'.STORAGE = IF Is(t, "resolve") THEN "allow" ELSE standing.STORAGE
         /\ UNCHANGED <<acme, storage, archive, ledger, reference, supported, journal>>
  <1>1. At(t, "standing") /\ Go(t, Onward(t))
    BY DEF SaveStanding
  <1>2. Left(t) = 2 /\ Moves(t, 1) /\ thread'[t].row = thread[t].row
    BY <1>1, Places, OnwardMoves
  <1>3. ActionOf(thread[t].op) \in Actions
    BY DEF ActionOf, Actions
  <1>4. CASE thread[t].op = "resolve"
    <2>1. standing' = [standing EXCEPT !["STORAGE"] = "allow"]
      BY <1>4 DEF SaveStanding, Subject, ActionOf
    <2>2. QED
      BY <1>2, <1>4, <2>1 DEF SaveStanding, Is, TypeOK, Actions
  <1>5. CASE thread[t].op # "resolve"
    <2>1. standing' = [standing EXCEPT !["ACME"] = ActionOf(thread[t].op)]
      BY <1>5 DEF SaveStanding, Subject
    <2>2. QED
      BY <1>2, <1>3, <1>5, <2>1 DEF SaveStanding, Is, TypeOK
  <1>6. QED
    BY <1>4, <1>5

LEMMA JournalStandingMoves ==
  ASSUME TypeOK, NEW t \in Threads, JournalStanding(t)
  PROVE  /\ Left(t) = 1 /\ Moves(t, 0)
         /\ journal' \in [ACME : Actions, STORAGE : Actions]
         /\ journal'.ACME = IF Is(t, "resolve") THEN journal.ACME ELSE ActionOf(thread[t].op)
         /\ journal'.STORAGE = IF Is(t, "resolve") THEN "allow" ELSE journal.STORAGE
         /\ UNCHANGED <<acme, storage, archive, ledger, reference, supported, standing>>
  <1>1. At(t, "journal") /\ Go(t, Onward(t))
    BY DEF JournalStanding
  <1>2. Left(t) = 1 /\ Moves(t, 0)
    BY <1>1, Places, OnwardMoves
  <1>3. ActionOf(thread[t].op) \in Actions
    BY DEF ActionOf, Actions
  <1>4. CASE thread[t].op = "resolve"
    <2>1. journal' = [journal EXCEPT !["STORAGE"] = "allow"]
      BY <1>4 DEF JournalStanding, Subject, ActionOf
    <2>2. QED
      BY <1>2, <1>4, <2>1 DEF JournalStanding, Is, TypeOK, Actions
  <1>5. CASE thread[t].op # "resolve"
    <2>1. journal' = [journal EXCEPT !["ACME"] = ActionOf(thread[t].op)]
      BY <1>5 DEF JournalStanding, Subject
    <2>2. QED
      BY <1>2, <1>3, <1>5, <2>1 DEF JournalStanding, Is, TypeOK
  <1>6. QED
    BY <1>4, <1>5

-----------------------------------------------------------------------------
(* A request that arrives finds its thread idle, and ends the solitude of   *)
(* the others.                                                              *)
LEMMA RequestArrives ==
  ASSUME TypeOK, NEW t \in Threads, NEW op \in Ops, Request(t, op)
  PROVE  /\ thread[t] = Idle /\ thread' \in [Threads -> States]
         /\ OnPlan(thread'[t]) /\ thread'[t].op = op /\ Len(thread'[t].todo) = Len(Plan(op))
         /\ thread'[t].alone = (Busy = {})
         /\ \A u \in Threads \ {t} :
              /\ thread[u] = Idle => thread'[u] = Idle
              /\ thread[u] # Idle =>
                   /\ OnPlan(thread'[u]) /\ thread'[u].op = thread[u].op
                   /\ thread'[u].todo = thread[u].todo /\ thread'[u].saw = thread[u].saw
                   /\ thread'[u].row = thread[u].row /\ thread'[u].alone = FALSE
         /\ overlapped' = overlapped \cup {{op, thread[u].op} : u \in Busy}
         /\ calls' = calls + 1 /\ calls' \in 0..MaxCalls
         /\ UNCHANGED <<clock, store, failed, last>>
  <1>1. /\ thread[t] = Idle /\ calls < MaxCalls /\ calls' = calls + 1
        /\ overlapped' = overlapped \cup {{op, thread[u].op} : u \in Busy}
        /\ UNCHANGED <<clock, store, failed, last>>
    BY DEF Request
  <1> DEFINE lone == Busy = {}
             mine == [Idle EXCEPT !.op = op, !.todo = Plan(op), !.alone = lone]
             other(u) == [thread[u] EXCEPT !.alone = FALSE]
  <1>2. thread' = [u \in Threads |->
          IF u = t THEN mine ELSE IF u \in Busy THEN other(u) ELSE Idle]
    BY DEF Request
  <1>3. Plan(op) \in Seq(Calls) /\ Len(Plan(op)) \in Nat /\ Len(Plan(op)) >= 1
    <2>1. Plan(op) \in Seq(Calls)
      BY PlansAreSequences
    <2>2. PICK n \in {6, 8, 10} : n = Len(Plan(op))
      BY PlanLengths DEF Ops
    <2>3. Len(Plan(op)) \in Nat /\ Len(Plan(op)) >= 1
      BY <2>2
    <2>4. QED
      BY <2>1, <2>3
  <1>4. lone \in BOOLEAN
    OBVIOUS
  <1> HIDE DEF lone
  <1>5. /\ mine \in States /\ mine.op = op /\ mine.todo = Plan(op) /\ mine.alone = lone
    BY <1>3, <1>4 DEF Idle, States
  <1>6. OnPlan(mine)
    <2>1. Len(mine.todo) = Len(Plan(mine.op))
      BY <1>5
    <2>2. Len(Plan(op)) - Len(Plan(op)) = 0
      BY <1>3
    <2>3. \A i \in 1..Len(Plan(op)) : 0 + i = i
      BY <1>3
    <2>4. QED
      BY <1>3, <1>5, <2>1, <2>2, <2>3 DEF OnPlan
  <1>7. ASSUME NEW u \in Busy
        PROVE  /\ other(u) \in States /\ OnPlan(other(u)) /\ other(u).op = thread[u].op
               /\ other(u).todo = thread[u].todo /\ other(u).saw = thread[u].saw
               /\ other(u).row = thread[u].row /\ other(u).alone = FALSE
    <2>1. thread[u] \in States /\ OnPlan(thread[u])
      BY DEF Busy, TypeOK
    <2>2. /\ other(u) \in States /\ other(u).op = thread[u].op
          /\ other(u).todo = thread[u].todo /\ other(u).saw = thread[u].saw
          /\ other(u).row = thread[u].row /\ other(u).alone = FALSE
      BY <2>1 DEF States
    <2> HIDE DEF other
    <2>3. OnPlan(other(u))
      BY <2>1, <2>2 DEF OnPlan
    <2>4. QED
      BY <2>2, <2>3
  <1> HIDE DEF mine, other
  <1>8. \A u \in Threads : u \in Busy <=> thread[u] # Idle
    BY DEF Busy
  <1>9. thread' \in [Threads -> States]
    BY <1>2, <1>5, <1>7, IdleIsState
  <1>10. thread'[t] = mine
    BY <1>2
  <1>11. \A u \in Threads \ {t} : thread'[u] = IF u \in Busy THEN other(u) ELSE Idle
    BY <1>2
  <1>12. calls' \in 0..MaxCalls
    BY <1>1, MaxCallsType DEF TypeOK
  <1>13. thread'[t].alone = (Busy = {})
    BY <1>5, <1>10 DEF lone
  <1>14. QED
    BY <1>1, <1>5, <1>6, <1>7, <1>8, <1>9, <1>10, <1>11, <1>12, <1>13

-----------------------------------------------------------------------------
(* The invariant.  Two requests that run side by side know it, ...          *)
Overlaps ==
  \A t, u \in Busy : t # u => {thread[t].op, thread[u].op} \in overlapped /\ ~thread[t].alone

(* ... a reset that no replacement runs beside has the first decision back  *)
(* before it archives, a replacement its own before it ends the first one,  *)
Governs(t) ==
  /\ (Is(t, "reset") /\ (thread[t].alone \/ ~Ran("resolve", "reset"))) =>
       /\ (Left(t) = 7 /\ thread[t].saw # "SUPERSEDED") => acme = "CURRENT"
       /\ Left(t) <= 6 => acme = "CURRENT"
  /\ (Is(t, "resolve") /\ Left(t) <= 6) => storage \/ Ran("resolve", "reset")
  /\ (Is(t, "reset") /\ thread[t].alone /\ Left(t) <= 5) => ~storage

Governed == NeverUngoverned /\ \A t \in Threads : Governs(t)

(* ... the row that a request will refer to is the one it has recorded,     *)
IsResetRow(r) ==
  /\ r.uid > 2 /\ r.value = 365 /\ r.eff \in Opened..clock /\ r.recorded = ResetOn
  /\ r.ref = 2 /\ r.until = NoTime /\ ~r.revoked /\ r.accepted

ResetRows == {r \in ledger : r.uid > 2}

Carries(t) ==
  /\ (Is(t, "break") /\ Left(t) <= 5) => thread[t].row = ChangedRow
  /\ (Is(t, "reset") /\ Left(t) <= 4) => thread[t].row.uid > 2 /\ thread[t].row.value = 365
  /\ (thread[t].op \in {"break", "reset"} /\ Left(t) <= 4) => thread[t].row \in ledger

Carried ==
  /\ InitialRow \in ledger
  /\ \A r \in ledger : r = InitialRow \/ r = ChangedRow \/ IsResetRow(r)
  /\ \A t \in Threads : Carries(t)

(* ... every reset that has not recorded its row has a UID left for it,     *)
Resetting == {t \in Threads : Is(t, "reset") /\ Left(t) >= 5}

Counted ==
  /\ IsFiniteSet(ledger) /\ IsFiniteSet(Resetting)
  /\ Cardinality(ResetRows) + Cardinality(Resetting) <= calls

(* ... and what a break or a reset has written stands until it has ended,   *)
(* unless the other one runs beside it.                                     *)
Says(op) == IF op = "break" THEN 90 ELSE 365

Writes(t) ==
  (thread[t].op \in {"break", "reset"} /\ (thread[t].alone \/ ~Ran("break", "reset"))) =>
    /\ Left(t) <= 3 => reference.value = Says(thread[t].op)
    /\ Left(t) <= 1 => standing.ACME = ActionOf(thread[t].op)

Written == \A t \in Threads : Writes(t)

Inv ==
  /\ TypeOK /\ Counted /\ Overlaps /\ Governed /\ Carried /\ Written /\ ResetRepairs

Step(t) ==
  \/ Look(t) \/ Find(t) \/ ReadOld(t) \/ Reopen(t) \/ Archive(t) \/ Record(t)
  \/ SaveReference(t) \/ ReadNew(t) \/ SaveNew(t) \/ Supersede(t) \/ ReadSaved(t)
  \/ Evaluate(t) \/ SaveStanding(t) \/ JournalStanding(t)

-----------------------------------------------------------------------------
(* A reset has a UID left for its row.                                      *)
LEMMA NewRow ==
  ASSUME TypeOK, Counted, NEW t \in Threads, Is(t, "reset"), Left(t) = 5
  PROVE  /\ ResetRow(clock) \in Rows /\ IsResetRow(ResetRow(clock))
         /\ t \in Resetting
  <1>1. t \in Resetting /\ Resetting # {}
    BY DEF Resetting
  <1>2. IsFiniteSet(ResetRows)
    BY FS_Subset DEF Counted, ResetRows
  <1>3. Cardinality(ResetRows) \in Nat /\ Cardinality(Resetting) \in Nat
    BY <1>2, FS_CardinalityType DEF Counted
  <1>4. Cardinality(Resetting) # 0
    BY <1>1, FS_EmptySet DEF Counted
  <1>5. Cardinality(ResetRows) + 1 <= MaxCalls
    BY <1>3, <1>4, MaxCallsType DEF Counted, TypeOK
  <1>6. Fresh = 3 + Cardinality(ResetRows)
    BY DEF Fresh, ResetRows
  <1>7. Fresh \in UIDs /\ Fresh > 2 /\ 2 \in UIDs
    BY <1>3, <1>5, <1>6, SandboxUIDs, MaxCallsType
  <1>8. clock \in Times /\ clock \in Opened..clock /\ ResetOn \in Times
    BY SandboxDates, TimeBound DEF TypeOK, Times
  <1>9. ResetRow(clock) \in Rows
    BY <1>7, <1>8, SandboxValues DEF ResetRow, Row, Rows, ChangedRow
  <1>10. IsResetRow(ResetRow(clock))
    BY <1>7, <1>8 DEF ResetRow, Row, ChangedRow, IsResetRow
  <1>11. QED
    BY <1>1, <1>9, <1>10

LEMMA RecordedRow ==
  ASSUME Inv, NEW t \in Threads, Record(t)
  PROVE  /\ thread[t].op \in {"break", "reset"} /\ Left(t) = 5 /\ Moves(t, 4)
         /\ thread'[t].row = IF Is(t, "reset") THEN ResetRow(clock) ELSE thread[t].row
         /\ ledger' = ledger \cup {thread'[t].row} /\ thread'[t].row \in Rows
         /\ Is(t, "break") => thread'[t].row = ChangedRow
         /\ Is(t, "reset") => IsResetRow(thread'[t].row) /\ t \in Resetting
         /\ UNCHANGED <<acme, storage, archive, reference, supported, standing, journal>>
  <1>1. thread[t].op \in {"break", "reset"} /\ Left(t) = 5
    <2>1. At(t, "record")
      BY DEF Record
    <2>2. QED
      BY <2>1, Places DEF Inv
  <1>2. Is(t, "reset") => ResetRow(clock) \in Rows /\ IsResetRow(ResetRow(clock)) /\ t \in Resetting
    BY <1>1, NewRow DEF Inv
  <1>3. Is(t, "break") => thread[t].row = ChangedRow
    BY <1>1 DEF Inv, Carried, Carries
  <1>4. QED
    BY <1>1, <1>2, <1>3, RecordMoves, RowsOfTheScenario DEF Inv, Is

(* Every call takes its thread further along its plan.                      *)
LEMMA StepMoves ==
  ASSUME Inv, NEW t \in Threads, Step(t)
  PROVE  \E m : /\ Moves(t, m)
                /\ \/ m = Left(t) - 1
                   \/ Look(t) \/ Find(t) \/ Evaluate(t)
  <1>1. TypeOK
    BY DEF Inv
  <1>2. CASE Look(t)
    BY <1>1, <1>2, LookMoves
  <1>3. CASE Find(t)
    BY <1>1, <1>3, FindMoves
  <1>4. CASE ReadOld(t)
    BY <1>1, <1>4, ReadOldMoves
  <1>5. CASE Reopen(t)
    <2>1. Moves(t, 6) /\ Left(t) = 7
      BY <1>1, <1>5, ReopenMoves
    <2>2. 6 = Left(t) - 1
      BY <2>1
    <2>3. QED
      BY <2>1, <2>2
  <1>6. CASE Archive(t)
    <2>1. Moves(t, 5) /\ Left(t) = 6
      BY <1>1, <1>6, ArchiveMoves
    <2>2. 5 = Left(t) - 1
      BY <2>1
    <2>3. QED
      BY <2>1, <2>2
  <1>7. CASE Record(t)
    BY <1>7, RecordedRow
  <1>8. CASE SaveReference(t)
    <2>1. Moves(t, 3) /\ Left(t) = 4
      BY <1>1, <1>8, SaveReferenceMoves
    <2>2. 3 = Left(t) - 1
      BY <2>1
    <2>3. QED
      BY <2>1, <2>2
  <1>9. CASE ReadNew(t)
    <2>1. Moves(t, 7) /\ Left(t) = 8
      BY <1>1, <1>9, ReadNewMoves
    <2>2. 7 = Left(t) - 1
      BY <2>1
    <2>3. QED
      BY <2>1, <2>2
  <1>10. CASE SaveNew(t)
    <2>1. Moves(t, 6) /\ Left(t) = 7
      BY <1>1, <1>10, SaveNewMoves
    <2>2. 6 = Left(t) - 1
      BY <2>1
    <2>3. QED
      BY <2>1, <2>2
  <1>11. CASE Supersede(t)
    <2>1. Moves(t, 5) /\ Left(t) = 6
      BY <1>1, <1>11, SupersedeMoves
    <2>2. 5 = Left(t) - 1
      BY <2>1
    <2>3. QED
      BY <2>1, <2>2
  <1>12. CASE ReadSaved(t)
    <2>1. Moves(t, 4) /\ Left(t) = 5
      BY <1>1, <1>12, ReadSavedMoves
    <2>2. 4 = Left(t) - 1
      BY <2>1
    <2>3. QED
      BY <2>1, <2>2
  <1>13. CASE Evaluate(t)
    BY <1>1, <1>13, EvaluateMoves
  <1>14. CASE SaveStanding(t)
    <2>1. Moves(t, 1) /\ Left(t) = 2
      BY <1>1, <1>14, SaveStandingMoves
    <2>2. 1 = Left(t) - 1
      BY <2>1
    <2>3. QED
      BY <2>1, <2>2
  <1>15. CASE JournalStanding(t)
    <2>1. Moves(t, 0) /\ Left(t) = 1
      BY <1>1, <1>15, JournalStandingMoves
    <2>2. 0 = Left(t) - 1
      BY <2>1
    <2>3. QED
      BY <2>1, <2>2
  <1>16. QED
    BY <1>2, <1>3, <1>4, <1>5, <1>6, <1>7, <1>8, <1>9, <1>10, <1>11, <1>12, <1>13,
       <1>14, <1>15 DEF Step

(* Where in its plan a thread makes a call.                                 *)
LEMMA StepPlaces ==
  ASSUME TypeOK, NEW t \in Threads
  PROVE  /\ ReadOld(t) => Left(t) = 8 \/ Left(t) = 9
         /\ Reopen(t) => Left(t) = 7
         /\ Archive(t) => Left(t) = 6
         /\ Record(t) => Left(t) = 5
         /\ SaveReference(t) => Left(t) = 4
         /\ ReadNew(t) => Left(t) = 8
         /\ SaveNew(t) => Left(t) = 7
         /\ Supersede(t) => Left(t) = 6
         /\ ReadSaved(t) => Left(t) = 5
         /\ Evaluate(t) => Left(t) = 3
         /\ SaveStanding(t) => Left(t) = 2
         /\ JournalStanding(t) => Left(t) = 1
  BY Places DEF ReadOld, Reopen, Archive, Record, SaveReference, ReadNew, SaveNew, Supersede,
                ReadSaved, Evaluate, SaveStanding, JournalStanding

(* Each part of the store is written by its own calls.                      *)
LEMMA StepWrites ==
  ASSUME NEW t \in Threads, Step(t)
  PROVE  /\ acme' = acme \/ Reopen(t) \/ Supersede(t)
         /\ storage' = storage \/ Archive(t) \/ SaveNew(t)
         /\ ledger' = ledger \/ Record(t)
         /\ reference' = reference \/ SaveReference(t)
         /\ standing' = standing \/ SaveStanding(t)
         /\ journal' = journal \/ JournalStanding(t)
  BY DEF Step, Look, Find, ReadOld, Reopen, Archive, Record, SaveReference, ReadNew, SaveNew,
         Supersede, ReadSaved, Evaluate, SaveStanding, JournalStanding, store

LEMMA StepTypes ==
  ASSUME Inv, NEW t \in Threads, Step(t)
  PROVE  TypeOK' /\ ledger \subseteq ledger' /\ IsFiniteSet(ledger')
  <1>1. TypeOK /\ IsFiniteSet(ledger)
    BY DEF Inv, Counted
  <1>2. PICK m : Moves(t, m)
    BY StepMoves
  <1>3. /\ thread' \in [Threads -> States] /\ calls' = calls /\ failed' = failed /\ clock' = clock
        /\ \A u \in Threads : thread'[u] = Idle \/ OnPlan(thread'[u])
    <2>1. m = 0 \/ m > 0
      BY <1>1, <1>2, Nothing DEF Moves, Left, TypeOK, States, Busy
    <2>2. QED
      BY <1>1, <1>2, <2>1 DEF Moves, TypeOK
  <1>4. acme' \in {"CURRENT", "SUPERSEDED"}
    BY <1>1, StepWrites, ReopenMoves, SupersedeMoves DEF TypeOK
  <1>5. storage' \in BOOLEAN
    <2>1. CASE Archive(t)
      BY <2>1, <1>1, ArchiveMoves
    <2>2. CASE SaveNew(t)
      BY <2>2, <1>1, SaveNewMoves
    <2>3. CASE storage' = storage
      BY <2>3, <1>1 DEF TypeOK
    <2>4. QED
      BY <2>1, <2>2, <2>3, StepWrites
  <1>6. ledger' \in SUBSET Rows /\ ledger \subseteq ledger' /\ IsFiniteSet(ledger')
    <2>1. CASE Record(t)
      BY <2>1, <1>1, RecordedRow, FS_AddElement DEF TypeOK
    <2>2. CASE ledger' = ledger
      BY <2>2, <1>1 DEF TypeOK
    <2>3. QED
      BY <2>1, <2>2, StepWrites
  <1>7. reference' \in ledger'
    <2>1. CASE SaveReference(t)
      <3>1. Left(t) = 4 /\ reference' = IF Is(t, "resolve") THEN reference ELSE thread[t].row
        BY <2>1, <1>1, SaveReferenceMoves
      <3>2. t \in Busy /\ thread[t].op \in Ops
        BY <1>1, <1>2 DEF Moves, Busy, TypeOK, OnPlan
      <3>3. ~Is(t, "resolve") => thread[t].row \in ledger
        BY <3>1, <3>2 DEF Inv, Carried, Carries, Is, Ops
      <3>4. QED
        BY <1>1, <1>6, <3>1, <3>3 DEF TypeOK
    <2>2. CASE reference' = reference
      BY <2>2, <1>1, <1>6 DEF TypeOK
    <2>3. QED
      BY <2>1, <2>2, StepWrites
  <1>8. standing' \in [ACME : Actions, STORAGE : Actions]
    BY <1>1, StepWrites, SaveStandingMoves DEF TypeOK
  <1>9. journal' \in [ACME : Actions, STORAGE : Actions]
    BY <1>1, StepWrites, JournalStandingMoves DEF TypeOK
  <1>10. QED
    BY <1>1, <1>3, <1>4, <1>5, <1>6, <1>7, <1>8, <1>9 DEF TypeOK

LEMMA StepOverlaps ==
  ASSUME Inv, NEW t \in Threads, Step(t)
  PROVE  Overlaps'
  <1>1. PICK m : Moves(t, m)
    BY StepMoves
  <1>2. t \in Busy /\ (m = 0 \/ m > 0)
    BY <1>1, Nothing DEF Moves, Left, TypeOK, States, Busy, Inv
  <1>3. ASSUME NEW u \in Busy'
        PROVE  u \in Busy /\ thread'[u].op = thread[u].op /\ thread'[u].alone = thread[u].alone
    BY <1>1, <1>2 DEF Busy, Moves
  <1>4. overlapped' = overlapped
    BY <1>1 DEF Moves
  <1>5. QED
    BY <1>3, <1>4 DEF Inv, Overlaps

(* Whoever has nothing left is idle.                                        *)
LEMMA LeftOver ==
  ASSUME TypeOK, NEW t \in Threads
  PROVE  /\ Left(t) \in Nat /\ (Left(t) = 0 <=> thread[t] = Idle)
         /\ thread[t].op \in Ops <=> t \in Busy
  <1>1. thread[t].todo \in Seq(Calls) /\ thread[t] \in States
    BY DEF TypeOK, States
  <1>2. Left(t) \in Nat /\ (Left(t) = 0 <=> thread[t].todo = << >>)
    BY <1>1, Nothing DEF Left
  <1>3. CASE thread[t] = Idle
    BY <1>2, <1>3, IdleIsState DEF Busy, Ops
  <1>4. CASE thread[t] # Idle
    <2>1. OnPlan(thread[t])
      BY <1>4 DEF TypeOK
    <2>2. Left(t) >= 1 /\ thread[t].op \in Ops
      BY <1>2, <2>1 DEF OnPlan, Left
    <2>3. QED
      BY <1>2, <1>4, <2>2 DEF Busy
  <1>5. QED
    BY <1>3, <1>4

(* Where a moving thread is afterwards.                                     *)
LEMMA Moved ==
  ASSUME TypeOK, NEW t \in Threads, NEW m, Moves(t, m)
  PROVE  /\ m \in Nat /\ m < Left(t) /\ Left(t)' = m /\ overlapped' = overlapped
         /\ m = 0 => thread'[t].op = "none"
         /\ m > 0 => thread'[t].op = thread[t].op
         /\ m > 0 => thread'[t].alone = thread[t].alone
         /\ \A u \in Threads : u # t => thread'[u] = thread[u] /\ Left(u)' = Left(u)
  <1>1. Left(t) \in Nat /\ m \in 0..Left(t) - 1
    BY LeftOver DEF Moves
  <1>2. m \in Nat /\ m < Left(t) /\ (m = 0 \/ m > 0)
    BY <1>1
  <1>3. Left(t)' = m
    <2>1. CASE m = 0
      <3>1. thread'[t].todo = << >>
        BY <2>1, IdleIsState DEF Moves
      <3>2. << >> \in Seq(Calls)
        OBVIOUS
      <3>3. QED
        BY <2>1, <3>1, <3>2, Nothing DEF Left
    <2>2. CASE m > 0
      BY <2>2 DEF Moves, Left
    <2>3. QED
      BY <1>2, <2>1, <2>2
  <1>4. QED
    BY <1>2, <1>3, IdleIsState DEF Moves, Left

(* Two threads that are busy with different things know it.                 *)
LEMMA BusyTogether ==
  ASSUME Inv, NEW t \in Threads, NEW u \in Threads, t # u,
         thread[t].op \in Ops, thread[u].op \in Ops
  PROVE  Ran(thread[t].op, thread[u].op) /\ ~thread[t].alone /\ ~thread[u].alone
  <1>1. t \in Busy /\ u \in Busy
    BY LeftOver DEF Inv
  <1>2. QED
    BY <1>1 DEF Inv, Overlaps, Ran

LEMMA OthersGovern ==
  ASSUME Inv, NEW t \in Threads, Step(t), NEW u \in Threads, u # t
  PROVE  Governs(u)'
  <1>1. TypeOK /\ Governs(u)
    BY DEF Inv, Governed
  <1>2. PICK m : Moves(t, m)
    BY StepMoves
  <1>3. thread'[u] = thread[u] /\ Left(u)' = Left(u) /\ overlapped' = overlapped
    BY <1>1, <1>2, Moved
  <1>4. CASE acme' = acme /\ storage' = storage
    BY <1>1, <1>3, <1>4 DEF Governs, Is, Ran
  <1>5. CASE Reopen(t)
    <2>1. (acme' = acme \/ acme' = "CURRENT") /\ storage' = storage
      BY <1>1, <1>5, ReopenMoves
    <2>2. QED
      BY <1>1, <1>3, <2>1 DEF Governs, Is, Ran
  <1>6. CASE Archive(t)
    <2>1. Is(t, "reset") /\ acme' = acme /\ storage' = FALSE
      BY <1>1, <1>6, ArchiveMoves
    <2>2. Is(u, "resolve") => Ran("resolve", "reset")
      BY <2>1, BusyTogether DEF Is, Ops, Ran
    <2>3. QED
      BY <1>1, <1>3, <2>1, <2>2 DEF Governs, Is, Ran
  <1>7. CASE SaveNew(t)
    <2>1. Is(t, "resolve") /\ acme' = acme /\ storage' = TRUE
      BY <1>1, <1>7, SaveNewMoves
    <2>2. Is(u, "reset") => ~thread[u].alone
      BY <2>1, BusyTogether DEF Is, Ops
    <2>3. QED
      BY <1>1, <1>3, <2>1, <2>2 DEF Governs, Is, Ran
  <1>8. CASE Supersede(t)
    <2>1. Is(t, "resolve") /\ acme' = "SUPERSEDED" /\ storage' = storage
      BY <1>1, <1>8, SupersedeMoves
    <2>2. Is(u, "reset") => ~thread[u].alone /\ Ran("resolve", "reset")
      BY <2>1, BusyTogether DEF Is, Ops, Ran
    <2>3. QED
      BY <1>1, <1>3, <2>1, <2>2 DEF Governs, Is, Ran
  <1>9. QED
    BY <1>4, <1>5, <1>6, <1>7, <1>8, StepWrites

LEMMA MoverGoverns ==
  ASSUME Inv, NEW t \in Threads, Step(t)
  PROVE  Governs(t)' /\ NeverUngoverned'
  <1>1. TypeOK /\ Governs(t) /\ NeverUngoverned
    BY DEF Inv, Governed
  <1>2. PICK m : Moves(t, m)
    BY StepMoves
  <1>3. /\ m \in Nat /\ m < Left(t) /\ Left(t)' = m /\ overlapped' = overlapped
        /\ m = 0 => thread'[t].op = "none"
        /\ m > 0 => thread'[t].op = thread[t].op /\ thread'[t].alone = thread[t].alone
        /\ m = 0 \/ m > 0
    BY <1>1, <1>2, Moved
  <1>4. acme \in {"CURRENT", "SUPERSEDED"} /\ Left(t) \in Nat
    BY <1>1, LeftOver DEF TypeOK
  <1>5. CASE Look(t) \/ Find(t) \/ ReadNew(t)
    <2>1. acme' = acme /\ storage' = storage
      BY <1>5 DEF Look, Find, ReadNew, store
    <2>2. \/ Is(t, "break")
          \/ Is(t, "resolve") /\ Moves(t, 0)
          \/ Is(t, "resolve") /\ Moves(t, 9)
          \/ Is(t, "resolve") /\ Moves(t, 7)
      BY <1>1, <1>5, LookMoves, FindMoves, ReadNewMoves
    <2>3. Is(t, "break") \/ (Is(t, "resolve") /\ (Left(t)' = 0 \/ Left(t)' > 6))
      BY <1>1, <2>2, Moved
    <2>4. QED
      BY <1>1, <1>3, <2>1, <2>3 DEF Governs, Is, Ran, NeverUngoverned
  <1>6. CASE ReadOld(t)
    <2>1. /\ Left(t) = 9 \/ (Is(t, "reset") /\ Left(t) = 8)
          /\ acme' = acme /\ storage' = storage /\ thread'[t].saw = acme
          /\ Moves(t, Left(t) - 1)
      BY <1>1, <1>6, ReadOldMoves DEF store
    <2>2. Left(t)' = Left(t) - 1
      BY <1>1, <2>1, Moved
    <2>3. Left(t)' = 8 \/ (Left(t)' = 7 /\ Is(t, "reset"))
      BY <2>1, <2>2
    <2>4. QED
      BY <1>1, <1>3, <1>4, <2>1, <2>3 DEF Governs, Is, Ran, NeverUngoverned
  <1>7. CASE Reopen(t)
    <2>1. /\ Is(t, "reset") /\ Left(t) = 7 /\ Moves(t, 6) /\ storage' = storage
          /\ acme' = IF thread[t].saw = "SUPERSEDED" THEN "CURRENT" ELSE acme
      BY <1>1, <1>7, ReopenMoves
    <2>2. Left(t)' = 6
      BY <1>1, <2>1, Moved
    <2>3. QED
      BY <1>1, <1>3, <2>1, <2>2 DEF Governs, Is, Ran, NeverUngoverned
  <1>8. CASE Archive(t)
    <2>1. Is(t, "reset") /\ Left(t) = 6 /\ Moves(t, 5) /\ storage' = FALSE /\ acme' = acme
      BY <1>1, <1>8, ArchiveMoves
    <2>2. Left(t)' = 5
      BY <1>1, <2>1, Moved
    <2>3. QED
      BY <1>1, <1>3, <2>1, <2>2 DEF Governs, Is, Ran, NeverUngoverned
  <1>9. CASE SaveNew(t)
    <2>1. Is(t, "resolve") /\ storage' = TRUE
      BY <1>1, <1>9, SaveNewMoves
    <2>2. QED
      BY <1>1, <1>3, <2>1 DEF Governs, Is, Ran, NeverUngoverned
  <1>10. CASE Supersede(t)
    <2>1. Is(t, "resolve") /\ Left(t) = 6 /\ storage' = storage
      BY <1>1, <1>10, SupersedeMoves
    <2>2. storage \/ Ran("resolve", "reset")
      BY <1>1, <2>1 DEF Governs
    <2>3. QED
      BY <1>1, <1>3, <2>1, <2>2 DEF Governs, Is, Ran, NeverUngoverned
  <1>11. CASE \/ Record(t) \/ SaveReference(t) \/ ReadSaved(t)
              \/ Evaluate(t) \/ SaveStanding(t) \/ JournalStanding(t)
    <2>1. acme' = acme /\ storage' = storage
      BY <1>11 DEF Record, SaveReference, ReadSaved, Evaluate, SaveStanding,
                   JournalStanding, store
    <2>2. Left(t) \in 1..5
      BY <1>1, <1>11, RecordedRow, SaveReferenceMoves, ReadSavedMoves, EvaluateMoves,
         SaveStandingMoves, JournalStandingMoves
    <2>3. QED
      BY <1>1, <1>3, <2>1, <2>2 DEF Governs, Is, Ran, NeverUngoverned
  <1>12. QED
    BY <1>5, <1>6, <1>7, <1>8, <1>9, <1>10, <1>11 DEF Step

LEMMA StepGoverned ==
  ASSUME Inv, NEW t \in Threads, Step(t)
  PROVE  Governed'
  BY OthersGovern, MoverGoverns DEF Governed

(* The rows that requests carry stay in the ledger.                         *)
LEMMA StepCarried ==
  ASSUME Inv, NEW t \in Threads, Step(t)
  PROVE  Carried'
  <1>1. TypeOK /\ Carried /\ Carries(t)
    BY DEF Inv, Carried
  <1>2. PICK m : Moves(t, m) /\ (m = Left(t) - 1 \/ Look(t) \/ Find(t) \/ Evaluate(t))
    BY StepMoves
  <1>3. /\ m \in Nat /\ m < Left(t) /\ Left(t)' = m
        /\ m = 0 => thread'[t].op = "none"
        /\ m > 0 => thread'[t].op = thread[t].op
        /\ \A u \in Threads : u # t => thread'[u] = thread[u] /\ Left(u)' = Left(u)
        /\ clock' = clock /\ (m = 0 \/ m > 0)
    BY <1>1, <1>2, Moved DEF Moves
  <1>4. ledger \subseteq ledger'
    BY StepTypes
  <1>5. \A u \in Threads : u # t => Carries(u)'
    BY <1>1, <1>3, <1>4 DEF Carried, Carries, Is
  <1>6. InitialRow \in ledger' /\ \A r \in ledger' : r = InitialRow \/ r = ChangedRow \/ IsResetRow(r)'
    <2>1. CASE Record(t)
      <3>1. /\ ledger' = ledger \cup {thread'[t].row}
            /\ Is(t, "break") => thread'[t].row = ChangedRow
            /\ Is(t, "reset") => IsResetRow(thread'[t].row)
            /\ Is(t, "break") \/ Is(t, "reset")
        BY <2>1, RecordedRow DEF Is
      <3>2. \A r : IsResetRow(r) => IsResetRow(r)'
        BY <1>3 DEF IsResetRow
      <3>3. QED
        BY <1>1, <3>1, <3>2 DEF Carried
    <2>2. CASE ledger' = ledger
      BY <1>1, <1>3, <2>2 DEF Carried, IsResetRow
    <2>3. QED
      BY <2>1, <2>2, StepWrites
  <1>7. Carries(t)'
    <2>1. CASE Look(t)
      <3>1. Is(t, "break") /\ thread'[t].row = ChangedRow
        BY <1>1, <2>1, LookMoves
      <3>2. m = 4 => ChangedRow \in ledger
        <4>1. Moves(t, 5) \/ (Moves(t, 4) /\ ChangedRow \in ledger)
          BY <1>1, <2>1, LookMoves
        <4>2. Left(t)' = 5 \/ ChangedRow \in ledger
          BY <1>1, <4>1, Moved
        <4>3. QED
          BY <1>3, <4>2
      <3>3. m = 5 \/ m = 4
        <4>1. Moves(t, 5) \/ Moves(t, 4)
          BY <1>1, <2>1, LookMoves
        <4>2. Left(t)' = 5 \/ Left(t)' = 4
          BY <1>1, <4>1, Moved
        <4>3. QED
          BY <1>3, <4>2
      <3>4. QED
        BY <1>3, <1>4, <3>1, <3>2, <3>3 DEF Carries, Is
    <2>2. CASE Record(t)
      <3>1. /\ ledger' = ledger \cup {thread'[t].row} /\ thread[t].op \in {"break", "reset"}
            /\ Is(t, "break") => thread'[t].row = ChangedRow
            /\ Is(t, "reset") => IsResetRow(thread'[t].row)
        BY <2>2, RecordedRow
      <3>2. QED
        BY <1>3, <3>1 DEF Carries, Is, IsResetRow
    <2>3. CASE SaveReference(t) \/ Evaluate(t) \/ SaveStanding(t)
      <3>1. Left(t) \in 1..4 /\ (thread'[t].row = thread[t].row \/ Moves(t, 0))
        BY <1>1, <2>3, SaveReferenceMoves, EvaluateMoves, SaveStandingMoves
      <3>2. thread'[t].row = thread[t].row \/ m = 0
        BY <1>1, <1>3, <3>1, Moved
      <3>3. QED
        BY <1>1, <1>3, <1>4, <3>1, <3>2 DEF Carries, Is
    <2>4. CASE JournalStanding(t)
      <3>1. Moves(t, 0)
        BY <1>1, <2>4, JournalStandingMoves
      <3>2. m = 0
        BY <1>1, <1>3, <3>1, Moved
      <3>3. QED
        BY <1>3, <3>2 DEF Carries, Is
    <2>5. CASE Find(t) \/ ReadNew(t) \/ SaveNew(t) \/ Supersede(t) \/ ReadSaved(t)
      <3>1. Is(t, "resolve")
        BY <1>1, <2>5, FindMoves, ReadNewMoves, SaveNewMoves, SupersedeMoves, ReadSavedMoves
      <3>2. QED
        BY <1>3, <3>1 DEF Carries, Is
    <2>6. CASE ReadOld(t) \/ Reopen(t) \/ Archive(t)
      <3>1. Is(t, "resolve") \/ (Is(t, "reset") /\ Left(t) \in 6..8 /\ Moves(t, Left(t) - 1))
        <4>1. CASE ReadOld(t)
          BY <1>1, <4>1, ReadOldMoves
        <4>2. CASE Reopen(t)
          <5>1. Is(t, "reset") /\ Left(t) = 7 /\ Moves(t, 6)
            BY <1>1, <4>2, ReopenMoves
          <5>2. 6 = Left(t) - 1
            BY <5>1
          <5>3. QED
            BY <5>1, <5>2
        <4>3. CASE Archive(t)
          <5>1. Is(t, "reset") /\ Left(t) = 6 /\ Moves(t, 5)
            BY <1>1, <4>3, ArchiveMoves
          <5>2. 5 = Left(t) - 1
            BY <5>1
          <5>3. QED
            BY <5>1, <5>2
        <4>4. QED
          BY <2>6, <4>1, <4>2, <4>3
      <3>2. CASE Is(t, "resolve")
        BY <1>3, <3>2 DEF Carries, Is
      <3>3. CASE Is(t, "reset") /\ Left(t) \in 6..8 /\ Moves(t, Left(t) - 1)
        <4>1. Left(t)' = Left(t) - 1
          BY <1>1, <3>3, Moved
        <4>2. Left(t)' >= 5
          BY <3>3, <4>1
        <4>3. QED
          BY <1>3, <3>3, <4>2 DEF Carries, Is
      <3>4. QED
        BY <3>1, <3>2, <3>3
    <2>7. QED
      BY <2>1, <2>2, <2>3, <2>4, <2>5, <2>6 DEF Step
  <1>8. QED
    BY <1>5, <1>6, <1>7 DEF Carried

(* No call makes another reset; the one that records its row needs a UID no *)
(* more.                                                                    *)
LEMMA StepCounted ==
  ASSUME Inv, NEW t \in Threads, Step(t)
  PROVE  Counted'
  <1>1. TypeOK /\ Counted /\ IsFiniteSet(ledger')
    BY StepTypes DEF Inv
  <1>2. PICK m : Moves(t, m)
    BY StepMoves
  <1>3. /\ m \in Nat /\ m < Left(t) /\ Left(t)' = m /\ calls' = calls
        /\ m = 0 => thread'[t].op = "none"
        /\ m > 0 => thread'[t].op = thread[t].op
        /\ \A u \in Threads : u # t => thread'[u] = thread[u] /\ Left(u)' = Left(u)
        /\ m = 0 \/ m > 0
    BY <1>1, <1>2, Moved DEF Moves
  <1>4. Resetting' \subseteq Resetting
    <2> SUFFICES ASSUME NEW u \in Threads, Is(u, "reset")', Left(u)' >= 5
                 PROVE  Is(u, "reset") /\ Left(u) >= 5
      BY DEF Resetting
    <2>1. CASE u = t
      BY <1>1, <1>3, <2>1, LeftOver DEF Is
    <2>2. CASE u # t
      BY <1>3, <2>2 DEF Is
    <2>3. QED
      BY <2>1, <2>2
  <1>5. /\ IsFiniteSet(Resetting') /\ Cardinality(Resetting') <= Cardinality(Resetting)
        /\ Cardinality(Resetting) \in Nat /\ Cardinality(Resetting') \in Nat
    BY <1>1, <1>4, FS_Subset, FS_CardinalityType DEF Counted
  <1>6. IsFiniteSet(ResetRows) /\ Cardinality(ResetRows) \in Nat
    BY <1>1, FS_Subset, FS_CardinalityType DEF Counted, ResetRows
  <1>7. calls \in Nat
    BY <1>1, MaxCallsType DEF TypeOK
  <1>8. CASE Record(t) /\ Is(t, "reset")
    <2>1. /\ ledger' = ledger \cup {thread'[t].row} /\ t \in Resetting /\ Moves(t, 4)
      BY <1>8, RecordedRow
    <2>2. t \notin Resetting'
      BY <1>1, <2>1, Moved DEF Resetting
    <2>3. /\ IsFiniteSet(Resetting \ {t})
          /\ Cardinality(Resetting \ {t}) = Cardinality(Resetting) - 1
      BY <1>1, <2>1, FS_RemoveElement DEF Counted
    <2>4. Resetting' \in SUBSET (Resetting \ {t})
      BY <1>4, <2>2
    <2>5. Cardinality(Resetting') <= Cardinality(Resetting) - 1
      BY <2>3, <2>4, FS_Subset
    <2>6. IsFiniteSet(ResetRows \cup {thread'[t].row})
          /\ Cardinality(ResetRows \cup {thread'[t].row}) \in Nat
          /\ Cardinality(ResetRows \cup {thread'[t].row}) <= Cardinality(ResetRows) + 1
      <3>1. /\ IsFiniteSet(ResetRows \cup {thread'[t].row})
            /\ \/ Cardinality(ResetRows \cup {thread'[t].row}) = Cardinality(ResetRows)
               \/ Cardinality(ResetRows \cup {thread'[t].row}) = Cardinality(ResetRows) + 1
        BY <1>6, FS_AddElement
      <3>2. QED
        BY <1>6, <3>1
    <2>7. ResetRows' \in SUBSET (ResetRows \cup {thread'[t].row})
      BY <2>1 DEF ResetRows
    <2>8. IsFiniteSet(ResetRows') /\ Cardinality(ResetRows') \in Nat
          /\ Cardinality(ResetRows') <= Cardinality(ResetRows \cup {thread'[t].row})
      BY <2>6, <2>7, FS_Subset, FS_CardinalityType
    <2>9. Cardinality(ResetRows) + Cardinality(Resetting) <= calls
      BY <1>1 DEF Counted
    <2>10. Cardinality(ResetRows') + Cardinality(Resetting') <= calls
      BY <1>5, <1>6, <1>7, <2>5, <2>6, <2>8, <2>9
    <2>11. QED
      BY <1>1, <1>3, <1>5, <2>10 DEF Counted
  <1>9. CASE ledger' = ledger \/ (Record(t) /\ Is(t, "break"))
    <2>1. ResetRows' = ResetRows
      <3>1. CASE ledger' = ledger
        BY <3>1 DEF ResetRows
      <3>2. CASE Record(t) /\ Is(t, "break")
        BY <3>2, RecordedRow, RowsOfTheScenario DEF ResetRows
      <3>3. QED
        BY <1>9, <3>1, <3>2
    <2>2. Cardinality(ResetRows) + Cardinality(Resetting) <= calls
      BY <1>1 DEF Counted
    <2>3. Cardinality(ResetRows) + Cardinality(Resetting') <= calls
      BY <1>5, <1>6, <1>7, <2>2
    <2>4. QED
      BY <1>1, <1>3, <1>5, <2>1, <2>3 DEF Counted
  <1>10. QED
    <2>1. Record(t) => Is(t, "break") \/ Is(t, "reset")
      BY RecordedRow DEF Is
    <2>2. QED
      BY <1>8, <1>9, <2>1, StepWrites

(* What a break or a reset writes in the reference and in the standing is   *)
(* what everybody says who runs beside it.                                  *)
LEMMA SameSaying ==
  ASSUME Inv, NEW t \in Threads, NEW u \in Threads, t # u,
         thread[t].op \in {"break", "reset"}, thread[u].op \in {"break", "reset"},
         thread[u].alone \/ ~Ran("break", "reset")
  PROVE  thread[t].op = thread[u].op
  <1>1. Ran(thread[t].op, thread[u].op) /\ ~thread[u].alone
    BY BusyTogether DEF Ops
  <1>2. QED
    BY <1>1 DEF Ran

LEMMA SavedReference ==
  ASSUME Inv, NEW t \in Threads, SaveReference(t)
  PROVE  /\ Left(t) = 4 /\ Moves(t, 3) /\ standing' = standing /\ ledger' = ledger
         /\ Is(t, "resolve") => reference' = reference
         /\ thread[t].op \in {"break", "reset"} =>
              /\ reference' = thread[t].row /\ reference'.value = Says(thread[t].op)
         /\ Is(t, "break") => reference' = ChangedRow
         /\ Is(t, "reset") => reference'.uid > 2 /\ reference' \in ledger
         /\ thread[t].op \in {"break", "reset", "resolve"}
  <1>1. /\ Left(t) = 4 /\ Moves(t, 3) /\ standing' = standing /\ ledger' = ledger
        /\ reference' = IF Is(t, "resolve") THEN reference ELSE thread[t].row
    BY SaveReferenceMoves DEF Inv
  <1>2. thread[t].op \in {"break", "reset", "resolve"}
    BY <1>1, LeftOver DEF Inv, Moves, Ops
  <1>3. Carries(t)
    BY DEF Inv, Carried
  <1>4. Is(t, "break") => reference' = ChangedRow /\ reference'.value = 90
    BY <1>1, <1>3, RowsOfTheScenario DEF Carries, Is
  <1>5. Is(t, "reset") => reference'.uid > 2 /\ reference' \in ledger /\ reference'.value = 365
    BY <1>1, <1>3 DEF Carries, Is
  <1>6. QED
    BY <1>1, <1>2, <1>4, <1>5 DEF Is, Says

LEMMA StepWritten ==
  ASSUME Inv, NEW t \in Threads, Step(t)
  PROVE  Written'
  <1>1. TypeOK /\ Written
    BY DEF Inv
  <1>2. PICK m : Moves(t, m) /\ (m = Left(t) - 1 \/ Look(t) \/ Find(t) \/ Evaluate(t))
    BY StepMoves
  <1>3. /\ m \in Nat /\ m < Left(t) /\ Left(t)' = m /\ overlapped' = overlapped
        /\ m = 0 => thread'[t].op = "none"
        /\ m > 0 => thread'[t].op = thread[t].op /\ thread'[t].alone = thread[t].alone
        /\ \A u \in Threads : u # t => thread'[u] = thread[u] /\ Left(u)' = Left(u)
        /\ (m = 0 \/ m > 0) /\ Left(t) \in Nat
    BY <1>1, <1>2, Moved, LeftOver
  <1>4. ASSUME NEW u \in Threads, u # t PROVE Writes(u)'
    <2>1. Writes(u) /\ thread'[u] = thread[u] /\ Left(u)' = Left(u)
      BY <1>1, <1>3, <1>4 DEF Written
    <2>2. CASE SaveReference(t)
      <3>1. CASE thread[u].op \in {"break", "reset"} /\ (thread[u].alone \/ ~Ran("break", "reset"))
        <4>1. /\ standing' = standing
              /\ Is(t, "resolve") => reference' = reference
              /\ thread[t].op \in {"break", "reset"} => reference'.value = Says(thread[t].op)
              /\ thread[t].op \in {"break", "reset", "resolve"}
          BY <2>2, SavedReference
        <4>2. thread[t].op \in {"break", "reset"} => thread[t].op = thread[u].op
          BY <1>4, <3>1, SameSaying
        <4>3. CASE Is(t, "resolve")
          BY <1>3, <2>1, <4>1, <4>3 DEF Writes, Ran
        <4>4. CASE thread[t].op \in {"break", "reset"}
          BY <1>3, <2>1, <4>1, <4>2, <4>4 DEF Writes, Ran
        <4>5. QED
          BY <4>1, <4>3, <4>4 DEF Is
      <3>2. QED
        BY <1>3, <2>1, <3>1 DEF Writes, Ran
    <2>3. CASE SaveStanding(t)
      <3>1. CASE thread[u].op \in {"break", "reset"} /\ (thread[u].alone \/ ~Ran("break", "reset"))
        <4>1. /\ reference' = reference
              /\ standing'.ACME = IF Is(t, "resolve") THEN standing.ACME ELSE ActionOf(thread[t].op)
          BY <1>1, <2>3, SaveStandingMoves
        <4>2. thread[t].op \in {"break", "reset", "resolve"}
          BY <1>1, <1>2, LeftOver DEF Moves, Ops
        <4>3. thread[t].op \in {"break", "reset"} => thread[t].op = thread[u].op
          BY <1>4, <3>1, SameSaying
        <4>4. CASE Is(t, "resolve")
          BY <1>3, <2>1, <4>1, <4>4 DEF Writes, Ran
        <4>5. CASE thread[t].op \in {"break", "reset"}
          BY <1>3, <2>1, <4>1, <4>3, <4>5 DEF Writes, Ran, Is
        <4>6. QED
          BY <4>2, <4>4, <4>5 DEF Is
      <3>2. QED
        BY <1>3, <2>1, <3>1 DEF Writes, Ran
    <2>4. CASE reference' = reference /\ standing' = standing
      BY <1>3, <2>1, <2>4 DEF Writes, Ran
    <2>5. QED
      BY <2>2, <2>3, <2>4, StepWrites
  <1>5. Writes(t)'
    <2>1. CASE SaveReference(t)
      <3>1. /\ Left(t) = 4 /\ Moves(t, 3)
            /\ thread[t].op \in {"break", "reset"} => reference'.value = Says(thread[t].op)
        BY <2>1, SavedReference
      <3>2. Left(t)' = 3
        BY <1>1, <3>1, Moved
      <3>3. QED
        BY <1>3, <3>1, <3>2 DEF Writes, Ran
    <2>2. CASE SaveStanding(t)
      <3>1. /\ Left(t) = 2 /\ reference' = reference
            /\ standing'.ACME = IF Is(t, "resolve") THEN standing.ACME ELSE ActionOf(thread[t].op)
        BY <1>1, <2>2, SaveStandingMoves
      <3>2. QED
        BY <1>1, <1>3, <3>1 DEF Written, Writes, Ran, Is
    <2>3. CASE Left(t)' > 3 \/ m = 0
      BY <1>3, <2>3 DEF Writes
    <2>4. CASE reference' = reference /\ standing' = standing /\ Left(t) \in 2..3 /\ Left(t)' = 2
      BY <1>1, <1>3, <2>4 DEF Written, Writes, Ran
    <2>5. CASE JournalStanding(t)
      <3>1. Moves(t, 0)
        BY <1>1, <2>5, JournalStandingMoves
      <3>2. m = 0
        BY <1>1, <1>3, <3>1, Moved
      <3>3. QED
        BY <2>3, <3>2
    <2>6. CASE Evaluate(t)
      <3>1. /\ Left(t) = 3 /\ UNCHANGED store /\ (Moves(t, 2) \/ Moves(t, 0))
        BY <1>1, <2>6, EvaluateMoves
      <3>2. Left(t)' = 2 \/ Left(t)' = 0
        BY <1>1, <3>1, Moved
      <3>3. QED
        BY <1>3, <2>3, <2>4, <3>1, <3>2 DEF store
    <2>7. CASE Look(t)
      <3>1. Moves(t, 5) \/ Moves(t, 4)
        BY <1>1, <2>7, LookMoves
      <3>2. Left(t)' = 5 \/ Left(t)' = 4
        BY <1>1, <3>1, Moved
      <3>3. QED
        BY <2>3, <3>2
    <2>8. CASE Find(t)
      <3>1. Is(t, "resolve")
        BY <1>1, <2>8, FindMoves
      <3>2. QED
        BY <1>3, <3>1 DEF Writes, Is
    <2>9. CASE \/ ReadOld(t) \/ Reopen(t) \/ Archive(t) \/ Record(t)
               \/ ReadNew(t) \/ SaveNew(t) \/ Supersede(t) \/ ReadSaved(t)
      <3>1. Is(t, "resolve") \/ Left(t) >= 5
        <4>1. CASE ReadOld(t)
          BY <1>1, <4>1, ReadOldMoves
        <4>2. CASE Reopen(t)
          BY <1>1, <4>2, ReopenMoves
        <4>3. CASE Archive(t)
          <5>1. Left(t) = 6
            BY <1>1, <4>3, ArchiveMoves
          <5>2. QED
            BY <5>1
        <4>4. CASE Record(t)
          BY <1>1, <4>4, RecordedRow
        <4>5. CASE ReadNew(t) \/ SaveNew(t) \/ Supersede(t) \/ ReadSaved(t)
          BY <1>1, <4>5, ReadNewMoves, SaveNewMoves, SupersedeMoves, ReadSavedMoves
        <4>6. QED
          BY <2>9, <4>1, <4>2, <4>3, <4>4, <4>5
      <3>2. CASE Is(t, "resolve")
        BY <1>3, <3>2 DEF Writes, Is
      <3>3. CASE Left(t) >= 5 /\ m = Left(t) - 1
        BY <1>3, <2>3, <3>3
      <3>4. CASE Look(t) \/ Find(t) \/ Evaluate(t)
        BY <2>6, <2>7, <2>8, <3>4
      <3>5. QED
        BY <1>2, <3>1, <3>2, <3>3, <3>4
    <2>10. QED
      BY <2>1, <2>2, <2>5, <2>6, <2>7, <2>8, <2>9 DEF Step
  <1>6. QED
    BY <1>4, <1>5 DEF Written

(* A reset that ends alone has put everything back.                         *)
LEMMA StepRepairs ==
  ASSUME Inv, NEW t \in Threads, Step(t)
  PROVE  ResetRepairs'
  <1> SUFFICES ASSUME Resting', last' = [op |-> "reset", alone |-> TRUE]
               PROVE  /\ acme' = "CURRENT" /\ ~storage'
                      /\ reference'.value = 365
                      /\ standing'.ACME = "allow" /\ journal'.ACME = "allow"
    BY DEF ResetRepairs
  <1>1. TypeOK /\ Governs(t) /\ Writes(t)
    BY DEF Inv, Governed, Written
  <1>2. PICK m : Moves(t, m) /\ (m = Left(t) - 1 \/ Look(t) \/ Find(t) \/ Evaluate(t))
    BY StepMoves
  <1>3. /\ m \in Nat /\ m < Left(t) /\ Left(t)' = m
        /\ m > 0 => thread'[t].op = thread[t].op
        /\ (m = 0 \/ m > 0) /\ Left(t) \in Nat /\ thread[t].op \in Ops
    BY <1>1, <1>2, Moved, LeftOver DEF Moves
  <1>4. thread'[t] = Idle
    BY DEF Resting, Busy
  <1>5. m = 0
    BY <1>3, <1>4, IdleIsState DEF Ops
  <1>6. Is(t, "reset") /\ thread[t].alone = TRUE
    <2>1. [op |-> thread[t].op, alone |-> thread[t].alone] = [op |-> "reset", alone |-> TRUE]
      BY <1>2, <1>5 DEF Moves
    <2>2. QED
      BY <2>1 DEF Is
  <1>7. ~Look(t) /\ ~Find(t) /\ (Evaluate(t) => Moves(t, 2))
    BY <1>1, <1>6, LookMoves, FindMoves, EvaluateMoves DEF Is
  <1>8. Evaluate(t) => m = 2
    BY <1>1, <1>3, <1>7, Moved
  <1>9. Left(t) = 1
    BY <1>2, <1>3, <1>5, <1>7, <1>8
  <1>16. /\ ~ReadOld(t) /\ ~Reopen(t) /\ ~Archive(t) /\ ~Record(t) /\ ~SaveReference(t)
         /\ ~ReadNew(t) /\ ~SaveNew(t) /\ ~Supersede(t) /\ ~ReadSaved(t) /\ ~Evaluate(t)
         /\ ~SaveStanding(t)
    BY <1>1, <1>9, StepPlaces
  <1>10. acme' = acme /\ storage' = storage /\ reference' = reference /\ standing' = standing
    BY <1>9, <1>16, StepWrites
  <1>11. acme = "CURRENT" /\ ~storage
    BY <1>1, <1>6, <1>9 DEF Governs
  <1>12. reference.value = 365 /\ standing.ACME = "allow"
    BY <1>1, <1>6, <1>9 DEF Writes, Is, Says, ActionOf
  <1>13. JournalStanding(t)
    BY <1>7, <1>16 DEF Step
  <1>14. journal'.ACME = "allow"
    BY <1>1, <1>6, <1>13, JournalStandingMoves DEF Is, ActionOf
  <1>15. QED
    BY <1>10, <1>11, <1>12, <1>14

LEMMA StepInv ==
  ASSUME Inv, NEW t \in Threads, Step(t)
  PROVE  Inv'
  BY StepTypes, StepOverlaps, StepGoverned, StepCarried, StepCounted, StepWritten, StepRepairs
     DEF Inv

-----------------------------------------------------------------------------
(* A request that arrives disturbs nothing but the solitude of the others.  *)
LEMMA RequestInv ==
  ASSUME Inv, NEW t \in Threads, NEW op \in Ops, Request(t, op)
  PROVE  Inv'
  <1>1. TypeOK
    BY DEF Inv
  <1>2. /\ thread[t] = Idle /\ thread' \in [Threads -> States]
        /\ OnPlan(thread'[t]) /\ thread'[t].op = op /\ Len(thread'[t].todo) = Len(Plan(op))
        /\ thread'[t].alone = (Busy = {})
        /\ overlapped' = overlapped \cup {{op, thread[u].op} : u \in Busy}
        /\ calls' = calls + 1 /\ calls' \in 0..MaxCalls
        /\ UNCHANGED <<clock, store, failed, last>>
    BY <1>1, RequestArrives
  <1>3. ASSUME NEW u \in Threads, u # t
        PROVE  /\ thread[u] = Idle => thread'[u] = Idle
               /\ thread[u] # Idle =>
                    /\ OnPlan(thread'[u]) /\ thread'[u].op = thread[u].op
                    /\ thread'[u].todo = thread[u].todo /\ thread'[u].row = thread[u].row
                    /\ thread'[u].saw = thread[u].saw /\ thread'[u].alone = FALSE
    BY <1>1, <1>3, RequestArrives
  <1>4. /\ clock' = clock /\ acme' = acme /\ storage' = storage /\ ledger' = ledger
        /\ reference' = reference /\ standing' = standing /\ journal' = journal
        /\ failed' = failed /\ last' = last
    BY <1>2 DEF store
  <1>5. TypeOK'
    BY <1>1, <1>2, <1>3, <1>4 DEF TypeOK
  <1>6. /\ Is(t, "break")' => Left(t)' = 6
        /\ Is(t, "reset")' => Left(t)' = 8
        /\ Is(t, "resolve")' => Left(t)' = 10
    BY <1>2, PlanLengths DEF Is, Left
  <1>7. \A u \in Threads : u # t =>
          /\ thread'[u].op = thread[u].op /\ Left(u)' = Left(u)
          /\ thread'[u].row = thread[u].row /\ thread'[u].saw = thread[u].saw
          /\ thread[u] # Idle => ~thread'[u].alone
    BY <1>3 DEF Left
  <1>8. \A a, b : Ran(a, b) => Ran(a, b)'
    BY <1>2 DEF Ran
  <1>9. Counted'
    <2>1. /\ IsFiniteSet(ledger) /\ IsFiniteSet(Resetting)
          /\ Cardinality(ResetRows) + Cardinality(Resetting) <= calls
      BY DEF Inv, Counted
    <2>2. ResetRows' = ResetRows /\ IsFiniteSet(ledger')
      BY <1>4, <2>1 DEF ResetRows
    <2>3. Resetting' \in SUBSET (Resetting \cup {t})
      BY <1>7 DEF Resetting, Is
    <2>4. IsFiniteSet(Resetting \cup {t})
          /\ \/ Cardinality(Resetting \cup {t}) = Cardinality(Resetting)
             \/ Cardinality(Resetting \cup {t}) = Cardinality(Resetting) + 1
      BY <2>1, FS_AddElement
    <2>5. IsFiniteSet(Resetting') /\ Cardinality(Resetting') <= Cardinality(Resetting \cup {t})
      BY <2>3, <2>4, FS_Subset
    <2>6. /\ Cardinality(Resetting) \in Nat /\ Cardinality(Resetting') \in Nat
          /\ IsFiniteSet(ResetRows)
      BY <2>1, <2>5, FS_Subset, FS_CardinalityType DEF ResetRows
    <2>7. Cardinality(ResetRows) \in Nat /\ calls \in Nat
      BY <1>1, <2>6, FS_CardinalityType, MaxCallsType DEF TypeOK
    <2>8. Cardinality(Resetting') <= Cardinality(Resetting) + 1
      BY <2>4, <2>5, <2>6
    <2>9. Cardinality(ResetRows) + Cardinality(Resetting') <= calls + 1
      BY <2>1, <2>6, <2>7, <2>8
    <2>10. QED
      BY <1>2, <2>2, <2>5, <2>9 DEF Counted
  <1>10. Overlaps'
    <2> SUFFICES ASSUME NEW u \in Busy', NEW w \in Busy', u # w
                 PROVE  {thread'[u].op, thread'[w].op} \in overlapped' /\ ~thread'[u].alone
      BY DEF Overlaps
    <2>1. (u # t => u \in Busy /\ u \in Threads) /\ (w # t => w \in Busy /\ w \in Threads)
      BY <1>3 DEF Busy
    <2>2. CASE u = t
      <3>1. w \in Busy /\ Busy # {} /\ w # t
        BY <2>1, <2>2
      <3>2. thread'[w].op = thread[w].op /\ thread'[u].op = op /\ ~thread'[u].alone
        BY <1>2, <1>7, <2>1, <2>2, <3>1
      <3>3. {op, thread[w].op} \in overlapped'
        BY <1>2, <3>1
      <3>4. QED
        BY <3>2, <3>3
    <2>3. CASE w = t
      <3>1. u \in Busy /\ u # t /\ thread[u] # Idle
        BY <2>1, <2>3 DEF Busy
      <3>2. thread'[u].op = thread[u].op /\ thread'[w].op = op /\ ~thread'[u].alone
        BY <1>2, <1>7, <2>1, <2>3, <3>1
      <3>3. {op, thread[u].op} \in overlapped'
        BY <1>2, <3>1
      <3>4. {op, thread[u].op} = {thread[u].op, op}
        OBVIOUS
      <3>5. QED
        BY <3>2, <3>3, <3>4
    <2>4. CASE u # t /\ w # t
      <3>1. {thread[u].op, thread[w].op} \in overlapped
        BY <2>1, <2>4 DEF Inv, Overlaps
      <3>2. thread[u] # Idle
        BY <2>1, <2>4 DEF Busy
      <3>3. QED
        BY <1>2, <1>7, <2>1, <2>4, <3>1, <3>2
    <2>5. QED
      BY <2>2, <2>3, <2>4
  <1>11. Governed'
    <2>1. NeverUngoverned'
      BY <1>4, <1>8 DEF Inv, Governed, NeverUngoverned
    <2>2. Governs(t)'
      BY <1>6 DEF Governs
    <2>3. ASSUME NEW u \in Threads, u # t PROVE Governs(u)'
      <3>1. Governs(u)
        BY DEF Inv, Governed
      <3>2. thread[u].op \in Ops => ~thread'[u].alone
        BY <1>1, <1>7, <2>3, LeftOver DEF Busy
      <3>3. QED
        BY <1>4, <1>7, <1>8, <2>3, <3>1, <3>2 DEF Governs, Is, Ops
    <2>4. QED
      BY <2>1, <2>2, <2>3 DEF Governed
  <1>12. Carried'
    <2>1. Carries(t)'
      BY <1>6 DEF Carries, Is
    <2>2. \A u \in Threads : u # t => Carries(u)'
      BY <1>4, <1>7 DEF Inv, Carried, Carries, Is
    <2>3. InitialRow \in ledger' /\ \A r \in ledger' : r = InitialRow \/ r = ChangedRow \/ IsResetRow(r)'
      BY <1>4 DEF Inv, Carried, IsResetRow
    <2>4. QED
      BY <2>1, <2>2, <2>3 DEF Carried
  <1>13. Written'
    <2>1. Writes(t)'
      BY <1>6 DEF Writes, Is
    <2>2. ASSUME NEW u \in Threads, u # t PROVE Writes(u)'
      <3>1. Writes(u)
        BY DEF Inv, Written
      <3>2. thread[u].op \in Ops => ~thread'[u].alone
        BY <1>1, <1>7, <2>2, LeftOver DEF Busy
      <3>3. QED
        BY <1>4, <1>7, <1>8, <2>2, <3>1, <3>2 DEF Writes, Ops
    <2>3. QED
      BY <2>1, <2>2 DEF Written
  <1>14. ResetRepairs'
    <2>1. thread'[t] # Idle
      BY <1>2, IdleIsState DEF Ops
    <2>2. ~Resting'
      BY <2>1 DEF Resting, Busy
    <2>3. QED
      BY <2>2 DEF ResetRepairs
  <1>15. QED
    BY <1>5, <1>9, <1>10, <1>11, <1>12, <1>13, <1>14 DEF Inv

(* A call that raises leaves what it found, and no request to its end.      *)
LEMMA FailInv ==
  ASSUME Inv, NEW t \in Threads, Fail(t)
  PROVE  Inv'
  <1>1. TypeOK
    BY DEF Inv
  <1>2. /\ thread' \in [Threads -> States] /\ thread'[t] = Idle
        /\ \A u \in Threads : u # t => thread'[u] = thread[u]
        /\ failed' = TRUE /\ last' = Nobody
        /\ calls' = calls /\ overlapped' = overlapped /\ clock' = clock
    BY <1>1, IdleIsState DEF Fail, TypeOK
  <1>3. /\ acme' = acme /\ storage' = storage /\ ledger' = ledger
        /\ reference' = reference /\ standing' = standing /\ journal' = journal
    BY DEF Fail, store
  <1>4. TypeOK'
    BY <1>1, <1>2, <1>3 DEF TypeOK
  <1>5. thread'[t].op = "none" /\ \A u \in Threads : u # t => Left(u)' = Left(u)
    BY <1>2, IdleIsState DEF Left
  <1>6. Busy' \subseteq Busy /\ \A u \in Busy' : thread'[u] = thread[u]
    BY <1>2 DEF Busy
  <1>7. Counted'
    <2>1. /\ IsFiniteSet(ledger) /\ IsFiniteSet(Resetting)
          /\ Cardinality(ResetRows) + Cardinality(Resetting) <= calls
      BY DEF Inv, Counted
    <2>2. ResetRows' = ResetRows /\ IsFiniteSet(ledger')
      BY <1>3, <2>1 DEF ResetRows
    <2>3. Resetting' \in SUBSET Resetting
      BY <1>2, <1>5 DEF Resetting, Is
    <2>4. IsFiniteSet(Resetting') /\ Cardinality(Resetting') <= Cardinality(Resetting)
      BY <2>1, <2>3, FS_Subset
    <2>5. /\ Cardinality(Resetting) \in Nat /\ Cardinality(Resetting') \in Nat
          /\ IsFiniteSet(ResetRows)
      BY <2>1, <2>4, FS_Subset, FS_CardinalityType DEF ResetRows
    <2>6. Cardinality(ResetRows) \in Nat /\ calls \in Nat
      BY <1>1, <2>5, FS_CardinalityType, MaxCallsType DEF TypeOK
    <2>7. Cardinality(ResetRows) + Cardinality(Resetting') <= calls
      BY <2>1, <2>4, <2>5, <2>6
    <2>8. QED
      BY <1>2, <2>2, <2>4, <2>7 DEF Counted
  <1>8. Overlaps'
    BY <1>2, <1>6 DEF Inv, Overlaps
  <1>9. Governed'
    BY <1>2, <1>3, <1>5 DEF Inv, Governed, Governs, NeverUngoverned, Is, Ran
  <1>10. Carried'
    BY <1>2, <1>3, <1>5 DEF Inv, Carried, Carries, IsResetRow, Is
  <1>11. Written'
    BY <1>2, <1>3, <1>5 DEF Inv, Written, Writes, Ran
  <1>12. ResetRepairs'
    <2>1. Nobody.alone = FALSE
      BY DEF Nobody
    <2>2. last' # [op |-> "reset", alone |-> TRUE]
      BY <1>2, <2>1
    <2>3. QED
      BY <2>2 DEF ResetRepairs
  <1>13. QED
    BY <1>4, <1>7, <1>8, <1>9, <1>10, <1>11, <1>12 DEF Inv

LEMMA TickInv ==
  ASSUME Inv, Tick
  PROVE  Inv'
  <1>1. TypeOK /\ clock \in Int /\ MaxTime \in Int /\ Opened \in Int
    BY TimeBound, SandboxDates DEF Inv, TypeOK, Times
  <1>2. /\ clock < MaxTime /\ clock' = clock + 1
        /\ thread' = thread /\ calls' = calls /\ overlapped' = overlapped /\ failed' = failed
        /\ last' = last /\ acme' = acme /\ storage' = storage /\ ledger' = ledger
        /\ reference' = reference /\ standing' = standing /\ journal' = journal
    BY DEF Tick, store
  <1>3. TypeOK'
    <2>1. clock' \in Opened..MaxTime
      BY <1>1, <1>2 DEF TypeOK
    <2>2. QED
      BY <1>1, <1>2, <2>1 DEF TypeOK
  <1>4. \A r : IsResetRow(r) => IsResetRow(r)'
    <2> SUFFICES ASSUME NEW r, IsResetRow(r) PROVE r.eff \in Opened..clock'
      BY DEF IsResetRow
    <2>1. r.eff \in Opened..clock
      BY DEF IsResetRow
    <2>2. QED
      BY <1>1, <1>2, <2>1
  <1>5. Carried'
    BY <1>2, <1>4 DEF Inv, Carried, Carries, Is, Left
  <1>6. Counted' /\ Overlaps' /\ Governed' /\ Written' /\ ResetRepairs'
    BY <1>2 DEF Inv, Counted, ResetRows, Resetting, Overlaps, Busy, Governed, NeverUngoverned,
                Governs, Written, Writes, ResetRepairs, Resting, Is, Left, Ran
  <1>7. QED
    BY <1>3, <1>5, <1>6 DEF Inv

LEMMA InitInv == Init => Inv
  <1> SUFFICES ASSUME Init PROVE Inv
    OBVIOUS
  <1>1. /\ clock = Opened /\ acme = "CURRENT" /\ storage = FALSE
        /\ ledger = {InitialRow} /\ reference = InitialRow
        /\ standing = [ACME |-> "allow", STORAGE |-> "none"] /\ journal = standing
        /\ thread = [t \in Threads |-> Idle] /\ calls = 0 /\ overlapped = {}
        /\ failed = FALSE /\ last = Nobody
    BY DEF Init
  <1>2. \A t \in Threads : thread[t] = Idle /\ thread[t].op = "none"
    BY <1>1, IdleIsState
  <1>3. standing \in [ACME : Actions, STORAGE : Actions]
    BY <1>1 DEF Actions
  <1>4. clock \in Opened..MaxTime /\ calls \in 0..MaxCalls
    BY <1>1, SandboxDates, TimeBound, MaxCallsType DEF Times
  <1>5. TypeOK
    BY <1>1, <1>2, <1>3, <1>4, IdleIsState, RowsOfTheScenario DEF TypeOK
  <1>6. Counted
    <2>1. Resetting = {} /\ ResetRows = {}
      BY <1>1, <1>2, RowsOfTheScenario DEF Resetting, ResetRows, Is
    <2>2. IsFiniteSet(ledger)
      BY <1>1, FS_Singleton
    <2>3. QED
      BY <1>1, <2>1, <2>2, FS_EmptySet DEF Counted
  <1>7. Busy = {}
    BY <1>2 DEF Busy
  <1>8. Overlaps
    BY <1>7 DEF Overlaps
  <1>9. Governed /\ Written
    BY <1>1, <1>2 DEF Governed, NeverUngoverned, Governs, Written, Writes, Is
  <1>10. Carried
    BY <1>1, <1>2 DEF Carried, Carries, Is
  <1>11. last # [op |-> "reset", alone |-> TRUE]
    BY <1>1 DEF Nobody
  <1>12. QED
    BY <1>5, <1>6, <1>8, <1>9, <1>10, <1>11 DEF Inv, ResetRepairs

LEMMA NextInv ==
  ASSUME Inv, [Next]_vars
  PROVE  Inv'
  <1>1. CASE UNCHANGED vars
    <2>1. /\ clock' = clock /\ thread' = thread /\ calls' = calls /\ overlapped' = overlapped
          /\ failed' = failed /\ last' = last /\ acme' = acme /\ storage' = storage
          /\ ledger' = ledger /\ reference' = reference /\ standing' = standing
          /\ journal' = journal
      BY <1>1 DEF vars, store
    <2>2. QED
      BY <2>1 DEF Inv, TypeOK, Counted, ResetRows, Resetting, Overlaps, Busy, Governed,
         NeverUngoverned, Governs, Carried, Carries, IsResetRow, Written, Writes, ResetRepairs,
         Resting, Is, Left, Ran
  <1>2. CASE \E t \in Threads, op \in Ops : Request(t, op)
    BY <1>2, RequestInv
  <1>3. CASE \E t \in Threads : Step(t)
    BY <1>3, StepInv
  <1>4. CASE \E t \in Threads : Fail(t)
    BY <1>4, FailInv
  <1>5. CASE Tick
    BY <1>5, TickInv
  <1>6. QED
    BY <1>1, <1>2, <1>3, <1>4, <1>5 DEF Next, Step, Ops

LEMMA Invariance == Spec => []Inv
  BY InitInv, NextInv, PTL DEF Spec

(* Every value is of its type, whatever the threads do to each other: in    *)
(* particular no reset ever runs out of UIDs.                               *)
(* (SandboxController: the store and the requests in flight)                *)
THEOREM TypeCorrect == Spec => []TypeOK
  <1>1. Inv => TypeOK
    BY DEF Inv
  <1>2. QED
    BY <1>1, Invariance, PTL

(* Between any two calls, and after any of them has raised, an active       *)
(* decision governs the path, unless a replacement and a reset ran side by  *)
(* side.                                                                    *)
(* (SandboxController.reset reopens before it archives,                     *)
(* record_replacement_decision saves before it supersedes)                  *)
THEOREM AlwaysGoverned == Spec => []NeverUngoverned
  <1>1. Inv => NeverUngoverned
    BY DEF Inv, Governed
  <1>2. QED
    BY <1>1, Invariance, PTL

(* A reset that runs alone to its end puts everything back, whatever came   *)
(* before it: requests cut short, or side by side in any order.             *)
(* (SandboxController.reset: "Return the sandbox to its initial state")     *)
THEOREM AResetRepairs == Spec => []ResetRepairs
  <1>1. Inv => ResetRepairs
    BY DEF Inv
  <1>2. QED
    BY <1>1, Invariance, PTL

-----------------------------------------------------------------------------
(* What has not yet come to agree has a request on its way to it.           *)
Someone(op, least, most) == \E t \in Threads : Is(t, op) /\ Left(t) \in least..most

Verdict == IF reference.value = 365 THEN "allow" ELSE "block"

ReferenceFollows ==
  (~failed /\ ResetRows = {} /\ ChangedRow \in ledger) =>
    reference = ChangedRow \/ Someone("break", 4, 4)

StandingFollows ==
  (~failed /\ ~Ran("break", "reset")) =>
    /\ standing.ACME = Verdict \/ Someone("break", 2, 3) \/ Someone("reset", 2, 3)
    /\ journal.ACME = standing.ACME \/ Someone("break", 1, 1) \/ Someone("reset", 1, 1)

ReplacementFollows ==
  /\ (~failed /\ ~Ran("resolve", "reset") /\ storage /\ acme = "CURRENT") =>
       Someone("resolve", 6, 6) \/ Someone("reset", 6, 6)
  /\ (~failed /\ storage) =>
       /\ standing.STORAGE = "allow" \/ Someone("resolve", 2, 6)
       /\ journal.STORAGE = "allow" \/ Someone("resolve", 1, 6)

Agreeing == Inv /\ ReferenceFollows /\ StandingFollows /\ ReplacementFollows

(* The call a thread makes is told by its place.                            *)
LEMMA PlaceTells ==
  ASSUME Inv, NEW t \in Threads, Step(t)
  PROVE  /\ Left(t) = 4 => SaveReference(t)
         /\ Left(t) = 3 => Evaluate(t)
         /\ Left(t) = 2 => SaveStanding(t)
         /\ Left(t) = 1 => JournalStanding(t)
         /\ (Left(t) = 6 /\ Is(t, "reset")) => Archive(t)
         /\ (Left(t) = 6 /\ Is(t, "resolve")) => Supersede(t)
  <1>1. TypeOK
    BY DEF Inv
  <1>2. (Look(t) => Left(t) = 6 /\ Is(t, "break")) /\ (Find(t) => Left(t) = 10)
    BY <1>1, LookMoves, FindMoves
  <1>3. /\ Archive(t) => Is(t, "reset")
        /\ Supersede(t) => Is(t, "resolve")
    BY <1>1, ArchiveMoves, SupersedeMoves
  <1>4. QED
    BY <1>1, <1>2, <1>3, StepPlaces DEF Step, Is

(* The others stay where they are.                                          *)
LEMMA OthersStay ==
  ASSUME Inv, NEW t \in Threads, Step(t)
  PROVE  /\ \A u \in Threads : u # t => thread'[u] = thread[u] /\ Left(u)' = Left(u)
         /\ failed' = failed /\ overlapped' = overlapped
  BY StepMoves, Moved DEF Inv, Moves

LEMMA StepReferenceFollows ==
  ASSUME Agreeing, NEW t \in Threads, Step(t)
  PROVE  ReferenceFollows'
  <1> SUFFICES ASSUME ~failed', ResetRows' = {}, ChangedRow \in ledger'
               PROVE  reference' = ChangedRow \/ Someone("break", 4, 4)'
    BY DEF ReferenceFollows
  <1>1. Inv /\ TypeOK /\ ledger \subseteq ledger' /\ ~failed
    BY StepTypes, OthersStay DEF Agreeing, Inv
  <1>2. ResetRows = {}
    BY <1>1 DEF ResetRows
  <1>3. CASE Record(t)
    <2>1. /\ ledger' = ledger \cup {thread'[t].row} /\ Moves(t, 4)
          /\ Is(t, "reset") => IsResetRow(thread'[t].row)
          /\ thread[t].op \in {"break", "reset"}
      BY <1>1, <1>3, RecordedRow
    <2>2. Is(t, "break")
      BY <2>1 DEF ResetRows, IsResetRow, Is
    <2>3. Is(t, "break")' /\ Left(t)' = 4
      BY <1>1, <2>1, <2>2, Moved DEF Is
    <2>4. QED
      BY <2>3 DEF Someone
  <1>4. CASE SaveReference(t)
    <2>1. /\ ledger' = ledger
          /\ Is(t, "resolve") => reference' = reference
          /\ Is(t, "break") => reference' = ChangedRow
          /\ Is(t, "reset") => reference'.uid > 2 /\ reference' \in ledger
          /\ thread[t].op \in {"break", "reset", "resolve"}
      BY <1>1, <1>4, SavedReference
    <2>2. ~Is(t, "reset")
      BY <1>2, <2>1 DEF ResetRows
    <2>3. CASE Is(t, "resolve")
      <3>1. reference = ChangedRow \/ \E u \in Threads : Is(u, "break") /\ Left(u) \in 4..4
        BY <1>1, <1>2, <2>1 DEF Agreeing, ReferenceFollows, Someone
      <3>2. \A u \in Threads : Is(u, "break") => u # t
        BY <2>3 DEF Is
      <3>3. QED
        BY <1>1, <2>1, <2>3, <3>1, <3>2, OthersStay DEF Someone, Is
    <2>4. QED
      BY <2>1, <2>2, <2>3 DEF Is
  <1>5. CASE ~Record(t) /\ ~SaveReference(t)
    <2>1. ledger' = ledger /\ reference' = reference
      BY <1>5, StepWrites
    <2>2. Left(t) # 4
      BY <1>1, <1>5, PlaceTells
    <2>3. reference = ChangedRow \/ \E u \in Threads : Is(u, "break") /\ Left(u) \in 4..4
      BY <1>1, <1>2, <2>1 DEF Agreeing, ReferenceFollows, Someone
    <2>4. \A u \in Threads : Left(u) \in 4..4 => u # t
      BY <2>2
    <2>5. QED
      BY <1>1, <2>1, <2>3, <2>4, OthersStay DEF Someone, Is
  <1>6. QED
    BY <1>3, <1>4, <1>5

(* A break that has saved its reference does not find that the decision     *)
(* stands.                                                                  *)
LEMMA EvaluatedOn ==
  ASSUME Inv, NEW t \in Threads, Evaluate(t), ~Ran("break", "reset") \/ Is(t, "resolve")
  PROVE  Left(t) = 3 /\ Moves(t, 2)
  <1>1. /\ Left(t) = 3
        /\ Moves(t, 2) \/ (Is(t, "break") /\ reference.value >= 365)
    BY EvaluateMoves DEF Inv
  <1>2. (Is(t, "break") /\ ~Ran("break", "reset")) => reference.value = 90
    BY <1>1 DEF Inv, Written, Writes, Is, Says
  <1>3. QED
    BY <1>1, <1>2 DEF Is

LEMMA StepStandingFollows ==
  ASSUME Agreeing, NEW t \in Threads, Step(t)
  PROVE  StandingFollows'
  <1> SUFFICES ASSUME ~failed', ~Ran("break", "reset")'
               PROVE  /\ standing'.ACME = Verdict' \/ \E u \in Threads : thread'[u].op \in {"break", "reset"} /\ Left(u)' \in 2..3
                      /\ journal'.ACME = standing'.ACME \/ \E u \in Threads : thread'[u].op \in {"break", "reset"} /\ Left(u)' = 1
    BY DEF StandingFollows, Someone, Is
  <1>1. Inv /\ TypeOK /\ Writes(t) /\ ~failed /\ ~Ran("break", "reset")
    BY OthersStay DEF Agreeing, Inv, Written, Ran
  <1>2. /\ standing.ACME = Verdict \/ \E u \in Threads : thread[u].op \in {"break", "reset"} /\ Left(u) \in 2..3
        /\ journal.ACME = standing.ACME \/ \E u \in Threads : thread[u].op \in {"break", "reset"} /\ Left(u) = 1
    BY <1>1 DEF Agreeing, StandingFollows, Someone, Is
  <1>3. \A u \in Threads : u # t => thread'[u] = thread[u] /\ Left(u)' = Left(u)
    BY <1>1, OthersStay
  <1>4. t \in Busy /\ thread[t].op \in {"break", "reset", "resolve"}
    BY <1>1, StepMoves, LeftOver DEF Moves, Ops
  <1>5. CASE SaveReference(t)
    <2>1. /\ Left(t) = 4 /\ Moves(t, 3) /\ standing' = standing /\ journal' = journal
          /\ Is(t, "resolve") => reference' = reference
      BY <1>1, <1>5, SavedReference, StepWrites, StepPlaces
    <2>2. Left(t)' = 3 /\ thread'[t].op = thread[t].op
      BY <1>1, <2>1, Moved
    <2>3. CASE Is(t, "resolve")
      BY <1>2, <1>3, <2>1, <2>2, <2>3 DEF Verdict, Is
    <2>4. CASE thread[t].op \in {"break", "reset"}
      <3>1. \E u \in Threads : thread'[u].op \in {"break", "reset"} /\ Left(u)' \in 2..3
        BY <2>2, <2>4
      <3>2. QED
        BY <1>2, <1>3, <2>1, <3>1
    <2>5. QED
      BY <1>4, <2>3, <2>4 DEF Is
  <1>6. CASE SaveStanding(t)
    <2>1. /\ Left(t) = 2 /\ Moves(t, 1) /\ reference' = reference /\ journal' = journal
          /\ standing'.ACME = IF Is(t, "resolve") THEN standing.ACME ELSE ActionOf(thread[t].op)
      BY <1>1, <1>6, SaveStandingMoves
    <2>2. Left(t)' = 1 /\ thread'[t].op = thread[t].op
      BY <1>1, <2>1, Moved
    <2>3. CASE Is(t, "resolve")
      BY <1>2, <1>3, <2>1, <2>2, <2>3 DEF Verdict, Is
    <2>4. CASE thread[t].op \in {"break", "reset"}
      <3>1. reference.value = Says(thread[t].op)
        BY <1>1, <2>1, <2>4 DEF Writes
      <3>2. standing'.ACME = ActionOf(thread[t].op) /\ Verdict' = Verdict
        BY <2>1, <2>4 DEF Is, Verdict
      <3>3. standing'.ACME = Verdict'
        BY <2>4, <3>1, <3>2 DEF Verdict, Says, ActionOf
      <3>4. \E u \in Threads : thread'[u].op \in {"break", "reset"} /\ Left(u)' = 1
        BY <2>2, <2>4
      <3>5. QED
        BY <3>3, <3>4
    <2>5. QED
      BY <1>4, <2>3, <2>4 DEF Is
  <1>7. CASE JournalStanding(t)
    <2>1. /\ Left(t) = 1 /\ reference' = reference /\ standing' = standing
          /\ journal'.ACME = IF Is(t, "resolve") THEN journal.ACME ELSE ActionOf(thread[t].op)
      BY <1>1, <1>7, JournalStandingMoves
    <2>2. thread[t].op \in {"break", "reset"} => standing.ACME = ActionOf(thread[t].op)
      BY <1>1, <2>1 DEF Writes
    <2>3. standing'.ACME = Verdict' \/ \E u \in Threads : thread'[u].op \in {"break", "reset"} /\ Left(u)' \in 2..3
      BY <1>2, <1>3, <2>1 DEF Verdict
    <2>4. CASE Is(t, "resolve")
      BY <1>2, <1>3, <2>1, <2>3, <2>4 DEF Is
    <2>5. CASE thread[t].op \in {"break", "reset"}
      BY <2>1, <2>2, <2>3, <2>5 DEF Is
    <2>6. QED
      BY <1>4, <2>4, <2>5 DEF Is
  <1>8. CASE Evaluate(t)
    <2>1. Left(t) = 3 /\ Moves(t, 2)
      BY <1>1, <1>8, EvaluatedOn
    <2>2. Left(t)' = 2 /\ thread'[t].op = thread[t].op
      BY <1>1, <2>1, Moved
    <2>3. reference' = reference /\ standing' = standing /\ journal' = journal
      BY <1>8 DEF Evaluate, store
    <2>4. Verdict' = Verdict
      BY <2>3 DEF Verdict
    <2>5. QED
      BY <1>2, <1>3, <2>1, <2>2, <2>3, <2>4
  <1>9. CASE ~SaveReference(t) /\ ~SaveStanding(t) /\ ~JournalStanding(t) /\ ~Evaluate(t)
    <2>1. reference' = reference /\ standing' = standing /\ journal' = journal
      BY <1>9, StepWrites
    <2>2. Verdict' = Verdict
      BY <2>1 DEF Verdict
    <2>3. Left(t) # 3 /\ Left(t) # 2 /\ Left(t) # 1
      BY <1>1, <1>9, PlaceTells
    <2>4. \A u \in Threads : Left(u) \in 2..3 \/ Left(u) = 1 => u # t
      BY <2>3
    <2>5. QED
      BY <1>2, <1>3, <2>1, <2>2, <2>4
  <1>10. QED
    BY <1>5, <1>6, <1>7, <1>8, <1>9

LEMMA StepReplacementFollows ==
  ASSUME Agreeing, NEW t \in Threads, Step(t)
  PROVE  ReplacementFollows'
  <1>1. Inv /\ TypeOK
    BY DEF Agreeing, Inv
  <1>2. /\ \A u \in Threads : u # t => thread'[u] = thread[u] /\ Left(u)' = Left(u)
        /\ failed' = failed /\ overlapped' = overlapped
    BY <1>1, OthersStay
  <1>3. t \in Busy /\ thread[t].op \in {"break", "reset", "resolve"} /\ Left(t) \in Nat
    BY <1>1, StepMoves, LeftOver DEF Moves, Ops
  <1>4. ASSUME SaveNew(t)
        PROVE  thread'[t].op = "resolve" /\ Left(t)' = 6
    <2>1. Is(t, "resolve") /\ Moves(t, 6)
      BY <1>1, <1>4, SaveNewMoves
    <2>2. QED
      BY <1>1, <2>1, Moved DEF Is
  <1>5. ASSUME ~failed', ~Ran("resolve", "reset")', storage', acme' = "CURRENT"
        PROVE  \E u \in Threads : thread'[u].op \in {"resolve", "reset"} /\ Left(u)' = 6
    <2>1. CASE SaveNew(t)
      BY <1>4, <2>1
    <2>2. CASE Reopen(t)
      <3>1. Is(t, "reset") /\ Moves(t, 6)
        BY <1>1, <2>2, ReopenMoves
      <3>2. thread'[t].op = "reset" /\ Left(t)' = 6
        BY <1>1, <3>1, Moved DEF Is
      <3>3. QED
        BY <3>2
    <2>3. CASE ~SaveNew(t) /\ ~Reopen(t)
      <3>1. ~Supersede(t) /\ ~Archive(t)
        BY <1>1, <1>5, SupersedeMoves, ArchiveMoves
      <3>2. acme = "CURRENT" /\ storage
        BY <1>5, <2>3, <3>1, StepWrites
      <3>3. PICK u \in Threads : thread[u].op \in {"resolve", "reset"} /\ Left(u) = 6
        BY <1>2, <1>5, <3>2 DEF Agreeing, ReplacementFollows, Someone, Is, Ran
      <3>4. u # t
        BY <1>1, <3>1, <3>3, PlaceTells DEF Is
      <3>5. QED
        BY <1>2, <3>3, <3>4
    <2>4. QED
      BY <2>1, <2>2, <2>3
  <1>6. ASSUME ~failed', storage'
        PROVE  /\ standing'.STORAGE = "allow" \/ \E u \in Threads : thread'[u].op = "resolve" /\ Left(u)' \in 2..6
               /\ journal'.STORAGE = "allow" \/ \E u \in Threads : thread'[u].op = "resolve" /\ Left(u)' \in 1..6
    <2>1. CASE SaveNew(t)
      BY <1>4, <2>1
    <2>2. CASE ~SaveNew(t)
      <3>1. storage
        <4>1. ~Archive(t)
          BY <1>1, <1>6, ArchiveMoves
        <4>2. QED
          BY <1>6, <2>2, <4>1, StepWrites
      <3>2. /\ standing.STORAGE = "allow" \/ \E u \in Threads : thread[u].op = "resolve" /\ Left(u) \in 2..6
            /\ journal.STORAGE = "allow" \/ \E u \in Threads : thread[u].op = "resolve" /\ Left(u) \in 1..6
        BY <1>2, <1>6, <3>1 DEF Agreeing, ReplacementFollows, Someone, Is
      <3>3. CASE SaveStanding(t)
        <4>1. /\ Left(t) = 2 /\ Moves(t, 1) /\ journal' = journal
              /\ standing'.STORAGE = IF Is(t, "resolve") THEN "allow" ELSE standing.STORAGE
          BY <1>1, <3>3, SaveStandingMoves
        <4>2. Left(t)' = 1 /\ thread'[t].op = thread[t].op
          BY <1>1, <4>1, Moved
        <4>3. QED
          BY <1>2, <3>2, <4>1, <4>2 DEF Is
      <3>4. CASE JournalStanding(t)
        <4>1. /\ Left(t) = 1 /\ standing' = standing
              /\ journal'.STORAGE = IF Is(t, "resolve") THEN "allow" ELSE journal.STORAGE
          BY <1>1, <3>4, JournalStandingMoves
        <4>2. QED
          BY <1>2, <3>2, <4>1 DEF Is
      <3>5. CASE ~SaveStanding(t) /\ ~JournalStanding(t)
        <4>1. standing' = standing /\ journal' = journal
          BY <3>5, StepWrites
        <4>2. Left(t) # 1 /\ Left(t) # 2
          BY <1>1, <3>5, PlaceTells
        <4>3. ASSUME thread[t].op = "resolve", Left(t) \in 1..6
              PROVE  thread'[t].op = "resolve" /\ Left(t)' \in 2..6
          <5>1. Left(t) \in 3..6
            BY <4>2, <4>3
          <5>2. CASE Evaluate(t)
            <6>1. Moves(t, 2)
              BY <1>1, <4>3, <5>2, EvaluatedOn DEF Is
            <6>2. QED
              BY <1>1, <4>3, <6>1, Moved
          <5>3. CASE ~Evaluate(t)
            <6>1. ~Look(t) /\ ~Find(t)
              <7>1. Look(t) => Is(t, "break")
                BY <1>1, LookMoves
              <7>2. Find(t) => Left(t) = 10
                BY <1>1, FindMoves
              <7>3. QED
                BY <4>3, <7>1, <7>2 DEF Is
            <6>2. Moves(t, Left(t) - 1)
              BY <1>1, <5>3, <6>1, StepMoves
            <6>3. Left(t)' = Left(t) - 1 /\ Left(t) - 1 \in 2..5
              BY <1>1, <5>1, <6>2, Moved
            <6>4. thread'[t].op = thread[t].op
              BY <1>1, <5>1, <6>2, <6>3, Moved
            <6>5. QED
              BY <4>3, <6>3, <6>4
          <5>4. QED
            BY <5>2, <5>3
        <4>4. QED
          <5>1. \A u \in Threads : u # t \/ u = t
            OBVIOUS
          <5>2. \A n : n \in 2..6 => n \in 1..6
            OBVIOUS
          <5>3. \A u \in Threads : thread[u].op = "resolve" /\ Left(u) \in 1..6 =>
                  thread'[u].op = "resolve" /\ (Left(u)' = Left(u) \/ Left(u)' \in 2..6)
            BY <1>2, <4>3
          <5>4. QED
            BY <3>2, <4>1, <5>2, <5>3
      <3>6. QED
        BY <3>3, <3>4, <3>5
    <2>3. QED
      BY <2>1, <2>2
  <1>7. QED
    BY <1>5, <1>6 DEF ReplacementFollows, Someone, Is

(* A request that arrives leaves everyone else's where it is.               *)
LEMMA RequestAgreeing ==
  ASSUME Agreeing, NEW t \in Threads, NEW op \in Ops, Request(t, op)
  PROVE  Agreeing'
  <1>1. Inv /\ TypeOK
    BY DEF Agreeing, Inv
  <1>2. /\ thread[t] = Idle /\ failed' = failed /\ UNCHANGED store
        /\ overlapped \subseteq overlapped'
        /\ \A u \in Threads \ {t} :
             /\ thread[u] = Idle => thread'[u] = Idle
             /\ thread[u] # Idle => thread'[u].op = thread[u].op /\ thread'[u].todo = thread[u].todo
    BY <1>1, RequestArrives
  <1>3. \A u \in Threads : thread[u].op \in Ops =>
          thread'[u].op = thread[u].op /\ Left(u)' = Left(u)
    BY <1>2, IdleIsState DEF Ops, Left
  <1>4. \A o \in Ops : \A least, most : Someone(o, least, most) => Someone(o, least, most)'
    BY <1>3 DEF Someone, Is
  <1>5. /\ acme' = acme /\ storage' = storage /\ ledger' = ledger /\ reference' = reference
        /\ standing' = standing /\ journal' = journal
    BY <1>2 DEF store
  <1>6. \A o1, o2 : Ran(o1, o2) => Ran(o1, o2)'
    BY <1>2 DEF Ran
  <1>7. "break" \in Ops /\ "reset" \in Ops /\ "resolve" \in Ops
    BY DEF Ops
  <1>8. ReferenceFollows'
    BY <1>2, <1>4, <1>5, <1>7 DEF Agreeing, ReferenceFollows, ResetRows
  <1>9. StandingFollows'
    <2>1. Verdict' = Verdict
      BY <1>5 DEF Verdict
    <2>2. QED
      BY <1>2, <1>4, <1>5, <1>6, <1>7, <2>1 DEF Agreeing, StandingFollows
  <1>10. ReplacementFollows'
    BY <1>2, <1>4, <1>5, <1>6, <1>7 DEF Agreeing, ReplacementFollows
  <1>11. Inv'
    BY <1>1, RequestInv
  <1>12. QED
    BY <1>8, <1>9, <1>10, <1>11 DEF Agreeing

LEMMA StaysAgreeing ==
  ASSUME Agreeing, Tick \/ UNCHANGED vars
  PROVE  Agreeing'
  <1>1. Inv'
    <2>1. [Next]_vars
      BY DEF Next
    <2>2. QED
      BY <2>1, NextInv DEF Agreeing
  <1>2. /\ acme' = acme /\ storage' = storage /\ ledger' = ledger /\ reference' = reference
        /\ standing' = standing /\ journal' = journal /\ thread' = thread
        /\ overlapped' = overlapped /\ failed' = failed
    BY DEF Tick, vars, store
  <1>3. ReferenceFollows' /\ StandingFollows' /\ ReplacementFollows'
    BY <1>2 DEF Agreeing, ReferenceFollows, StandingFollows, ReplacementFollows, Someone,
                ResetRows, Verdict, Is, Left, Ran
  <1>4. QED
    BY <1>1, <1>3 DEF Agreeing

LEMMA NextAgreeing ==
  ASSUME Agreeing, [Next]_vars
  PROVE  Agreeing'
  <1>1. Inv'
    BY NextInv DEF Agreeing
  <1>2. CASE \E t \in Threads, op \in Ops : Request(t, op)
    BY <1>2, RequestAgreeing
  <1>3. CASE \E t \in Threads : Step(t)
    BY <1>1, <1>3, StepReferenceFollows, StepStandingFollows, StepReplacementFollows DEF Agreeing
  <1>4. CASE \E t \in Threads : Fail(t)
    <2>1. failed' = TRUE
      BY <1>4 DEF Fail
    <2>2. QED
      BY <1>1, <2>1 DEF Agreeing, ReferenceFollows, StandingFollows, ReplacementFollows
  <1>5. CASE Tick \/ UNCHANGED vars
    BY <1>5, StaysAgreeing
  <1>6. QED
    BY <1>2, <1>3, <1>4, <1>5 DEF Next, Step, Ops

LEMMA Agreement == Spec => []Agreeing
  <1>1. Init => Agreeing
    <2> SUFFICES ASSUME Init PROVE Agreeing
      OBVIOUS
    <2>1. /\ storage = FALSE /\ ledger = {InitialRow} /\ reference = InitialRow
          /\ standing.ACME = "allow" /\ journal = standing
      BY DEF Init
    <2>2. Verdict = "allow" /\ InitialRow # ChangedRow
      BY <2>1, RowsOfTheScenario DEF Verdict
    <2>3. QED
      BY <2>1, <2>2, InitInv DEF Agreeing, ReferenceFollows, StandingFollows, ReplacementFollows
  <1>2. QED
    BY <1>1, NextAgreeing, PTL DEF Spec

-----------------------------------------------------------------------------
(* A ledger whose latest rows in force say one thing has a head saying it.  *)
LEMMA HeadValue ==
  ASSUME NEW L \in SUBSET Rows, IsFiniteSet(L), NEW v, ~Unresolvable(L),
         NEW x \in Active(L, v), NEW w, \A c \in Candidates(L, v) : c.value = w
  PROVE  CanonicalHead(L, v) # NoRow /\ CanonicalHead(L, v).value = w
  <1>1. Active(L, v) \subseteq L
    BY DEF Active, Available
  <1>2. Active(L, v) \in SUBSET Rows /\ IsFiniteSet(Active(L, v)) /\ Active(L, v) # {}
    BY <1>1, FS_Subset
  <1>3. \E r \in Active(L, v) : \A c \in Active(L, v) : c.eff <= r.eff
    BY <1>2, LatestExists
  <1>4. Candidates(L, v) # {} /\ ~Disagree(Candidates(L, v))
    BY <1>3 DEF Candidates, Disagree
  <1>5. CanonicalHead(L, v) # NoRow
    BY <1>4, HeadExists
  <1>6. CanonicalHead(L, v) \in Candidates(L, v)
    BY <1>5, HeadIsCandidate
  <1>7. QED
    BY <1>5, <1>6

(* Used from its own dates on, the sandbox has resolvable rows: each reset's *)
(* row ends the one that changed the retention, and nothing ends a reset's. *)
LEMMA RowsInForce ==
  ASSUME Inv, Opened >= ResetOn
  PROVE  /\ Known(ledger, clock, TRUE) = ledger /\ ~Unresolvable(ledger)
         /\ InitialRow \in Active(ledger, clock)
         /\ ResetRows \subseteq Active(ledger, clock)
         /\ ChangedRow \in ledger => (ChangedRow \in Active(ledger, clock) <=> ResetRows = {})
  <1>1. /\ TypeOK /\ InitialRow \in ledger
        /\ \A r \in ledger : r = InitialRow \/ r = ChangedRow \/ IsResetRow(r)
    BY DEF Inv, Carried
  <1>2. clock \in Int /\ clock >= 3 /\ Opened \in Int /\ Opened >= 3
    BY <1>1, SandboxDates DEF TypeOK, Times, ResetOn
  <1>3. \A r \in ledger : IsResetRow(r) => r.eff \in Int /\ 3 <= r.eff /\ r.eff <= clock
    BY <1>2 DEF IsResetRow
  <1>4. \A r \in ledger : r.recorded <= clock /\ r.accepted /\ ~r.revoked /\ r.until = NoTime
    BY <1>1, <1>2, RowsOfTheScenario DEF IsResetRow, ResetOn
  <1>5. Known(ledger, clock, TRUE) = ledger /\ Available(ledger) = ledger
    BY <1>4 DEF Known, Available
  <1>6. /\ \A c \in ledger : c.ref = 2 <=> IsResetRow(c)
        /\ \A c \in ledger : c.ref = NoUID \/ c.ref = 2
    <2>1. NoUID # 2
      BY SandboxUIDs, MaxCallsType, Sentinels
    <2>2. ~IsResetRow(InitialRow) /\ ~IsResetRow(ChangedRow)
      BY RowsOfTheScenario DEF IsResetRow
    <2>3. QED
      BY <1>1, <2>1, <2>2, RowsOfTheScenario DEF IsResetRow
  <1>7. \A p \in ledger : p.uid \in UIDs /\ (p.uid = 2 <=> p = ChangedRow)
    BY <1>1, RowsOfTheScenario DEF TypeOK, Rows, IsResetRow
  <1>8. \A p \in ledger : Children(ledger, p) = IF p = ChangedRow THEN ResetRows ELSE {}
    <2>1. \A r \in ledger : IsResetRow(r) <=> r.uid > 2
      BY <1>1, RowsOfTheScenario DEF IsResetRow
    <2>2. NoUID \notin UIDs
      BY Sentinels
    <2>3. QED
      BY <1>5, <1>6, <1>7, <2>1, <2>2 DEF Children, ResetRows
  <1>9. \A r \in ResetRows : r \in ledger /\ IsResetRow(r)
    BY <1>1, RowsOfTheScenario DEF ResetRows
  <1>10. ~Unresolvable(ledger)
    BY <1>3, <1>5, <1>8, <1>9, RowsOfTheScenario DEF Unresolvable
  <1>11. \A p \in ledger : Ends(ledger, p) = IF p = ChangedRow THEN {c.eff : c \in ResetRows} ELSE {}
    BY <1>4, <1>8 DEF Ends
  <1>12. \A p \in ledger : p \in Superseded(ledger, clock) <=> (p = ChangedRow /\ ResetRows # {})
    BY <1>3, <1>5, <1>9, <1>11 DEF Superseded
  <1>13. \A r \in ledger : r.eff <= clock
    BY <1>1, <1>2, <1>3, RowsOfTheScenario
  <1>14. ChangedRow \notin ResetRows /\ InitialRow # ChangedRow
    BY RowsOfTheScenario DEF ResetRows
  <1>15. \A r \in ledger : r \in Active(ledger, clock) <=> r \notin Superseded(ledger, clock)
    BY <1>5, <1>13 DEF Active
  <1>16. QED
    BY <1>1, <1>5, <1>9, <1>10, <1>12, <1>14, <1>15

LEMMA HeadAgrees ==
  ASSUME Agreeing, Opened >= ResetOn, Resting, ~failed,
         reference # ChangedRow \/ ledger \subseteq {InitialRow, ChangedRow}
  PROVE  LET head == KnownAsOf(ledger, clock, clock, TRUE) IN
           head # NoRow /\ head.value = reference.value
  <1>1. /\ Inv /\ TypeOK /\ InitialRow \in ledger /\ IsFiniteSet(ledger)
        /\ \A r \in ledger : r = InitialRow \/ r = ChangedRow \/ IsResetRow(r)
        /\ reference \in ledger
    BY DEF Agreeing, Inv, Carried, Counted, TypeOK
  <1>2. /\ Known(ledger, clock, TRUE) = ledger /\ ~Unresolvable(ledger)
        /\ InitialRow \in Active(ledger, clock)
        /\ ResetRows \subseteq Active(ledger, clock)
        /\ ChangedRow \in ledger => (ChangedRow \in Active(ledger, clock) <=> ResetRows = {})
    BY <1>1, RowsInForce
  <1>3. \A c \in Candidates(ledger, clock) :
          /\ c \in ledger /\ c \in Active(ledger, clock)
          /\ \A a \in Active(ledger, clock) : a.eff <= c.eff
    BY DEF Candidates, Active, Available
  <1>4. \A c \in Candidates(ledger, clock) : c.value = reference.value
    <2>1. CASE ResetRows # {}
      <3>1. PICK r \in ResetRows : IsResetRow(r) /\ r \in ledger /\ r \in Active(ledger, clock)
        BY <1>1, <1>2, <2>1, RowsOfTheScenario DEF ResetRows
      <3>2. r.eff \in Int /\ r.eff >= 3
        BY <1>1, <3>1, SandboxDates DEF IsResetRow, Times, ResetOn, TypeOK
      <3>3. \A c \in Candidates(ledger, clock) : IsResetRow(c)
        BY <1>1, <1>2, <1>3, <2>1, <3>1, <3>2, RowsOfTheScenario
      <3>4. r # InitialRow /\ r # ChangedRow
        BY <3>1, RowsOfTheScenario DEF IsResetRow
      <3>5. reference.value = 365
        BY <1>1, <3>1, <3>4, RowsOfTheScenario DEF IsResetRow
      <3>6. QED
        BY <3>3, <3>5 DEF IsResetRow
    <2>2. CASE ResetRows = {}
      <3>1. \A r \in ledger : r = InitialRow \/ r = ChangedRow
        BY <1>1, <2>2 DEF ResetRows, IsResetRow
      <3>2. CASE ChangedRow \in ledger
        <4>1. \A u \in Threads : ~Is(u, "break")
          BY IdleIsState DEF Resting, Busy, Is
        <4>2. reference = ChangedRow
          BY <2>2, <3>2, <4>1 DEF Agreeing, ReferenceFollows, Someone
        <4>3. \A c \in Candidates(ledger, clock) : c = ChangedRow
          BY <1>2, <1>3, <2>2, <3>1, <3>2, RowsOfTheScenario
        <4>4. QED
          BY <4>2, <4>3
      <3>3. CASE ChangedRow \notin ledger
        BY <1>1, <1>3, <3>1, <3>3
      <3>4. QED
        BY <3>2, <3>3
    <2>3. QED
      BY <2>1, <2>2
  <1>5. KnownAsOf(ledger, clock, clock, TRUE) = CanonicalHead(ledger, clock)
    BY <1>2 DEF KnownAsOf
  <1>6. ledger \in SUBSET Rows
    BY <1>1 DEF TypeOK
  <1>7. CanonicalHead(ledger, clock) # NoRow /\ CanonicalHead(ledger, clock).value = reference.value
    BY <1>1, <1>2, <1>4, <1>6, HeadValue
  <1>8. QED
    BY <1>5, <1>7

(* At rest, with no request ended part way and none beside one that undoes  *)
(* it, the head of the known rows, the reference, the standings stored and  *)
(* journaled and the two decisions tell one story, if the sandbox is used   *)
(* from its own dates on.                                                   *)
(* (SandboxController: each of its three requests writes them one by one)   *)
THEOREM AtRestAllAgrees ==
  ASSUME Opened >= ResetOn
  PROVE  Spec => []RecordsAgree
  <1>1. ASSUME Agreeing PROVE RecordsAgree
    <2> SUFFICES ASSUME Resting, ~failed, ~Ran("break", "reset"), ~Ran("resolve", "reset")
                 PROVE  /\ reference # ChangedRow \/ ledger \subseteq {InitialRow, ChangedRow} =>
                             /\ KnownAsOf(ledger, clock, clock, TRUE) # NoRow
                             /\ KnownAsOf(ledger, clock, clock, TRUE).value = reference.value
                        /\ standing.ACME = Verdict
                        /\ journal.ACME = standing.ACME
                        /\ storage <=> acme = "SUPERSEDED"
                        /\ storage => standing.STORAGE = "allow" /\ journal.STORAGE = "allow"
      BY DEF RecordsAgree, Verdict
    <2>1. \A u \in Threads, op \in Ops : ~Is(u, op)
      BY IdleIsState DEF Resting, Busy, Is, Ops
    <2>2. \A op \in Ops : \A least, most : ~Someone(op, least, most)
      BY <2>1 DEF Someone
    <2>3. "break" \in Ops /\ "reset" \in Ops /\ "resolve" \in Ops
      BY DEF Ops
    <2>4. standing.ACME = Verdict /\ journal.ACME = standing.ACME
      BY <1>1, <2>2, <2>3 DEF Agreeing, StandingFollows
    <2>5. /\ storage /\ acme = "CURRENT" => FALSE
          /\ storage => standing.STORAGE = "allow" /\ journal.STORAGE = "allow"
      BY <1>1, <2>2, <2>3 DEF Agreeing, ReplacementFollows
    <2>6. acme \in {"CURRENT", "SUPERSEDED"} /\ (acme = "CURRENT" \/ storage)
      BY <1>1 DEF Agreeing, Inv, TypeOK, Governed, NeverUngoverned
    <2>7. storage <=> acme = "SUPERSEDED"
      BY <2>5, <2>6
    <2>8. QED
      BY <1>1, <2>4, <2>5, <2>7, HeadAgrees
  <1>2. QED
    BY <1>1, Agreement, PTL
=============================================================================
