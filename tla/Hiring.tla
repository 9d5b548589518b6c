-------------------------------- MODULE Hiring --------------------------------
(***************************************************************************)
(* What hiring a verifier promises, whatever processes, transactions and   *)
(* messages it takes: readings are published under jobs somebody has paid  *)
(* for, a hire is answered by such a reading or fails, and it ends once.   *)
(***************************************************************************)
CONSTANTS Calls, Jobs, Readings, NoReading

VARIABLES paid,       \* the jobs whose fee was taken
          published,  \* the readings on the chain, each under its job
          state,      \* each hire: idle, hired, answered or failed
          reading     \* the reading a hire was answered with

vars == <<paid, published, state, reading>>

Published == [job : Jobs, reading : Readings]

Init ==
  /\ paid = {} /\ published = {}
  /\ state = [c \in Calls |-> "idle"]
  /\ reading = [c \in Calls |-> NoReading]

Hire(c) ==
  /\ state[c] = "idle"
  /\ state' = [state EXCEPT ![c] = "hired"]
  /\ UNCHANGED <<paid, published, reading>>

Pay(j) ==
  /\ paid' = paid \cup {j}
  /\ UNCHANGED <<published, state, reading>>

(* A reading belongs to one job, which was paid before it was published. *)
Publish(j, r) ==
  /\ j \in paid
  /\ \A p \in published : p.reading # r
  /\ published' = published \cup {[job |-> j, reading |-> r]}
  /\ UNCHANGED <<paid, state, reading>>

Answer(c, p) ==
  /\ state[c] = "hired"
  /\ p \in published
  /\ state' = [state EXCEPT ![c] = "answered"]
  /\ reading' = [reading EXCEPT ![c] = p.reading]
  /\ UNCHANGED <<paid, published>>

Fail(c) ==
  /\ state[c] \in {"idle", "hired"}
  /\ state' = [state EXCEPT ![c] = "failed"]
  /\ UNCHANGED <<paid, published, reading>>

End(c) == state[c] = "hired" /\ (Fail(c) \/ \E p \in published : Answer(c, p))

Next ==
  \/ \E c \in Calls : Hire(c) \/ Fail(c) \/ \E p \in published : Answer(c, p)
  \/ \E j \in Jobs : Pay(j) \/ \E r \in Readings : Publish(j, r)

(* A hire that was begun comes to an end. *)
Spec == Init /\ [][Next]_vars /\ \A c \in Calls : WF_vars(End(c))
===============================================================================
