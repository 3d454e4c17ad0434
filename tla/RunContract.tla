----------------------------- MODULE RunContract -----------------------------
(***************************************************************************)
(* What the devlab job queue promises about the runs of a job, without the *)
(* mailbox, the statuses of an end or the give-back counter: docs/devlab/  *)
(* queue.md, "Statuses and transitions" and "Test jobs".                   *)
(*                                                                         *)
(* A job is opened, and may be opened again once it is over or waits for   *)
(* its owner.  Only a ready job changes hands: it is taken, and its holder *)
(* stays its holder until it gives it back or another takes it.  What is   *)
(* said or asked of a job in work is its holder's.  Between two openings   *)
(* it is set to work at most Limit[j] times.                               *)
(***************************************************************************)
EXTENDS Integers

CONSTANTS Job, Holder, Nobody, Limit

VARIABLES
  phase,
  holder,  \* who took the job last and has not given it back
  runs     \* how often it was set to work since it was opened

vars == <<phase, holder, runs>>

Init ==
  /\ phase = [j \in Job |-> "new"]
  /\ holder = [j \in Job |-> Nobody]
  /\ runs = [j \in Job |-> 0]

Open(j) ==
  /\ phase[j] \in {"new", "over", "asking"}
  /\ phase' = [phase EXCEPT ![j] = "ready"]
  /\ runs' = [runs EXCEPT ![j] = 0]
  /\ UNCHANGED holder

\* A run begins: the job is held, whoever holds it.
Start(j) ==
  /\ phase[j] = "ready"
  /\ runs[j] < Limit[j]
  /\ phase' = [phase EXCEPT ![j] = "held"]
  /\ runs' = [runs EXCEPT ![j] = @ + 1]

Take(h, j) ==
  /\ Start(j)
  /\ holder' = [holder EXCEPT ![j] = h]

\* The owner's word sets it to work before anybody has taken it: its last
\* holder is taken to have it, if it had one.
Presume(j) == Start(j) /\ UNCHANGED holder

GiveBack(j) ==
  /\ phase[j] = "held" /\ holder[j] # Nobody
  /\ runs[j] < Limit[j]
  /\ phase' = [phase EXCEPT ![j] = "ready"]
  /\ holder' = [holder EXCEPT ![j] = Nobody]
  /\ UNCHANGED runs

\* The holder keeps the job while its owner thinks.
Ask(j) ==
  /\ phase[j] = "held" /\ holder[j] # Nobody
  /\ phase' = [phase EXCEPT ![j] = "asking"]
  /\ UNCHANGED <<holder, runs>>

GoOn(j) ==
  /\ phase[j] = "asking"
  /\ phase' = [phase EXCEPT ![j] = "held"]
  /\ UNCHANGED <<holder, runs>>

Close(j) ==
  /\ phase[j] \in {"ready", "held", "asking"}
  /\ phase' = [phase EXCEPT ![j] = "over"]
  /\ UNCHANGED <<holder, runs>>

Next ==
  \E j \in Job :
    \/ Open(j)
    \/ \E h \in Holder : Take(h, j)
    \/ Presume(j)
    \/ GiveBack(j)
    \/ Ask(j)
    \/ GoOn(j)
    \/ Close(j)

Spec == Init /\ [][Next]_vars

=============================================================================
