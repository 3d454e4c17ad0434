-------------------------------- MODULE Lease --------------------------------
(***************************************************************************)
(* The lease of a singleton service between the nodes of the swarm         *)
(* (node/lease.py, class LeaseManager) over the supervisor of each node    *)
(* (node/supervisor.py, class SupervisedService), for one slot.            *)
(*                                                                         *)
(* There is no consensus: every node reads the state of its peers, one     *)
(* request at a time, and decides alone.  Between two answers, and between *)
(* the last one and the decision, the others go on.  The unit of time is   *)
(* the poll interval: in each unit every node makes one tick, unless it is *)
(* inside the stop of its process.                                         *)
(*                                                                         *)
(* Left out: the warning of a stuck slot, a process that cannot be         *)
(* created, the assignment of slots, and the commands start, stop and      *)
(* restart that an operator or the replication may give.                   *)
(***************************************************************************)
EXTENDS Integers, FiniteSets

CONSTANTS
  Node,         \* the nodes that have the slot
  Rank,         \* rank(): role, priority, name
  Active,       \* nodes whose role is active; the others are standby
  Slow,         \* nodes whose process may take any time to be ready
  Grace,        \* FAILOVER_GRACE_S
  ReadyTimeout, \* SUPERIOR_READY_TIMEOUT_S
  Holdoff,      \* FENCED_HOLDOFF_S
  MaxStop,      \* the longest stop of a process (stop_timeout_s)
  MaxBoot,      \* the longest start of a process that is not slow
  MaxDeaths,    \* bound: processes that die of themselves
  MaxOutages,   \* bound: nodes that go down
  MaxLosses     \* bound: requests to a live peer that get no answer

ASSUME LeaseAssumption ==
  /\ IsFiniteSet(Node)
  /\ Rank \in [Node -> Int]
  /\ \A m, n \in Node : Rank[m] = Rank[n] => m = n
  /\ Active \subseteq Node /\ Slow \subseteq Node
  /\ \A m \in Active, n \in Node \ Active : Rank[m] > Rank[n]
  /\ {Grace, ReadyTimeout, Holdoff, MaxStop, MaxBoot} \subseteq Nat
  /\ {MaxDeaths, MaxOutages, MaxLosses} \subseteq Nat

VARIABLES
  up,       \* the node's machine and its node process are there
  proc,     \* the process of the service; "crashed" and "fenced": it has
            \* exited and the supervisor has not seen it yet
  status,   \* SupervisedService._status
  wanted,   \* SupervisedService._desired_running
  stopFor,  \* how long slot.stop() of the tick has lasted
  claiming, \* the slot is in _claiming
  ready,    \* _ready
  silent,   \* the age of _silent_since
  yielded,  \* the age of _yielded_since
  fenced,   \* what is left of _fenced_until
  view,     \* the answers of the tick's poll, so far
  ticked,   \* the tick of this unit is over
  noting,   \* a 409 the supervisor has seen and the lease has not been told of
  boot,     \* for how long the process has been starting
  since,    \* history: peers that spawned a process after they were asked
  budget    \* what is left of the three bounds

supervisorVars == <<proc, status, wanted, stopFor, noting, boot>>
timerVars   == <<silent, yielded, fenced>>
leaseVars   == <<claiming, ready, timerVars>>
tickVars    == <<view, ticked, since>>
vars == <<up, supervisorVars, leaseVars, tickVars, budget>>

Off == -1  \* the timer is not in its dictionary

\* What a peer said: nothing yet, nothing at all, or its local_state (running,
\* claiming and ready, as far as a decision tells them apart).
Answer == {"unasked", "silent", "idle", "claims", "claims, was ready", "runs", "serves"}

Unasked == [p \in Node |-> "unasked"]

Spend(what) == budget[what] > 0 /\ budget' = [budget EXCEPT ![what] = @ - 1]

-----------------------------------------------------------------------------
LeaseInit ==
  /\ up = [n \in Node |-> TRUE]
  /\ proc = [n \in Node |-> "none"]
  /\ status = [n \in Node |-> "stopped"]
  /\ wanted = [n \in Node |-> FALSE]
  /\ stopFor = [n \in Node |-> Off]
  /\ noting = [n \in Node |-> FALSE]
  /\ boot = [n \in Node |-> 0]
  /\ claiming = [n \in Node |-> FALSE]
  /\ ready = [n \in Node |-> FALSE]
  /\ silent = [n \in Node |-> Off]
  /\ yielded = [n \in Node |-> Off]
  /\ fenced = [n \in Node |-> 0]
  /\ view = [n \in Node |-> Unasked]
  /\ ticked = [n \in Node |-> FALSE]
  /\ since = [n \in Node |-> {}]
  /\ budget = [deaths |-> MaxDeaths, outages |-> MaxOutages, losses |-> MaxLosses]

-----------------------------------------------------------------------------
(* The poll of a tick: _peer_singletons.                                   *)

Outranks(m, n) == Rank[m] > Rank[n]

\* mutant: a slot whose process is being stopped is reported as stopped
LocalStateWanted(p) ==
  CASE status[p] = "running" /\ wanted[p] -> IF ready[p] THEN "serves" ELSE "runs"
    [] ~(status[p] = "running" /\ wanted[p]) /\ claiming[p] ->
         IF ready[p] THEN "claims, was ready" ELSE "claims"
    [] OTHER -> "idle"

LocalState(p) ==
  CASE status[p] = "running" -> IF ready[p] THEN "serves" ELSE "runs"
    [] status[p] # "running" /\ claiming[p] -> IF ready[p] THEN "claims, was ready" ELSE "claims"
    [] OTHER -> "idle"

InTick(n) == up[n] /\ ~ticked[n] /\ stopFor[n] = Off

PollPeer(n, p) ==
  /\ InTick(n)
  /\ n # p
  /\ view[n][p] = "unasked"
  /\ \/ /\ up[p]
        /\ view' = [view EXCEPT ![n][p] = LocalState(p)]
        /\ UNCHANGED budget
     \/ /\ up[p] => Spend("losses")
        /\ ~up[p] => UNCHANGED budget
        /\ view' = [view EXCEPT ![n][p] = "silent"]
  /\ UNCHANGED <<up, supervisorVars, leaseVars, ticked, since>>

-----------------------------------------------------------------------------
(* The decision: _decide.                                                  *)

Said(n, answers)   == {p \in Node : view[n][p] \in answers}
Superiors(n)       == {p \in Said(n, Answer \ {"unasked", "silent"}) : Outranks(p, n)}
Holders(n)         == {p \in Superiors(n) : view[n][p] # "idle"}
ReadyHolders(n)    == {p \in Holders(n) : view[n][p] \in {"claims, was ready", "serves"}}
RunningInferior(n) == {p \in Said(n, {"runs", "serves"}) : Outranks(n, p)}

Decides(n) == InTick(n) /\ Said(n, {"unasked"}) = {n}

EndTick(n) ==
  /\ ticked' = [ticked EXCEPT ![n] = TRUE]
  /\ view' = [view EXCEPT ![n] = Unasked]
  /\ since' = [since EXCEPT ![n] = {}]
  /\ UNCHANGED <<up, fenced, ready, budget>>

Set(n, claims, quietFor, yieldedFor) ==
  /\ claiming' = [claiming EXCEPT ![n] = claims]
  /\ silent' = [silent EXCEPT ![n] = quietFor]
  /\ yielded' = [yielded EXCEPT ![n] = yieldedFor]

\* A tick that changes only what the manager keeps.
Keep(n, claims, quietFor, yieldedFor) ==
  /\ Set(n, claims, quietFor, yieldedFor)
  /\ EndTick(n)
  /\ UNCHANGED supervisorVars

\* slot.start(): nothing if the supervisor is at it already.
StartSlot(n) ==
  /\ Set(n, FALSE, Off, Off)
  /\ EndTick(n)
  /\ wanted' = [wanted EXCEPT ![n] = TRUE]
  /\ UNCHANGED <<proc, status, stopFor, noting, boot>>

\* The slot runs, and no superior wants it; or one does, but the process has
\* just died and is left to the supervisor.
StayRunning(n) ==
  /\ Decides(n)
  /\ status[n] = "running"
  /\ Holders(n) = {} \/ proc[n] # "alive"
  /\ Keep(n, FALSE, silent[n], yielded[n])

BeginStop(n) ==
  /\ Decides(n)
  /\ status[n] = "running"
  /\ Holders(n) # {}
  /\ proc[n] = "alive"
  /\ wanted' = [wanted EXCEPT ![n] = FALSE]
  /\ stopFor' = [stopFor EXCEPT ![n] = 0]
  /\ Set(n, FALSE, silent[n], yielded[n])
  /\ view' = [view EXCEPT ![n] = Unasked]
  /\ since' = [since EXCEPT ![n] = {}]
  /\ UNCHANGED <<up, proc, noting, boot, fenced, ready, ticked, budget>>

\* mutant: the status does not wait for the end of the process
YieldAtOnce(n) == BeginStop(n) /\ status' = [status EXCEPT ![n] = "stopped"]

\* A superior runs or claims: stop the process.  The tick goes on in StopDone.
Yield(n) == BeginStop(n) /\ UNCHANGED status

\* The rest of stop() and of the tick: the timer counts from before the stop.
StopDone(n) ==
  /\ stopFor[n] # Off
  /\ proc' = [proc EXCEPT ![n] = "none"]
  /\ status' = [status EXCEPT ![n] = "stopped"]
  /\ stopFor' = [stopFor EXCEPT ![n] = Off]
  /\ Set(n, claiming[n], silent[n],
         IF stopFor[n] < ReadyTimeout THEN stopFor[n] ELSE ReadyTimeout)
  /\ EndTick(n)
  /\ UNCHANGED <<wanted, noting, boot>>

\* Silence after a 409.
KeepSilence(n) ==
  /\ Decides(n)
  /\ status[n] # "running"
  /\ fenced[n] > 0
  /\ Keep(n, claiming[n], silent[n], yielded[n])

Idle(n) == Decides(n) /\ status[n] # "running" /\ fenced[n] = 0

GivesUpWaiting(n) == yielded[n] = ReadyTimeout /\ ReadyHolders(n) = {}

StandBack(n) ==
  /\ Idle(n)
  /\ Holders(n) # {}
  /\ ~GivesUpWaiting(n)
  /\ Keep(n, FALSE, Off, yielded[n])

\* The superior this node made way for did not get ready in time.
TakeBack(n) ==
  /\ Idle(n)
  /\ Holders(n) # {}
  /\ GivesUpWaiting(n)
  /\ StartSlot(n)

SeesInferior(n) == Idle(n) /\ Holders(n) = {} /\ RunningInferior(n) # {}

\* mutant: the node waits for the inferior without saying that it wants the slot
AskNot(n) == SeesInferior(n) /\ Keep(n, claiming[n], Off, Off)

\* An inferior runs: claim, and wait until it has stopped.
Ask(n) == SeesInferior(n) /\ Keep(n, TRUE, Off, Off)

\* mutant: running inferiors are not looked at
IsFreeAbove(n) == Holders(n) = {}

\* Nobody this node can hear runs the slot, and no superior wants it.
IsFree(n) == Holders(n) = {} /\ RunningInferior(n) = {}

LeaveToSuperior(n) ==
  /\ Idle(n)
  /\ IsFree(n)
  /\ Superiors(n) # {}
  /\ Keep(n, claiming[n], Off, Off)

SilentFor(n) == IF silent[n] = Off THEN 0 ELSE silent[n]
GraceOf(n)   == IF n \in Active THEN 0 ELSE Grace

WaitOut(n) ==
  /\ Idle(n)
  /\ IsFree(n)
  /\ Superiors(n) = {}
  /\ SilentFor(n) < GraceOf(n)
  /\ Keep(n, claiming[n], SilentFor(n), Off)

Take(n) ==
  /\ Idle(n)
  /\ IsFree(n)
  /\ Superiors(n) = {}
  /\ SilentFor(n) >= GraceOf(n)
  /\ StartSlot(n)

Decide(n) ==
  \/ StayRunning(n) \/ Yield(n) \/ KeepSilence(n) \/ StandBack(n) \/ TakeBack(n)
  \/ Ask(n) \/ LeaveToSuperior(n) \/ WaitOut(n) \/ Take(n)

-----------------------------------------------------------------------------
(* The supervisor and the process.                                         *)

\* on_spawned clears ready; those who have asked this node do not know.
Spawn(n) ==
  /\ up[n] /\ wanted[n] /\ proc[n] = "none"
  /\ proc' = [proc EXCEPT ![n] = "alive"]
  /\ status' = [status EXCEPT ![n] = "running"]
  /\ boot' = [boot EXCEPT ![n] = 0]
  /\ ready' = [ready EXCEPT ![n] = FALSE]
  /\ since' = [m \in Node |-> IF view[m][n] = "unasked" THEN since[m] ELSE since[m] \cup {n}]
  /\ UNCHANGED <<up, wanted, stopFor, noting, claiming, timerVars, view, ticked, budget>>

\* report_ready of the process
GetReady(n) ==
  /\ proc[n] = "alive"
  /\ ~ready[n]
  /\ ready' = [ready EXCEPT ![n] = TRUE]
  /\ boot' = [boot EXCEPT ![n] = 0]
  /\ UNCHANGED <<up, proc, status, wanted, stopFor, noting, claiming, timerVars, tickVars, budget>>

Exits(n, how) ==
  /\ proc[n] = "alive"
  /\ proc' = [proc EXCEPT ![n] = how]
  /\ UNCHANGED <<up, status, wanted, stopFor, noting, boot, leaseVars, tickVars>>

Die(n) == Exits(n, "crashed") /\ Spend("deaths")

\* Two pollers of one token: Telegram answers one of them 409.
Fence(n) ==
  /\ \E m \in Node \ {n} : proc[m] = "alive"
  /\ Exits(n, "fenced")
  /\ UNCHANGED budget

\* _run after proc.wait(); during a stop it only leaves the loop.  A fenced
\* slot is stopped before the event is sent, and the lease learns of it after.
SuperviseExit(n) ==
  /\ wanted[n]
  /\ proc[n] \in {"crashed", "fenced"}
  /\ proc' = [proc EXCEPT ![n] = "none"]
  /\ status' = [status EXCEPT ![n] = IF proc[n] = "crashed" THEN "restarting" ELSE "stopped"]
  /\ wanted' = [wanted EXCEPT ![n] = proc[n] = "crashed"]
  /\ noting' = [noting EXCEPT ![n] = @ \/ proc[n] = "fenced"]
  /\ UNCHANGED <<up, stopFor, boot, leaseVars, tickVars, budget>>

NoteFenced(n) ==
  /\ noting[n]
  /\ noting' = [noting EXCEPT ![n] = FALSE]
  /\ fenced' = [fenced EXCEPT ![n] = Holdoff]
  /\ claiming' = [claiming EXCEPT ![n] = FALSE]
  /\ silent' = [silent EXCEPT ![n] = Off]
  /\ UNCHANGED <<up, proc, status, wanted, stopFor, boot, ready, yielded, tickVars, budget>>

-----------------------------------------------------------------------------
(* Machines and time.                                                      *)

NodeDown(n) ==
  /\ up[n]
  /\ Spend("outages")
  /\ up' = [up EXCEPT ![n] = FALSE]
  /\ proc' = [proc EXCEPT ![n] = "none"]
  /\ status' = [status EXCEPT ![n] = "stopped"]
  /\ wanted' = [wanted EXCEPT ![n] = FALSE]
  /\ stopFor' = [stopFor EXCEPT ![n] = Off]
  /\ noting' = [noting EXCEPT ![n] = FALSE]
  /\ boot' = [boot EXCEPT ![n] = 0]
  /\ Set(n, FALSE, Off, Off)
  /\ fenced' = [fenced EXCEPT ![n] = 0]
  /\ ready' = [ready EXCEPT ![n] = FALSE]
  /\ view' = [view EXCEPT ![n] = Unasked]
  /\ ticked' = [ticked EXCEPT ![n] = FALSE]
  /\ since' = [since EXCEPT ![n] = {}]

NodeUp(n) ==
  /\ ~up[n]
  /\ up' = [up EXCEPT ![n] = TRUE]
  /\ UNCHANGED <<supervisorVars, leaseVars, tickVars, budget>>

\* In a unit of time every node makes its tick or is inside a stop, which has
\* an end; an exit is seen, a process to be started is there, and one that is
\* not slow gets ready.
UnitOver(n) ==
  /\ ticked[n] \/ stopFor[n] # Off
  /\ stopFor[n] < MaxStop
  /\ proc[n] \in {"crashed", "fenced"} => ~wanted[n]
  /\ proc[n] = "none" => ~wanted[n]
  /\ ~noting[n]
  /\ proc[n] = "alive" /\ ~ready[n] /\ n \notin Slow => boot[n] < MaxBoot

Older(age, limit) == IF age = Off \/ age = limit THEN age ELSE age + 1

TimePasses ==
  /\ \A n \in Node : up[n] => UnitOver(n)
  /\ ticked' = [n \in Node |-> FALSE]
  /\ stopFor' = [n \in Node |-> Older(stopFor[n], MaxStop)]
  /\ silent' = [n \in Node |-> Older(silent[n], Grace)]
  /\ yielded' = [n \in Node |-> Older(yielded[n], ReadyTimeout)]
  /\ fenced' = [n \in Node |-> IF fenced[n] > 0 THEN fenced[n] - 1 ELSE 0]
  /\ boot' = [n \in Node |-> IF proc[n] = "alive" /\ ~ready[n] /\ n \notin Slow
                             THEN Older(boot[n], MaxBoot) ELSE 0]
  /\ UNCHANGED <<up, proc, status, wanted, noting, claiming, ready, view, since, budget>>

-----------------------------------------------------------------------------
Tick(n) == (\E p \in Node : PollPeer(n, p)) \/ Decide(n) \/ StopDone(n)

Supervise(n) == Spawn(n) \/ SuperviseExit(n) \/ NoteFenced(n)

Fault(n) == Die(n) \/ Fence(n) \/ NodeDown(n)

LeaseNext ==
  \/ \E n \in Node : Tick(n) \/ Supervise(n) \/ GetReady(n) \/ Fault(n) \/ NodeUp(n)
  \/ TimePasses

LeaseSpec == LeaseInit /\ [][LeaseNext]_vars

\* The manager's loop never ends (an error of a tick is logged), the supervisor
\* has a task for the process, and the clock goes on.
LeaseFairness ==
  /\ \A n \in Node : /\ WF_vars(Tick(n))
                     /\ WF_vars(Supervise(n))
                     /\ n \notin Slow => WF_vars(GetReady(n))
  /\ WF_vars(TimePasses)

FairLeaseSpec == LeaseSpec /\ LeaseFairness

-----------------------------------------------------------------------------
\* A process the supervisor knows of is a running slot and the other way
\* round; it is wanted unless the tick is stopping it.
SupervisorShape ==
  \A n \in Node :
    /\ proc[n] # "none" <=> status[n] = "running"
    /\ status[n] = "running" => (wanted[n] <=> stopFor[n] = Off)
    /\ status[n] # "running" => stopFor[n] = Off
    /\ status[n] = "restarting" => wanted[n]
    /\ ~up[n] => status[n] = "stopped" /\ ~wanted[n]

\* What the manager, the supervisor and the tick keep, and that shape.
LeaseTypeOK ==
  /\ up \in [Node -> BOOLEAN]
  /\ proc \in [Node -> {"none", "alive", "crashed", "fenced"}]
  /\ status \in [Node -> {"stopped", "running", "restarting"}]
  /\ wanted \in [Node -> BOOLEAN]
  /\ stopFor \in [Node -> {Off} \cup 0..MaxStop]
  /\ noting \in [Node -> BOOLEAN]
  /\ boot \in [Node -> 0..MaxBoot]
  /\ claiming \in [Node -> BOOLEAN]
  /\ ready \in [Node -> BOOLEAN]
  /\ silent \in [Node -> {Off} \cup 0..Grace]
  /\ yielded \in [Node -> {Off} \cup 0..ReadyTimeout]
  /\ fenced \in [Node -> 0..Holdoff]
  /\ view \in [Node -> [Node -> Answer]]
  /\ ticked \in [Node -> BOOLEAN]
  /\ since \in [Node -> SUBSET Node]
  /\ budget \in [{"deaths", "outages", "losses"} -> Nat]
  /\ SupervisorShape

\* A peer that said that it does not run the slot has no process, not even one
\* on its way out, unless it has spawned it since.
AnswersHold ==
  \A n, p \in Node :
    /\ view[n][p] \in {"idle", "claims", "claims, was ready"}
    /\ p \notin since[n]
    => proc[p] # "alive"

Starts(n) == ~wanted[n] /\ wanted'[n]

\* A node that takes the slot does not start over a process of a peer that
\* answered its poll: if such a process is there, it was spawned after the
\* answer.  The exception is the node that takes the slot back from a
\* superior that did not get ready.
StartsClear ==
  [][\A n, p \in Node :
       /\ Starts(n)
       /\ p # n /\ view[n][p] # "silent" /\ p \notin since[n]
       /\ proc[p] = "alive"
       => Holders(n) # {} /\ GivesUpWaiting(n)]_vars

Senior(n) == up[n] /\ \A m \in Node \ {n} : up[m] => Outranks(n, m)

\* Once machines, processes and the network leave it alone, the swarm settles:
\* the senior of the nodes that are up runs the service, and nobody else.
SeniorHolds == <>[](\A n \in Node : proc[n] = "alive" <=> Senior(n))

=============================================================================
