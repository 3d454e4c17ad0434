----------------------------- MODULE Supervisor -----------------------------
(***************************************************************************)
(* One slot of the node's supervisor (node/supervisor.py): a service that  *)
(* is started, watched, started again when it dies, and stopped.  start(), *)
(* stop() and restart() are called by the lease, by the replication and by *)
(* the operator, each from a coroutine of its own.  A watcher (_run) spawns *)
(* the process and waits for its end; it outlives the call that started it.*)
(***************************************************************************)
EXTENDS Naturals, FiniteSets

CONSTANTS
    Callers,     \* coroutines that may call the slot at a time
    Watchers,    \* names for the watchers, taken again when they are over
    MaxOrphans,  \* bound: processes that may be left without a watcher at a time
    None

ASSUME SupervisorAssumption == None \notin Watchers /\ MaxOrphans \in Nat

VARIABLES
    desired,   \* _desired_running
    task,      \* _task: the watcher stop() will wait for
    proc,      \* _proc: the watcher whose process stop() will terminate
    status,
    watcher,   \* where a watcher is in its loop
    process,   \* the process a watcher has spawned
    caller     \* where a call is in stop() or restart()

slotVars == <<desired, task, proc, status, watcher, process, caller>>

Running == {"alive", "ending"}
Over == {"none", "done"}
Idle == [pc |-> "idle", w |-> None, again |-> FALSE]
Watching == {w \in Watchers : watcher[w] \notin Over}
Alive == {w \in Watchers : process[w] \in Running}
FreeWatchers == {w \in Watchers : watcher[w] \in Over /\ process[w] \notin Running
                    /\ w # proc /\ \A c \in Callers : caller[c].w # w}

SupervisorInit ==
    /\ desired = FALSE
    /\ task = None /\ proc = None
    /\ status = "stopped"
    /\ watcher = [w \in Watchers |-> "none"]
    /\ process = [w \in Watchers |-> "none"]
    /\ caller = [c \in Callers |-> Idle]

-----------------------------------------------------------------------------
(* start(), stop() and restart(). *)

NewWatcher ==
    \E w \in FreeWatchers :
        /\ desired' = TRUE
        /\ task' = w
        /\ watcher' = [watcher EXCEPT ![w] = "loop"]
        /\ process' = [process EXCEPT ![w] = "none"]

Goto(c, pc, w) == caller' = [caller EXCEPT ![c].pc = pc, ![c].w = w]

CallStart(c) ==
    /\ caller[c] = Idle
    /\ ~desired
    /\ NewWatcher
    /\ Goto(c, "spawned", None)
    /\ UNCHANGED <<proc, status>>

\* start() waits for the spawn, or for its failure, or for five seconds.
StartReturns(c) ==
    /\ caller[c].pc = "spawned"
    /\ caller' = [caller EXCEPT ![c] = Idle]
    /\ UNCHANGED <<desired, task, proc, status, watcher, process>>

CallStop(c, again) ==
    /\ caller[c] = Idle
    /\ desired
    /\ desired' = FALSE
    /\ \/ /\ proc # None /\ process[proc] \in Running
          /\ process' = [process EXCEPT ![proc] = "ending"]
          /\ caller' = [caller EXCEPT ![c] = [pc |-> "exit", w |-> proc, again |-> again]]
       \/ /\ ~(proc # None /\ process[proc] \in Running)
          /\ Cardinality(Alive) < MaxOrphans
          /\ caller' = [caller EXCEPT ![c] = [pc |-> "join", w |-> None, again |-> again]]
          /\ UNCHANGED process
    /\ UNCHANGED <<task, proc, status, watcher>>

SeeExit(c) ==
    /\ caller[c].pc = "exit"
    /\ process[caller[c].w] \notin Running
    /\ Goto(c, "join", None)
    /\ UNCHANGED <<desired, task, proc, status, watcher, process>>

End(c) ==
    /\ status' = "stopped"
    /\ IF caller[c].again THEN Goto(c, "start", None) ELSE caller' = [caller EXCEPT ![c] = Idle]

TakeTask(c) ==
    /\ caller[c].pc = "join"
    /\ \/ task = None /\ End(c) /\ UNCHANGED task
       \/ task # None /\ Goto(c, "joining", task) /\ task' = None /\ UNCHANGED status
    /\ UNCHANGED <<desired, proc, watcher, process>>

Joined(c) ==
    /\ caller[c].pc = "joining"
    /\ watcher[caller[c].w] = "done"
    /\ End(c)
    /\ UNCHANGED <<desired, task, proc, watcher, process>>

\* Five seconds, then the watcher is cancelled; its process is not.
JoinTimeout(c) ==
    /\ caller[c].pc = "joining"
    /\ watcher[caller[c].w] # "done"
    /\ watcher' = [watcher EXCEPT ![caller[c].w] = "done"]
    /\ End(c)
    /\ UNCHANGED <<desired, task, proc, process>>

\* restart() goes on with start(), whether or not its stop() had anything
\* to do.
StartAgain(c) ==
    /\ caller[c].pc = "start"
    /\ \/ ~desired /\ NewWatcher /\ Goto(c, "spawned", None)
       \/ /\ desired
          /\ caller' = [caller EXCEPT ![c] = Idle]
          /\ UNCHANGED <<desired, task, watcher, process>>
    /\ UNCHANGED <<proc, status>>

-----------------------------------------------------------------------------
(* A watcher and its process. *)

Move(w, pc) == watcher' = [watcher EXCEPT ![w] = pc]

Loop(w) ==
    /\ watcher[w] = "loop"
    /\ Move(w, IF desired THEN "spawn" ELSE "done")
    /\ UNCHANGED <<desired, task, proc, status, process, caller>>

Spawn(w) ==
    /\ watcher[w] = "spawn"
    /\ process' = [process EXCEPT ![w] = "alive"]
    /\ proc' = w
    /\ status' = "running"
    /\ Move(w, "watch")
    /\ UNCHANGED <<desired, task, caller>>

\* mutant: the failure of a spawn is not looked at
SpawnFailsUnseen(w) ==
    /\ watcher[w] = "spawn"
    /\ Move(w, "watch")
    /\ UNCHANGED <<desired, task, proc, status, process, caller>>

SpawnFails(w) ==
    /\ watcher[w] = "spawn"
    /\ status' = "restarting"
    /\ Move(w, "sleep")
    /\ UNCHANGED <<desired, task, proc, process, caller>>

\* By itself, or because it was told to, or killed.
ProcessEnds(w) ==
    /\ process[w] \in Running
    /\ \E how \in {"crashed", "fenced"} : process' = [process EXCEPT ![w] = how]
    /\ UNCHANGED <<desired, task, proc, status, watcher, caller>>

\* mutant: the watcher of a process that crashed ends with it
WatchOnce(w) ==
    /\ watcher[w] = "watch"
    /\ process[w] \notin Running
    /\ proc' = None
    /\ desired' = (desired /\ process[w] = "crashed")
    /\ status' = "restarting"
    /\ Move(w, "done")
    /\ UNCHANGED <<task, process, caller>>

Watch(w) ==
    /\ watcher[w] = "watch"
    /\ process[w] \notin Running
    /\ proc' = None
    /\ \/ /\ ~desired
          /\ Move(w, "done")
          /\ UNCHANGED <<desired, status>>
       \/ /\ desired /\ process[w] = "fenced"
          /\ desired' = FALSE
          /\ status' = "stopped"
          /\ Move(w, "done")
       \/ /\ desired /\ process[w] = "crashed"
          /\ status' = "restarting"
          /\ Move(w, "sleep")
          /\ UNCHANGED desired
    /\ UNCHANGED <<task, process, caller>>

Wake(w) ==
    /\ watcher[w] = "sleep"
    /\ Move(w, "loop")
    /\ UNCHANGED <<desired, task, proc, status, process, caller>>

-----------------------------------------------------------------------------
CallStep(c) == StartReturns(c) \/ SeeExit(c) \/ TakeTask(c) \/ Joined(c) \/ JoinTimeout(c) \/ StartAgain(c)
WatcherStep(w) == Loop(w) \/ Spawn(w) \/ SpawnFails(w) \/ Watch(w) \/ Wake(w)

SupervisorNext ==
    \/ \E c \in Callers : CallStart(c) \/ (\E again \in BOOLEAN : CallStop(c, again)) \/ CallStep(c)
    \/ \E w \in Watchers : WatcherStep(w) \/ ProcessEnds(w)

SupervisorSpec == SupervisorInit /\ [][SupervisorNext]_slotVars

\* A process that is told to end ends, by SIGKILL if need be; the system can
\* spawn a process now and then.
SupervisorFairness ==
    /\ \A c \in Callers : WF_slotVars(CallStep(c))
    /\ \A w \in Watchers : WF_slotVars(WatcherStep(w)) /\ SF_slotVars(Spawn(w))
    /\ \A w \in Watchers : WF_slotVars(process[w] = "ending" /\ ProcessEnds(w))
FairSupervisorSpec == SupervisorSpec /\ SupervisorFairness

-----------------------------------------------------------------------------
(* Properties. *)
SupervisorTypeOK ==
    /\ desired \in BOOLEAN
    /\ task \in Watchers \cup {None} /\ proc \in Watchers \cup {None}
    /\ status \in {"running", "restarting", "stopped"}
    /\ watcher \in [Watchers -> {"none", "loop", "spawn", "watch", "sleep", "done"}]
    /\ process \in [Watchers -> {"none", "alive", "ending", "crashed", "fenced"}]
    /\ \A c \in Callers : caller[c].pc \in {"idle", "spawned", "exit", "join", "joining", "start"}
    /\ \A w \in Watchers : watcher[w] = "watch" => process[w] # "none"

(***************************************************************************)
(* Calls that come one at a time keep one watcher for a slot that is        *)
(* wanted, and it is the one the next stop() will wait for: a second _run  *)
(* would bring up a second process after every crash, and a wanted slot     *)
(* without one would never be started again.                               *)
(***************************************************************************)
WantedIsWatched ==
    /\ Cardinality(Watching) <= 1
    /\ desired => Watching # {} /\ task \in Watching

(***************************************************************************)
(* A service that stays wanted is brought up again and again, however often *)
(* it crashes, and stop() always comes to its end.                          *)
(***************************************************************************)
WantedRuns ==
    /\ []<>(desired => task # None /\ process[task] \in Running)
    /\ \A c \in Callers : []<>(caller[c] = Idle)

=============================================================================
