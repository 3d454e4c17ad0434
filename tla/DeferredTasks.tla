--------------------------- MODULE DeferredTasks ---------------------------
(***************************************************************************)
(* The service of deferred tasks (tasks/service.py) over its tables.  A    *)
(* task fires when its term comes, when somebody asks for it, or when the  *)
(* event it waits for is seen; its target is woken ahead of the term and,  *)
(* if need be, again when it fires.  Every await is a point where another  *)
(* coroutine of the service may run, so a handler is a sequence of steps.  *)
(***************************************************************************)
EXTENDS Integers, FiniteSets, SequencesExt

CONSTANTS
    Tasks,       \* ids of rows of the table tasks
    Kind,        \* timer, command or chat, per task
    Ops,         \* names for the handlers of commands that may run at a time
    MaxDeaths,   \* how often the service may die
    MaxRaises    \* how often the firing of a task may raise

ASSUME TasksAssumption ==
    /\ Tasks \subseteq Nat /\ IsFiniteSet(Tasks) /\ IsFiniteSet(Ops)
    /\ Kind \in [Tasks -> {"timer", "command", "chat"}]
    /\ MaxDeaths \in Nat /\ MaxRaises \in Nat

VARIABLES
    task,      \* the table tasks: none, armed or fired; how near the term is
    waiter,    \* tasks with a row in event_waiters
    op,        \* the handlers of create, fire_now and match_event
    due,       \* rows fire_loop has listed and not yet fired, and its place
    ahead,     \* rows prewake_loop has listed and not yet started
    job,       \* the prewake of a task in flight
    run,       \* the firings of a task in flight, by their phases
    results,   \* task_result events emitted, per task
    announced, \* tasks whose waking has been announced
    raised,    \* firings that raised and were answered by nothing, per task
    up,
    deaths

vars == <<task, waiter, op, due, ahead, job, run, results, announced, raised, up, deaths>>

Time == {"far", "soon", "due"}
Phase == {"start", "wake", "ask"}
Idle == [pc |-> "idle", t |-> 0]
NoRows == [pc |-> "idle", rows |-> <<>>]
Pending(t) == task[t].state = "armed"

TasksInit ==
    /\ task = [t \in Tasks |-> [state |-> "none", time |-> "far", warmed |-> FALSE]]
    /\ waiter = {}
    /\ op = [o \in Ops |-> Idle]
    /\ due = NoRows
    /\ ahead = {}
    /\ job = [t \in Tasks |-> "none"]
    /\ run = [t \in Tasks |-> <<>>]
    /\ results = [t \in Tasks |-> 0]
    /\ announced = {}
    /\ raised = [t \in Tasks |-> 0]
    /\ up = TRUE
    /\ deaths = 0

Fired(t) == task' = [task EXCEPT ![t].state = "fired"]
Spawn(t) == run' = [run EXCEPT ![t] = Append(@, "start")]
GoOn(o, pc, t) == op' = [op EXCEPT ![o] = [pc |-> pc, t |-> t]]

-----------------------------------------------------------------------------
(* The commands. *)

\* The row first, the waiter in a second transaction.
Create(o, t) ==
    /\ up /\ op[o] = Idle
    /\ task[t].state = "none"
    /\ \E time \in Time : task' = [task EXCEPT ![t].state = "armed", ![t].time = time]
    /\ GoOn(o, "wait", t) \/ UNCHANGED op
    /\ UNCHANGED <<waiter, due, ahead, job, run, results, announced, raised, up, deaths>>

AddWaiter(o) ==
    /\ op[o].pc = "wait"
    /\ waiter' = waiter \cup {op[o].t}
    /\ op' = [op EXCEPT ![o] = Idle]
    /\ UNCHANGED <<task, due, ahead, job, run, results, announced, raised, up, deaths>>

\* The event every waiter waits for: it takes the waiter of the first id.
MatchEvent(o) ==
    /\ up /\ op[o] = Idle
    /\ \E t \in waiter :
        /\ \A u \in waiter : t <= u
        /\ waiter' = waiter \ {t}
        /\ GoOn(o, "read", t)
    /\ UNCHANGED <<task, due, ahead, job, run, results, announced, raised, up, deaths>>

FireNow(o, t) ==
    /\ up /\ op[o] = Idle
    /\ task[t].state # "none"
    /\ GoOn(o, "read", t)
    /\ UNCHANGED <<task, waiter, due, ahead, job, run, results, announced, raised, up, deaths>>

ReadPending(o) ==
    /\ op[o].pc = "read"
    /\ IF Pending(op[o].t) THEN GoOn(o, "mark", op[o].t) ELSE op' = [op EXCEPT ![o] = Idle]
    /\ UNCHANGED <<task, waiter, due, ahead, job, run, results, announced, raised, up, deaths>>

\* The mark asks nothing: the row may have fired since it was read.
MarkFired(o) ==
    /\ op[o].pc = "mark"
    /\ Fired(op[o].t)
    /\ GoOn(o, "spawn", op[o].t)
    /\ UNCHANGED <<waiter, due, ahead, job, run, results, announced, raised, up, deaths>>

PopAndSpawn(o) ==
    /\ op[o].pc = "spawn"
    /\ waiter' = waiter \ {op[o].t}
    /\ Spawn(op[o].t)
    /\ op' = [op EXCEPT ![o] = Idle]
    /\ UNCHANGED <<task, due, ahead, job, results, announced, raised, up, deaths>>

\* A firing that ends in an exception is logged, and nobody is answered.
Raises(t) ==
    /\ raised[t] < MaxRaises
    /\ raised' = [raised EXCEPT ![t] = @ + 1]

\* The database fails behind the mark: the caller has an error, the task is lost.
PopRaises(o) ==
    /\ op[o].pc = "spawn"
    /\ Raises(op[o].t)
    /\ op' = [op EXCEPT ![o] = Idle]
    /\ UNCHANGED <<task, waiter, due, ahead, job, run, results, announced, up, deaths>>

-----------------------------------------------------------------------------
(* The two loops. *)

PassTime(t) ==
    /\ task[t].state = "armed"
    /\ task[t].time # "due"
    /\ task' = [task EXCEPT ![t].time = IF @ = "far" THEN "soon" ELSE "due"]
    /\ UNCHANGED <<waiter, op, due, ahead, job, run, results, announced, raised, up, deaths>>

\* Mutant: a task that waits for an event is left to its event.
DueUnawaited == {t \in Tasks : Pending(t) /\ task[t].time = "due" /\ t \notin waiter}

DueTasks == {t \in Tasks : Pending(t) /\ task[t].time = "due"}

\* In the order of their terms, whatever that is.
ListDue ==
    /\ up
    /\ due.pc = "idle"
    /\ DueTasks # {}
    /\ \E rows \in SetToSeqs(DueTasks) : due' = [pc |-> "mark", rows |-> rows]
    /\ UNCHANGED <<task, waiter, op, ahead, job, run, results, announced, raised, up, deaths>>

MarkDue ==
    /\ due.pc = "mark"
    /\ Fired(Head(due.rows))
    /\ due' = [due EXCEPT !.pc = "spawn"]
    /\ UNCHANGED <<waiter, op, ahead, job, run, results, announced, raised, up, deaths>>

NextDue == IF Len(due.rows) > 1 THEN [pc |-> "mark", rows |-> Tail(due.rows)] ELSE NoRows

SpawnDue ==
    /\ due.pc = "spawn"
    /\ waiter' = waiter \ {Head(due.rows)}
    /\ Spawn(Head(due.rows))
    /\ due' = NextDue
    /\ UNCHANGED <<task, op, ahead, job, results, announced, raised, up, deaths>>

\* The same of fire_loop; the rows behind it are listed again.
PopDueRaises ==
    /\ due.pc = "spawn"
    /\ Raises(Head(due.rows))
    /\ due' = NoRows
    /\ UNCHANGED <<task, waiter, op, ahead, job, run, results, announced, up, deaths>>

NeedPrewake == {t \in Tasks : Pending(t) /\ ~task[t].warmed /\ task[t].time # "far"}

ListAhead ==
    /\ up
    /\ ahead = {}
    /\ NeedPrewake # {}
    /\ ahead' = NeedPrewake
    /\ UNCHANGED <<task, waiter, op, due, job, run, results, announced, raised, up, deaths>>

PrewakeAny(t) ==    \* mutant: alarms are prewoken like the rest
    /\ t \in ahead
    /\ ahead' = ahead \ {t}
    /\ task' = [task EXCEPT ![t].warmed = TRUE]
    /\ job' = [job EXCEPT ![t] = "look"]
    /\ UNCHANGED <<waiter, op, due, run, results, announced, raised, up, deaths>>

StartPrewake(t) ==
    /\ t \in ahead
    /\ ahead' = ahead \ {t}
    /\ task' = [task EXCEPT ![t].warmed = TRUE]
    /\ job' = [job EXCEPT ![t] = IF Kind[t] = "timer" THEN @ ELSE "look"]
    /\ UNCHANGED <<waiter, op, due, run, results, announced, raised, up, deaths>>

-----------------------------------------------------------------------------
(* A prewake and a firing. *)

\* The target is warm already, or it has to be woken.
LookAtTarget(t) ==
    /\ job[t] = "look"
    /\ \/ job' = [job EXCEPT ![t] = "none"] /\ UNCHANGED announced
       \/ job' = [job EXCEPT ![t] = "wake"] /\ announced' = announced \cup {t}
    /\ UNCHANGED <<task, waiter, op, due, ahead, run, results, raised, up, deaths>>

\* Ready or not, the prewake is over; a failure is not reported.
PrewakeEnds(t) ==
    /\ job[t] = "wake"
    /\ job' = [job EXCEPT ![t] = "none"]
    /\ UNCHANGED <<task, waiter, op, due, ahead, run, results, announced, raised, up, deaths>>

At(t, i, phase) == i \in DOMAIN run[t] /\ run[t][i] = phase
\* Mutant: a firing whose target never came up ends without a word.
ResultOfReady(t, i) ==
    /\ results' = [results EXCEPT ![t] = IF run[t][i] = "wake" THEN @ ELSE @ + 1]
    /\ run' = [run EXCEPT ![t] = RemoveAt(@, i)]
    /\ announced' = announced \ {t}

Result(t, i) ==
    /\ results' = [results EXCEPT ![t] = @ + 1]
    /\ run' = [run EXCEPT ![t] = RemoveAt(@, i)]
    /\ announced' = announced \ {t}

\* It waits for its own prewake, though not for ever.
Begin(t, i) ==
    /\ At(t, i, "start")
    /\ IF Kind[t] = "chat"
       THEN run' = [run EXCEPT ![t][i] = "wake"] /\ UNCHANGED <<results, announced>>
       ELSE Result(t, i)
    /\ UNCHANGED <<task, waiter, op, due, ahead, job, raised, up, deaths>>

TargetReady(t, i) ==
    /\ At(t, i, "wake")
    /\ run' = [run EXCEPT ![t][i] = "ask"]
    /\ UNCHANGED <<task, waiter, op, due, ahead, job, results, announced, raised, up, deaths>>

TargetNotReady(t, i) ==
    /\ At(t, i, "wake")
    /\ announced' = announced \cup {t}
    /\ UNCHANGED <<task, waiter, op, due, ahead, job, run, results, raised, up, deaths>>

\* The grace is over with the target not ready; or the model has answered,
\* well or badly.  A model that is away meanwhile is asked again.
RunEnds(t, i) ==
    /\ At(t, i, "ask") \/ (At(t, i, "wake") /\ t \in announced)
    /\ Result(t, i)
    /\ UNCHANGED <<task, waiter, op, due, ahead, job, raised, up, deaths>>

\* Anything _fire_one does not expect, an emit or a query that fails: wherever
\* the firing is, it is over without a result.
FiringRaises(t, i) ==
    /\ i \in DOMAIN run[t]
    /\ Raises(t)
    /\ run' = [run EXCEPT ![t] = RemoveAt(@, i)]
    /\ announced' = announced \ {t}
    /\ UNCHANGED <<task, waiter, op, due, ahead, job, results, up, deaths>>

-----------------------------------------------------------------------------
Crash ==
    /\ up
    /\ deaths < MaxDeaths
    /\ deaths' = deaths + 1
    /\ up' = FALSE
    /\ op' = [o \in Ops |-> Idle]
    /\ due' = NoRows
    /\ ahead' = {}
    /\ job' = [t \in Tasks |-> "none"]
    /\ run' = [t \in Tasks |-> <<>>]
    /\ announced' = {}
    /\ UNCHANGED <<task, waiter, results, raised>>

Start ==
    /\ ~up
    /\ up' = TRUE
    /\ UNCHANGED <<task, waiter, op, due, ahead, job, run, results, announced, raised, deaths>>

-----------------------------------------------------------------------------
OpStep(o) == AddWaiter(o) \/ ReadPending(o) \/ MarkFired(o) \/ PopAndSpawn(o) \/ PopRaises(o)
LoopStep == ListDue \/ MarkDue \/ SpawnDue \/ PopDueRaises
PrewakeStep(t) == StartPrewake(t) \/ LookAtTarget(t) \/ PrewakeEnds(t)
RunStep(t, i) ==
    Begin(t, i) \/ TargetReady(t, i) \/ TargetNotReady(t, i) \/ RunEnds(t, i) \/ FiringRaises(t, i)

TasksNext ==
    \/ \E o \in Ops : OpStep(o) \/ MatchEvent(o) \/ \E t \in Tasks : Create(o, t) \/ FireNow(o, t)
    \/ LoopStep \/ ListAhead
    \/ \E t \in Tasks : PassTime(t) \/ PrewakeStep(t) \/ \E i \in DOMAIN run[t] : RunStep(t, i)
    \/ Crash \/ Start

TasksSpec == TasksInit /\ [][TasksNext]_vars

\* The service runs its handlers, its loops and what they have spawned, time
\* passes and the service is started again.  Nobody has to send a command, no
\* event has to come and no target has to wake up: RunEnds is the end of the
\* grace as well.
TasksFairness ==
    /\ \A o \in Ops : WF_vars(OpStep(o))
    /\ WF_vars(LoopStep)
    /\ \A t \in Tasks : WF_vars(\E i \in DOMAIN run[t] : Begin(t, i) \/ RunEnds(t, i))
    /\ \A t \in Tasks : WF_vars(\E i \in DOMAIN run[t] : At(t, i, "wake") /\ TargetNotReady(t, i))
    /\ WF_vars(\E t \in Tasks : PassTime(t))
    /\ WF_vars(Start)
FairTasksSpec == TasksSpec /\ TasksFairness

-----------------------------------------------------------------------------
(* Properties. *)

\* Types; fire_loop has a row in hand until its listing is empty, and an
\* alarm, which has no target, is never prewoken.
TasksTypeOK ==
    /\ task \in [Tasks -> [state : {"none", "armed", "fired"}, time : Time, warmed : BOOLEAN]]
    /\ waiter \subseteq Tasks /\ ahead \subseteq Tasks /\ announced \subseteq Tasks
    /\ op \in [Ops -> {Idle} \cup [pc : {"wait", "read", "mark", "spawn"}, t : Tasks]]
    /\ due \in [pc : {"idle", "mark", "spawn"}, rows : Seq(Tasks)]
    /\ due.pc = "idle" <=> due.rows = <<>>
    /\ job \in [Tasks -> {"none", "look", "wake"}]
    /\ \A t \in Tasks : Kind[t] = "timer" => job[t] = "none"
    /\ run \in [Tasks -> Seq(Phase)]
    /\ results \in [Tasks -> Nat] /\ raised \in [Tasks -> Nat]
    /\ up \in BOOLEAN /\ deaths \in 0 .. MaxDeaths

AboutToSpawn(t) ==
    \/ due.pc = "spawn" /\ Head(due.rows) = t
    \/ \E o \in Ops : op[o] = [pc |-> "spawn", t |-> t]

Firings(t) == results[t] + raised[t] + Len(run[t])
                + Cardinality({o \in Ops : op[o] = [pc |-> "spawn", t |-> t]})
                + (IF due.pc = "spawn" /\ Head(due.rows) = t THEN 1 ELSE 0)

\* A task marked as fired has been answered, is being fired or is about to be,
\* unless a firing of it has raised or the service has died; and it is fired
\* again only by those who read it before the mark: once per handler and once by
\* fire_loop at most, ever, and never because of a restart or of an exception.
FiringsAccounted == \A t \in Tasks :
    /\ task[t].state = "fired" /\ deaths = 0
         => results[t] > 0 \/ raised[t] > 0 \/ run[t] # <<>> \/ AboutToSpawn(t)
    /\ Firings(t) <= Cardinality(Ops) + 1

\* Every task is answered in the end, if only that it was missed, unless a
\* firing of it has raised or a death of the service has taken it along.
EveryTaskAnswered ==
    []<>(\A t \in Tasks : task[t].state = "none"
            \/ (task[t].state = "fired" /\ (results[t] > 0 \/ raised[t] > 0 \/ deaths > 0)))
=============================================================================
