------------------------- MODULE DeferredTasks_proofs -------------------------
(* Proofs about the service of deferred tasks, for any tasks, any number of *)
(* handlers and any number of deaths: how often a task may fire, and that a *)
(* task marked as fired is not forgotten while the service lives.           *)
EXTENDS DeferredTasks, TLAPS, FiniteSetTheorems, SequenceTheorems

-----------------------------------------------------------------------------
(* Sequences.                                                              *)

\* A listing is a sequence without repetitions, empty only for an empty set.
LEMMA Listing ==
  ASSUME NEW S, IsFiniteSet(S), NEW s \in SetToSeqs(S)
  PROVE  /\ s \in Seq(S)
         /\ S # {} => s # <<>>
         /\ \A i, j \in 1 .. Len(s) : s[i] = s[j] => i = j
  <1>1. Cardinality(S) \in Nat
    BY FS_CardinalityType
  <1>2. s \in [1 .. Cardinality(S) -> S] /\ \A i, j \in 1 .. Cardinality(S) : i # j => s[i] # s[j]
    BY DEF SetToSeqs
  <1>3. s \in Seq(S) /\ Len(s) = Cardinality(S)
    BY <1>1, <1>2
  <1>4. S # {} => Cardinality(S) # 0
    BY FS_EmptySet
  <1> QED
    BY <1>2, <1>3, <1>4

LEMMA Removing ==
  ASSUME NEW S, NEW s \in Seq(S), NEW i \in 1 .. Len(s)
  PROVE  RemoveAt(s, i) \in Seq(S) /\ Len(RemoveAt(s, i)) = Len(s) - 1
  <1>1. ASSUME NEW l \in Seq(S), NEW r \in Seq(S), Len(l) = i - 1, Len(r) = Len(s) - i
        PROVE  l \o r \in Seq(S) /\ Len(l \o r) = Len(s) - 1
    BY <1>1
  <1>2. ASSUME NEW l, l = SubSeq(s, 1, i-1), NEW r, r = SubSeq(s, i+1, Len(s))
        PROVE  l \o r \in Seq(S) /\ Len(l \o r) = Len(s) - 1
    <2>1. l \in Seq(S) /\ Len(l) = i - 1
      BY <1>2
    <2>2. r \in Seq(S) /\ Len(r) = Len(s) - i
      BY <1>2
    <2> QED
      BY <1>1, <2>1, <2>2
  <1>3. RemoveAt(s, i) = SubSeq(s, 1, i-1) \o SubSeq(s, i+1, Len(s))
    BY DEF RemoveAt
  <1> QED
    BY <1>2, <1>3, Zenon

LEMMA OneLess ==
  ASSUME NEW S, NEW t \in Seq(S), NEW n \in Nat, Len(t) = n - 1
  PROVE  n > 1 <=> t # <<>>
  OBVIOUS

LEMMA HeadAndTail ==
  ASSUME NEW S, NEW s \in Seq(S), s # <<>>
  PROVE  /\ Head(s) \in S /\ Tail(s) \in Seq(S)
         /\ Len(s) \in Nat \ {0}
         /\ Len(s) > 1 <=> Tail(s) # <<>>
  <1>1. Head(s) \in S /\ Len(s) \in Nat \ {0}
    OBVIOUS
  <1>2. Tail(s) \in Seq(S) /\ Len(Tail(s)) = Len(s) - 1 /\ Len(s) \in Nat
    OBVIOUS
  <1>3. Len(s) > 1 <=> Tail(s) # <<>>
    BY <1>2, OneLess, Zenon
  <1> QED
    BY <1>1, <1>2, <1>3

-----------------------------------------------------------------------------
(* Types.                                                                  *)

\* A step of a firing in flight.
LEMMA RunTypes ==
  ASSUME TasksTypeOK, NEW t \in Tasks, NEW i \in DOMAIN run[t], RunStep(t, i)
  PROVE  /\ run' \in [Tasks -> Seq(Phase)] /\ announced' \subseteq Tasks
         /\ results' \in [Tasks -> Nat] /\ raised' \in [Tasks -> Nat]
         /\ \A u \in Tasks \ {t} : run'[u] = run[u] /\ results'[u] = results[u] /\ raised'[u] = raised[u]
         /\ \/ Len(run'[t]) = Len(run[t]) /\ results'[t] = results[t] /\ raised'[t] = raised[t]
            \/ Len(run'[t]) = Len(run[t]) - 1 /\ results'[t] = results[t] + 1 /\ raised'[t] = raised[t]
            \/ Len(run'[t]) = Len(run[t]) - 1 /\ results'[t] = results[t] /\ raised'[t] = raised[t] + 1
  <1>0. /\ run \in [Tasks -> Seq(Phase)] /\ announced \subseteq Tasks
        /\ results \in [Tasks -> Nat] /\ raised \in [Tasks -> Nat]
        /\ run[t] \in Seq(Phase) /\ i \in 1 .. Len(run[t])
    <2>1. /\ run \in [Tasks -> Seq(Phase)] /\ announced \subseteq Tasks
          /\ results \in [Tasks -> Nat] /\ raised \in [Tasks -> Nat]
      BY DEF TasksTypeOK
    <2>2. run[t] \in Seq(Phase)
      BY <2>1
    <2> QED
      BY <2>1, <2>2
  <1>1. ASSUME NEW p \in Phase, run' = [run EXCEPT ![t][i] = p], results' = results
        PROVE  /\ run' \in [Tasks -> Seq(Phase)] /\ results' \in [Tasks -> Nat]
               /\ \A u \in Tasks \ {t} : run'[u] = run[u] /\ results'[u] = results[u]
               /\ Len(run'[t]) = Len(run[t]) /\ results'[t] = results[t]
    <2>1. [run[t] EXCEPT ![i] = p] \in Seq(Phase) /\ Len([run[t] EXCEPT ![i] = p]) = Len(run[t])
      BY <1>0
    <2>2. run' = [run EXCEPT ![t] = [run[t] EXCEPT ![i] = p]]
      BY <1>1
    <2> QED
      BY <1>0, <1>1, <2>1, <2>2
  <1>2. ASSUME Result(t, i)
        PROVE  /\ run' \in [Tasks -> Seq(Phase)] /\ results' \in [Tasks -> Nat] /\ announced' \subseteq Tasks
               /\ \A u \in Tasks \ {t} : run'[u] = run[u] /\ results'[u] = results[u]
               /\ Len(run'[t]) = Len(run[t]) - 1 /\ results'[t] = results[t] + 1
    <2>1. RemoveAt(run[t], i) \in Seq(Phase) /\ Len(RemoveAt(run[t], i)) = Len(run[t]) - 1
      BY <1>0, Removing
    <2> QED
      BY <1>0, <1>2, <2>1 DEF Result
  <1>3. CASE TargetNotReady(t, i)
    BY <1>0, <1>3 DEF TargetNotReady
  <1>4. CASE TargetReady(t, i)
    BY <1>0, <1>1, <1>4 DEF TargetReady, Phase
  <1>5. CASE Begin(t, i)
    BY <1>0, <1>1, <1>2, <1>5 DEF Begin, Phase
  <1>6. CASE RunEnds(t, i)
    BY <1>0, <1>2, <1>6 DEF RunEnds
  <1>7. CASE FiringRaises(t, i)
    <2>1. RemoveAt(run[t], i) \in Seq(Phase) /\ Len(RemoveAt(run[t], i)) = Len(run[t]) - 1
      BY <1>0, Removing
    <2> QED
      BY <1>0, <1>7, <2>1 DEF FiringRaises, Raises
  <1> QED
    BY <1>3, <1>4, <1>5, <1>6, <1>7 DEF RunStep

\* A firing begins.
LEMMA SpawnTypes ==
  ASSUME TasksTypeOK, NEW t \in Tasks, Spawn(t)
  PROVE  /\ run' \in [Tasks -> Seq(Phase)]
         /\ run'[t] # <<>> /\ Len(run'[t]) = Len(run[t]) + 1
         /\ \A u \in Tasks \ {t} : run'[u] = run[u]
  BY DEF TasksTypeOK, Spawn, Phase

\* fire_loop has its listing in hand.
LEMMA DueTypes ==
  ASSUME TasksTypeOK, due.pc # "idle"
  PROVE  /\ Head(due.rows) \in Tasks /\ Len(due.rows) > 0
         /\ due = [pc |-> due.pc, rows |-> due.rows]
         /\ NextDue \in [pc : {"idle", "mark"}, rows : Seq(Tasks)]
         /\ NextDue.pc = "idle" <=> NextDue.rows = <<>>
         /\ NextDue.rows = Tail(due.rows)
  <1>1. due.rows \in Seq(Tasks) /\ due.rows # <<>> /\ due = [pc |-> due.pc, rows |-> due.rows]
    BY DEF TasksTypeOK
  <1>2. /\ Head(due.rows) \in Tasks /\ Len(due.rows) \in Nat \ {0}
        /\ Tail(due.rows) \in Seq(Tasks)
        /\ Len(due.rows) > 1 <=> Tail(due.rows) # <<>>
    BY <1>1, HeadAndTail
  <1>3. CASE Len(due.rows) > 1
    <2>1. NextDue = [pc |-> "mark", rows |-> Tail(due.rows)]
      BY <1>3 DEF NextDue
    <2> QED
      BY <1>1, <1>2, <1>3, <2>1
  <1>4. CASE ~(Len(due.rows) > 1)
    <2>1. NextDue = [pc |-> "idle", rows |-> Tail(due.rows)]
      BY <1>2, <1>4 DEF NextDue, NoRows
    <2> QED
      BY <1>1, <1>2, <1>4, <2>1
  <1> QED
    BY <1>3, <1>4

Rows == [state : {"none", "armed", "fired"}, time : Time, warmed : BOOLEAN]

\* A row is marked, comes nearer to its term, or is written.
LEMMA RowTypes ==
  ASSUME TasksTypeOK, NEW t \in Tasks
  PROVE  /\ Fired(t) => /\ task' \in [Tasks -> Rows]
                        /\ task'[t].state = "fired"
                        /\ \A u \in Tasks \ {t} : task'[u] = task[u]
         /\ PassTime(t) => /\ task' \in [Tasks -> Rows]
                           /\ \A u \in Tasks : task'[u].state = task[u].state
         /\ \A time \in Time :
              task' = [task EXCEPT ![t].state = "armed", ![t].time = time]
                => /\ task' \in [Tasks -> Rows]
                   /\ task'[t].state = "armed"
                   /\ \A u \in Tasks \ {t} : task'[u] = task[u]
  <1>0. task \in [Tasks -> Rows] /\ task[t] \in Rows
    BY DEF TasksTypeOK, Rows
  <1>1. ASSUME Fired(t)
        PROVE  /\ task' \in [Tasks -> Rows]
               /\ task'[t].state = "fired"
               /\ \A u \in Tasks \ {t} : task'[u] = task[u]
    <2>1. [task[t] EXCEPT !.state = "fired"] \in Rows
      BY <1>0 DEF Rows
    <2>2. task' = [task EXCEPT ![t] = [task[t] EXCEPT !.state = "fired"]]
      BY <1>1 DEF Fired
    <2> QED
      BY <1>0, <2>1, <2>2 DEF Rows
  <1>2. ASSUME PassTime(t)
        PROVE  /\ task' \in [Tasks -> Rows]
               /\ \A u \in Tasks : task'[u].state = task[u].state
    <2>1. PICK time \in Time : task' = [task EXCEPT ![t] = [task[t] EXCEPT !.time = time]]
      BY <1>2 DEF PassTime, Time
    <2>2. [task[t] EXCEPT !.time = time] \in Rows /\ [task[t] EXCEPT !.time = time].state = task[t].state
      BY <1>0, <2>1 DEF Rows
    <2> QED
      BY <1>0, <2>1, <2>2
  <1>3. ASSUME NEW time \in Time, task' = [task EXCEPT ![t].state = "armed", ![t].time = time]
        PROVE  /\ task' \in [Tasks -> Rows]
               /\ task'[t].state = "armed"
               /\ \A u \in Tasks \ {t} : task'[u] = task[u]
    <2>1. [task[t] EXCEPT !.state = "armed", !.time = time] \in Rows
      BY <1>0, <1>3 DEF Rows
    <2>2. task' = [task EXCEPT ![t] = [task[t] EXCEPT !.state = "armed", !.time = time]]
      BY <1>0, <1>3
    <2> QED
      BY <1>0, <2>1, <2>2 DEF Rows
  <1> QED
    BY <1>1, <1>2, <1>3

Handlers == {Idle} \cup [pc : {"wait", "read", "mark", "spawn"}, t : Tasks]

\* A handler goes on, ends, or does nothing.
LEMMA OpTypes ==
  ASSUME TasksTypeOK, NEW o \in Ops,
         \/ UNCHANGED op
         \/ op' = [op EXCEPT ![o] = Idle]
         \/ \E pc \in {"wait", "read", "mark", "spawn"}, t \in Tasks : GoOn(o, pc, t)
  PROVE  op' \in [Ops -> Handlers]
  <1>0. op \in [Ops -> Handlers]
    BY DEF TasksTypeOK, Handlers
  <1>1. CASE UNCHANGED op \/ op' = [op EXCEPT ![o] = Idle]
    BY <1>0, <1>1 DEF Handlers
  <1>2. ASSUME NEW pc \in {"wait", "read", "mark", "spawn"}, NEW t \in Tasks, GoOn(o, pc, t)
        PROVE  op' \in [Ops -> Handlers]
    <2>1. [pc |-> pc, t |-> t] \in Handlers
      BY DEF Handlers
    <2> QED
      BY <1>0, <1>2, <2>1 DEF GoOn
  <1> QED
    BY <1>1, <1>2

\* The variables keep their types.
LEMMA TypeStep ==
  ASSUME TasksTypeOK, [TasksNext]_vars
  PROVE  TasksTypeOK'
  <1>0. CASE UNCHANGED vars
    BY <1>0 DEF vars, TasksTypeOK
  <1>1. ASSUME NEW o \in Ops, OpStep(o) \/ MatchEvent(o) \/ \E t \in Tasks : Create(o, t) \/ FireNow(o, t)
        PROVE  TasksTypeOK'
    <2>0. op[o] = Idle \/ op[o].t \in Tasks
      BY DEF TasksTypeOK
    <2>1. CASE AddWaiter(o)
      <3>1. op[o].t \in Tasks
        BY <2>0, <2>1 DEF AddWaiter, Idle
      <3>2. op' \in [Ops -> Handlers]
        BY <2>1, OpTypes DEF AddWaiter
      <3> QED
        BY <2>1, <3>1, <3>2 DEF AddWaiter, TasksTypeOK, Handlers
    <2>2. CASE ReadPending(o)
      <3>1. op[o].t \in Tasks
        BY <2>0, <2>2 DEF ReadPending, Idle
      <3>2. op' \in [Ops -> Handlers]
        BY <2>2, <3>1, OpTypes DEF ReadPending
      <3> QED
        BY <2>2, <3>2 DEF ReadPending, TasksTypeOK, Handlers
    <2>3. CASE MarkFired(o)
      <3>1. op[o].t \in Tasks
        BY <2>0, <2>3 DEF MarkFired, Idle
      <3>2. task' \in [Tasks -> Rows]
        BY <2>3, <3>1, RowTypes DEF MarkFired
      <3> QED
        BY <2>3, <3>1, <3>2 DEF MarkFired, GoOn, TasksTypeOK, Rows
    <2>4. CASE PopAndSpawn(o)
      <3>1. op[o].t \in Tasks
        BY <2>0, <2>4 DEF PopAndSpawn, Idle
      <3>2. run' \in [Tasks -> Seq(Phase)]
        BY <2>4, <3>1, SpawnTypes DEF PopAndSpawn
      <3> QED
        BY <2>4, <3>2 DEF PopAndSpawn, TasksTypeOK
    <2>5. CASE MatchEvent(o)
      BY <2>5 DEF MatchEvent, GoOn, TasksTypeOK
    <2>6. ASSUME NEW t \in Tasks, Create(o, t) PROVE TasksTypeOK'
      <3>1. task' \in [Tasks -> Rows]
        BY <2>6, RowTypes DEF Create
      <3> QED
        BY <2>6, <3>1, OpTypes DEF Create, TasksTypeOK, Rows, Handlers
    <2>7. ASSUME NEW t \in Tasks, FireNow(o, t) PROVE TasksTypeOK'
      BY <2>7 DEF FireNow, GoOn, TasksTypeOK
    <2>8. CASE PopRaises(o)
      <3>1. op[o].t \in Tasks
        BY <2>0, <2>8 DEF PopRaises, Idle
      <3>2. raised' \in [Tasks -> Nat]
        BY <2>8, <3>1 DEF PopRaises, Raises, TasksTypeOK
      <3> QED
        BY <2>8, <3>2 DEF PopRaises, TasksTypeOK
    <2> QED
      BY <1>1, <2>1, <2>2, <2>3, <2>4, <2>5, <2>6, <2>7, <2>8 DEF OpStep
  <1>2. CASE ListDue
    <2>1. IsFiniteSet(DueTasks)
      BY TasksAssumption, FS_Subset DEF DueTasks
    <2>2. PICK rows \in SetToSeqs(DueTasks) : due' = [pc |-> "mark", rows |-> rows]
      BY <1>2 DEF ListDue
    <2>3. rows \in Seq(DueTasks) /\ rows # <<>>
      BY <1>2, <2>1, Listing DEF ListDue
    <2>4. rows \in Seq(Tasks)
      BY <2>3 DEF DueTasks
    <2> QED
      BY <1>2, <2>2, <2>3, <2>4 DEF ListDue, TasksTypeOK
  <1>3. CASE MarkDue
    <2>1. Head(due.rows) \in Tasks /\ due = [pc |-> due.pc, rows |-> due.rows] /\ due.rows # <<>>
      BY <1>3, DueTypes DEF MarkDue, TasksTypeOK
    <2>2. due' = [pc |-> "spawn", rows |-> due.rows]
      BY <1>3, <2>1 DEF MarkDue
    <2>3. task' \in [Tasks -> Rows]
      BY <1>3, <2>1, RowTypes DEF MarkDue
    <2> QED
      BY <1>3, <2>1, <2>2, <2>3 DEF MarkDue, TasksTypeOK, Rows
  <1>4. CASE SpawnDue
    <2>1. Head(due.rows) \in Tasks /\ NextDue \in [pc : {"idle", "mark"}, rows : Seq(Tasks)]
            /\ (NextDue.pc = "idle" <=> NextDue.rows = <<>>)
      BY <1>4, DueTypes DEF SpawnDue
    <2>2. run' \in [Tasks -> Seq(Phase)]
      BY <1>4, <2>1, SpawnTypes DEF SpawnDue
    <2> QED
      BY <1>4, <2>1, <2>2 DEF SpawnDue, TasksTypeOK
  <1>5. CASE ListAhead
    BY <1>5 DEF ListAhead, NeedPrewake, TasksTypeOK
  <1>6. ASSUME NEW t \in Tasks, PassTime(t) PROVE TasksTypeOK'
    BY <1>6, RowTypes DEF PassTime, TasksTypeOK, Rows
  <1>7. ASSUME NEW t \in Tasks, PrewakeStep(t) PROVE TasksTypeOK'
    <2>1. CASE StartPrewake(t)
      BY <2>1 DEF StartPrewake, TasksTypeOK
    <2>2. CASE LookAtTarget(t)
      BY <2>2 DEF LookAtTarget, TasksTypeOK
    <2>3. CASE PrewakeEnds(t)
      BY <2>3 DEF PrewakeEnds, TasksTypeOK
    <2> QED
      BY <1>7, <2>1, <2>2, <2>3 DEF PrewakeStep
  <1>8. ASSUME NEW t \in Tasks, NEW i \in DOMAIN run[t], RunStep(t, i) PROVE TasksTypeOK'
    <2>1. UNCHANGED <<task, waiter, op, due, ahead, job, up, deaths>>
      BY <1>8 DEF RunStep, Begin, TargetReady, TargetNotReady, RunEnds, FiringRaises
    <2>2. /\ run' \in [Tasks -> Seq(Phase)] /\ announced' \subseteq Tasks
          /\ results' \in [Tasks -> Nat] /\ raised' \in [Tasks -> Nat]
      BY <1>8, RunTypes
    <2> QED
      BY <2>1, <2>2 DEF TasksTypeOK
  <1>9. CASE Crash
    <2>1. deaths' \in 0 .. MaxDeaths
      BY <1>9, TasksAssumption DEF Crash, TasksTypeOK
    <2>2. up' \in BOOLEAN
      BY <1>9 DEF Crash
    <2> QED
      BY <1>9, <2>1, <2>2 DEF Crash, TasksTypeOK, NoRows
  <1>10. CASE Start
    <2>1. up' \in BOOLEAN
      BY <1>10 DEF Start
    <2> QED
      BY <1>10, <2>1 DEF Start, TasksTypeOK
  <1>11. CASE PopDueRaises
    <2>1. Head(due.rows) \in Tasks
      BY <1>11, DueTypes DEF PopDueRaises
    <2>2. raised' \in [Tasks -> Nat]
      BY <1>11, <2>1 DEF PopDueRaises, Raises, TasksTypeOK
    <2>3. due' = [pc |-> "idle", rows |-> <<>>] /\ <<>> \in Seq(Tasks)
      BY <1>11 DEF PopDueRaises, NoRows
    <2>4. due' \in [pc : {"idle", "mark", "spawn"}, rows : Seq(Tasks)] /\ (due'.pc = "idle" <=> due'.rows = <<>>)
      BY <2>3
    <2> QED
      BY <1>11, <2>2, <2>4 DEF PopDueRaises, TasksTypeOK
  <1> QED
    BY <1>0, <1>1, <1>2, <1>3, <1>4, <1>5, <1>6, <1>7, <1>8, <1>9, <1>10, <1>11 DEF TasksNext, LoopStep

LEMMA TypeStart == TasksInit => TasksTypeOK
  BY TasksAssumption DEF TasksInit, TasksTypeOK, NoRows, Time

\* The tables and the coroutines keep their types, fire_loop has a row in hand
\* until its listing is empty, and an alarm is never prewoken.
THEOREM TasksTypeCorrect == TasksSpec => []TasksTypeOK
  BY TypeStart, TypeStep, PTL DEF TasksSpec

-----------------------------------------------------------------------------
(* How often a task fires.                                                 *)

\* Who has read that a task is to be fired and has not yet begun to fire it.
Readers(t) == {o \in Ops : op[o].pc \in {"mark", "spawn"} /\ op[o].t = t}
Listed(t) == IF \E i \in 1 .. Len(due.rows) : due.rows[i] = t THEN 1 ELSE 0

\* The firings of a task, done, under way and still possible.
Load(t) == results[t] + raised[t] + Len(run[t]) + Cardinality(Readers(t)) + Listed(t)

\* Until the mark nobody fires; from the mark on nobody new reads the task as
\* one to be fired, so that the load only falls.
Accounted(t) ==
    /\ task[t].state # "fired" => results[t] = 0 /\ raised[t] = 0 /\ run[t] = <<>> /\ ~AboutToSpawn(t)
    /\ task[t].state = "fired" => Load(t) <= Cardinality(Ops) + 1
    /\ task[t].state = "fired" /\ deaths = 0
         => results[t] > 0 \/ raised[t] > 0 \/ run[t] # <<>> \/ AboutToSpawn(t)

ListedOnce == \A i, j \in 1 .. Len(due.rows) : due.rows[i] = due.rows[j] => i = j

FiringInv == ListedOnce /\ \A t \in Tasks : Accounted(t)

LEMMA LoadType ==
  ASSUME TasksTypeOK, NEW t \in Tasks
  PROVE  /\ IsFiniteSet(Readers(t)) /\ Cardinality(Readers(t)) \in Nat
         /\ Cardinality(Readers(t)) <= Cardinality(Ops) /\ Cardinality(Ops) \in Nat
         /\ Listed(t) \in {0, 1} /\ results[t] \in Nat /\ raised[t] \in Nat /\ run[t] \in Seq(Phase) /\ Len(run[t]) \in Nat
  <1>1. Readers(t) \in SUBSET Ops /\ IsFiniteSet(Ops)
    BY TasksAssumption DEF Readers
  <1>2. IsFiniteSet(Readers(t)) /\ Cardinality(Readers(t)) <= Cardinality(Ops)
    BY <1>1, FS_Subset
  <1>3. Cardinality(Readers(t)) \in Nat /\ Cardinality(Ops) \in Nat
    BY <1>1, <1>2, FS_CardinalityType
  <1>4. Listed(t) \in {0, 1}
    BY DEF Listed
  <1>5. results[t] \in Nat /\ raised[t] \in Nat /\ run[t] \in Seq(Phase) /\ Len(run[t]) \in Nat
    BY DEF TasksTypeOK
  <1> QED
    BY <1>2, <1>3, <1>4, <1>5

\* A step that is not about a task leaves its account alone.
LEMMA Unmoved ==
  ASSUME NEW t \in Tasks, Accounted(t),
         task'[t].state = task[t].state, results'[t] = results[t], raised'[t] = raised[t], run'[t] = run[t],
         deaths' = deaths,
         Readers(t)' = Readers(t), Listed(t)' = Listed(t), AboutToSpawn(t)' <=> AboutToSpawn(t)
  PROVE  Accounted(t)'
  <1>1. Load(t)' = Load(t)
    BY DEF Load
  <1> QED
    BY <1>1 DEF Accounted

\* Where a handler goes.
LEMMA HandlerMoves ==
  ASSUME TasksTypeOK, NEW o \in Ops, NEW h \in Handlers, op' = [op EXCEPT ![o] = h],
         UNCHANGED due, NEW t \in Tasks
  PROVE  /\ op[o] \in Handlers
         /\ Readers(t)' = IF h.pc \in {"mark", "spawn"} /\ h.t = t THEN Readers(t) \cup {o}
                                                                  ELSE Readers(t) \ {o}
         /\ o \in Readers(t) <=> op[o].pc \in {"mark", "spawn"} /\ op[o].t = t
         /\ Listed(t)' = Listed(t)
         /\ (op[o].pc # "spawn" \/ op[o].t # t) /\ (h.pc # "spawn" \/ h.t # t)
              => (AboutToSpawn(t)' <=> AboutToSpawn(t))
         /\ h.pc = "spawn" /\ h.t = t => AboutToSpawn(t)'
         /\ op[o].pc = "spawn" /\ op[o].t = t => AboutToSpawn(t)
  <1>0. op \in [Ops -> Handlers] /\ op' \in [Ops -> Handlers]
    BY DEF TasksTypeOK, Handlers
  <1>1. op'[o] = h /\ \A p \in Ops \ {o} : op'[p] = op[p]
    BY <1>0
  <1>2. Readers(t)' = IF h.pc \in {"mark", "spawn"} /\ h.t = t THEN Readers(t) \cup {o}
                                                             ELSE Readers(t) \ {o}
    BY <1>1 DEF Readers
  <1>3. o \in Readers(t) <=> op[o].pc \in {"mark", "spawn"} /\ op[o].t = t
    BY DEF Readers
  <1>4. Listed(t)' = Listed(t)
    BY DEF Listed
  <1>5. \A g \in Handlers : g = [pc |-> "spawn", t |-> t] <=> g.pc = "spawn" /\ g.t = t
    BY DEF Handlers, Idle
  <1>6. /\ h = [pc |-> "spawn", t |-> t] <=> h.pc = "spawn" /\ h.t = t
        /\ op[o] = [pc |-> "spawn", t |-> t] <=> op[o].pc = "spawn" /\ op[o].t = t
    BY <1>0, <1>5
  <1>7. (op[o].pc # "spawn" \/ op[o].t # t) /\ (h.pc # "spawn" \/ h.t # t)
          => (AboutToSpawn(t)' <=> AboutToSpawn(t))
    BY <1>1, <1>6 DEF AboutToSpawn
  <1>8. /\ h.pc = "spawn" /\ h.t = t => AboutToSpawn(t)'
        /\ op[o].pc = "spawn" /\ op[o].t = t => AboutToSpawn(t)
    BY <1>1, <1>6 DEF AboutToSpawn
  <1> QED
    BY <1>0, <1>2, <1>3, <1>4, <1>7, <1>8

\* A handler that neither marks nor fires.
LEMMA HandlerWaits ==
  ASSUME TasksTypeOK, FiringInv, NEW o \in Ops, NEW h \in Handlers,
         op' = [op EXCEPT ![o] = h], h.pc \in {"idle", "wait", "read"},
         op[o].pc \in {"idle", "wait", "read"},
         \A t \in Tasks : task'[t].state = "fired" <=> task[t].state = "fired",
         UNCHANGED <<due, run, results, raised, deaths>>
  PROVE  FiringInv'
  <1>1. ListedOnce'
    BY DEF FiringInv, ListedOnce
  <1>2. ASSUME NEW t \in Tasks PROVE Accounted(t)'
    <2>1. /\ Readers(t)' = Readers(t) \ {o} /\ o \notin Readers(t)
          /\ Listed(t)' = Listed(t) /\ (AboutToSpawn(t)' <=> AboutToSpawn(t))
      BY HandlerMoves
    <2>2. Load(t)' = Load(t)
      BY <2>1 DEF Load
    <2> QED
      BY <2>1, <2>2 DEF FiringInv, Accounted
  <1> QED
    BY <1>1, <1>2 DEF FiringInv

LEMMA ReadKeepsFirings ==
  ASSUME TasksTypeOK, FiringInv, NEW o \in Ops, ReadPending(o)
  PROVE  FiringInv'
  <1>1. Idle \in Handlers /\ Idle.pc = "idle" /\ op[o] \in Handlers /\ op[o].pc = "read"
    BY DEF ReadPending, Handlers, Idle, TasksTypeOK
  <1>2. PICK m \in Tasks : m = op[o].t
    BY <1>1 DEF Handlers, Idle
  <1>3. CASE ~Pending(m)
    <2>1. op' = [op EXCEPT ![o] = Idle] /\ UNCHANGED <<task, due, run, results, raised, deaths>>
      BY <1>2, <1>3 DEF ReadPending
    <2> QED
      BY <1>1, <2>1, HandlerWaits
  <1>4. CASE Pending(m)
    <2> DEFINE h == [pc |-> "mark", t |-> m]
    <2>1. op' = [op EXCEPT ![o] = h] /\ UNCHANGED <<task, due, run, results, raised, deaths>>
      BY <1>2, <1>4 DEF ReadPending, GoOn
    <2>2. task[m].state # "fired"
      BY <1>4 DEF Pending
    <2>3. h \in Handlers /\ h.pc = "mark" /\ h.t = m
      BY <1>2 DEF Handlers
    <2> HIDE DEF h
    <2>4. ListedOnce'
      BY <2>1 DEF FiringInv, ListedOnce
    <2>5. ASSUME NEW t \in Tasks PROVE Accounted(t)'
      <3>1. AboutToSpawn(t)' <=> AboutToSpawn(t)
        BY <1>1, <2>1, <2>3, HandlerMoves
      <3>2. CASE t = m
        BY <2>1, <2>2, <3>1, <3>2 DEF FiringInv, Accounted
      <3>3. CASE t # m
        <4>1. Readers(t)' = Readers(t) \ {o} /\ o \notin Readers(t) /\ Listed(t)' = Listed(t)
          BY <1>1, <2>1, <2>3, <3>3, HandlerMoves
        <4> QED
          BY <2>1, <3>1, <4>1, Unmoved DEF FiringInv
      <3> QED
        BY <3>2, <3>3
    <2> QED
      BY <2>4, <2>5 DEF FiringInv
  <1> QED
    BY <1>3, <1>4

\* A mark: of a task that had fired already it changes nothing, and of one that
\* had not, the load is what its readers are.
LEMMA MarkAccounts ==
  ASSUME TasksTypeOK, FiringInv, NEW t \in Tasks, task'[t].state = "fired",
         UNCHANGED <<run, results, raised, deaths>>,
         Readers(t)' = Readers(t), Listed(t)' = Listed(t), AboutToSpawn(t)'
  PROVE  Accounted(t)'
  <1>1. Load(t)' = Load(t)
    BY DEF Load
  <1>2. Load(t) <= Cardinality(Ops) + 1
    <2>1. CASE task[t].state = "fired"
      BY <2>1 DEF FiringInv, Accounted
    <2>2. CASE task[t].state # "fired"
      <3>1. results[t] = 0 /\ raised[t] = 0 /\ run[t] = <<>> /\ Len(run[t]) = 0
        BY <2>2 DEF FiringInv, Accounted
      <3> QED
        BY <3>1, LoadType DEF Load
    <2> QED
      BY <2>1, <2>2
  <1> QED
    BY <1>1, <1>2 DEF Accounted

LEMMA MarkKeepsFirings ==
  ASSUME TasksTypeOK, FiringInv, NEW o \in Ops, MarkFired(o)
  PROVE  FiringInv'
  <1>1. op[o].pc = "mark" /\ op[o] \in Handlers /\ UNCHANGED <<due, run, results, raised, deaths>>
    BY DEF MarkFired, TasksTypeOK, Handlers
  <1>2. PICK m \in Tasks : m = op[o].t
    BY <1>1 DEF Handlers, Idle
  <1> DEFINE h == [pc |-> "spawn", t |-> m]
  <1>3. op' = [op EXCEPT ![o] = h] /\ Fired(m)
    BY <1>2 DEF MarkFired, GoOn
  <1>4. h \in Handlers /\ h.pc = "spawn" /\ h.t = m
    BY <1>2 DEF Handlers
  <1> HIDE DEF h
  <1>5. task'[m].state = "fired" /\ \A u \in Tasks \ {m} : task'[u] = task[u]
    BY <1>3, RowTypes
  <1>6. ListedOnce'
    BY <1>1 DEF FiringInv, ListedOnce
  <1>7. ASSUME NEW t \in Tasks PROVE Accounted(t)'
    <2>1. CASE t = m
      <3>1. Readers(t)' = Readers(t) \cup {o} /\ o \in Readers(t) /\ Listed(t)' = Listed(t) /\ AboutToSpawn(t)'
        BY <1>1, <1>2, <1>3, <1>4, <2>1, HandlerMoves
      <3>2. Readers(t)' = Readers(t)
        BY <3>1
      <3>3. task'[t].state = "fired"
        BY <1>5, <2>1
      <3> QED
        BY <1>1, <3>1, <3>2, <3>3, MarkAccounts
    <2>2. CASE t # m
      <3>1. /\ Readers(t)' = Readers(t) \ {o} /\ o \notin Readers(t)
            /\ Listed(t)' = Listed(t) /\ (AboutToSpawn(t)' <=> AboutToSpawn(t))
        BY <1>1, <1>2, <1>3, <1>4, <2>2, HandlerMoves
      <3> QED
        BY <1>1, <1>5, <2>2, <3>1, Unmoved DEF FiringInv
    <2> QED
      BY <2>1, <2>2
  <1> QED
    BY <1>6, <1>7 DEF FiringInv

\* A firing that begins takes its reader out of the readers.
LEMMA SpawnAccounts ==
  ASSUME TasksTypeOK, FiringInv, NEW t \in Tasks, Spawn(t), AboutToSpawn(t),
         UNCHANGED <<task, results, raised, deaths>>,
         Cardinality(Readers(t)') + Listed(t)' = Cardinality(Readers(t)) + Listed(t) - 1,
         Cardinality(Readers(t)') \in Nat, Listed(t)' \in Nat
  PROVE  Accounted(t)'
  <1>1. task[t].state = "fired" /\ Load(t) <= Cardinality(Ops) + 1
    BY DEF FiringInv, Accounted
  <1>2. Len(run'[t]) = Len(run[t]) + 1 /\ run'[t] # <<>>
    BY SpawnTypes
  <1>3. /\ Cardinality(Readers(t)) \in Nat /\ Listed(t) \in Nat
        /\ results[t] + raised[t] \in Nat /\ Len(run[t]) \in Nat
    <2>1. results[t] \in Nat /\ raised[t] \in Nat
      BY LoadType
    <2>2. results[t] + raised[t] \in Nat
      BY <2>1
    <2>3. /\ Cardinality(Readers(t)) \in Nat /\ Listed(t) \in {0, 1}
          /\ Len(run[t]) \in Nat
      BY LoadType
    <2> QED
      BY <2>2, <2>3
  <1>4. /\ Load(t) = results[t] + raised[t] + Len(run[t]) + Cardinality(Readers(t)) + Listed(t)
        /\ Load(t)' = results[t] + raised[t] + Len(run'[t]) + Cardinality(Readers(t)') + Listed(t)'
    BY DEF Load
  <1>5. PICK r \in Nat, l \in Nat, c \in Nat, d \in Nat, i \in Nat, j \in Nat :
          /\ r = results[t] + raised[t] /\ l = Len(run[t])
          /\ c = Cardinality(Readers(t)') /\ d = Cardinality(Readers(t))
          /\ i = Listed(t)' /\ j = Listed(t)
    BY <1>3, Zenon
  <1>6. c + i = d + j - 1
    BY <1>5
  <1>7. Load(t)' = r + (l + 1) + c + i /\ Load(t) = r + l + d + j
    BY <1>2, <1>4, <1>5
  <1>8. r + (l + 1) + c + i = r + l + d + j
    BY <1>6
  <1>9. Load(t)' = Load(t)
    BY <1>7, <1>8
  <1> QED
    BY <1>1, <1>2, <1>9 DEF Accounted

LEMMA SpawnKeepsFirings ==
  ASSUME TasksTypeOK, FiringInv, NEW o \in Ops, PopAndSpawn(o)
  PROVE  FiringInv'
  <1>1. /\ op[o].pc = "spawn" /\ op[o] \in Handlers
        /\ op' = [op EXCEPT ![o] = Idle]
        /\ UNCHANGED <<task, due, results, raised, deaths>>
    BY DEF PopAndSpawn, TasksTypeOK, Handlers
  <1>2. PICK m \in Tasks : m = op[o].t
    BY <1>1 DEF Handlers, Idle
  <1>3. Spawn(m)
    BY <1>2 DEF PopAndSpawn, Spawn
  <1>4. Idle \in Handlers /\ Idle.pc = "idle"
    BY DEF Handlers, Idle
  <1>5. ListedOnce'
    BY <1>1 DEF FiringInv, ListedOnce
  <1>6. ASSUME NEW t \in Tasks PROVE Accounted(t)'
    <2>1. CASE t # m
      <3>1. /\ Readers(t)' = Readers(t) \ {o} /\ o \notin Readers(t)
            /\ Listed(t)' = Listed(t) /\ (AboutToSpawn(t)' <=> AboutToSpawn(t))
        BY <1>1, <1>2, <1>4, <2>1, HandlerMoves
      <3>2. run'[t] = run[t]
        BY <1>3, <2>1, SpawnTypes
      <3> QED
        BY <1>1, <3>1, <3>2, Unmoved DEF FiringInv
    <2>2. CASE t = m
      <3>1. Readers(t)' = Readers(t) \ {o} /\ o \in Readers(t) /\ Listed(t)' = Listed(t) /\ AboutToSpawn(t)
        BY <1>1, <1>2, <1>4, <2>2, HandlerMoves
      <3>2. /\ Cardinality(Readers(t)') = Cardinality(Readers(t)) - 1
            /\ IsFiniteSet(Readers(t)')
        BY <3>1, LoadType, FS_RemoveElement
      <3>3. Cardinality(Readers(t)') \in Nat /\ Cardinality(Readers(t)) \in Nat
        BY <3>2, LoadType, FS_CardinalityType
      <3>4. Listed(t) \in {0, 1}
        BY LoadType
      <3>5. Spawn(t)
        BY <1>3, <2>2
      <3> QED
        BY <1>1, <3>1, <3>2, <3>3, <3>4, <3>5, SpawnAccounts
    <2> QED
      BY <2>1, <2>2
  <1> QED
    BY <1>5, <1>6 DEF FiringInv

\* A firing that raises before it has begun leaves its readers, and counts.
LEMMA RaiseAccounts ==
  ASSUME TasksTypeOK, FiringInv, NEW t \in Tasks, Raises(t), AboutToSpawn(t),
         UNCHANGED <<task, run, results, deaths>>,
         Cardinality(Readers(t)') + Listed(t)' = Cardinality(Readers(t)) + Listed(t) - 1,
         Cardinality(Readers(t)') \in Nat, Listed(t)' \in Nat
  PROVE  Accounted(t)'
  <1>1. task[t].state = "fired" /\ Load(t) <= Cardinality(Ops) + 1
    BY DEF FiringInv, Accounted
  <1>2. raised'[t] = raised[t] + 1
    BY DEF Raises, TasksTypeOK
  <1>3. /\ Cardinality(Readers(t)) \in Nat /\ Listed(t) \in Nat
        /\ results[t] \in Nat /\ raised[t] \in Nat /\ Len(run[t]) \in Nat
    BY LoadType
  <1>4. /\ Load(t) = results[t] + raised[t] + Len(run[t]) + Cardinality(Readers(t)) + Listed(t)
        /\ Load(t)' = results[t] + raised'[t] + Len(run[t]) + Cardinality(Readers(t)') + Listed(t)'
    BY DEF Load
  <1>5. Load(t)' = Load(t)
    <2>1. PICK r \in Nat, q \in Nat, l \in Nat, c \in Nat, d \in Nat, i \in Nat, j \in Nat :
            /\ r = results[t] /\ q = raised[t] /\ l = Len(run[t])
            /\ c = Cardinality(Readers(t)') /\ d = Cardinality(Readers(t))
            /\ i = Listed(t)' /\ j = Listed(t)
      BY <1>3, Zenon
    <2>2. c + i = d + j - 1
      BY <2>1
    <2>3. Load(t)' = r + (q + 1) + l + c + i /\ Load(t) = r + q + l + d + j
      BY <1>2, <1>4, <2>1
    <2>4. r + (q + 1) + l + c + i = r + q + l + d + j
      BY <2>2
    <2> QED
      BY <2>3, <2>4
  <1>6. raised'[t] > 0
    BY <1>2, <1>3
  <1> QED
    BY <1>1, <1>5, <1>6 DEF Accounted

LEMMA PopRaisesKeepsFirings ==
  ASSUME TasksTypeOK, FiringInv, NEW o \in Ops, PopRaises(o)
  PROVE  FiringInv'
  <1>1. /\ op[o].pc = "spawn" /\ op[o] \in Handlers
        /\ op' = [op EXCEPT ![o] = Idle]
        /\ UNCHANGED <<task, due, run, results, deaths>>
    BY DEF PopRaises, TasksTypeOK, Handlers
  <1>2. PICK m \in Tasks : m = op[o].t
    BY <1>1 DEF Handlers, Idle
  <1>3. Raises(m)
    BY <1>2 DEF PopRaises, Raises
  <1>4. Idle \in Handlers /\ Idle.pc = "idle"
    BY DEF Handlers, Idle
  <1>5. ListedOnce'
    BY <1>1 DEF FiringInv, ListedOnce
  <1>6. ASSUME NEW t \in Tasks PROVE Accounted(t)'
    <2>1. CASE t # m
      <3>1. /\ Readers(t)' = Readers(t) \ {o} /\ o \notin Readers(t)
            /\ Listed(t)' = Listed(t) /\ (AboutToSpawn(t)' <=> AboutToSpawn(t))
        BY <1>1, <1>2, <1>4, <2>1, HandlerMoves
      <3>2. raised'[t] = raised[t]
        BY <1>3, <2>1 DEF Raises, TasksTypeOK
      <3> QED
        BY <1>1, <3>1, <3>2, Unmoved DEF FiringInv
    <2>2. CASE t = m
      <3>1. Readers(t)' = Readers(t) \ {o} /\ o \in Readers(t) /\ Listed(t)' = Listed(t) /\ AboutToSpawn(t)
        BY <1>1, <1>2, <1>4, <2>2, HandlerMoves
      <3>2. /\ Cardinality(Readers(t)') = Cardinality(Readers(t)) - 1
            /\ IsFiniteSet(Readers(t)')
        BY <3>1, LoadType, FS_RemoveElement
      <3>3. Cardinality(Readers(t)') \in Nat /\ Cardinality(Readers(t)) \in Nat
        BY <3>2, LoadType, FS_CardinalityType
      <3>4. Listed(t) \in {0, 1}
        BY LoadType
      <3>5. Raises(t)
        BY <1>3, <2>2
      <3> QED
        BY <1>1, <3>1, <3>2, <3>3, <3>4, <3>5, RaiseAccounts
    <2> QED
      BY <2>1, <2>2
  <1> QED
    BY <1>5, <1>6 DEF FiringInv

LEMMA ListKeepsFirings ==
  ASSUME TasksTypeOK, FiringInv, ListDue
  PROVE  FiringInv'
  <1>1. PICK rows \in SetToSeqs(DueTasks) : due' = [pc |-> "mark", rows |-> rows]
    BY DEF ListDue
  <1>2. due'.pc = "mark" /\ due'.rows = rows /\ UNCHANGED <<task, op, run, results, raised, deaths>>
    BY <1>1 DEF ListDue
  <1>3. /\ rows \in [1 .. Cardinality(DueTasks) -> DueTasks]
        /\ \A i, j \in DOMAIN rows : rows[i] = rows[j] => i = j
    BY DEF SetToSeqs, IsInjective
  <1>4. DueTasks \in SUBSET Tasks /\ IsFiniteSet(DueTasks) /\ Cardinality(DueTasks) \in Nat
    BY TasksAssumption, FS_Subset, FS_CardinalityType DEF DueTasks
  <1>5. 1 .. Len(rows) = DOMAIN rows /\ Len(rows) \in Nat
    BY <1>3, <1>4
  <1>6. due.pc = "idle" /\ due.rows = <<>>
    BY DEF ListDue, TasksTypeOK
  <1>7. ListedOnce'
    BY <1>2, <1>3, <1>5 DEF ListedOnce
  <1>8. ASSUME NEW t \in Tasks PROVE Accounted(t)'
    <2>1. AboutToSpawn(t)' <=> AboutToSpawn(t)
      BY <1>2, <1>6 DEF AboutToSpawn
    <2>2. CASE task[t].state # "fired"
      BY <1>2, <2>1, <2>2 DEF FiringInv, Accounted
    <2>3. CASE task[t].state = "fired"
      <3>1. t \notin DueTasks
        BY <2>3 DEF DueTasks, Pending
      <3>2. \A i \in 1 .. Len(rows) : rows[i] # t
        BY <1>3, <1>5, <3>1
      <3>3. Listed(t)' = 0
        BY <1>2, <3>2 DEF Listed
      <3>4. Listed(t) = 0
        BY <1>6 DEF Listed
      <3>5. Readers(t)' = Readers(t)
        BY <1>2 DEF Readers
      <3> QED
        BY <1>2, <2>1, <3>3, <3>4, <3>5, Unmoved DEF FiringInv
    <2> QED
      BY <2>2, <2>3
  <1> QED
    BY <1>7, <1>8 DEF FiringInv

LEMMA MarkDueKeepsFirings ==
  ASSUME TasksTypeOK, FiringInv, MarkDue
  PROVE  FiringInv'
  <1>1. /\ due.pc = "mark" /\ due'.pc = "spawn" /\ due'.rows = due.rows
        /\ UNCHANGED <<op, run, results, raised, deaths>>
    BY DEF MarkDue, TasksTypeOK
  <1>2. Head(due.rows) \in Tasks /\ Len(due.rows) > 0
    BY <1>1, DueTypes
  <1>3. PICK m \in Tasks : m = Head(due.rows)
    BY <1>2
  <1>4. Fired(m)
    BY <1>3 DEF MarkDue, Fired
  <1>5. task'[m].state = "fired" /\ \A u \in Tasks \ {m} : task'[u] = task[u]
    BY <1>4, RowTypes
  <1>6. ListedOnce'
    BY <1>1 DEF FiringInv, ListedOnce
  <1>7. ASSUME NEW t \in Tasks PROVE Accounted(t)'
    <2>1. Readers(t)' = Readers(t) /\ Listed(t)' = Listed(t)
      BY <1>1 DEF Readers, Listed
    <2>2. CASE t = m
      <3>1. AboutToSpawn(t)'
        BY <1>1, <1>3, <2>2 DEF AboutToSpawn
      <3>2. task'[t].state = "fired"
        BY <1>5, <2>2
      <3> QED
        BY <1>1, <2>1, <3>1, <3>2, MarkAccounts
    <2>3. CASE t # m
      <3>1. AboutToSpawn(t)' <=> AboutToSpawn(t)
        BY <1>1, <1>3, <2>3 DEF AboutToSpawn
      <3> QED
        BY <1>1, <1>5, <2>1, <2>3, <3>1, Unmoved DEF FiringInv
    <2> QED
      BY <2>2, <2>3
  <1> QED
    BY <1>6, <1>7 DEF FiringInv

\* Without its first row the listing has every other one once, and that one no more.
LEMMA NextOfListing ==
  ASSUME ListedOnce, due.rows \in Seq(Tasks), due.rows # <<>>, due'.rows = Tail(due.rows)
  PROVE  /\ ListedOnce'
         /\ Listed(Head(due.rows)) = 1
         /\ \A i \in 1 .. Len(due'.rows) : due'.rows[i] # Head(due.rows)
         /\ \A t \in Tasks : t # Head(due.rows) =>
              (\E i \in 1 .. Len(due'.rows) : due'.rows[i] = t)
                <=> \E i \in 1 .. Len(due.rows) : due.rows[i] = t
  <1> DEFINE s == due.rows
  <1>1. /\ Len(s) \in Nat \ {0} /\ Head(s) = s[1]
        /\ Len(Tail(s)) = Len(s) - 1
        /\ \A i \in 1 .. Len(s) - 1 : Tail(s)[i] = s[i + 1]
    OBVIOUS
  <1>2. /\ Len(due'.rows) = Len(s) - 1 /\ \A i \in 1 .. Len(s) - 1 : due'.rows[i] = s[i + 1]
    BY <1>1
  <1>3. ListedOnce'
    BY <1>1, <1>2 DEF ListedOnce
  <1>4. Listed(Head(s)) = 1
    BY <1>1 DEF Listed
  <1>5. \A i \in 1 .. Len(due'.rows) : due'.rows[i] # Head(s)
    BY <1>1, <1>2 DEF ListedOnce
  <1>6. ASSUME NEW t \in Tasks, t # Head(s)
        PROVE  (\E i \in 1 .. Len(due'.rows) : due'.rows[i] = t) <=> \E i \in 1 .. Len(s) : s[i] = t
    <2>1. ASSUME NEW i \in 1 .. Len(s), s[i] = t PROVE \E k \in 1 .. Len(due'.rows) : due'.rows[k] = t
      <3>1. i # 1
        BY <1>1, <1>6, <2>1
      <3>2. i - 1 \in 1 .. Len(s) - 1 /\ (i - 1) + 1 = i
        BY <1>1, <3>1
      <3>3. due'.rows[i - 1] = t
        BY <1>2, <2>1, <3>2
      <3> QED
        BY <1>2, <3>2, <3>3
    <2>2. ASSUME NEW i \in 1 .. Len(due'.rows), due'.rows[i] = t PROVE \E k \in 1 .. Len(s) : s[k] = t
      <3>1. i + 1 \in 1 .. Len(s) /\ s[i + 1] = t
        BY <1>1, <1>2, <2>2
      <3> QED
        BY <3>1
    <2> QED
      BY <2>1, <2>2
  <1> QED
    BY <1>3, <1>4, <1>5, <1>6

LEMMA SpawnDueKeepsFirings ==
  ASSUME TasksTypeOK, FiringInv, SpawnDue
  PROVE  FiringInv'
  <1>1. /\ due.pc = "spawn" /\ due' = NextDue
        /\ UNCHANGED <<task, op, results, raised, deaths>>
    BY DEF SpawnDue
  <1>2. /\ Head(due.rows) \in Tasks /\ due'.rows = Tail(due.rows) /\ due'.pc # "spawn"
        /\ due.rows \in Seq(Tasks) /\ due.rows # <<>>
    BY <1>1, DueTypes DEF TasksTypeOK
  <1>3. PICK m \in Tasks : m = Head(due.rows)
    BY <1>2
  <1>4. Spawn(m)
    BY <1>3 DEF SpawnDue, Spawn
  <1>5. /\ ListedOnce'
        /\ Listed(m) = 1
        /\ \A i \in 1 .. Len(due'.rows) : due'.rows[i] # m
        /\ \A t \in Tasks : t # m =>
             (\E i \in 1 .. Len(due'.rows) : due'.rows[i] = t)
               <=> \E i \in 1 .. Len(due.rows) : due.rows[i] = t
    <2>1. ListedOnce
      BY DEF FiringInv
    <2> QED
      BY <1>2, <1>3, <2>1, NextOfListing
  <1>6. ASSUME NEW t \in Tasks PROVE Accounted(t)'
    <2>1. Readers(t)' = Readers(t)
      BY <1>1 DEF Readers
    <2>2. CASE t = m
      <3>1. Listed(t)' = 0 /\ Listed(t) = 1
        BY <1>5, <2>2 DEF Listed
      <3>2. AboutToSpawn(t)
        BY <1>1, <1>3, <2>2 DEF AboutToSpawn
      <3>3. Spawn(t)
        BY <1>4, <2>2
      <3>4. Cardinality(Readers(t)) \in Nat
        BY LoadType
      <3>5. Cardinality(Readers(t)') \in Nat /\ Listed(t)' \in Nat
        BY <2>1, <3>1, <3>4
      <3>6. Cardinality(Readers(t)') + Listed(t)' = Cardinality(Readers(t)) + Listed(t) - 1
        BY <2>1, <3>1, <3>4
      <3> QED
        BY <1>1, <3>2, <3>3, <3>5, <3>6, SpawnAccounts
    <2>3. CASE t # m
      <3>1. run'[t] = run[t]
        BY <1>4, <2>3, SpawnTypes
      <3>2. Listed(t)' = Listed(t)
        BY <1>5, <2>3 DEF Listed
      <3>3. AboutToSpawn(t)' <=> AboutToSpawn(t)
        BY <1>1, <1>2, <1>3, <2>3 DEF AboutToSpawn
      <3> QED
        BY <1>1, <2>1, <3>1, <3>2, <3>3, Unmoved DEF FiringInv
    <2> QED
      BY <2>2, <2>3
  <1> QED
    BY <1>5, <1>6 DEF FiringInv

\* An exception in fire_loop drops the listing, its first row for good.
LEMMA PopDueRaisesKeepsFirings ==
  ASSUME TasksTypeOK, FiringInv, PopDueRaises
  PROVE  FiringInv'
  <1>1. /\ due.pc = "spawn" /\ due'.rows = <<>> /\ due'.pc = "idle"
        /\ UNCHANGED <<task, op, run, results, deaths>>
    BY DEF PopDueRaises, NoRows
  <1>2. Head(due.rows) \in Tasks /\ due.rows \in Seq(Tasks) /\ due.rows # <<>>
    BY <1>1, DueTypes DEF TasksTypeOK
  <1>3. PICK m \in Tasks : m = Head(due.rows)
    BY <1>2
  <1>4. Raises(m)
    BY <1>3 DEF PopDueRaises, Raises
  <1>5. ListedOnce'
    BY <1>1 DEF ListedOnce
  <1>6. ASSUME NEW t \in Tasks PROVE Accounted(t)'
    <2>1. Readers(t)' = Readers(t) /\ Listed(t)' = 0
      BY <1>1 DEF Readers, Listed
    <2>2. CASE t = m
      <3>1. 1 \in 1 .. Len(due.rows) /\ due.rows[1] = t
        BY <1>2, <1>3, <2>2
      <3>2. Listed(t) = 1
        BY <3>1 DEF Listed
      <3>3. AboutToSpawn(t)
        BY <1>1, <1>3, <2>2 DEF AboutToSpawn
      <3>4. Raises(t)
        BY <1>4, <2>2
      <3>5. Cardinality(Readers(t)) \in Nat
        BY LoadType
      <3>6. Cardinality(Readers(t)') \in Nat /\ Listed(t)' \in Nat
        BY <2>1, <3>5
      <3>7. Cardinality(Readers(t)') + Listed(t)' = Cardinality(Readers(t)) + Listed(t) - 1
        BY <2>1, <3>2, <3>5
      <3> QED
        BY <1>1, <3>3, <3>4, <3>6, <3>7, RaiseAccounts
    <2>3. CASE t # m
      <3>1. raised'[t] = raised[t]
        BY <1>4, <2>3 DEF Raises, TasksTypeOK
      <3>2. AboutToSpawn(t)' <=> AboutToSpawn(t)
        BY <1>1, <1>3, <2>3 DEF AboutToSpawn
      <3>3. /\ results[t] \in Nat /\ raised[t] \in Nat /\ Len(run[t]) \in Nat /\ Cardinality(Ops) \in Nat
            /\ Cardinality(Readers(t)) \in Nat /\ Listed(t) \in {0, 1}
        BY LoadType
      <3>4. /\ Load(t) = results[t] + raised[t] + Len(run[t]) + Cardinality(Readers(t)) + Listed(t)
            /\ Load(t)' = results[t] + raised[t] + Len(run[t]) + Cardinality(Readers(t)) + 0
        BY <1>1, <2>1, <3>1 DEF Load
      <3>5. Load(t)' <= Load(t) /\ Load(t) \in Nat /\ Load(t)' \in Nat
        <4>1. PICK r \in Nat, q \in Nat, l \in Nat, c \in Nat, j \in {0, 1} :
                /\ r = results[t] /\ q = raised[t] /\ l = Len(run[t])
                /\ c = Cardinality(Readers(t)) /\ j = Listed(t)
          BY <3>3, Zenon
        <4>2. Load(t) = r + q + l + c + j /\ Load(t)' = r + q + l + c + 0
          BY <3>4, <4>1
        <4> QED
          BY <4>2
      <3> QED
        BY <1>1, <3>1, <3>2, <3>3, <3>5 DEF FiringInv, Accounted
    <2> QED
      BY <2>2, <2>3
  <1> QED
    BY <1>5, <1>6 DEF FiringInv

LEMMA RunKeepsFirings ==
  ASSUME TasksTypeOK, FiringInv, NEW u \in Tasks, NEW i \in DOMAIN run[u], RunStep(u, i)
  PROVE  FiringInv'
  <1>1. UNCHANGED <<task, op, due, deaths>>
    BY DEF RunStep, Begin, TargetReady, TargetNotReady, RunEnds, FiringRaises
  <1>2. ListedOnce'
    BY <1>1 DEF FiringInv, ListedOnce
  <1>3. ASSUME NEW t \in Tasks PROVE Accounted(t)'
    <2>1. Readers(t)' = Readers(t) /\ Listed(t)' = Listed(t) /\ (AboutToSpawn(t)' <=> AboutToSpawn(t))
      BY <1>1 DEF Readers, Listed, AboutToSpawn
    <2>2. CASE t # u
      <3>1. run'[t] = run[t] /\ results'[t] = results[t] /\ raised'[t] = raised[t]
        BY <2>2, RunTypes
      <3> QED
        BY <1>1, <2>1, <3>1, Unmoved DEF FiringInv
    <2>3. CASE t = u
      <3>0. i \in DOMAIN run[t] /\ RunStep(t, i)
        BY <2>3
      <3>1. /\ results[t] \in Nat /\ raised[t] \in Nat
            /\ run[t] \in Seq(Phase) /\ Len(run[t]) \in Nat
        BY LoadType
      <3>2. run[t] # <<>>
        BY <3>0, <3>1
      <3>3. task[t].state = "fired"
        BY <3>2 DEF FiringInv, Accounted
      <3>4. /\ run'[t] \in Seq(Phase) /\ results'[t] \in Nat /\ raised'[t] \in Nat
            /\ \/ Len(run'[t]) = Len(run[t]) /\ results'[t] = results[t] /\ raised'[t] = raised[t]
               \/ Len(run'[t]) = Len(run[t]) - 1 /\ results'[t] = results[t] + 1 /\ raised'[t] = raised[t]
               \/ Len(run'[t]) = Len(run[t]) - 1 /\ results'[t] = results[t] /\ raised'[t] = raised[t] + 1
        BY <3>0, RunTypes
      <3>5. results'[t] + raised'[t] + Len(run'[t]) = results[t] + raised[t] + Len(run[t])
        <4>1. PICK r \in Nat, q \in Nat, l \in Nat : r = results[t] /\ q = raised[t] /\ l = Len(run[t])
          BY <3>1, Zenon
        <4>2. /\ r + q + l = (r + 1) + q + (l - 1)
              /\ r + q + l = r + (q + 1) + (l - 1)
          OBVIOUS
        <4>3. \/ Len(run'[t]) = l /\ results'[t] = r /\ raised'[t] = q
              \/ Len(run'[t]) = l - 1 /\ results'[t] = r + 1 /\ raised'[t] = q
              \/ Len(run'[t]) = l - 1 /\ results'[t] = r /\ raised'[t] = q + 1
          BY <3>4, <4>1, Zenon
        <4>4. results'[t] + raised'[t] + Len(run'[t]) = r + q + l
          BY <4>2, <4>3, Zenon
        <4> QED
          BY <4>1, <4>4, Zenon
      <3>6. Load(t)' = results'[t] + raised'[t] + Len(run'[t]) + Cardinality(Readers(t)) + Listed(t)
        BY <2>1 DEF Load
      <3>7. Load(t)' = Load(t)
        BY <3>5, <3>6 DEF Load
      <3>8. results'[t] > 0 \/ raised'[t] > 0 \/ run'[t] # <<>>
        BY <3>1, <3>2, <3>4
      <3> QED
        BY <1>1, <3>3, <3>7, <3>8 DEF FiringInv, Accounted
    <2> QED
      BY <2>2, <2>3
  <1> QED
    BY <1>2, <1>3 DEF FiringInv

\* A death takes every reader and every firing along.
LEMMA CrashKeepsFirings ==
  ASSUME TasksTypeOK, FiringInv, Crash
  PROVE  FiringInv'
  <1>1. /\ deaths' # 0 /\ due'.rows = <<>> /\ due'.pc = "idle"
        /\ \A o \in Ops : op'[o] = Idle
        /\ \A t \in Tasks : run'[t] = <<>>
        /\ UNCHANGED <<task, results, raised>>
    BY DEF Crash, TasksTypeOK, NoRows
  <1>2. ListedOnce'
    BY <1>1 DEF ListedOnce
  <1>3. ASSUME NEW t \in Tasks PROVE Accounted(t)'
    <2>1. /\ IsFiniteSet(Readers(t)) /\ Cardinality(Readers(t)) \in Nat /\ Listed(t) \in Nat
          /\ results[t] \in Nat /\ raised[t] \in Nat /\ Len(run[t]) \in Nat /\ Cardinality(Ops) \in Nat
      BY LoadType
    <2>2. Readers(t)' = {} /\ Listed(t)' = 0 /\ ~AboutToSpawn(t)'
      BY <1>1 DEF Readers, Listed, AboutToSpawn, Idle
    <2>3. Cardinality(Readers(t)') = 0
      BY <2>2, FS_EmptySet
    <2>4. Load(t)' = results[t] + raised[t]
      BY <1>1, <2>1, <2>2, <2>3 DEF Load
    <2>5. Load(t)' <= Load(t)
      BY <2>1, <2>4 DEF Load
    <2>6. Load(t) \in Nat /\ Load(t)' \in Nat
      BY <2>1, <2>4 DEF Load
    <2> QED
      BY <1>1, <2>1, <2>2, <2>5, <2>6 DEF FiringInv, Accounted
  <1> QED
    BY <1>2, <1>3 DEF FiringInv

\* The handler that writes a task begins with its waiter.
LEMMA CreateKeepsFirings ==
  ASSUME TasksTypeOK, FiringInv, NEW o \in Ops, NEW u \in Tasks, Create(o, u)
  PROVE  FiringInv'
  <1>1. op[o] = Idle /\ task[u].state = "none" /\ UNCHANGED <<due, run, results, raised, deaths>>
    BY DEF Create
  <1>2. PICK time \in Time : task' = [task EXCEPT ![u].state = "armed", ![u].time = time]
    BY DEF Create
  <1>3. task'[u].state = "armed" /\ \A t \in Tasks \ {u} : task'[t] = task[t]
    BY <1>2, RowTypes
  <1>4. \A t \in Tasks : task'[t].state = "fired" <=> task[t].state = "fired"
    BY <1>1, <1>3
  <1>5. op[o] \in Handlers /\ op[o].pc = "idle"
    BY <1>1 DEF Handlers, Idle
  <1> DEFINE h == [pc |-> "wait", t |-> u]
  <1>6. h \in Handlers /\ h.pc = "wait"
    BY DEF Handlers
  <1>7. op' = [op EXCEPT ![o] = h] \/ op' = [op EXCEPT ![o] = op[o]]
    BY DEF Create, GoOn, TasksTypeOK
  <1> HIDE DEF h
  <1>8. CASE op' = [op EXCEPT ![o] = h]
    BY <1>1, <1>4, <1>5, <1>6, <1>8, HandlerWaits
  <1>9. CASE op' = [op EXCEPT ![o] = op[o]]
    <2>1. PICK g \in Handlers : g = op[o]
      BY <1>5
    <2> QED
      BY <1>1, <1>4, <1>5, <1>9, <2>1, HandlerWaits
  <1> QED
    BY <1>7, <1>8, <1>9

LEMMA FiringStart == TasksInit => FiringInv
  <1> SUFFICES ASSUME TasksInit PROVE FiringInv
    OBVIOUS
  <1>1. ListedOnce
    BY DEF TasksInit, ListedOnce, NoRows
  <1>2. ASSUME NEW t \in Tasks PROVE Accounted(t)
    BY DEF TasksInit, Accounted, AboutToSpawn, Idle, NoRows
  <1> QED
    BY <1>1, <1>2 DEF FiringInv

LEMMA FiringStep ==
  ASSUME TasksTypeOK, FiringInv, [TasksNext]_vars
  PROVE  FiringInv'
  <1>1. ASSUME UNCHANGED <<op, due, run, results, raised, deaths>>,
               \A t \in Tasks : task'[t].state = task[t].state
        PROVE  FiringInv'
    <2>1. ListedOnce'
      BY <1>1 DEF FiringInv, ListedOnce
    <2>2. ASSUME NEW t \in Tasks PROVE Accounted(t)'
      <3>1. Readers(t)' = Readers(t) /\ Listed(t)' = Listed(t) /\ (AboutToSpawn(t)' <=> AboutToSpawn(t))
        BY <1>1 DEF Readers, Listed, AboutToSpawn
      <3> QED
        BY <1>1, <3>1, Unmoved DEF FiringInv
    <2> QED
      BY <2>1, <2>2 DEF FiringInv
  <1>2. CASE UNCHANGED vars
    BY <1>1, <1>2 DEF vars
  <1>3. ASSUME NEW o \in Ops, OpStep(o) PROVE FiringInv'
    <2>1. CASE AddWaiter(o)
      <3>1. /\ op[o].pc = "wait" /\ op' = [op EXCEPT ![o] = Idle]
            /\ UNCHANGED <<task, due, run, results, raised, deaths>>
        BY <2>1 DEF AddWaiter
      <3>2. Idle \in Handlers /\ Idle.pc = "idle"
        BY DEF Handlers, Idle
      <3> QED
        BY <3>1, <3>2, HandlerWaits
    <2> QED
      BY <1>3, <2>1, ReadKeepsFirings, MarkKeepsFirings, SpawnKeepsFirings, PopRaisesKeepsFirings
      DEF OpStep
  <1>4. ASSUME NEW o \in Ops, MatchEvent(o) PROVE FiringInv'
    <2>1. PICK t \in Tasks : op' = [op EXCEPT ![o] = [pc |-> "read", t |-> t]]
      BY <1>4 DEF MatchEvent, GoOn, TasksTypeOK
    <2>2. op[o].pc = "idle" /\ UNCHANGED <<task, due, run, results, raised, deaths>>
      BY <1>4 DEF MatchEvent, Idle
    <2> DEFINE h == [pc |-> "read", t |-> t]
    <2>3. op' = [op EXCEPT ![o] = h]
      BY <2>1
    <2>4. h \in Handlers /\ h.pc = "read"
      BY DEF Handlers
    <2> HIDE DEF h
    <2> QED
      BY <2>2, <2>3, <2>4, HandlerWaits
  <1>5. ASSUME NEW o \in Ops, NEW t \in Tasks, FireNow(o, t) PROVE FiringInv'
    <2> DEFINE h == [pc |-> "read", t |-> t]
    <2>1. op' = [op EXCEPT ![o] = h] /\ op[o].pc = "idle" /\ UNCHANGED <<task, due, run, results, raised, deaths>>
      BY <1>5 DEF FireNow, GoOn, Idle
    <2>2. h \in Handlers /\ h.pc = "read"
      BY DEF Handlers
    <2> HIDE DEF h
    <2> QED
      BY <2>1, <2>2, HandlerWaits
  <1>6. CASE ListAhead
    BY <1>1, <1>6 DEF ListAhead
  <1>7. ASSUME NEW t \in Tasks, PassTime(t) PROVE FiringInv'
    BY <1>1, <1>7, RowTypes DEF PassTime
  <1>8. ASSUME NEW t \in Tasks, PrewakeStep(t) PROVE FiringInv'
    <2>1. CASE StartPrewake(t)
      BY <1>1, <2>1 DEF StartPrewake, TasksTypeOK
    <2>2. CASE LookAtTarget(t)
      BY <1>1, <2>2 DEF LookAtTarget
    <2>3. CASE PrewakeEnds(t)
      BY <1>1, <2>3 DEF PrewakeEnds
    <2> QED
      BY <1>8, <2>1, <2>2, <2>3 DEF PrewakeStep
  <1>9. CASE Start
    BY <1>1, <1>9 DEF Start
  <1>10. CASE TasksNext
    BY <1>3, <1>4, <1>5, <1>6, <1>7, <1>8, <1>9, <1>10, CreateKeepsFirings, ListKeepsFirings,
       MarkDueKeepsFirings, SpawnDueKeepsFirings, PopDueRaisesKeepsFirings, RunKeepsFirings, CrashKeepsFirings
       DEF TasksNext, LoopStep
  <1> QED
    BY <1>2, <1>10

LEMMA FiringBound ==
  ASSUME TasksTypeOK, FiringInv
  PROVE  FiringsAccounted
  <1> SUFFICES ASSUME NEW t \in Tasks
               PROVE  /\ task[t].state = "fired" /\ deaths = 0
                           => results[t] > 0 \/ raised[t] > 0 \/ run[t] # <<>> \/ AboutToSpawn(t)
                      /\ Firings(t) <= Cardinality(Ops) + 1
    BY DEF FiringsAccounted
  <1> DEFINE S == {o \in Ops : op[o] = [pc |-> "spawn", t |-> t]}
             n == IF due.pc = "spawn" /\ Head(due.rows) = t THEN 1 ELSE 0
  <1>1. /\ IsFiniteSet(Readers(t)) /\ Cardinality(Readers(t)) \in Nat /\ Cardinality(Ops) \in Nat
        /\ Listed(t) \in {0, 1} /\ results[t] \in Nat /\ raised[t] \in Nat
        /\ run[t] \in Seq(Phase) /\ Len(run[t]) \in Nat
    BY LoadType
  <1>2. S \subseteq Readers(t)
    BY DEF Readers
  <1>3. Cardinality(S) <= Cardinality(Readers(t)) /\ Cardinality(S) \in Nat
    BY <1>1, <1>2, FS_Subset, FS_CardinalityType
  <1>4. n <= Listed(t) /\ n \in {0, 1}
    <2>1. CASE due.pc = "spawn" /\ Head(due.rows) = t
      <3>1. due.rows \in Seq(Tasks) /\ due.rows # <<>>
        BY <2>1 DEF TasksTypeOK
      <3>2. 1 \in 1 .. Len(due.rows) /\ due.rows[1] = t
        BY <2>1, <3>1
      <3>3. Listed(t) = 1
        BY <3>2 DEF Listed
      <3> QED
        BY <2>1, <3>3
    <2>2. CASE ~(due.pc = "spawn" /\ Head(due.rows) = t)
      BY <1>1, <2>2
    <2> QED
      BY <2>1, <2>2
  <1>5. Firings(t) = results[t] + raised[t] + Len(run[t]) + Cardinality(S) + n
    BY DEF Firings
  <1> HIDE DEF S, n
  <1>6. Firings(t) <= Cardinality(Ops) + 1
    <2>1. CASE task[t].state = "fired"
      <3>1. results[t] + raised[t] + Len(run[t]) + Cardinality(Readers(t)) + Listed(t) <= Cardinality(Ops) + 1
        BY <2>1 DEF FiringInv, Accounted, Load
      <3> QED
        BY <1>1, <1>3, <1>4, <1>5, <3>1
    <2>2. CASE task[t].state # "fired"
      <3>1. results[t] = 0 /\ raised[t] = 0 /\ Len(run[t]) = 0 /\ ~AboutToSpawn(t)
        BY <2>2 DEF FiringInv, Accounted
      <3>2. S = {} /\ n = 0
        BY <3>1 DEF AboutToSpawn, S, n
      <3>3. Cardinality(S) = 0
        BY <3>2, FS_EmptySet
      <3> QED
        BY <1>1, <1>5, <3>1, <3>2, <3>3
    <2> QED
      BY <2>1, <2>2
  <1>7. task[t].state = "fired" /\ deaths = 0
          => results[t] > 0 \/ raised[t] > 0 \/ run[t] # <<>> \/ AboutToSpawn(t)
    BY DEF FiringInv, Accounted
  <1> QED
    BY <1>6, <1>7

\* A task marked as fired has been answered, is being fired or is about to be,
\* unless a firing of it has raised or the service has died; and whatever the
\* commands, the events and the exceptions do, it is fired at most once per
\* handler and once by fire_loop.
THEOREM TasksFiringsAccounted == TasksSpec => []FiringsAccounted
  <1>1. TasksInit => TasksTypeOK /\ FiringInv
    BY TypeStart, FiringStart
  <1>2. TasksTypeOK /\ FiringInv /\ [TasksNext]_vars => (TasksTypeOK /\ FiringInv)'
    BY TypeStep, FiringStep
  <1>3. TasksTypeOK /\ FiringInv => FiringsAccounted
    BY FiringBound
  <1> QED
    BY <1>1, <1>2, <1>3, PTL DEF TasksSpec
=============================================================================
