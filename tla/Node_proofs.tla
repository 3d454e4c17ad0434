----------------------------- MODULE Node_proofs -----------------------------
(* Proofs about two parts of a node that share no state: one slot of its      *)
(* supervisor, and its part in the replication of a package.                  *)
EXTENDS Supervisor, Replication, TLAPS, FiniteSetTheorems

-----------------------------------------------------------------------------
(* Proofs about one slot of the supervisor: its types for any callers, and,  *)
(* for callers that come one at a time, that a wanted slot has one watcher.  *)

Places == {"idle", "spawned", "exit", "join", "joining", "start"}
Calling == [pc : Places, w : Watchers \cup {None}, again : BOOLEAN]
WatcherPlaces == {"none", "loop", "spawn", "watch", "sleep", "done"}
ProcessStates == {"none", "alive", "ending", "crashed", "fenced"}

\* Types of the slot with all of a call, and a watcher at work has a process.
SlotTypes ==
    /\ desired \in BOOLEAN
    /\ task \in Watchers \cup {None} /\ proc \in Watchers \cup {None}
    /\ status \in {"running", "restarting", "stopped"}
    /\ watcher \in [Watchers -> WatcherPlaces]
    /\ process \in [Watchers -> ProcessStates]
    /\ caller \in [Callers -> Calling]
    /\ \A w \in Watchers : watcher[w] = "watch" => process[w] # "none"
    /\ \A c \in Callers : caller[c].pc \in {"exit", "joining"} => caller[c].w \in Watchers

-----------------------------------------------------------------------------
(* Types. *)

LEMMA GotoTypes ==
  ASSUME SlotTypes, NEW c \in Callers, NEW pc \in Places, NEW w \in Watchers \cup {None},
         Goto(c, pc, w), pc \in {"exit", "joining"} => w \in Watchers
  PROVE  /\ caller' \in [Callers -> Calling]
         /\ caller'[c].pc = pc /\ caller'[c].w = w
         /\ \A d \in Callers \ {c} : caller'[d] = caller[d]
         /\ \A d \in Callers : caller'[d].pc \in {"exit", "joining"} => caller'[d].w \in Watchers
  <1>1. caller[c] \in Calling /\ caller \in [Callers -> Calling]
    BY DEF SlotTypes
  <1>2. [caller[c] EXCEPT !.pc = pc, !.w = w] \in Calling
    BY <1>1 DEF Calling
  <1>3. caller' = [caller EXCEPT ![c] = [caller[c] EXCEPT !.pc = pc, !.w = w]]
    BY <1>1 DEF Goto
  <1>4. /\ caller' \in [Callers -> Calling]
        /\ caller'[c].pc = pc /\ caller'[c].w = w
        /\ \A d \in Callers \ {c} : caller'[d] = caller[d]
    BY <1>1, <1>2, <1>3 DEF Calling
  <1> QED
    BY <1>4 DEF SlotTypes

LEMMA IdleTypes ==
  ASSUME SlotTypes, NEW c \in Callers, caller' = [caller EXCEPT ![c] = Idle]
  PROVE  /\ caller' \in [Callers -> Calling]
         /\ caller'[c] = Idle /\ Idle.pc = "idle"
         /\ \A d \in Callers \ {c} : caller'[d] = caller[d]
         /\ \A d \in Callers : caller'[d].pc \in {"exit", "joining"} => caller'[d].w \in Watchers
  <1>1. Idle \in Calling /\ Idle.pc = "idle"
    BY DEF Idle, Calling, Places
  <1> QED
    BY <1>1 DEF SlotTypes

LEMMA EndTypes ==
  ASSUME SlotTypes, NEW c \in Callers, End(c)
  PROVE  /\ caller' \in [Callers -> Calling] /\ status' = "stopped"
         /\ caller'[c].pc \in {"idle", "start"}
         /\ \A d \in Callers : caller'[d].pc \in {"exit", "joining"} => caller'[d].w \in Watchers
  <1>1. CASE caller[c].again
    BY <1>1, GotoTypes DEF End, Places
  <1>2. CASE ~caller[c].again
    BY <1>2, IdleTypes DEF End
  <1> QED
    BY <1>1, <1>2

LEMMA NewWatcherTypes ==
  ASSUME SlotTypes, NewWatcher
  PROVE  /\ desired' = TRUE /\ task' \in FreeWatchers /\ task' \in Watchers
         /\ watcher' = [watcher EXCEPT ![task'] = "loop"]
         /\ watcher' \in [Watchers -> WatcherPlaces]
         /\ process' \in [Watchers -> ProcessStates]
         /\ \A w \in Watchers : watcher'[w] = "watch" => process'[w] # "none"
  <1>1. PICK w \in FreeWatchers : /\ desired' = TRUE /\ task' = w
                                  /\ watcher' = [watcher EXCEPT ![w] = "loop"]
                                  /\ process' = [process EXCEPT ![w] = "none"]
    BY DEF NewWatcher
  <1>2. w \in Watchers
    BY DEF FreeWatchers
  <1> QED
    BY <1>1, <1>2 DEF SlotTypes, WatcherPlaces, ProcessStates

LEMMA MoveTypes ==
  ASSUME SlotTypes, NEW w \in Watchers, NEW pc \in WatcherPlaces, Move(w, pc)
  PROVE  /\ watcher' \in [Watchers -> WatcherPlaces] /\ watcher'[w] = pc
         /\ \A v \in Watchers \ {w} : watcher'[v] = watcher[v]
  BY DEF SlotTypes, Move

LEMMA SlotStart == SupervisorInit => SlotTypes
  <1> SUFFICES ASSUME SupervisorInit PROVE SlotTypes
    OBVIOUS
  <1>1. Idle \in Calling /\ Idle.pc = "idle"
    BY DEF Idle, Calling, Places
  <1>2. /\ caller \in [Callers -> Calling]
        /\ \A c \in Callers : caller[c].pc \notin {"exit", "joining"}
    BY <1>1 DEF SupervisorInit
  <1>3. watcher \in [Watchers -> WatcherPlaces] /\ process \in [Watchers -> ProcessStates]
    BY DEF SupervisorInit, WatcherPlaces, ProcessStates
  <1>4. desired \in BOOLEAN
    BY DEF SupervisorInit
  <1> QED
    BY <1>2, <1>3, <1>4 DEF SupervisorInit, SlotTypes

LEMMA SlotCalls ==
  ASSUME SlotTypes, NEW c \in Callers,
         CallStart(c) \/ (\E again \in BOOLEAN : CallStop(c, again)) \/ CallStep(c)
  PROVE  SlotTypes'
  <1>1. CASE CallStart(c)
    BY <1>1, NewWatcherTypes, GotoTypes DEF CallStart, SlotTypes, Places
  <1>2. ASSUME NEW again \in BOOLEAN, CallStop(c, again)
        PROVE  SlotTypes'
    <2>1. CASE proc # None /\ process[proc] \in Running
      <3>1. proc \in Watchers /\ caller' = [caller EXCEPT ![c] = [pc |-> "exit", w |-> proc, again |-> again]]
            /\ process' = [process EXCEPT ![proc] = "ending"] /\ UNCHANGED <<task, proc, status, watcher>>
            /\ desired' = FALSE
        BY <1>2, <2>1 DEF CallStop, SlotTypes
      <3>2. [pc |-> "exit", w |-> proc, again |-> again] \in Calling
        BY <3>1 DEF Calling, Places
      <3>3. caller' \in [Callers -> Calling]
            /\ \A d \in Callers : caller'[d].pc \in {"exit", "joining"} => caller'[d].w \in Watchers
        BY <3>1, <3>2 DEF SlotTypes
      <3>4. process' \in [Watchers -> ProcessStates]
            /\ \A w \in Watchers : watcher'[w] = "watch" => process'[w] # "none"
        BY <3>1 DEF SlotTypes, ProcessStates
      <3> QED
        BY <3>1, <3>3, <3>4 DEF SlotTypes
    <2>2. CASE ~(proc # None /\ process[proc] \in Running)
      <3>1. /\ caller' = [caller EXCEPT ![c] = [pc |-> "join", w |-> None, again |-> again]]
            /\ desired' = FALSE /\ UNCHANGED <<task, proc, status, watcher, process>>
        BY <1>2, <2>2 DEF CallStop
      <3>2. [pc |-> "join", w |-> None, again |-> again] \in Calling
        BY DEF Calling, Places
      <3>3. caller' \in [Callers -> Calling]
            /\ \A d \in Callers : caller'[d].pc \in {"exit", "joining"} => caller'[d].w \in Watchers
        BY <3>1, <3>2 DEF SlotTypes
      <3> QED
        BY <3>1, <3>3 DEF SlotTypes
    <2> QED
      BY <2>1, <2>2
  <1>3. CASE StartReturns(c)
    BY <1>3, IdleTypes DEF StartReturns, SlotTypes
  <1>4. CASE SeeExit(c)
    BY <1>4, GotoTypes DEF SeeExit, SlotTypes, Places
  <1>5. CASE TakeTask(c)
    <2>1. CASE task = None
      BY <1>5, <2>1, EndTypes DEF TakeTask, SlotTypes
    <2>2. CASE task # None
      BY <1>5, <2>2, GotoTypes DEF TakeTask, SlotTypes, Places
    <2> QED
      BY <2>1, <2>2
  <1>6. CASE Joined(c)
    BY <1>6, EndTypes DEF Joined, SlotTypes
  <1>7. CASE JoinTimeout(c)
    <2>1. caller[c].w \in Watchers
      BY <1>7 DEF JoinTimeout, SlotTypes
    <2>2. /\ watcher' \in [Watchers -> WatcherPlaces]
          /\ \A w \in Watchers : watcher'[w] = "watch" => process'[w] # "none"
      BY <1>7, <2>1 DEF JoinTimeout, SlotTypes, WatcherPlaces
    <2> QED
      BY <1>7, <2>2, EndTypes DEF JoinTimeout, SlotTypes
  <1>8. CASE StartAgain(c)
    <2>1. CASE desired
      BY <1>8, <2>1, IdleTypes DEF StartAgain, SlotTypes
    <2>2. CASE ~desired
      BY <1>8, <2>2, NewWatcherTypes, GotoTypes DEF StartAgain, SlotTypes, Places
    <2> QED
      BY <2>1, <2>2
  <1> QED
    BY <1>1, <1>2, <1>3, <1>4, <1>5, <1>6, <1>7, <1>8 DEF CallStep

LEMMA SlotWatchers ==
  ASSUME SlotTypes, NEW w \in Watchers, WatcherStep(w) \/ ProcessEnds(w)
  PROVE  SlotTypes'
  <1>1. CASE Loop(w)
    BY <1>1 DEF Loop, Move, SlotTypes, WatcherPlaces
  <1>2. CASE Spawn(w)
    BY <1>2 DEF Spawn, Move, SlotTypes, WatcherPlaces, ProcessStates
  <1>3. CASE SpawnFails(w)
    BY <1>3 DEF SpawnFails, Move, SlotTypes, WatcherPlaces
  <1>4. CASE Watch(w)
    BY <1>4 DEF Watch, Move, SlotTypes, WatcherPlaces
  <1>5. CASE Wake(w)
    BY <1>5 DEF Wake, Move, SlotTypes, WatcherPlaces
  <1>6. CASE ProcessEnds(w)
    BY <1>6 DEF ProcessEnds, SlotTypes, ProcessStates
  <1> QED
    BY <1>1, <1>2, <1>3, <1>4, <1>5, <1>6 DEF WatcherStep

LEMMA SlotStep ==
  ASSUME SlotTypes, [SupervisorNext]_slotVars
  PROVE  SlotTypes'
  <1>1. CASE UNCHANGED slotVars
    BY <1>1 DEF slotVars, SlotTypes
  <1> QED
    BY <1>1, SlotCalls, SlotWatchers DEF SupervisorNext

LEMMA SlotInduction == SupervisorSpec => []SlotTypes
  BY SlotStart, SlotStep, PTL DEF SupervisorSpec

\* The slot keeps its types, for any callers at any moment: a watcher that
\* watches has spawned a process.
THEOREM SupervisorTypeCorrect == SupervisorSpec => []SupervisorTypeOK
  <1>1. SlotTypes => SupervisorTypeOK
    BY DEF SlotTypes, SupervisorTypeOK, Calling, Places, WatcherPlaces, ProcessStates
  <1> QED
    BY <1>1, SlotInduction, PTL

-----------------------------------------------------------------------------
(* A wanted slot has one watcher, if the calls come one at a time.          *)

\* What a call in its place leaves of the watchers: none but the one of task,
\* or while it is joined the one the call has taken.
Accounted(k) ==
    /\ k.pc \in {"idle", "spawned"} => /\ Watching \subseteq {task}
                                       /\ desired => task \in Watching
                                       /\ ~desired => Watching = {}
    /\ k.pc \in {"exit", "join"} => ~desired /\ Watching \subseteq {task}
    /\ k.pc = "joining" => ~desired /\ task = None /\ Watching \subseteq {k.w}
    /\ k.pc = "start" => ~desired /\ Watching = {}

\* A watcher that goes on, or ends.
LEMMA WatchingMoves ==
  ASSUME SlotTypes, NEW w \in Watchers, NEW pc \in WatcherPlaces, Move(w, pc), watcher[w] \notin Over
  PROVE  Watching' = IF pc \in Over THEN Watching \ {w} ELSE Watching
  BY MoveTypes DEF Watching

LEMMA NewWatching ==
  ASSUME SlotTypes, NewWatcher, Watching = {}
  PROVE  Watching' = {task'} /\ desired' = TRUE /\ task' # None
  <1>1. PICK w \in Watchers : /\ desired' = TRUE /\ task' = w
                              /\ watcher' = [watcher EXCEPT ![w] = "loop"]
    BY DEF NewWatcher, FreeWatchers
  <1>2. watcher'[w] = "loop" /\ \A v \in Watchers \ {w} : watcher'[v] = watcher[v]
    BY <1>1 DEF SlotTypes
  <1>3. w \in Watching' /\ \A v \in Watchers \ {w} : v \notin Watching'
    BY <1>2 DEF Watching, Over
  <1>4. Watching' = {w}
    BY <1>3 DEF Watching
  <1> QED
    BY <1>1, <1>4, SupervisorAssumption

LEMMA CallAccounts ==
  ASSUME SlotTypes, NEW c \in Callers, Accounted(caller[c]),
         CallStart(c) \/ (\E again \in BOOLEAN : CallStop(c, again)) \/ CallStep(c)
  PROVE  Accounted(caller[c])'
  <1>0. caller[c] \in Calling
    BY DEF SlotTypes
  <1>1. CASE CallStart(c)
    <2>1. caller[c].pc = "idle" /\ Watching = {}
      BY <1>1 DEF CallStart, Idle, Accounted
    <2>2. Watching' = {task'} /\ desired' = TRUE
      BY <1>1, <2>1, NewWatching DEF CallStart
    <2>3. caller'[c].pc = "spawned"
      BY <1>1, GotoTypes DEF CallStart, Places
    <2> QED
      BY <2>2, <2>3 DEF Accounted
  <1>2. ASSUME NEW again \in BOOLEAN, CallStop(c, again)
        PROVE  Accounted(caller[c])'
    <2>1. caller[c].pc = "idle" /\ Watching \subseteq {task}
      BY <1>2 DEF CallStop, Idle, Accounted
    <2>2. caller'[c].pc \in {"exit", "join"}
      BY <1>2 DEF CallStop, SlotTypes
    <2>3. ~desired' /\ task' = task /\ Watching' = Watching
      BY <1>2 DEF CallStop, Watching
    <2> QED
      BY <2>1, <2>2, <2>3 DEF Accounted
  <1>3. CASE StartReturns(c)
    <2>1. caller[c].pc = "spawned" /\ caller'[c].pc = "idle"
      BY <1>3, IdleTypes DEF StartReturns
    <2>2. Watching' = Watching /\ UNCHANGED <<desired, task>>
      BY <1>3 DEF StartReturns, Watching
    <2> QED
      BY <2>1, <2>2 DEF Accounted
  <1>4. CASE SeeExit(c)
    <2>1. caller[c].pc = "exit" /\ caller'[c].pc = "join"
      BY <1>4, GotoTypes DEF SeeExit, Places
    <2>2. Watching' = Watching /\ UNCHANGED <<desired, task>>
      BY <1>4 DEF SeeExit, Watching
    <2> QED
      BY <2>1, <2>2 DEF Accounted
  <1>5. CASE TakeTask(c)
    <2>1. caller[c].pc = "join" /\ ~desired /\ Watching \subseteq {task}
      BY <1>5 DEF TakeTask, Accounted
    <2>2. Watching' = Watching /\ UNCHANGED desired /\ Watching \subseteq Watchers
      BY <1>5 DEF TakeTask, Watching
    <2>3. CASE task = None
      <3>1. Watching = {}
        BY <2>1, <2>2, <2>3, SupervisorAssumption
      <3>2. caller'[c].pc \in {"idle", "start"} /\ task' = task
        BY <1>5, <2>3, EndTypes DEF TakeTask
      <3> QED
        BY <2>1, <2>2, <3>1, <3>2 DEF Accounted
    <2>4. CASE task # None
      <3>1. caller'[c].pc = "joining" /\ caller'[c].w = task /\ task' = None
        BY <1>5, <2>4, GotoTypes DEF TakeTask, SlotTypes, Places
      <3> QED
        BY <2>1, <2>2, <3>1 DEF Accounted
    <2> QED
      BY <2>3, <2>4
  <1>6. CASE Joined(c)
    <2>1. ~desired /\ Watching \subseteq {caller[c].w} /\ caller[c].w \notin Watching
      BY <1>6 DEF Joined, Accounted, Watching, Over
    <2>2. Watching' = {} /\ ~desired'
      BY <1>6, <2>1 DEF Joined, Watching
    <2>3. caller'[c].pc \in {"idle", "start"}
      BY <1>6, EndTypes DEF Joined
    <2> QED
      BY <2>2, <2>3 DEF Accounted
  <1>7. CASE JoinTimeout(c)
    <2>1. ~desired /\ Watching \subseteq {caller[c].w} /\ caller[c].w \in Watchers
      BY <1>7 DEF JoinTimeout, Accounted, SlotTypes
    <2>2. Watching' = {} /\ ~desired'
      BY <1>7, <2>1 DEF JoinTimeout, Watching, Over, SlotTypes
    <2>3. caller'[c].pc \in {"idle", "start"}
      BY <1>7, EndTypes DEF JoinTimeout
    <2> QED
      BY <2>2, <2>3 DEF Accounted
  <1>8. CASE StartAgain(c)
    <2>1. caller[c].pc = "start" /\ ~desired /\ Watching = {}
      BY <1>8 DEF StartAgain, Accounted
    <2>2. NewWatcher /\ Goto(c, "spawned", None)
      BY <1>8, <2>1 DEF StartAgain
    <2>3. Watching' = {task'} /\ desired' = TRUE
      BY <2>1, <2>2, NewWatching
    <2>4. caller'[c].pc = "spawned"
      BY <2>2, GotoTypes DEF Places
    <2> QED
      BY <2>3, <2>4 DEF Accounted
  <1> QED
    BY <1>1, <1>2, <1>3, <1>4, <1>5, <1>6, <1>7, <1>8 DEF CallStep

LEMMA WatcherAccounts ==
  ASSUME SlotTypes, NEW c \in Callers, Accounted(caller[c]),
         NEW w \in Watchers, WatcherStep(w) \/ ProcessEnds(w)
  PROVE  Accounted(caller[c])'
  <1>1. UNCHANGED <<caller, task>>
    BY DEF WatcherStep, Loop, Spawn, SpawnFails, Watch, Wake, ProcessEnds
  <1>2. ASSUME Watching' = Watching, desired' = desired
        PROVE  Accounted(caller[c])'
    BY <1>1, <1>2 DEF Accounted
  <1>3. ASSUME ~desired, ~desired', Watching' \subseteq Watching
        PROVE  Accounted(caller[c])'
    BY <1>1, <1>3 DEF Accounted
  <1>4. CASE Loop(w)
    <2>1. watcher[w] = "loop" /\ desired' = desired
      BY <1>4 DEF Loop
    <2>2. CASE desired
      <3>1. Watching' = Watching
        BY <1>4, <2>1, <2>2, WatchingMoves DEF Loop, WatcherPlaces, Over
      <3> QED
        BY <1>2, <2>1, <3>1
    <2>3. CASE ~desired
      <3>1. Watching' \subseteq Watching
        BY <1>4, <2>1, <2>3, WatchingMoves DEF Loop, WatcherPlaces, Over
      <3> QED
        BY <1>3, <2>1, <2>3, <3>1
    <2> QED
      BY <2>2, <2>3
  <1>5. CASE Spawn(w)
    BY <1>2, <1>5, WatchingMoves DEF Spawn, WatcherPlaces, Over
  <1>6. CASE SpawnFails(w)
    BY <1>2, <1>6, WatchingMoves DEF SpawnFails, WatcherPlaces, Over
  <1>7. CASE Watch(w)
    <2>1. watcher[w] = "watch" /\ w \in Watching
      BY <1>7 DEF Watch, Watching, Over
    <2>2. CASE ~desired
      <3>1. Watching' \subseteq Watching /\ ~desired'
        BY <1>7, <2>1, <2>2, WatchingMoves DEF Watch, WatcherPlaces, Over
      <3> QED
        BY <1>3, <2>2, <3>1
    <2>3. CASE desired /\ process[w] = "crashed"
      <3>1. Watching' = Watching /\ desired' = desired
        BY <1>7, <2>1, <2>3, WatchingMoves DEF Watch, WatcherPlaces, Over
      <3> QED
        BY <1>2, <3>1
    <2>4. CASE desired /\ process[w] = "fenced"
      <3>1. Watching' = Watching \ {w} /\ ~desired'
        BY <1>7, <2>1, <2>4, WatchingMoves DEF Watch, WatcherPlaces, Over
      <3>2. caller[c] \in Calling
        BY DEF SlotTypes
      <3>3. caller[c].pc \in {"idle", "spawned"} /\ Watching \subseteq {task}
        BY <2>4, <3>2 DEF Accounted, Calling, Places
      <3>4. Watching' = {}
        BY <2>1, <3>1, <3>3
      <3> QED
        BY <1>1, <3>1, <3>3, <3>4 DEF Accounted
    <2> QED
      BY <1>7, <2>2, <2>3, <2>4 DEF Watch
  <1>8. CASE Wake(w)
    BY <1>2, <1>8, WatchingMoves DEF Wake, WatcherPlaces, Over
  <1>9. CASE ProcessEnds(w)
    BY <1>2, <1>9 DEF ProcessEnds, Watching
  <1> QED
    BY <1>4, <1>5, <1>6, <1>7, <1>8, <1>9 DEF WatcherStep

\* When start(), stop() and restart() come one at a time, a wanted slot has one
\* watcher, the one the next stop() will wait for, in every state its watchers
\* and processes can be in, and however many of them there are.
THEOREM SupervisorWantedIsWatched ==
  ASSUME NEW c, Callers = {c}
  PROVE  SupervisorSpec => []WantedIsWatched
  <1>1. SupervisorInit => Accounted(caller[c])
    BY DEF SupervisorInit, Accounted, Watching, Over, Idle
  <1>2. SlotTypes /\ Accounted(caller[c]) /\ [SupervisorNext]_slotVars => Accounted(caller[c])'
    <2>1. CASE UNCHANGED slotVars
      BY <2>1 DEF slotVars, Accounted, Watching
    <2> QED
      BY <2>1, CallAccounts, WatcherAccounts DEF SupervisorNext
  <1>3. SlotTypes /\ Accounted(caller[c]) => WantedIsWatched
    <2> SUFFICES ASSUME SlotTypes, Accounted(caller[c]) PROVE WantedIsWatched
      OBVIOUS
    <2>1. caller[c] \in Calling
      BY DEF SlotTypes
    <2>2. \E x : Watching \subseteq {x}
      BY <2>1 DEF Accounted, Calling, Places
    <2>3. Cardinality(Watching) <= 1
      <3>1. PICK x : Watching \subseteq {x}
        BY <2>2
      <3>2. IsFiniteSet({x}) /\ Cardinality({x}) = 1
        BY FS_Singleton
      <3> QED
        BY <3>1, <3>2, FS_Subset
    <2>4. desired => Watching # {} /\ task \in Watching
      BY <2>1 DEF Accounted, Calling, Places
    <2> QED
      BY <2>3, <2>4 DEF WantedIsWatched
  <1> QED
    BY <1>1, <1>2, <1>3, SlotInduction, PTL DEF SupervisorSpec

-----------------------------------------------------------------------------
(* Proofs about the replication of packages, for any number of nodes, any  *)
(* clocks, any number of edits and any deaths: revisions stay comparable,  *)
(* although every node numbers its own edits, and no node goes back.       *)

\* No revision is the record that stands for none.
LEMMA MetaIsNotNone == \A m \in Meta : m # NoMeta /\ m.rev \in Nat /\ m.rev > 0
  BY DEF Meta, NoMeta

\* A node has a revision of its own that is at least as high as any in the
\* swarm that it has made; so the next one it makes is new.
RevBound == \A m \in Known : meta[m.origin] # NoMeta /\ m.rev <= meta[m.origin].rev

\* One node does not give a number out twice.
Unique == \A m, l \in Known : m.rev = l.rev /\ m.origin = l.origin => m = l

ReplicationInv == ReplicationTypeOK /\ RevBound /\ Unique

-----------------------------------------------------------------------------
(* Types.                                                                  *)

\* What an answer on its way is made of.
LEMMA PullType ==
  ASSUME ReplicationTypeOK, NEW n \in Nodes
  PROVE  /\ pull[n] # NoPull => pull[n].meta \in Meta /\ pull[n].content \in Nat
         /\ pull[n] = NoPull => pull[n].meta = NoMeta
  BY DEF ReplicationTypeOK, NoPull

\* The variables keep their types: an answer is never without a revision.
THEOREM ReplicationTypeCorrect == ReplicationSpec => []ReplicationTypeOK
  <1>1. ReplicationInit => ReplicationTypeOK
    BY ReplicationAssumption DEF ReplicationInit, ReplicationTypeOK, NoPull
  <1>2. ReplicationTypeOK /\ [ReplicationNext]_vars => ReplicationTypeOK'
    <2> SUFFICES ASSUME ReplicationTypeOK, [ReplicationNext]_vars PROVE ReplicationTypeOK'
      OBVIOUS
    <2> USE ReplicationAssumption DEF ReplicationTypeOK
    <2>0. CASE UNCHANGED vars
      BY <2>0 DEF vars
    <2> SUFFICES ASSUME NEW n \in Nodes,
          \/ Edit(n) \/ Refresh(n)
          \/ \E p \in Nodes : Pull(n, p)
          \/ Receive(n) \/ PullFails(n)
          \/ Crash(n) \/ CrashInApply(n) \/ Start(n)
        PROVE ReplicationTypeOK'
      BY <2>0 DEF ReplicationNext
    <2>1. CASE Edit(n)
      BY <2>1 DEF Edit
    <2>2. CASE Refresh(n)
      <3>1. PICK t \in Times : meta' = [meta EXCEPT ![n] =
              [rev |-> NextRev(meta[n]), hash |-> content[n], at |-> t, origin |-> n]]
        BY <2>2 DEF Refresh
      <3>2. NextRev(meta[n]) \in Nat \ {0}
        BY MetaIsNotNone DEF NextRev, NoMeta
      <3>3. [rev |-> NextRev(meta[n]), hash |-> content[n], at |-> t, origin |-> n] \in Meta
        BY <3>2 DEF Meta
      <3> QED
        BY <2>2, <3>1, <3>3 DEF Refresh
    <2>3. ASSUME NEW p \in Nodes, Pull(n, p) PROVE ReplicationTypeOK'
      <3>1. meta[p] \in Meta
        BY <2>3 DEF Pull, WinsOver
      <3> QED
        BY <2>3, <3>1 DEF Pull
    <2>4. CASE Receive(n)
      <3>1. CASE Apply(n)
        BY <3>1, PullType DEF Apply
      <3>2. CASE Refuse(n)
        BY <3>2 DEF Refuse
      <3> QED
        BY <2>4, <3>1, <3>2 DEF Receive
    <2>5. CASE PullFails(n)
      BY <2>5 DEF PullFails
    <2>6. CASE Crash(n)
      BY <2>6 DEF Crash, Dies
    <2>7. CASE CrashInApply(n)
      BY <2>7, PullType DEF CrashInApply, Dies
    <2>8. CASE Start(n)
      BY <2>8 DEF Start
    <2> QED
      BY <2>1, <2>2, <2>3, <2>4, <2>5, <2>6, <2>7, <2>8
  <1> QED
    BY <1>1, <1>2, PTL DEF ReplicationSpec

-----------------------------------------------------------------------------
(* Revisions.                                                              *)

\* A revision in the swarm is one a node has, or one on its way.
LEMMA KnownCases ==
  ASSUME NEW m \in Known
  PROVE  m # NoMeta /\ (\E n \in Nodes : m = meta[n] \/ m = pull[n].meta)
  BY DEF Known

\* Every revision in the swarm is one.
LEMMA KnownType ==
  ASSUME ReplicationTypeOK PROVE Known \subseteq Meta
  <1> SUFFICES ASSUME NEW m \in Known PROVE m \in Meta
    OBVIOUS
  <1>1. PICK n \in Nodes : m = meta[n] \/ m = pull[n].meta
    BY KnownCases
  <1>2. m # NoMeta
    BY KnownCases
  <1>3. meta[n] \in Meta \cup {NoMeta}
    BY DEF ReplicationTypeOK
  <1> QED
    BY <1>1, <1>2, <1>3, PullType

\* What a node makes of its own edit wins over what it had.
LEMMA RefreshWins ==
  ASSUME ReplicationTypeOK, NEW n \in Nodes, Refresh(n)
  PROVE  /\ meta'[n] \in Meta
         /\ meta'[n].origin = n
         /\ meta[n] # NoMeta => meta'[n].rev > meta[n].rev
         /\ WinsOver(meta'[n], meta[n])
         /\ \A o \in Nodes \ {n} : meta'[o] = meta[o]
  <1>1. PICK t \in Times : meta' = [meta EXCEPT ![n] =
          [rev |-> NextRev(meta[n]), hash |-> content[n], at |-> t, origin |-> n]]
    BY DEF Refresh
  <1>2. NextRev(meta[n]) \in Nat \ {0} /\ NextRev(meta[n]) > meta[n].rev
    BY MetaIsNotNone DEF NextRev, NoMeta, ReplicationTypeOK
  <1>3. meta'[n] = [rev |-> NextRev(meta[n]), hash |-> content[n], at |-> t, origin |-> n]
    BY <1>1 DEF ReplicationTypeOK
  <1>4. meta'[n] \in Meta
    BY <1>2, <1>3 DEF Meta, ReplicationTypeOK
  <1>5. meta'[n].rev > meta[n].rev /\ meta'[n].origin = n
    BY <1>2, <1>3
  <1>6. WinsOver(meta'[n], meta[n])
    BY <1>4, <1>5, MetaIsNotNone DEF WinsOver
  <1>7. \A o \in Nodes \ {n} : meta'[o] = meta[o]
    BY <1>1 DEF ReplicationTypeOK
  <1> QED
    BY <1>4, <1>5, <1>6, <1>7

\* Whatever a node takes from a peer or loses, no revision is made by it, and
\* the revisions of the nodes go up.
LEMMA NothingNew ==
  ASSUME ReplicationTypeOK, ReplicationTypeOK', ReplicationInv,
         Known' \subseteq Known,
         \A n \in Nodes : meta'[n] = meta[n] \/ WinsOver(meta'[n], meta[n])
  PROVE  RevBound' /\ Unique'
  <1>1. Unique'
    BY DEF ReplicationInv, Unique
  <1>2. ASSUME NEW m \in Known'
        PROVE  meta'[m.origin] # NoMeta /\ m.rev <= meta'[m.origin].rev
    <2>1. m \in Known /\ m \in Meta
      BY <1>2, KnownType
    <2>2. meta[m.origin] # NoMeta /\ m.rev <= meta[m.origin].rev
      BY <2>1 DEF ReplicationInv, RevBound
    <2>3. m.origin \in Nodes /\ m.rev \in Nat
      BY <2>1 DEF Meta
    <2>4. meta[m.origin] \in Meta
      BY <2>2, <2>3 DEF ReplicationTypeOK
    <2>5. CASE meta'[m.origin] = meta[m.origin]
      BY <2>2, <2>5
    <2>6. CASE WinsOver(meta'[m.origin], meta[m.origin])
      <3>1. meta'[m.origin] \in Meta
        BY <2>3, <2>6 DEF ReplicationTypeOK, WinsOver
      <3>2. meta'[m.origin].rev >= meta[m.origin].rev
        BY <2>2, <2>4, <2>6, <3>1, MetaIsNotNone DEF WinsOver
      <3> QED
        BY <2>2, <2>3, <2>4, <3>1, <3>2, MetaIsNotNone
    <2> QED
      BY <2>3, <2>5, <2>6
  <1> QED
    BY <1>1, <1>2 DEF RevBound

\* A step of the replication makes a revision only where an edit is noticed,
\* and never replaces one by another that loses to it.
LEMMA StepGoesUp ==
  ASSUME ReplicationTypeOK, [ReplicationNext]_vars
  PROVE  /\ \A n \in Nodes : meta'[n] = meta[n] \/ WinsOver(meta'[n], meta[n])
         /\ Known' \subseteq Known \/ \E n \in Nodes : Refresh(n)
  <1>0. CASE UNCHANGED vars
    BY <1>0 DEF vars, Known
  <1> SUFFICES ASSUME NEW n \in Nodes,
        \/ Edit(n) \/ Refresh(n)
        \/ \E p \in Nodes : Pull(n, p)
        \/ Receive(n) \/ PullFails(n)
        \/ Crash(n) \/ CrashInApply(n) \/ Start(n)
      PROVE  /\ \A o \in Nodes : meta'[o] = meta[o] \/ WinsOver(meta'[o], meta[o])
             /\ Known' \subseteq Known \/ \E o \in Nodes : Refresh(o)
    BY <1>0 DEF ReplicationNext
  <1>1. CASE Edit(n) \/ Start(n)
    BY <1>1 DEF Edit, Start, Known
  <1>2. CASE Refresh(n)
    BY <1>2, RefreshWins
  <1>3. ASSUME NEW p \in Nodes, Pull(n, p)
        PROVE  meta' = meta /\ Known' \subseteq Known
    <2>1. meta' = meta /\ \A o \in Nodes : pull'[o].meta \in {pull[o].meta, meta[p]}
      BY <1>3 DEF Pull, ReplicationTypeOK
    <2> QED
      BY <2>1 DEF Known
  <1>4. ASSUME NEW o \in Nodes, pull' = [pull EXCEPT ![o] = NoPull], meta' = meta
        PROVE  Known' \subseteq Known
    <2>1. \A x \in Nodes : pull'[x].meta \in {pull[x].meta, NoMeta}
      BY <1>4 DEF NoPull, ReplicationTypeOK
    <2> QED
      BY <1>4, <2>1 DEF Known
  <1>5. CASE Apply(n)
    <2>1. /\ \A x \in Nodes : pull'[x].meta \in {pull[x].meta, NoMeta}
          /\ \A x \in Nodes : meta'[x] = meta[x] \/ meta'[x] = pull[n].meta
          /\ meta'[n] = pull[n].meta
          /\ \A x \in Nodes \ {n} : meta'[x] = meta[x]
      BY <1>5 DEF Apply, NoPull, ReplicationTypeOK
    <2>2. WinsOver(meta'[n], meta[n])
      BY <1>5, <2>1 DEF Apply, Acceptable
    <2>3. Known' \subseteq Known
      BY <2>1 DEF Known
    <2> QED
      BY <2>1, <2>2, <2>3
  <1>6. CASE Refuse(n) \/ PullFails(n) \/ Crash(n) \/ CrashInApply(n)
    <2>1. pull' = [pull EXCEPT ![n] = NoPull] /\ meta' = meta
      BY <1>6 DEF Refuse, PullFails, Crash, CrashInApply, Dies
    <2> QED
      BY <2>1, <1>4
  <1> QED
    BY <1>1, <1>2, <1>3, <1>5, <1>6 DEF Receive

\* An edit that is noticed makes a revision higher than any its node has made.
LEMMA RefreshIsNew ==
  ASSUME ReplicationTypeOK, ReplicationTypeOK', ReplicationInv, NEW n \in Nodes, Refresh(n)
  PROVE  RevBound' /\ Unique'
  <1> DEFINE new == meta'[n]
  <1>1. /\ new \in Meta /\ new.origin = n
        /\ meta[n] # NoMeta => new.rev > meta[n].rev
        /\ \A o \in Nodes \ {n} : meta'[o] = meta[o]
    BY RefreshWins
  <1>2. Known' \subseteq Known \cup {new}
    BY <1>1 DEF Refresh, Known
  <1>3. ASSUME NEW m \in Known
        PROVE  /\ m \in Meta /\ m.origin \in Nodes /\ m.rev \in Nat
               /\ meta[m.origin] # NoMeta /\ m.rev <= meta[m.origin].rev
               /\ meta[m.origin].rev \in Nat
    <2>1. m \in Meta
      BY <1>3, KnownType
    <2>2. m.origin \in Nodes /\ m.rev \in Nat
      BY <2>1 DEF Meta
    <2>3. meta[m.origin] # NoMeta /\ m.rev <= meta[m.origin].rev
      BY <1>3 DEF ReplicationInv, RevBound
    <2>4. meta[m.origin] \in Meta
      BY <2>2, <2>3 DEF ReplicationTypeOK
    <2> QED
      BY <2>1, <2>2, <2>3, <2>4, MetaIsNotNone
  <1>4. \A m \in Known : m.origin = n => m.rev < new.rev
    BY <1>1, <1>3, MetaIsNotNone
  <1>5. RevBound'
    <2> SUFFICES ASSUME NEW m \in Known'
                 PROVE  meta'[m.origin] # NoMeta /\ m.rev <= meta'[m.origin].rev
      BY DEF RevBound
    <2>1. CASE m = new
      BY <2>1, <1>1, MetaIsNotNone
    <2>2. CASE m \in Known
      BY <2>2, <1>1, <1>3, <1>4, MetaIsNotNone
    <2> QED
      BY <2>1, <2>2, <1>2
  <1>6. Unique'
    <2> SUFFICES ASSUME NEW m \in Known', NEW l \in Known', m.rev = l.rev, m.origin = l.origin
                 PROVE  m = l
      BY DEF Unique
    <2>1. CASE m \in Known /\ l \in Known
      BY <2>1 DEF ReplicationInv, Unique
    <2>2. CASE m = new /\ l \in Known
      BY <2>2, <1>1, <1>3, <1>4, MetaIsNotNone
    <2>3. CASE l = new /\ m \in Known
      BY <2>3, <1>1, <1>3, <1>4, MetaIsNotNone
    <2> QED
      BY <2>1, <2>2, <2>3, <1>2
  <1> QED
    BY <1>5, <1>6

\* Together they are inductive.
LEMMA ReplicationInduction == ReplicationSpec => []ReplicationInv
  <1>1. ReplicationInit => RevBound /\ Unique
    BY DEF ReplicationInit, RevBound, Unique, Known, NoPull
  <1>2. ReplicationTypeOK /\ ReplicationTypeOK' /\ ReplicationInv /\ [ReplicationNext]_vars
          => RevBound' /\ Unique'
    BY StepGoesUp, NothingNew, RefreshIsNew
  <1> QED
    BY <1>1, <1>2, ReplicationTypeCorrect, PTL DEF ReplicationSpec, ReplicationInv

\* Of two revisions with the same number one always wins, and one only, though
\* nobody keeps the clocks in step: equal times are told apart by the names of
\* the nodes, and one node gives a number out once.
THEOREM ReplicationComparable == ReplicationSpec => []RevisionsAreComparable
  <1>1. ReplicationInv => RevisionsAreComparable
    <2> SUFFICES ASSUME ReplicationInv, NEW m \in Known, NEW l \in Known
                 PROVE  /\ m.rev = l.rev /\ m.origin = l.origin => m = l
                        /\ m.hash # l.hash => (WinsOver(m, l) <=> ~WinsOver(l, m))
      BY DEF RevisionsAreComparable
    <2>1. m.rev = l.rev /\ m.origin = l.origin => m = l
      BY DEF ReplicationInv, Unique
    <2>2. m \in Meta /\ l \in Meta
      BY KnownType DEF ReplicationInv
    <2>3. /\ m # NoMeta /\ l # NoMeta
          /\ m.rev \in Nat /\ l.rev \in Nat
          /\ m.at \in Nat /\ l.at \in Nat
          /\ m.origin \in Nodes /\ l.origin \in Nodes
          /\ Rank[m.origin] \in Nat /\ Rank[l.origin] \in Nat
      BY <2>2, MetaIsNotNone, ReplicationAssumption DEF Meta
    <2>4. ASSUME m.hash # l.hash, m.rev = l.rev
          PROVE  Later(m, l) <=> ~Later(l, m)
      <3>1. Rank[m.origin] # Rank[l.origin]
        BY <2>1, <2>3, <2>4, ReplicationAssumption
      <3> QED
        BY <2>3, <3>1 DEF Later
    <2>5. m.hash # l.hash => (WinsOver(m, l) <=> ~WinsOver(l, m))
      BY <2>3, <2>4 DEF WinsOver
    <2> QED
      BY <2>1, <2>5
  <1> QED
    BY <1>1, ReplicationInduction, PTL

\* However late an answer arrives and whoever dies, a node replaces its
\* revision only by one that wins over it.
THEOREM ReplicationNeverGoesBack == ReplicationSpec => NeverGoesBack
  <1>1. ReplicationTypeOK /\ [ReplicationNext]_vars
          => [\A n \in Nodes : meta'[n] # meta[n] => WinsOver(meta'[n], meta[n])]_vars
    BY StepGoesUp
  <1> QED
    BY <1>1, ReplicationTypeCorrect, PTL DEF ReplicationSpec, NeverGoesBack

\* WinsOver alone is not transitive: of two revisions with one number and one
\* package neither wins, though a third may lie between them.  The order behind
\* it is: a higher number, and at equal numbers a later edit.
Above(m, l) ==
  /\ m # NoMeta
  /\ \/ l = NoMeta
     \/ l # NoMeta /\ m.rev > l.rev
     \/ l # NoMeta /\ m.rev = l.rev /\ Later(m, l)

\* What is compared of a revision.
LEMMA Comparands ==
  ASSUME NEW m \in Meta
  PROVE  m # NoMeta /\ m.rev \in Nat /\ m.at \in Nat /\ Rank[m.origin] \in Nat
  BY MetaIsNotNone, ReplicationAssumption DEF Meta

LEMMA WinnersAreAbove ==
  ASSUME NEW m, NEW l, WinsOver(m, l)
  PROVE  Above(m, l)
  BY DEF WinsOver, Above

LEMMA AboveIsAnOrder ==
  ASSUME NEW m \in Meta, NEW l \in Meta, NEW k \in Meta
  PROVE  ~Above(m, m) /\ (Above(m, l) /\ Above(l, k) => Above(m, k))
  BY Comparands DEF Above, Later

\* A revision that a node has left for one that wins over it never comes back to
\* this node, by whatever way round the swarm, and nor does any below it: a node
\* climbs in one order, so nodes cannot hand a package round in a circle.
THEOREM ReplicationLeavesForGood ==
  ASSUME NEW n \in Nodes, NEW r \in Meta
  PROVE  ReplicationSpec => [](Above(meta[n], r) => [](Above(meta[n], r) /\ meta[n] # r))
  <1>1. ASSUME ReplicationTypeOK, ReplicationTypeOK', [ReplicationNext]_vars, Above(meta[n], r)
        PROVE  Above(meta[n], r)'
    <2>1. meta[n] \in Meta /\ meta'[n] \in Meta \cup {NoMeta}
      BY <1>1 DEF ReplicationTypeOK, Above
    <2>2. CASE meta'[n] = meta[n]
      BY <1>1, <2>2 DEF Above, Later
    <2>3. CASE WinsOver(meta'[n], meta[n])
      <3>1. meta'[n] \in Meta
        BY <2>1, <2>3 DEF WinsOver
      <3>2. Above(meta'[n], meta[n])
        BY <2>3, WinnersAreAbove
      <3> QED
        BY <1>1, <2>1, <3>1, <3>2, AboveIsAnOrder
    <2> QED
      BY <1>1, <2>2, <2>3, StepGoesUp
  <1>2. Above(meta[n], r) => meta[n] # r
    BY AboveIsAnOrder
  <1> QED
    BY <1>1, <1>2, ReplicationTypeCorrect, PTL DEF ReplicationSpec
=============================================================================
