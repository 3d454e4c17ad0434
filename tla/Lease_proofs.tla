---------------------------- MODULE Lease_proofs ----------------------------
(* Proofs about the lease, for any set of nodes and any length of the      *)
(* timers: the shape of the supervisor, what the answers of a poll are     *)
(* worth at the moment of the decision, and that no start is over a        *)
(* process the starter could have known of.                                *)
EXTENDS Lease, TLAPS

\* The bounds, one by one.
LEMMA BoundTypes ==
  /\ Grace \in Nat /\ ReadyTimeout \in Nat /\ Holdoff \in Nat
  /\ MaxStop \in Nat /\ MaxBoot \in Nat
  BY LeaseAssumption

\* A timer stays in its range when it ages.
LEMMA OlderType ==
  ASSUME NEW limit \in Nat, NEW age \in {Off} \cup 0..limit
  PROVE  /\ Older(age, limit) \in {Off} \cup 0..limit
         /\ age # Off => Older(age, limit) # Off
         /\ age = Off => Older(age, limit) = Off
  BY DEF Older, Off

\* What a peer says is an answer; one that says it does not run has no process.
LEMMA LocalStateMeaning ==
  ASSUME LeaseTypeOK, NEW p \in Node
  PROVE  /\ LocalState(p) \in {"idle", "claims", "claims, was ready", "runs", "serves"}
         /\ LocalState(p) \in {"idle", "claims", "claims, was ready"} => proc[p] # "alive"
  BY DEF LeaseTypeOK, SupervisorShape, LocalState

\* Counting down a budget keeps its type.
LEMMA SpendType ==
  ASSUME LeaseTypeOK, NEW what \in {"deaths", "outages", "losses"}, Spend(what)
  PROVE  budget' \in [{"deaths", "outages", "losses"} -> Nat]
  BY DEF LeaseTypeOK, Spend

\* The decisions leave the supervisor alone, or tell it to start or to stop.
LEMMA DecideType ==
  ASSUME LeaseTypeOK, NEW n \in Node, Decide(n)
  PROVE  LeaseTypeOK'
  <1> USE BoundTypes DEF LeaseTypeOK, Decides, InTick, EndTick, Set
  <1>u. Unasked \in [Node -> Answer]
    BY DEF Unasked, Answer
  <1>s. SilentFor(n) \in 0..Grace
    BY DEF SilentFor, Off
  <1>1. CASE StayRunning(n)
    BY <1>1, <1>u DEF StayRunning, Keep, supervisorVars, SupervisorShape
  <1>2. CASE Yield(n)
    <2>1. SupervisorShape'
      BY <1>2 DEF Yield, BeginStop, SupervisorShape, Off
    <2>2. stopFor' \in [Node -> {Off} \cup 0..MaxStop]
      BY <1>2 DEF Yield, BeginStop
    <2> QED
      BY <1>2, <1>u, <2>1, <2>2 DEF Yield, BeginStop
  <1>3. CASE KeepSilence(n)
    BY <1>3, <1>u DEF KeepSilence, Keep, supervisorVars, SupervisorShape
  <1>4. CASE StandBack(n)
    BY <1>4, <1>u DEF StandBack, Keep, Idle, supervisorVars, SupervisorShape
  <1>5. CASE TakeBack(n)
    <2>1. SupervisorShape'
      BY <1>5 DEF TakeBack, Idle, StartSlot, SupervisorShape
    <2> QED
      BY <1>5, <1>u, <2>1 DEF TakeBack, Idle, StartSlot
  <1>6. CASE Ask(n)
    BY <1>6, <1>u DEF Ask, SeesInferior, Keep, Idle, supervisorVars, SupervisorShape
  <1>7. CASE LeaveToSuperior(n)
    BY <1>7, <1>u DEF LeaveToSuperior, Keep, Idle, supervisorVars, SupervisorShape
  <1>8. CASE WaitOut(n)
    BY <1>8, <1>u, <1>s DEF WaitOut, Keep, Idle, supervisorVars, SupervisorShape
  <1>9. CASE Take(n)
    <2>1. SupervisorShape'
      BY <1>9 DEF Take, Idle, StartSlot, SupervisorShape
    <2> QED
      BY <1>9, <1>u, <2>1 DEF Take, Idle, StartSlot
  <1> QED
    BY <1>1, <1>2, <1>3, <1>4, <1>5, <1>6, <1>7, <1>8, <1>9 DEF Decide

LEMMA LeaseTypeStep ==
  ASSUME LeaseTypeOK, [LeaseNext]_vars
  PROVE  LeaseTypeOK'
  <1> USE BoundTypes DEF LeaseTypeOK
  <1>u. Unasked \in [Node -> Answer]
    BY DEF Unasked, Answer
  <1>1. ASSUME NEW n \in Node, NEW p \in Node, PollPeer(n, p) PROVE LeaseTypeOK'
    <2>1. LocalState(p) \in Answer
      BY LocalStateMeaning DEF Answer
    <2>2. view' \in [Node -> [Node -> Answer]]
      <3>1. \E x \in Answer : view' = [view EXCEPT ![n][p] = x]
        BY <1>1, <2>1 DEF PollPeer, Answer
      <3> QED
        BY <3>1
    <2>3. budget' \in [{"deaths", "outages", "losses"} -> Nat]
      BY <1>1, SpendType DEF PollPeer
    <2> QED
      BY <1>1, <2>2, <2>3
      DEF PollPeer, supervisorVars, leaseVars, timerVars, SupervisorShape
  <1>2. ASSUME NEW n \in Node, StopDone(n) PROVE LeaseTypeOK'
    <2>1. SupervisorShape'
      BY <1>2 DEF StopDone, EndTick, SupervisorShape
    <2>2. yielded' \in [Node -> {Off} \cup 0..ReadyTimeout]
      BY <1>2 DEF StopDone, Set
    <2> QED
      BY <1>2, <1>u, <2>1, <2>2 DEF StopDone, Set, EndTick
  <1>3. ASSUME NEW n \in Node, Spawn(n) PROVE LeaseTypeOK'
    BY <1>3 DEF Spawn, timerVars, SupervisorShape
  <1>4. ASSUME NEW n \in Node, SuperviseExit(n) PROVE LeaseTypeOK'
    <2>1. SupervisorShape'
      BY <1>4 DEF SuperviseExit, SupervisorShape
    <2>2. /\ wanted' \in [Node -> BOOLEAN]
          /\ noting' \in [Node -> BOOLEAN]
          /\ proc' \in [Node -> {"none", "alive", "crashed", "fenced"}]
          /\ status' \in [Node -> {"stopped", "running", "restarting"}]
      BY <1>4 DEF SuperviseExit
    <2> QED
      BY <1>4, <2>1, <2>2 DEF SuperviseExit, leaseVars, timerVars, tickVars
  <1>5. ASSUME NEW n \in Node, GetReady(n) PROVE LeaseTypeOK'
    BY <1>5 DEF GetReady, timerVars, tickVars, SupervisorShape
  <1>6. ASSUME NEW n \in Node, NEW how \in {"crashed", "fenced"}, Exits(n, how),
               budget' \in [{"deaths", "outages", "losses"} -> Nat]
        PROVE  LeaseTypeOK'
    BY <1>6 DEF Exits, leaseVars, timerVars, tickVars, SupervisorShape
  <1>7. ASSUME NEW n \in Node, NodeDown(n) PROVE LeaseTypeOK'
    <2>1. budget' \in [{"deaths", "outages", "losses"} -> Nat]
      BY <1>7, SpendType DEF NodeDown
    <2>2. SupervisorShape'
      BY <1>7 DEF NodeDown, SupervisorShape
    <2>3. /\ stopFor' \in [Node -> {Off} \cup 0..MaxStop]
          /\ silent' \in [Node -> {Off} \cup 0..Grace]
          /\ yielded' \in [Node -> {Off} \cup 0..ReadyTimeout]
          /\ boot' \in [Node -> 0..MaxBoot]
          /\ fenced' \in [Node -> 0..Holdoff]
      BY <1>7 DEF NodeDown, Set
    <2>4. /\ up' \in [Node -> BOOLEAN]
          /\ wanted' \in [Node -> BOOLEAN]
          /\ noting' \in [Node -> BOOLEAN]
          /\ claiming' \in [Node -> BOOLEAN]
          /\ ready' \in [Node -> BOOLEAN]
          /\ ticked' \in [Node -> BOOLEAN]
      BY <1>7 DEF NodeDown, Set
    <2> QED
      BY <1>7, <1>u, <2>1, <2>2, <2>3, <2>4 DEF NodeDown
  <1>8. ASSUME NEW n \in Node, NodeUp(n) PROVE LeaseTypeOK'
    BY <1>8 DEF NodeUp, supervisorVars, leaseVars, timerVars, tickVars, SupervisorShape
  <1>9. ASSUME TimePasses PROVE LeaseTypeOK'
    <2>1. \A n \in Node :
            /\ Older(stopFor[n], MaxStop) \in {Off} \cup 0..MaxStop
            /\ stopFor[n] = Off <=> Older(stopFor[n], MaxStop) = Off
            /\ Older(silent[n], Grace) \in {Off} \cup 0..Grace
            /\ Older(yielded[n], ReadyTimeout) \in {Off} \cup 0..ReadyTimeout
            /\ Older(boot[n], MaxBoot) \in 0..MaxBoot
      <3> SUFFICES ASSUME NEW n \in Node
                   PROVE  /\ Older(stopFor[n], MaxStop) \in {Off} \cup 0..MaxStop
                          /\ stopFor[n] = Off <=> Older(stopFor[n], MaxStop) = Off
                          /\ Older(silent[n], Grace) \in {Off} \cup 0..Grace
                          /\ Older(yielded[n], ReadyTimeout) \in {Off} \cup 0..ReadyTimeout
                          /\ Older(boot[n], MaxBoot) \in 0..MaxBoot
                      OBVIOUS
      <3>1. boot[n] # Off
        BY DEF Off
      <3>2. /\ stopFor[n] \in {Off} \cup 0..MaxStop
            /\ silent[n] \in {Off} \cup 0..Grace
            /\ yielded[n] \in {Off} \cup 0..ReadyTimeout
            /\ boot[n] \in {Off} \cup 0..MaxBoot
        OBVIOUS
      <3>3. /\ Older(stopFor[n], MaxStop) \in {Off} \cup 0..MaxStop
            /\ stopFor[n] = Off <=> Older(stopFor[n], MaxStop) = Off
        BY <3>2, OlderType
      <3>4. Older(silent[n], Grace) \in {Off} \cup 0..Grace
        BY <3>2, OlderType
      <3>5. Older(yielded[n], ReadyTimeout) \in {Off} \cup 0..ReadyTimeout
        BY <3>2, OlderType
      <3>6. Older(boot[n], MaxBoot) \in 0..MaxBoot
        BY <3>1, <3>2, OlderType
      <3> QED
        BY <3>3, <3>4, <3>5, <3>6
    <2>2. SupervisorShape'
      BY <1>9, <2>1 DEF TimePasses, SupervisorShape
    <2>3. fenced' \in [Node -> 0..Holdoff]
      BY <1>9 DEF TimePasses
    <2>4. /\ stopFor' \in [Node -> {Off} \cup 0..MaxStop]
          /\ silent' \in [Node -> {Off} \cup 0..Grace]
          /\ yielded' \in [Node -> {Off} \cup 0..ReadyTimeout]
          /\ boot' \in [Node -> 0..MaxBoot]
      BY <1>9, <2>1 DEF TimePasses
    <2> QED
      BY <1>9, <2>2, <2>3, <2>4 DEF TimePasses
  <1>10. ASSUME UNCHANGED vars PROVE LeaseTypeOK'
    BY <1>10 DEF vars, supervisorVars, leaseVars, timerVars, tickVars, SupervisorShape
  <1>11. ASSUME NEW n \in Node, Die(n) \/ Fence(n) PROVE LeaseTypeOK'
    BY <1>11, <1>6, SpendType DEF Die, Fence
  <1>12. ASSUME NEW n \in Node, NoteFenced(n) PROVE LeaseTypeOK'
    <2>1. /\ fenced' \in [Node -> 0..Holdoff]
          /\ silent' \in [Node -> {Off} \cup 0..Grace]
          /\ noting' \in [Node -> BOOLEAN]
          /\ claiming' \in [Node -> BOOLEAN]
      BY <1>12 DEF NoteFenced
    <2> QED
      BY <1>12, <2>1 DEF NoteFenced, tickVars, SupervisorShape
  <1> QED
    BY <1>1, <1>2, <1>3, <1>4, <1>5, <1>7, <1>8, <1>9, <1>10, <1>11, <1>12, DecideType
    DEF LeaseNext, Tick, Supervise, Fault

\* The variables of the lease keep their types, the supervisor its shape: a
\* slot is running exactly while it has a process, and a silenced one is not
\* wanted (SupervisedService and LeaseManager).
THEOREM LeaseTypeCorrect == LeaseSpec => []LeaseTypeOK
  <1>1. LeaseInit => LeaseTypeOK
    BY LeaseAssumption DEF LeaseInit, LeaseTypeOK, SupervisorShape, Unasked, Answer, Off
  <1> QED BY <1>1, LeaseTypeStep, PTL DEF LeaseSpec

-----------------------------------------------------------------------------
\* A step that spawns nothing and reads nobody keeps the answers good.
LEMMA QuietStep ==
  ASSUME LeaseTypeOK, AnswersHold,
         \A n \in Node : view'[n] = Unasked \/ (view'[n] = view[n] /\ since'[n] = since[n]),
         \A p \in Node : proc'[p] = "alive" => proc[p] = "alive"
  PROVE  AnswersHold'
  BY DEF AnswersHold, Unasked

LEMMA AnswersStep ==
  ASSUME LeaseTypeOK, AnswersHold, [LeaseNext]_vars
  PROVE  AnswersHold'
  <1> USE DEF LeaseTypeOK
  <1>1. ASSUME NEW n \in Node, NEW p \in Node, PollPeer(n, p) PROVE AnswersHold'
    <2>2. since' = since /\ proc' = proc
      BY <1>1 DEF PollPeer, supervisorVars
    <2>3. CASE view' = [view EXCEPT ![n][p] = LocalState(p)]
      BY <2>2, <2>3, LocalStateMeaning DEF AnswersHold
    <2>4. CASE view' = [view EXCEPT ![n][p] = "silent"]
      BY <2>2, <2>4 DEF AnswersHold
    <2> QED
      BY <1>1, <2>3, <2>4 DEF PollPeer
  <1>2. ASSUME NEW n \in Node, Decide(n) PROVE AnswersHold'
    <2>1. proc' = proc
      BY <1>2 DEF Decide, StayRunning, Yield, BeginStop, KeepSilence, StandBack, TakeBack, Ask,
        SeesInferior, LeaveToSuperior, WaitOut, Take, Keep, StartSlot, supervisorVars
    <2>2. view' = [view EXCEPT ![n] = Unasked] /\ since' = [since EXCEPT ![n] = {}]
      BY <1>2 DEF Decide, StayRunning, Yield, BeginStop, KeepSilence, StandBack, TakeBack, Ask,
        SeesInferior, LeaveToSuperior, WaitOut, Take, Keep, StartSlot, EndTick
    <2> QED
      BY <2>1, <2>2, QuietStep
  <1>3. ASSUME NEW n \in Node, StopDone(n) PROVE AnswersHold'
    BY <1>3, QuietStep DEF StopDone, EndTick
  <1>4. ASSUME NEW n \in Node, Spawn(n) PROVE AnswersHold'
    BY <1>4 DEF Spawn, AnswersHold
  <1>5. ASSUME NEW n \in Node, SuperviseExit(n) \/ NoteFenced(n) \/ GetReady(n) \/ Die(n) \/ Fence(n)
        PROVE  AnswersHold'
    BY <1>5, QuietStep DEF SuperviseExit, NoteFenced, GetReady, Die, Fence, Exits, tickVars
  <1>6. ASSUME NEW n \in Node, NodeDown(n) PROVE AnswersHold'
    BY <1>6, QuietStep DEF NodeDown
  <1>7. ASSUME NEW n \in Node, NodeUp(n) PROVE AnswersHold'
    BY <1>7, QuietStep DEF NodeUp, supervisorVars, tickVars
  <1>8. ASSUME TimePasses PROVE AnswersHold'
    BY <1>8, QuietStep DEF TimePasses
  <1>9. ASSUME UNCHANGED vars PROVE AnswersHold'
    BY <1>9, QuietStep DEF vars, supervisorVars, tickVars
  <1> QED
    BY <1>1, <1>2, <1>3, <1>4, <1>5, <1>6, <1>7, <1>8, <1>9
    DEF LeaseNext, Tick, Supervise, Fault

\* An answer that the slot does not run is good until the decision, but for a
\* process spawned since (_peer_singletons against SupervisedService).
THEOREM LeaseAnswersHold == LeaseSpec => []AnswersHold
  <1>1. LeaseInit => AnswersHold
    BY DEF LeaseInit, AnswersHold, Unasked
  <1>2. LeaseTypeOK /\ AnswersHold /\ [LeaseNext]_vars => AnswersHold'
    BY AnswersStep
  <1> QED BY <1>1, <1>2, LeaseTypeCorrect, PTL DEF LeaseSpec

-----------------------------------------------------------------------------
\* The step of StartsClear.
ClearStart ==
  \A n, p \in Node :
    /\ Starts(n)
    /\ p # n /\ view[n][p] # "silent" /\ p \notin since[n]
    /\ proc[p] = "alive"
    => Holders(n) # {} /\ GivesUpWaiting(n)

\* Only a decision to take the slot, or to take it back, makes the node want it.
LEMMA StartsByDecision ==
  ASSUME LeaseTypeOK, [LeaseNext]_vars, NEW n \in Node, Starts(n)
  PROVE  Take(n) \/ TakeBack(n)
  <1> USE DEF LeaseTypeOK, Starts
  <1>1. ASSUME NEW m \in Node, NEW p \in Node, PollPeer(m, p) PROVE FALSE
    BY <1>1 DEF PollPeer, supervisorVars
  <1>2. ASSUME NEW m \in Node, Decide(m) PROVE Take(n) \/ TakeBack(n)
    BY <1>2 DEF Decide, StayRunning, Yield, BeginStop, KeepSilence, StandBack, TakeBack, Ask,
      SeesInferior, LeaveToSuperior, WaitOut, Take, Keep, StartSlot, supervisorVars
  <1>3. ASSUME NEW m \in Node,
               \/ StopDone(m) \/ Spawn(m) \/ NoteFenced(m) \/ GetReady(m)
               \/ Die(m) \/ Fence(m) \/ NodeUp(m)
        PROVE  FALSE
    BY <1>3 DEF StopDone, Spawn, NoteFenced, GetReady, Die, Fence, Exits, NodeUp, supervisorVars
  <1>5. ASSUME NEW m \in Node, SuperviseExit(m) PROVE FALSE
    <2>1. n # m
      BY <1>5 DEF SuperviseExit
    <2>2. wanted'[n] = wanted[n]
      BY <1>5, <2>1 DEF SuperviseExit
    <2> QED BY <2>2
  <1>6. ASSUME NEW m \in Node, NodeDown(m) PROVE FALSE
    <2>1. wanted' = [wanted EXCEPT ![m] = FALSE]
      BY <1>6 DEF NodeDown
    <2> QED BY <2>1
  <1>4. ASSUME TimePasses \/ UNCHANGED vars PROVE FALSE
    BY <1>4 DEF TimePasses, vars, supervisorVars
  <1> QED
    BY <1>1, <1>2, <1>3, <1>4, <1>5, <1>6 DEF LeaseNext, Tick, Supervise, Fault

LEMMA ClearStartStep ==
  ASSUME LeaseTypeOK, AnswersHold, [LeaseNext]_vars
  PROVE  ClearStart
  <1> SUFFICES ASSUME NEW n \in Node, NEW p \in Node, Starts(n),
                      p # n, view[n][p] # "silent", p \notin since[n], proc[p] = "alive"
               PROVE  Holders(n) # {} /\ GivesUpWaiting(n)
    BY DEF ClearStart
  <1>1. CASE TakeBack(n)
    BY <1>1 DEF TakeBack
  <1>2. CASE Take(n)
    <2>1. view[n][p] \in Answer \ {"unasked", "silent"}
      BY <1>2 DEF Take, Idle, Decides, Said, LeaseTypeOK
    <2>2. view[n][p] \in {"runs", "serves"}
      BY <2>1 DEF AnswersHold, Answer
    <2>3. Outranks(p, n) \/ Outranks(n, p)
      BY LeaseAssumption DEF Outranks
    <2>4. Superiors(n) = {} /\ RunningInferior(n) = {}
      BY <1>2 DEF Take, IsFree
    <2> QED
      BY <2>1, <2>2, <2>3, <2>4 DEF Superiors, RunningInferior, Said
  <1> QED
    BY <1>1, <1>2, StartsByDecision

\* A node never starts over a process of a peer that answered it, unless it
\* takes the slot back from a superior (LeaseManager._decide).
THEOREM LeaseStartsClear == LeaseSpec => StartsClear
  <1>1. LeaseTypeOK /\ AnswersHold /\ [LeaseNext]_vars => [ClearStart]_vars
    BY ClearStartStep
  <1> QED
    BY <1>1, LeaseTypeCorrect, LeaseAnswersHold, PTL DEF LeaseSpec, StartsClear, ClearStart

=============================================================================
