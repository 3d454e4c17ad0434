-------------------------- MODULE TestWorker_proofs --------------------------
(***************************************************************************)
(* Theorems of the test executors composed with the hub's queue, for any   *)
(* number of executors and jobs and any number of crashes and lost calls.  *)
(***************************************************************************)
EXTENDS TestWorker, HubQueue_proofs

-----------------------------------------------------------------------------
(* The composition is a use of the queue: every theorem of the queue holds *)
(* of it.                                                                  *)

LEMMA HubPostIsHubStep ==
  ASSUME NEW e \in Executor, NEW j \in Job,
         NEW kind \in {"test_done", "stopped", "failed", "requeue"}, HubPost(e, j, kind)
  PROVE  HubNext
  <1>1. kind # "requeue" => kind \in ReportKind
    BY DEF ReportKind
  <1> QED BY <1>1 DEF HubPost, HubNext, ExecutorCall

\* Where something is sent, there is a job it is about.
LEMMA SendsAboutJob ==
  ASSUME WorkerTypeOK, NEW e \in Executor, phase[e] \in {"close", "settle", "recover"}
  PROVE  /\ task[e] \in Job
         /\ current[e] = task[e]
         /\ out[e] \in {"test_done", "stopped", "failed", "requeue"}
  BY DEF WorkerTypeOK, LoopShape

\* What an executor or the client does is a call of the hub, or none.
LEMMA WorkerStepIsHubStep ==
  ASSUME HubTypeOK, WorkerTypeOK, [WorkerNext]_allVars
  PROVE  [HubNext]_hubVars
  <1>1. ASSUME NEW e \in Executor, NEW j \in Job, ClaimCall(e, j) PROVE HubNext
    <2>1. TestJob \in Offers
      BY WorkerAssumption DEF Offers
    <2> QED BY <1>1, <2>1 DEF ClaimCall, HubNext, ExecutorCall
  <1>2. ASSUME NEW e \in Executor, PostCall(e) PROVE [HubNext]_hubVars
    BY <1>2, SendsAboutJob, HubPostIsHubStep DEF PostCall
  <1>3. ASSUME NEW e \in Executor, PollCall(e) PROVE HubNext
    <2>1. PICK last \in Deliverable(e, cursor[e]) : Poll(e, cursor[e], last.seq)
      BY <1>3 DEF PollCall
    <2>2. cursor[e] \in 0..MaxSeq /\ last.seq \in 1..MaxSeq
      BY DEF HubTypeOK, WorkerTypeOK, Deliverable, Message
    <2> QED BY <2>1, <2>2 DEF HubNext, ExecutorCall
  <1>4. ASSUME NEW j \in Job, Client(j) PROVE HubNext
    BY <1>4 DEF Client, ClientSubmit, ClientStop, ClientResume, ClientAnswer, HubNext, ClientCall
  <1>5. ASSUME NEW e \in Executor,
               \/ Handle(e) \/ Prepare(e) \/ TestEnds(e) \/ HandleAnswered(e)
               \/ Settle(e) \/ SettleAnswered(e) \/ PollStops(e) \/ PollEnds(e)
               \/ Crash(e) \/ Restart(e)
        PROVE  UNCHANGED hubVars
    BY <1>5 DEF Handle, Prepare, TestEnds, HandleAnswered, Settle, SettleAnswered,
                PollStops, PollEnds, Crash, Restart
  <1>6. CASE UNCHANGED allVars
    BY <1>6 DEF allVars
  <1> QED
    BY <1>1, <1>2, <1>3, <1>4, <1>5, <1>6 DEF WorkerNext, ClaimLoop, PollLoop

-----------------------------------------------------------------------------
(* Type correctness.                                                       *)

\* Letters in flight are of the mailbox whatever the hub does.
LEMMA MailKept ==
  ASSUME WorkerTypeOK, [HubNext]_hubVars, mail' = mail
  PROVE  mail' \in [Executor -> Mail']
  BY MailboxGrows DEF WorkerTypeOK, Mail

LEMMA SpendType ==
  ASSUME WorkerTypeOK, NEW what \in {"calls", "crashes", "losses"}, Spend(what)
  PROVE  budget' \in [{"calls", "crashes", "losses"} -> Nat]
  BY DEF WorkerTypeOK, Spend

\* The claim loop goes idle with its job settled, or left in state.json.
LEMMA LeaveType ==
  ASSUME WorkerTypeOK, NEW e \in Executor, Leave(e),
         UNCHANGED <<cursor, mail, messages, fresh, orphan, budget>>,
         current' \in {current, [current EXCEPT ![e] = NoJob]},
         pendingFailed' \in {pendingFailed, [pendingFailed EXCEPT ![e] = FALSE],
                             [pendingFailed EXCEPT ![e] = TRUE]}
  PROVE  WorkerTypeOK'
  <1> USE DEF WorkerTypeOK, Leave
  <1>1. /\ current' \in [Executor -> Job \cup {NoJob}]
        /\ \A x \in Executor \ {e} : current'[x] = current[x]
    OBVIOUS
  <1>2. pendingFailed' \in [Executor -> BOOLEAN]
    OBVIOUS
  <1>3. /\ \A x \in Executor \ {e} : /\ phase'[x] = phase[x] /\ task'[x] = task[x]
                                     /\ out'[x] = out[x] /\ answer'[x] = answer[x]
        /\ phase'[e] = "idle" /\ task'[e] = NoJob
        /\ out'[e] = "none" /\ answer'[e] = "none"
    OBVIOUS
  <1>4. LoopShape'
    BY <1>1, <1>3 DEF LoopShape
  <1>5. /\ phase' \in [Executor -> LoopPhase]
        /\ task' \in [Executor -> Job \cup {NoJob}]
    BY DEF LoopPhase
  <1>6. /\ out' \in [Executor -> {"none", "test_done", "stopped", "failed", "requeue"}]
        /\ answer' \in [Executor -> {"none", "ok", "refused", "error"}]
        /\ stopAsked' \in [Executor -> BOOLEAN]
    OBVIOUS
  <1>7. mail' \in [Executor -> Mail']
    BY DEF Mail
  <1> QED BY <1>1, <1>2, <1>4, <1>5, <1>6, <1>7

LEMMA WorkerTypeStep ==
  ASSUME HubTypeOK, WorkerTypeOK, [WorkerNext]_allVars
  PROVE  WorkerTypeOK'
  <1> USE DEF WorkerTypeOK, LoopShape
  <1>0. [HubNext]_hubVars
    BY WorkerStepIsHubStep
  <1>1. ASSUME NEW e \in Executor, NEW j \in Job, ClaimCall(e, j) PROVE WorkerTypeOK'
    <2>1. /\ mail' \in [Executor -> Mail']
          /\ budget' \in [{"calls", "crashes", "losses"} -> Nat]
      BY <1>0, <1>1, MailKept, SpendType DEF ClaimCall
    <2>2. CASE phase' = [phase EXCEPT ![e] = "granted"] /\ task' = [task EXCEPT ![e] = j]
               /\ orphan' = [orphan EXCEPT ![j] = FALSE]
      BY <1>1, <2>1, <2>2, WorkerAssumption DEF ClaimCall, LoopPhase, diskVars
    <2>3. CASE UNCHANGED <<phase, task>> /\ orphan' = [orphan EXCEPT ![j] = TRUE]
      BY <1>1, <2>1, <2>3 DEF ClaimCall, LoopPhase, diskVars
    <2> QED BY <1>1, <2>2, <2>3 DEF ClaimCall
  <1>2. ASSUME NEW e \in Executor, Handle(e) PROVE WorkerTypeOK'
    BY <1>0, <1>2, MailKept DEF Handle, LoopPhase, historyVars, hubVars
  <1>3. ASSUME NEW e \in Executor, Prepare(e) PROVE WorkerTypeOK'
    BY <1>0, <1>3, MailKept DEF Prepare, Send, LoopPhase, diskVars, historyVars, hubVars
  <1>4. ASSUME NEW e \in Executor, TestEnds(e) PROVE WorkerTypeOK'
    BY <1>0, <1>4, MailKept DEF TestEnds, Send, LoopPhase, diskVars, historyVars, hubVars
  <1>5. ASSUME NEW e \in Executor, PostCall(e) PROVE WorkerTypeOK'
    BY <1>0, <1>5, MailKept, SpendType DEF PostCall, Got, diskVars, historyVars
  <1>6. ASSUME NEW e \in Executor, HandleAnswered(e) PROVE WorkerTypeOK'
    <2>1. CASE Leave(e)
      BY <1>6, <2>1, LeaveType DEF HandleAnswered, ClearCurrent, historyVars, hubVars
    <2>2. CASE Send(e, "failed") /\ UNCHANGED <<task, stopAsked, current, pendingFailed>>
      BY <1>0, <1>6, <2>2, MailKept DEF HandleAnswered, Send, LoopPhase, historyVars, hubVars
    <2> QED BY <1>6, <2>1, <2>2 DEF HandleAnswered
  <1>7. ASSUME NEW e \in Executor, Settle(e) PROVE WorkerTypeOK'
    BY <1>0, <1>7, MailKept DEF Settle, BeginSettle, LoopPhase, diskVars, historyVars, hubVars
  <1>8. ASSUME NEW e \in Executor, SettleAnswered(e) PROVE WorkerTypeOK'
    <2>1. CASE Leave(e)
      BY <1>8, <2>1, LeaveType DEF SettleAnswered, ClearCurrent, historyVars, hubVars
    <2>2. CASE ~Leave(e)
      BY <1>0, <1>8, <2>2, MailKept DEF SettleAnswered, LoopPhase, historyVars, hubVars
    <2> QED BY <2>1, <2>2
  <1>9. ASSUME NEW e \in Executor, PollCall(e) PROVE WorkerTypeOK'
    <2>1. PICK last \in Deliverable(e, cursor[e]) :
                 /\ Poll(e, cursor[e], last.seq)
                 /\ \/ mail' = [mail EXCEPT ![e] = [letters |-> Page(e, cursor[e], last.seq),
                                                   upto |-> last.seq]]
                       /\ UNCHANGED budget
                    \/ Spend("losses") /\ UNCHANGED mail
      BY <1>9 DEF PollCall
    <2>2. last.seq \in 0..MaxSeq /\ Page(e, cursor[e], last.seq) \subseteq messages
      BY DEF HubTypeOK, Deliverable, Message, Page
    <2>3. messages' = messages
      BY <2>1 DEF Poll
    <2>4. budget' \in [{"calls", "crashes", "losses"} -> Nat]
      BY <2>1, SpendType
    <2>5. [letters |-> Page(e, cursor[e], last.seq), upto |-> last.seq] \in Mail
      BY <2>2 DEF Mail
    <2>6. mail' \in [Executor -> Mail]
      BY <2>1, <2>5
    <2>7. mail' \in [Executor -> Mail']
      BY <2>3, <2>6 DEF Mail
    <2>8. UNCHANGED <<diskVars, loopVars, stopAsked, historyVars>>
      BY <1>9 DEF PollCall
    <2> QED BY <2>4, <2>7, <2>8 DEF diskVars, loopVars, historyVars
  <1>10. ASSUME NEW e \in Executor, PollStops(e) \/ PollEnds(e) PROVE WorkerTypeOK'
    <2>1. CASE PollStops(e)
      <3>1. PICK m \in Stops(e) :
              mail' = [mail EXCEPT ![e].letters = {x \in @ : x.seq > m.seq}]
        BY <2>1 DEF PollStops
      <3>2. mail' \in [Executor -> Mail]
        BY <3>1 DEF Mail
      <3>3. messages' = messages
        BY <2>1 DEF PollStops, hubVars
      <3>4. mail' \in [Executor -> Mail']
        BY <3>2, <3>3 DEF Mail
      <3> QED BY <2>1, <3>4 DEF PollStops, diskVars, loopVars, historyVars
    <2>2. CASE PollEnds(e)
      <3>1. messages' = messages
        BY <2>2 DEF PollEnds, hubVars
      <3>2. mail[e].upto \in 0..MaxSeq /\ NoMail \in Mail
        BY HubAssumption DEF Mail, NoMail
      <3>3. mail' \in [Executor -> Mail']
        BY <2>2, <3>1, <3>2 DEF Mail, PollEnds
      <3>4. cursor' \in [Executor -> 0..MaxSeq]
        BY <2>2, <3>2 DEF PollEnds
      <3> QED BY <2>2, <3>3, <3>4 DEF PollEnds, loopVars, historyVars
    <2> QED BY <1>10, <2>1, <2>2
  <1>11. ASSUME NEW e \in Executor, Crash(e) PROVE WorkerTypeOK'
    <2>1. messages' = messages /\ NoMail \in Mail
      BY <1>11, HubAssumption DEF Crash, hubVars, NoMail, Mail
    <2>2. mail' \in [Executor -> Mail']
      BY <1>11, <2>1 DEF Crash, Mail
    <2> QED BY <1>11, <2>2, SpendType, WorkerAssumption DEF Crash, LoopPhase, diskVars
  <1>12. ASSUME NEW e \in Executor, Restart(e) PROVE WorkerTypeOK'
    BY <1>0, <1>12, MailKept DEF Restart, BeginSettle, LoopPhase, diskVars, historyVars, hubVars
  <1>13. ASSUME NEW j \in Job, Client(j) PROVE WorkerTypeOK'
    <2>1. /\ UNCHANGED <<diskVars, loopVars, stopAsked, mail>>
          /\ budget' \in [{"calls", "crashes", "losses"} -> Nat]
          /\ fresh' \in [Executor -> BOOLEAN] /\ orphan' \in [Job -> BOOLEAN]
      <3>1. CASE ClientSubmit(j)
        BY <3>1 DEF ClientSubmit, workerVars, historyVars
      <3>2. CASE ClientStop(j)
        BY <3>2, SpendType DEF ClientStop, historyVars
      <3>3. CASE ClientResume(j)
        BY <3>3, SpendType DEF ClientResume
      <3>4. CASE ClientAnswer(j)
        BY <3>4, SpendType DEF ClientAnswer, historyVars
      <3> QED BY <1>13, <3>1, <3>2, <3>3, <3>4 DEF Client
    <2>2. mail' \in [Executor -> Mail']
      BY <1>0, <2>1, MailKept
    <2> QED BY <2>1, <2>2 DEF diskVars, loopVars
  <1>14. CASE UNCHANGED allVars
    BY <1>0, <1>14, MailKept DEF allVars, workerVars, diskVars, loopVars, historyVars, hubVars
  <1> QED
    BY <1>1, <1>2, <1>3, <1>4, <1>5, <1>6, <1>7, <1>8, <1>9, <1>10, <1>11, <1>12, <1>13, <1>14
    DEF WorkerNext, ClaimLoop, PollLoop

\* The state of the executors keeps its types, and the claim loop its shape.
THEOREM WorkerTypeCorrect == WorkerSpec => [](HubTypeOK /\ WorkerTypeOK)
  <1>1. WorkerInit => HubTypeOK /\ WorkerTypeOK
    BY HubAssumption, WorkerAssumption
    DEF WorkerInit, HubInit, HubTypeOK, Status, WorkerTypeOK, LoopShape, LoopPhase, NoMail, Mail
  <1>2. HubTypeOK /\ WorkerTypeOK /\ [WorkerNext]_allVars => HubTypeOK' /\ WorkerTypeOK'
    BY WorkerStepIsHubStep, HubTypeStep, WorkerTypeStep
  <1> QED BY <1>1, <1>2, PTL DEF WorkerSpec

\* The composition implements the queue: the executors and the client use it
\* as HubSpec allows, so what is proved of the queue holds of the whole.
THEOREM WorkerImplementsHub == WorkerSpec => HubSpec
  <1>1. WorkerInit => HubInit
    BY DEF WorkerInit
  <1>2. HubTypeOK /\ WorkerTypeOK /\ [WorkerNext]_allVars => [HubNext]_hubVars
    BY WorkerStepIsHubStep
  <1> QED BY <1>1, <1>2, WorkerTypeCorrect, PTL DEF WorkerSpec, HubSpec

-----------------------------------------------------------------------------
(* Runs and who knows of them.                                             *)

\* The executor's run is not one an answer began on its own.
RunsAt(e, j) == status[j] = "running" /\ executor[j] = e /\ j \notin presumed

\* The hub has answered that the executor's part is over.
Finished(e) ==
  \/ answer[e] = "ok"
  \/ answer[e] = "refused" /\ out[e] = "failed" /\ phase[e] \in {"settle", "recover"}

\* A test job never waits for its owner; what the hub has taken, or refused to
\* fail, does not run there any more; what an executor holds and may report on
\* is its own latest run.
NoneAsks     == \A j \in Job : status[j] # "waiting_owner"
FinishedOver == \A e \in Executor : Finished(e) => ~RunsAt(e, task[e])
HeldFresh    == \A e \in Executor : Holds(e) # NoJob /\ RunsAt(e, Holds(e)) => fresh[e]

RunInv == KnownRuns /\ NoneAsks /\ FinishedOver /\ HeldFresh

\* A message the hub takes ends the run or gives it back, and touches no
\* other job.
LEMMA HubPostEffect ==
  ASSUME HubTypeOK, NEW e \in Executor, NEW j \in Job,
         NEW kind \in {"test_done", "stopped", "failed", "requeue"}, HubPost(e, j, kind)
  PROVE  /\ status'[j] \notin {"running", "waiting_owner"}
         /\ \A i \in Job \ {j} : status'[i] = status[i] /\ executor'[i] = executor[i]
         /\ presumed' = presumed
  <1> USE DEF HubTypeOK, history
  <1>1. CASE kind = "requeue"
    <2>1. Requeue(e, j)
      BY <1>1 DEF HubPost
    <2> QED BY <2>1 DEF Requeue
  <1>2. CASE kind # "requeue" /\ Report(e, j, kind)
    <2>1. Target[kind] \in {"done", "failed", "stopped"}
      BY <1>2 DEF Target
    <2> QED BY <1>2, <2>1 DEF Report
  <1>3. CASE ConfirmStop(e, j)
    BY <1>3 DEF ConfirmStop, CanConfirmStop
  <1> QED BY <1>1, <1>2, <1>3 DEF HubPost

\* What the hub refuses to fail or to take back does not run there.
LEMMA RefusedFailedOver ==
  ASSUME NEW e \in Executor, NEW j \in Job, ~HubTakes(e, j, "failed")
  PROVE  ~RunsAt(e, j)
  BY DEF HubTakes, CanReport, KindFits, Target, Transition, RunsAt

\* Between two moments of the executors at which the hub does nothing, the
\* invariant can only be lost by what the executor forgets.
LEMMA WorkerOnlyStep ==
  ASSUME HubTypeOK, ActiveHasExecutor, WorkerTypeOK, RunInv, NEW e \in Executor,
         UNCHANGED <<status, executor, presumed, orphan, fresh>>,
         \A x \in Executor \ {e} :
           /\ current'[x] = current[x] /\ phase'[x] = phase[x] /\ task'[x] = task[x]
           /\ answer'[x] = answer[x] /\ out'[x] = out[x],
         Finished(e)' => Finished(e) /\ task'[e] = task[e],
         Holds(e)' \in {Holds(e), NoJob},
         \A j \in Job :
           (current[e] = j \/ (phase[e] = "granted" /\ task[e] = j)) /\ RunsAt(e, j)
             => current'[e] = j \/ (phase'[e] = "granted" /\ task'[e] = j)
  PROVE  RunInv'
  <1>1. KnownRuns'
    <2> SUFFICES ASSUME NEW j \in Job, status[j] = "running", ~orphan[j], j \notin presumed
                 PROVE  LET x == executor[j] IN
                        current'[x] = j \/ (phase'[x] = "granted" /\ task'[x] = j)
      BY DEF KnownRuns
    <2>1. executor[j] \in Executor
      BY DEF ActiveHasExecutor, ActiveStatus
    <2>2. LET x == executor[j] IN current[x] = j \/ (phase[x] = "granted" /\ task[x] = j)
      BY DEF RunInv, KnownRuns
    <2>3. CASE executor[j] = e
      BY <2>2, <2>3 DEF RunsAt
    <2>4. CASE executor[j] # e
      BY <2>1, <2>2, <2>4
    <2> QED BY <2>3, <2>4
  <1>2. FinishedOver'
    BY DEF RunInv, FinishedOver, Finished, RunsAt
  <1>3. HeldFresh'
    BY DEF RunInv, HeldFresh, Holds, RunsAt
  <1> QED BY <1>1, <1>2, <1>3 DEF RunInv, NoneAsks

LEMMA RunInvStep ==
  ASSUME HubTypeOK, ActiveHasExecutor, WorkerTypeOK, RunInv, [WorkerNext]_allVars
  PROVE  RunInv'
  <1> USE DEF HubTypeOK, WorkerTypeOK, LoopShape, history
  <1>1. ASSUME NEW e \in Executor, NEW j \in Job, ClaimCall(e, j) PROVE RunInv'
    <2>1. /\ status' = [status EXCEPT ![j] = "running"]
          /\ executor' = [executor EXCEPT ![j] = e]
          /\ presumed' = presumed \ {j}
          /\ phase[e] = "idle" /\ current[e] = NoJob /\ task[e] = NoJob
          /\ current' = current /\ out' = out /\ answer' = answer
          /\ fresh' = [x \in Executor |-> x = e \/ (fresh[x] /\ Holds(x) # j)]
      BY <1>1 DEF ClaimCall, Claim, diskVars
    <2>2. \/ /\ phase' = [phase EXCEPT ![e] = "granted"]
             /\ task' = [task EXCEPT ![e] = j]
             /\ orphan' = [orphan EXCEPT ![j] = FALSE]
          \/ /\ phase' = phase /\ task' = task
             /\ orphan' = [orphan EXCEPT ![j] = TRUE]
      BY <1>1 DEF ClaimCall
    <2>3. KnownRuns'
      <3> SUFFICES ASSUME NEW i \in Job, status'[i] = "running", ~orphan'[i], i \notin presumed'
                   PROVE  LET x == executor'[i] IN
                          current'[x] = i \/ (phase'[x] = "granted" /\ task'[x] = i)
        BY DEF KnownRuns
      <3>1. CASE i = j
        BY <2>1, <2>2, <3>1
      <3>2. CASE i # j
        <4>1. /\ status[i] = "running" /\ executor'[i] = executor[i] /\ ~orphan[i]
              /\ i \notin presumed
          BY <2>1, <2>2, <3>2
        <4>2. executor[i] \in Executor
          BY <4>1 DEF ActiveHasExecutor, ActiveStatus
        <4>3. LET x == executor[i] IN current[x] = i \/ (phase[x] = "granted" /\ task[x] = i)
          BY <4>1 DEF RunInv, KnownRuns
        <4>4. executor[i] # e
          BY <2>1, <4>3, WorkerAssumption
        <4> QED BY <2>1, <2>2, <4>1, <4>2, <4>3, <4>4
      <3> QED BY <3>1, <3>2
    <2>4. NoneAsks'
      BY <2>1 DEF RunInv, NoneAsks
    <2>5. FinishedOver'
      <3> SUFFICES ASSUME NEW x \in Executor, Finished(x)'
                   PROVE  ~RunsAt(x, task[x])'
        BY DEF FinishedOver
      <3>1. x # e
        BY <2>1, <2>2 DEF Finished
      <3>2. Finished(x) /\ task'[x] = task[x]
        BY <2>1, <2>2, <3>1 DEF Finished
      <3>3. ~RunsAt(x, task[x])
        BY <3>2 DEF RunInv, FinishedOver
      <3>4. CASE task[x] = j
        BY <2>1, <3>1, <3>2, <3>4 DEF RunsAt
      <3>5. CASE task[x] # j
        BY <2>1, <3>2, <3>3, <3>5, WorkerAssumption DEF RunsAt
      <3> QED BY <3>4, <3>5
    <2>6. HeldFresh'
      <3> SUFFICES ASSUME NEW x \in Executor, Holds(x)' # NoJob, RunsAt(x, Holds(x))'
                   PROVE  fresh'[x]
        BY DEF HeldFresh
      <3>1. CASE x = e
        BY <2>1, <3>1
      <3>2. CASE x # e
        <4>1. Holds(x)' = Holds(x) /\ Holds(x) \in Job
          BY <2>1, <2>2, <3>2 DEF Holds
        <4>2. Holds(x) # j
          BY <2>1, <3>2, <4>1 DEF RunsAt
        <4>3. RunsAt(x, Holds(x))
          BY <2>1, <4>1, <4>2 DEF RunsAt
        <4> QED BY <2>1, <4>1, <4>2, <4>3, WorkerAssumption DEF RunInv, HeldFresh
      <3> QED BY <3>1, <3>2
    <2> QED BY <2>3, <2>4, <2>5, <2>6 DEF RunInv
  <1>2. ASSUME NEW e \in Executor, Handle(e) PROVE RunInv'
    <2>1. task[e] \in Job /\ task[e] # NoJob /\ current[e] = NoJob
      BY <1>2, WorkerAssumption DEF Handle
    <2>2. Holds(e)' = Holds(e)
      BY <1>2, <2>1 DEF Handle, Holds
    <2>3. Finished(e)' => Finished(e)
      BY <1>2 DEF Handle, Finished
    <2> QED BY <1>2, <2>1, <2>2, <2>3, WorkerOnlyStep, WorkerAssumption
            DEF Handle, historyVars, hubVars
  <1>3. ASSUME NEW e \in Executor, Prepare(e) PROVE RunInv'
    BY <1>3, WorkerOnlyStep DEF Prepare, Send, diskVars, historyVars, hubVars, Finished, Holds
  <1>4. ASSUME NEW e \in Executor, TestEnds(e) PROVE RunInv'
    BY <1>4, WorkerOnlyStep DEF TestEnds, Send, diskVars, historyVars, hubVars, Finished, Holds
  <1>5. ASSUME NEW e \in Executor, PostCall(e) PROVE RunInv'
    <2> DEFINE j == task[e]
    <2>1. /\ j \in Job /\ current[e] = j /\ phase[e] # "granted"
          /\ out[e] \in {"test_done", "stopped", "failed", "requeue"}
      BY <1>5, SendsAboutJob DEF PostCall
    <2>2. /\ UNCHANGED <<current, phase, task, out, fresh, orphan>>
          /\ \A x \in Executor \ {e} : answer'[x] = answer[x]
      BY <1>5 DEF PostCall, Got, diskVars, historyVars
    <2>3. CASE HubPost(e, j, out[e])
      <3>1. /\ status'[j] \notin {"running", "waiting_owner"}
            /\ \A i \in Job \ {j} : status'[i] = status[i] /\ executor'[i] = executor[i]
            /\ presumed' = presumed
        BY <2>1, <2>3, HubPostEffect
      <3> HIDE DEF j
      <3>2. KnownRuns'
        BY <2>2, <3>1 DEF RunInv, KnownRuns
      <3>3. NoneAsks'
        BY <3>1 DEF RunInv, NoneAsks
      <3>4. FinishedOver'
        BY <2>1, <2>2, <3>1 DEF RunInv, FinishedOver, Finished, RunsAt, j
      <3>5. HeldFresh'
        BY <2>1, <2>2, <3>1 DEF RunInv, HeldFresh, Holds, RunsAt
      <3> QED BY <3>2, <3>3, <3>4, <3>5 DEF RunInv
    <2>4. CASE Got(e, "error") /\ UNCHANGED hubVars
      BY <2>2, <2>4, WorkerOnlyStep DEF hubVars, Got, Finished, Holds
    <2>5. CASE ~HubTakes(e, j, out[e]) /\ Got(e, "refused") /\ UNCHANGED hubVars
      <3>1. out[e] = "failed" => ~RunsAt(e, j)
        BY <2>1, <2>5, RefusedFailedOver
      <3>2. answer'[e] = "refused" /\ UNCHANGED <<status, executor, presumed>>
        BY <2>5 DEF Got, hubVars
      <3>3. KnownRuns'
        BY <2>2, <3>2 DEF RunInv, KnownRuns
      <3>4. NoneAsks'
        BY <3>2 DEF RunInv, NoneAsks
      <3>5. FinishedOver'
        BY <2>2, <3>1, <3>2 DEF RunInv, FinishedOver, Finished, RunsAt
      <3>6. HeldFresh'
        BY <2>2, <3>2 DEF RunInv, HeldFresh, Holds, RunsAt
      <3> QED BY <3>3, <3>4, <3>5, <3>6 DEF RunInv
    <2> QED BY <1>5, <2>3, <2>4, <2>5 DEF PostCall
  <1>6. ASSUME NEW e \in Executor, HandleAnswered(e) PROVE RunInv'
    <2>1. current[e] = task[e] /\ task[e] \in Job /\ task[e] # NoJob /\ phase[e] = "close"
      BY <1>6, WorkerAssumption DEF HandleAnswered
    <2>2. CASE answer[e] = "ok" /\ Leave(e) /\ ClearCurrent(e)
      <3>1. ~RunsAt(e, current[e])
        BY <2>1, <2>2 DEF RunInv, FinishedOver, Finished
      <3> QED BY <1>6, <2>1, <2>2, <3>1, WorkerOnlyStep
              DEF HandleAnswered, Leave, ClearCurrent, historyVars, hubVars, Finished, Holds
    <2>3. CASE Send(e, "failed") /\ UNCHANGED <<task, stopAsked, current, pendingFailed>>
      BY <1>6, <2>1, <2>3, WorkerOnlyStep
      DEF HandleAnswered, Send, historyVars, hubVars, Finished, Holds
    <2>4. CASE Leave(e) /\ UNCHANGED current
      BY <1>6, <2>1, <2>4, WorkerOnlyStep
      DEF HandleAnswered, Leave, historyVars, hubVars, Finished, Holds
    <2> QED BY <1>6, <2>2, <2>3, <2>4 DEF HandleAnswered
  <1>7. ASSUME NEW e \in Executor, Settle(e) PROVE RunInv'
    BY <1>7, WorkerOnlyStep, WorkerAssumption
    DEF Settle, BeginSettle, diskVars, historyVars, hubVars, Finished, Holds
  <1>8. ASSUME NEW e \in Executor, SettleAnswered(e) PROVE RunInv'
    <2>1. current[e] = task[e] /\ task[e] \in Job /\ task[e] # NoJob
      BY <1>8, WorkerAssumption DEF SettleAnswered
    <2>2. CASE Leave(e) /\ ClearCurrent(e) /\ Finished(e)
      <3>1. ~RunsAt(e, current[e])
        BY <2>1, <2>2 DEF RunInv, FinishedOver
      <3> QED BY <1>8, <2>1, <2>2, <3>1, WorkerOnlyStep
              DEF SettleAnswered, Leave, ClearCurrent, historyVars, hubVars, Finished, Holds
    <2>3. CASE Leave(e) /\ UNCHANGED current
      BY <1>8, <2>1, <2>3, WorkerOnlyStep
      DEF SettleAnswered, Leave, historyVars, hubVars, Finished, Holds
    <2>4. CASE /\ out' = [out EXCEPT ![e] = "failed"]
               /\ answer' = [answer EXCEPT ![e] = "none"]
               /\ UNCHANGED <<phase, task, stopAsked, current, pendingFailed>>
      <3>1. UNCHANGED <<status, executor, presumed, orphan, fresh>>
        BY <1>8 DEF SettleAnswered, historyVars, hubVars
      <3>2. ~Finished(e)'
        BY <2>4 DEF Finished
      <3>3. Holds(e)' = Holds(e)
        BY <2>4 DEF Holds
      <3> QED BY <2>4, <3>1, <3>2, <3>3, WorkerOnlyStep
    <2> QED BY <1>8, <2>2, <2>3, <2>4 DEF SettleAnswered, Finished
  <1>9. ASSUME NEW e \in Executor, PollLoop(e) PROVE RunInv'
    BY <1>9, WorkerOnlyStep
    DEF PollLoop, PollCall, PollStops, PollEnds, Poll, diskVars, loopVars, historyVars, hubVars,
        Finished, Holds
  <1>10. ASSUME NEW e \in Executor, Crash(e) PROVE RunInv'
    <2>1. /\ UNCHANGED <<status, executor, presumed, current, fresh>>
          /\ phase' = [phase EXCEPT ![e] = "off"]
          /\ task' = [task EXCEPT ![e] = NoJob]
          /\ out' = [out EXCEPT ![e] = "none"]
          /\ answer' = [answer EXCEPT ![e] = "none"]
          /\ orphan' = [j \in Job |-> orphan[j] \/ (phase[e] = "granted" /\ task[e] = j)]
      BY <1>10 DEF Crash, diskVars, hubVars
    <2>2. KnownRuns'
      <3> SUFFICES ASSUME NEW j \in Job, status[j] = "running", ~orphan'[j], j \notin presumed
                   PROVE  LET x == executor[j] IN
                          current[x] = j \/ (phase'[x] = "granted" /\ task'[x] = j)
        BY <2>1 DEF KnownRuns
      <3>1. executor[j] \in Executor
        BY DEF ActiveHasExecutor, ActiveStatus
      <3>2. LET x == executor[j] IN current[x] = j \/ (phase[x] = "granted" /\ task[x] = j)
        BY <2>1 DEF RunInv, KnownRuns
      <3>3. CASE executor[j] = e
        <4>1. ~(phase[e] = "granted" /\ task[e] = j)
          BY <2>1
        <4> QED BY <3>2, <3>3, <4>1
      <3>4. CASE executor[j] # e
        BY <2>1, <3>1, <3>2, <3>4
      <3> QED BY <3>3, <3>4
    <2>3. NoneAsks' /\ FinishedOver'
      BY <2>1 DEF RunInv, NoneAsks, FinishedOver, Finished, RunsAt
    <2>4. HeldFresh'
      <3>1. \A x \in Executor : Holds(x)' # NoJob => Holds(x)' = Holds(x)
        <4>1. \A x \in Executor \ {e} : Holds(x)' = Holds(x)
          BY <2>1 DEF Holds
        <4>2. task[e] # NoJob => current[e] \in {NoJob, task[e]}
          BY DEF LoopPhase
        <4>3. Holds(e)' # NoJob => Holds(e)' = Holds(e)
          BY <2>1, <4>2 DEF Holds
        <4> QED BY <4>1, <4>3
      <3> QED BY <2>1, <3>1 DEF RunInv, HeldFresh, RunsAt
    <2> QED BY <2>2, <2>3, <2>4 DEF RunInv
  <1>11. ASSUME NEW e \in Executor, Restart(e) PROVE RunInv'
    BY <1>11, WorkerOnlyStep, WorkerAssumption
    DEF Restart, BeginSettle, diskVars, historyVars, hubVars, Finished, Holds
  <1>12. ASSUME NEW j \in Job, Client(j) PROVE RunInv'
    <2>1. /\ UNCHANGED <<current, phase, task, out, answer>>
          /\ UNCHANGED executor
          /\ \A i \in Job \ {j} : orphan'[i] = orphan[i]
          /\ \A x \in Executor : Holds(x) # j => fresh'[x] = fresh[x]
      BY <1>12
      DEF Client, ClientSubmit, ClientStop, ClientResume, ClientAnswer, Submit, Stop, Resume,
          Answer, workerVars, diskVars, loopVars, historyVars
    <2>2. /\ \A i \in Job \ {j} : status'[i] = status[i] /\ (i \in presumed' <=> i \in presumed)
          /\ \/ status'[j] \in {"queued", "stopped"}
             \/ status'[j] = "running" /\ j \in presumed'
      <3>1. CASE ClientAnswer(j)
        BY <3>1 DEF ClientAnswer, Answer, RunInv, NoneAsks
      <3>2. CASE ~ClientAnswer(j)
        BY <1>12, <3>2 DEF Client, ClientSubmit, ClientStop, ClientResume, Submit, Stop, Resume
      <3> QED BY <3>1, <3>2
    <2>3. KnownRuns'
      BY <2>1, <2>2 DEF RunInv, KnownRuns
    <2>4. NoneAsks'
      BY <2>2 DEF RunInv, NoneAsks
    <2>5. FinishedOver'
      BY <2>1, <2>2 DEF RunInv, FinishedOver, Finished, RunsAt
    <2>6. HeldFresh'
      <3>1. \A x \in Executor : Holds(x)' = Holds(x)
        BY <2>1 DEF Holds
      <3>2. \A x \in Executor : Holds(x) # NoJob => Holds(x) \in Job
        BY DEF Holds
      <3> QED BY <2>1, <2>2, <3>1, <3>2 DEF RunInv, HeldFresh, RunsAt
    <2> QED BY <2>3, <2>4, <2>5, <2>6 DEF RunInv
  <1>13. CASE UNCHANGED allVars
    BY <1>13 DEF allVars, workerVars, diskVars, loopVars, historyVars, hubVars, RunInv,
                 KnownRuns, NoneAsks, FinishedOver, HeldFresh, Finished, RunsAt, Holds
  <1> QED
    BY <1>1, <1>2, <1>3, <1>4, <1>5, <1>6, <1>7, <1>8, <1>9, <1>10, <1>11, <1>12, <1>13
    DEF WorkerNext, ClaimLoop

\* A verdict the hub would take is about the job's present run.
LEMMA RunInvGivesOwnVerdicts ==
  ASSUME WorkerTypeOK, RunInv
  PROVE  OwnVerdicts
  <1> SUFFICES ASSUME NEW e \in Executor, phase[e] \in {"close", "settle", "recover"},
                      out[e] # "stopped", HubTakes(e, task[e], out[e]),
                      task[e] \notin presumed
               PROVE  fresh[e]
    BY DEF OwnVerdicts
  <1>1. task[e] \in Job /\ out[e] \in {"test_done", "failed", "requeue"}
    BY SendsAboutJob
  <1>2. status[task[e]] # "waiting_owner"
    BY <1>1 DEF RunInv, NoneAsks
  <1>3. RunsAt(e, task[e])
    BY <1>1, <1>2
    DEF HubTakes, CanRequeue, CanReport, Target, Transition, RunsAt
  <1>4. Holds(e) = task[e] /\ Holds(e) # NoJob
    BY <1>1, WorkerAssumption DEF Holds
  <1> QED BY <1>3, <1>4 DEF RunInv, HeldFresh

\* A job an executor has claimed and runs is known to it, in its state.json or
\* as the reply to its claim, so no such run is dropped before the hub has its
\* end; and a verdict the hub would take is about the job's present run.  A run
\* an answer began before a claim is excepted (presumed), whoever sent it and
\* whenever.
THEOREM WorkerKnownRuns == WorkerSpec => [](KnownRuns /\ OwnVerdicts)
  <1>1. WorkerInit => RunInv
    BY DEF WorkerInit, HubInit, RunInv, KnownRuns, NoneAsks, FinishedOver, HeldFresh,
           Finished, RunsAt, Holds
  <1>2. HubTypeOK /\ WorkerTypeOK /\ ActiveHasExecutor /\ RunInv /\ [WorkerNext]_allVars
          => RunInv'
    BY RunInvStep
  <1>3. WorkerTypeOK /\ RunInv => KnownRuns /\ OwnVerdicts
    BY RunInvGivesOwnVerdicts DEF RunInv
  <1>4. WorkerSpec => [](RunsAccounted /\ ActiveHasExecutor)
    BY WorkerImplementsHub, HubRunsAccounted, PTL
  <1> QED BY <1>1, <1>2, <1>3, <1>4, WorkerTypeCorrect, PTL DEF WorkerSpec

\* Of an executor's verdicts on a job that was claimed the hub takes only those
\* about the present run.
THEOREM WorkerOwnVerdicts == WorkerSpec => []OwnVerdicts
  BY WorkerKnownRuns, PTL

=============================================================================
