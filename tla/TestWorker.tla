----------------------------- MODULE TestWorker -----------------------------
(***************************************************************************)
(* The test executors of devlab against the hub's queue                    *)
(* (devlab/executor/worker.py, class TestWorker, and the HTTP calls of     *)
(* executor/hub.py), composed with HubQueue.                               *)
(*                                                                         *)
(* An executor runs two asyncio tasks: the claim loop takes a job, tests   *)
(* it and reports, and the poll loop reads the mailbox.  A call to the hub *)
(* is two steps, the hub's and the worker's; in between, the other task    *)
(* runs, other actors call the hub, the reply is lost or the process dies. *)
(* What survives a crash is state.json; what does not is the rest.         *)
(*                                                                         *)
(* Left out: the test itself, the logs, the heartbeat, and the removal of  *)
(* the branch test/*.  All jobs here are test jobs.                        *)
(***************************************************************************)
EXTENDS HubQueue

CONSTANTS
  NoJob,      \* current is None
  MaxCalls,   \* bound: stops, resumes and answers of the client
  MaxCrashes, \* bound: deaths of an executor's process
  MaxLosses   \* bound: HTTP calls that fail on the way there or back

ASSUME WorkerAssumption ==
  /\ TestJob = Job
  /\ NoJob \notin Job
  /\ MaxCalls \in Nat /\ MaxCrashes \in Nat /\ MaxLosses \in Nat

VARIABLES
  cursor,        \* state.json: the last letter read
  current,       \* state.json: the job whose end the hub has not confirmed
  pendingFailed, \* state.json: a "failed" that could not be delivered
  phase,         \* where the claim loop is
  task,          \* the job it is at
  out,           \* the message it sends to the hub
  answer,        \* what came back for it
  stopAsked,     \* task \in self._stopped
  mail,          \* what a poll brought and is still to be handled
  fresh,         \* history: the job it holds was neither resumed nor claimed since
  orphan,        \* history: claimed, but the claimer never learnt of it
  budget         \* what is left of the three bounds

diskVars   == <<cursor, current, pendingFailed>>
loopVars   == <<phase, task, out, answer>>
historyVars == <<fresh, orphan>>
workerVars == <<diskVars, loopVars, stopAsked, mail, historyVars, budget>>
allVars    == <<hubVars, workerVars>>

\* What a poll brought: the letters still to be handled, and its last seq.
Mail   == [letters : SUBSET messages, upto : 0..MaxSeq]
NoMail == [letters |-> {}, upto |-> 0]

LoopPhase == {"off", "recover", "idle", "settle", "granted", "prepare", "test", "close"}

\* The job an executor still has to answer for.
Holds(e) == IF task[e] # NoJob THEN task[e] ELSE current[e]

-----------------------------------------------------------------------------
WorkerInit ==
  /\ HubInit
  /\ cursor = [e \in Executor |-> 0]
  /\ current = [e \in Executor |-> NoJob]
  /\ pendingFailed = [e \in Executor |-> FALSE]
  /\ phase = [e \in Executor |-> "idle"]
  /\ task = [e \in Executor |-> NoJob]
  /\ out = [e \in Executor |-> "none"]
  /\ answer = [e \in Executor |-> "none"]
  /\ stopAsked = [e \in Executor |-> FALSE]
  /\ mail = [e \in Executor |-> NoMail]
  /\ fresh = [e \in Executor |-> FALSE]
  /\ orphan = [j \in Job |-> FALSE]
  /\ budget = [calls |-> MaxCalls, crashes |-> MaxCrashes, losses |-> MaxLosses]

Spend(what) == budget[what] > 0 /\ budget' = [budget EXCEPT ![what] = @ - 1]

-----------------------------------------------------------------------------
(* The client.                                                             *)

ClientSubmit(j) == Submit(j) /\ UNCHANGED workerVars

ClientStop(j) ==
  /\ Spend("calls")
  /\ Stop(j)
  /\ UNCHANGED <<diskVars, loopVars, stopAsked, mail, historyVars>>

ClientResume(j) ==
  /\ Spend("calls")
  /\ Resume(j)
  /\ fresh' = [e \in Executor |-> fresh[e] /\ Holds(e) # j]
  /\ orphan' = [orphan EXCEPT ![j] = FALSE]
  /\ UNCHANGED <<diskVars, loopVars, stopAsked, mail>>

\* The hub takes an answer to a test job too, as long as the job is queued.
ClientAnswer(j) ==
  /\ Spend("calls")
  /\ Answer(j)
  /\ UNCHANGED <<diskVars, loopVars, stopAsked, mail, historyVars>>

-----------------------------------------------------------------------------
(* The claim loop: claim_once with nothing left over, handle, _run_job.    *)

\* The hub gives the job out; the reply arrives or is lost.
ClaimCall(e, j) ==
  /\ phase[e] = "idle"
  /\ current[e] = NoJob
  /\ Claim(e, j, TestJob)
  /\ fresh' = [x \in Executor |-> x = e \/ (fresh[x] /\ Holds(x) # j)]
  /\ \/ /\ phase' = [phase EXCEPT ![e] = "granted"]
        /\ task' = [task EXCEPT ![e] = j]
        /\ orphan' = [orphan EXCEPT ![j] = FALSE]
        /\ UNCHANGED budget
     \/ /\ Spend("losses")
        /\ orphan' = [orphan EXCEPT ![j] = TRUE]
        /\ UNCHANGED <<phase, task>>
  /\ UNCHANGED <<diskVars, out, answer, stopAsked, mail>>

\* mutant: state.json is not written before the work starts
HandleUnsaved(e) ==
  /\ phase[e] = "granted"
  /\ phase' = [phase EXCEPT ![e] = "prepare"]
  /\ UNCHANGED <<hubVars, diskVars, task, out, answer, stopAsked, mail, historyVars, budget>>

\* handle: _current and state.json are set, then the sources are fetched.
Handle(e) ==
  /\ phase[e] = "granted"
  /\ phase' = [phase EXCEPT ![e] = "prepare"]
  /\ current' = [current EXCEPT ![e] = task[e]]
  /\ UNCHANGED <<hubVars, cursor, pendingFailed, task, out, answer, stopAsked, mail,
                 historyVars, budget>>

\* Whatever the handler sends next, it sends as the verdict on its task.
Send(e, kind) ==
  /\ phase' = [phase EXCEPT ![e] = "close"]
  /\ out' = [out EXCEPT ![e] = kind]
  /\ answer' = [answer EXCEPT ![e] = "none"]

\* _run_job up to the runner: git or the spec may fail it.
Prepare(e) ==
  /\ phase[e] = "prepare"
  /\ \/ Send(e, "failed")
     \/ stopAsked[e] /\ Send(e, "stopped")
     \/ /\ ~stopAsked[e]
        /\ phase' = [phase EXCEPT ![e] = "test"]
        /\ UNCHANGED <<out, answer>>
  /\ UNCHANGED <<hubVars, diskVars, task, stopAsked, mail, historyVars, budget>>

\* The runner ends: by itself, by its time limit, cancelled, or with an error.
TestEnds(e) ==
  /\ phase[e] = "test"
  /\ \/ Send(e, IF stopAsked[e] THEN "stopped" ELSE "test_done")
     \/ Send(e, "failed")
  /\ UNCHANGED <<hubVars, diskVars, task, stopAsked, mail, historyVars, budget>>

-----------------------------------------------------------------------------
(* A message to the hub: ExecutorHub.post and the handler at its far end.  *)

HubTakes(e, j, kind) ==
  CASE kind = "requeue" -> CanRequeue(e, j)
    [] kind = "stopped" -> CanReport(e, j, kind) \/ CanConfirmStop(e, j)
    [] OTHER            -> CanReport(e, j, kind)

HubPost(e, j, kind) ==
  \/ kind = "requeue" /\ Requeue(e, j)
  \/ kind = "stopped" /\ ConfirmStop(e, j)
  \/ kind # "requeue" /\ Report(e, j, kind)

Got(e, reply) == answer' = [answer EXCEPT ![e] = reply]

\* Taken or refused by the hub's rules; or lost before the hub, or after.
\* An upload of the logs that fails before test_done is a loss of the first kind.
PostCall(e) ==
  /\ phase[e] \in {"close", "settle", "recover"}
  /\ answer[e] = "none"
  /\ \/ HubPost(e, task[e], out[e]) /\ Got(e, "ok") /\ UNCHANGED budget
     \/ HubPost(e, task[e], out[e]) /\ Got(e, "error") /\ Spend("losses")
     \/ /\ ~HubTakes(e, task[e], out[e])
        /\ Got(e, "refused")
        /\ UNCHANGED <<hubVars, budget>>
     \/ Got(e, "error") /\ Spend("losses") /\ UNCHANGED hubVars
  /\ UNCHANGED <<diskVars, phase, task, out, stopAsked, mail, historyVars>>

\* The end of handle (finally) and of _settle_orphan.
Leave(e) ==
  /\ phase' = [phase EXCEPT ![e] = "idle"]
  /\ task' = [task EXCEPT ![e] = NoJob]
  /\ out' = [out EXCEPT ![e] = "none"]
  /\ answer' = [answer EXCEPT ![e] = "none"]
  /\ stopAsked' = [stopAsked EXCEPT ![e] = FALSE]

ClearCurrent(e) ==
  /\ current' = [current EXCEPT ![e] = NoJob]
  /\ pendingFailed' = [pendingFailed EXCEPT ![e] = FALSE]

\* handle, once the hub has answered: any error of a verdict becomes a
\* "failed", and a "failed" that does not get through is kept in state.json.
HandleAnswered(e) ==
  /\ phase[e] = "close"
  /\ \/ answer[e] = "ok" /\ Leave(e) /\ ClearCurrent(e)
     \/ /\ answer[e] \in {"refused", "error"}
        /\ out[e] # "failed"
        /\ Send(e, "failed")
        /\ UNCHANGED <<task, stopAsked, current, pendingFailed>>
     \/ /\ answer[e] \in {"refused", "error"}
        /\ out[e] = "failed"
        /\ Leave(e)
        /\ pendingFailed' = [pendingFailed EXCEPT ![e] = TRUE]
        /\ UNCHANGED current
  /\ UNCHANGED <<hubVars, cursor, mail, historyVars, budget>>

\* _settle_orphan: a job left over is given back, or failed if that is what
\* could not be said before.
BeginSettle(e, where) ==
  /\ phase' = [phase EXCEPT ![e] = where]
  /\ task' = [task EXCEPT ![e] = current[e]]
  /\ out' = [out EXCEPT ![e] = IF pendingFailed[e] THEN "failed" ELSE "requeue"]

\* mutant: a "failed" that could not be delivered is never tried again
SettleOnlyUnreported(e) ==
  /\ phase[e] = "idle"
  /\ current[e] # NoJob
  /\ ~pendingFailed[e]
  /\ BeginSettle(e, "settle")
  /\ UNCHANGED <<hubVars, diskVars, answer, stopAsked, mail, historyVars, budget>>

\* claim_once with a job left over
Settle(e) ==
  /\ phase[e] = "idle"
  /\ current[e] # NoJob
  /\ BeginSettle(e, "settle")
  /\ UNCHANGED <<hubVars, diskVars, answer, stopAsked, mail, historyVars, budget>>

\* mutant: an error of the network counts as delivered
SettleTrustsErrors(e) ==
  /\ phase[e] \in {"settle", "recover"}
  /\ answer[e] # "none"
  /\ Leave(e)
  /\ ClearCurrent(e)
  /\ UNCHANGED <<hubVars, cursor, mail, historyVars, budget>>

\* mutant: a refusal of both messages leaves the job for the next turn
SettleForever(e) ==
  /\ phase[e] \in {"settle", "recover"}
  /\ \/ answer[e] = "ok" /\ Leave(e) /\ ClearCurrent(e)
     \/ answer[e] \in {"refused", "error"} /\ Leave(e) /\ UNCHANGED <<current, pendingFailed>>
  /\ UNCHANGED <<hubVars, cursor, mail, historyVars, budget>>

\* _send_orphan: a refused requeue is followed by "failed"; a refused "failed"
\* means that the job is not this executor's any more; an error of the network
\* leaves everything for the next turn.
SettleAnswered(e) ==
  /\ phase[e] \in {"settle", "recover"}
  /\ \/ answer[e] = "ok" /\ Leave(e) /\ ClearCurrent(e)
     \/ answer[e] = "refused" /\ out[e] = "failed" /\ Leave(e) /\ ClearCurrent(e)
     \/ answer[e] = "error" /\ Leave(e) /\ UNCHANGED <<current, pendingFailed>>
     \/ /\ answer[e] = "refused"
        /\ out[e] = "requeue"
        /\ out' = [out EXCEPT ![e] = "failed"]
        /\ answer' = [answer EXCEPT ![e] = "none"]
        /\ UNCHANGED <<phase, task, stopAsked, current, pendingFailed>>
  /\ UNCHANGED <<hubVars, cursor, mail, historyVars, budget>>

-----------------------------------------------------------------------------
(* The poll loop: poll_once.                                               *)

PollCall(e) ==
  /\ phase[e] \notin {"off", "recover"}
  /\ mail[e] = NoMail
  /\ \E last \in Deliverable(e, cursor[e]) :
       /\ Poll(e, cursor[e], last.seq)
       /\ \/ /\ mail' = [mail EXCEPT ![e] = [letters |-> Page(e, cursor[e], last.seq),
                                            upto |-> last.seq]]
             /\ UNCHANGED budget
          \/ Spend("losses") /\ UNCHANGED mail
  /\ UNCHANGED <<diskVars, loopVars, stopAsked, historyVars>>

\* self._current: set by handle, and only while it runs.
InHand(e) == IF phase[e] \in {"prepare", "test", "close"} THEN task[e] ELSE NoJob

\* The letters that stop the job in hand.
Stops(e) == {m \in mail[e].letters : m.kind = "stop" /\ m.job = InHand(e)}

\* The stop is noted; the loop waits for the runner to be cancelled.
PollStops(e) ==
  /\ \E m \in Stops(e) :
       /\ \A x \in Stops(e) : m.seq <= x.seq
       /\ mail' = [mail EXCEPT ![e].letters = {x \in @ : x.seq > m.seq}]
  /\ stopAsked' = [stopAsked EXCEPT ![e] = TRUE]
  /\ UNCHANGED <<hubVars, diskVars, loopVars, historyVars, budget>>

\* The letters that are left stop nothing; the cursor is saved.
PollEnds(e) ==
  /\ mail[e] # NoMail
  /\ Stops(e) = {}
  /\ cursor' = [cursor EXCEPT ![e] = mail[e].upto]
  /\ mail' = [mail EXCEPT ![e] = NoMail]
  /\ UNCHANGED <<hubVars, current, pendingFailed, loopVars, stopAsked, historyVars, budget>>

-----------------------------------------------------------------------------
(* The process dies and is started again: only state.json is left.         *)

Crash(e) ==
  /\ phase[e] # "off"
  /\ Spend("crashes")
  /\ phase' = [phase EXCEPT ![e] = "off"]
  /\ task' = [task EXCEPT ![e] = NoJob]
  /\ out' = [out EXCEPT ![e] = "none"]
  /\ answer' = [answer EXCEPT ![e] = "none"]
  /\ stopAsked' = [stopAsked EXCEPT ![e] = FALSE]
  /\ mail' = [mail EXCEPT ![e] = NoMail]
  /\ orphan' = [j \in Job |-> orphan[j] \/ (phase[e] = "granted" /\ task[e] = j)]
  /\ UNCHANGED <<hubVars, diskVars, fresh>>

\* run: recover comes before the two loops start.
Restart(e) ==
  /\ phase[e] = "off"
  /\ \/ /\ current[e] = NoJob
        /\ phase' = [phase EXCEPT ![e] = "idle"]
        /\ UNCHANGED <<task, out>>
     \/ current[e] # NoJob /\ BeginSettle(e, "recover")
  /\ UNCHANGED <<hubVars, diskVars, answer, stopAsked, mail, historyVars, budget>>

-----------------------------------------------------------------------------
ClaimLoop(e) ==
  \/ \E j \in Job : ClaimCall(e, j)
  \/ Handle(e)
  \/ Prepare(e)
  \/ TestEnds(e)
  \/ PostCall(e)
  \/ HandleAnswered(e)
  \/ Settle(e)
  \/ SettleAnswered(e)

PollLoop(e) == PollCall(e) \/ PollStops(e) \/ PollEnds(e)

Client(j) == ClientSubmit(j) \/ ClientStop(j) \/ ClientResume(j) \/ ClientAnswer(j)

WorkerNext ==
  \/ \E e \in Executor : ClaimLoop(e) \/ PollLoop(e) \/ Crash(e) \/ Restart(e)
  \/ \E j \in Job : Client(j)

WorkerSpec == WorkerInit /\ [][WorkerNext]_allVars

\* The loops never end and the hub answers; a test has a time limit; the
\* service manager starts a dead process again.
Fairness == \A e \in Executor : /\ WF_allVars(ClaimLoop(e))
                                /\ WF_allVars(PollLoop(e))
                                /\ WF_allVars(Restart(e))

FairWorkerSpec == WorkerSpec /\ Fairness

-----------------------------------------------------------------------------
\* A job is at hand from the grant to the verdict, and from then on it is the
\* one of state.json; only where something is sent is there an answer.
LoopShape ==
  \A e \in Executor :
    /\ phase[e] \in {"off", "idle"} <=> task[e] = NoJob
    /\ phase[e] = "granted" => current[e] = NoJob
    /\ phase[e] \in {"prepare", "test", "close", "settle", "recover"} => current[e] = task[e]
    /\ phase[e] = "close" => out[e] \in {"test_done", "stopped", "failed"}
    /\ phase[e] \in {"settle", "recover"} => out[e] \in {"requeue", "failed"}
    /\ phase[e] \notin {"close", "settle", "recover"} => out[e] = "none" /\ answer[e] = "none"

\* The executor's state, on disk and in memory, and the shape of its claim loop.
WorkerTypeOK ==
  /\ cursor \in [Executor -> 0..MaxSeq]
  /\ current \in [Executor -> Job \cup {NoJob}]
  /\ pendingFailed \in [Executor -> BOOLEAN]
  /\ phase \in [Executor -> LoopPhase]
  /\ task \in [Executor -> Job \cup {NoJob}]
  /\ out \in [Executor -> {"none", "test_done", "stopped", "failed", "requeue"}]
  /\ answer \in [Executor -> {"none", "ok", "refused", "error"}]
  /\ stopAsked \in [Executor -> BOOLEAN]
  /\ mail \in [Executor -> Mail]
  /\ fresh \in [Executor -> BOOLEAN]
  /\ orphan \in [Job -> BOOLEAN]
  /\ budget \in [{"calls", "crashes", "losses"} -> Nat]
  /\ LoopShape

\* Whatever is lost or dies, the executor of a running job knows of it: it is
\* in its state.json, or the reply to its claim is on the way.  So no run is
\* dropped before the hub has its end.  The exceptions are a claim whose reply
\* was lost, as the hub has no record that it was not heard, and a run that an
\* answer began before any executor claimed it.
KnownRuns ==
  \A j \in Job : status[j] = "running" /\ ~orphan[j] /\ j \notin presumed =>
    LET e == executor[j] IN
    current[e] = j \/ (phase[e] = "granted" /\ task[e] = j)

\* A verdict or a give-back the hub would take is about the job's present run,
\* not about one before a resume or before another executor's claim: retries
\* and late answers never end a run that is not theirs, unless an answer before
\* the claim has made the run that of the job's old executor.
OwnVerdicts ==
  \A e \in Executor :
    /\ phase[e] \in {"close", "settle", "recover"}
    /\ answer[e] = "none"
    /\ out[e] # "stopped"
    /\ HubTakes(e, task[e], out[e])
    /\ task[e] \notin presumed
    => fresh[e]

\* A running job whose executor knows of it ends or goes back to the queue,
\* although processes die and calls get lost (finitely often).
RunsEnd ==
  \A j \in Job : status[j] = "running" ~> status[j] # "running" \/ orphan[j] \/ j \in presumed

\* An executor with a job left over in state.json gets rid of it and can claim
\* again; nothing the hub answers keeps it there.
CurrentClears ==
  \A e \in Executor : current[e] # NoJob ~> current[e] = NoJob

\* No queued job is forgotten.
QueueDrains ==
  \A j \in Job : status[j] = "queued" ~> status[j] # "queued"

=============================================================================
