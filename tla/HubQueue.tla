------------------------------ MODULE HubQueue ------------------------------
(***************************************************************************)
(* The job queue and the mailbox of the devlab hub                         *)
(* (devlab/hub/queue.py, class HubQueue; tables of devlab/protocol.py).    *)
(*                                                                         *)
(* Every public method of the class runs in one transaction under one      *)
(* lock, so each is one action.  A call the code refuses (HubError) writes *)
(* nothing: it is the absence of a step.  Callers are the client (MCP      *)
(* tools) and any executor (HTTP API), with no assumption on the order in  *)
(* which they call, nor on the status a job has when its answer comes;     *)
(* TestWorker.tla and AgentWorker.tla say what real executors do.          *)
(*                                                                         *)
(* Data the properties do not tell apart is left out: texts, spend, ids,   *)
(* models and base branches (a claim offers a set of agent jobs, those     *)
(* whose model and base fit) and the times of a job.                       *)
(***************************************************************************)
EXTENDS Integers, FiniteSets

CONSTANTS
  Job,             \* the ids _free_id may draw
  TestJob,         \* those submit_test takes (kind "test"); the others are "agent"
  Executor,        \* names of the tokens with role executor
  NoExecutor,      \* jobs.executor IS NULL
  Priority,        \* jobs.priority, by job
  TestMaxRequeues, \* protocol.TEST_MAX_REQUEUES
  MaxSeq           \* bound: messages the mailbox takes in one behaviour

ASSUME HubAssumption ==
  /\ IsFiniteSet(Job)  \* ids are six letters of an alphabet of 31
  /\ TestJob \subseteq Job
  /\ NoExecutor \notin Executor
  /\ Priority \in [Job -> Int]
  /\ TestMaxRequeues \in Nat
  /\ MaxSeq \in Nat

VARIABLES
  status,    \* jobs.status; "none": not submitted yet
  executor,  \* jobs.executor
  attempts,  \* jobs.params.attempts: how often the job was given back
  arrival,   \* jobs.seq, the order of submission (0: not submitted)
  messages,  \* the table messages
  lastSeq,   \* the last messages.seq AUTOINCREMENT gave out
  read,      \* the seq of the messages whose read_at is set
  runs,      \* history: how often the job was set to work since it was submitted
             \* or last resumed
  presumed   \* history: the jobs last set to work by an answer, not by a claim

history == <<runs, presumed>>
hubVars == <<status, executor, attempts, arrival, messages, lastSeq, read, history>>

-----------------------------------------------------------------------------
(* The tables of protocol.py.                                              *)

ActiveStatus   == {"running", "waiting_owner"}
TerminalStatus == {"done", "failed", "stopped"}
Status         == {"none", "queued"} \cup ActiveStatus \cup TerminalStatus

Transition ==
  {<<"queued", "running">>, <<"queued", "stopped">>,
   <<"running", "waiting_owner">>, <<"running", "done">>,
   <<"running", "failed">>, <<"running", "stopped">>,
   <<"waiting_owner", "running">>, <<"waiting_owner", "queued">>,
   <<"waiting_owner", "failed">>, <<"waiting_owner", "stopped">>,
   <<"done", "queued">>, <<"failed", "queued">>, <<"stopped", "queued">>}

\* What a message of an executor does to the status (MESSAGE_TARGET_STATUS);
\* started and step_done leave it, requeue has a rule of its own.
Target == [question |-> "waiting_owner", done |-> "done", failed |-> "failed",
           stopped |-> "stopped", test_done |-> "done"]

ProgressKind == {"started", "step_done"}
ReportKind   == {"question", "done", "failed", "stopped", "test_done"}
VerdictKind  == {"done", "failed", "stopped", "test_done"}
ClientKind   == {"answer", "resume", "stop", "release"}

Message == [seq : 1..MaxSeq, job : Job, to : {"client"},
            kind : ProgressKind \cup ReportKind \cup {"requeue"}]
           \cup [seq : 1..MaxSeq, job : Job, to : {"executor"}, kind : ClientKind]

-----------------------------------------------------------------------------
(* The mailbox.                                                            *)

Letter(seq, j, to, kind) == [seq |-> seq, job |-> j, to |-> to, kind |-> kind]

Post(j, to, kind) ==
  /\ lastSeq < MaxSeq
  /\ lastSeq' = lastSeq + 1
  /\ messages' = messages \cup {Letter(lastSeq + 1, j, to, kind)}

\* What poll(since, executor) returns: the join with jobs takes the executor
\* the job has now, not the one it had when the message was posted.
Deliverable(e, since) ==
  {m \in messages : m.to = "executor" /\ executor[m.job] = e /\ m.seq > since}

\* Its LIMIT, whatever it is: the oldest of them.
Page(e, since, upto) == {m \in Deliverable(e, since) : m.seq <= upto}

\* pending_work(): is there something to wake the executor's machine for?
PendingWork ==
  \/ \E j \in Job : status[j] = "queued"
  \/ \E m \in messages : /\ m.to = "executor"
                         /\ m.seq \notin read
                         /\ m.kind # "release"
                         /\ executor[m.job] # NoExecutor

-----------------------------------------------------------------------------
HubInit ==
  /\ status = [j \in Job |-> "none"]
  /\ executor = [j \in Job |-> NoExecutor]
  /\ attempts = [j \in Job |-> 0]
  /\ arrival = [j \in Job |-> 0]
  /\ messages = {}
  /\ lastSeq = 0
  /\ read = {}
  /\ runs = [j \in Job |-> 0]
  /\ presumed = {}

\* submit, submit_test
Submit(j) ==
  /\ status[j] = "none"
  /\ status' = [status EXCEPT ![j] = "queued"]
  /\ arrival' = [arrival EXCEPT ![j] = 1 + Cardinality({i \in Job : status[i] # "none"})]
  /\ UNCHANGED <<executor, attempts, messages, lastSeq, read, history>>

\* ORDER BY (kind = 'test') DESC, priority DESC, seq
Precedes(i, j) ==
  \/ i \in TestJob /\ j \notin TestJob
  \/ /\ i \in TestJob <=> j \in TestJob
     /\ \/ Priority[i] > Priority[j]
        \/ Priority[i] = Priority[j] /\ arrival[i] < arrival[j]

\* claim takes the first of the queued jobs that fit the caller.
First(j, offered) ==
  /\ j \in offered
  /\ status[j] = "queued"
  /\ \A i \in offered \ {j} : status[i] = "queued" => Precedes(j, i)

\* kinds and models: every test job or none, and the agent jobs that fit.
Offers == {S \in SUBSET Job : TestJob \subseteq S \/ TestJob \cap S = {}}

\* mutant: the name of the executor is not written
ClaimUnsigned(e, j, offered) ==
  /\ First(j, offered)
  /\ status' = [status EXCEPT ![j] = "running"]
  /\ runs' = [runs EXCEPT ![j] = @ + 1]
  /\ presumed' = presumed \ {j}
  /\ UNCHANGED <<executor, attempts, arrival, messages, lastSeq, read>>

Claim(e, j, offered) ==
  /\ First(j, offered)
  /\ status' = [status EXCEPT ![j] = "running"]
  /\ executor' = [executor EXCEPT ![j] = e]
  /\ runs' = [runs EXCEPT ![j] = @ + 1]
  /\ presumed' = presumed \ {j}
  /\ UNCHANGED <<attempts, arrival, messages, lastSeq, read>>

-----------------------------------------------------------------------------
(* post_from_executor, split by what it does with the kind.                *)

KindFits(j, kind) ==
  /\ kind = "test_done" => j \in TestJob
  /\ kind = "question" => j \notin TestJob

\* started, step_done
Progress(e, j, kind) ==
  /\ executor[j] = e
  /\ status[j] = "running"
  /\ Post(j, "client", kind)
  /\ UNCHANGED <<status, executor, attempts, arrival, read, history>>

\* mutant: _check_transition is not called
CanReportAnyTime(e, j, kind) == executor[j] = e /\ KindFits(j, kind)

\* mutant: an executor name is not compared with the caller
CanReportForeign(e, j, kind) ==
  /\ KindFits(j, kind)
  /\ <<status[j], Target[kind]>> \in Transition

CanReport(e, j, kind) ==
  /\ executor[j] = e
  /\ KindFits(j, kind)
  /\ <<status[j], Target[kind]>> \in Transition

\* question, done, failed, stopped, test_done
Report(e, j, kind) ==
  /\ CanReport(e, j, kind)
  /\ status' = [status EXCEPT ![j] = Target[kind]]
  /\ Post(j, "client", kind)
  /\ UNCHANGED <<executor, attempts, arrival, read, history>>

CanConfirmStop(e, j) == executor[j] = e /\ status[j] = "stopped"

\* stopped for a job the client has stopped: recorded, nothing else.
ConfirmStop(e, j) ==
  /\ CanConfirmStop(e, j)
  /\ Post(j, "client", "stopped")
  /\ UNCHANGED <<status, executor, attempts, arrival, read, history>>

CanRequeue(e, j) == executor[j] = e /\ j \in TestJob /\ status[j] = "running"

\* mutant: the limit of returns is off by one
RequeueOnceMore(e, j) ==
  /\ CanRequeue(e, j)
  /\ \/ /\ attempts[j] <= TestMaxRequeues
        /\ status' = [status EXCEPT ![j] = "queued"]
        /\ executor' = [executor EXCEPT ![j] = NoExecutor]
        /\ attempts' = [attempts EXCEPT ![j] = @ + 1]
        /\ Post(j, "client", "requeue")
     \/ /\ attempts[j] > TestMaxRequeues
        /\ status' = [status EXCEPT ![j] = "failed"]
        /\ Post(j, "client", "failed")
        /\ UNCHANGED <<executor, attempts>>
  /\ UNCHANGED <<arrival, read, history>>

\* mutant: the returns left are counted down instead of the returns made up
RequeueCountsDown(e, j) ==
  /\ CanRequeue(e, j)
  /\ status' = [status EXCEPT ![j] = "queued"]
  /\ executor' = [executor EXCEPT ![j] = NoExecutor]
  /\ attempts' = [attempts EXCEPT ![j] = @ - 1]
  /\ Post(j, "client", "requeue")
  /\ UNCHANGED <<arrival, read, history>>

\* requeue: back to the queue, or failed once the returns are used up.
Requeue(e, j) ==
  /\ CanRequeue(e, j)
  /\ \/ /\ attempts[j] < TestMaxRequeues
        /\ status' = [status EXCEPT ![j] = "queued"]
        /\ executor' = [executor EXCEPT ![j] = NoExecutor]
        /\ attempts' = [attempts EXCEPT ![j] = @ + 1]
        /\ Post(j, "client", "requeue")
     \/ /\ attempts[j] >= TestMaxRequeues
        /\ status' = [status EXCEPT ![j] = "failed"]
        /\ Post(j, "client", "failed")
        /\ UNCHANGED <<executor, attempts>>
  /\ UNCHANGED <<arrival, read, history>>

\* poll: what was given out is marked read, though the same since would get
\* it again.
Poll(e, since, upto) ==
  /\ Page(e, since, upto) # {}
  /\ read' = read \cup {m.seq : m \in Page(e, since, upto)}
  /\ UNCHANGED <<status, executor, attempts, arrival, messages, lastSeq, history>>

-----------------------------------------------------------------------------
(* post_from_client and ack.                                               *)

\* Only the transition is checked: an answer to a job that is queued sets it to
\* work without a claim, for the executor it had before, or for none.
Answer(j) ==
  /\ <<status[j], "running">> \in Transition
  /\ status' = [status EXCEPT ![j] = "running"]
  /\ \/ status[j] = "waiting_owner" /\ UNCHANGED history
     \/ /\ status[j] = "queued"
        /\ runs' = [runs EXCEPT ![j] = @ + 1]
        /\ presumed' = presumed \cup {j}
  /\ Post(j, "executor", "answer")
  /\ UNCHANGED <<executor, attempts, arrival, read>>

\* mutant: params.attempts survives a resume
ResumeKeepsAttempts(j) ==
  /\ <<status[j], "queued">> \in Transition
  /\ status' = [status EXCEPT ![j] = "queued"]
  /\ runs' = [runs EXCEPT ![j] = 0]
  /\ Post(j, "executor", "resume")
  /\ UNCHANGED <<executor, attempts, arrival, read, presumed>>

\* The executor stays the old one until the next claim.
Resume(j) ==
  /\ <<status[j], "queued">> \in Transition
  /\ status' = [status EXCEPT ![j] = "queued"]
  /\ attempts' = [attempts EXCEPT ![j] = 0]
  /\ runs' = [runs EXCEPT ![j] = 0]
  /\ Post(j, "executor", "resume")
  /\ UNCHANGED <<executor, arrival, read, presumed>>

\* A queued job is confirmed on the spot: "stopped" to the client goes first.
Stop(j) ==
  /\ <<status[j], "stopped">> \in Transition
  /\ status' = [status EXCEPT ![j] = "stopped"]
  /\ \/ status[j] # "queued" /\ Post(j, "executor", "stop")
     \/ /\ status[j] = "queued"
        /\ lastSeq + 1 < MaxSeq
        /\ lastSeq' = lastSeq + 2
        /\ messages' = messages \cup {Letter(lastSeq + 1, j, "client", "stopped"),
                                      Letter(lastSeq + 2, j, "executor", "stop")}
  /\ UNCHANGED <<executor, attempts, arrival, read, history>>

Release(j) ==
  /\ status[j] = "waiting_owner"
  /\ Post(j, "executor", "release")
  /\ UNCHANGED <<status, executor, attempts, arrival, read, history>>

\* ack(upto): the client has seen everything up to there.
Ack(upto) ==
  /\ read' = read \cup {m.seq : m \in {x \in messages : x.to = "client" /\ x.seq <= upto}}
  /\ UNCHANGED <<status, executor, attempts, arrival, messages, lastSeq, history>>

-----------------------------------------------------------------------------
ExecutorCall(e) ==
  \/ \E j \in Job, offered \in Offers : Claim(e, j, offered)
  \/ \E j \in Job, kind \in ProgressKind : Progress(e, j, kind)
  \/ \E j \in Job, kind \in ReportKind : Report(e, j, kind)
  \/ \E j \in Job : ConfirmStop(e, j)
  \/ \E j \in Job : Requeue(e, j)
  \/ \E since \in 0..MaxSeq, upto \in 1..MaxSeq : Poll(e, since, upto)

ClientCall(j) ==
  \/ Submit(j)
  \/ Answer(j)
  \/ Resume(j)
  \/ Stop(j)
  \/ Release(j)

HubNext ==
  \/ \E e \in Executor : ExecutorCall(e)
  \/ \E j \in Job : ClientCall(j)
  \/ \E upto \in 1..MaxSeq : Ack(upto)

HubSpec == HubInit /\ [][HubNext]_hubVars

-----------------------------------------------------------------------------
(* Properties of the queue whatever its callers do.                        *)

\* Every column holds what the schema and the code put there.
HubTypeOK ==
  /\ status \in [Job -> Status]
  /\ executor \in [Job -> Executor \cup {NoExecutor}]
  /\ attempts \in [Job -> Nat]
  /\ arrival \in [Job -> Nat]
  /\ messages \subseteq Message
  /\ lastSeq \in 0..MaxSeq
  /\ read \subseteq Nat
  /\ runs \in [Job -> Nat]
  /\ presumed \subseteq Job

\* The verdicts the client can still take for the job's present opening:
\* those posted to it after the job's last resume.
FreshVerdicts(j) ==
  {m \in messages : /\ m.job = j /\ m.to = "client" /\ m.kind \in VerdictKind
                    /\ \A r \in messages : r.job = j /\ r.kind = "resume" => r.seq < m.seq}

\* The mailbox and the table of jobs agree: a job that is not over has no
\* verdict since its last resume, and one that is done or failed has exactly
\* one, of that kind (a client that reads its inbox is never told of an end
\* that did not happen, nor told twice).
VerdictMatchesStatus ==
  \A j \in Job :
    /\ status[j] \notin TerminalStatus => FreshVerdicts(j) = {}
    /\ status[j] \in {"done", "failed"} =>
         \E m \in messages : FreshVerdicts(j) = {m} /\ Target[m.kind] = status[j]

\* The runs of a job are accounted for by its give-backs, whether a claim set it
\* to work or an answer that came before the claim: an opening of a test job
\* costs at most TestMaxRequeues + 1 runs and one of an agent job a single run,
\* so a job that kills its executor's machine cannot be run for ever.
RunsAccounted ==
  \A j \in Job :
    /\ attempts[j] <= IF j \in TestJob THEN TestMaxRequeues ELSE 0
    /\ status[j] \in {"none", "queued"} => runs[j] = attempts[j]
    /\ status[j] \in ActiveStatus => runs[j] = attempts[j] + 1
    /\ runs[j] <= attempts[j] + 1

\* A job in work has an executor that may report on it, unless it was set to
\* work by an answer, which needs none: nobody but the owner's stop ends such a
\* job, so it is the one way to a job in work that no executor may report on.
ActiveHasExecutor ==
  \A j \in Job :
    /\ status[j] = "waiting_owner" => executor[j] \in Executor
    /\ status[j] = "running" => executor[j] \in Executor \/ j \in presumed

(* What the queue promises is stated in RunContract: one holder at a time, *)
(* a bounded number of runs per opening, nothing but a resume reopens a    *)
(* job.  The executor column is the holder, also after the end.            *)

Phase(s) == CASE s = "none" -> "new"
              [] s = "queued" -> "ready"
              [] s = "running" -> "held"
              [] s = "waiting_owner" -> "asking"
              [] OTHER -> "over"

jobPhase == [j \in Job |-> Phase(status[j])]
jobLimit == [j \in Job |-> IF j \in TestJob THEN TestMaxRequeues + 1 ELSE 1]

Contract ==
  INSTANCE RunContract WITH
    Limit <- jobLimit, Holder <- Executor, Nobody <- NoExecutor,
    phase <- jobPhase, holder <- executor

\* The queue implements the contract.
HubMeetsContract == Contract!Spec

=============================================================================
