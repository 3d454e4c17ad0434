---------------------------- MODULE AgentWorker ----------------------------
(***************************************************************************)
(* The agent executor (devlab/executor/agent_worker.py) on the hub's queue: *)
(* the slots of one process, each with a claim loop, a poll loop and a      *)
(* drain loop over its own agent-state.json and agent-outbox.json.  A job   *)
(* that asks its owner is parked and gives its slot to another; a message   *)
(* to the hub is in the outbox until the hub has taken or refused it.       *)
(*                                                                          *)
(* Jobs have different base branches, so busy_bases are the jobs in work.   *)
(* What a model does in a job is a choice among the outcomes of AgentLoop.  *)
(***************************************************************************)
EXTENDS HubQueue, Sequences

CONSTANTS
  Agent,       \* the name of the executor's token
  Slot,        \* agent_slots
  NoJob,
  MaxCalls,    \* bound: calls of the owner
  MaxCrashes,  \* bound: deaths of the process
  MaxLosses    \* bound: requests or replies that are lost

ASSUME AgentAssumption ==
  /\ Agent \in Executor
  /\ NoJob \notin Job
  /\ MaxCalls \in Nat /\ MaxCrashes \in Nat /\ MaxLosses \in Nat

VARIABLES
  cursor, held,  \* agent-state.json: cursor, job
  parked,        \* agent-state.json: parked, by slot and job
  dialog,        \* dialog.json in the directory of a job
  outbox,        \* agent-outbox.json
  pc, task,      \* where the claim loop is, and with which job
  stopped,       \* _stopped
  mail,          \* what a poll brought and is still to be handled
  closing,       \* the parked job the poll loop is closing, and with which verdict
  waits,         \* the loops whose send waits for the outbox
  orphan,        \* history: the hub and the slots have lost each other over the job
  budget

stateFile == <<cursor, held, parked>>
files     == <<stateFile, dialog, outbox>>
memory    == <<pc, task, stopped, mail, closing, waits>>
agentVars == <<files, memory, orphan, budget>>
allVars   == <<hubVars, agentVars>>

NoMail    == [letters |-> {}, upto |-> 0]
NoClosing == [job |-> NoJob, kind |-> "none"]

\* Inside the try of _work a cancellation is the stop of the job; in its
\* handlers and its finally it leaves _work, handle and the claim loop.
InBody == {"work", "flush", "parking", "concluding"}
InTail == {"failing", "stopping", "lastword", "releasing"}
AtWork == InBody \cup InTail \cup {"starting", "declining"}
Down   == {"off", "boot", "dead"}

-----------------------------------------------------------------------------
AgentInit ==
  /\ HubInit
  /\ cursor = [s \in Slot |-> 0]
  /\ held = [s \in Slot |-> NoJob]
  /\ parked = [s \in Slot |-> [j \in Job |-> "no"]]
  /\ dialog = [s \in Slot |-> [j \in Job |-> "none"]]
  /\ outbox = [s \in Slot |-> <<>>]
  /\ pc = [s \in Slot |-> "idle"]
  /\ task = [s \in Slot |-> NoJob]
  /\ stopped = [s \in Slot |-> {}]
  /\ mail = [s \in Slot |-> NoMail]
  /\ closing = [s \in Slot |-> NoClosing]
  /\ waits = [s \in Slot |-> {}]
  /\ orphan = [j \in Job |-> FALSE]
  /\ budget = [calls |-> MaxCalls, crashes |-> MaxCrashes, losses |-> MaxLosses]

Spend(what) == budget[what] > 0 /\ budget' = [budget EXCEPT ![what] = @ - 1]

Go(s, where) == pc' = [pc EXCEPT ![s] = where]

\* send: into the outbox, and wait until it is drained or the hub is away.
Send(s, j, kind, loop) ==
  /\ outbox' = [outbox EXCEPT ![s] = Append(@, [job |-> j, kind |-> kind])]
  /\ waits' = [waits EXCEPT ![s] = @ \cup {loop}]

Park(s, j, how) == parked' = [parked EXCEPT ![s][j] = how]
Write(s, j, what) == dialog' = [dialog EXCEPT ![s][j] = what]

-----------------------------------------------------------------------------
(* The owner.                                                              *)

OwnerSubmit(j) == Submit(j) /\ UNCHANGED agentVars

OwnerCall(j) ==
  /\ Spend("calls")
  /\ \/ Stop(j) /\ UNCHANGED orphan
     \/ Answer(j) /\ UNCHANGED orphan
     \/ Resume(j) /\ orphan' = [orphan EXCEPT ![j] = FALSE]
  /\ UNCHANGED <<files, memory>>

-----------------------------------------------------------------------------
(* The claim loop: claim_once and handle.                                  *)

\* handle of a job that is gone on with: after a restart, or after an answer.
Continue(s, j) ==
  /\ task' = [task EXCEPT ![s] = j]
  /\ held' = [held EXCEPT ![s] = j]
  /\ Park(s, j, "no")
  /\ IF j \in stopped[s]
     THEN Go(s, "declining") /\ Send(s, j, "stopped", "claim")
     ELSE Go(s, "work") /\ UNCHANGED <<outbox, waits>>
  /\ UNCHANGED <<hubVars, cursor, dialog, stopped, mail, closing, orphan, budget>>

TakeResumed(s) == pc[s] = "resume" /\ Continue(s, task[s])

Answered(s) == {j \in Job : parked[s][j] = "answered"}

TakeAnswered(s) == pc[s] = "idle" /\ \E j \in Answered(s) : Continue(s, j)

\* Nothing to go on with: the models are asked for, and then the hub.  An answer
\* the poll loop takes meanwhile has to wait for the job that is claimed.
Look(s) ==
  /\ pc[s] = "idle"
  /\ Answered(s) = {}
  /\ Go(s, "looking")
  /\ UNCHANGED <<hubVars, files, task, stopped, mail, closing, waits, orphan, budget>>

\* No models, no job, or no hub.
LooksInVain(s) ==
  /\ pc[s] = "looking"
  /\ Go(s, "idle")
  /\ UNCHANGED <<hubVars, files, task, stopped, mail, closing, waits, orphan, budget>>

\* SlotRegistry.claim: one request at a time, and no job of a busy base.
Occupied == {task[s] : s \in {x \in Slot : pc[x] \in AtWork}}

ClaimCall(s, j) ==
  /\ pc[s] = "looking"
  /\ \A x \in Slot : pc[x] # "granted"
  /\ \E offered \in Offers : /\ offered \cap (TestJob \cup Occupied) = {}
                             /\ Claim(Agent, j, offered)
  /\ \/ /\ Go(s, "granted")
        /\ task' = [task EXCEPT ![s] = j]
        /\ orphan' = [orphan EXCEPT ![j] = FALSE]
        /\ UNCHANGED budget
     \/ /\ Spend("losses")
        /\ orphan' = [orphan EXCEPT ![j] = TRUE]
        /\ Go(s, "idle")
        /\ UNCHANGED task
  /\ UNCHANGED <<files, stopped, mail, closing, waits>>

\* mutant: agent-state.json is written when the work begins
HandleUnsaved(s) ==
  /\ pc[s] = "granted"
  /\ Park(s, task[s], "no")
  /\ Write(s, task[s], "none")
  /\ Go(s, "starting")
  /\ Send(s, task[s], "started", "claim")
  /\ UNCHANGED <<hubVars, cursor, held, task, stopped, mail, closing, orphan, budget>>

\* handle of a job that was claimed: what an earlier run left is forgotten.
Handle(s) ==
  /\ pc[s] = "granted"
  /\ held' = [held EXCEPT ![s] = task[s]]
  /\ Park(s, task[s], "no")
  /\ Write(s, task[s], "none")
  /\ Go(s, "starting")
  /\ Send(s, task[s], "started", "claim")
  /\ UNCHANGED <<hubVars, cursor, task, stopped, mail, closing, orphan, budget>>

Begin(s) ==
  /\ pc[s] = "starting" /\ "claim" \notin waits[s]
  /\ IF task[s] \in stopped[s]
     THEN Go(s, "declining") /\ Send(s, task[s], "stopped", "claim")
     ELSE Go(s, "work") /\ UNCHANGED <<outbox, waits>>
  /\ UNCHANGED <<hubVars, stateFile, dialog, task, stopped, mail, closing, orphan, budget>>

-----------------------------------------------------------------------------
(* _work: AgentLoop ends finished or failed, asks, or an error is raised.  *)

Concludes(s) ==
  /\ pc[s] = "work"
  /\ Go(s, "concluding")
  /\ \E kind \in {"done", "failed"} : Send(s, task[s], kind, "claim")
  /\ UNCHANGED <<hubVars, stateFile, dialog, task, stopped, mail, closing, orphan, budget>>

Raises(s) ==
  /\ pc[s] \in {"work", "flush"}
  /\ Go(s, "failing")
  /\ UNCHANGED <<hubVars, files, task, stopped, mail, closing, waits, orphan, budget>>

\* _park up to the push of the branch
Asks(s) ==
  /\ pc[s] = "work"
  /\ Write(s, task[s], "asked")
  /\ Go(s, "flush")
  /\ UNCHANGED <<hubVars, stateFile, outbox, task, stopped, mail, closing, waits, orphan, budget>>

\* mutant: the job leaves agent-state.json and is not parked
ParkingForgets(s) ==
  /\ pc[s] = "flush"
  /\ held' = [held EXCEPT ![s] = NoJob]
  /\ Go(s, "parking")
  /\ Send(s, task[s], "question", "claim")
  /\ UNCHANGED <<hubVars, cursor, parked, dialog, task, stopped, mail, closing, orphan, budget>>

\* The end of _park, when the process lives through it (see DiesParking).
Parking(s) ==
  /\ pc[s] = "flush"
  /\ Park(s, task[s], "waiting")
  /\ held' = [held EXCEPT ![s] = NoJob]
  /\ Go(s, "parking")
  /\ Send(s, task[s], "question", "claim")
  /\ UNCHANGED <<hubVars, cursor, dialog, task, stopped, mail, closing, orphan, budget>>

\* _fail_or_stop, once the branch is closed
LastWord(s) ==
  /\ pc[s] \in {"failing", "stopping"}
  /\ Go(s, "lastword")
  /\ Send(s, task[s], IF pc[s] = "failing" THEN "failed" ELSE "stopped", "claim")
  /\ UNCHANGED <<hubVars, stateFile, dialog, task, stopped, mail, closing, orphan, budget>>

Sent(s) ==
  /\ pc[s] \in {"parking", "concluding", "lastword"} /\ "claim" \notin waits[s]
  /\ Go(s, "releasing")
  /\ UNCHANGED <<hubVars, files, task, stopped, mail, closing, waits, orphan, budget>>

\* the end of handle
HandleEnds(s) ==
  /\ pc[s] \in {"releasing", "declining"} /\ "claim" \notin waits[s]
  /\ IF parked[s][task[s]] = "no" THEN Write(s, task[s], "none") ELSE UNCHANGED dialog
  /\ stopped' = [stopped EXCEPT ![s] = @ \ {task[s]}]
  /\ held' = [held EXCEPT ![s] = NoJob]
  /\ task' = [task EXCEPT ![s] = NoJob]
  /\ Go(s, "idle")
  /\ UNCHANGED <<hubVars, cursor, parked, outbox, mail, closing, waits, orphan, budget>>

-----------------------------------------------------------------------------
(* The poll loop: poll_once and _on_message.                               *)

PollCall(s) ==
  /\ pc[s] \notin Down
  /\ mail[s] = NoMail
  /\ \E last \in Deliverable(Agent, cursor[s]) :
       /\ Poll(Agent, cursor[s], last.seq)
       /\ mail' = [mail EXCEPT ![s] = [letters |-> Page(Agent, cursor[s], last.seq),
                                      upto |-> last.seq]]
  /\ UNCHANGED <<files, pc, task, stopped, closing, waits, orphan, budget>>

\* _current: also the job a restart has found, before it is taken up.
Current(s) == IF pc[s] \in AtWork \cup {"resume"} THEN task[s] ELSE NoJob

\* A stop of the job in hand: noted, and _task is cancelled if there is one.
\* Outside its body a cancelled _work ends the claim loop, and with it run_loops.
Cancel(s, j) ==
  /\ stopped' = [stopped EXCEPT ![s] = @ \cup {j}]
  /\ CASE pc[s] \in InBody -> Go(s, "stopping") /\ waits' = [waits EXCEPT ![s] = {}]
       [] pc[s] \in InTail -> Go(s, "dead") /\ waits' = [waits EXCEPT ![s] = {}]
       [] OTHER            -> UNCHANGED <<pc, waits>>
  /\ UNCHANGED <<parked, dialog, closing>>

\* _close_parked up to the closing of the branch
StartClosing(s, j, kind) ==
  /\ Park(s, j, "no")
  /\ closing' = [closing EXCEPT ![s] = [job |-> j, kind |-> kind]]
  /\ UNCHANGED <<dialog, pc, stopped, waits>>

AcceptAnswer(s, j) ==
  /\ Park(s, j, "answered")
  /\ Write(s, j, "answered")
  /\ UNCHANGED <<pc, stopped, closing, waits>>

Forget(s, j) ==
  /\ Park(s, j, "no")
  /\ Write(s, j, "none")
  /\ UNCHANGED <<pc, stopped, closing, waits>>

Ignore == UNCHANGED <<parked, dialog, pc, stopped, closing, waits>>

OnMessage(s, m) ==
  LET j == m.job
      waiting == parked[s][j] # "no"
  IN CASE m.kind = "stop" /\ j = Current(s)                      -> Cancel(s, j)
       [] m.kind = "stop" /\ j # Current(s) /\ waiting           -> StartClosing(s, j, "stopped")
       [] m.kind = "answer" /\ waiting /\ dialog[s][j] # "none"  -> AcceptAnswer(s, j)
       [] m.kind = "answer" /\ waiting /\ dialog[s][j] = "none"  -> StartClosing(s, j, "failed")
       [] m.kind = "resume" /\ waiting                           -> Forget(s, j)
       [] OTHER                                                  -> Ignore

\* A letter that is handled after the question it does not know of: a resume
\* that a claim has overtaken, an answer that a restart has brought again.
Overtaken(s, m) ==
  /\ parked[s][m.job] # "no"
  /\ \/ m.kind = "resume" /\ status[m.job] \in ActiveStatus
     \/ m.kind = "answer" /\ status[m.job] = "waiting_owner"

NextLetter(s) ==
  /\ pc[s] \notin Down
  /\ closing[s] = NoClosing /\ "poll" \notin waits[s]
  /\ \E m \in mail[s].letters :
       /\ \A x \in mail[s].letters : m.seq <= x.seq
       /\ OnMessage(s, m)
       /\ mail' = [mail EXCEPT ![s].letters = @ \ {m}]
       /\ orphan' = [orphan EXCEPT ![m.job] = @ \/ Overtaken(s, m)]
  /\ UNCHANGED <<hubVars, cursor, held, outbox, task, budget>>

\* the rest of _close_parked: _forget and the verdict
CloseParked(s) ==
  /\ pc[s] \notin Down
  /\ closing[s] # NoClosing
  /\ Park(s, closing[s].job, "no")
  /\ Write(s, closing[s].job, "none")
  /\ Send(s, closing[s].job, closing[s].kind, "poll")
  /\ closing' = [closing EXCEPT ![s] = NoClosing]
  /\ UNCHANGED <<hubVars, cursor, held, pc, task, stopped, mail, orphan, budget>>

\* mutant: the cursor is saved before the letters are handled
PollEndsEarly(s) ==
  /\ pc[s] \notin Down
  /\ mail[s] # NoMail /\ cursor[s] # mail[s].upto
  /\ cursor' = [cursor EXCEPT ![s] = mail[s].upto]
  /\ mail' = [mail EXCEPT ![s] = IF @.letters = {} THEN NoMail ELSE @]
  /\ UNCHANGED <<hubVars, held, parked, dialog, outbox, pc, task, stopped, closing, waits, orphan, budget>>

PollEnds(s) ==
  /\ pc[s] \notin Down
  /\ mail[s] # NoMail /\ mail[s].letters = {}
  /\ closing[s] = NoClosing /\ "poll" \notin waits[s]
  /\ cursor' = [cursor EXCEPT ![s] = mail[s].upto]
  /\ mail' = [mail EXCEPT ![s] = NoMail]
  /\ UNCHANGED <<hubVars, held, parked, dialog, outbox, pc, task, stopped, closing, waits, orphan, budget>>

-----------------------------------------------------------------------------
(* drain, of whichever loop has its lock.                                  *)

HubTakes(j, kind) ==
  CASE kind = "started" -> executor[j] = Agent /\ status[j] = "running"
    [] kind = "stopped" -> CanReport(Agent, j, kind) \/ CanConfirmStop(Agent, j)
    [] OTHER            -> CanReport(Agent, j, kind)

HubPost(j, kind) ==
  \/ kind = "started" /\ Progress(Agent, j, kind)
  \/ kind = "stopped" /\ ConfirmStop(Agent, j)
  \/ kind # "started" /\ Report(Agent, j, kind)

\* The first of the outbox is gone; who waited for the outbox may go on.
Pop(s) ==
  /\ outbox' = [outbox EXCEPT ![s] = Tail(@)]
  /\ waits' = [waits EXCEPT ![s] = IF Len(outbox[s]) = 1 THEN {} ELSE @]

HubAway(s) == waits' = [waits EXCEPT ![s] = {}] /\ UNCHANGED outbox

\* A question the hub takes although the agent does not wait for its answer
\* (any more): it was sent again, or kept in the outbox over a resume.
Late(s, j, kind) ==
  /\ kind = "question"
  /\ \/ parked[s][j] # "waiting"
     \/ \E x \in Slot : task[x] = j /\ (x # s \/ pc[x] = "granted")

Drain(s) ==
  /\ pc[s] \notin {"off", "dead"}
  /\ outbox[s] # <<>>
  /\ LET j == Head(outbox[s]).job
         kind == Head(outbox[s]).kind
     IN \/ /\ HubPost(j, kind)
           /\ orphan' = [orphan EXCEPT ![j] = @ \/ Late(s, j, kind)]
           /\ \/ Pop(s) /\ UNCHANGED budget
              \/ HubAway(s) /\ Spend("losses")
        \/ /\ ~HubTakes(j, kind)
           /\ Pop(s)
           /\ UNCHANGED <<hubVars, orphan, budget>>
        \/ HubAway(s) /\ Spend("losses") /\ UNCHANGED <<hubVars, orphan>>
  /\ UNCHANGED <<stateFile, dialog, pc, task, stopped, mail, closing>>

-----------------------------------------------------------------------------
(* The process of all slots dies and is started again.                     *)

Dies ==
  /\ Spend("crashes")
  /\ pc' = [s \in Slot |-> "off"]
  /\ task' = [s \in Slot |-> NoJob]
  /\ stopped' = [s \in Slot |-> {}]
  /\ mail' = [s \in Slot |-> NoMail]
  /\ closing' = [s \in Slot |-> NoClosing]
  /\ waits' = [s \in Slot |-> {}]

\* A claim not yet in a file and a closing that has left one die with it.
InMemoryOnly(j) == \E s \in Slot : \/ pc[s] = "granted" /\ task[s] = j
                                  \/ closing[s].job = j

Crash ==
  /\ \E s \in Slot : pc[s] # "off"
  /\ Dies
  /\ orphan' = [j \in Job |-> orphan[j] \/ InMemoryOnly(j)]
  /\ UNCHANGED <<hubVars, files>>

\* It dies at the end of _park, between its two files: the job is parked, and
\* its question is never sent.
DiesParking(s) ==
  /\ pc[s] = "flush"
  /\ Park(s, task[s], "waiting")
  /\ held' = [held EXCEPT ![s] = NoJob]
  /\ Dies
  /\ orphan' = [j \in Job |-> orphan[j] \/ InMemoryOnly(j) \/ j = task[s]]
  /\ UNCHANGED <<hubVars, cursor, dialog, outbox>>

\* run: the outbox is drained once before the loops start.
Restart(s) ==
  /\ pc[s] = "off"
  /\ Go(s, "boot")
  /\ waits' = [waits EXCEPT ![s] = IF outbox[s] = <<>> THEN {} ELSE {"claim"}]
  /\ UNCHANGED <<hubVars, files, task, stopped, mail, closing, orphan, budget>>

Booted(s) ==
  /\ pc[s] = "boot" /\ waits[s] = {}
  /\ task' = [task EXCEPT ![s] = held[s]]
  /\ Go(s, IF held[s] = NoJob THEN "idle" ELSE "resume")
  /\ UNCHANGED <<hubVars, files, stopped, mail, closing, waits, orphan, budget>>

-----------------------------------------------------------------------------
ClaimLoop(s) ==
  \/ TakeResumed(s) \/ TakeAnswered(s)
  \/ Look(s) \/ LooksInVain(s)
  \/ \E j \in Job : ClaimCall(s, j)
  \/ Handle(s) \/ Begin(s)
  \/ Concludes(s) \/ Raises(s) \/ Asks(s) \/ Parking(s)
  \/ LastWord(s) \/ Sent(s) \/ HandleEnds(s)

PollLoop(s) == PollCall(s) \/ NextLetter(s) \/ CloseParked(s) \/ PollEnds(s)

AgentNext ==
  \/ \E s \in Slot : ClaimLoop(s) \/ PollLoop(s) \/ Drain(s) \/ Restart(s) \/ Booted(s)
  \/ Crash
  \/ \E s \in Slot : DiesParking(s)
  \/ \E j \in Job : OwnerSubmit(j) \/ OwnerCall(j)

AgentSpec == AgentInit /\ [][AgentNext]_allVars

\* The loops never end, the hub answers, a job has its limits and the service
\* manager starts a dead process again.
Fairness == \A s \in Slot : /\ WF_allVars(ClaimLoop(s))
                            /\ WF_allVars(PollLoop(s))
                            /\ WF_allVars(Drain(s))
                            /\ WF_allVars(Restart(s) \/ Booted(s))

FairAgentSpec == AgentSpec /\ Fairness

-----------------------------------------------------------------------------
\* In work, the job at hand is the one of agent-state.json until it is parked,
\* and a slot that is down or between jobs has none at hand.
SlotShape ==
  \A s \in Slot :
    /\ pc[s] \in {"off", "boot", "idle", "looking"} <=> task[s] = NoJob
    /\ pc[s] \in {"starting", "declining", "work", "flush", "concluding", "failing"} => held[s] = task[s]
    /\ mail[s] = NoMail \/ mail[s].upto > cursor[s]

\* The files and the memory of the slots.
AgentTypeOK ==
  /\ cursor \in [Slot -> 0..MaxSeq]
  /\ held \in [Slot -> Job \cup {NoJob}]
  /\ parked \in [Slot -> [Job -> {"no", "waiting", "answered"}]]
  /\ dialog \in [Slot -> [Job -> {"none", "asked", "answered"}]]
  /\ outbox \in [Slot -> Seq([job : Job, kind : {"started"} \cup ReportKind])]
  /\ pc \in [Slot -> AtWork \cup Down \cup {"idle", "looking", "resume", "granted"}]
  /\ task \in [Slot -> Job \cup {NoJob}]
  /\ stopped \in [Slot -> SUBSET Job]
  /\ mail \in [Slot -> [letters : SUBSET messages, upto : 0..MaxSeq]]
  /\ closing \in [Slot -> [job : Job \cup {NoJob}, kind : {"none", "stopped", "failed"}]]
  /\ waits \in [Slot -> SUBSET {"claim", "poll"}]
  /\ orphan \in [Job -> BOOLEAN]
  /\ budget \in [{"calls", "crashes", "losses"} -> Nat]
  /\ SlotShape

Pending(s, j, kinds) == \E i \in DOMAIN outbox[s] : outbox[s][i].job = j /\ outbox[s][i].kind \in kinds

\* What a slot still knows of a job.
Knows(s, j) ==
  \/ held[s] = j
  \/ parked[s][j] # "no"
  \/ closing[s].job = j
  \/ pc[s] = "granted" /\ task[s] = j
  \/ Pending(s, j, VerdictKind)

\* A job the hub counts as running or waiting for its owner, since it was
\* claimed, is one that a slot still knows of: in its files, or in the reply to
\* its claim.  So no death of the process and no lost call drops a job, but for
\* the accidents orphan records: a claim whose reply is lost, a death while a
\* parked job is being closed or between the two files of _park, a question that
\* is Late and a letter that is Overtaken; and but for a run that an answer to
\* the queued job began, which no claim has told a slot of.
AgentRunsKnown ==
  \A j \in Job : status[j] \in ActiveStatus /\ ~orphan[j] /\ j \notin presumed
                 => \E s \in Slot : Knows(s, j)

\* A job in work ends, asks its owner or goes back to the queue, although the
\* process dies and calls are lost; but for those accidents, and for the slot a
\* stop has killed (see Cancel).
AgentRunsEnd ==
  \A j \in Job : status[j] = "running" ~>
     \/ status[j] # "running" \/ orphan[j] \/ j \in presumed
     \/ \E s \in Slot : pc[s] = "dead"

\* What the docs promise and the code does not keep.

\* The question of a job that waits for its owner is parked in a slot, which
\* will go on with the answer, unless the slot is closing it.
WaitingIsParked ==
  \A j \in Job : status[j] = "waiting_owner" =>
    \E s \in Slot : parked[s][j] # "no" \/ closing[s].job = j \/ Pending(s, j, VerdictKind)

=============================================================================
