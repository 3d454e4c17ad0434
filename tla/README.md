# TLA+ models of sa-home-bot

A verification project for the parts of `sa_home_bot` whose correctness depends on the order in which processes,
callbacks and messages meet: TLA+ modules, configurations for TLC, and proofs for TLAPS. Paths of code are relative to
`src/sa_home_bot/`, paths of docs to the repository.

Contents: [the system](#the-system), [the plan](#the-plan), [modules and the code](#modules-and-the-code),
[what the runs check](#what-the-runs-check), [fairness](#fairness), [what is proved](#what-is-proved),
[findings](#findings), [what is not modelled](#what-is-not-modelled), [running it](#running-it).

## The system

The program is a home server assistant. It runs as a *swarm* of nodes; each node (`node/`) supervises services
(`monitor`, `telegram-bot`, `llm`, `tasks`, `vpn`, ...) as processes and forwards requests to its peers. Beside it,
*devlab* is a small CI: a hub with a queue of jobs (`devlab/hub/`) and executors on other machines
(`devlab/executor/`) that ask for work over HTTP.

| component | state it keeps | operations | how it meets the others | what is hard | correct when |
|---|---|---|---|---|---|
| Hub queue and mailbox (`devlab/hub/queue.py`) | SQLite tables `jobs`, `messages`, `cursors` | submit, claim, post (executor, client), poll, ack, requeue | called over HTTP (executors) and MCP (clients), one transaction per call | callers in any order, late and repeated calls, executors of an old run | an end in the mailbox is an end in the table; a bounded number of runs; one holder |
| Test executor (`devlab/executor/worker.py`) | `state.json` (cursor, current, pendingFailed), `_current`, `_stopped` | claim loop, poll loop, settlement of an orphan | HTTP calls to the hub | two tasks, lost replies, death between call and save | no run is forgotten, no late answer ends the wrong run, the queue drains |
| Agent executor (`devlab/executor/agent_worker.py`) | slots, parked jobs, outbox on disk | as above, several jobs at once, question and resume | HTTP, podman, git | the same, with parked sandboxes | the same, and a parked job resumes in its own sandbox |
| Model gateway (`devlab/models/`) | ledger per day, windows per minute | chat | agents call it, it calls backends | a check before a wait, a count after it | the daily limit holds |
| Lease (`node/lease.py`) | claims, silences, readiness, timers, all in memory | tick (poll, decide), `note_fenced`, `set_ready` | reads peers' `local_state` by request; starts and stops its supervisor; Telegram's 409 | no consensus: stale answers, outages, start and stop take time | one process of a singleton, on the senior node, in the end; no start over a known process |
| Supervisor (`node/supervisor.py`) | `_desired_running`, `_status`, `_proc`, `_task` | start, stop, restart, `_run` | processes; callbacks to the lease | exit during stop, restart during stop | one process per slot, status tells the truth |
| Links and router (`node/peers.py`, `proto/`) | connections, pending requests, `down_since` | connect loop, forward, events | everything goes through them | a reader that ends with requests pending | every request is answered or fails |
| Replication (`node/replication.py`, `node/instances.py`) | package and meta files, revision | refresh, announce, pull, apply | events and requests between nodes; restarts the bot | two writes, equal revisions, three nodes | all nodes converge on one package |
| Deferred tasks (`tasks/service.py`) | table of tasks and event waiters | add, cancel, fire due, fire now, prewake | requests of the bot, events of nodes | awaits between read and mark | a task fires once |
| Pending actions (`bot/pending_actions.py`) | table, locks, claimed speeches | submit, accept, decline, expire, deliver | Telegram, LLM | fallback against late speech, restart | one decision, its effect, one form |
| Outbox (`bot/outbox.py`) | table of messages | enqueue, flush | Telegram | crash between send and delete | nothing is lost |
| Monitor (`jobs/`, `domain/`, `monitor/`) | states of disks and hosts, marks of alerts | scan, dispatch, mark | sensors; clients of its socket (the bot) | crash between two of the three, a client that is away | a change that lasts is told, and marks are true of what was told |
| VPN, LLM, memory, torrents, backup, menus | their own tables | requests | bot | sums checked before they are added to | outside the core chosen here |

`PROJECT.json` lists every component with its sources and status, and the hazards of the code, each at its line, with
the properties that would catch it.

## The plan

In order of what matters most: the queue that hands out work, the workers that do it, the lease that decides which node
runs the bot; then what keeps promises to people over crashes (forms, deferred tasks, alerts) and between nodes.

1. **`HubQueue`**: one action per call; `RunContract` is the abstract specification it implements.
2. **`TestWorker`** composes executors and a client with `HubQueue`.
3. **`Lease`**: lease and supervisor of every node, time as ticks.
4. **`Supervisor`**: start, stop, restart and `_run` of one slot, every await a step.
5. **`AgentWorker`**: slots, parked jobs and outbox, composed with `HubQueue` as `TestWorker` is.
6. **`PendingActions`** and **`DeferredTasks`**: coroutines of which every await is a step, and deaths between them.
7. **`Replication`**: any nodes, clocks nobody keeps in step, the two writes.
8. **`Monitor`**: the worker of the monitor, hysteresis, two-phase notification.
9. Proofs for each: see [what is proved](#what-is-proved).

All nine are done. Left as candidates: the model gateway (`devlab/models/gateway.py:197`, a limit that is checked before a
wait and counted after it), the VPN quota (`vpn/quota.py:186`, the same over awaits), and requests that are pending on a link
whose reader ends (`proto/client.py`).

Every module keeps to the same rules: parameters as constants with named assumptions, one action per operation (or per
stretch of an operation between two awaits), invariants as conjunctions of named parts, recursion only in the library.

## Modules and the code

### `HubQueue` and `RunContract`

`devlab/hub/queue.py` opens one transaction under one lock for every public method, so a call is one action, and a call
that is refused (`HubError`, rolled back) is no step. Variables are the columns: `status`, `executor`, `arrival`
(`jobs.seq`), `attempts` (`params.attempts`), `messages` with `lastSeq` (AUTOINCREMENT) and `read` (`read_at`); `runs` and
`presumed` are history. `Transition` and `Target` are the tables of `devlab/protocol.py`. `post_from_executor` is split by what it does
with the kind: `Progress`, `Report`, `ConfirmStop` (a `stopped` for a stopped job is only recorded), `Requeue`.
`post_from_client` is `Answer`, `Resume`, `Stop` (two messages for a queued job), `Release`. `Offers` and `First` stand for
the filter and the `ORDER BY` of `claim`; `Page` for the `LIMIT` of `poll`, any length of it. Nothing is assumed of callers, and every
call is taken in every status in which the code takes it. In particular `Answer` has only the guard of `_check_transition`
(`queue.py:455`, `protocol.py:35`), so that an answer sets a *queued* job to work with no claim: for the executor the
column still names, or for none. `tests/unit/test_devlab_queue.py:88-99` expects that; the table of `docs/devlab/queue.md:15` and its line
for `answer` do not have it. `presumed` remembers the jobs set to work so, and `runs` counts such a run like a claimed one.

`RunContract` is what the queue promises about the runs of a job: opened, set to work at most `Limit[j]` times between two
openings, held by the executor that took it last, changed hands only by a claim, and asked about or given back only while
it has a holder. Its step `Presume` is the owner's word on a job nobody has taken. The mapping (`Phase`, `jobLimit`; the
holder is the column) is at the end of `HubQueue`.

### `TestWorker`

`EXTENDS HubQueue` and adds, for every executor, what is on disk (`cursor`, `current`, `pendingFailed`), the place of
the claim loop (`phase`, `task`, `out`, `answer`), `stopAsked` (`_stopped`), and what a poll has brought (`mail`), which
the poll loop goes through letter by letter: `PollStops` notes a stop before the loop waits for the runner to be
cancelled, `PollEnds` saves the cursor. The client stops, resumes and answers. A call to the hub is two steps: the
hub's, and the worker's when the reply is there; between them the other task runs, the reply is lost (`"error"`) or the
process dies (`Crash`). `phase` "granted" is the time between the hub's commit of a claim and `handle`. `HandleAnswered`
and `SettleAnswered` are the error paths of `handle` and `_send_orphan`. `fresh` and `orphan` are history. The hub
itself does not crash here: its state is one SQLite file and every call one transaction, so a crash of the hub is a lost
call.

### `Lease`

One singleton slot. For every node: the machine (`up`), the supervisor (`proc`, `status`, `wanted`, `stopFor`, `noting`), the
manager (`claiming`, `ready` and three timers) and the tick under way (`view`: what each peer has said so far). `PollPeer` is
one request of `_peer_singletons`; when all peers have been asked, one of the branches of `_decide` is taken, each an
action (`StayRunning`, `Yield`, `KeepSilence`, `StandBack`, `TakeBack`, `Ask`, `LeaveToSuperior`, `WaitOut`, `Take`). A stop lasts
(`stopFor`) and holds up the node's own tick, as `await slot.stop()` does. `Spawn`, `SuperviseExit` and `NoteFenced` are `_run`
of the supervisor; the last is apart because the event is emitted between the new status and the call of `note_fenced`.
`Fence` is Telegram: while two processes live, one of them may get the 409 and exit with code 11.

Time is counted in poll intervals (10 s in the code). Timers hold ages: `silent` up to `Grace` (120 s), `yielded` up to
`ReadyTimeout` (45 s), `fenced` down from `Holdoff` (300 s). `TimePasses` waits until every node has made its tick or is
inside a stop, every exit has been seen, every process that is wanted has been spawned (the 5 s of the restart delay are
less than a unit), and no process that is not in `Slow` starts for longer than `MaxBoot`.
`NodeDown` takes the service process with it, as a power cut or a service manager that stops the whole group does; a
service process that outlives its node process is not modelled.

### `Supervisor`

One slot of `node/supervisor.py`. `desired`, `task`, `proc` and `status` are the attributes; a *watcher* is one `_run` task with
the process it has spawned, a *caller* a coroutine inside `start`, `stop` or `restart`. `CallStop` is the part of `stop` before its
first await: it clears `_desired_running` and signals the process; `SeeExit`, `TakeTask`, `Joined` and `JoinTimeout` are its waits
(the process, then the watcher, which is cancelled after five seconds while its process is not). `StartAgain` is the second
half of `restart`, and starts whatever its stop has found. A watcher goes through `Loop`, `Spawn` or `SpawnFails`, `Watch` (crash,
exit code 11 of a fenced process, or end because nobody wants it) and `Wake` after the delay. `Lease` has the same supervisor in
fewer steps, for all nodes at once; `Supervisor` has the interleavings of one. Names of watchers are taken again when they
are over, so that runs have no end of restarts; `MaxOrphans` bounds the processes nobody watches.

### `AgentWorker`

`EXTENDS HubQueue`. Each slot of the process has its files (`cursor`, `held`, `parked` of agent-state.json, `dialog` of
the job's directory, `outbox` of agent-outbox.json) and three loops. `pc` is the place of the claim loop: `Look`
(nothing is answered, the models are asked for; an answer that comes meanwhile waits), `ClaimCall`, `Handle`, `Begin`,
then `_work` with its outcomes (`Concludes`, `Asks`, `Raises`) and its tail (`LastWord`, `Sent`, `HandleEnds`); the sets
`InBody` and `InTail` tell where a cancellation is the stop of a job and where it leaves `_work` altogether. The poll
loop handles one letter at a time (`NextLetter`, `OnMessage`): a stop of the job in hand cancels it, a stop of a parked
one closes it in two steps (`StartClosing`, `CloseParked`), an answer makes it ready to go on, a resume forgets it.
`Drain` is one attempt of the outbox: taken, refused for good, or unknown because the reply is lost. `waits` are the
sends that wait for the outbox to be empty. `Crash` takes the memory of all slots; `DiesParking` is the death between
the two files of `_park`, which nothing else can fall between, since there is no await from the one to the other
(`agent_worker.py:586`, `:235`). `Restart` and `Booted` are `run`. `orphan` is history and records the accidents the
code does not survive, so that the properties can say what it keeps otherwise.

### `PendingActions`

`bot/pending_actions.py` with the outbox and the tasks service as it uses them. `row` is the table (with `column`, the
stages whose message id is recorded), `chat` what people have received, `tasks` and `timers` the orders with the service
and in memory, `calls` the coroutines: each is the sequence of the steps it still has to do, one per await. `Transition`
is `transition_pending_action` (one guarded UPDATE) with the reactions of the subscribers (`AfterMove`: relationship
first, then the stages that are owed). A stage goes out through `Ask` (an order of a speech, or at once), `TaskAnswers`
or `TimerFires`, `Claim` (the speech that came first), `Enter` (the lock, and the look at the row under it), `Send` or
`SendFails`, `Column`. `RecoverOpen`, `RecoverDrafts` and `RecoverOwed` are the start of the bot. `TaskLost` is the
result of an order, one broadcast of the tasks service, that nobody hears; an alarm lost so is missed, as no timer stays
in memory once the order was accepted (`pending_actions.py:463`). `Raises` is an exception at any await: what called the
coroutine logs it (`_after`, the bus, the start), its other steps are gone, and a speech it had claimed stays claimed
(`stuck`). `dropped` is history: what has been let go of like that until the next start, or until the form moves on and
has another alarm. Texts, keyboards and edits of old messages are left out.

### `DeferredTasks`

`tasks/service.py`. `task`, `waiter` are the tables; `op` the handlers of `create`, `fire_now` and `match_event`, which read, mark and
spawn in separate steps; `due` and `ahead` the listings in the hands of `fire_loop` and `prewake_loop`; `job` and `run` the prewakes and
firings they have spawned. Time is an order of three: far, soon (inside the lead of the prewake), due. `RunEnds` is
the answer of the target, or the end of its grace; `FiringRaises` is the branch of `_fire_one_safe` that logs an exception and
answers nothing, wherever the firing is, `PopRaises` and `PopDueRaises` a database that fails between the mark and the
firing (`raised` counts them); a death takes everything but the tables.

### `Replication`

One instance package. `content` and `meta` are its two files at every node, `loaded` what the running service has read, `pull` an
answer on its way. `Edit` writes only the package; `Refresh` notices by the hash and makes the next revision; `Pull` asks
a peer whose revision wins; `Receive` judges the answer once more and applies it (`Apply`) or not; `CrashInApply` dies between the two
writes. Hashes are contents, and every edit makes new content.

### `Monitor`

`Put` and `Take` are `DedupQueue` and its worker; `Scan` is the reading with `reconcile_band`, `Tell` and `MarkNotified` the two phases of a
notification, `Turn` the change from alerts to clears; `SmartRead`, `SmartDiff`, `SmartSave` the job of the disks. A client of the
socket comes and goes (`Connect`, `Disconnect`), a job fails (`JobFails`), the monitor dies and starts (`Restart`). A job that
fails because the database does may take the loop of the worker with it (`worker/worker.py:29` and `:38` are outside the `try`):
`job` is `Ended` then, the queue fills, and nothing is told until a restart. `sent`, `told` and `streak` are
history. Temperatures go through the same steps over another table.

## What the runs check

| run | instance | properties |
|---|---|---|
| `hub` | a test job, an agent job, 2 executors, 1 requeue, 4 messages | `HubTypeOK`, `VerdictMatchesStatus`, `RunsAccounted`, `ActiveHasExecutor`, `HubMeetsContract` |
| `worker` | 1 job, 2 executors, 2 calls of the client (stop, resume, answer), 1 death, 2 losses | `WorkerTypeOK`, `KnownRuns`, `OwnVerdicts` |
| `worker_live` | 2 jobs, 1 executor, 1 call, 1 death, 1 loss, fair | `RunsEnd`, `CurrentClears`, `QueueDrains` |
| `lease` | an active and a standby, 2 deaths, 2 outages, 2 losses, any start time | `LeaseTypeOK`, `AnswersHold`, `StartsClear` |
| `lease_live` | an active, two standbys, 1 death, 1 outage, fair | `SeniorHolds` |
| `supervisor` | one slot, one call at a time, 4 watchers, 1 process without watcher, fair | `SupervisorTypeOK`, `WantedIsWatched`, `WantedRuns` |
| `agent` | 1 job, 1 slot, 2 calls of the owner (also answers before a claim), 1 death at any place, 1 loss, fair | `AgentTypeOK`, `AgentRunsKnown`, `AgentRunsEnd` |
| `pending` | 1 form with an outcome, 2 coroutines, any lost orders, 1 fault (death, exception, failed send), fair | `PendingTypeOK`, `OneForm`, `Consent`, `VerdictFinal`, `FormsClose`, `EveryFormArrives` |
| `tasks` | an alarm and a dialogue, 1 handler beside the loops, 1 death, 1 exception per task, fair | `TasksTypeOK`, `FiringsAccounted`, `EveryTaskAnswered` |
| `replication` | 3 nodes, one of them active, 2 clock readings, 2 edits, 2 deaths, fair | `ReplicationTypeOK`, `RevisionsAreComparable`, `NeverGoesBack`, `Converges`, `ServiceReadsItsPackage` |
| `monitor` | 1 metric, 1 disk with 2 levels, thresholds of 2, 2 faults, fair | `MonitorTypeOK`, `MarksAreTrue`, `ChangesAreSustained`, `SmartChangesAreTold`, `ChangesAreTold` |
| `agent_resume` | 1 job, 1 slot, 1 call, no death and no loss | `WaitingIsParked`, violated: see [findings](#findings) |

What they mean:

- `VerdictMatchesStatus`: a client that reads its inbox is never told of an end that did not happen, nor told twice.
- `RunsAccounted`: a job that kills the machine of its executor is not run for ever, and `resume` gives it a new account; an
  answer that sets a queued job to work counts like a claim. `ActiveHasExecutor`: such an answer is the only way to a running
  job that nobody may report on.
- `KnownRuns`: the executor of a running job has it in `state.json`, or the reply to its claim is on the way; so a death at
  any line leaves somebody who settles the run. The exceptions are a claim whose reply is lost and a run no claim began.
- `OwnVerdicts`: a verdict the hub would take is about the present run, although the `executor` column survives stop and
  resume. `stopped` is excepted: see the divergences.
- `AnswersHold`: an answer "not running" is good until the decision, or the peer has spawned since. It depends on
  `_status` staying `running` until `stop()` has seen the end of the process.
- `StartsClear`: a node does not start over a process of a peer that has answered, except to take the slot back.
- `SeniorHolds`: when faults stop, exactly the senior of the nodes that are up runs the service. It fails, for instance,
  if a node that sees a running inferior does not claim (mutant `AskNot`).
- `WantedIsWatched`, `WantedRuns`: as long as calls come one at a time, a wanted slot has one watcher, the one the next stop
  waits for; it brings the process up again after every crash, and every stop comes to its end.
- `AgentRunsKnown`, `AgentRunsEnd`: a job the hub counts as in work is in the files of a slot or in the reply to its claim, and
  ends, asks or goes back to the queue; but for the accidents of `orphan`, for a run that an answer began before the claim, and for a slot
  that a stop has killed.
- `OneForm`: a person gets a form once, and once more only for each fault. `Consent`: a relationship has an offer that was
  sent and its addressee's click behind it. `EveryFormArrives`, `FormsClose`: again and again nobody waits, nothing is left open,
  but what an exception or a lost alarm has dropped; a restart takes it up.
- `FiringsAccounted`: what is marked as fired is answered, in work or about to be, unless a firing of it has raised or
  the service has died; and a task fires once per handler and once by the loop at most, and no more because of a restart
  or an exception. It may fire twice: `fire_now` asks nothing when it marks.
- `RevisionsAreComparable`, `NeverGoesBack`, `Converges`: although clocks are not in step and a node may die between the two
  writes, of two different packages exactly one wins, no late answer takes a node back, and all nodes agree when the edits
  end. `ServiceReadsItsPackage`: the running service is restarted onto what its node has.
- `MarksAreTrue`, `ChangesAreTold`: a mark is true of what a client was sent, and what lasts is told in spite of deaths,
  failed jobs and clients that go away, as long as the loop of the worker lives or is restarted. `ChangesAreSustained`:
  a gap, the dead zone or a death does not add up to an alert.

Every property has a mutant in `PROJECT.json`: a plausible bug in the modelled code that makes the run fail. The mutants
are marked as such in the modules and are in no next-state relation.

**Bounds.** Two executors and one job are enough for an old run's executor to meet the new one's; two jobs and one
executor for a cursor that runs ahead of a job's letters, and for a job left over to keep another one waiting. Two jobs
with two executors exceed ten million states; the deployment has one executor ("исполнитель один",
`docs/devlab/wake.md:17`). `TestMaxRequeues` is 1 (2 in the code): the limit is then reached within one run. `MaxSeq` 4
in `hub` is enough for claim, verdict, resume, and a verdict of the next run; in the workers' runs it is so high that no
call is cut off by it. In `lease`, two nodes are every pair of a senior and a junior; `lease_live` has a third, so that
two standbys compete while the active one is down. Grace, holdoff and the ready timeout keep the order the code's values
have to stop and start where the property needs it (next section).

`agent` (666 000 states) has one job and one slot, in which a stop, an answer or a resume meets every place of the three
loops, twice. Larger instances have been checked outside the runs, for the safety properties: 1 job, 1 slot, 3 calls
(6.0 million states); 1 job, 2 slots, 2 calls, 1 death (5.9 million); 2 jobs, 1 slot, 2 calls, 1 death (9.4 million);
and for 2 jobs, 2 slots, 1 call, 1 death no violation in the first 11.8 million states. `AgentRunsEnd` also on 2 jobs
with 1 slot and on 1 job with 2 slots. The larger instances were checked before `Look` and `DiesParking` were steps of
their own; what they checked is proved by now. In `pending` (662 000 states) two coroutines are what it takes to race
for a form; a third only waits for its lock, and the proofs are for any number; one fault at any place is bounded by
`MaxFaults`, lost orders are not. `tasks` (389 000 states) has two tasks so that one waits behind the other in the
listing of the loop; `MaxRaises` is 1 per task, and the tasks do not share what an exception takes. `replication` needs
three nodes: a revision that reaches a node over another one. Two clock readings are a tie and a difference. `monitor`
(257 650 states): thresholds of two are the least that can be interrupted; metrics do not meet except in the order of
`todo` (two of them, with one fault, were checked for safety before the loop could end: 11.8 million states). A restart
of a worker that has ended is free of the bound, so that it may always come. `supervisor` has four watchers: one in
charge, one cancelled with its process alive, and one more for every call that is waiting.

## Fairness

- `worker_live`: weak fairness of the claim loop, the poll loop and the restart of a dead process. `forever` and
  `_claim_loop` catch every error and go on after `poll_interval`; a test has a time limit (`spec.timeout_s`); the
  service manager restarts the executor. Deaths and losses are finitely many, or nothing could be promised.
- `lease_live`: weak fairness of every node's tick, of its supervisor, of the readiness of a process, and of time.
  `_run` of the manager catches every error of a tick; the supervisor's task loops. No fairness of `Fence`: that two
  pollers are told apart by Telegram is not assumed; the claim alone settles it. Nodes that are down need not return.
  `ReadyTimeout > MaxStop + MaxBoot + 2` is part of the instance. With `ReadyTimeout = 3` TLC shows two nodes that take the
  slot from each other for ever, because the timer counts from before the stop (`now` of `lease.py:148`): a stop that lasts
  up to `stop_timeout_s` (90 s) is longer than the 45 s the senior is given.
- `supervisor`: weak fairness of every step of a call and of a watcher, and of the end of a process that was told to end
  (it gets SIGKILL); strong fairness of `Spawn`, that is: the system can create a process now and then. Nobody has to
  call, and processes crash as often as they like.
- `agent`: weak fairness of the three loops of every slot and of the start of a dead process; as in `worker_live`, and a
  dialogue with the model has its limits of steps, time and spend (`AgentLoop`).
- `pending`: weak fairness of every coroutine, of the start, of the outbox and of time. Strong fairness of orders that come due,
  because the two coroutines are a bound of the model: a timer that finds both taken has to get its turn, as the event
  loop gives it. No click is fair: a form nobody answers ends by its term. No fairness of `TaskLost` and `Raises`.
- `tasks`: weak fairness of handlers, of `fire_loop`, of firings, of time and of the start. No fairness of the prewake,
  of events, of `TargetReady` and of commands: a target that stays away is answered by the end of its grace. No fairness of the exceptions.
- `replication`: weak fairness of the hash check, of the poll and of a node's start; strong fairness of `Receive`: an
  answer that is lost every time is not a network the code could work with. Edits and deaths are finitely many.
- `monitor`: weak fairness of the cron trigger, the worker and the bot's reconnection; strong fairness of a scan in which
  something can be read (`/proc` always can). Faults are finitely many. No fairness
  of the restart: nobody watches the task of the worker, and `ChangesAreTold` says so.

## What is proved

All theorems are for any values of the constants that satisfy the module's assumption; eight modules hold them.

- `HubQueue_proofs`. `HubTypeCorrect`. `HubRunsAccounted` and `HubActiveHasExecutor`: the inductive invariant `RunsInv` is the two
  properties together (a claim and an answer before it need the exact count of a queued job, a requeue that of a running one). `HubVerdicts`:
  `VerdictInv` adds `SeqBound` (every letter is
  at most `lastSeq`), without which a new verdict could lie below an old `resume`; the lemmas `PostKeepsVerdicts`,
  `PostAddsVerdict`, `ResumeClearsVerdicts` say what a post does to `FreshVerdicts`. `HubImplements`: every step maps to a step of
  `RunContract` or a stutter, from `RunsInv` and `NewNotRun` (a job not submitted has no runs).
  `HubMailboxIsALog`: no call changes or removes a message (the purge is not modelled), numbers are unique and new ones are
  above all others; from `SeqBound`. `HubOrderIsTotal`: no two jobs tie in the order of claims; `ArrivalInv` (the submitted
  jobs have different `created_at`, which a resume and a requeue keep) and `NoneStays` (only a submit changes who is submitted and when).
- `TestWorker_proofs`. `WorkerTypeCorrect` with `LoopShape` (a job at hand is the one of `state.json`). `WorkerImplementsHub`:
  every step is a step of `HubQueue` or leaves its variables alone, so that the theorems above hold of the composition.
  `WorkerKnownRuns` and `WorkerOwnVerdicts`: the inductive invariant `RunInv` is `KnownRuns` with `NoneAsks` (a test job never waits for its owner),
  `FinishedOver` (a verdict answered "ok" or "refused" leaves no run behind) and `HeldFresh` (the run the hub ascribes to
  an executor is the one it holds). What the hub would take it ascribes to the sender, and by `HeldFresh` that is the present run.
- `AgentWorker_proofs`. `AgentUsesHub`: every step of a slot or of the owner is a step of `HubQueue` or leaves its variables
  alone. The inductive invariant `AgentSafe` is `HubTypeOK` with two parts. `AgentInv`: the types, `SlotOK` (where a slot is says what it has
  at hand and what is saved) and `MailOK` (polled letters are of the mailbox and above the cursor); from it
  `AgentTypeCorrect` and `AgentHandOrParked`. `KnownInv` has four conjuncts, none inductive alone: `InWork` (what the hub has in work is an
  agent job of this executor, so that a verdict it refuses is one it no longer waits for), `Granted` (`handle`
  forgets a parked question of the job it takes, so that job must not be waiting), `Awaited` (a question that waits is parked,
  being closed or has its end in the outbox) and `Kept` (a running job is at hand, granted, or has its verdict in the outbox, or
  is kept as a question is). `Kept` needs `Awaited` because an answer turns a waiting job into a running one, and `Awaited` rests on the
  hub's refusal of `done` for a waiting job. All four except the jobs in `orphan`, the history of the accidents, and those in
  `presumed`, which no claim has given to a slot. From it
  `AgentKnowsItsRuns`, and `AgentQuestionsParked`: but for those accidents the docs' promise that `agent_resume` refutes
  is kept. TLC checked the four on instances of two slots and of two jobs before they were proved.
- `Lease_proofs`. `LeaseTypeCorrect` with `SupervisorShape` (running exactly while there is a process; wanted unless the
  tick is stopping it). `LeaseAnswersHold` is inductive on top of it. `LeaseStartsClear`: only `Take` and `TakeBack` set `wanted`
  (`StartsByDecision`), and `Take` has seen every peer idle or silent.
- `Node_proofs`, the slot. `SupervisorTypeCorrect`, for callers that interleave. `SupervisorWantedIsWatched` for one caller (its
  hypothesis is `Callers = {c}`: with two the property is false): the invariant `Accounted` says, for every place the
  call can be in, where the watchers are and whether the slot is wanted.
- `PendingActions_proofs`. The inductive invariant is `Typed` (every call is a sequence of which only the first step may
  send, record, relate or move), `LockOnce`, `FormInv` (copies of a message are at most faults, exceptions among them,
  plus the one that is recorded or about to be, and nobody sends what is recorded) and `FriendInv` (one call at most
  writes the relationship of an accepted form, and it is not written yet). `PendingOneForm`, `PendingConsent` and
  `PendingTypeCorrect` follow; `PendingVerdictFinal` from `FromOpen`: a move leaves only open rows. `QuietStep` does all
  steps that neither hold a lock nor decide, `Breaks` what is left of a coroutine that raises; `Marks` types `stuck` and
  `dropped`.
- `DeferredTasks_proofs`. `TasksTypeCorrect`; `TasksFiringsAccounted`: `FiringInv` counts, per task, the firings and the
  readers that may still add one (`Load`), and bounds the sum while the row is pending and after; a firing that raises moves from one
  place of the sum to another (`RaiseAccounts`).
- `Node_proofs`, the replication. `ReplicationTypeCorrect`; `ReplicationComparable`, from two facts: a revision a node has made is
  not above the one it has (`RevBound`), and two revisions of one number and one maker are the same (`Unique`).
  `ReplicationNeverGoesBack`. `ReplicationLeavesForGood`: a revision left for a winner never comes back to that node. `WinsOver` is not
  transitive (neither of two revisions with one number and one package wins, and a third may lie between them), so that
  single steps upwards prove no such thing; the proof climbs in `Above`, the order behind it.
- `Monitor_proofs`. `MonitorInv` is the types with `JobInv` (what the job in work may still tell and mark is true of the rows) and
  `CountInv` (the counter of a row is at most the streak of its readings); from it `MonitorTypeCorrect`, `MonitorMarksAreTrue`,
  `MonitorChangesAreSustained`, `MonitorSmartChangesAreTold`.

Only model-checked: the liveness properties (`RunsEnd`, `CurrentClears`, `QueueDrains`, `SeniorHolds`, `WantedRuns`, `AgentRunsEnd`, `FormsClose`,
`EveryFormArrives`, `EveryTaskAnswered`, `Converges`, `ServiceReadsItsPackage`, `ChangesAreTold`), since the prover handles neither
fairness nor `ENABLED`. All safety properties of the passing runs are proved. `WaitingIsParked` is the one that is false. What is proved of `HubQueue`
holds of both compositions, by `WorkerImplementsHub` and `AgentUsesHub`.

## Findings

`agent_resume`: a `resume` names a job and not a run (`agent_worker.py:279`). If a claim overtakes it and the new run has asked its
owner by the time the letter is handled, the letter forgets the new question, its dialogue and its container; the hub waits for an
owner whose answer nobody will take up. `docs/devlab/queue.md:44` takes this overtaking for harmless.

Modelling has met other places where the code and its docs disagree, or where the code does not keep what a reader would
expect. The models have all of these behaviours unless it says otherwise, and TLC shows them when one asks; the properties above are stated
so that they hold in spite of them.

- Answers before a claim. `docs/devlab/queue.md:15` lets a queued job become running by a `claim` only and the line of
  `answer` there reads «waiting_owner → running», but `post_from_client` takes an answer to a queued job
  (`queue.py:454`, by `protocol.py:35`; the unit test of the table expects it): the job is running with nobody at work
  on it. With no executor in the column nobody may report on it, and after a stop and a resume the old one is taken to
  have it and knows nothing of it. Only the owner's stop ends such a run.
- Queue and test executor. A stop that is polled between the hub's commit of the claim and `handle` is thrown away
  (`worker.py:250`) against `docs/devlab/executor.md:48`. After stop and resume, the old run's late `stopped` cancels the job
  that is back in the queue (`queue.py:404`); `docs/devlab/queue.md:15` knows only the client's stop for that. A stop
  of a queued job becomes unread work below the cursor of the executor that claims it later (`queue.py:576`), and `pending_work`
  stays true (`docs/devlab/wake.md`).
- Agent executor. A stop that is polled while `_work` is in its `except` or `finally` (`agent_worker.py:268`, `:416`) leaves
  `_work` and ends all loops of the slot, although `docs/devlab/agent.md:182` says that a stop ends a job. A stop that is handled
  after a resume and a claim cancels the new run, and a verdict kept in the outbox over a resume ends it. A question
  that is sent again after its answer waits for an answer that has been given, and a redelivered answer answers a new
  question; a parked job whose closing dies is dropped; a death between the two files of `_park`
  (`agent_worker.py:586`, `:235`) leaves a parked job whose question was never put into the outbox and which the hub calls running for ever;
  its late `_forget` hits the new run. A stop while the question is being sent
  leaves a parked entry nobody needs. A death after a verdict and before the save runs a stopped job again, so that
  `docs/devlab/agent.md:197` (a job in the state is one to go on with) is not always so.
- Lease. `_silent_since` is set during a restart and not removed when the slot runs (`lease.py:239`): after its next yield the
  standby starts at the first unanswered poll, without the 120 s of
  `docs/node-core/leases-and-replication.md:29`. The timer of a node that has made way is dropped by a tick that sees the
  senior between its claim and its process (`lease.py:220`): a senior that never gets ready then keeps the slot (`:39` there).
- Supervisor. With one caller: a stop between a watcher's creation and its spawn finds no process to signal, gives up waiting for the watcher
  and leaves the process it spawns; a later start makes a second one. With two callers more of it:
  `WantedIsWatched` is false then.
- Replication. A local edit nobody has noticed yet is overwritten by a peer's package whose revision wins.
- Deferred tasks. `fire_now` and an event mark a row they have read before an await (`tasks/service.py:207`): a task may
  fire twice. A death between the mark and the firing loses the task. An exception outside `SERVICE_CALL_ERRORS` in a
  firing (an `emit`, a query, an error of `run_chat_loop`) is logged and nothing is emitted (`tasks/service.py:313`):
  whoever waits for the result waits for ever.
- Pending actions. A death between the acceptance and the writing of the relationship leaves an accepted form without
  its effect, and so does an exception there, which the bus swallows. A speech that is claimed stays claimed if an
  exception comes before `on_speech_result` (`node_events.py:309-332`) or in `_deliver` (`:542` is in no `finally`), and
  its form waits for a restart. An alarm of the term is one broadcast: if the link to the tasks service is broken then,
  or the service dies after its mark, the form stays open until a restart or a click.
- Monitor. A database error when a run of a job is recorded (`worker/worker.py:29`, or `:38` after another error) ends
  `JobWorker.run`; nobody watches the task (`monitor/app.py:46`), and no alert is told until the monitor is restarted. A
  SMART answer without a status is saved over the last level (`domain/smart.py:42`): a worsening across it is never
  told. The row of a metric that cannot be read is deleted: the end of its alert is not told. An alert counts as handled
  when a client took it, even if the bot then cannot reach Telegram. The kernel log's interval is passed when journalctl
  fails (`jobs/scan.py:151`, not modelled).

## What is not modelled

- Hub: purge, progress and stall watch (times), spend, log index, projects, the isolation of clients, `wait_terminal`; a
  request that the hub executes after its sender has given up and gone on.
- Test executor: the branch `test/*` and its removal, heartbeat, logs; answers 401 and 403, which the code treats like a
  refusal. The asyncio cancellation at shutdown is covered by `Crash`: it either ends in the delivered state or leaves
  the job in `state.json`.
- Agent executor: the busy report and `release`, spend, `step_done`, logs; podman, git and the mirrors are the calls they are. The freezing of a
  neighbour's load (`neighbor.py`) is not modelled: freeze and thaw depend on a container manager.
- Lease: the warning of a stuck slot, assignments at run time, and the wait for the
  links before the first decision: the first poll of a node is like any other. A process that cannot be created and the commands of an
  operator are in `Supervisor`, for one slot.
- Supervisor: an exception inside a watcher, `close()` of the node, the log of a process.
- Replication: packages of identities and satellites; the events of the swarm, which ask the question of the poll.
- Monitor: what the sensors measure, the interval of the kernel log, housekeeping (it keeps no state).
- Pending actions: the choice of a way out to Telegram and its retries (`bot/egress.py`), edits of messages that were sent.
- The warm window of a language model (`llm/service.py`): when a model is loaded and dropped depends on times and on the load of the
  machine; a request finds it or waits.

By lines most of the repository is none of this: screens and commands of the bot, interactives (games in the chat), set-up, fixups and
packaging of the host, configuration, parsers, and clients of external programs. These are sequential request-reply
code over one table or one program each; what could be said of them is what their unit tests say. So the map covers a
small share of the lines, and the share of the state machines that matter in it is much larger: the table of
components in `PROJECT.json` says which.

## Running it

    tlc -config MCHubQueue.cfg MCHubQueue.tla      # and the other configurations
    tlapm HubQueue_proofs.tla                      # and the other *_proofs modules

`MCTestWorker*.cfg` go with `MCTestWorker.tla`, `MCLease*.cfg` with `MCLease.tla`, `MCAgent*.cfg` with
`MCAgentWorker.tla`. With two workers, `hub` and `lease_live` take about three minutes, `pending` two and a half,
`worker`, `agent` and `lease` one and a half, `monitor` and `tasks` one, the others less. The proofs take from ten
seconds (`Lease_proofs`) to some minutes (`PendingActions_proofs`, `DeferredTasks_proofs`).
