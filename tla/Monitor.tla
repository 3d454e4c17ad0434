------------------------------ MODULE Monitor ------------------------------
(***************************************************************************)
(* The monitor's jobs (jobs/scan.py, jobs/smart.py): one worker takes them *)
(* from a queue that keeps one job of a kind, reads the sensors, moves the *)
(* rows of host_metric_states with hysteresis, and tells the clients of its *)
(* socket what changed.  A row remembers what has been told, so a change    *)
(* that nobody was there to hear is told by a later scan.                   *)
(* Temperatures go through the same steps (run, _dispatch_alerts and        *)
(* _dispatch_clears over health_states).                                    *)
(***************************************************************************)
EXTENDS Naturals, Sequences, SequencesExt

CONSTANTS
    Metrics,    \* component_id of the rows that are followed
    Disks,
    Levels,     \* classes of health of a disk, worse is greater
    ToAlert,    \* consecutive_to_alert
    ToClear,    \* consecutive_to_clear
    MaxFaults,  \* bound: deaths, failed jobs and lost connections together
    NoRow, None, Unknown

ASSUME MonitorAssumption ==
    /\ ToAlert \in Nat \ {0} /\ ToClear \in Nat \ {0} /\ MaxFaults \in Nat
    /\ Levels \subseteq Nat /\ None \notin Levels \cup {Unknown} \cup Metrics \cup Disks

VARIABLES
    row,     \* host_metric_states
    saved,   \* smart_snapshots
    queue,   \* DedupQueue
    job,     \* the job in work; Ended once the loop of the worker has ended
    client,  \* whether a client is connected to the socket
    faults,
    sent,    \* history: the last event of a metric a client was sent
    told,    \* history: the last level of a disk a client was sent
    streak   \* history: how many readings in a row had the band of the last one

vars == <<row, saved, queue, job, client, faults, sent, told, streak>>

Bands == {"over", "mid", "under"}
Jobs == {"scan", "smart"}
Idle == [kind |-> "none", todo |-> {}, mark |-> None, seen |-> <<>>]
Ended == [Idle EXCEPT !.kind = "ended"]
FirstJobs == <<"smart", "scan">>
NoStreak == [band |-> "mid", n |-> 0]

MonitorInit ==
    /\ row = [m \in Metrics |-> NoRow]
    /\ saved = [d \in Disks |-> None]
    /\ queue = FirstJobs
    /\ job = Idle
    /\ client = FALSE
    /\ faults = 0
    /\ sent = [m \in Metrics |-> "nothing"]
    /\ told = [d \in Disks |-> None]
    /\ streak = [m \in Metrics |-> NoStreak]

-----------------------------------------------------------------------------
(* The hysteresis and the rows. *)

NewRow == [status |-> "ok", count |-> 0, alert |-> FALSE, clear |-> FALSE]

\* mutant: the dead zone does not break the streak
BrokenByOpposite(r, band) == IF band = "mid" THEN r ELSE [r EXCEPT !.count = 0]

Broken(r, band) == [r EXCEPT !.count = 0]

\* mutant: an alert that starts keeps the marks of the last one
StartedMarked(r) == [r EXCEPT !.status = "alerting", !.count = 0]

Started(r) == [status |-> "alerting", count |-> 0, alert |-> FALSE, clear |-> FALSE]

Risen(r) == IF r.count + 1 >= ToAlert THEN Started(r) ELSE [r EXCEPT !.count = @ + 1]
Fallen(r) == IF r.count + 1 >= ToClear
             THEN [r EXCEPT !.status = "ok", !.count = 0, !.clear = FALSE]
             ELSE [r EXCEPT !.count = @ + 1]

Reconcile(r, band) ==
    IF r.status = "ok" /\ band = "over" THEN Risen(r)
    ELSE IF r.status = "alerting" /\ band = "under" THEN Fallen(r)
    ELSE Broken(r, band)

Known(m) == IF row[m] = NoRow THEN NewRow ELSE row[m]
Alerting(m) == row[m] # NoRow /\ row[m].status = "alerting"
Cleared(m) == row[m] # NoRow /\ row[m].status = "ok"
PendingAlerts == {m \in Metrics : Alerting(m) /\ ~row[m].alert}
PendingClears == {m \in Metrics : Cleared(m) /\ row[m].alert /\ ~row[m].clear}

Longer(s, band) ==
    IF band = "absent" THEN NoStreak
    ELSE IF band # s.band THEN [band |-> band, n |-> 1]
    ELSE [s EXCEPT !.n = IF @ < ToAlert + ToClear THEN @ + 1 ELSE @]

-----------------------------------------------------------------------------
(* The queue and the worker. *)

\* A cron trigger, or scan_now.  A kind that is queued is not queued again.
Put(kind) ==
    /\ kind \notin ToSet(queue)
    /\ queue' = Append(queue, kind)
    /\ UNCHANGED <<row, saved, job, client, faults, sent, told, streak>>

\* get() frees the kind before the job is run.
Take ==
    /\ job = Idle
    /\ queue # <<>>
    /\ queue' = Tail(queue)
    /\ job' = [Idle EXCEPT !.kind = Head(queue)]
    /\ UNCHANGED <<row, saved, client, faults, sent, told, streak>>

\* A metric whose file or program could not be read is absent; its row is
\* deleted when any metric, one of Metrics or another, was read.
Scan(bands, others) ==
    /\ job = [Idle EXCEPT !.kind = "scan"]
    /\ IF ~others /\ \A m \in Metrics : bands[m] = "absent"
       THEN job' = Idle /\ UNCHANGED <<row, streak>>
       ELSE /\ row' = [m \in Metrics |->
                IF bands[m] = "absent" THEN NoRow ELSE Reconcile(Known(m), bands[m])]
            /\ streak' = [m \in Metrics |-> Longer(streak[m], bands[m])]
            /\ job' = [job EXCEPT !.kind = "alerts", !.todo = PendingAlerts']
    /\ UNCHANGED <<saved, queue, client, faults, sent, told>>

EventOf(kind) == IF kind = "alerts" THEN "alert" ELSE "clear"

\* mutant: an event counts as handled though no client took it
TellMarked(m) ==
    /\ job.kind \in {"alerts", "clears"} /\ job.mark = None
    /\ m \in job.todo
    /\ job' = [job EXCEPT !.todo = @ \ {m}, !.mark = m]
    /\ IF client THEN sent' = [sent EXCEPT ![m] = EventOf(job.kind)] ELSE UNCHANGED sent
    /\ UNCHANGED <<row, saved, queue, client, faults, told, streak>>

\* dispatch_host_alert and dispatch_host_clear: handled when a client took it.
Tell(m) ==
    /\ job.kind \in {"alerts", "clears"} /\ job.mark = None
    /\ m \in job.todo
    /\ \/ /\ client
          /\ sent' = [sent EXCEPT ![m] = EventOf(job.kind)]
          /\ job' = [job EXCEPT !.todo = @ \ {m}, !.mark = m]
       \/ /\ ~client
          /\ job' = [job EXCEPT !.todo = @ \ {m}]
          /\ UNCHANGED sent
    /\ UNCHANGED <<row, saved, queue, client, faults, told, streak>>

MarkNotified ==
    /\ job.kind \in {"alerts", "clears"} /\ job.mark # None
    /\ row' = [row EXCEPT ![job.mark] =
                 IF job.kind = "alerts" THEN [@ EXCEPT !.alert = TRUE] ELSE [@ EXCEPT !.clear = TRUE]]
    /\ job' = [job EXCEPT !.mark = None]
    /\ UNCHANGED <<saved, queue, client, faults, sent, told, streak>>

Turn ==
    /\ job.kind \in {"alerts", "clears"} /\ job.mark = None /\ job.todo = {}
    /\ job' = IF job.kind = "clears" THEN Idle
              ELSE [job EXCEPT !.kind = "clears", !.todo = PendingClears]
    /\ UNCHANGED <<row, saved, queue, client, faults, sent, told, streak>>

-----------------------------------------------------------------------------
(* SMART: the snapshot that was told is the one the next is compared with. *)

\* A disk smartctl did not answer for is not in the readings; one that
\* answered without a status has the level Unknown.
SmartRead(disks, seen) ==
    /\ job = [Idle EXCEPT !.kind = "smart"]
    /\ job' = [job EXCEPT !.kind = "snapshots", !.todo = disks, !.seen = seen]
    /\ UNCHANGED <<row, saved, queue, client, faults, sent, told, streak>>

\* diff_smart: no event without two known levels that differ.
Changed(old, new) == old \in Levels /\ new \in Levels /\ old # new

\* mutant: the snapshot is saved, whoever has heard of it
SmartDiffKept(d) ==
    /\ job.kind = "snapshots" /\ job.mark = None /\ d \in job.todo
    /\ saved' = [saved EXCEPT ![d] = job.seen[d]]
    /\ told' = [told EXCEPT ![d] = IF Changed(saved[d], job.seen[d]) /\ client THEN job.seen[d] ELSE @]
    /\ job' = [job EXCEPT !.todo = @ \ {d}]
    /\ UNCHANGED <<row, queue, client, faults, sent, streak>>

SmartDiff(d) ==
    /\ job.kind = "snapshots" /\ job.mark = None /\ d \in job.todo
    /\ \/ /\ ~Changed(saved[d], job.seen[d])
          /\ saved' = [saved EXCEPT ![d] = job.seen[d]]
          /\ job' = [job EXCEPT !.todo = @ \ {d}]
          /\ UNCHANGED told
       \/ /\ Changed(saved[d], job.seen[d]) /\ ~client
          /\ job' = [job EXCEPT !.todo = @ \ {d}]
          /\ UNCHANGED <<saved, told>>
       \/ /\ Changed(saved[d], job.seen[d]) /\ client
          /\ told' = [told EXCEPT ![d] = job.seen[d]]
          /\ job' = [job EXCEPT !.todo = @ \ {d}, !.mark = d]
          /\ UNCHANGED saved
    /\ UNCHANGED <<row, queue, client, faults, sent, streak>>

SmartSave ==
    /\ job.kind = "snapshots" /\ job.mark # None
    /\ saved' = [saved EXCEPT ![job.mark] = job.seen[job.mark]]
    /\ job' = [job EXCEPT !.mark = None]
    /\ UNCHANGED <<row, queue, client, faults, sent, told, streak>>

SmartEnd ==
    /\ job.kind = "snapshots" /\ job.mark = None /\ job.todo = {}
    /\ job' = Idle
    /\ UNCHANGED <<row, saved, queue, client, faults, sent, told, streak>>

-----------------------------------------------------------------------------
(* The client and the faults. *)

Connect ==
    /\ ~client
    /\ client' = TRUE
    /\ UNCHANGED <<row, saved, queue, job, faults, sent, told, streak>>

Fault == faults < MaxFaults /\ faults' = faults + 1

Disconnect ==
    /\ client
    /\ Fault
    /\ client' = FALSE
    /\ UNCHANGED <<row, saved, queue, job, sent, told, streak>>

\* The worker logs the exception of a job and takes the next one.  Where the
\* run of the job cannot be recorded, before it begins or after it failed, the
\* loop itself ends, and nobody watches its task.
JobFails ==
    /\ job.kind \notin {"none", "ended"}
    /\ Fault
    /\ job' \in {Idle, Ended}
    /\ UNCHANGED <<row, saved, queue, client, sent, told, streak>>

\* What is restarted because its worker has ended is no further fault.
Restart ==
    /\ IF job.kind = "ended" THEN UNCHANGED faults ELSE Fault
    /\ job' = Idle
    /\ queue' = FirstJobs
    /\ client' = FALSE
    /\ UNCHANGED <<row, saved, sent, told, streak>>

WorkerStep ==
    \/ Take
    \/ \E bands \in [Metrics -> Bands \cup {"absent"}], others \in BOOLEAN : Scan(bands, others)
    \/ \E m \in Metrics : Tell(m)
    \/ MarkNotified
    \/ Turn
    \/ \E disks \in SUBSET Disks : \E seen \in [disks -> Levels \cup {Unknown}] : SmartRead(disks, seen)
    \/ \E d \in Disks : SmartDiff(d)
    \/ SmartSave
    \/ SmartEnd

MonitorNext ==
    \/ \E kind \in Jobs : Put(kind)
    \/ WorkerStep
    \/ Connect
    \/ Disconnect \/ JobFails \/ Restart

MonitorSpec == MonitorInit /\ [][MonitorNext]_vars

\* The cron trigger, the loop of the worker and the bot's reconnection; and
\* /proc, of which something can be read again and again.
MonitorFairness ==
    /\ WF_vars(Put("scan")) /\ WF_vars(WorkerStep) /\ WF_vars(Connect)
    /\ SF_vars(\E bands \in [Metrics -> Bands \cup {"absent"}] : Scan(bands, TRUE))
FairMonitorSpec == MonitorSpec /\ MonitorFairness

-----------------------------------------------------------------------------
\* Types; a row counts below the threshold of its status, and is marked as
\* cleared only where an alert was told and is over.
RowType(r) ==
    /\ r \in [status : {"ok", "alerting"}, count : Nat, alert : BOOLEAN, clear : BOOLEAN]
    /\ r.count < (IF r.status = "ok" THEN ToAlert ELSE ToClear)
    /\ r.clear => r.alert /\ r.status = "ok"

\* Every table and the job in work keep their types and the rows their shape.
MonitorTypeOK ==
    /\ \A m \in Metrics : row[m] = NoRow \/ RowType(row[m])
    /\ saved \in [Disks -> Levels \cup {None, Unknown}]
    /\ told \in [Disks -> Levels \cup {None}]
    /\ sent \in [Metrics -> {"nothing", "alert", "clear"}]
    /\ job.kind \in Jobs \cup {"none", "ended", "alerts", "clears", "snapshots"}
    /\ client \in BOOLEAN /\ faults \in 0..MaxFaults
    /\ \A k \in Jobs : \A i, j \in 1..Len(queue) : queue[i] = queue[j] => i = j

\* The marks of a row are true of what the clients were sent, whatever died
\* between the sending and the marking (_scan_host): an alert that is marked is
\* the last thing said of the metric, a clear that is marked was said after it,
\* and none is said of a metric whose alert nobody heard.
MarksAreTrue ==
    \A m \in Metrics : row[m] # NoRow =>
        /\ row[m].alert => sent[m] # "nothing"
        /\ Alerting(m) /\ row[m].alert => sent[m] = "alert"
        /\ row[m].clear => sent[m] = "clear"

\* A row changes its status only when the last readings, without a gap, agree
\* (reconcile_band): ToAlert over the threshold, or ToClear under it, also when
\* the monitor died between them.
ChangesAreSustained ==
    [][\A m \in Metrics :
        /\ Alerting(m)' /\ ~Alerting(m) => streak'[m].band = "over" /\ streak'[m].n >= ToAlert
        /\ Cleared(m)' /\ Alerting(m) => streak'[m].band = "under" /\ streak'[m].n >= ToClear]_vars

\* A level that replaces another in smart_snapshots is the one the clients were
\* sent last (SmartScanJob.run): a change nobody heard is compared again.
SmartChangesAreTold ==
    [][\A d \in Disks : Changed(saved[d], saved'[d]) => told[d] = saved'[d]]_vars

\* What lasts is told, while the worker lives (JobWorker.run): an alert is sent,
\* or is over; the end of an alert that was marked is sent, or the metric alerts
\* again, or could not be read; or the loop of the worker has ended, and a
\* restart is waited for, after which it is told.
ChangesAreTold ==
    \A m \in Metrics :
        /\ Alerting(m) ~> (sent[m] = "alert" \/ ~Alerting(m) \/ job.kind = "ended")
        /\ (Cleared(m) /\ row[m].alert) ~> (sent[m] = "clear" \/ ~Cleared(m) \/ job.kind = "ended")
=============================================================================
