---------------------------- MODULE Monitor_proofs ----------------------------
(* Proofs about the monitor, for any number of metrics and disks, any       *)
(* thresholds and any number of deaths, failed jobs and lost connections:   *)
(* what the rows say was told was told, and a row changes only on readings  *)
(* that agree.                                                              *)
EXTENDS Monitor, TLAPS

Fields == [status : {"ok", "alerting"}, count : Nat, alert : BOOLEAN, clear : BOOLEAN]
Row == {r \in Fields : RowType(r)}

\* The tables are functions, and the queue holds kinds of jobs.
Tables ==
    /\ row \in [Metrics -> Row \cup {NoRow}]
    /\ sent \in [Metrics -> {"nothing", "alert", "clear"}]
    /\ streak \in [Metrics -> [band : Bands, n : Nat]]
    /\ saved \in [Disks -> Levels \cup {None, Unknown}]
    /\ told \in [Disks -> Levels \cup {None}]
    /\ queue \in Seq(Jobs)

\* What the job in work has listed and not dealt with.
AtHand == job.todo \cup ({job.mark} \ {None})

\* The rows at hand are as they were when they were listed, for nobody else
\* writes them; and what is about to be marked has been sent.
JobInv ==
    /\ job.kind \in Jobs \cup {"none", "ended", "alerts", "clears", "snapshots"}
    /\ job = [kind |-> job.kind, todo |-> job.todo, mark |-> job.mark, seen |-> job.seen]
    /\ job.kind \in {"alerts", "clears", "snapshots"} => job.mark \notin job.todo
    /\ job.kind = "alerts" => \A m \in AtHand : m \in Metrics /\ Alerting(m)
    /\ job.kind = "clears" => \A m \in AtHand : m \in Metrics /\ Cleared(m) /\ row[m].alert
    /\ job.kind \in {"alerts", "clears"} /\ job.mark # None => sent[job.mark] = EventOf(job.kind)
    /\ job.kind = "snapshots" => \A d \in AtHand : d \in Disks /\ job.seen[d] \in Levels \cup {Unknown}
    /\ job.kind = "snapshots" /\ job.mark # None => told[job.mark] = job.seen[job.mark]

\* A row counts no more readings than have agreed.
CountInv ==
    \A m \in Metrics : row[m] # NoRow /\ row[m].count > 0 =>
        /\ streak[m].band = (IF row[m].status = "ok" THEN "over" ELSE "under")
        /\ streak[m].n >= row[m].count

Distinct == \A i, j \in 1 .. Len(queue) : queue[i] = queue[j] => i = j
Scalars == client \in BOOLEAN /\ faults \in 0 .. MaxFaults

MonitorInv == Tables /\ Distinct /\ Scalars /\ JobInv /\ MarksAreTrue /\ CountInv

-----------------------------------------------------------------------------
(* The hysteresis.                                                         *)

\* A row is whatever has the type of one.
LEMMA RowIsTyped == \A r : r \in Row <=> RowType(r)
  BY DEF Row, Fields, RowType

\* The row of a metric that has none is one.
LEMMA NewRowTyped == RowType(NewRow) /\ ~NewRow.alert /\ ~NewRow.clear
  <1>1. NewRow \in [status : {"ok", "alerting"}, count : Nat, alert : BOOLEAN, clear : BOOLEAN]
    BY DEF NewRow
  <1>2. NewRow.count = 0 /\ NewRow.alert = FALSE /\ NewRow.clear = FALSE /\ NewRow.status = "ok"
    BY DEF NewRow
  <1> QED
    BY <1>1, <1>2, MonitorAssumption DEF RowType

\* A row with another count.
LEMMA Recounted ==
  ASSUME NEW r \in Row, NEW k \in Nat, k < (IF r.status = "ok" THEN ToAlert ELSE ToClear)
  PROVE  LET q == [r EXCEPT !.count = k] IN
         RowType(q) /\ q.status = r.status /\ q.count = k /\ q.alert = r.alert /\ q.clear = r.clear
  <1> DEFINE q == [r EXCEPT !.count = k]
  <1>1. r \in Fields /\ RowType(r)
    BY DEF Row
  <1>2. q \in Fields
    BY <1>1 DEF Fields
  <1>3. q.status = r.status /\ q.count = k /\ q.alert = r.alert /\ q.clear = r.clear
    BY <1>1 DEF Fields
  <1>4. RowType(q)
    BY <1>1, <1>2, <1>3 DEF RowType, Fields
  <1> QED
    BY <1>3, <1>4

\* What one reading makes of a row.
LEMMA ReconcileRow ==
  ASSUME NEW r \in Row, NEW band \in Bands
  PROVE  LET q == Reconcile(r, band) IN
         /\ q \in Row
         /\ q.alert => r.alert
         /\ q.clear => r.clear /\ q.status = r.status
         /\ q.status # r.status =>
              IF r.status = "ok" THEN band = "over" /\ r.count + 1 >= ToAlert /\ ~q.alert
                                 ELSE band = "under" /\ r.count + 1 >= ToClear
         /\ q.count > 0 =>
              /\ q.status = r.status /\ q.count = r.count + 1
              /\ band = (IF r.status = "ok" THEN "over" ELSE "under")
  <1> DEFINE q == Reconcile(r, band)
  <1>0. r \in Fields /\ RowType(r) /\ r.count \in Nat /\ r.status \in {"ok", "alerting"}
    BY DEF Row, Fields
  <1>1. CASE r.status = "ok" /\ band = "over" /\ r.count + 1 >= ToAlert
    <2>1. q = [status |-> "alerting", count |-> 0, alert |-> FALSE, clear |-> FALSE]
      BY <1>1 DEF Reconcile, Risen, Started
    <2>2. q.status = "alerting" /\ q.count = 0 /\ q.alert = FALSE /\ q.clear = FALSE
      BY <2>1
    <2>3. q \in Fields
      BY <2>1 DEF Fields
    <2>4. RowType(q)
      BY <2>2, <2>3, MonitorAssumption DEF RowType, Fields
    <2> QED
      BY <1>1, <2>2, <2>4, RowIsTyped
  <1>2. CASE r.status = "alerting" /\ band = "under" /\ r.count + 1 >= ToClear
    <2>1. q = [r EXCEPT !.status = "ok", !.count = 0, !.clear = FALSE]
      BY <1>2 DEF Reconcile, Fallen
    <2>2. q.status = "ok" /\ q.count = 0 /\ q.alert = r.alert /\ q.clear = FALSE
      BY <1>0, <2>1 DEF Fields
    <2>3. q \in Fields
      <3>1. q = [status |-> "ok", count |-> 0, alert |-> r.alert, clear |-> FALSE]
        BY <1>0, <2>1 DEF Fields
      <3>2. r.alert \in BOOLEAN
        BY <1>0 DEF Fields
      <3> QED
        BY <3>1, <3>2 DEF Fields
    <2>4. RowType(q)
      BY <2>2, <2>3, MonitorAssumption DEF RowType, Fields
    <2> QED
      BY <1>2, <2>2, <2>4, RowIsTyped
  <1>3. CASE \/ r.status = "ok" /\ band = "over" /\ ~(r.count + 1 >= ToAlert)
             \/ r.status = "alerting" /\ band = "under" /\ ~(r.count + 1 >= ToClear)
    <2>1. q = [r EXCEPT !.count = r.count + 1]
      BY <1>3 DEF Reconcile, Risen, Fallen
    <2>2. r.count + 1 \in Nat /\ r.count + 1 < (IF r.status = "ok" THEN ToAlert ELSE ToClear)
      BY <1>0, <1>3, MonitorAssumption
    <2>3. RowType(q) /\ q.status = r.status /\ q.count = r.count + 1
            /\ q.alert = r.alert /\ q.clear = r.clear
      BY <2>1, <2>2, Recounted
    <2> QED
      <3>1. q.alert => r.alert
        BY <2>3
      <3>2. q.clear => r.clear
        BY <2>3
      <3> QED
        BY <1>0, <1>3, <2>3, <3>1, <3>2, RowIsTyped
  <1>4. CASE ~(r.status = "ok" /\ band = "over") /\ ~(r.status = "alerting" /\ band = "under")
    <2>1. q = [r EXCEPT !.count = 0]
      BY <1>4 DEF Reconcile, Broken
    <2>2. RowType(q) /\ q.status = r.status /\ q.count = 0
            /\ q.alert = r.alert /\ q.clear = r.clear
      BY <1>0, <2>1, Recounted, MonitorAssumption
    <2> QED
      BY <1>0, <2>2, RowIsTyped
  <1> QED
    BY <1>1, <1>2, <1>3, <1>4

\* A metric with no row is read into a new one.
LEMMA KnownRow ==
  ASSUME Tables, NEW m \in Metrics
  PROVE  /\ Known(m) \in Row
         /\ row[m] = NoRow => Known(m) = NewRow
         /\ row[m] # NoRow => Known(m) = row[m]
  BY NewRowTyped, RowIsTyped DEF Tables, Known

\* A reading with the band of the last one makes the streak longer.
LEMMA StreakGrows ==
  ASSUME NEW s \in [band : Bands, n : Nat], NEW band \in Bands \cup {"absent"}
  PROVE  /\ Longer(s, band) \in [band : Bands, n : Nat]
         /\ band \in Bands => Longer(s, band).band = band /\ Longer(s, band).n >= 1
         /\ \A k \in Nat : band = s.band /\ s.n >= k /\ k < ToAlert + ToClear
                             => Longer(s, band).n >= k + 1
  <1>1. CASE band = "absent"
    BY <1>1 DEF Longer, NoStreak, Bands
  <1>2. CASE band # "absent" /\ band = s.band
    BY <1>2, MonitorAssumption DEF Longer, Bands
  <1>3. CASE band # "absent" /\ band # s.band
    BY <1>3 DEF Longer, Bands
  <1> QED
    BY <1>1, <1>2, <1>3

\* What a scan makes of a metric that was read.
LEMMA ScanRow ==
  ASSUME Tables, CountInv, NEW m \in Metrics, NEW band \in Bands,
         NEW q, q = Reconcile(Known(m), band),
         NEW s, s = Longer(streak[m], band)
  PROVE  /\ q \in Row /\ s \in [band : Bands, n : Nat]
         /\ q.alert => row[m] # NoRow /\ row[m].alert
         /\ q.clear => row[m] # NoRow /\ row[m].clear /\ q.status = row[m].status
         /\ q.alert /\ q.status = "alerting" => Alerting(m)
         /\ q.status = "alerting" /\ ~Alerting(m) => s.band = "over" /\ s.n >= ToAlert
         /\ q.status = "ok" /\ Alerting(m) => s.band = "under" /\ s.n >= ToClear
         /\ q.count > 0 => /\ s.band = (IF q.status = "ok" THEN "over" ELSE "under")
                           /\ s.n >= q.count
  <1> DEFINE r == Known(m)
  <1>1. /\ r \in Row
        /\ row[m] = NoRow => r = NewRow
        /\ row[m] # NoRow => r = row[m]
    BY KnownRow
  <1>2. /\ q \in Row
        /\ q.alert => r.alert
        /\ q.clear => r.clear /\ q.status = r.status
        /\ q.status # r.status =>
             IF r.status = "ok" THEN band = "over" /\ r.count + 1 >= ToAlert /\ ~q.alert
                                ELSE band = "under" /\ r.count + 1 >= ToClear
        /\ q.count > 0 =>
             /\ q.status = r.status /\ q.count = r.count + 1
             /\ band = (IF r.status = "ok" THEN "over" ELSE "under")
    BY <1>1, ReconcileRow
  <1>3. streak[m] \in [band : Bands, n : Nat]
    BY DEF Tables
  <1>4. /\ s \in [band : Bands, n : Nat]
        /\ s.band = band /\ s.n >= 1
        /\ \A k \in Nat : band = streak[m].band /\ streak[m].n >= k /\ k < ToAlert + ToClear
                            => s.n >= k + 1
    BY <1>3, StreakGrows
  <1>5. /\ r.status \in {"ok", "alerting"} /\ q.status \in {"ok", "alerting"}
        /\ r.count \in Nat /\ r.count < ToAlert + ToClear
    BY <1>1, <1>2, MonitorAssumption DEF Row, Fields, RowType
  <1>6. /\ r.alert => row[m] # NoRow
        /\ r.clear => row[m] # NoRow
        /\ r.status = "alerting" <=> Alerting(m)
        /\ r.count > 0 => row[m] # NoRow
    BY <1>1, NewRowTyped DEF NewRow, Alerting
  <1>7. r.count > 0 /\ band = (IF r.status = "ok" THEN "over" ELSE "under") => s.n >= r.count + 1
    BY <1>1, <1>4, <1>5, <1>6 DEF CountInv
  <1>8. band = (IF r.status = "ok" THEN "over" ELSE "under") => s.n >= r.count + 1
    BY <1>4, <1>5, <1>7
  <1>9. q.count > 0 => s.band = (IF q.status = "ok" THEN "over" ELSE "under") /\ s.n >= q.count
    BY <1>2, <1>4, <1>8
  <1>10. q.status = "alerting" /\ ~Alerting(m) => s.band = "over" /\ s.n >= ToAlert
    BY <1>2, <1>4, <1>5, <1>6, <1>8, MonitorAssumption
  <1>11. q.status = "ok" /\ Alerting(m) => s.band = "under" /\ s.n >= ToClear
    BY <1>2, <1>4, <1>5, <1>6, <1>8, MonitorAssumption
  <1>12. q.alert /\ q.status = "alerting" => Alerting(m)
    BY <1>2, <1>5, <1>6
  <1> QED
    BY <1>1, <1>2, <1>4, <1>6, <1>9, <1>10, <1>11, <1>12

-----------------------------------------------------------------------------
(* The invariant, action by action.                                        *)

\* The parts of the invariant are the types.
LEMMA InvGivesTypes == MonitorInv => MonitorTypeOK
  <1> SUFFICES ASSUME MonitorInv PROVE MonitorTypeOK
    OBVIOUS
  <1>1. \A m \in Metrics : row[m] = NoRow \/ RowType(row[m])
    BY RowIsTyped DEF MonitorInv, Tables
  <1>2. /\ saved \in [Disks -> Levels \cup {None, Unknown}]
        /\ told \in [Disks -> Levels \cup {None}]
        /\ sent \in [Metrics -> {"nothing", "alert", "clear"}]
    BY DEF MonitorInv, Tables
  <1>3. /\ job.kind \in Jobs \cup {"none", "ended", "alerts", "clears", "snapshots"}
        /\ client \in BOOLEAN /\ faults \in 0..MaxFaults
    BY DEF MonitorInv, JobInv, Scalars
  <1>4. \A i, j \in 1..Len(queue) : queue[i] = queue[j] => i = j
    BY DEF MonitorInv, Distinct
  <1>5. \A k \in Jobs : \A i, j \in 1..Len(queue) : queue[i] = queue[j] => i = j
    BY <1>4
  <1> QED
    BY <1>1, <1>2, <1>3, <1>5 DEF MonitorTypeOK

\* A job that is given up, and one that has just begun, has nothing at hand.
LEMMA NothingAtHand ==
  ASSUME NEW k \in Jobs \cup {"none", "ended"},
         (job' = Idle /\ k = "none") \/ job' = [Idle EXCEPT !.kind = k]
  PROVE  JobInv'
  <1>1. job' = [kind |-> k, todo |-> {}, mark |-> None, seen |-> <<>>]
    BY DEF Idle
  <1>2. job'.kind = k /\ k \notin {"alerts", "clears", "snapshots"}
    BY <1>1 DEF Jobs
  <1> QED
    BY <1>1, <1>2 DEF JobInv

\* What the job has at hand is as it was when the tables it reads are.
LEMMA JobAlone ==
  ASSUME JobInv, UNCHANGED <<job, row, sent, told>>
  PROVE  JobInv'
  BY DEF JobInv, AtHand, Alerting, Cleared

\* The properties of the rows last as long as the rows.
LEMMA RowsAlone ==
  ASSUME MarksAreTrue, CountInv, UNCHANGED <<row, sent, streak>>
  PROVE  MarksAreTrue' /\ CountInv'
  BY DEF MarksAreTrue, CountInv, Alerting

\* A kind enters the queue once, and leaves it in front.
LEMMA QueueStep ==
  ASSUME queue \in Seq(Jobs), Distinct,
         \/ UNCHANGED queue
         \/ queue # <<>> /\ queue' = Tail(queue)
         \/ \E k \in Jobs : k \notin ToSet(queue) /\ queue' = Append(queue, k)
         \/ queue' = FirstJobs
  PROVE  queue' \in Seq(Jobs) /\ Distinct'
  <1>1. CASE UNCHANGED queue
    BY <1>1 DEF Distinct
  <1>2. CASE queue # <<>> /\ queue' = Tail(queue)
    BY <1>2 DEF Distinct
  <1>3. ASSUME NEW k \in Jobs, k \notin ToSet(queue), queue' = Append(queue, k)
        PROVE  queue' \in Seq(Jobs) /\ Distinct'
    <2>1. \A i \in 1 .. Len(queue) : queue[i] # k
      BY <1>3 DEF ToSet
    <2>2. /\ queue' \in Seq(Jobs) /\ Len(queue') = Len(queue) + 1
          /\ queue'[Len(queue) + 1] = k
          /\ \A i \in 1 .. Len(queue) : queue'[i] = queue[i]
      BY <1>3
    <2> QED
      BY <2>1, <2>2 DEF Distinct
  <1>4. CASE queue' = FirstJobs
    BY <1>4 DEF Distinct, FirstJobs, Jobs
  <1> QED
    BY <1>1, <1>2, <1>3, <1>4

\* A scan that has read something.
LEMMA ScanKeepsInv ==
  ASSUME MonitorInv, NEW bands \in [Metrics -> Bands \cup {"absent"}], NEW others \in BOOLEAN,
         Scan(bands, others)
  PROVE  /\ Tables' /\ JobInv' /\ MarksAreTrue' /\ CountInv'
         /\ \A m \in Metrics :
              /\ Alerting(m)' /\ ~Alerting(m) => streak'[m].band = "over" /\ streak'[m].n >= ToAlert
              /\ Cleared(m)' /\ Alerting(m) => streak'[m].band = "under" /\ streak'[m].n >= ToClear
  <1> USE DEF MonitorInv
  <1>1. CASE job' = Idle /\ UNCHANGED <<row, streak>>
    <2>1. UNCHANGED <<saved, queue, sent, told>>
      BY DEF Scan
    <2>2. JobInv'
      BY <1>1, NothingAtHand
    <2>3. Tables' /\ MarksAreTrue' /\ CountInv'
      BY <1>1, <2>1, RowsAlone DEF Tables
    <2>4. \A m \in Metrics : (Alerting(m)' <=> Alerting(m)) /\ ~(Cleared(m)' /\ Alerting(m))
      BY <1>1 DEF Alerting, Cleared
    <2> QED
      BY <2>2, <2>3, <2>4
  <1>2. ASSUME row' = [m \in Metrics |-> IF bands[m] = "absent" THEN NoRow ELSE Reconcile(Known(m), bands[m])],
               streak' = [m \in Metrics |-> Longer(streak[m], bands[m])],
               job' = [job EXCEPT !.kind = "alerts", !.todo = PendingAlerts'],
               job = [Idle EXCEPT !.kind = "scan"],
               UNCHANGED <<saved, queue, sent, told>>
        PROVE  /\ Tables' /\ JobInv' /\ MarksAreTrue' /\ CountInv'
               /\ \A m \in Metrics :
                    /\ Alerting(m)' /\ ~Alerting(m) => streak'[m].band = "over" /\ streak'[m].n >= ToAlert
                    /\ Cleared(m)' /\ Alerting(m) => streak'[m].band = "under" /\ streak'[m].n >= ToClear
    <2>1. ASSUME NEW m \in Metrics, bands[m] # "absent"
          PROVE  /\ row'[m] \in Row /\ streak'[m] \in [band : Bands, n : Nat]
                 /\ row'[m].alert => row[m] # NoRow /\ row[m].alert
                 /\ row'[m].clear => row[m] # NoRow /\ row[m].clear /\ row'[m].status = row[m].status
                 /\ row'[m].alert /\ row'[m].status = "alerting" => Alerting(m)
                 /\ row'[m].status = "alerting" /\ ~Alerting(m)
                      => streak'[m].band = "over" /\ streak'[m].n >= ToAlert
                 /\ row'[m].status = "ok" /\ Alerting(m)
                      => streak'[m].band = "under" /\ streak'[m].n >= ToClear
                 /\ row'[m].count > 0 =>
                      /\ streak'[m].band = (IF row'[m].status = "ok" THEN "over" ELSE "under")
                      /\ streak'[m].n >= row'[m].count
      <3>1. bands[m] \in Bands
        BY <2>1
      <3>2. row'[m] = Reconcile(Known(m), bands[m]) /\ streak'[m] = Longer(streak[m], bands[m])
        BY <1>2, <2>1
      <3> QED
        BY <3>1, <3>2, ScanRow
    <2>2. ASSUME NEW m \in Metrics, bands[m] = "absent"
          PROVE  row'[m] = NoRow /\ streak'[m] \in [band : Bands, n : Nat]
      BY <1>2, <2>2 DEF Longer, NoStreak, Bands
    <2>3. Tables'
      <3>1. \A m \in Metrics : row'[m] \in Row \cup {NoRow} /\ streak'[m] \in [band : Bands, n : Nat]
        BY <2>1, <2>2
      <3>2. row' \in [Metrics -> Row \cup {NoRow}] /\ streak' \in [Metrics -> [band : Bands, n : Nat]]
        BY <1>2, <3>1
      <3> QED
        BY <1>2, <3>2 DEF Tables
    <2>4. MarksAreTrue'
      BY <1>2, <2>1, <2>2 DEF MarksAreTrue, Alerting
    <2>5. CountInv'
      BY <2>1, <2>2 DEF CountInv
    <2>6. JobInv'
      <3>1. job' = [kind |-> "alerts", todo |-> PendingAlerts', mark |-> None, seen |-> <<>>]
        BY <1>2 DEF Idle
      <3>2. AtHand' = PendingAlerts'
        BY <3>1 DEF AtHand
      <3> QED
        BY <3>1, <3>2, MonitorAssumption DEF JobInv, PendingAlerts
    <2> QED
      BY <2>1, <2>2, <2>3, <2>4, <2>5, <2>6 DEF Alerting, Cleared
  <1> QED
    BY <1>1, <1>2 DEF Scan

\* An event of a row that is at hand is sent, or nobody is there to hear it.
LEMMA TellKeepsInv ==
  ASSUME MonitorInv, NEW m \in Metrics, Tell(m)
  PROVE  Tables' /\ JobInv' /\ MarksAreTrue' /\ CountInv'
  <1> USE DEF MonitorInv
  <1>1. /\ job.kind \in {"alerts", "clears"} /\ m \in job.todo /\ job.mark = None
        /\ job = [kind |-> job.kind, todo |-> job.todo, mark |-> job.mark, seen |-> job.seen]
        /\ UNCHANGED <<row, saved, queue, told, streak>>
    BY DEF Tell, JobInv
  <1>2. /\ m # None /\ m \in AtHand /\ AtHand = job.todo
        /\ job.kind = "alerts" => Alerting(m)
        /\ job.kind = "clears" => Cleared(m) /\ row[m].alert
    BY <1>1, MonitorAssumption DEF AtHand, JobInv
  <1>3. CASE client
    <2>1. /\ sent' = [sent EXCEPT ![m] = EventOf(job.kind)]
          /\ job' = [kind |-> job.kind, todo |-> job.todo \ {m}, mark |-> m, seen |-> job.seen]
      BY <1>1, <1>3 DEF Tell
    <2>2. /\ sent'[m] = EventOf(job.kind)
          /\ \A o \in Metrics \ {m} : sent'[o] = sent[o]
          /\ sent' \in [Metrics -> {"nothing", "alert", "clear"}]
      BY <2>1 DEF Tables, EventOf
    <2>3. Tables' /\ CountInv'
      BY <1>1, <2>2 DEF Tables, CountInv
    <2>4. AtHand' = AtHand
      BY <1>1, <1>2, <2>1 DEF AtHand
    <2>5. JobInv'
      BY <1>1, <1>2, <2>1, <2>2, <2>4 DEF JobInv, Alerting, Cleared
    <2>6. MarksAreTrue'
      <3> SUFFICES ASSUME NEW o \in Metrics, row[o] # NoRow
                   PROVE  /\ row[o].alert => sent'[o] # "nothing"
                          /\ Alerting(o) /\ row[o].alert => sent'[o] = "alert"
                          /\ row[o].clear => sent'[o] = "clear"
        BY <1>1 DEF MarksAreTrue, Alerting
      <3>1. CASE o # m
        BY <2>2, <3>1 DEF MarksAreTrue
      <3>2. CASE o = m
        <4>1. RowType(row[o])
          BY RowIsTyped DEF Tables
        <4> QED
          BY <1>1, <1>2, <2>2, <3>2, <4>1 DEF RowType, Alerting, Cleared, EventOf
      <3> QED
        BY <3>1, <3>2
    <2> QED
      BY <2>3, <2>5, <2>6
  <1>4. CASE ~client
    <2>1. /\ UNCHANGED sent
          /\ job' = [kind |-> job.kind, todo |-> job.todo \ {m}, mark |-> None, seen |-> job.seen]
      BY <1>1, <1>4 DEF Tell
    <2>2. AtHand' \subseteq AtHand
      BY <2>1 DEF AtHand
    <2>3. JobInv'
      BY <1>1, <2>1, <2>2 DEF JobInv, Alerting, Cleared
    <2> QED
      BY <1>1, <2>1, <2>3, RowsAlone DEF Tables
  <1> QED
    BY <1>3, <1>4

\* A row is marked with what has been sent of it.
LEMMA MarkKeepsInv ==
  ASSUME MonitorInv, MarkNotified
  PROVE  /\ Tables' /\ JobInv' /\ MarksAreTrue' /\ CountInv'
         /\ \A m \in Metrics : (Alerting(m)' => Alerting(m)) /\ ~(Cleared(m)' /\ Alerting(m))
  <1> USE DEF MonitorInv
  <1> DEFINE m == job.mark
             q == row[m]
  <1>1. /\ job.kind \in {"alerts", "clears"} /\ m # None
        /\ job' = [kind |-> job.kind, todo |-> job.todo, mark |-> None, seen |-> job.seen]
        /\ UNCHANGED <<saved, queue, sent, told, streak>>
        /\ row' = [row EXCEPT ![m] = IF job.kind = "alerts" THEN [q EXCEPT !.alert = TRUE]
                                                            ELSE [q EXCEPT !.clear = TRUE]]
    BY DEF MarkNotified, JobInv
  <1>2. /\ m \in Metrics /\ sent[m] = EventOf(job.kind)
        /\ job.kind = "alerts" => Alerting(m)
        /\ job.kind = "clears" => Cleared(m) /\ q.alert
    BY <1>1 DEF JobInv, AtHand
  <1>3. q # NoRow /\ q \in Fields /\ RowType(q)
    BY <1>1, <1>2, RowIsTyped DEF Alerting, Cleared, Tables, Row
  <1>4. /\ row'[m] \in Row
        /\ row'[m].status = q.status /\ row'[m].count = q.count
        /\ job.kind = "alerts" => row'[m].alert = TRUE /\ row'[m].clear = q.clear
        /\ job.kind = "clears" => row'[m].alert = q.alert /\ row'[m].clear = TRUE
    <2>1. CASE job.kind = "alerts"
      <3>1. row'[m] = [q EXCEPT !.alert = TRUE]
        BY <1>1, <1>2, <2>1 DEF Tables
      <3>2. /\ row'[m] \in Fields
            /\ row'[m].status = q.status /\ row'[m].count = q.count
            /\ row'[m].alert = TRUE /\ row'[m].clear = q.clear
        BY <1>3, <3>1 DEF Fields
      <3>3. RowType(row'[m])
        BY <1>3, <3>2 DEF RowType, Fields
      <3> QED
        BY <2>1, <3>2, <3>3, RowIsTyped
    <2>2. CASE job.kind = "clears"
      <3>1. row'[m] = [q EXCEPT !.clear = TRUE]
        BY <1>1, <1>2, <2>2 DEF Tables
      <3>2. /\ row'[m] \in Fields
            /\ row'[m].status = q.status /\ row'[m].count = q.count
            /\ row'[m].alert = q.alert /\ row'[m].clear = TRUE
        BY <1>3, <3>1 DEF Fields
      <3>3. RowType(row'[m])
        BY <1>2, <1>3, <2>2, <3>2 DEF RowType, Fields, Cleared
      <3> QED
        BY <2>2, <3>2, <3>3, RowIsTyped
    <2> QED
      BY <1>1, <2>1, <2>2
  <1>5. \A o \in Metrics \ {m} : row'[o] = row[o]
    BY <1>1, <1>2 DEF Tables
  <1>6. row' \in [Metrics -> Row \cup {NoRow}]
    BY <1>1, <1>2, <1>4, <1>5 DEF Tables
  <1>7. Tables' /\ CountInv'
    BY <1>1, <1>3, <1>4, <1>5, <1>6 DEF Tables, CountInv
  <1>8. \A o \in Metrics : Alerting(o)' => Alerting(o)
    BY <1>3, <1>4, <1>5 DEF Alerting
  <1>9. \A o \in Metrics : ~(Cleared(o)' /\ Alerting(o))
    BY <1>3, <1>4, <1>5 DEF Alerting, Cleared
  <1>10. JobInv'
    <2>1. AtHand' \subseteq AtHand \ {m} /\ None \notin job.todo
      BY <1>1, MonitorAssumption DEF AtHand, JobInv
    <2>2. job.kind = "alerts" => \A o \in AtHand' : o \in Metrics /\ Alerting(o)'
      BY <1>5, <2>1 DEF JobInv, Alerting
    <2>3. job.kind = "clears" => \A o \in AtHand' : o \in Metrics /\ Cleared(o)' /\ row'[o].alert
      BY <1>5, <2>1 DEF JobInv, Cleared
    <2> QED
      BY <1>1, <2>1, <2>2, <2>3 DEF JobInv
  <1>11. MarksAreTrue'
    <2> SUFFICES ASSUME NEW o \in Metrics, row'[o] # NoRow
                 PROVE  /\ row'[o].alert => sent[o] # "nothing"
                        /\ Alerting(o)' /\ row'[o].alert => sent[o] = "alert"
                        /\ row'[o].clear => sent[o] = "clear"
      BY <1>1 DEF MarksAreTrue
    <2>1. CASE o # m
      BY <1>5, <2>1 DEF MarksAreTrue, Alerting
    <2>2. CASE o = m /\ job.kind = "alerts"
      BY <1>2, <1>3, <1>4, <2>2 DEF Alerting, RowType, EventOf
    <2>3. CASE o = m /\ job.kind = "clears"
      BY <1>2, <1>3, <1>4, <2>3 DEF Alerting, Cleared, EventOf
    <2> QED
      BY <1>1, <2>1, <2>2, <2>3
  <1> QED
    BY <1>7, <1>8, <1>9, <1>10, <1>11

\* When the alerts are told the clears are listed.
LEMMA TurnKeepsInv ==
  ASSUME MonitorInv, Turn
  PROVE  JobInv'
  <1>1. CASE job.kind = "clears"
    BY <1>1, NothingAtHand DEF Turn
  <1>2. CASE job.kind = "alerts"
    <2>1. /\ job' = [kind |-> "clears", todo |-> PendingClears, mark |-> None, seen |-> job.seen]
          /\ UNCHANGED <<row, sent, told>>
      BY <1>2 DEF Turn, MonitorInv, JobInv
    <2>2. AtHand' = PendingClears
      BY <2>1 DEF AtHand
    <2> QED
      BY <2>1, <2>2, MonitorAssumption DEF JobInv, PendingClears, Cleared
  <1> QED
    BY <1>1, <1>2 DEF Turn

\* The disks that answered are at hand.
LEMMA SmartReadKeepsInv ==
  ASSUME MonitorInv, NEW disks \in SUBSET Disks, NEW seen \in [disks -> Levels \cup {Unknown}],
         SmartRead(disks, seen)
  PROVE  JobInv'
  <1>1. job' = [kind |-> "snapshots", todo |-> disks, mark |-> None, seen |-> seen]
    BY DEF SmartRead, Idle
  <1>2. AtHand' = disks
    BY <1>1 DEF AtHand
  <1> QED
    BY <1>1, <1>2, MonitorAssumption DEF JobInv

\* A snapshot without a change is saved, one with a change only when it is told.
LEMMA SmartDiffKeepsInv ==
  ASSUME MonitorInv, NEW d \in Disks, SmartDiff(d)
  PROVE  Tables' /\ JobInv' /\ ~Changed(saved[d], saved'[d]) /\ \A e \in Disks \ {d} : saved'[e] = saved[e]
  <1> USE DEF MonitorInv
  <1>1. /\ job.kind = "snapshots" /\ job.mark = None /\ d \in job.todo
        /\ job = [kind |-> job.kind, todo |-> job.todo, mark |-> job.mark, seen |-> job.seen]
        /\ UNCHANGED <<row, queue, sent, streak>>
    BY DEF SmartDiff, JobInv
  <1>2. d # None /\ d \in AtHand /\ job.seen[d] \in Levels \cup {Unknown}
    BY <1>1, MonitorAssumption DEF AtHand, JobInv
  <1>3. ASSUME UNCHANGED told, job' = [job EXCEPT !.todo = @ \ {d}]
        PROVE  JobInv'
    <2>1. job' = [kind |-> "snapshots", todo |-> job.todo \ {d}, mark |-> None, seen |-> job.seen]
      BY <1>1, <1>3
    <2>2. AtHand' \subseteq AtHand /\ None \notin job.todo
      BY <1>1, <2>1, MonitorAssumption DEF AtHand, JobInv
    <2> QED
      BY <1>1, <2>1, <2>2 DEF JobInv
  <1>4. CASE ~Changed(saved[d], job.seen[d])
    <2>1. /\ saved' = [saved EXCEPT ![d] = job.seen[d]] /\ UNCHANGED told
          /\ job' = [job EXCEPT !.todo = @ \ {d}]
      BY <1>4 DEF SmartDiff
    <2>2. saved' \in [Disks -> Levels \cup {None, Unknown}] /\ saved'[d] = job.seen[d]
            /\ \A e \in Disks \ {d} : saved'[e] = saved[e]
      BY <1>2, <2>1 DEF Tables
    <2> QED
      BY <1>1, <1>3, <1>4, <2>1, <2>2 DEF Tables
  <1>5. CASE Changed(saved[d], job.seen[d]) /\ ~client
    <2>1. UNCHANGED <<saved, told>> /\ job' = [job EXCEPT !.todo = @ \ {d}]
      BY <1>5 DEF SmartDiff
    <2> QED
      BY <1>1, <1>3, <2>1 DEF Tables, Changed
  <1>6. CASE Changed(saved[d], job.seen[d]) /\ client
    <2>1. /\ told' = [told EXCEPT ![d] = job.seen[d]] /\ UNCHANGED saved
          /\ job' = [kind |-> "snapshots", todo |-> job.todo \ {d}, mark |-> d, seen |-> job.seen]
      BY <1>1, <1>6 DEF SmartDiff
    <2>2. told'[d] = job.seen[d] /\ told' \in [Disks -> Levels \cup {None}]
      BY <1>6, <2>1 DEF Tables, Changed
    <2>3. AtHand' \subseteq AtHand
      BY <1>2, <2>1 DEF AtHand
    <2> QED
      BY <1>1, <1>2, <2>1, <2>2, <2>3 DEF Tables, JobInv, Changed
  <1> QED
    BY <1>4, <1>5, <1>6

\* A snapshot is saved as it was told.
LEMMA SmartSaveKeepsInv ==
  ASSUME MonitorInv, SmartSave
  PROVE  /\ Tables' /\ JobInv'
         /\ \A d \in Disks : Changed(saved[d], saved'[d]) => told[d] = saved'[d]
  <1> USE DEF MonitorInv
  <1> DEFINE d == job.mark
  <1>1. /\ job.kind = "snapshots" /\ d # None
        /\ saved' = [saved EXCEPT ![d] = job.seen[d]]
        /\ job' = [kind |-> "snapshots", todo |-> job.todo, mark |-> None, seen |-> job.seen]
        /\ UNCHANGED <<row, queue, sent, told, streak>>
    BY DEF SmartSave, JobInv
  <1>2. d \in AtHand /\ d \in Disks /\ job.seen[d] \in Levels \cup {Unknown} /\ told[d] = job.seen[d]
    BY <1>1 DEF AtHand, JobInv
  <1>3. /\ saved' \in [Disks -> Levels \cup {None, Unknown}] /\ saved'[d] = job.seen[d]
        /\ \A e \in Disks \ {d} : saved'[e] = saved[e]
    BY <1>1, <1>2 DEF Tables
  <1>4. AtHand' \subseteq AtHand /\ None \notin job.todo
    BY <1>1, MonitorAssumption DEF AtHand, JobInv
  <1>5. JobInv'
    BY <1>1, <1>4 DEF JobInv
  <1>6. \A e \in Disks : Changed(saved[e], saved'[e]) => told[e] = saved'[e]
    BY <1>2, <1>3 DEF Changed
  <1> QED
    BY <1>1, <1>3, <1>5, <1>6 DEF Tables

-----------------------------------------------------------------------------
(* The theorems.                                                           *)

\* What a step may do to the rows and the snapshots.
Sustained ==
    \A m \in Metrics :
        /\ Alerting(m)' /\ ~Alerting(m) => streak'[m].band = "over" /\ streak'[m].n >= ToAlert
        /\ Cleared(m)' /\ Alerting(m) => streak'[m].band = "under" /\ streak'[m].n >= ToClear
SavedAsTold == \A d \in Disks : Changed(saved[d], saved'[d]) => told[d] = saved'[d]

\* Where the tables stay as they are, nothing changes without having been told.
LEMMA StillTables ==
  /\ UNCHANGED row => Sustained
  /\ UNCHANGED saved => SavedAsTold
  BY DEF Sustained, SavedAsTold, Alerting, Cleared, Changed

LEMMA MonitorStep ==
  ASSUME MonitorInv, [MonitorNext]_vars
  PROVE  MonitorInv' /\ Sustained /\ SavedAsTold
  <1> USE DEF MonitorInv
  <1>0. CASE UNCHANGED vars
    BY <1>0, JobAlone, RowsAlone, StillTables DEF vars, Tables, Distinct, Scalars
  <1>1. ASSUME NEW k \in Jobs, Put(k) PROVE MonitorInv' /\ Sustained /\ SavedAsTold
    BY <1>1, QueueStep, JobAlone, RowsAlone, StillTables DEF Put, Tables, Scalars
  <1>2. CASE Take
    <2>1. Head(queue) \in Jobs
      BY <1>2 DEF Take, Tables
    <2>2. JobInv'
      BY <1>2, <2>1, NothingAtHand DEF Take
    <2> QED
      BY <1>2, <2>2, QueueStep, RowsAlone, StillTables DEF Take, Tables, Scalars
  <1>3. ASSUME NEW bands \in [Metrics -> Bands \cup {"absent"}], NEW others \in BOOLEAN,
               Scan(bands, others)
        PROVE  MonitorInv' /\ Sustained /\ SavedAsTold
    <2>1. Sustained
      BY <1>3, ScanKeepsInv DEF Sustained
    <2>2. UNCHANGED <<saved, queue, client, faults>>
      BY <1>3 DEF Scan
    <2> QED
      BY <1>3, <2>1, <2>2, ScanKeepsInv, QueueStep, StillTables DEF Scalars, Tables
  <1>4. ASSUME NEW m \in Metrics, Tell(m) PROVE MonitorInv' /\ Sustained /\ SavedAsTold
    <2>1. UNCHANGED <<row, saved, queue, client, faults>>
      BY <1>4 DEF Tell
    <2> QED
      BY <1>4, <2>1, TellKeepsInv, QueueStep, StillTables DEF Scalars, Tables
  <1>5. CASE MarkNotified
    <2>1. UNCHANGED <<saved, queue, client, faults>>
      BY <1>5 DEF MarkNotified
    <2>2. Sustained
      BY <1>5, MarkKeepsInv DEF Sustained
    <2> QED
      BY <1>5, <2>1, <2>2, MarkKeepsInv, QueueStep, StillTables DEF Scalars, Tables
  <1>6. CASE Turn
    <2>1. UNCHANGED <<row, saved, queue, client, faults, sent, told, streak>>
      BY <1>6 DEF Turn
    <2> QED
      BY <1>6, <2>1, TurnKeepsInv, RowsAlone, StillTables DEF Scalars, Tables, Distinct
  <1>7. ASSUME NEW disks \in SUBSET Disks, NEW seen \in [disks -> Levels \cup {Unknown}],
               SmartRead(disks, seen)
        PROVE  MonitorInv' /\ Sustained /\ SavedAsTold
    <2>1. UNCHANGED <<row, saved, queue, client, faults, sent, told, streak>>
      BY <1>7 DEF SmartRead
    <2> QED
      BY <1>7, <2>1, SmartReadKeepsInv, RowsAlone, StillTables DEF Scalars, Tables, Distinct
  <1>8. ASSUME NEW d \in Disks, SmartDiff(d) PROVE MonitorInv' /\ Sustained /\ SavedAsTold
    <2>1. UNCHANGED <<row, queue, client, faults, sent, streak>>
      BY <1>8 DEF SmartDiff
    <2>2. SavedAsTold
      BY <1>8, SmartDiffKeepsInv DEF SavedAsTold, Changed
    <2> QED
      BY <1>8, <2>1, <2>2, SmartDiffKeepsInv, RowsAlone, StillTables DEF Scalars, Distinct
  <1>9. CASE SmartSave
    <2>1. UNCHANGED <<row, queue, client, faults, sent, streak>>
      BY <1>9 DEF SmartSave
    <2>2. SavedAsTold
      BY <1>9, SmartSaveKeepsInv DEF SavedAsTold
    <2> QED
      BY <1>9, <2>1, <2>2, SmartSaveKeepsInv, RowsAlone, StillTables DEF Scalars, Distinct
  <1>10. CASE SmartEnd \/ JobFails
    <2>1. UNCHANGED <<row, saved, queue, client, sent, told, streak>> /\ job' \in {Idle, Ended}
      BY <1>10 DEF SmartEnd, JobFails
    <2>2. faults' \in 0 .. MaxFaults
      BY <1>10, MonitorAssumption DEF SmartEnd, JobFails, Fault, Scalars
    <2>3. JobInv'
      BY <2>1, NothingAtHand DEF Ended
    <2> QED
      BY <2>1, <2>2, <2>3, RowsAlone, StillTables DEF Scalars, Tables, Distinct
  <1>11. CASE Connect \/ Disconnect
    <2>1. UNCHANGED <<row, saved, queue, job, sent, told, streak>>
      BY <1>11 DEF Connect, Disconnect
    <2>2. faults' \in 0 .. MaxFaults
      BY <1>11, MonitorAssumption DEF Connect, Disconnect, Fault, Scalars
    <2>3. client' \in BOOLEAN
      BY <1>11 DEF Connect, Disconnect
    <2> QED
      BY <2>1, <2>2, <2>3, JobAlone, RowsAlone, StillTables DEF Scalars, Tables, Distinct
  <1>12. CASE Restart
    <2>1. UNCHANGED <<row, saved, sent, told, streak>> /\ job' = Idle /\ queue' = FirstJobs
      BY <1>12 DEF Restart
    <2>2. faults' \in 0 .. MaxFaults
      BY <1>12, MonitorAssumption DEF Restart, Fault, Scalars
    <2>3. client' \in BOOLEAN
      BY <1>12 DEF Restart
    <2> QED
      BY <2>1, <2>2, <2>3, NothingAtHand, QueueStep, RowsAlone, StillTables DEF Scalars, Tables
  <1> QED
    BY <1>0, <1>1, <1>2, <1>3, <1>4, <1>5, <1>6, <1>7, <1>8, <1>9, <1>10, <1>11, <1>12
    DEF MonitorNext, WorkerStep

LEMMA MonitorStart == MonitorInit => MonitorInv
  <1> SUFFICES ASSUME MonitorInit PROVE MonitorInv
    OBVIOUS
  <1>1. Tables
    BY DEF MonitorInit, Tables, NoStreak, Bands, FirstJobs, Jobs
  <1>2. Distinct
    BY DEF MonitorInit, Distinct, FirstJobs
  <1>3. Scalars
    <2>1. faults \in 0 .. MaxFaults
      BY MonitorAssumption DEF MonitorInit
    <2>2. client \in BOOLEAN
      BY DEF MonitorInit
    <2> QED
      BY <2>1, <2>2 DEF Scalars
  <1>4. JobInv
    BY DEF MonitorInit, JobInv, Idle
  <1>5. MarksAreTrue /\ CountInv
    BY DEF MonitorInit, MarksAreTrue, CountInv
  <1> QED
    BY <1>1, <1>2, <1>3, <1>4, <1>5 DEF MonitorInv

LEMMA MonitorInduction == MonitorSpec => []MonitorInv
  BY MonitorStart, MonitorStep, PTL DEF MonitorSpec

\* The tables, the queue and the job in work keep their types.
THEOREM MonitorTypeCorrect == MonitorSpec => []MonitorTypeOK
  BY MonitorInduction, InvGivesTypes, PTL

\* Whatever dies between the sending of an event and its mark, a mark is true
\* of what the clients were sent.
THEOREM MonitorMarksAreTrue == MonitorSpec => []MarksAreTrue
  <1>1. MonitorInv => MarksAreTrue
    BY DEF MonitorInv
  <1> QED
    BY <1>1, MonitorInduction, PTL

\* For any thresholds, also across deaths, a row changes only after so many
\* readings in a row that agree.
THEOREM MonitorChangesAreSustained == MonitorSpec => ChangesAreSustained
  <1>1. MonitorInv /\ [MonitorNext]_vars => [Sustained]_vars
    BY MonitorStep
  <1> QED
    BY <1>1, MonitorInduction, PTL DEF MonitorSpec, ChangesAreSustained, Sustained

\* A level is replaced by another only when a client was sent the other.
THEOREM MonitorSmartChangesAreTold == MonitorSpec => SmartChangesAreTold
  <1>1. MonitorInv /\ [MonitorNext]_vars => [SavedAsTold]_vars
    BY MonitorStep
  <1> QED
    BY <1>1, MonitorInduction, PTL DEF MonitorSpec, SmartChangesAreTold, SavedAsTold

=============================================================================
