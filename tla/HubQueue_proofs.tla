--------------------------- MODULE HubQueue_proofs ---------------------------
(***************************************************************************)
(* Theorems of the devlab job queue, for any set of jobs, of executors and *)
(* any limits.                                                             *)
(***************************************************************************)
EXTENDS HubQueue, FiniteSetTheorems, TLAPS

\* A letter of the right kinds is a message.
LEMMA LetterType ==
  ASSUME NEW seq \in 1..MaxSeq, NEW j \in Job, NEW to, NEW kind,
         \/ to = "client" /\ kind \in ProgressKind \cup ReportKind \cup {"requeue"}
         \/ to = "executor" /\ kind \in ClientKind
  PROVE  Letter(seq, j, to, kind) \in Message
  BY DEF Letter, Message

\* Posting keeps the mailbox well typed.
LEMMA PostType ==
  ASSUME messages \subseteq Message, lastSeq \in 0..MaxSeq,
         NEW j \in Job, NEW to, NEW kind,
         \/ to = "client" /\ kind \in ProgressKind \cup ReportKind \cup {"requeue"}
         \/ to = "executor" /\ kind \in ClientKind,
         Post(j, to, kind)
  PROVE  messages' \subseteq Message /\ lastSeq' \in 0..MaxSeq
  <1>1. Letter(lastSeq + 1, j, to, kind) \in Message
    BY LetterType, HubAssumption DEF Post
  <1> QED BY <1>1, HubAssumption DEF Post

LEMMA TargetStatus ==
  ASSUME NEW kind \in ReportKind
  PROVE  Target[kind] \in Status
  BY DEF Target, ReportKind, Status, ActiveStatus, TerminalStatus

LEMMA HubTypeStep ==
  ASSUME HubTypeOK, [HubNext]_hubVars
  PROVE  HubTypeOK'
  <1> USE DEF HubTypeOK, history
  <1>1. ASSUME NEW j \in Job, Submit(j) PROVE HubTypeOK'
    <2>1. Cardinality({i \in Job : status[i] # "none"}) \in Nat
      BY HubAssumption, FS_Subset, FS_CardinalityType
    <2> QED BY <1>1, <2>1 DEF Submit, Status
  <1>2. ASSUME NEW e \in Executor, NEW j \in Job, NEW offered \in Offers, Claim(e, j, offered)
        PROVE HubTypeOK'
    BY <1>2 DEF Claim, Status, ActiveStatus
  <1>3. ASSUME NEW e \in Executor, NEW j \in Job, NEW kind \in ProgressKind, Progress(e, j, kind)
        PROVE HubTypeOK'
    BY <1>3, PostType DEF Progress
  <1>4. ASSUME NEW e \in Executor, NEW j \in Job, NEW kind \in ReportKind, Report(e, j, kind)
        PROVE HubTypeOK'
    BY <1>4, PostType, TargetStatus DEF Report
  <1>5. ASSUME NEW e \in Executor, NEW j \in Job, ConfirmStop(e, j) PROVE HubTypeOK'
    BY <1>5, PostType DEF ConfirmStop, ReportKind
  <1>6. ASSUME NEW e \in Executor, NEW j \in Job, Requeue(e, j) PROVE HubTypeOK'
    <2>1. messages' \subseteq Message /\ lastSeq' \in 0..MaxSeq
      BY <1>6, PostType DEF Requeue, ReportKind
    <2> QED BY <1>6, <2>1 DEF Requeue, Status, TerminalStatus
  <1>7. ASSUME NEW e \in Executor, NEW since \in 0..MaxSeq, NEW upto \in 1..MaxSeq,
               Poll(e, since, upto)
        PROVE HubTypeOK'
    <2>1. {m.seq : m \in Page(e, since, upto)} \subseteq Nat
      BY DEF Page, Deliverable, Message
    <2> QED BY <1>7, <2>1 DEF Poll
  <1>8. ASSUME NEW j \in Job, Answer(j) PROVE HubTypeOK'
    BY <1>8, PostType DEF Answer, ClientKind, Status, ActiveStatus
  <1>9. ASSUME NEW j \in Job, Resume(j) PROVE HubTypeOK'
    BY <1>9, PostType DEF Resume, ClientKind, Status
  <1>10. ASSUME NEW j \in Job, Stop(j) PROVE HubTypeOK'
    <2>1. messages' \subseteq Message /\ lastSeq' \in 0..MaxSeq
      <3>1. CASE Post(j, "executor", "stop")
        BY <3>1, PostType DEF ClientKind
      <3>2. CASE ~Post(j, "executor", "stop")
        <4>1. /\ lastSeq + 1 < MaxSeq /\ lastSeq' = lastSeq + 2
              /\ messages' = messages \cup {Letter(lastSeq + 1, j, "client", "stopped"),
                                            Letter(lastSeq + 2, j, "executor", "stop")}
          BY <1>10, <3>2 DEF Stop
        <4>2. lastSeq + 1 \in 1..MaxSeq /\ lastSeq + 2 \in 1..MaxSeq
          BY <4>1, HubAssumption
        <4>3. /\ Letter(lastSeq + 1, j, "client", "stopped") \in Message
              /\ Letter(lastSeq + 2, j, "executor", "stop") \in Message
          BY <4>2, LetterType DEF ReportKind, ClientKind
        <4> QED BY <4>1, <4>2, <4>3
      <3> QED BY <3>1, <3>2
    <2> QED BY <1>10, <2>1 DEF Stop, Status, TerminalStatus
  <1>11. ASSUME NEW j \in Job, Release(j) PROVE HubTypeOK'
    BY <1>11, PostType DEF Release, ClientKind
  <1>12. ASSUME NEW upto \in 1..MaxSeq, Ack(upto) PROVE HubTypeOK'
    <2>1. {m.seq : m \in {x \in messages : x.to = "client" /\ x.seq <= upto}} \subseteq Nat
      BY DEF Message
    <2> QED BY <1>12, <2>1 DEF Ack
  <1>13. CASE UNCHANGED hubVars
    BY <1>13 DEF hubVars
  <1> QED
    BY <1>1, <1>2, <1>3, <1>4, <1>5, <1>6, <1>7, <1>8, <1>9, <1>10, <1>11, <1>12, <1>13
    DEF HubNext, ExecutorCall, ClientCall

\* The columns keep their types through every call, in any order of callers.
THEOREM HubTypeCorrect == HubSpec => []HubTypeOK
  <1>1. HubInit => HubTypeOK
    BY HubAssumption DEF HubInit, HubTypeOK, Status
  <1> QED BY <1>1, HubTypeStep, PTL DEF HubSpec

\* The mailbox only grows.
LEMMA MailboxGrows ==
  ASSUME [HubNext]_hubVars
  PROVE  messages \subseteq messages'
  BY DEF HubNext, ExecutorCall, ClientCall, hubVars, Claim, Progress, Report, ConfirmStop,
         Requeue, Poll, Submit, Answer, Resume, Stop, Release, Ack, Post

-----------------------------------------------------------------------------
(* The accounting of runs.                                                 *)

\* A job that a claim has set to work is held by an executor, and the runs since
\* its last opening are its give-backs, plus one for the run in progress.
RunsInv == ActiveHasExecutor /\ RunsAccounted

LEMMA RunsInvStep ==
  ASSUME HubTypeOK, RunsInv, [HubNext]_hubVars
  PROVE  RunsInv'
  <1> USE DEF HubTypeOK, RunsInv, ActiveHasExecutor, RunsAccounted, ActiveStatus, history
  <1>1. ASSUME NEW j \in Job, Submit(j) PROVE RunsInv'
    BY <1>1 DEF Submit
  <1>2. ASSUME NEW e \in Executor, NEW j \in Job, NEW offered \in Offers, Claim(e, j, offered)
        PROVE RunsInv'
    BY <1>2 DEF Claim, First
  <1>3. ASSUME NEW e \in Executor, NEW j \in Job, NEW kind \in ProgressKind, Progress(e, j, kind)
        PROVE RunsInv'
    BY <1>3 DEF Progress
  <1>4. ASSUME NEW e \in Executor, NEW j \in Job, NEW kind \in ReportKind, Report(e, j, kind)
        PROVE RunsInv'
    <2>1. Target[kind] \in {"waiting_owner", "done", "failed", "stopped"}
      BY DEF Target, ReportKind
    <2>2. Target[kind] = "waiting_owner" => status[j] = "running"
      BY <1>4 DEF Report, CanReport, Transition
    <2> QED BY <1>4, <2>1, <2>2 DEF Report, CanReport
  <1>5. ASSUME NEW e \in Executor, NEW j \in Job, ConfirmStop(e, j) PROVE RunsInv'
    BY <1>5 DEF ConfirmStop
  <1>6. ASSUME NEW e \in Executor, NEW j \in Job, Requeue(e, j) PROVE RunsInv'
    <2>1. status[j] = "running" /\ j \in TestJob
      BY <1>6 DEF Requeue, CanRequeue
    <2>2. CASE attempts[j] < TestMaxRequeues
      BY <1>6, <2>1, <2>2, HubAssumption DEF Requeue
    <2>3. CASE ~(attempts[j] < TestMaxRequeues)
      BY <1>6, <2>1, <2>3 DEF Requeue
    <2> QED BY <2>2, <2>3
  <1>7. ASSUME NEW e \in Executor, NEW since \in 0..MaxSeq, NEW upto \in 1..MaxSeq,
               Poll(e, since, upto)
        PROVE RunsInv'
    BY <1>7 DEF Poll
  <1>8. ASSUME NEW j \in Job, Answer(j) PROVE RunsInv'
    <2>1. CASE status[j] = "queued"
      BY <1>8, <2>1 DEF Answer
    <2>2. CASE status[j] # "queued"
      BY <1>8, <2>2 DEF Answer
    <2> QED BY <2>1, <2>2
  <1>9. ASSUME NEW j \in Job, Resume(j) PROVE RunsInv'
    BY <1>9, HubAssumption DEF Resume
  <1>10. ASSUME NEW j \in Job, Stop(j) PROVE RunsInv'
    BY <1>10 DEF Stop
  <1>11. ASSUME NEW j \in Job, Release(j) PROVE RunsInv'
    BY <1>11 DEF Release
  <1>12. ASSUME NEW upto \in 1..MaxSeq, Ack(upto) PROVE RunsInv'
    BY <1>12 DEF Ack
  <1>13. CASE UNCHANGED hubVars
    BY <1>13 DEF hubVars
  <1> QED
    BY <1>1, <1>2, <1>3, <1>4, <1>5, <1>6, <1>7, <1>8, <1>9, <1>10, <1>11, <1>12, <1>13
    DEF HubNext, ExecutorCall, ClientCall

\* An opening of a test job costs at most TestMaxRequeues + 1 runs and one of an
\* agent job a single one, whether a claim or an early answer began them; and a
\* job in work has an executor, but for an answer that came before its claim.
THEOREM HubRunsAccounted == HubSpec => [](RunsAccounted /\ ActiveHasExecutor)
  <1>1. HubInit => RunsInv
    BY HubAssumption DEF HubInit, RunsInv, RunsAccounted, ActiveHasExecutor, ActiveStatus
  <1>2. HubTypeOK /\ RunsInv /\ [HubNext]_hubVars => RunsInv'
    BY RunsInvStep
  <1>3. RunsInv => RunsAccounted /\ ActiveHasExecutor
    BY DEF RunsInv
  <1> QED BY <1>1, <1>2, <1>3, HubTypeCorrect, PTL DEF HubSpec

\* A job that waits for its owner has an executor, and so has a job in work that
\* was claimed: only an answer that comes before the claim makes a run that no
\* executor may report on.
THEOREM HubActiveHasExecutor == HubSpec => []ActiveHasExecutor
  BY HubRunsAccounted, PTL

-----------------------------------------------------------------------------
(* The mailbox and the table of jobs.                                      *)

\* Numbers are given out in order, so what is posted is newer than all there is.
SeqBound == \A m \in messages : m.seq <= lastSeq

VerdictInv == SeqBound /\ VerdictMatchesStatus

LEMMA PostSeq ==
  ASSUME HubTypeOK, SeqBound, NEW j, NEW to, NEW kind, Post(j, to, kind)
  PROVE  SeqBound'
  BY DEF HubTypeOK, Message, SeqBound, Post, Letter

\* A message that is neither a verdict to the client nor a resume changes no
\* job's fresh verdicts.
LEMMA PostKeepsVerdicts ==
  ASSUME NEW j, NEW to, NEW kind, Post(j, to, kind),
         kind # "resume", ~(to = "client" /\ kind \in VerdictKind),
         NEW i
  PROVE  FreshVerdicts(i)' = FreshVerdicts(i)
  BY DEF Post, Letter, FreshVerdicts

\* A verdict adds itself to the fresh verdicts of its job.
LEMMA PostAddsVerdict ==
  ASSUME HubTypeOK, SeqBound,
         NEW j, NEW kind \in VerdictKind, Post(j, "client", kind),
         NEW i
  PROVE  FreshVerdicts(i)' =
           IF i = j THEN FreshVerdicts(i) \cup {Letter(lastSeq + 1, j, "client", kind)}
           ELSE FreshVerdicts(i)
  <1>1. kind # "resume"
    BY DEF VerdictKind
  <1>2. \A r \in messages : r.seq < lastSeq + 1
    BY DEF HubTypeOK, Message, SeqBound
  <1> QED BY <1>1, <1>2 DEF Post, Letter, FreshVerdicts

\* A resume makes every verdict of its job an old one.
LEMMA ResumeClearsVerdicts ==
  ASSUME HubTypeOK, SeqBound, NEW j, Post(j, "executor", "resume"), NEW i
  PROVE  FreshVerdicts(i)' = IF i = j THEN {} ELSE FreshVerdicts(i)
  <1> DEFINE n == Letter(lastSeq + 1, j, "executor", "resume")
  <1>1. \A m \in messages : ~(n.seq < m.seq)
    BY DEF HubTypeOK, Message, SeqBound, Letter
  <1>2. messages' = messages \cup {n}
    BY DEF Post
  <1>3. n.job = j /\ n.kind = "resume" /\ n.to # "client"
    BY DEF Letter
  <1> HIDE DEF n
  <1>4. CASE i = j
    BY <1>1, <1>2, <1>3, <1>4 DEF FreshVerdicts
  <1>5. CASE i # j
    BY <1>2, <1>3, <1>5 DEF FreshVerdicts
  <1> QED BY <1>4, <1>5

\* Between two statuses that are not an end, or into "stopped", nothing is
\* asked of the mailbox.
NoEnd(i) ==
  \/ status'[i] = status[i]
  \/ status'[i] \notin TerminalStatus /\ status[i] \notin TerminalStatus
  \/ status'[i] = "stopped"

\* A step that leaves the fresh verdicts alone.
LEMMA QuietStep ==
  ASSUME VerdictInv, SeqBound', messages \subseteq messages',
         \A i \in Job : NoEnd(i) /\ FreshVerdicts(i)' = FreshVerdicts(i)
  PROVE  VerdictInv'
  BY DEF VerdictInv, VerdictMatchesStatus, NoEnd, TerminalStatus

LEMMA UnchangedMailStep ==
  ASSUME VerdictInv, UNCHANGED <<messages, lastSeq>>, \A i \in Job : NoEnd(i)
  PROVE  VerdictInv'
  <1>1. \A i \in Job : FreshVerdicts(i)' = FreshVerdicts(i)
    BY DEF FreshVerdicts
  <1>2. SeqBound'
    BY DEF VerdictInv, SeqBound
  <1> QED BY <1>1, <1>2, QuietStep

LEMMA PlainPostStep ==
  ASSUME HubTypeOK, VerdictInv, NEW j, NEW to, NEW kind, Post(j, to, kind),
         kind # "resume", ~(to = "client" /\ kind \in VerdictKind),
         \A i \in Job : NoEnd(i)
  PROVE  VerdictInv'
  <1>1. \A i \in Job : FreshVerdicts(i)' = FreshVerdicts(i)
    BY PostKeepsVerdicts
  <1>2. SeqBound' /\ messages \subseteq messages'
    BY PostSeq DEF VerdictInv, Post
  <1> QED BY <1>1, <1>2, QuietStep

\* A verdict that ends a job in work, or the confirmation of a stop.
LEMMA VerdictPostStep ==
  ASSUME HubTypeOK, VerdictInv, NEW j \in Job, NEW kind \in VerdictKind,
         Post(j, "client", kind),
         status[j] \notin TerminalStatus \/ Target[kind] = "stopped",
         status' = [status EXCEPT ![j] = Target[kind]]
  PROVE  VerdictInv'
  <1> DEFINE n == Letter(lastSeq + 1, j, "client", kind)
  <1>1. \A i \in Job : FreshVerdicts(i)' =
          IF i = j THEN FreshVerdicts(i) \cup {n} ELSE FreshVerdicts(i)
    BY PostAddsVerdict DEF VerdictInv
  <1>2. SeqBound' /\ messages \subseteq messages' /\ n \in messages' /\ n.kind = kind
    BY PostSeq DEF VerdictInv, Post, Letter
  <1>3. Target[kind] \in TerminalStatus
    BY DEF Target, VerdictKind, TerminalStatus
  <1>4. \A i \in Job \ {j} : status'[i] = status[i]
    BY DEF HubTypeOK
  <1>5. status'[j] = Target[kind]
    BY DEF HubTypeOK
  <1>6. status[j] \notin TerminalStatus => FreshVerdicts(j)' = {n}
    BY <1>1 DEF VerdictInv, VerdictMatchesStatus
  <1> HIDE DEF n
  <1> QED BY <1>1, <1>2, <1>3, <1>4, <1>5, <1>6 DEF VerdictInv, VerdictMatchesStatus

LEMMA VerdictInvStep ==
  ASSUME HubTypeOK, VerdictInv, [HubNext]_hubVars
  PROVE  VerdictInv'
  <1> USE DEF HubTypeOK
  <1>0. ActiveStatus \cap TerminalStatus = {} /\ "queued" \notin TerminalStatus
        /\ "none" \notin TerminalStatus /\ "running" \in ActiveStatus
        /\ "waiting_owner" \in ActiveStatus
    BY DEF ActiveStatus, TerminalStatus
  <1>1. ASSUME NEW j \in Job, Submit(j) PROVE VerdictInv'
    BY <1>0, <1>1, UnchangedMailStep DEF Submit, NoEnd
  <1>2. ASSUME NEW e \in Executor, NEW j \in Job, NEW offered \in Offers, Claim(e, j, offered)
        PROVE VerdictInv'
    BY <1>0, <1>2, UnchangedMailStep DEF Claim, First, NoEnd
  <1>3. ASSUME NEW e \in Executor, NEW j \in Job, NEW kind \in ProgressKind, Progress(e, j, kind)
        PROVE VerdictInv'
    <2>1. kind # "resume" /\ kind \notin VerdictKind
      BY DEF ProgressKind, VerdictKind
    <2> QED BY <1>3, <2>1, PlainPostStep DEF Progress, NoEnd
  <1>4. ASSUME NEW e \in Executor, NEW j \in Job, NEW kind \in ReportKind, Report(e, j, kind)
        PROVE VerdictInv'
    <2>1. CASE kind = "question"
      <3>1. status[j] = "running" /\ status' = [status EXCEPT ![j] = "waiting_owner"]
        BY <1>4, <2>1 DEF Report, CanReport, Target, Transition
      <3>2. kind # "resume" /\ kind \notin VerdictKind
        BY <2>1 DEF VerdictKind
      <3> QED BY <1>0, <1>4, <3>1, <3>2, PlainPostStep DEF Report, NoEnd
    <2>2. CASE kind # "question"
      <3>1. kind \in VerdictKind
        BY <2>2 DEF ReportKind, VerdictKind
      <3>2. Target[kind] # "queued"
        BY DEF Target, ReportKind
      <3>3. status[j] \notin TerminalStatus
        BY <1>4, <3>2 DEF Report, CanReport, Transition, TerminalStatus
      <3> QED BY <1>4, <3>1, <3>3, VerdictPostStep DEF Report
    <2> QED BY <2>1, <2>2
  <1>5. ASSUME NEW e \in Executor, NEW j \in Job, ConfirmStop(e, j) PROVE VerdictInv'
    <2>1. Target["stopped"] = "stopped" /\ "stopped" \in VerdictKind
      BY DEF Target, VerdictKind
    <2>2. status' = [status EXCEPT ![j] = Target["stopped"]]
      BY <1>5, <2>1 DEF ConfirmStop, CanConfirmStop
    <2> QED BY <1>5, <2>1, <2>2, VerdictPostStep DEF ConfirmStop
  <1>6. ASSUME NEW e \in Executor, NEW j \in Job, Requeue(e, j) PROVE VerdictInv'
    <2>1. status[j] = "running"
      BY <1>6 DEF Requeue, CanRequeue
    <2>2. CASE status' = [status EXCEPT ![j] = "queued"] /\ Post(j, "client", "requeue")
      <3>1. "requeue" \notin VerdictKind
        BY DEF VerdictKind
      <3> QED BY <1>0, <2>1, <2>2, <3>1, PlainPostStep DEF NoEnd
    <2>3. CASE status' = [status EXCEPT ![j] = "failed"] /\ Post(j, "client", "failed")
      <3>1. Target["failed"] = "failed" /\ "failed" \in VerdictKind
        BY DEF Target, VerdictKind
      <3> QED BY <1>0, <2>1, <2>3, <3>1, VerdictPostStep
    <2> QED BY <1>6, <2>2, <2>3 DEF Requeue
  <1>7. ASSUME NEW e \in Executor, NEW since \in 0..MaxSeq, NEW upto \in 1..MaxSeq,
               Poll(e, since, upto)
        PROVE VerdictInv'
    BY <1>7, UnchangedMailStep DEF Poll, NoEnd
  <1>8. ASSUME NEW j \in Job, Answer(j) PROVE VerdictInv'
    BY <1>0, <1>8, PlainPostStep DEF Answer, NoEnd
  <1>9. ASSUME NEW j \in Job, Resume(j) PROVE VerdictInv'
    <2>1. \A i \in Job : FreshVerdicts(i)' = IF i = j THEN {} ELSE FreshVerdicts(i)
      BY <1>9, ResumeClearsVerdicts DEF Resume, VerdictInv
    <2>2. SeqBound' /\ messages \subseteq messages'
      BY <1>9, PostSeq DEF VerdictInv, Resume, Post
    <2>3. status' = [status EXCEPT ![j] = "queued"]
      BY <1>9 DEF Resume
    <2>4. \A i \in Job : status'[i] = IF i = j THEN "queued" ELSE status[i]
      BY <2>3
    <2> QED BY <2>1, <2>2, <2>4, <1>0 DEF VerdictInv, VerdictMatchesStatus
  <1>10. ASSUME NEW j \in Job, Stop(j) PROVE VerdictInv'
    <2>1. \A i \in Job : NoEnd(i)
      BY <1>10 DEF Stop, NoEnd
    <2>2. CASE Post(j, "executor", "stop")
      BY <2>1, <2>2, PlainPostStep
    <2>3. CASE ~Post(j, "executor", "stop")
      <3> DEFINE x == Letter(lastSeq + 1, j, "client", "stopped")
                 y == Letter(lastSeq + 2, j, "executor", "stop")
      <3>1. /\ lastSeq' = lastSeq + 2
            /\ messages' = messages \cup {x, y}
        BY <1>10, <2>3 DEF Stop
      <3>2. x.job = j /\ y.job = j /\ x.seq = lastSeq + 1 /\ y.seq = lastSeq + 2
        BY DEF Letter
      <3> HIDE DEF x, y
      <3>3. SeqBound'
        BY <3>1, <3>2 DEF VerdictInv, SeqBound, Message
      <3>4. \A i \in Job \ {j} : FreshVerdicts(i)' = FreshVerdicts(i)
        BY <3>1, <3>2 DEF FreshVerdicts
      <3>5. status' = [status EXCEPT ![j] = "stopped"]
        BY <1>10 DEF Stop
      <3>6. status'[j] = "stopped" /\ \A i \in Job \ {j} : status'[i] = status[i]
        BY <3>5
      <3>7. messages \subseteq messages'
        BY <3>1
      <3> QED BY <3>3, <3>4, <3>6, <3>7 DEF VerdictInv, VerdictMatchesStatus, TerminalStatus
    <2> QED BY <2>2, <2>3
  <1>11. ASSUME NEW j \in Job, Release(j) PROVE VerdictInv'
    BY <1>11, PlainPostStep DEF Release, NoEnd
  <1>12. ASSUME NEW upto \in 1..MaxSeq, Ack(upto) PROVE VerdictInv'
    BY <1>12, UnchangedMailStep DEF Ack, NoEnd
  <1>13. CASE UNCHANGED hubVars
    BY <1>13, UnchangedMailStep DEF hubVars, NoEnd
  <1> QED
    BY <1>1, <1>2, <1>3, <1>4, <1>5, <1>6, <1>7, <1>8, <1>9, <1>10, <1>11, <1>12, <1>13
    DEF HubNext, ExecutorCall, ClientCall

\* A job that is not over has no verdict since its last resume, and a done or
\* failed one has exactly one, of that kind: the client's inbox never tells of
\* an end that did not happen, nor of the same end twice.
THEOREM HubVerdicts == HubSpec => []VerdictMatchesStatus
  <1>1. HubInit => VerdictInv
    BY DEF HubInit, VerdictInv, SeqBound, VerdictMatchesStatus, FreshVerdicts, TerminalStatus
  <1>2. HubTypeOK /\ VerdictInv /\ [HubNext]_hubVars => VerdictInv'
    BY VerdictInvStep
  <1>3. VerdictInv => VerdictMatchesStatus
    BY DEF VerdictInv
  <1> QED BY <1>1, <1>2, <1>3, HubTypeCorrect, PTL DEF HubSpec

-----------------------------------------------------------------------------
(* The order of the mailbox and of the queue.                              *)

\* A number is the name of one message.
SeqUnique == \A m, l \in messages : m.seq = l.seq => m = l

\* What a step puts into the mailbox is newer than all that was there.
Appends ==
  /\ messages \subseteq messages'
  /\ \A m \in messages' \ messages, l \in messages : m.seq > l.seq

LEMMA PostAppends ==
  ASSUME HubTypeOK, SeqBound, SeqUnique, NEW j, NEW to, NEW kind, Post(j, to, kind)
  PROVE  SeqUnique' /\ Appends
  BY DEF HubTypeOK, Message, SeqBound, SeqUnique, Appends, Post, Letter

LEMMA MailStep ==
  ASSUME HubTypeOK, SeqBound, SeqUnique, [HubNext]_hubVars
  PROVE  SeqUnique' /\ Appends
  <1>1. CASE UNCHANGED messages
    BY <1>1 DEF SeqUnique, Appends
  <1>2. ASSUME NEW j \in Job, NEW to, NEW kind, Post(j, to, kind) PROVE SeqUnique' /\ Appends
    BY <1>2, PostAppends
  <1>3. ASSUME NEW j \in Job, Stop(j) PROVE SeqUnique' /\ Appends
    <2>1. CASE Post(j, "executor", "stop")
      BY <2>1, PostAppends
    <2>2. CASE ~Post(j, "executor", "stop")
      <3> DEFINE x == Letter(lastSeq + 1, j, "client", "stopped")
                 y == Letter(lastSeq + 2, j, "executor", "stop")
      <3>1. messages' = messages \cup {x, y}
        BY <1>3, <2>2 DEF Stop
      <3>2. x.seq = lastSeq + 1 /\ y.seq = lastSeq + 2
        BY DEF Letter
      <3>3. \A m \in messages : m.seq \in Nat /\ m.seq <= lastSeq
        BY DEF HubTypeOK, Message, SeqBound
      <3>4. lastSeq \in Nat
        BY DEF HubTypeOK
      <3> HIDE DEF x, y
      <3> QED BY <3>1, <3>2, <3>3, <3>4 DEF SeqUnique, Appends
    <2> QED BY <2>1, <2>2
  <1> QED
    BY <1>1, <1>2, <1>3
    DEF HubNext, ExecutorCall, ClientCall, hubVars, Claim, Progress, Report, ConfirmStop,
        Requeue, Poll, Submit, Answer, Resume, Release, Ack

\* Between two purges (which are not modelled) the mailbox is a log: a message
\* is never changed or removed, every number is given out once, and what comes
\* is newer than all there is, so no cursor is ahead of a message that is still
\* to be posted.
THEOREM HubMailboxIsALog == HubSpec => []SeqUnique /\ [][Appends]_hubVars
  <1>1. HubInit => VerdictInv /\ SeqUnique
    BY DEF HubInit, VerdictInv, SeqBound, SeqUnique, VerdictMatchesStatus, FreshVerdicts, TerminalStatus
  <1>2. HubTypeOK /\ VerdictInv /\ SeqUnique /\ [HubNext]_hubVars
          => VerdictInv' /\ SeqUnique' /\ Appends
    BY VerdictInvStep, MailStep DEF VerdictInv
  <1> QED BY <1>1, <1>2, HubTypeCorrect, PTL DEF HubSpec

\* Jobs are numbered in the order of their submission.
Submitted == {j \in Job : status[j] # "none"}

ArrivalInv ==
  /\ \A j \in Submitted : arrival[j] <= Cardinality(Submitted)
  /\ \A i, j \in Submitted : arrival[i] = arrival[j] => i = j

\* Of two jobs one comes first.
OrderTotal ==
  \A i, j \in Submitted : i # j => (Precedes(i, j) <=> ~Precedes(j, i))

LEMMA NoneStays ==
  ASSUME HubTypeOK, [HubNext]_hubVars, \A j \in Job : ~Submit(j)
  PROVE  Submitted' = Submitted /\ arrival' = arrival
  <1> USE DEF HubTypeOK
  <1>0. ASSUME NEW j \in Job, status[j] # "none", NEW s, s # "none", status' = [status EXCEPT ![j] = s]
        PROVE  Submitted' = Submitted
    BY <1>0 DEF Submitted
  <1>1. ASSUME NEW j \in Job, Answer(j) \/ Stop(j) \/ Resume(j)
        PROVE  Submitted' = Submitted /\ arrival' = arrival
    BY <1>0, <1>1 DEF Answer, Stop, Resume, Transition
  <1>2. ASSUME NEW e \in Executor, NEW j \in Job, NEW offered \in Offers, Claim(e, j, offered)
        PROVE  Submitted' = Submitted /\ arrival' = arrival
    BY <1>0, <1>2 DEF Claim, First
  <1>3. ASSUME NEW e \in Executor, NEW j \in Job, NEW kind \in ReportKind, Report(e, j, kind)
        PROVE  Submitted' = Submitted /\ arrival' = arrival
    <2>1. Target[kind] # "none"
      BY DEF Target, ReportKind
    <2>2. status[j] # "none"
      BY <1>3 DEF Report, CanReport, Transition
    <2> QED BY <1>0, <1>3, <2>1, <2>2 DEF Report
  <1>4. ASSUME NEW e \in Executor, NEW j \in Job, Requeue(e, j)
        PROVE  Submitted' = Submitted /\ arrival' = arrival
    BY <1>0, <1>4 DEF Requeue, CanRequeue
  <1>5. CASE UNCHANGED <<status, arrival>>
    BY <1>5 DEF Submitted
  <1> QED
    BY <1>1, <1>2, <1>3, <1>4, <1>5
    DEF HubNext, ExecutorCall, ClientCall, Progress, ConfirmStop, Poll, Ack, Release, hubVars

LEMMA ArrivalStep ==
  ASSUME HubTypeOK, ArrivalInv, [HubNext]_hubVars
  PROVE  ArrivalInv'
  <1>1. CASE \A j \in Job : ~Submit(j)
    BY <1>1, NoneStays DEF ArrivalInv
  <1>2. ASSUME NEW j \in Job, Submit(j) PROVE ArrivalInv'
    <2>1. IsFiniteSet(Submitted) /\ Cardinality(Submitted) \in Nat
      BY HubAssumption, FS_Subset, FS_CardinalityType DEF Submitted
    <2>2. j \notin Submitted /\ Submitted' = Submitted \cup {j}
      BY <1>2 DEF Submit, Submitted, HubTypeOK
    <2>3. Cardinality(Submitted') = Cardinality(Submitted) + 1
      BY <2>1, <2>2, FS_AddElement
    <2>4. /\ arrival'[j] = 1 + Cardinality(Submitted)
          /\ \A i \in Submitted : arrival'[i] = arrival[i] /\ arrival[i] \in Nat
      BY <1>2, <2>2 DEF Submit, Submitted, HubTypeOK
    <2> QED BY <2>1, <2>2, <2>3, <2>4 DEF ArrivalInv
  <1> QED BY <1>1, <1>2

\* The order of a claim is total on the submitted jobs: no two of them tie, so
\* for every offer at most one job is the first, whichever was resumed, given
\* back or stopped meanwhile, and none can hide another for ever by a tie.
THEOREM HubOrderIsTotal == HubSpec => []OrderTotal
  <1>1. HubInit => ArrivalInv
    BY DEF HubInit, ArrivalInv, Submitted
  <1>2. HubTypeOK /\ ArrivalInv /\ [HubNext]_hubVars => ArrivalInv'
    BY ArrivalStep
  <1>3. HubTypeOK /\ ArrivalInv => OrderTotal
    <2> SUFFICES ASSUME HubTypeOK, ArrivalInv, NEW i \in Submitted, NEW j \in Submitted, i # j
                 PROVE  Precedes(i, j) <=> ~Precedes(j, i)
      BY DEF OrderTotal
    <2>1. arrival[i] \in Nat /\ arrival[j] \in Nat /\ arrival[i] # arrival[j]
      BY DEF HubTypeOK, ArrivalInv, Submitted
    <2>2. Priority[i] \in Int /\ Priority[j] \in Int
      BY HubAssumption DEF Submitted
    <2> QED BY <2>1, <2>2 DEF Precedes
  <1> QED BY <1>1, <1>2, <1>3, HubTypeCorrect, PTL DEF HubSpec

-----------------------------------------------------------------------------
(* The queue implements RunContract.                                       *)

LEMMA PhaseValues ==
  /\ Phase("none") = "new" /\ Phase("queued") = "ready"
  /\ Phase("running") = "held" /\ Phase("waiting_owner") = "asking"
  /\ \A s \in TerminalStatus : Phase(s) = "over"
  BY DEF Phase, TerminalStatus

\* A job that was not submitted was not run.
NewNotRun == \A j \in Job : status[j] = "none" => runs[j] = 0

LEMMA NewNotRunStep ==
  ASSUME HubTypeOK, NewNotRun, [HubNext]_hubVars
  PROVE  NewNotRun'
  <1> USE DEF HubTypeOK, NewNotRun, history
  <1>1. ASSUME NEW j \in Job, ClientCall(j) PROVE NewNotRun'
    BY <1>1 DEF ClientCall, Submit, Answer, Resume, Stop, Release, Transition, history
  <1>2. ASSUME NEW e \in Executor, NEW j \in Job, NEW offered \in Offers, Claim(e, j, offered)
        PROVE NewNotRun'
    BY <1>2 DEF Claim
  <1>3. ASSUME NEW e \in Executor, NEW j \in Job, NEW kind \in ReportKind, Report(e, j, kind)
        PROVE NewNotRun'
    <2>1. Target[kind] # "none"
      BY DEF Target, ReportKind
    <2> QED BY <1>3, <2>1 DEF Report
  <1>4. ASSUME NEW e \in Executor, NEW j \in Job, Requeue(e, j) PROVE NewNotRun'
    BY <1>4 DEF Requeue
  <1>5. CASE UNCHANGED <<status, runs>>
    BY <1>5
  <1> QED
    BY <1>1, <1>2, <1>3, <1>4, <1>5
    DEF HubNext, ExecutorCall, Progress, ConfirmStop, Poll, Ack, hubVars

\* A queued job may be run once more.
LEMMA Runnable ==
  ASSUME HubTypeOK, RunsInv, NEW j \in Job, status[j] = "queued"
  PROVE  runs[j] < jobLimit[j]
  BY HubAssumption DEF HubTypeOK, RunsInv, RunsAccounted, jobLimit

LEMMA ContractStep ==
  ASSUME HubTypeOK, RunsInv, NewNotRun, [HubNext]_hubVars
  PROVE  [Contract!Next]_(Contract!vars)
  <1> USE PhaseValues DEF HubTypeOK, history
  <1>0. \A j \in Job : jobPhase[j] = Phase(status[j])
    BY DEF jobPhase
  <1>1. ASSUME NEW j \in Job, Submit(j) PROVE Contract!Open(j)
    <2>1. runs' = [runs EXCEPT ![j] = 0]
      BY <1>1 DEF Submit, NewNotRun
    <2>2. jobPhase' = [jobPhase EXCEPT ![j] = "ready"]
      BY <1>1 DEF Submit, jobPhase
    <2> QED BY <1>0, <1>1, <2>1, <2>2 DEF Submit, Contract!Open
  <1>2. ASSUME NEW e \in Executor, NEW j \in Job, NEW offered \in Offers, Claim(e, j, offered)
        PROVE Contract!Take(e, j)
    <2>1. runs[j] < jobLimit[j]
      BY <1>2, Runnable DEF Claim, First
    <2>2. jobPhase' = [jobPhase EXCEPT ![j] = "held"]
      BY <1>2 DEF Claim, jobPhase
    <2> QED BY <1>0, <1>2, <2>1, <2>2 DEF Claim, First, Contract!Take, Contract!Start
  <1>3. ASSUME NEW e \in Executor, NEW j \in Job, NEW kind \in ReportKind, Report(e, j, kind)
        PROVE Contract!Ask(j) \/ Contract!Close(j)
    <2>1. CASE kind = "question"
      <3>1. /\ status[j] = "running" /\ status' = [status EXCEPT ![j] = "waiting_owner"]
            /\ executor[j] # NoExecutor
        BY <1>3, <2>1, HubAssumption DEF Report, CanReport, Target, Transition
      <3>2. jobPhase' = [jobPhase EXCEPT ![j] = "asking"]
        BY <3>1 DEF jobPhase
      <3> QED BY <1>0, <1>3, <3>1, <3>2 DEF Report, Contract!Ask
    <2>2. CASE kind # "question"
      <3>1. Target[kind] \in TerminalStatus
        BY <2>2 DEF Target, ReportKind, TerminalStatus
      <3>2. status[j] \in {"queued", "running", "waiting_owner"}
        BY <1>3, <3>1 DEF Report, CanReport, Transition, TerminalStatus
      <3>3. jobPhase' = [jobPhase EXCEPT ![j] = Phase(Target[kind])]
        BY <1>3 DEF Report, jobPhase
      <3> QED BY <1>0, <1>3, <3>1, <3>2, <3>3 DEF Report, Contract!Close
    <2> QED BY <2>1, <2>2
  <1>4. ASSUME NEW e \in Executor, NEW j \in Job, Requeue(e, j)
        PROVE Contract!GiveBack(j) \/ Contract!Close(j)
    <2>1. status[j] = "running" /\ j \in TestJob /\ executor[j] # NoExecutor
      BY <1>4, HubAssumption DEF Requeue, CanRequeue
    <2>2. CASE attempts[j] < TestMaxRequeues
      <3>1. runs[j] < jobLimit[j]
        BY <2>1, <2>2, HubAssumption DEF RunsInv, RunsAccounted, jobLimit, ActiveStatus
      <3>2. /\ status' = [status EXCEPT ![j] = "queued"]
            /\ executor' = [executor EXCEPT ![j] = NoExecutor]
            /\ runs' = runs
        BY <1>4, <2>2, HubAssumption DEF Requeue
      <3>3. jobPhase' = [jobPhase EXCEPT ![j] = "ready"]
        BY <3>2 DEF jobPhase
      <3> QED BY <1>0, <2>1, <3>1, <3>2, <3>3 DEF Contract!GiveBack
    <2>3. CASE ~(attempts[j] < TestMaxRequeues)
      <3>1. /\ status' = [status EXCEPT ![j] = "failed"]
            /\ UNCHANGED <<executor, runs>>
        BY <1>4, <2>3 DEF Requeue
      <3>2. jobPhase' = [jobPhase EXCEPT ![j] = "over"]
        BY <3>1 DEF TerminalStatus, jobPhase
      <3> QED BY <1>0, <2>1, <3>1, <3>2 DEF Contract!Close
    <2> QED BY <2>2, <2>3
  <1>5. ASSUME NEW j \in Job, Answer(j) PROVE Contract!GoOn(j) \/ Contract!Presume(j)
    <2>1. jobPhase' = [jobPhase EXCEPT ![j] = "held"]
      BY <1>5 DEF Answer, jobPhase
    <2>2. CASE status[j] = "waiting_owner"
      BY <1>0, <1>5, <2>1, <2>2 DEF Answer, Contract!GoOn
    <2>3. CASE status[j] = "queued"
      <3>1. runs[j] < jobLimit[j]
        BY <2>3, Runnable
      <3> QED BY <1>0, <1>5, <2>1, <2>3, <3>1 DEF Answer, Contract!Presume, Contract!Start
    <2> QED BY <1>5, <2>2, <2>3 DEF Answer
  <1>6. ASSUME NEW j \in Job, Resume(j) PROVE Contract!Open(j)
    <2>1. status[j] = "waiting_owner" \/ status[j] \in TerminalStatus
      BY <1>6 DEF Resume, Transition, TerminalStatus
    <2>2. jobPhase' = [jobPhase EXCEPT ![j] = "ready"]
      BY <1>6 DEF Resume, jobPhase
    <2> QED BY <1>0, <1>6, <2>1, <2>2 DEF Resume, Contract!Open
  <1>7. ASSUME NEW j \in Job, Stop(j) PROVE Contract!Close(j)
    <2>1. status[j] \in {"queued", "running", "waiting_owner"}
      BY <1>7 DEF Stop, Transition
    <2>2. jobPhase' = [jobPhase EXCEPT ![j] = "over"]
      BY <1>7 DEF Stop, TerminalStatus, jobPhase
    <2> QED BY <1>0, <1>7, <2>1, <2>2 DEF Stop, Contract!Close
  <1>8. CASE UNCHANGED <<status, executor, runs>>
    BY <1>8 DEF Contract!vars, jobPhase
  <1>9. \A j \in Job :
          /\ Release(j) => UNCHANGED <<status, executor, runs>>
          /\ \A e \in Executor :
               /\ ConfirmStop(e, j) => UNCHANGED <<status, executor, runs>>
               /\ \A kind \in ProgressKind :
                    Progress(e, j, kind) => UNCHANGED <<status, executor, runs>>
    BY DEF Release, ConfirmStop, Progress
  <1> QED
    BY <1>1, <1>2, <1>3, <1>4, <1>5, <1>6, <1>7, <1>8, <1>9
    DEF HubNext, ExecutorCall, ClientCall, Poll, Ack, hubVars, Contract!Next

\* Every behaviour of the queue is one of the contract: a job changes hands only
\* when it is ready, is asked about and given back by its holder only, is set to
\* work a bounded number of times between two openings, and only a resume
\* reopens it.
THEOREM HubImplements == HubSpec => HubMeetsContract
  <1>1. HubInit => Contract!Init /\ NewNotRun /\ RunsInv
    BY PhaseValues, HubAssumption
    DEF HubInit, Contract!Init, NewNotRun, RunsInv, RunsAccounted, ActiveHasExecutor,
        ActiveStatus, jobPhase, history
  <1>2. HubTypeOK /\ RunsInv /\ NewNotRun /\ [HubNext]_hubVars
          => RunsInv' /\ NewNotRun' /\ [Contract!Next]_(Contract!vars)
    BY RunsInvStep, NewNotRunStep, ContractStep
  <1> QED BY <1>1, <1>2, HubTypeCorrect, PTL DEF HubSpec, HubMeetsContract, Contract!Spec

=============================================================================
