--------------------------- MODULE PendingActions ---------------------------
(***************************************************************************)
(* Confirmation forms of the bot (bot/pending_actions.py).  A form is a    *)
(* draft with its initiator, then an offer to its addressee, then decided. *)
(* Every stage of its life owes somebody a message: the speech of the      *)
(* model first, if there is one, and then the form, which the code builds. *)
(*                                                                         *)
(* A running coroutine of the bot is a call: the sequence of the steps it  *)
(* still has to do, one step per await.  Calls run interleaved, and a      *)
(* crash loses them together with the locks, the timers and the claims;    *)
(* the tables, the chats and the tasks service survive it.                 *)
(***************************************************************************)
EXTENDS Naturals, FiniteSets, SequencesExt

CONSTANTS
    Actions,     \* rows of pending_actions
    Notices,     \* stages told after a verdict: outcome, welcome or both
    Calls,       \* names for the coroutines that may run at a time
    MaxFaults    \* deaths of the bot, exceptions and sends that Telegram does not take

ASSUME PendingAssumption ==
    /\ IsFiniteSet(Actions) /\ Actions # {}
    /\ Notices \subseteq {"outcome", "welcome"}
    /\ MaxFaults \in Nat

VARIABLES
    row,       \* the table pending_actions
    friends,   \* rows of guest_relationships an acceptance has written
    chat,      \* messages the people have received, per stage
    lost,      \* messages Telegram has refused or the outbox has given up
    outbox,    \* messages that wait for the network, per stage
    tasks,     \* alarms and speeches with the tasks service
    timers,    \* alarms and fallbacks armed in memory
    calls,     \* what every running coroutine has still to do
    stuck,     \* speeches claimed by a coroutine that is no more
    dropped,   \* history: what the bot has let go of, until it starts again
    up,        \* the process runs
    faults     \* the faults so far

vars == <<row, friends, chat, lost, outbox, tasks, timers, calls, stuck, dropped, up, faults>>
telegram == <<chat, lost, outbox>>
marks == <<stuck, dropped>>

Open == {"draft", "pending"}
Verdict == {"accepted", "rejected", "cancelled", "expired"}
Stage == {"draft", "offer"} \cup Notices
Button == {"submit", "cancel", "accept", "reject"}
Decider == {"nobody", "initiator", "addressee"}

ExpectedStatus(b) == IF b \in {"submit", "cancel"} THEN "draft" ELSE "pending"
ShownBy(b) == IF b \in {"submit", "cancel"} THEN "draft" ELSE "offer"
Presser(b) == IF b \in {"submit", "cancel"} THEN "initiator" ELSE "addressee"

\* The stages whose message the row still has to get out, whoever waits.
NeedsNotice(r) == ~(r.status = "cancelled" /\ r.by = "initiator")
Owed(r) ==
    CASE r.status = "draft" -> {"draft"}
      [] r.status = "pending" -> {"offer"}
      [] r.status = "none" -> {}
      [] OTHER -> {s \in Notices : IF s = "outcome" THEN NeedsNotice(r)
                                   ELSE r.status = "accepted"}

-----------------------------------------------------------------------------
(* Orders, with the tasks service or in memory, and calls. *)

Alarm(a) == [kind |-> "expire", a |-> a, stage |-> "draft"]
Speech(a, s) == [kind |-> "speech", a |-> a, stage |-> s]

Step(op, a) == [op |-> op, a |-> a, stage |-> "draft", to |-> "none", by |-> "nobody"]
For(op, a, s) == [Step(op, a) EXCEPT !.stage = s]
Move(a, to, by) == [Step("move", a) EXCEPT !.to = to, !.by = by]

Begin(c, steps) ==
    /\ up
    /\ calls[c] = <<>>
    /\ c = CHOOSE d \in Calls : calls[d] = <<>>
    /\ calls' = [calls EXCEPT ![c] = steps]
At(c, op) == calls[c] # <<>> /\ Head(calls[c]).op = op
Then(c, steps) == calls' = [calls EXCEPT ![c] = steps \o Tail(@)]

\* The lock of an action is held while its form is sent; a speech is claimed
\* from its claim to the end of the sending of its form, or for good.
Holds(c, a) == calls[c] # <<>> /\ Head(calls[c]).op \in {"send", "column"} /\ Head(calls[c]).a = a
UnsharedLock(a) == FALSE   \* mutant: every caller gets a lock of its own
Locked(a) == \E c \in Calls : Holds(c, a)
Claims(c, a, s) == calls[c] # <<>> /\ Head(calls[c]) \in
                    [op : {"enter", "send", "column"}, a : {a}, stage : {s}, to : {"claimed"}, by : {"nobody"}]
Claimed(a, s) == <<a, s>> \in stuck \/ \E c \in Calls : Claims(c, a, s)

PendingInit ==
    /\ row = [a \in Actions |-> [status |-> "none", by |-> "nobody", late |-> FALSE,
                                 sent |-> FALSE, column |-> {}]]
    /\ friends = [a \in Actions |-> 0]
    /\ chat = [a \in Actions |-> [s \in Stage |-> 0]]
    /\ outbox = [a \in Actions |-> [s \in Stage |-> 0]]
    /\ lost = {}
    /\ tasks = {}
    /\ timers = {}
    /\ calls = [c \in Calls |-> <<>>]
    /\ stuck = {}
    /\ dropped = {}
    /\ up = TRUE
    /\ faults = 0

-----------------------------------------------------------------------------
(* The turn of the initiator: the tool opens a draft, and the form goes    *)
(* out when this or a later turn closes that nobody cancels.               *)

Create(c, a) ==
    /\ row[a].status = "none"
    /\ row' = [row EXCEPT ![a].status = "draft"]
    /\ Begin(c, <<Step("alarm", a)>>)
    /\ UNCHANGED <<friends, telegram, tasks, timers, up, faults, marks>>

CloseTurn(c, a) ==
    /\ row[a].status = "draft"
    /\ Begin(c, <<For("enter", a, "draft")>>)
    /\ UNCHANGED <<row, friends, telegram, tasks, timers, up, faults, marks>>

\* The pair may have another open form, or be acquainted already: then the
\* form that was to be sent or accepted is cancelled.
Click(c, a, b) ==
    \E asked \in {IF b = "submit" THEN "pending" ELSE "accepted", "cancelled"} :
    /\ chat[a][ShownBy(b)] > 0
    /\ row[a].status = ExpectedStatus(b)
    /\ Begin(c, CASE row[a].late -> <<Step("expire", a)>>
                  [] ~row[a].late /\ b = "cancel" -> <<Move(a, "cancelled", "initiator")>>
                  [] ~row[a].late /\ b = "reject" -> <<Move(a, "rejected", "addressee")>>
                  [] OTHER -> <<Move(a, asked, Presser(b))>>)
    /\ UNCHANGED <<row, friends, telegram, tasks, timers, up, faults, marks>>

-----------------------------------------------------------------------------
(* The life of a row. *)

\* Mutant: a transition with no guard on the status, as if decided by a read.
AnyStatus(to) == Open \cup Verdict
\* Mutant: a term that runs out takes back what was accepted.
FromOpenOrAccepted(to) == IF to = "expired" THEN Open \cup {"accepted"} ELSE Open

FromStatus(to) ==
    CASE to = "pending" -> {"draft"}
      [] to = "accepted" -> {"pending"}
      [] OTHER -> Open

Moved(r, to, by) ==
    IF to = "pending"
    THEN [r EXCEPT !.status = to, !.sent = TRUE, !.late = FALSE]
    ELSE [r EXCEPT !.status = to, !.by = by]

\* Mutant: a relationship for every move, accepted or not.
AfterAnyMove(a, to, by) == <<Step("relate", a)>>

\* The reactions of the subscribers of the bus.
AfterMove(a, to, by) ==
    LET ask(s) == IF s \in Owed([status |-> to, by |-> by]) THEN <<For("ask", a, s)>> ELSE <<>>
    IN IF to = "pending" THEN <<For("ask", a, "offer"), Step("alarm", a)>>
       ELSE (IF to = "accepted" THEN <<Step("relate", a)>> ELSE <<>>)
              \o ask("outcome") \o ask("welcome")

\* The alarms of the status the row leaves will find it not late, or
\* decided, and do nothing: they go with it.
Transition(c) ==
    /\ At(c, "move")
    /\ LET s == Head(calls[c]) IN
        \/ /\ row[s.a].status \in FromStatus(s.to)
           /\ row' = [row EXCEPT ![s.a] = Moved(@, s.to, s.by)]
           /\ tasks' = tasks \ {Alarm(s.a)}
           /\ timers' = timers \ {Alarm(s.a)}
           /\ dropped' = dropped \ {Alarm(s.a)}
           /\ Then(c, AfterMove(s.a, s.to, s.by))
        \/ /\ row[s.a].status \notin FromStatus(s.to)
           /\ Then(c, <<>>)
           /\ UNCHANGED <<row, tasks, timers, dropped>>
    /\ UNCHANGED <<friends, telegram, stuck, up, faults>>

Relate(c) ==
    /\ At(c, "relate")
    /\ friends' = [friends EXCEPT ![Head(calls[c]).a] = @ + 1]
    /\ Then(c, <<>>)
    /\ UNCHANGED <<row, telegram, tasks, timers, up, faults, marks>>

PassTime(a) ==
    /\ row[a].status \in Open
    /\ ~row[a].late
    /\ row' = [row EXCEPT ![a].late = TRUE]
    /\ UNCHANGED <<friends, telegram, tasks, timers, calls, up, faults, marks>>

Expire(c) ==
    /\ At(c, "expire")
    /\ LET a == Head(calls[c]).a IN
        Then(c, IF row[a].status \in Open /\ row[a].late
                THEN <<Move(a, "expired", "nobody")>> ELSE <<>>)
    /\ UNCHANGED <<row, friends, telegram, tasks, timers, up, faults, marks>>

-----------------------------------------------------------------------------
(* Orders to the tasks service, which may fail with the order placed or    *)
(* not; the code then falls back on its memory, or on no speech.           *)

Schedule(c) ==
    /\ At(c, "alarm")
    /\ LET alarm == Alarm(Head(calls[c]).a) IN
        \/ tasks' = tasks \cup {alarm} /\ UNCHANGED timers
        \/ tasks' = tasks \cup {alarm} /\ timers' = timers \cup {alarm}
        \/ timers' = timers \cup {alarm} /\ UNCHANGED tasks
    /\ Then(c, <<>>)
    /\ UNCHANGED <<row, friends, telegram, up, faults, marks>>

Ask(c) ==
    /\ At(c, "ask")
    /\ LET a == Head(calls[c]).a
           s == Head(calls[c]).stage
           order == tasks' = tasks \cup {Speech(a, s)}
       IN \/ order /\ timers' = timers \cup {Speech(a, s)} /\ Then(c, <<>>)
          \/ order /\ UNCHANGED timers /\ Then(c, <<For("enter", a, s)>>)
          \/ UNCHANGED <<tasks, timers>> /\ Then(c, <<For("enter", a, s)>>)
    /\ UNCHANGED <<row, friends, telegram, up, faults, marks>>

Due(t) == t.kind = "speech" \/ row[t.a].late

\* A fallback that finds its speech claimed leaves the form to the claimer.
TimerFires(c, t) ==
    /\ t \in timers
    /\ Due(t)
    /\ timers' = timers \ {t}
    /\ \/ t.kind = "expire" /\ Begin(c, <<Step("expire", t.a)>>)
       \/ /\ t.kind = "speech" /\ ~Claimed(t.a, t.stage)
          /\ Begin(c, <<For("enter", t.a, t.stage)>>)
       \/ t.kind = "speech" /\ Claimed(t.a, t.stage) /\ UNCHANGED calls
    /\ UNCHANGED <<row, friends, telegram, tasks, up, faults, marks>>

TaskAnswers(c, t) ==
    /\ t \in tasks
    /\ Due(t)
    /\ tasks' = tasks \ {t}
    /\ Begin(c, IF t.kind = "expire" THEN <<Step("expire", t.a)>>
                ELSE <<For("claim", t.a, t.stage)>>)
    /\ UNCHANGED <<row, friends, telegram, timers, up, faults, marks>>

\* The result is one broadcast: it finds the bot down or its link broken, or
\* the tasks service has died with it.  A start arms the alarms anew and a
\* speech has its fallback; an alarm missed by a bot that runs is missed.
TaskLost(t) ==
    /\ t \in tasks
    /\ Due(t)
    /\ tasks' = tasks \ {t}
    /\ dropped' = IF up /\ t.kind = "expire" THEN dropped \cup {t} ELSE dropped
    /\ UNCHANGED <<row, friends, telegram, timers, calls, stuck, up, faults>>

-----------------------------------------------------------------------------
(* The speech and the form. *)

\* The speech is sent between the claim and the form; an answer that is
\* empty or an error only leaves it out.
Claim(c) ==
    /\ At(c, "claim")
    /\ LET s == Head(calls[c]) IN
        /\ ~Locked(s.a)
        /\ Then(c, IF s.stage \in row[s.a].column \/ Claimed(s.a, s.stage) THEN <<>>
                   ELSE <<[s EXCEPT !.op = "enter", !.to = "claimed"]>>)
    /\ UNCHANGED <<row, friends, telegram, tasks, timers, up, faults, marks>>

\* Under the lock of the action, and only if the stage is still to be told.
WantedByStatus(a, s) ==    \* mutant: sent whatever the column says
    /\ s = "draft" => row[a].status = "draft"
    /\ s = "offer" => row[a].status = "pending"

Wanted(a, s) ==
    /\ s \notin row[a].column
    /\ s = "draft" => row[a].status = "draft"
    /\ s = "offer" => row[a].status = "pending"

Enter(c) ==
    /\ At(c, "enter")
    /\ LET s == Head(calls[c]) IN
        /\ ~Locked(s.a)
        /\ Then(c, IF Wanted(s.a, s.stage) THEN <<[s EXCEPT !.op = "send"]>> ELSE <<>>)
    /\ UNCHANGED <<row, friends, telegram, tasks, timers, up, faults, marks>>

Send(c) ==
    /\ At(c, "send")
    /\ LET s == Head(calls[c]) IN
        /\ chat' = [chat EXCEPT ![s.a][s.stage] = @ + 1]
        /\ Then(c, <<[s EXCEPT !.op = "column"]>>)
    /\ UNCHANGED <<row, friends, lost, outbox, tasks, timers, up, faults, marks>>

SendFails(c) ==
    /\ At(c, "send")
    /\ faults < MaxFaults
    /\ faults' = faults + 1
    /\ LET s == Head(calls[c]) IN
        \/ outbox' = [outbox EXCEPT ![s.a][s.stage] = @ + 1] /\ UNCHANGED lost
        \/ lost' = lost \cup {<<s.a, s.stage>>} /\ UNCHANGED outbox
    /\ Then(c, <<>>)
    /\ UNCHANGED <<row, friends, chat, tasks, timers, up, marks>>

Column(c) ==
    /\ At(c, "column")
    /\ LET s == Head(calls[c]) IN row' = [row EXCEPT ![s.a].column = @ \cup {s.stage}]
    /\ Then(c, <<>>)
    /\ UNCHANGED <<friends, telegram, tasks, timers, up, faults, marks>>

-----------------------------------------------------------------------------
(* An exception, of the database or of anything a coroutine awaits: whoever *)
(* runs the coroutine logs it, and its other steps are never taken.         *)

Carries(s) ==
    CASE s.op \in {"alarm", "expire", "move"} -> {Alarm(s.a)}
      [] s.op \in {"ask", "enter", "send", "column"} -> {Speech(s.a, s.stage)}
      [] s.op = "open" -> {Alarm(a) : a \in Actions}
      [] s.op = "drafts" -> {Speech(a, "draft") : a \in Actions}
      [] s.op = "owed" -> {Speech(p[1], p[2]) : p \in Actions \X (Stage \ {"draft"})}
      [] OTHER -> {}

\* The bus swallows what its subscriber raises: the alarm of an offer is set.
Spared(l) == IF Len(l) > 1 /\ Last(l).op = "alarm" THEN <<Last(l)>> ELSE <<>>

Raises(c) ==
    /\ calls[c] # <<>>
    /\ faults < MaxFaults
    /\ faults' = faults + 1
    /\ LET l == calls[c]
           s == Head(l)
       IN \E rest \in {<<>>, Spared(l)} :
            /\ calls' = [calls EXCEPT ![c] = rest]
            /\ dropped' = dropped \cup UNION {Carries(l[i]) : i \in 1 .. Len(l) - Len(rest)}
            /\ stuck' = IF Claims(c, s.a, s.stage) THEN stuck \cup {<<s.a, s.stage>>} ELSE stuck
    /\ UNCHANGED <<row, friends, telegram, tasks, timers, up>>

-----------------------------------------------------------------------------
(* The outbox of the bot. *)

OutboxSend(a, s) ==
    /\ up
    /\ outbox[a][s] > 0
    /\ outbox' = [outbox EXCEPT ![a][s] = @ - 1]
    /\ chat' = [chat EXCEPT ![a][s] = @ + 1]
    /\ UNCHANGED <<row, friends, lost, tasks, timers, calls, up, faults, marks>>

\* Past its term, or refused for good.
OutboxDrop(a, s) ==
    /\ up
    /\ outbox[a][s] > 0
    /\ outbox' = [outbox EXCEPT ![a][s] = @ - 1]
    /\ lost' = lost \cup {<<a, s>>}
    /\ UNCHANGED <<row, friends, chat, tasks, timers, calls, up, faults, marks>>

-----------------------------------------------------------------------------
(* Death and start of the process. *)

Crash ==
    /\ up
    /\ faults < MaxFaults
    /\ faults' = faults + 1
    /\ up' = FALSE
    /\ calls' = [c \in Calls |-> <<>>]
    /\ timers' = {}
    /\ stuck' = {}
    /\ dropped' = {}
    /\ UNCHANGED <<row, friends, telegram, tasks>>

Start(c) ==
    /\ ~up
    /\ c = CHOOSE d \in Calls : TRUE
    /\ up' = TRUE
    /\ calls' = [calls EXCEPT ![c] = [i \in 1 .. 3 |->
                    Step(<<"open", "drafts", "owed">>[i], CHOOSE a \in Actions : TRUE)]]
    /\ UNCHANGED <<row, friends, telegram, tasks, timers, faults, marks>>

ForEach(op, as) == [i \in 1 .. Cardinality(as) |-> Step(op, SetToSeq(as)[i])]

RecoverLate(c) ==          \* mutant: no alarm for the forms that are not late yet
    /\ At(c, "open")
    /\ Then(c, ForEach("expire", {a \in Actions : row[a].status \in Open /\ row[a].late}))
    /\ UNCHANGED <<row, friends, telegram, tasks, timers, up, faults, marks>>

RecoverOpen(c) ==
    /\ At(c, "open")
    /\ LET open == {a \in Actions : row[a].status \in Open} IN
        /\ timers' = timers \cup {Alarm(a) : a \in {b \in open : ~row[b].late}}
        /\ Then(c, ForEach("expire", {a \in open : row[a].late}))
    /\ UNCHANGED <<row, friends, telegram, tasks, up, faults, marks>>

RecoverDrafts(c) ==
    /\ At(c, "drafts")
    /\ Then(c, ForEach("enter", {a \in Actions : row[a].status = "draft" /\ "draft" \notin row[a].column}))
    /\ UNCHANGED <<row, friends, telegram, tasks, timers, up, faults, marks>>

RecoverNothing(c) ==       \* mutant: the stages still owed are not looked for
    /\ At(c, "owed")
    /\ Then(c, <<>>)
    /\ UNCHANGED <<row, friends, telegram, tasks, timers, up, faults, marks>>

RecoverOwed(c) ==
    /\ At(c, "owed")
    /\ timers' = timers \cup
         {Speech(p[1], p[2]) : p \in {q \in Actions \X (Stage \ {"draft"}) :
                                        q[2] \in Owed(row[q[1]]) \ row[q[1]].column}}
    /\ Then(c, <<>>)
    /\ UNCHANGED <<row, friends, telegram, tasks, up, faults, marks>>

-----------------------------------------------------------------------------
StepOf(c) ==
    \/ Transition(c) \/ Relate(c) \/ Expire(c)
    \/ Schedule(c) \/ Ask(c) \/ Claim(c)
    \/ Enter(c) \/ Send(c) \/ SendFails(c) \/ Column(c)
    \/ RecoverOpen(c) \/ RecoverDrafts(c) \/ RecoverOwed(c)

AnyTask == tasks \cup timers

PendingNext ==
    \/ \E c \in Calls :
        \/ StepOf(c) \/ Raises(c)
        \/ \E a \in Actions : Create(c, a) \/ CloseTurn(c, a)
        \/ \E a \in Actions, b \in Button : Click(c, a, b)
        \/ \E t \in AnyTask : TimerFires(c, t) \/ TaskAnswers(c, t)
        \/ Start(c)
    \/ \E t \in tasks : TaskLost(t)
    \/ \E a \in Actions : PassTime(a)
    \/ \E a \in Actions, s \in Stage : OutboxSend(a, s) \/ OutboxDrop(a, s)
    \/ Crash

PendingSpec == PendingInit /\ [][PendingNext]_vars

\* The loop runs what it has; Calls is the model's bound and the loop has
\* none, so a timer or an answer that finds all names taken gets its turn.
\* Turns end and people press what they like, and nobody has to crash or to
\* lose anything.
PendingFairness ==
    /\ \A c \in Calls : WF_vars(StepOf(c))
    /\ SF_vars(\E c \in Calls, t \in AnyTask : TimerFires(c, t) \/ TaskAnswers(c, t))
    /\ WF_vars(\E c \in Calls : Start(c))
    /\ WF_vars(\E a \in Actions, s \in Stage : OutboxSend(a, s))
    /\ WF_vars(\E a \in Actions : PassTime(a))
FairPendingSpec == PendingSpec /\ PendingFairness

-----------------------------------------------------------------------------
(* Properties. *)

Told(a, s) == chat[a][s] > 0 \/ <<a, s>> \in lost

\* Type correctness; and a lock is held by one sender at a time, which holds
\* because every sender takes it before it reads the row.
PendingTypeOK ==
    /\ row \in [Actions -> [status : {"none"} \cup Open \cup Verdict, by : Decider,
                            late : BOOLEAN, sent : BOOLEAN, column : SUBSET Stage]]
    /\ friends \in [Actions -> Nat]
    /\ chat \in [Actions -> [Stage -> Nat]] /\ outbox \in [Actions -> [Stage -> Nat]]
    /\ lost \subseteq Actions \X Stage
    /\ stuck \subseteq Actions \X Stage
    /\ dropped \subseteq [kind : {"expire", "speech"}, a : Actions, stage : Stage]
    /\ up \in BOOLEAN /\ faults \in 0 .. MaxFaults
    /\ \A c, d \in Calls, a \in Actions : Holds(c, a) /\ Holds(d, a) => c = d

\* A message of a stage reaches its reader once: a second copy takes a send
\* that failed into the outbox, or a crash or an exception between the send and
\* its record.
OneForm == \A a \in Actions, s \in Stage : chat[a][s] + outbox[a][s] <= 1 + faults

\* A relationship is written once, and only for an offer that the initiator
\* has sent and the addressee has accepted.
Consent == \A a \in Actions :
    /\ friends[a] <= 1
    /\ friends[a] = 1 => row[a].status = "accepted" /\ row[a].by = "addressee" /\ row[a].sent

\* A verdict is final, and so is who gave it.
VerdictFinal == [][\A a \in Actions : row[a].status \in Verdict =>
                        row'[a].status = row[a].status /\ row'[a].by = row[a].by]_vars

\* Nobody waits for ever: again and again everybody who is owed a message has
\* it, or it has been refused for good, or an exception has dropped it and it
\* waits for the next start.  A draft need not be sent, its turn may be broken
\* off: it goes with its term, unless the alarm was dropped.
EveryFormArrives ==
    []<>(\A a \in Actions : \A s \in Owed(row[a]) :
            \/ Told(a, s) \/ Speech(a, s) \in dropped
            \/ s = "draft" /\ Alarm(a) \in dropped)

\* Every form is decided, by somebody or by its term, unless an exception or a
\* broken link took the alarm of its status from a bot that has run ever since.
FormsClose == []<>(\A a \in Actions : row[a].status \notin Open \/ Alarm(a) \in dropped)
=============================================================================
