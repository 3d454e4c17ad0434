------------------------ MODULE PendingActions_proofs ------------------------
(* Proofs about the confirmation forms, for any forms, coroutines and faults: *)
(* the lock of a form, how often a stage is told, and what an acceptance is.  *)
EXTENDS PendingActions, TLAPS, FiniteSetTheorems, SequenceTheorems

-----------------------------------------------------------------------------
(* The steps of a call. *)

Ops == {"alarm", "enter", "move", "expire", "relate", "ask", "claim", "send", "column",
        "open", "drafts", "owed"}
Later == {"alarm", "enter", "expire", "ask", "drafts", "owed"}
Steps == [op : Ops, a : Actions, stage : Stage, to : {"none", "claimed", "pending"} \cup Verdict, by : Decider]
Orders == [kind : {"expire", "speech"}, a : Actions, stage : Stage]
Rows == [status : {"none"} \cup Open \cup Verdict, by : Decider, late : BOOLEAN, sent : BOOLEAN,
         column : SUBSET Stage]

\* A move leads to an open or a decided form, and the addressee accepts.
MoveOK(s) == s.op = "move" => /\ s.to \in {"pending"} \cup Verdict
                              /\ s.to = "accepted" => s.by = "addressee"

\* Only the first step of a call sends, records, relates or moves.
CallOK(l) == /\ l \in Seq(Steps)
             /\ l # <<>> => MoveOK(Head(l))
             /\ \A i \in 2 .. Len(l) : l[i].op \in Later

CallsOK == calls \in [Calls -> Seq(Steps)] /\ \A c \in Calls : CallOK(calls[c])

Typed ==
    /\ row \in [Actions -> Rows]
    /\ friends \in [Actions -> Nat]
    /\ chat \in [Actions -> [Stage -> Nat]] /\ outbox \in [Actions -> [Stage -> Nat]]
    /\ lost \subseteq Actions \X Stage
    /\ tasks \subseteq Orders /\ timers \subseteq Orders
    /\ up \in BOOLEAN /\ faults \in 0 .. MaxFaults
    /\ CallsOK

LEMMA StepTypes ==
  ASSUME NEW op \in Ops, NEW a \in Actions, NEW s \in Stage
  PROVE  /\ Step(op, a) \in Steps /\ Step(op, a).op = op /\ Step(op, a).a = a
         /\ For(op, a, s) \in Steps /\ For(op, a, s).op = op /\ For(op, a, s).a = a
         /\ For(op, a, s).stage = s
  <1>1. Step(op, a) = [op |-> op, a |-> a, stage |-> "draft", to |-> "none", by |-> "nobody"]
    BY DEF Step
  <1>2. For(op, a, s) = [op |-> op, a |-> a, stage |-> s, to |-> "none", by |-> "nobody"]
    BY <1>1 DEF For
  <1> QED
    BY <1>1, <1>2 DEF Steps, Stage, Decider

LEMMA MoveTypes ==
  ASSUME NEW a \in Actions, NEW to \in {"pending"} \cup Verdict, NEW by \in Decider
  PROVE  /\ Move(a, to, by) \in Steps /\ Move(a, to, by).op = "move" /\ Move(a, to, by).a = a
         /\ Move(a, to, by).to = to /\ Move(a, to, by).by = by
  <1>1. PICK s : s = [op |-> "move", a |-> a, stage |-> "draft", to |-> "none", by |-> "nobody"]
    OBVIOUS
  <1>2. Move(a, to, by) = [s EXCEPT !.to = to, !.by = by]
    BY <1>1 DEF Move, Step
  <1>3. s \in Steps /\ s.op = "move" /\ s.a = a
    BY <1>1 DEF Steps, Stage, Decider, Ops
  <1>4. PICK r : r = [s EXCEPT !.to = to, !.by = by]
    OBVIOUS
  <1>5. r \in Steps
    BY <1>3, <1>4 DEF Steps
  <1>6. r.op = "move" /\ r.a = a /\ r.to = to /\ r.by = by
    BY <1>3, <1>4 DEF Steps
  <1> QED
    BY <1>2, <1>4, <1>5, <1>6

-----------------------------------------------------------------------------
(* Sequences of steps. *)

LEMMA OneStep ==
  ASSUME NEW s \in Steps, MoveOK(s)
  PROVE  CallOK(<<s>>) /\ <<s>> # <<>> /\ Head(<<s>>) = s
  BY DEF CallOK

LEMMA NoStep == CallOK(<<>>)
  BY DEF CallOK

LEMMA Concat ==
  ASSUME NEW S, NEW s \in Seq(S), NEW t \in Seq(S), t # <<>>
  PROVE  /\ s \o Tail(t) \in Seq(S) /\ Len(s \o Tail(t)) = Len(s) + (Len(t) - 1)
         /\ Len(s) \in Nat /\ Len(t) \in Nat \ {0}
         /\ \A i \in 1 .. Len(s) : (s \o Tail(t))[i] = s[i]
         /\ \A i \in 1 .. Len(t) - 1 : (s \o Tail(t))[Len(s) + i] = t[i + 1]
  <1>1. /\ Tail(t) \in Seq(S) /\ Len(Tail(t)) = Len(t) - 1 /\ Len(t) \in Nat \ {0} /\ Len(s) \in Nat
        /\ \A i \in 1 .. Len(t) - 1 : Tail(t)[i] = t[i + 1]
    OBVIOUS
  <1>2. ASSUME NEW r \in Seq(S)
        PROVE  /\ s \o r \in Seq(S) /\ Len(s \o r) = Len(s) + Len(r)
               /\ \A i \in 1 .. Len(s) : (s \o r)[i] = s[i]
               /\ \A i \in 1 .. Len(r) : (s \o r)[Len(s) + i] = r[i]
    OBVIOUS
  <1>3. /\ s \o Tail(t) \in Seq(S) /\ Len(s \o Tail(t)) = Len(s) + Len(Tail(t))
        /\ \A i \in 1 .. Len(s) : (s \o Tail(t))[i] = s[i]
        /\ \A i \in 1 .. Len(Tail(t)) : (s \o Tail(t))[Len(s) + i] = Tail(t)[i]
    BY <1>1, <1>2, Zenon
  <1> QED
    BY <1>1, <1>3

\* What is left of a call and the steps put before it.
LEMMA Continues ==
  ASSUME NEW s, CallOK(s), NEW t, CallOK(t), t # <<>>
  PROVE  /\ CallOK(s \o Tail(t))
         /\ s # <<>> => s \o Tail(t) # <<>> /\ Head(s \o Tail(t)) = Head(s)
         /\ s = <<>> => s \o Tail(t) = <<>> \/ Head(s \o Tail(t)).op \in Later
  <1>0. s \in Seq(Steps) /\ t \in Seq(Steps)
    BY DEF CallOK
  <1>1. PICK r : r = s \o Tail(t)
    OBVIOUS
  <1>2. /\ r \in Seq(Steps) /\ Len(r) = Len(s) + (Len(t) - 1)
        /\ Len(s) \in Nat /\ Len(t) \in Nat \ {0}
        /\ \A i \in 1 .. Len(s) : r[i] = s[i]
        /\ \A i \in 1 .. Len(t) - 1 : r[Len(s) + i] = t[i + 1]
    BY <1>0, <1>1, Concat
  <1>3. ASSUME NEW i \in Len(s) + 1 .. Len(r)
        PROVE  r[i].op \in Later
    <2>1. PICK k \in 1 .. Len(t) - 1 : Len(s) + k = i
      <3>1. i - Len(s) \in 1 .. Len(t) - 1 /\ Len(s) + (i - Len(s)) = i
        BY <1>2
      <3> QED
        BY <3>1
    <2>2. r[i] = t[k + 1]
      BY <1>2, <2>1
    <2>3. k + 1 \in 2 .. Len(t)
      BY <1>2
    <2> QED
      BY <2>2, <2>3 DEF CallOK
  <1>4. s # <<>> => r # <<>> /\ Head(r) = Head(s)
    BY <1>0, <1>2
  <1>5. ASSUME s = <<>>, r # <<>> PROVE Head(r).op \in Later
    <2>1. Len(s) = 0 /\ Head(r) = r[1] /\ 1 \in 1 .. Len(r)
      BY <1>2, <1>5
    <2> QED
      BY <1>3, <2>1
  <1>6. r # <<>> => MoveOK(Head(r))
    BY <1>4, <1>5 DEF CallOK, MoveOK, Later
  <1>7. ASSUME NEW i \in 2 .. Len(r) PROVE r[i].op \in Later
    <2>1. CASE i <= Len(s)
      BY <1>2, <2>1 DEF CallOK
    <2>2. CASE ~(i <= Len(s))
      BY <1>2, <1>3, <2>2
    <2> QED
      BY <2>1, <2>2
  <1>8. CallOK(r)
    BY <1>2, <1>6, <1>7 DEF CallOK
  <1> QED
    BY <1>1, <1>4, <1>5, <1>8, Zenon

\* A call that goes on.
LEMMA ThenGoes ==
  ASSUME CallsOK, NEW c \in Calls, calls[c] # <<>>, NEW steps, CallOK(steps), Then(c, steps)
  PROVE  /\ CallsOK'
         /\ \A d \in Calls \ {c} : calls'[d] = calls[d]
         /\ steps # <<>> => calls'[c] # <<>> /\ Head(calls'[c]) = Head(steps)
         /\ steps = <<>> => calls'[c] = <<>> \/ Head(calls'[c]).op \in Later
  <1>1. calls \in [Calls -> Seq(Steps)] /\ CallOK(calls[c])
    BY DEF CallsOK
  <1>2. PICK old : old = calls[c]
    OBVIOUS
  <1>3. PICK r : r = steps \o Tail(old)
    OBVIOUS
  <1>4. calls' = [calls EXCEPT ![c] = r]
    BY <1>1, <1>2, <1>3 DEF Then
  <1>5. /\ CallOK(r)
        /\ steps # <<>> => r # <<>> /\ Head(r) = Head(steps)
        /\ steps = <<>> => r = <<>> \/ Head(r).op \in Later
    BY <1>1, <1>2, <1>3, Continues, Zenon
  <1>6. r \in Seq(Steps)
    BY <1>5 DEF CallOK
  <1>7. calls' \in [Calls -> Seq(Steps)] /\ calls'[c] = r /\ \A d \in Calls \ {c} : calls'[d] = calls[d]
    BY <1>1, <1>4, <1>6
  <1> QED
    BY <1>5, <1>7 DEF CallsOK

\* A call that begins.
LEMMA BeginGoes ==
  ASSUME CallsOK, NEW c \in Calls, NEW steps, CallOK(steps), Begin(c, steps)
  PROVE  /\ CallsOK'
         /\ calls[c] = <<>> /\ calls'[c] = steps
         /\ \A d \in Calls \ {c} : calls'[d] = calls[d]
  <1>1. steps \in Seq(Steps)
    BY DEF CallOK
  <1> QED
    BY <1>1 DEF CallsOK, Begin

\* One step for each of some forms.
LEMMA ForEachOK ==
  ASSUME NEW op \in {"expire", "enter"}, NEW as \in SUBSET Actions
  PROVE  /\ CallOK(ForEach(op, as))
         /\ ForEach(op, as) # <<>> => Head(ForEach(op, as)).op \in {"expire", "enter"}
  <1>1. IsFiniteSet(as)
    BY PendingAssumption, FS_Subset
  <1>2. Cardinality(as) \in Nat /\ ExistsBijection(1 .. Cardinality(as), as)
    BY <1>1, FS_CardinalityType
  <1>3. \E f \in [1 .. Cardinality(as) -> as] : IsInjective(f)
    BY <1>2, Zenon DEF ExistsBijection, Bijection, Injection
  <1>4. PICK f \in [1 .. Cardinality(as) -> as] : f = SetToSeq(as)
    BY <1>3, Zenon DEF SetToSeq
  <1>5. ASSUME NEW i \in 1 .. Cardinality(as)
        PROVE  Step(op, f[i]) \in Steps /\ Step(op, f[i]).op = op
    <2>1. PICK a \in Actions : a = f[i]
      BY <1>4
    <2>2. op \in Ops /\ "draft" \in Stage
      BY DEF Ops, Stage
    <2> QED
      BY <2>1, <2>2, StepTypes, Zenon
  <1>6. PICK n \in Nat : n = Cardinality(as)
    BY <1>2
  <1>7. PICK l : l = [i \in 1 .. n |-> Step(op, f[i])]
    OBVIOUS
  <1>8. l = ForEach(op, as)
    BY <1>4, <1>6, <1>7, Zenon DEF ForEach
  <1>9. /\ l \in Seq(Steps) /\ Len(l) = n
        /\ \A i \in 1 .. Len(l) : l[i].op = op
    <2>1. \A i \in 1 .. n : l[i] \in Steps /\ l[i].op = op
      BY <1>5, <1>6, <1>7
    <2>2. l \in [1 .. n -> Steps]
      BY <1>7, <2>1
    <2>3. l \in Seq(Steps) /\ Len(l) = n
      BY <2>2
    <2> QED
      BY <2>1, <2>3
  <1>10. l # <<>> => Head(l).op = op
    BY <1>9
  <1>11. CallOK(l)
    BY <1>9, <1>10 DEF CallOK, MoveOK, Later
  <1> QED
    BY <1>8, <1>10, <1>11

LEMMA HeadStep ==
  ASSUME CallsOK, NEW c \in Calls, calls[c] # <<>>
  PROVE  Head(calls[c]) \in Steps /\ MoveOK(Head(calls[c]))
  <1>1. calls[c] \in Seq(Steps) /\ MoveOK(Head(calls[c]))
    BY DEF CallsOK, CallOK
  <1> QED
    BY <1>1

-----------------------------------------------------------------------------
(* The invariant. *)

Doing(c, op, a, s) == /\ calls[c] # <<>>
                      /\ Head(calls[c]).op = op /\ Head(calls[c]).a = a /\ Head(calls[c]).stage = s
Relating(c, a) == calls[c] # <<>> /\ Head(calls[c]).op = "relate" /\ Head(calls[c]).a = a
Recorded(a, s) == IF s \in row[a].column \/ \E c \in Calls : Doing(c, "column", a, s) THEN 1 ELSE 0

LockOnce == \A c, d \in Calls, a \in Actions : Holds(c, a) /\ Holds(d, a) => c = d

\* Every copy of a message but the recorded one has cost a fault, and nobody
\* sends what is recorded.
FormInv == \A a \in Actions, s \in Stage :
    /\ chat[a][s] + outbox[a][s] <= faults + Recorded(a, s)
    /\ \A c \in Calls : Doing(c, "send", a, s) => s \notin row[a].column

Agreed(a) == row[a].status = "accepted" /\ row[a].by = "addressee" /\ row[a].sent

\* One call writes the relationship of an accepted form, and then it is written.
FriendInv == \A a \in Actions :
    /\ friends[a] <= 1
    /\ friends[a] = 1 => Agreed(a)
    /\ \A c \in Calls : Relating(c, a) => friends[a] = 0 /\ Agreed(a)
    /\ \A c, d \in Calls : Relating(c, a) /\ Relating(d, a) => c = d
    /\ row[a].status = "pending" => row[a].sent

Inv == Typed /\ LockOnce /\ FormInv /\ FriendInv

\* Who holds a lock, records or relates.
Loud(c) == calls[c] # <<>> /\ Head(calls[c]).op \in {"send", "column", "relate"}

\* A row that changes, but neither its column nor to or from an acceptance.
RowStays(a) ==
    /\ row'[a].column = row[a].column
    /\ \/ row'[a] = row[a]
       \/ /\ row[a].status # "accepted" /\ row'[a].status # "accepted"
          /\ row'[a].status = "pending" => row'[a].sent

LEMMA QuietStep ==
  ASSUME Inv, Typed', UNCHANGED <<friends, chat, outbox, faults>>,
         \A c \in Calls : calls'[c] = calls[c] \/ (~Loud(c) /\ ~Loud(c)'),
         \A a \in Actions : RowStays(a)
  PROVE  Inv'
  <1>1. ASSUME NEW c \in Calls
        PROVE  /\ \A a \in Actions : Holds(c, a)' <=> Holds(c, a)
               /\ \A a \in Actions : Relating(c, a)' <=> Relating(c, a)
               /\ \A a \in Actions, s \in Stage : /\ Doing(c, "send", a, s)' <=> Doing(c, "send", a, s)
                                                  /\ Doing(c, "column", a, s)' <=> Doing(c, "column", a, s)
    BY DEF Loud, Holds, Relating, Doing
  <1>2. LockOnce'
    BY <1>1 DEF Inv, LockOnce
  <1>3. FormInv'
    <2> SUFFICES ASSUME NEW a \in Actions, NEW s \in Stage
                 PROVE  /\ chat'[a][s] + outbox'[a][s] <= faults' + Recorded(a, s)'
                        /\ \A c \in Calls : Doing(c, "send", a, s)' => s \notin row'[a].column
      BY DEF FormInv
    <2>1. Recorded(a, s)' = Recorded(a, s)
      BY <1>1 DEF Recorded, RowStays
    <2> QED
      BY <1>1, <2>1 DEF Inv, FormInv, RowStays
  <1>4. FriendInv'
    <2> SUFFICES ASSUME NEW a \in Actions
                 PROVE  /\ friends'[a] <= 1
                        /\ friends'[a] = 1 => Agreed(a)'
                        /\ \A c \in Calls : Relating(c, a)' => friends'[a] = 0 /\ Agreed(a)'
                        /\ \A c, d \in Calls : Relating(c, a)' /\ Relating(d, a)' => c = d
                        /\ row'[a].status = "pending" => row'[a].sent
      BY DEF FriendInv
    <2>1. Agreed(a) => Agreed(a)'
      BY DEF RowStays, Agreed
    <2>2. row'[a].status = "pending" => row'[a].sent
      BY DEF RowStays, Inv, FriendInv
    <2> QED
      BY <1>1, <2>1, <2>2 DEF Inv, FriendInv
  <1> QED
    BY <1>2, <1>3, <1>4 DEF Inv

\* A quiet call goes on quietly.
LEMMA QuietThen ==
  ASSUME CallsOK, NEW c \in Calls, calls[c] # <<>>, ~Loud(c), NEW steps, CallOK(steps), Then(c, steps),
         steps # <<>> => Head(steps).op \notin {"send", "column", "relate"}
  PROVE  /\ CallsOK'
         /\ \A d \in Calls : calls'[d] = calls[d] \/ (~Loud(d) /\ ~Loud(d)')
  <1>1. /\ CallsOK'
        /\ \A d \in Calls \ {c} : calls'[d] = calls[d]
        /\ steps # <<>> => calls'[c] # <<>> /\ Head(calls'[c]) = Head(steps)
        /\ steps = <<>> => calls'[c] = <<>> \/ Head(calls'[c]).op \in Later
    BY ThenGoes
  <1>2. ~Loud(c)'
    BY <1>1 DEF Loud, Later
  <1> QED
    BY <1>1, <1>2

LEMMA QuietBegin ==
  ASSUME CallsOK, NEW c \in Calls, NEW steps, CallOK(steps), Begin(c, steps),
         steps # <<>> => Head(steps).op \notin {"send", "column", "relate"}
  PROVE  /\ CallsOK'
         /\ \A d \in Calls : calls'[d] = calls[d] \/ (~Loud(d) /\ ~Loud(d)')
  <1>1. /\ CallsOK'
        /\ calls[c] = <<>> /\ calls'[c] = steps
        /\ \A d \in Calls \ {c} : calls'[d] = calls[d]
    BY BeginGoes
  <1> QED
    BY <1>1 DEF Loud

LEMMA QuietOne ==
  ASSUME NEW op \in Ops \ {"send", "column", "relate", "move"}, NEW a \in Actions, NEW s \in Stage
  PROVE  /\ CallOK(<<Step(op, a)>>) /\ Head(<<Step(op, a)>>).op \notin {"send", "column", "relate"}
         /\ CallOK(<<For(op, a, s)>>) /\ Head(<<For(op, a, s)>>).op \notin {"send", "column", "relate"}
  <1>1. /\ Step(op, a) \in Steps /\ Step(op, a).op = op
        /\ For(op, a, s) \in Steps /\ For(op, a, s).op = op
    BY StepTypes
  <1>2. ASSUME NEW x \in Steps, x.op = op
        PROVE  CallOK(<<x>>) /\ Head(<<x>>).op \notin {"send", "column", "relate"}
    BY <1>2, OneStep DEF MoveOK
  <1> QED
    BY <1>1, <1>2, Zenon

-----------------------------------------------------------------------------
(* The steps that neither hold a lock nor decide. *)

LEMMA CreateKeeps ==
  ASSUME Inv, NEW c \in Calls, NEW a \in Actions, Create(c, a)
  PROVE  Inv'
  <1>1. Typed /\ CallsOK /\ row \in [Actions -> Rows] /\ row[a] \in Rows
    BY DEF Inv, Typed
  <1>2. Begin(c, <<Step("alarm", a)>>) /\ UNCHANGED <<friends, telegram, tasks, timers, up, faults>>
    BY DEF Create
  <1>3. PICK l : l = <<Step("alarm", a)>>
    OBVIOUS
  <1>4. CallOK(l) /\ Head(l).op \notin {"send", "column", "relate"}
    BY <1>3, QuietOne DEF Ops, Stage
  <1>5. CallsOK' /\ \A d \in Calls : calls'[d] = calls[d] \/ (~Loud(d) /\ ~Loud(d)')
    BY <1>1, <1>2, <1>3, <1>4, QuietBegin, Zenon
  <1>6. PICK r : r = [row[a] EXCEPT !.status = "draft"]
    OBVIOUS
  <1>7. r \in Rows /\ r.status = "draft" /\ r.column = row[a].column
    BY <1>1, <1>6 DEF Rows, Open
  <1>8. row' = [row EXCEPT ![a] = r] /\ row[a].status = "none"
    BY <1>1, <1>6 DEF Create
  <1>9. row' \in [Actions -> Rows] /\ \A b \in Actions : RowStays(b)
    BY <1>1, <1>7, <1>8 DEF RowStays
  <1>10. Typed'
    BY <1>1, <1>2, <1>5, <1>9 DEF Typed, telegram
  <1> QED
    BY <1>2, <1>5, <1>9, <1>10, QuietStep DEF telegram

LEMMA PassTimeKeeps ==
  ASSUME Inv, NEW a \in Actions, PassTime(a)
  PROVE  Inv'
  <1>1. Typed /\ row \in [Actions -> Rows] /\ row[a] \in Rows
    BY DEF Inv, Typed
  <1>2. UNCHANGED <<friends, telegram, tasks, timers, calls, up, faults>>
    BY DEF PassTime
  <1>3. PICK r : r = [row[a] EXCEPT !.late = TRUE]
    OBVIOUS
  <1>4. r \in Rows
    BY <1>1, <1>3 DEF Rows
  <1>5. r.status = row[a].status /\ r.column = row[a].column /\ r.sent = row[a].sent
    BY <1>1, <1>3 DEF Rows
  <1>6. row' = [row EXCEPT ![a] = r] /\ row[a].status \in {"draft", "pending"}
    BY <1>1, <1>3 DEF PassTime, Open
  <1>7. row' \in [Actions -> Rows] /\ \A b \in Actions : RowStays(b)
    BY <1>1, <1>4, <1>5, <1>6 DEF RowStays, Inv, FriendInv
  <1>8. Typed'
    BY <1>1, <1>2, <1>7 DEF Typed, telegram, CallsOK
  <1> QED
    BY <1>2, <1>7, <1>8, QuietStep DEF telegram

\* A step that only begins or goes on with a call.
LEMMA OnlyCalls ==
  ASSUME Inv, UNCHANGED <<row, friends, telegram, faults>>, up' \in BOOLEAN,
         tasks' \subseteq Orders, timers' \subseteq Orders,
         CallsOK', \A d \in Calls : calls'[d] = calls[d] \/ (~Loud(d) /\ ~Loud(d)')
  PROVE  Inv'
  <1>1. Typed'
    BY DEF Inv, Typed, telegram
  <1>2. \A a \in Actions : RowStays(a)
    BY DEF RowStays
  <1> QED
    BY <1>1, <1>2, QuietStep DEF telegram

LEMMA OrderTypes ==
  ASSUME NEW a \in Actions, NEW s \in Stage
  PROVE  Alarm(a) \in Orders /\ Speech(a, s) \in Orders
  BY DEF Alarm, Speech, Orders, Stage

LEMMA CloseTurnKeeps ==
  ASSUME Inv, NEW c \in Calls, NEW a \in Actions, CloseTurn(c, a)
  PROVE  Inv'
  <1>1. CallsOK /\ tasks \subseteq Orders /\ timers \subseteq Orders /\ up \in BOOLEAN
    BY DEF Inv, Typed
  <1>2. PICK l : l = <<For("enter", a, "draft")>>
    OBVIOUS
  <1>3. CallOK(l) /\ Head(l).op \notin {"send", "column", "relate"}
    BY <1>2, QuietOne DEF Ops, Stage
  <1>4. Begin(c, l) /\ UNCHANGED <<row, friends, telegram, tasks, timers, up, faults>>
    BY <1>2 DEF CloseTurn
  <1>5. CallsOK' /\ \A d \in Calls : calls'[d] = calls[d] \/ (~Loud(d) /\ ~Loud(d)')
    BY <1>1, <1>3, <1>4, QuietBegin
  <1> QED
    BY <1>1, <1>4, <1>5, OnlyCalls

\* What a click asks for.
LEMMA ClickAsks ==
  ASSUME NEW c \in Calls, NEW a \in Actions, NEW b \in Button, Click(c, a, b)
  PROVE  \E l : /\ CallOK(l) /\ (l # <<>> => Head(l).op \notin {"send", "column", "relate"})
                /\ Begin(c, l)
  <1>1. PICK asked \in {IF b = "submit" THEN "pending" ELSE "accepted", "cancelled"} :
          Begin(c, CASE row[a].late -> <<Step("expire", a)>>
                  [] ~row[a].late /\ b = "cancel" -> <<Move(a, "cancelled", "initiator")>>
                  [] ~row[a].late /\ b = "reject" -> <<Move(a, "rejected", "addressee")>>
                  [] OTHER -> <<Move(a, asked, Presser(b))>>)
    BY Zenon DEF Click
  <1>2. ASSUME NEW to \in {"pending"} \cup Verdict, NEW by \in Decider, to = "accepted" => by = "addressee"
        PROVE  CallOK(<<Move(a, to, by)>>) /\ Head(<<Move(a, to, by)>>).op \notin {"send", "column", "relate"}
    <2>1. PICK x \in Steps : x = Move(a, to, by) /\ x.op = "move" /\ x.to = to /\ x.by = by
      BY MoveTypes
    <2>2. CallOK(<<x>>) /\ Head(<<x>>) = x
      BY <1>2, <2>1, OneStep DEF MoveOK
    <2> QED
      BY <2>1, <2>2
  <1>3. CASE row[a].late
    <2>1. Begin(c, <<Step("expire", a)>>)
      BY <1>1, <1>3, Zenon
    <2>2. CallOK(<<Step("expire", a)>>) /\ Head(<<Step("expire", a)>>).op \notin {"send", "column", "relate"}
      BY QuietOne DEF Ops, Stage
    <2> QED
      BY <2>1, <2>2, Zenon
  <1>4. CASE ~row[a].late /\ b = "cancel"
    <2>1. Begin(c, <<Move(a, "cancelled", "initiator")>>)
      BY <1>1, <1>4
    <2>2. "cancelled" \in {"pending"} \cup Verdict /\ "initiator" \in Decider
      BY DEF Verdict, Decider
    <2> QED
      BY <1>2, <2>1, <2>2
  <1>5. CASE ~row[a].late /\ b = "reject"
    <2>1. Begin(c, <<Move(a, "rejected", "addressee")>>)
      BY <1>1, <1>5
    <2>2. "rejected" \in {"pending"} \cup Verdict /\ "addressee" \in Decider
      BY DEF Verdict, Decider
    <2> QED
      BY <1>2, <2>1, <2>2
  <1>6. CASE ~row[a].late /\ b # "cancel" /\ b # "reject"
    <2>1. Begin(c, <<Move(a, asked, Presser(b))>>)
      BY <1>1, <1>6
    <2>2. PICK by \in Decider : by = Presser(b)
      BY DEF Presser, Decider
    <2>3. asked \in {"pending"} \cup Verdict /\ (asked = "accepted" => by = "addressee")
      BY <1>6, <2>2 DEF Verdict, Presser, Button
    <2> QED
      BY <1>2, <2>1, <2>2, <2>3
  <1> QED
    BY <1>3, <1>4, <1>5, <1>6

LEMMA ClickKeeps ==
  ASSUME Inv, NEW c \in Calls, NEW a \in Actions, NEW b \in Button, Click(c, a, b)
  PROVE  Inv'
  <1>1. CallsOK /\ tasks \subseteq Orders /\ timers \subseteq Orders /\ up \in BOOLEAN
    BY DEF Inv, Typed
  <1>2. PICK l : /\ CallOK(l) /\ (l # <<>> => Head(l).op \notin {"send", "column", "relate"})
                 /\ Begin(c, l)
    BY ClickAsks
  <1>3. UNCHANGED <<row, friends, telegram, tasks, timers, up, faults>>
    BY DEF Click
  <1>4. CallsOK' /\ \A d \in Calls : calls'[d] = calls[d] \/ (~Loud(d) /\ ~Loud(d)')
    BY <1>1, <1>2, QuietBegin
  <1> QED
    BY <1>1, <1>3, <1>4, OnlyCalls

LEMMA ExpireKeeps ==
  ASSUME Inv, NEW c \in Calls, Expire(c)
  PROVE  Inv'
  <1>1. CallsOK /\ tasks \subseteq Orders /\ timers \subseteq Orders /\ up \in BOOLEAN
    BY DEF Inv, Typed
  <1>2. calls[c] # <<>> /\ ~Loud(c) /\ UNCHANGED <<row, friends, telegram, tasks, timers, up, faults>>
    BY DEF Expire, At, Loud
  <1>3. PICK a \in Actions : a = Head(calls[c]).a
    BY <1>1, <1>2, HeadStep DEF Steps
  <1>4. PICK l : l = IF row[a].status \in Open /\ row[a].late THEN <<Move(a, "expired", "nobody")>> ELSE <<>>
    OBVIOUS
  <1>5. Then(c, l)
    BY <1>3, <1>4 DEF Expire
  <1>6. CallOK(l) /\ (l # <<>> => Head(l).op \notin {"send", "column", "relate"})
    <2>1. PICK x \in Steps : x = Move(a, "expired", "nobody") /\ x.op = "move" /\ x.to = "expired"
      BY MoveTypes DEF Verdict, Decider
    <2>2. CallOK(<<x>>) /\ Head(<<x>>) = x
      BY <2>1, OneStep DEF MoveOK, Verdict
    <2> QED
      BY <1>4, <2>1, <2>2, NoStep
  <1>7. CallsOK' /\ \A d \in Calls : calls'[d] = calls[d] \/ (~Loud(d) /\ ~Loud(d)')
    BY <1>1, <1>2, <1>5, <1>6, QuietThen
  <1> QED
    BY <1>1, <1>2, <1>7, OnlyCalls

LEMMA ScheduleKeeps ==
  ASSUME Inv, NEW c \in Calls, Schedule(c)
  PROVE  Inv'
  <1>1. CallsOK /\ tasks \subseteq Orders /\ timers \subseteq Orders /\ up \in BOOLEAN
    BY DEF Inv, Typed
  <1>2. calls[c] # <<>> /\ ~Loud(c) /\ UNCHANGED <<row, friends, telegram, up, faults>> /\ Then(c, <<>>)
    BY DEF Schedule, At, Loud
  <1>3. PICK a \in Actions : a = Head(calls[c]).a
    BY <1>1, <1>2, HeadStep DEF Steps
  <1>4. Alarm(a) \in Orders
    BY OrderTypes DEF Stage
  <1>5. tasks' \subseteq Orders /\ timers' \subseteq Orders
    BY <1>1, <1>3, <1>4 DEF Schedule
  <1>6. CallsOK' /\ \A d \in Calls : calls'[d] = calls[d] \/ (~Loud(d) /\ ~Loud(d)')
    BY <1>1, <1>2, NoStep, QuietThen
  <1> QED
    BY <1>1, <1>2, <1>5, <1>6, OnlyCalls

LEMMA AskKeeps ==
  ASSUME Inv, NEW c \in Calls, Ask(c)
  PROVE  Inv'
  <1>1. CallsOK /\ tasks \subseteq Orders /\ timers \subseteq Orders /\ up \in BOOLEAN
    BY DEF Inv, Typed
  <1>2. calls[c] # <<>> /\ ~Loud(c) /\ UNCHANGED <<row, friends, telegram, up, faults>>
    BY DEF Ask, At, Loud
  <1>3. PICK a \in Actions, s \in Stage : a = Head(calls[c]).a /\ s = Head(calls[c]).stage
    BY <1>1, <1>2, HeadStep DEF Steps
  <1>4. Speech(a, s) \in Orders
    BY OrderTypes
  <1>5. tasks' \subseteq Orders /\ timers' \subseteq Orders
    BY <1>1, <1>3, <1>4 DEF Ask
  <1>6. PICK l : l = <<For("enter", a, s)>>
    OBVIOUS
  <1>7. Then(c, <<>>) \/ Then(c, l)
    BY <1>3, <1>6 DEF Ask
  <1>8. CallOK(l) /\ Head(l).op \notin {"send", "column", "relate"}
    BY <1>6, QuietOne DEF Ops
  <1>9. CallsOK' /\ \A d \in Calls : calls'[d] = calls[d] \/ (~Loud(d) /\ ~Loud(d)')
    BY <1>1, <1>2, <1>7, <1>8, NoStep, QuietThen
  <1> QED
    BY <1>1, <1>2, <1>5, <1>9, OnlyCalls

LEMMA OrdersKeep ==
  ASSUME Inv, NEW c \in Calls, NEW t \in AnyTask, TimerFires(c, t) \/ TaskAnswers(c, t)
  PROVE  Inv'
  <1>1. CallsOK /\ tasks \subseteq Orders /\ timers \subseteq Orders /\ up \in BOOLEAN
    BY DEF Inv, Typed
  <1>2. t \in Orders
    BY <1>1 DEF AnyTask
  <1>3. PICK a \in Actions, s \in Stage : a = t.a /\ s = t.stage
    BY <1>2 DEF Orders
  <1>4. /\ UNCHANGED <<row, friends, telegram, up, faults>>
        /\ tasks' \subseteq Orders /\ timers' \subseteq Orders
    BY <1>1 DEF TimerFires, TaskAnswers
  <1>5. ASSUME NEW x \in {<<Step("expire", a)>>, <<For("enter", a, s)>>, <<For("claim", a, s)>>}
        PROVE  CallOK(x) /\ Head(x).op \notin {"send", "column", "relate"}
    <2>1. "expire" \in Ops \ {"send", "column", "relate", "move"} /\ "enter" \in Ops \ {"send", "column", "relate", "move"}
            /\ "claim" \in Ops \ {"send", "column", "relate", "move"}
      BY DEF Ops
    <2> QED
      BY <1>5, <2>1, QuietOne, Zenon
  <1>6. \/ UNCHANGED calls
        \/ \E x \in {<<Step("expire", a)>>, <<For("enter", a, s)>>, <<For("claim", a, s)>>} : Begin(c, x)
    BY <1>3 DEF TimerFires, TaskAnswers
  <1>7. CASE UNCHANGED calls
    <2>1. CallsOK'
      BY <1>1, <1>7 DEF CallsOK
    <2> QED
      BY <1>1, <1>4, <1>7, <2>1, OnlyCalls
  <1>8. ASSUME NEW x \in {<<Step("expire", a)>>, <<For("enter", a, s)>>, <<For("claim", a, s)>>}, Begin(c, x)
        PROVE  Inv'
    <2>1. CallOK(x) /\ Head(x).op \notin {"send", "column", "relate"}
      BY <1>5
    <2>2. CallsOK' /\ \A d \in Calls : calls'[d] = calls[d] \/ (~Loud(d) /\ ~Loud(d)')
      BY <1>1, <1>8, <2>1, QuietBegin
    <2> QED
      BY <1>1, <1>4, <2>2, OnlyCalls
  <1> QED
    BY <1>6, <1>7, <1>8

LEMMA TaskLostKeeps ==
  ASSUME Inv, NEW t, TaskLost(t)
  PROVE  Inv'
  <1>1. /\ UNCHANGED <<row, friends, telegram, timers, calls, up, faults>>
        /\ tasks' \subseteq tasks
    BY DEF TaskLost
  <1>2. CallsOK' /\ up' \in BOOLEAN /\ tasks' \subseteq Orders /\ timers' \subseteq Orders
    BY <1>1 DEF Inv, Typed, CallsOK
  <1> QED
    BY <1>1, <1>2, OnlyCalls

\* A speech is claimed, or a form is let in and not wanted any more.
LEMMA ClaimKeeps ==
  ASSUME Inv, NEW c \in Calls, Claim(c)
  PROVE  Inv'
  <1>1. CallsOK /\ tasks \subseteq Orders /\ timers \subseteq Orders /\ up \in BOOLEAN
    BY DEF Inv, Typed
  <1>2. calls[c] # <<>> /\ ~Loud(c) /\ UNCHANGED <<row, friends, telegram, tasks, timers, up, faults>>
    BY DEF Claim, At, Loud
  <1>3. PICK s \in Steps : s = Head(calls[c])
    BY <1>1, <1>2, HeadStep
  <1>4. PICK x : x = [s EXCEPT !.op = "enter", !.to = "claimed"]
    OBVIOUS
  <1>5. x \in Steps
    BY <1>4 DEF Steps, Ops
  <1>6. x.op = "enter"
    BY <1>4 DEF Steps
  <1>7. Then(c, <<>>) \/ Then(c, <<x>>)
    BY <1>3, <1>4 DEF Claim
  <1>8. CallOK(<<x>>) /\ Head(<<x>>) = x
    BY <1>5, <1>6, OneStep DEF MoveOK
  <1>9. CallsOK' /\ \A d \in Calls : calls'[d] = calls[d] \/ (~Loud(d) /\ ~Loud(d)')
    <2>1. CASE Then(c, <<>>)
      BY <1>1, <1>2, <2>1, NoStep, QuietThen
    <2>2. CASE Then(c, <<x>>)
      <3>1. PICK l : l = <<x>>
        OBVIOUS
      <3> QED
        BY <1>1, <1>2, <1>6, <1>8, <2>2, <3>1, QuietThen
    <2> QED
      BY <1>7, <2>1, <2>2
  <1> QED
    BY <1>1, <1>2, <1>9, OnlyCalls

LEMMA RecoverKeeps ==
  ASSUME Inv, NEW c \in Calls, RecoverOpen(c) \/ RecoverDrafts(c) \/ RecoverOwed(c)
  PROVE  Inv'
  <1>1. CallsOK /\ tasks \subseteq Orders /\ timers \subseteq Orders /\ up \in BOOLEAN
    BY DEF Inv, Typed
  <1>2. calls[c] # <<>> /\ ~Loud(c) /\ UNCHANGED <<row, friends, telegram, tasks, up, faults>>
    BY DEF RecoverOpen, RecoverDrafts, RecoverOwed, At, Loud
  <1>3. timers' \subseteq Orders
    BY <1>1, OrderTypes DEF RecoverOpen, RecoverDrafts, RecoverOwed, Stage
  <1>4. \E l : /\ CallOK(l) /\ (l # <<>> => Head(l).op \notin {"send", "column", "relate"})
               /\ Then(c, l)
    <2>1. ASSUME NEW op \in {"expire", "enter"}, NEW as \in SUBSET Actions, Then(c, ForEach(op, as))
          PROVE  \E l : /\ CallOK(l) /\ (l # <<>> => Head(l).op \notin {"send", "column", "relate"})
                        /\ Then(c, l)
      <3>1. PICK l : l = ForEach(op, as)
        OBVIOUS
      <3>2. CallOK(l) /\ (l # <<>> => Head(l).op \in {"expire", "enter"}) /\ Then(c, l)
        BY <2>1, <3>1, ForEachOK
      <3> QED
        BY <3>2
    <2>2. CASE RecoverOpen(c)
      <3>1. PICK as \in SUBSET Actions : as = {a \in {b \in Actions : row[b].status \in Open} : row[a].late}
        OBVIOUS
      <3>2. Then(c, ForEach("expire", as))
        BY <2>2, <3>1 DEF RecoverOpen
      <3> QED
        BY <2>1, <3>2
    <2>3. CASE RecoverDrafts(c)
      <3>1. PICK as \in SUBSET Actions :
               as = {a \in Actions : row[a].status = "draft" /\ "draft" \notin row[a].column}
        OBVIOUS
      <3>2. Then(c, ForEach("enter", as))
        BY <2>3, <3>1 DEF RecoverDrafts
      <3> QED
        BY <2>1, <3>2
    <2>4. CASE RecoverOwed(c)
      BY <2>4, NoStep DEF RecoverOwed
    <2> QED
      BY <2>2, <2>3, <2>4
  <1>5. CallsOK' /\ \A d \in Calls : calls'[d] = calls[d] \/ (~Loud(d) /\ ~Loud(d)')
    BY <1>1, <1>2, <1>4, QuietThen
  <1> QED
    BY <1>1, <1>2, <1>3, <1>5, OnlyCalls

-----------------------------------------------------------------------------
(* What a step leaves of the invariant that is not about it. *)

LEMMA LocksSame ==
  ASSUME LockOnce, \A c \in Calls, a \in Actions : Holds(c, a)' => Holds(c, a)
  PROVE  LockOnce'
  BY DEF LockOnce

LEMMA FormsSame ==
  ASSUME FormInv, UNCHANGED <<chat, outbox, faults>>,
         \A a \in Actions : row'[a].column = row[a].column,
         \A c \in Calls, a \in Actions, s \in Stage :
            /\ Doing(c, "send", a, s)' => Doing(c, "send", a, s)
            /\ Doing(c, "column", a, s)' <=> Doing(c, "column", a, s)
  PROVE  FormInv'
  <1> SUFFICES ASSUME NEW a \in Actions, NEW s \in Stage
               PROVE  /\ chat'[a][s] + outbox'[a][s] <= faults' + Recorded(a, s)'
                      /\ \A c \in Calls : Doing(c, "send", a, s)' => s \notin row'[a].column
    BY DEF FormInv
  <1>1. Recorded(a, s)' = Recorded(a, s)
    BY DEF Recorded
  <1> QED
    BY <1>1 DEF FormInv

LEMMA FriendsSame ==
  ASSUME FriendInv, UNCHANGED friends,
         \A c \in Calls, a \in Actions : Relating(c, a)' => Relating(c, a),
         \A a \in Actions : /\ row'[a].status = row[a].status
                            /\ row'[a].by = row[a].by /\ row'[a].sent = row[a].sent
  PROVE  FriendInv'
  BY DEF FriendInv, Agreed

\* The move of a row.
LEMMA FromOpen ==
  /\ \A to \in {"pending"} \cup Verdict : FromStatus(to) \subseteq Open
  /\ FromStatus("accepted") = {"pending"}
  <1>1. FromStatus("accepted") = {"pending"}
    BY DEF FromStatus
  <1>2. FromStatus("pending") = {"draft"}
    BY DEF FromStatus
  <1>3. ASSUME NEW to, to # "pending", to # "accepted" PROVE FromStatus(to) = Open
    BY <1>3, Zenon DEF FromStatus
  <1> QED
    BY <1>1, <1>2, <1>3 DEF Open

LEMMA OwedVerdict ==
  ASSUME NEW to \in Verdict, NEW by
  PROVE  Owed([status |-> to, by |-> by]) \subseteq Stage
  <1>1. PICK r : r = [status |-> to, by |-> by]
    OBVIOUS
  <1>2. r.status = to /\ r.status # "draft" /\ r.status # "pending" /\ r.status # "none"
    BY <1>1 DEF Verdict
  <1>3. Owed(r) = {s \in Notices : IF s = "outcome" THEN NeedsNotice(r) ELSE r.status = "accepted"}
    BY <1>2, Zenon DEF Owed
  <1>4. Owed(r) \subseteq Stage
    BY <1>3 DEF Stage
  <1> QED
    BY <1>1, <1>4

\* Orders of speeches one after another, and after the writing of a relationship.
Asks(l) == l \in Seq(Steps) /\ \A i \in 1 .. Len(l) : l[i].op = "ask"

LEMMA AsksJoin ==
  ASSUME NEW o, Asks(o), NEW w, Asks(w), NEW l, l = o \o w
  PROVE  Asks(l)
  <1>1. /\ l \in Seq(Steps) /\ Len(l) = Len(o) + Len(w) /\ Len(o) \in Nat /\ Len(w) \in Nat
        /\ \A i \in 1 .. Len(o) : l[i] = o[i]
        /\ \A i \in 1 .. Len(w) : l[Len(o) + i] = w[i]
    BY DEF Asks
  <1>2. ASSUME NEW i \in 1 .. Len(l) PROVE l[i].op = "ask"
    <2>1. CASE i <= Len(o)
      BY <1>1, <2>1 DEF Asks
    <2>2. CASE ~(i <= Len(o))
      <3>1. PICK k \in 1 .. Len(w) : Len(o) + k = i
        <4>1. i - Len(o) \in 1 .. Len(w) /\ Len(o) + (i - Len(o)) = i
          BY <1>1, <2>2
        <4> QED
          BY <4>1
      <3> QED
        BY <1>1, <3>1 DEF Asks
    <2> QED
      BY <2>1, <2>2
  <1> QED
    BY <1>1, <1>2 DEF Asks

LEMMA RelateJoins ==
  ASSUME NEW x \in Steps, NEW l, Asks(l), NEW r, r = <<x>> \o l
  PROVE  r \in Seq(Steps) /\ r # <<>> /\ Head(r) = x /\ \A i \in 2 .. Len(r) : r[i].op = "ask"
  <1>1. /\ r \in Seq(Steps) /\ Len(r) = 1 + Len(l) /\ Len(l) \in Nat /\ r[1] = x
        /\ \A i \in 1 .. Len(l) : r[1 + i] = l[i]
    BY DEF Asks
  <1>2. ASSUME NEW i \in 2 .. Len(r) PROVE r[i].op = "ask"
    <2>1. PICK k \in 1 .. Len(l) : 1 + k = i
      <3>1. i - 1 \in 1 .. Len(l) /\ 1 + (i - 1) = i
        BY <1>1
      <3> QED
        BY <3>1
    <2> QED
      BY <1>1, <2>1 DEF Asks
  <1>3. r # <<>> /\ Head(r) = x
    BY <1>1
  <1> QED
    BY <1>1, <1>2, <1>3

\* What follows on a move: an acceptance is written first, all else waits.
AfterOK(l, a, to) ==
    /\ CallOK(l)
    /\ to # "accepted" /\ l # <<>> => Head(l).op = "ask"
    /\ to = "accepted" => l # <<>> /\ Head(l).op = "relate" /\ Head(l).a = a

LEMMA AfterMoveOK ==
  ASSUME NEW a \in Actions, NEW to \in {"pending"} \cup Verdict, NEW by \in Decider
  PROVE  AfterOK(AfterMove(a, to, by), a, to)
  <1>1. CASE to = "pending"
    <2>1. PICK x \in Steps, y \in Steps : /\ x = For("ask", a, "offer") /\ x.op = "ask"
                                          /\ y = Step("alarm", a) /\ y.op = "alarm"
      BY StepTypes DEF Ops, Stage
    <2>2. PICK l : l = <<x, y>>
      OBVIOUS
    <2>3. AfterMove(a, to, by) = l
      BY <1>1, <2>1, <2>2 DEF AfterMove
    <2>4. l \in Seq(Steps) /\ l # <<>> /\ Head(l) = x /\ Len(l) = 2 /\ l[2] = y
      BY <2>2
    <2>5. CallOK(l)
      BY <2>1, <2>4 DEF CallOK, MoveOK, Later
    <2>6. AfterOK(l, a, to)
      BY <1>1, <2>1, <2>4, <2>5 DEF AfterOK
    <2> QED
      BY <2>3, <2>6
  <1>2. CASE to # "pending"
    <2>0. to \in Verdict
      BY <1>2
    <2> DEFINE ask(s) == IF s \in Owed([status |-> to, by |-> by]) THEN <<For("ask", a, s)>> ELSE <<>>
    <2>1. ASSUME NEW s \in {"outcome", "welcome"} PROVE Asks(ask(s))
      <3>1. CASE s \in Owed([status |-> to, by |-> by])
        <4>1. s \in Stage
          BY <2>0, <3>1, OwedVerdict
        <4>2. PICK x \in Steps : x = For("ask", a, s) /\ x.op = "ask"
          BY <4>1, StepTypes DEF Ops
        <4>3. Asks(<<x>>)
          BY <4>2 DEF Asks
        <4> QED
          BY <3>1, <4>2, <4>3
      <3>2. CASE s \notin Owed([status |-> to, by |-> by])
        <4>1. Asks(<<>>)
          BY DEF Asks
        <4> QED
          BY <3>2, <4>1
      <3> QED
        BY <3>1, <3>2
    <2>2. PICK o : o = ask("outcome") /\ Asks(o)
      BY <2>1
    <2>3. PICK w : w = ask("welcome") /\ Asks(w)
      BY <2>1
    <2>4. PICK x \in Steps : x = Step("relate", a) /\ x.op = "relate" /\ x.a = a
      BY StepTypes DEF Ops, Stage
    <2>5. PICK l : l = o \o w
      OBVIOUS
    <2>6. Asks(l)
      BY <2>2, <2>3, <2>5, AsksJoin
    <2>7. CASE to = "accepted"
      <3>1. AfterMove(a, to, by) = <<x>> \o o \o w
        BY <1>2, <2>2, <2>3, <2>4, <2>7, Zenon DEF AfterMove
      <3>2. <<x>> \o o \o w = <<x>> \o l
        BY <2>2, <2>3, <2>4, <2>5 DEF Asks
      <3>3. PICK r : r = <<x>> \o l
        OBVIOUS
      <3>4. r \in Seq(Steps) /\ r # <<>> /\ Head(r) = x /\ \A i \in 2 .. Len(r) : r[i].op = "ask"
        BY <2>6, <3>3, RelateJoins
      <3>5. CallOK(r)
        BY <2>4, <3>4 DEF CallOK, MoveOK, Later
      <3>6. AfterMove(a, to, by) = r
        BY <3>1, <3>2, <3>3, Zenon
      <3>7. AfterOK(r, a, to)
        BY <2>4, <2>7, <3>4, <3>5 DEF AfterOK
      <3> QED
        BY <3>6, <3>7
    <2>8. CASE to # "accepted"
      <3>1. AfterMove(a, to, by) = <<>> \o o \o w
        BY <1>2, <2>2, <2>3, <2>8, Zenon DEF AfterMove
      <3>2. <<>> \o o = o
        BY <2>2 DEF Asks
      <3>3. AfterMove(a, to, by) = l
        BY <2>5, <3>1, <3>2, Zenon
      <3>4. (l # <<>> => Head(l).op = "ask") /\ \A i \in 2 .. Len(l) : l[i].op = "ask"
        BY <2>6 DEF Asks
      <3>5. CallOK(l)
        BY <2>6, <3>4 DEF CallOK, MoveOK, Later, Asks
      <3>6. AfterOK(l, a, to)
        BY <2>8, <3>4, <3>5 DEF AfterOK
      <3> QED
        BY <3>3, <3>6
    <2> QED
      BY <2>7, <2>8
  <1> QED
    BY <1>1, <1>2

\* What a move makes of a row.
MovedOK(r, old, to, by) ==
    /\ r \in Rows /\ r.column = old.column /\ r.status = to
    /\ to = "pending" => r.sent
    /\ to # "pending" => r.by = by /\ r.sent = old.sent

LEMMA MovedRow ==
  ASSUME NEW old \in Rows, NEW to \in {"pending"} \cup Verdict, NEW by \in Decider, NEW r, r = Moved(old, to, by)
  PROVE  MovedOK(r, old, to, by)
  <1>1. CASE to = "pending"
    <2>1. r = [old EXCEPT !.status = to, !.sent = TRUE, !.late = FALSE]
      BY <1>1 DEF Moved
    <2>2. r \in Rows
      BY <1>1, <2>1 DEF Rows, Open
    <2>3. r.column = old.column /\ r.status = to /\ r.sent
      BY <2>1 DEF Rows
    <2> QED
      BY <1>1, <2>2, <2>3 DEF MovedOK
  <1>2. CASE to # "pending"
    <2>1. r = [old EXCEPT !.status = to, !.by = by]
      BY <1>2 DEF Moved
    <2>2. r \in Rows
      BY <1>2, <2>1 DEF Rows
    <2>3. r.column = old.column /\ r.status = to /\ r.by = by /\ r.sent = old.sent
      BY <2>1 DEF Rows
    <2> QED
      BY <1>2, <2>2, <2>3 DEF MovedOK
  <1> QED
    BY <1>1, <1>2

LEMMA TransitionKeeps ==
  ASSUME Inv, NEW c \in Calls, Transition(c)
  PROVE  Inv'
  <1>1. /\ Typed /\ LockOnce /\ FormInv /\ FriendInv /\ CallsOK /\ row \in [Actions -> Rows]
        /\ tasks \subseteq Orders /\ timers \subseteq Orders /\ up \in BOOLEAN
    BY DEF Inv, Typed
  <1>2. /\ calls[c] # <<>> /\ Head(calls[c]).op = "move" /\ ~Loud(c)
        /\ UNCHANGED <<friends, telegram, up, faults>>
    BY DEF Transition, At, Loud
  <1>3. PICK a \in Actions, to \in {"pending"} \cup Verdict, by \in Decider :
          /\ a = Head(calls[c]).a /\ to = Head(calls[c]).to /\ by = Head(calls[c]).by
          /\ to = "accepted" => by = "addressee"
    BY <1>1, <1>2, HeadStep DEF Steps, MoveOK
  <1>4. PICK l : l = AfterMove(a, to, by)
    OBVIOUS
  <1>5. \/ /\ row[a].status \in FromStatus(to) /\ row' = [row EXCEPT ![a] = Moved(row[a], to, by)]
           /\ tasks' \subseteq tasks /\ timers' \subseteq timers /\ Then(c, l)
        \/ Then(c, <<>>) /\ UNCHANGED <<row, tasks, timers>>
    BY <1>1, <1>3, <1>4 DEF Transition
  <1>6. CASE Then(c, <<>>) /\ UNCHANGED <<row, tasks, timers>>
    <2>1. CallsOK' /\ \A d \in Calls : calls'[d] = calls[d] \/ (~Loud(d) /\ ~Loud(d)')
      BY <1>1, <1>2, <1>6, NoStep, QuietThen
    <2> QED
      BY <1>1, <1>2, <1>6, <2>1, OnlyCalls
  <1>7. ASSUME row[a].status \in FromStatus(to), row' = [row EXCEPT ![a] = Moved(row[a], to, by)],
               tasks' \subseteq tasks, timers' \subseteq timers, Then(c, l)
        PROVE  Inv'
    <2>1. PICK old \in Rows : old = row[a]
      BY <1>1
    <2>2. PICK r : r = Moved(old, to, by)
      OBVIOUS
    <2>3. /\ r \in Rows /\ r.column = old.column /\ r.status = to
          /\ to = "pending" => r.sent
          /\ to # "pending" => r.by = by /\ r.sent = old.sent
      <3>1. MovedOK(r, old, to, by)
        BY <2>2, MovedRow
      <3> QED
        BY <3>1 DEF MovedOK
    <2>4. row' = [row EXCEPT ![a] = r]
      BY <1>7, <2>1, <2>2
    <2>5. /\ CallOK(l)
          /\ to # "accepted" /\ l # <<>> => Head(l).op = "ask"
          /\ to = "accepted" => l # <<>> /\ Head(l).op = "relate" /\ Head(l).a = a
      <3>1. AfterOK(AfterMove(a, to, by), a, to)
        BY AfterMoveOK
      <3> QED
        BY <1>4, <3>1 DEF AfterOK
    <2>6. /\ CallsOK'
          /\ \A d \in Calls \ {c} : calls'[d] = calls[d]
          /\ l # <<>> => calls'[c] # <<>> /\ Head(calls'[c]) = Head(l)
      BY <1>1, <1>2, <1>7, <2>5, ThenGoes
    <2>7. Typed'
      BY <1>1, <1>2, <1>7, <2>3, <2>4, <2>6 DEF Typed, telegram
    <2>8. row[a].status \in Open /\ (to = "accepted" => row[a].status = "pending")
      BY <1>7, FromOpen
    <2>9. CASE to # "accepted"
      <3>1. \A d \in Calls : calls'[d] = calls[d] \/ (~Loud(d) /\ ~Loud(d)')
        BY <1>1, <1>2, <1>7, <2>5, <2>9, QuietThen
      <3>2. \A b \in Actions : RowStays(b)
        BY <1>1, <2>1, <2>3, <2>4, <2>8, <2>9 DEF RowStays, Open
      <3> QED
        BY <1>2, <2>7, <3>1, <3>2, QuietStep DEF telegram
    <2>10. CASE to = "accepted"
      <3>1. calls'[c] # <<>> /\ Head(calls'[c]).op = "relate" /\ Head(calls'[c]).a = a
        BY <2>5, <2>6, <2>10
      <3>2. LockOnce'
        <4>1. \A d \in Calls, b \in Actions : Holds(d, b)' => Holds(d, b)
          BY <2>6, <3>1 DEF Holds
        <4> QED
          BY <1>1, <4>1, LocksSame
      <3>3. FormInv'
        <4>1. \A d \in Calls, b \in Actions, s \in Stage :
                /\ Doing(d, "send", b, s)' => Doing(d, "send", b, s)
                /\ Doing(d, "column", b, s)' <=> Doing(d, "column", b, s)
          BY <1>2, <2>6, <3>1 DEF Doing
        <4>2. \A b \in Actions : row'[b].column = row[b].column
          BY <1>1, <2>1, <2>3, <2>4
        <4> QED
          BY <1>1, <1>2, <4>1, <4>2, FormsSame DEF telegram
      <3>4. row'[a].status = "accepted" /\ row'[a].by = "addressee" /\ row'[a].sent
        BY <1>1, <1>3, <2>1, <2>3, <2>4, <2>8, <2>10 DEF FriendInv
      <3>5. friends[a] = 0 /\ \A d \in Calls : ~Relating(d, a)
        <4>1. friends[a] \in Nat /\ friends[a] <= 1 /\ ~Agreed(a)
          BY <1>1, <2>8, <2>10 DEF FriendInv, Agreed, Typed
        <4>2. friends[a] # 1 /\ \A d \in Calls : ~Relating(d, a)
          BY <1>1, <4>1 DEF FriendInv
        <4> QED
          BY <4>1, <4>2
      <3>6. \A d \in Calls, b \in Actions : Relating(d, b)' => Relating(d, b) \/ (d = c /\ b = a)
        BY <2>6, <3>1 DEF Relating
      <3>7. \A b \in Actions : b # a => row'[b] = row[b]
        BY <1>1, <2>4
      <3>8. friends' = friends
        BY <1>2
      <3>9. FriendInv'
        <4> SUFFICES ASSUME NEW b \in Actions
                     PROVE  /\ friends'[b] <= 1
                            /\ friends'[b] = 1 => Agreed(b)'
                            /\ \A d \in Calls : Relating(d, b)' => friends'[b] = 0 /\ Agreed(b)'
                            /\ \A d, e \in Calls : Relating(d, b)' /\ Relating(e, b)' => d = e
                            /\ row'[b].status = "pending" => row'[b].sent
          BY DEF FriendInv
        <4>1. CASE b = a
          BY <3>4, <3>5, <3>6, <3>8, <4>1 DEF Agreed
        <4>2. CASE b # a
          BY <1>1, <3>6, <3>7, <3>8, <4>2 DEF Agreed, FriendInv
        <4> QED
          BY <4>1, <4>2
      <3> QED
        BY <2>7, <3>2, <3>3, <3>9 DEF Inv
    <2> QED
      BY <2>9, <2>10
  <1> QED
    BY <1>5, <1>6, <1>7

\* The call that was Loud ends its loud step.
LEMMA LoudEnds ==
  ASSUME CallsOK, NEW c \in Calls, calls[c] # <<>>, Then(c, <<>>)
  PROVE  /\ CallsOK'
         /\ \A d \in Calls \ {c} : calls'[d] = calls[d]
         /\ \A a \in Actions : ~Holds(c, a)' /\ ~Relating(c, a)'
         /\ \A a \in Actions, s \in Stage : ~Doing(c, "send", a, s)' /\ ~Doing(c, "column", a, s)'
  <1>1. /\ CallsOK'
        /\ \A d \in Calls \ {c} : calls'[d] = calls[d]
        /\ calls'[c] = <<>> \/ Head(calls'[c]).op \in Later
    BY NoStep, ThenGoes
  <1> QED
    BY <1>1 DEF Holds, Relating, Doing, Later

\* The relationship is written.
LEMMA RelateKeeps ==
  ASSUME Inv, NEW c \in Calls, Relate(c)
  PROVE  Inv'
  <1>1. Typed /\ LockOnce /\ FormInv /\ FriendInv /\ CallsOK /\ friends \in [Actions -> Nat]
    BY DEF Inv, Typed
  <1>2. /\ calls[c] # <<>> /\ Head(calls[c]).op = "relate"
        /\ UNCHANGED <<row, telegram, tasks, timers, up, faults>> /\ Then(c, <<>>)
    BY DEF Relate, At
  <1>3. PICK a \in Actions : a = Head(calls[c]).a
    BY <1>1, <1>2, HeadStep DEF Steps
  <1>4. Relating(c, a) /\ friends[a] = 0 /\ Agreed(a)
    BY <1>1, <1>2, <1>3 DEF FriendInv, Relating
  <1>5. friends' = [friends EXCEPT ![a] = 1]
    BY <1>1, <1>3, <1>4 DEF Relate
  <1>6. /\ CallsOK'
        /\ \A d \in Calls \ {c} : calls'[d] = calls[d]
        /\ \A b \in Actions : ~Holds(c, b)' /\ ~Relating(c, b)'
        /\ \A b \in Actions, s \in Stage : ~Doing(c, "send", b, s)' /\ ~Doing(c, "column", b, s)'
    BY <1>1, <1>2, LoudEnds
  <1>7. Typed'
    BY <1>1, <1>2, <1>5, <1>6 DEF Typed, telegram
  <1>8. LockOnce'
    <2>1. \A d \in Calls, b \in Actions : Holds(d, b)' => Holds(d, b)
      BY <1>6 DEF Holds
    <2> QED
      BY <1>1, <2>1, LocksSame
  <1>9. FormInv'
    <2>1. \A d \in Calls, b \in Actions, s \in Stage :
            /\ Doing(d, "send", b, s)' => Doing(d, "send", b, s)
            /\ Doing(d, "column", b, s)' <=> Doing(d, "column", b, s)
      BY <1>2, <1>6 DEF Doing
    <2> QED
      BY <1>1, <1>2, <2>1, FormsSame DEF telegram
  <1>10. \A d \in Calls, b \in Actions : Relating(d, b)' => Relating(d, b) /\ d # c
    BY <1>6 DEF Relating
  <1>11. FriendInv'
    <2> SUFFICES ASSUME NEW b \in Actions
                 PROVE  /\ friends'[b] <= 1
                        /\ friends'[b] = 1 => Agreed(b)'
                        /\ \A d \in Calls : Relating(d, b)' => friends'[b] = 0 /\ Agreed(b)'
                        /\ \A d, e \in Calls : Relating(d, b)' /\ Relating(e, b)' => d = e
                        /\ row'[b].status = "pending" => row'[b].sent
      BY DEF FriendInv
    <2>1. row' = row /\ (Agreed(b)' <=> Agreed(b))
      BY <1>2 DEF Agreed
    <2>2. CASE b = a
      <3>1. \A d \in Calls : ~Relating(d, a)'
        BY <1>1, <1>4, <1>10 DEF FriendInv
      <3> QED
        BY <1>1, <1>4, <1>5, <2>1, <2>2, <3>1 DEF FriendInv
    <2>3. CASE b # a
      BY <1>1, <1>5, <1>10, <2>1, <2>3 DEF FriendInv
    <2> QED
      BY <2>2, <2>3
  <1> QED
    BY <1>7, <1>8, <1>9, <1>11 DEF Inv

-----------------------------------------------------------------------------
(* The form is sent and recorded, under its lock. *)

\* A step of a call that leaves acceptances alone.
LEMMA FriendsOf ==
  ASSUME FriendInv, NEW c \in Calls, UNCHANGED friends,
         \A d \in Calls \ {c} : calls'[d] = calls[d],
         \A a \in Actions : ~Relating(c, a)',
         \A a \in Actions : /\ row'[a].status = row[a].status
                            /\ row'[a].by = row[a].by /\ row'[a].sent = row[a].sent
  PROVE  FriendInv'
  <1>1. \A d \in Calls, a \in Actions : Relating(d, a)' => Relating(d, a)
    BY DEF Relating
  <1> QED
    BY <1>1, FriendsSame

\* The form is let in: nobody else holds its lock, and it is not recorded.
LEMMA EnterKeeps ==
  ASSUME Inv, NEW c \in Calls, Enter(c)
  PROVE  Inv'
  <1>1. /\ Typed /\ LockOnce /\ FormInv /\ FriendInv /\ CallsOK
        /\ tasks \subseteq Orders /\ timers \subseteq Orders /\ up \in BOOLEAN
    BY DEF Inv, Typed
  <1>2. /\ calls[c] # <<>> /\ Head(calls[c]).op = "enter" /\ ~Loud(c)
        /\ UNCHANGED <<row, friends, telegram, tasks, timers, up, faults>>
    BY DEF Enter, At, Loud
  <1>3. PICK s \in Steps : s = Head(calls[c])
    BY <1>1, <1>2, HeadStep
  <1>4. PICK x : x = [s EXCEPT !.op = "send"]
    OBVIOUS
  <1>5. x \in Steps
    BY <1>4 DEF Steps, Ops
  <1>6. x.op = "send" /\ x.a = s.a /\ x.stage = s.stage
    BY <1>4 DEF Steps
  <1>7. PICK a \in Actions, st \in Stage : a = s.a /\ st = s.stage
    BY DEF Steps
  <1>8. PICK l : l = <<x>>
    OBVIOUS
  <1>9. /\ ~Locked(a)
        /\ Then(c, <<>>) \/ (Wanted(a, st) /\ Then(c, l))
    BY <1>3, <1>4, <1>7, <1>8 DEF Enter
  <1>10. CASE Then(c, <<>>)
    <2>1. CallsOK' /\ \A d \in Calls : calls'[d] = calls[d] \/ (~Loud(d) /\ ~Loud(d)')
      BY <1>1, <1>2, <1>10, NoStep, QuietThen
    <2> QED
      BY <1>1, <1>2, <2>1, OnlyCalls
  <1>11. CASE Wanted(a, st) /\ Then(c, l)
    <2>1. CallOK(l) /\ l # <<>> /\ Head(l) = x
      BY <1>5, <1>6, <1>8, OneStep DEF MoveOK
    <2>2. /\ CallsOK'
          /\ \A d \in Calls \ {c} : calls'[d] = calls[d]
          /\ calls'[c] # <<>> /\ Head(calls'[c]) = x
      BY <1>1, <1>2, <1>11, <2>1, ThenGoes
    <2>3. Typed'
      BY <1>1, <1>2, <2>2 DEF Typed, telegram
    <2>4. LockOnce'
      <3>1. \A d \in Calls, b \in Actions : Holds(d, b)' => Holds(d, b) \/ (d = c /\ b = a)
        BY <1>6, <1>7, <2>2 DEF Holds
      <3>2. \A d \in Calls : ~Holds(d, a)
        BY <1>9 DEF Locked
      <3> QED
        BY <1>1, <3>1, <3>2 DEF LockOnce
    <2>5. FormInv'
      <3> SUFFICES ASSUME NEW b \in Actions, NEW t \in Stage
                   PROVE  /\ chat'[b][t] + outbox'[b][t] <= faults' + Recorded(b, t)'
                          /\ \A d \in Calls : Doing(d, "send", b, t)' => t \notin row'[b].column
        BY DEF FormInv
      <3>1. \A d \in Calls : Doing(d, "column", b, t)' <=> Doing(d, "column", b, t)
        BY <1>2, <1>6, <2>2 DEF Doing
      <3>2. Recorded(b, t)' = Recorded(b, t)
        BY <1>2, <3>1 DEF Recorded
      <3>3. \A d \in Calls : Doing(d, "send", b, t)' => Doing(d, "send", b, t) \/ (b = a /\ t = st)
        BY <1>6, <1>7, <2>2 DEF Doing
      <3>4. st \notin row[a].column
        BY <1>11 DEF Wanted
      <3> QED
        BY <1>1, <1>2, <3>2, <3>3, <3>4 DEF FormInv, telegram
    <2>6. FriendInv'
      <3>1. \A b \in Actions : ~Relating(c, b)'
        BY <1>6, <2>2 DEF Relating
      <3> QED
        BY <1>1, <1>2, <2>2, <3>1, FriendsOf
    <2> QED
      BY <2>3, <2>4, <2>5, <2>6 DEF Inv
  <1> QED
    BY <1>9, <1>10, <1>11

\* The first copy of the message: it is about to be recorded.
LEMMA SendKeeps ==
  ASSUME Inv, NEW c \in Calls, Send(c)
  PROVE  Inv'
  <1>1. /\ Typed /\ LockOnce /\ FormInv /\ FriendInv /\ CallsOK
        /\ chat \in [Actions -> [Stage -> Nat]] /\ outbox \in [Actions -> [Stage -> Nat]] /\ faults \in Nat
    BY PendingAssumption DEF Inv, Typed
  <1>2. /\ calls[c] # <<>> /\ Head(calls[c]).op = "send"
        /\ UNCHANGED <<row, friends, lost, outbox, tasks, timers, up, faults>>
    BY DEF Send, At
  <1>3. PICK s \in Steps : s = Head(calls[c])
    BY <1>1, <1>2, HeadStep
  <1>4. PICK x : x = [s EXCEPT !.op = "column"]
    OBVIOUS
  <1>5. x \in Steps
    BY <1>4 DEF Steps, Ops
  <1>6. x.op = "column" /\ x.a = s.a /\ x.stage = s.stage
    BY <1>4 DEF Steps
  <1>7. PICK a \in Actions, st \in Stage : a = s.a /\ st = s.stage
    BY DEF Steps
  <1>8. PICK l : l = <<x>>
    OBVIOUS
  <1>9. chat' = [chat EXCEPT ![a][st] = @ + 1] /\ Then(c, l)
    BY <1>3, <1>4, <1>7, <1>8 DEF Send
  <1>10. CallOK(l) /\ l # <<>> /\ Head(l) = x
    BY <1>5, <1>6, <1>8, OneStep DEF MoveOK
  <1>11. /\ CallsOK'
         /\ \A d \in Calls \ {c} : calls'[d] = calls[d]
         /\ calls'[c] # <<>> /\ Head(calls'[c]) = x
    BY <1>1, <1>2, <1>9, <1>10, ThenGoes
  <1>12. /\ chat' \in [Actions -> [Stage -> Nat]]
         /\ chat'[a][st] = chat[a][st] + 1
         /\ \A b \in Actions, t \in Stage : b # a \/ t # st => chat'[b][t] = chat[b][t]
    BY <1>1, <1>9
  <1>13. Typed'
    BY <1>1, <1>2, <1>11, <1>12 DEF Typed
  <1>14. LockOnce'
    <2>1. \A d \in Calls, b \in Actions : Holds(d, b)' => Holds(d, b)
      BY <1>2, <1>3, <1>6, <1>11 DEF Holds
    <2> QED
      BY <1>1, <2>1, LocksSame
  <1>15. Holds(c, a) /\ Doing(c, "send", a, st)
    BY <1>2, <1>3, <1>7 DEF Holds, Doing
  <1>16. Recorded(a, st) = 0
    <2>1. st \notin row[a].column
      BY <1>1, <1>15 DEF FormInv
    <2>2. ASSUME NEW d \in Calls, Doing(d, "column", a, st) PROVE FALSE
      <3>1. Holds(d, a)
        BY <2>2 DEF Doing, Holds
      <3>2. d = c
        BY <1>1, <1>15, <3>1 DEF LockOnce
      <3> QED
        BY <1>2, <2>2, <3>2 DEF Doing
    <2> QED
      BY <2>1, <2>2 DEF Recorded
  <1>17. Recorded(a, st)' = 1
    <2>1. Doing(c, "column", a, st)'
      BY <1>6, <1>7, <1>11 DEF Doing
    <2> QED
      BY <2>1 DEF Recorded
  <1>18. FormInv'
    <2> SUFFICES ASSUME NEW b \in Actions, NEW t \in Stage
                 PROVE  /\ chat'[b][t] + outbox'[b][t] <= faults' + Recorded(b, t)'
                        /\ \A d \in Calls : Doing(d, "send", b, t)' => t \notin row'[b].column
      BY DEF FormInv
    <2>1. \A d \in Calls : Doing(d, "send", b, t)' => Doing(d, "send", b, t)
      BY <1>6, <1>11 DEF Doing
    <2>2. chat[b][t] + outbox[b][t] <= faults + Recorded(b, t)
      BY <1>1 DEF FormInv
    <2>3. CASE b = a /\ t = st
      <3>1. PICK m \in Nat, n \in Nat, f \in Nat : m = chat[a][st] /\ n = outbox[a][st] /\ f = faults
        BY <1>1
      <3>2. m + n <= f
        BY <1>16, <2>2, <2>3, <3>1
      <3>3. chat'[a][st] + outbox'[a][st] = m + 1 + n /\ faults' + Recorded(a, st)' = f + 1
        BY <1>2, <1>12, <1>17, <3>1
      <3>4. m + 1 + n <= f + 1
        BY <3>2
      <3>5. chat'[b][t] + outbox'[b][t] <= faults' + Recorded(b, t)'
        BY <2>3, <3>3, <3>4
      <3> QED
        BY <1>1, <1>2, <2>1, <3>5 DEF FormInv
    <2>4. CASE b # a \/ t # st
      <3>1. \A d \in Calls : Doing(d, "column", b, t)' <=> Doing(d, "column", b, t)
        BY <1>2, <1>6, <1>7, <1>11, <2>4 DEF Doing
      <3>2. Recorded(b, t)' = Recorded(b, t)
        BY <1>2, <3>1 DEF Recorded
      <3> QED
        BY <1>1, <1>2, <1>12, <2>1, <2>2, <2>4, <3>2 DEF FormInv
    <2> QED
      BY <2>3, <2>4
  <1>19. FriendInv'
    <2>1. \A b \in Actions : ~Relating(c, b)'
      BY <1>6, <1>11 DEF Relating
    <2> QED
      BY <1>1, <1>2, <1>11, <2>1, FriendsOf
  <1> QED
    BY <1>13, <1>14, <1>18, <1>19 DEF Inv

\* A copy that fails costs the fault that it was.
LEMMA SendFailsKeeps ==
  ASSUME Inv, NEW c \in Calls, SendFails(c)
  PROVE  Inv'
  <1>1. /\ Typed /\ LockOnce /\ FormInv /\ FriendInv /\ CallsOK
        /\ outbox \in [Actions -> [Stage -> Nat]] /\ faults \in 0 .. MaxFaults /\ MaxFaults \in Nat
        /\ chat \in [Actions -> [Stage -> Nat]] /\ lost \subseteq Actions \X Stage
    BY PendingAssumption DEF Inv, Typed
  <1>2. /\ calls[c] # <<>> /\ Head(calls[c]).op = "send" /\ faults < MaxFaults /\ faults' = faults + 1
        /\ UNCHANGED <<row, friends, chat, tasks, timers, up>> /\ Then(c, <<>>)
    BY DEF SendFails, At
  <1>3. PICK a \in Actions, st \in Stage : a = Head(calls[c]).a /\ st = Head(calls[c]).stage
    BY <1>1, <1>2, HeadStep DEF Steps
  <1>4. \/ outbox' = [outbox EXCEPT ![a][st] = @ + 1] /\ lost' = lost
        \/ outbox' = outbox /\ lost' = lost \cup {<<a, st>>}
    BY <1>3 DEF SendFails
  <1>5. /\ outbox' \in [Actions -> [Stage -> Nat]] /\ lost' \subseteq Actions \X Stage
        /\ \A b \in Actions, t \in Stage : outbox'[b][t] \in {outbox[b][t], outbox[b][t] + 1}
    <2>1. CASE outbox' = [outbox EXCEPT ![a][st] = @ + 1] /\ lost' = lost
      BY <1>1, <2>1
    <2>2. CASE outbox' = outbox /\ lost' = lost \cup {<<a, st>>}
      BY <1>1, <2>2
    <2> QED
      BY <1>4, <2>1, <2>2
  <1>6. /\ CallsOK'
        /\ \A d \in Calls \ {c} : calls'[d] = calls[d]
        /\ \A b \in Actions : ~Holds(c, b)' /\ ~Relating(c, b)'
        /\ \A b \in Actions, t \in Stage : ~Doing(c, "send", b, t)' /\ ~Doing(c, "column", b, t)'
    BY <1>1, <1>2, LoudEnds
  <1>7. Typed'
    BY <1>1, <1>2, <1>5, <1>6 DEF Typed
  <1>8. LockOnce'
    <2>1. \A d \in Calls, b \in Actions : Holds(d, b)' => Holds(d, b)
      BY <1>6 DEF Holds
    <2> QED
      BY <1>1, <2>1, LocksSame
  <1>9. FormInv'
    <2> SUFFICES ASSUME NEW b \in Actions, NEW t \in Stage
                 PROVE  /\ chat'[b][t] + outbox'[b][t] <= faults' + Recorded(b, t)'
                        /\ \A d \in Calls : Doing(d, "send", b, t)' => t \notin row'[b].column
      BY DEF FormInv
    <2>1. \A d \in Calls : /\ Doing(d, "column", b, t)' <=> Doing(d, "column", b, t)
                           /\ Doing(d, "send", b, t)' => Doing(d, "send", b, t)
      BY <1>2, <1>6 DEF Doing
    <2>2. Recorded(b, t)' = Recorded(b, t) /\ Recorded(b, t) \in Nat
      BY <1>2, <2>1 DEF Recorded
    <2>3. chat[b][t] + outbox[b][t] <= faults + Recorded(b, t)
      BY <1>1 DEF FormInv
    <2>4. PICK m \in Nat, n \in Nat, f \in Nat : m = chat[b][t] /\ n = outbox[b][t] /\ f = faults
      BY <1>1
    <2>5. chat'[b][t] = m /\ outbox'[b][t] \in {n, n + 1} /\ faults' = f + 1
      BY <1>2, <1>5, <2>4
    <2>6. chat'[b][t] + outbox'[b][t] <= faults' + Recorded(b, t)'
      BY <2>2, <2>3, <2>4, <2>5
    <2> QED
      BY <1>1, <1>2, <2>1, <2>6 DEF FormInv
  <1>10. FriendInv'
    BY <1>1, <1>2, <1>6, FriendsOf
  <1> QED
    BY <1>7, <1>8, <1>9, <1>10 DEF Inv

\* The copy that was sent is recorded before the lock is left.
LEMMA ColumnKeeps ==
  ASSUME Inv, NEW c \in Calls, Column(c)
  PROVE  Inv'
  <1>1. Typed /\ LockOnce /\ FormInv /\ FriendInv /\ CallsOK /\ row \in [Actions -> Rows]
    BY DEF Inv, Typed
  <1>2. /\ calls[c] # <<>> /\ Head(calls[c]).op = "column" /\ Then(c, <<>>)
        /\ UNCHANGED <<friends, telegram, tasks, timers, up, faults>>
    BY DEF Column, At
  <1>3. PICK a \in Actions, st \in Stage : a = Head(calls[c]).a /\ st = Head(calls[c]).stage
    BY <1>1, <1>2, HeadStep DEF Steps
  <1>4. PICK old \in Rows : old = row[a]
    BY <1>1
  <1>5. PICK r : r = [old EXCEPT !.column = old.column \cup {st}]
    OBVIOUS
  <1>6. r \in Rows
    BY <1>5 DEF Rows
  <1>7. /\ r.column = old.column \cup {st}
        /\ r.status = old.status /\ r.by = old.by /\ r.sent = old.sent
    BY <1>5 DEF Rows
  <1>8. row' = [row EXCEPT ![a] = r]
    BY <1>3, <1>4, <1>5 DEF Column
  <1>9. /\ row' \in [Actions -> Rows]
        /\ row'[a].column = row[a].column \cup {st}
        /\ \A b \in Actions : b # a => row'[b] = row[b]
        /\ \A b \in Actions : /\ row'[b].status = row[b].status
                              /\ row'[b].by = row[b].by /\ row'[b].sent = row[b].sent
    BY <1>1, <1>4, <1>6, <1>7, <1>8
  <1>10. /\ CallsOK'
         /\ \A d \in Calls \ {c} : calls'[d] = calls[d]
         /\ \A b \in Actions : ~Holds(c, b)' /\ ~Relating(c, b)'
         /\ \A b \in Actions, t \in Stage : ~Doing(c, "send", b, t)' /\ ~Doing(c, "column", b, t)'
    BY <1>1, <1>2, LoudEnds
  <1>11. Typed'
    BY <1>1, <1>2, <1>9, <1>10 DEF Typed, telegram
  <1>12. LockOnce'
    <2>1. \A d \in Calls, b \in Actions : Holds(d, b)' => Holds(d, b)
      BY <1>10 DEF Holds
    <2> QED
      BY <1>1, <2>1, LocksSame
  <1>13. Holds(c, a) /\ Doing(c, "column", a, st)
    BY <1>2, <1>3 DEF Holds, Doing
  <1>14. FormInv'
    <2> SUFFICES ASSUME NEW b \in Actions, NEW t \in Stage
                 PROVE  /\ chat'[b][t] + outbox'[b][t] <= faults' + Recorded(b, t)'
                        /\ \A d \in Calls : Doing(d, "send", b, t)' => t \notin row'[b].column
      BY DEF FormInv
    <2>1. \A d \in Calls : Doing(d, "send", b, t)' => Doing(d, "send", b, t) /\ d # c
      BY <1>10 DEF Doing
    <2>2. Recorded(b, t)' = Recorded(b, t)
      <3>1. CASE b = a /\ t = st
        <4>1. Recorded(b, t) = 1
          BY <1>13, <3>1 DEF Recorded
        <4>2. Recorded(b, t)' = 1
          BY <1>9, <3>1 DEF Recorded
        <4> QED
          BY <4>1, <4>2
      <3>2. CASE b # a \/ t # st
        <4>1. t \in row'[b].column <=> t \in row[b].column
          BY <1>9, <3>2
        <4>2. \A d \in Calls : Doing(d, "column", b, t)' <=> Doing(d, "column", b, t)
          BY <1>3, <1>10, <3>2 DEF Doing
        <4> QED
          BY <4>1, <4>2 DEF Recorded
      <3> QED
        BY <3>1, <3>2
    <2>3. ASSUME NEW d \in Calls, Doing(d, "send", b, t)' PROVE t \notin row'[b].column
      <3>1. Doing(d, "send", b, t) /\ d # c
        BY <2>1, <2>3
      <3>2. b # a
        <4>1. SUFFICES ASSUME b = a PROVE FALSE
          OBVIOUS
        <4>2. Holds(d, a)
          BY <3>1, <4>1 DEF Doing, Holds
        <4> QED
          BY <1>1, <1>13, <3>1, <4>2 DEF LockOnce
      <3> QED
        BY <1>1, <1>9, <3>1, <3>2 DEF FormInv
    <2> QED
      BY <1>1, <1>2, <2>2, <2>3 DEF FormInv, telegram
  <1>15. FriendInv'
    BY <1>1, <1>2, <1>9, <1>10, FriendsOf
  <1> QED
    BY <1>11, <1>12, <1>14, <1>15 DEF Inv

\* What leaves the outbox arrives or is lost.
LEMMA OutboxKeeps ==
  ASSUME Inv, NEW a \in Actions, NEW st \in Stage, OutboxSend(a, st) \/ OutboxDrop(a, st)
  PROVE  Inv'
  <1>1. /\ Typed /\ LockOnce /\ FormInv /\ FriendInv
        /\ outbox \in [Actions -> [Stage -> Nat]] /\ faults \in Nat
        /\ chat \in [Actions -> [Stage -> Nat]] /\ lost \subseteq Actions \X Stage
    BY PendingAssumption DEF Inv, Typed
  <1>2. /\ UNCHANGED <<row, friends, tasks, timers, calls, up, faults>> /\ outbox[a][st] > 0
        /\ outbox' = [outbox EXCEPT ![a][st] = @ - 1]
        /\ \/ chat' = [chat EXCEPT ![a][st] = @ + 1] /\ lost' = lost
           \/ chat' = chat /\ lost' = lost \cup {<<a, st>>}
    BY DEF OutboxSend, OutboxDrop
  <1>3. PICK n \in Nat, m \in Nat : n = outbox[a][st] /\ m = chat[a][st]
    BY <1>1
  <1>4. n - 1 \in Nat /\ m + 1 \in Nat
    BY <1>2, <1>3
  <1>5. /\ outbox' \in [Actions -> [Stage -> Nat]] /\ outbox'[a][st] = n - 1
        /\ \A b \in Actions, t \in Stage : b # a \/ t # st => outbox'[b][t] = outbox[b][t]
    BY <1>1, <1>2, <1>3, <1>4
  <1>6. /\ chat' \in [Actions -> [Stage -> Nat]] /\ chat'[a][st] \in {m, m + 1}
        /\ \A b \in Actions, t \in Stage : b # a \/ t # st => chat'[b][t] = chat[b][t]
    <2>1. CASE chat' = [chat EXCEPT ![a][st] = @ + 1]
      BY <1>1, <1>3, <1>4, <2>1
    <2>2. CASE chat' = chat
      BY <1>1, <1>3, <2>2
    <2> QED
      BY <1>2, <2>1, <2>2
  <1>7. Typed'
    <2>1. lost' \subseteq Actions \X Stage
      BY <1>1, <1>2
    <2>2. CallsOK'
      BY <1>1, <1>2 DEF Typed, CallsOK
    <2>3. /\ row' \in [Actions -> Rows] /\ friends' \in [Actions -> Nat]
          /\ tasks' \subseteq Orders /\ timers' \subseteq Orders
          /\ up' \in BOOLEAN /\ faults' \in 0 .. MaxFaults
      BY <1>1, <1>2 DEF Typed
    <2> QED
      BY <1>5, <1>6, <2>1, <2>2, <2>3 DEF Typed
  <1>8. /\ \A c \in Calls, b \in Actions : Holds(c, b)' = Holds(c, b) /\ Relating(c, b)' = Relating(c, b)
        /\ \A c \in Calls, b \in Actions, t \in Stage : Doing(c, "send", b, t)' = Doing(c, "send", b, t)
        /\ \A b \in Actions, t \in Stage : Recorded(b, t)' = Recorded(b, t)
    BY <1>2 DEF Holds, Relating, Doing, Recorded
  <1>9. LockOnce'
    BY <1>1, <1>8, LocksSame
  <1>10. FormInv'
    <2> SUFFICES ASSUME NEW b \in Actions, NEW t \in Stage
                 PROVE  chat'[b][t] + outbox'[b][t] <= faults' + Recorded(b, t)'
      BY <1>1, <1>2, <1>8 DEF FormInv
    <2>1. chat[b][t] + outbox[b][t] <= faults + Recorded(b, t)
      BY <1>1 DEF FormInv
    <2>2. CASE b = a /\ t = st
      <3>1. chat'[a][st] + outbox'[a][st] <= m + n
        BY <1>5, <1>6
      <3>2. Recorded(b, t)' = Recorded(b, t) /\ Recorded(b, t) \in Nat /\ faults' = faults
        BY <1>2, <1>8 DEF Recorded
      <3>3. PICK i \in Nat, j \in Nat : i = chat'[a][st] /\ j = outbox'[a][st]
        BY <1>5, <1>6
      <3> QED
        BY <1>1, <1>3, <2>1, <2>2, <3>1, <3>2, <3>3
    <2>3. CASE b # a \/ t # st
      BY <1>2, <1>5, <1>6, <1>8, <2>1, <2>3
    <2> QED
      BY <2>2, <2>3
  <1>11. FriendInv'
    BY <1>1, <1>2, <1>8, FriendsSame
  <1> QED
    BY <1>7, <1>9, <1>10, <1>11 DEF Inv

\* A death takes the record that was to be written, and is a fault.
LEMMA CrashKeeps ==
  ASSUME Inv, Crash
  PROVE  Inv'
  <1>1. /\ Typed /\ LockOnce /\ FormInv /\ FriendInv
        /\ faults \in 0 .. MaxFaults /\ MaxFaults \in Nat
        /\ outbox \in [Actions -> [Stage -> Nat]] /\ chat \in [Actions -> [Stage -> Nat]]
    BY PendingAssumption DEF Inv, Typed
  <1>2. /\ faults < MaxFaults /\ faults' = faults + 1 /\ up' = FALSE /\ timers' = {}
        /\ calls' = [c \in Calls |-> <<>>] /\ UNCHANGED <<row, friends, telegram, tasks>>
    BY DEF Crash
  <1>3. CallsOK'
    BY <1>2, NoStep DEF CallsOK
  <1>4. Typed'
    <2>1. faults' \in 0 .. MaxFaults
      BY <1>1, <1>2
    <2> QED
      BY <1>1, <1>2, <1>3, <2>1 DEF Typed, telegram
  <1>5. /\ \A c \in Calls, b \in Actions : ~Holds(c, b)' /\ ~Relating(c, b)'
        /\ \A c \in Calls, b \in Actions, t \in Stage : ~Doing(c, "send", b, t)'
    BY <1>2 DEF Holds, Relating, Doing
  <1>6. LockOnce'
    BY <1>1, <1>5, LocksSame
  <1>7. FormInv'
    <2> SUFFICES ASSUME NEW b \in Actions, NEW t \in Stage
                 PROVE  chat'[b][t] + outbox'[b][t] <= faults' + Recorded(b, t)'
      BY <1>5 DEF FormInv
    <2>1. PICK i \in Nat, j \in Nat, f \in Nat : i = chat[b][t] /\ j = outbox[b][t] /\ f = faults
      BY <1>1
    <2>2. PICK p \in {0, 1}, q \in {0, 1} : p = Recorded(b, t) /\ q = Recorded(b, t)'
      BY DEF Recorded
    <2>3. i + j <= f + p
      BY <1>1, <2>1, <2>2 DEF FormInv
    <2>4. i + j <= f + 1 + q
      BY <2>3
    <2> QED
      BY <1>2, <2>1, <2>2, <2>4 DEF telegram
  <1>8. FriendInv'
    BY <1>1, <1>2, <1>5, FriendsSame
  <1> QED
    BY <1>4, <1>6, <1>7, <1>8 DEF Inv

\* An exception breaks a call off, but for the alarm of an offer.
LEMMA Breaks ==
  ASSUME CallsOK, NEW c \in Calls, Raises(c)
  PROVE  /\ CallsOK'
         /\ \A d \in Calls \ {c} : calls'[d] = calls[d]
         /\ calls'[c] = <<>> \/ Head(calls'[c]).op = "alarm"
  <1>1. calls \in [Calls -> Seq(Steps)] /\ calls[c] # <<>>
    BY DEF CallsOK, Raises
  <1>2. PICK l \in Seq(Steps) : l = calls[c] /\ l # <<>>
    BY <1>1
  <1>3. PICK rest \in {<<>>, Spared(l)} : calls' = [calls EXCEPT ![c] = rest]
    BY <1>2, Zenon DEF Raises
  <1>4. rest = <<>> \/ \E x \in Steps : rest = <<x>> /\ x.op = "alarm"
    <2>1. Last(l) \in Steps
      BY <1>2 DEF Last
    <2> QED
      BY <1>3, <2>1 DEF Spared
  <1>5. rest \in Seq(Steps) /\ CallOK(rest) /\ (rest = <<>> \/ Head(rest).op = "alarm")
    <2>1. CASE rest = <<>>
      BY <2>1, NoStep DEF CallOK
    <2>2. ASSUME NEW x \in Steps, rest = <<x>>, x.op = "alarm"
          PROVE  rest \in Seq(Steps) /\ CallOK(rest) /\ Head(rest).op = "alarm"
      <3>1. MoveOK(x)
        BY <2>2 DEF MoveOK
      <3>2. CallOK(<<x>>) /\ Head(<<x>>) = x
        BY <3>1, OneStep
      <3> QED
        BY <2>2, <3>2 DEF CallOK
    <2> QED
      BY <1>4, <2>1, <2>2
  <1> QED
    BY <1>1, <1>3, <1>5 DEF CallsOK

\* It costs the fault that it was, like the record that it may have prevented.
LEMMA RaisesKeeps ==
  ASSUME Inv, NEW c \in Calls, Raises(c)
  PROVE  Inv'
  <1>1. /\ Typed /\ LockOnce /\ FormInv /\ FriendInv /\ CallsOK
        /\ faults \in 0 .. MaxFaults /\ MaxFaults \in Nat
        /\ outbox \in [Actions -> [Stage -> Nat]] /\ chat \in [Actions -> [Stage -> Nat]]
    BY PendingAssumption DEF Inv, Typed
  <1>2. /\ faults < MaxFaults /\ faults' = faults + 1
        /\ UNCHANGED <<row, friends, telegram, tasks, timers, up>>
    BY DEF Raises
  <1>3. /\ CallsOK'
        /\ \A d \in Calls \ {c} : calls'[d] = calls[d]
        /\ \A b \in Actions : ~Holds(c, b)' /\ ~Relating(c, b)'
        /\ \A b \in Actions, t \in Stage : ~Doing(c, "send", b, t)' /\ ~Doing(c, "column", b, t)'
    <2>1. /\ CallsOK'
          /\ \A d \in Calls \ {c} : calls'[d] = calls[d]
          /\ calls'[c] = <<>> \/ Head(calls'[c]).op = "alarm"
      BY <1>1, Breaks
    <2> QED
      BY <2>1 DEF Holds, Relating, Doing
  <1>4. Typed'
    <2>1. faults' \in 0 .. MaxFaults
      BY <1>1, <1>2
    <2> QED
      BY <1>1, <1>2, <1>3, <2>1 DEF Typed, telegram
  <1>5. LockOnce'
    <2>1. \A d \in Calls, b \in Actions : Holds(d, b)' => Holds(d, b)
      BY <1>3 DEF Holds
    <2> QED
      BY <1>1, <2>1, LocksSame
  <1>6. FormInv'
    <2> SUFFICES ASSUME NEW b \in Actions, NEW t \in Stage
                 PROVE  /\ chat'[b][t] + outbox'[b][t] <= faults' + Recorded(b, t)'
                        /\ \A d \in Calls : Doing(d, "send", b, t)' => t \notin row'[b].column
      BY DEF FormInv
    <2>1. PICK i \in Nat, j \in Nat, f \in Nat : i = chat[b][t] /\ j = outbox[b][t] /\ f = faults
      BY <1>1
    <2>2. PICK p \in {0, 1}, q \in {0, 1} : p = Recorded(b, t) /\ q = Recorded(b, t)'
      BY DEF Recorded
    <2>3. i + j <= f + p
      BY <1>1, <2>1, <2>2 DEF FormInv
    <2>4. i + j <= f + 1 + q
      BY <2>3
    <2>5. chat'[b][t] + outbox'[b][t] <= faults' + Recorded(b, t)'
      BY <1>2, <2>1, <2>2, <2>4 DEF telegram
    <2>6. \A d \in Calls : Doing(d, "send", b, t)' => Doing(d, "send", b, t)
      BY <1>3 DEF Doing
    <2> QED
      BY <1>1, <1>2, <2>5, <2>6 DEF FormInv
  <1>7. FriendInv'
    BY <1>1, <1>2, <1>3, FriendsOf
  <1> QED
    BY <1>4, <1>5, <1>6, <1>7 DEF Inv

\* What an exception or a broken link leaves behind is an order or a stage.
Marks == stuck \subseteq Actions \X Stage /\ dropped \subseteq Orders

LEMMA CarriesOrders ==
  ASSUME NEW s \in Steps
  PROVE  Carries(s) \subseteq Orders
  <1>1. s.a \in Actions /\ s.stage \in Stage /\ "draft" \in Stage
    BY DEF Steps, Stage
  <1>2. /\ \A a \in Actions : Alarm(a) \in Orders
        /\ \A a \in Actions, t \in Stage : Speech(a, t) \in Orders
    BY OrderTypes, <1>1
  <1>3. CASE s.op \in {"alarm", "expire", "move"}
    BY <1>1, <1>2, <1>3 DEF Carries
  <1>4. CASE s.op \in {"ask", "enter", "send", "column"}
    BY <1>1, <1>2, <1>4 DEF Carries
  <1>5. CASE s.op = "open"
    BY <1>2, <1>5 DEF Carries
  <1>6. CASE s.op = "drafts"
    BY <1>1, <1>2, <1>6 DEF Carries
  <1>7. CASE s.op = "owed"
    BY <1>2, <1>7 DEF Carries
  <1>8. CASE s.op \notin {"alarm", "expire", "move", "ask", "enter", "send", "column", "open", "drafts", "owed"}
    BY <1>8 DEF Carries
  <1> QED
    BY <1>3, <1>4, <1>5, <1>6, <1>7, <1>8

LEMMA RaisesMarks ==
  ASSUME CallsOK, Marks, NEW c \in Calls, Raises(c)
  PROVE  Marks'
  <1>1. calls \in [Calls -> Seq(Steps)] /\ calls[c] # <<>>
    BY DEF CallsOK, Raises
  <1>2. PICK l \in Seq(Steps) : l = calls[c] /\ l # <<>>
    BY <1>1
  <1>3. PICK rest \in {<<>>, Spared(calls[c])} :
          /\ dropped' = dropped \cup UNION {Carries(calls[c][i]) : i \in 1 .. Len(calls[c]) - Len(rest)}
          /\ stuck' = IF Claims(c, Head(calls[c]).a, Head(calls[c]).stage)
                      THEN stuck \cup {<<Head(calls[c]).a, Head(calls[c]).stage>>} ELSE stuck
    BY Zenon DEF Raises
  <1>9. /\ rest \in {<<>>, Spared(l)}
        /\ dropped' = dropped \cup UNION {Carries(l[i]) : i \in 1 .. Len(l) - Len(rest)}
        /\ stuck' = IF Claims(c, Head(l).a, Head(l).stage)
                    THEN stuck \cup {<<Head(l).a, Head(l).stage>>} ELSE stuck
    BY <1>2, <1>3, Zenon
  <1>4. Head(l) \in Steps
    BY <1>2
  <1>5. stuck' \subseteq Actions \X Stage
    BY <1>9, <1>4 DEF Marks, Steps
  <1>6. Len(rest) \in Nat
    BY <1>9, <1>2 DEF Spared
  <1>7. ASSUME NEW i \in 1 .. Len(l) - Len(rest) PROVE Carries(l[i]) \subseteq Orders
    <2>1. l[i] \in Steps
      BY <1>2, <1>6
    <2> QED
      BY <2>1, CarriesOrders
  <1>8. dropped' \subseteq Orders
    BY <1>9, <1>7 DEF Marks
  <1> QED
    BY <1>5, <1>8 DEF Marks

LEMMA MarksNext ==
  ASSUME Inv, Marks, [PendingNext]_vars
  PROVE  Marks'
  <1>0. CallsOK /\ tasks \subseteq Orders
    BY DEF Inv, Typed
  <1>1. ASSUME UNCHANGED marks PROVE Marks'
    BY <1>1 DEF marks, Marks
  <1>2. CASE UNCHANGED vars
    BY <1>1, <1>2 DEF vars, marks
  <1>3. ASSUME NEW c \in Calls, Transition(c) PROVE Marks'
    BY <1>3 DEF Transition, Marks
  <1>4. ASSUME NEW c \in Calls, StepOf(c), ~Transition(c) PROVE Marks'
    BY <1>1, <1>4 DEF StepOf, Relate, Expire, Schedule, Ask, Claim, Enter, Send, SendFails, Column,
                      RecoverOpen, RecoverDrafts, RecoverOwed
  <1>5. ASSUME NEW c \in Calls, Raises(c) PROVE Marks'
    BY <1>0, <1>5, RaisesMarks
  <1>6. ASSUME \/ \E c \in Calls : \/ \E a \in Actions : Create(c, a) \/ CloseTurn(c, a)
                                   \/ \E a \in Actions, b \in Button : Click(c, a, b)
                                   \/ \E t \in AnyTask : TimerFires(c, t) \/ TaskAnswers(c, t)
                                   \/ Start(c)
               \/ \E a \in Actions : PassTime(a)
               \/ \E a \in Actions, s \in Stage : OutboxSend(a, s) \/ OutboxDrop(a, s)
        PROVE  Marks'
    BY <1>1, <1>6 DEF Create, CloseTurn, Click, TimerFires, TaskAnswers, Start, PassTime, OutboxSend, OutboxDrop
  <1>7. ASSUME NEW t \in tasks, TaskLost(t) PROVE Marks'
    BY <1>0, <1>7 DEF TaskLost, Marks
  <1>8. CASE Crash
    BY <1>8 DEF Crash, Marks
  <1> QED
    BY <1>2, <1>3, <1>4, <1>5, <1>6, <1>7, <1>8 DEF PendingNext

\* Nothing runs while the process is down.
Down == up \/ \A c \in Calls : calls[c] = <<>>

LEMMA StartKeeps ==
  ASSUME Inv, Down, NEW c \in Calls, Start(c)
  PROVE  Inv'
  <1>1. CallsOK /\ tasks \subseteq Orders /\ timers \subseteq Orders
    BY DEF Inv, Typed
  <1>2. PICK a \in Actions : a = CHOOSE b \in Actions : TRUE
    BY PendingAssumption
  <1>3. PICK l : l = [i \in 1 .. 3 |-> Step(<<"open", "drafts", "owed">>[i], a)]
    OBVIOUS
  <1>4. /\ ~up /\ up' = TRUE /\ calls' = [calls EXCEPT ![c] = l]
        /\ UNCHANGED <<row, friends, telegram, tasks, timers, faults>>
    BY <1>2, <1>3 DEF Start
  <1>5. /\ Step("open", a) \in Steps /\ Step("open", a).op = "open"
        /\ Step("drafts", a) \in Steps /\ Step("drafts", a).op = "drafts"
        /\ Step("owed", a) \in Steps /\ Step("owed", a).op = "owed"
    BY StepTypes DEF Ops, Stage
  <1>6. /\ l[1] = Step("open", a) /\ l[2] = Step("drafts", a) /\ l[3] = Step("owed", a)
    BY <1>3
  <1>7. l \in Seq(Steps) /\ Len(l) = 3 /\ l # <<>> /\ Head(l) = l[1]
    <2>1. l \in [1 .. 3 -> Steps]
      BY <1>3, <1>5, <1>6
    <2>2. ASSUME NEW n \in Nat, l \in [1 .. n -> Steps]
          PROVE  l \in Seq(Steps) /\ Len(l) = n
      BY <2>2
    <2>3. l \in Seq(Steps) /\ Len(l) = 3
      BY <2>1, <2>2
    <2>4. l # <<>>
      <3>1. Len(<<>>) = 0 /\ Len(l) # 0
        BY <2>3
      <3> QED
        BY <3>1, Zenon
    <2>5. Head(l) = l[1]
      BY <2>3, <2>4
    <2> QED
      BY <2>3, <2>4, <2>5
  <1>8. CallOK(l) /\ Head(l).op = "open"
    BY <1>5, <1>6, <1>7 DEF CallOK, MoveOK, Later
  <1>9. CallsOK' /\ calls'[c] = l /\ \A d \in Calls \ {c} : calls'[d] = calls[d]
    BY <1>1, <1>4, <1>7, <1>8 DEF CallsOK
  <1>10. \A d \in Calls : calls'[d] = calls[d] \/ (~Loud(d) /\ ~Loud(d)')
    BY <1>4, <1>7, <1>8, <1>9 DEF Loud, Down
  <1> QED
    BY <1>1, <1>4, <1>9, <1>10, OnlyCalls

-----------------------------------------------------------------------------
(* The invariant of every run. *)

LEMMA PendingInvInit == PendingInit => Inv /\ Down /\ Marks
  <1> SUFFICES ASSUME PendingInit PROVE Inv /\ Down /\ Marks
    OBVIOUS
  <1>1. calls = [c \in Calls |-> <<>>] /\ row = [a \in Actions |-> [status |-> "none", by |-> "nobody",
                                              late |-> FALSE, sent |-> FALSE, column |-> {}]]
    BY DEF PendingInit
  <1>2. CallsOK
    BY <1>1, NoStep DEF CallsOK
  <1>3. Typed
    <2>1. row \in [Actions -> Rows]
      BY <1>1 DEF Rows, Decider
    <2>2. 0 \in 0 .. MaxFaults
      BY PendingAssumption
    <2> QED
      BY <1>2, <2>1, <2>2 DEF Typed, PendingInit
  <1>4. \A c \in Calls, a \in Actions : ~Holds(c, a) /\ ~Relating(c, a) /\ \A s \in Stage : ~Doing(c, "send", a, s)
    BY <1>1 DEF Holds, Relating, Doing
  <1>5. FormInv
    <2>1. \A a \in Actions, s \in Stage : Recorded(a, s) \in {0, 1}
      BY DEF Recorded
    <2>2. \A a \in Actions, s \in Stage : chat[a][s] = 0 /\ outbox[a][s] = 0 /\ faults = 0
      BY DEF PendingInit
    <2>3. \A a \in Actions, s \in Stage : chat[a][s] + outbox[a][s] <= faults + Recorded(a, s)
      BY <2>1, <2>2
    <2> QED
      BY <1>4, <2>3 DEF FormInv
  <1> QED
    BY <1>1, <1>3, <1>4, <1>5 DEF Inv, Down, Marks, LockOnce, FriendInv, PendingInit

LEMMA PendingInvNext ==
  ASSUME Inv, Down, [PendingNext]_vars
  PROVE  Inv'
  <1>1. CASE UNCHANGED vars
    <2>1. UNCHANGED <<row, friends, telegram, tasks, timers, calls, up, faults>>
      BY <1>1 DEF vars, telegram
    <2>2. CallsOK' /\ up' \in BOOLEAN /\ tasks' \subseteq Orders /\ timers' \subseteq Orders
      BY <2>1 DEF Inv, Typed, CallsOK
    <2> QED
      BY <2>1, <2>2, OnlyCalls
  <1>2. ASSUME NEW c \in Calls, StepOf(c) PROVE Inv'
    BY <1>2, TransitionKeeps, RelateKeeps, ExpireKeeps, ScheduleKeeps, AskKeeps, ClaimKeeps, EnterKeeps,
       SendKeeps, SendFailsKeeps, ColumnKeeps, RecoverKeeps DEF StepOf
  <1>3. ASSUME NEW c \in Calls, NEW a \in Actions, Create(c, a) \/ CloseTurn(c, a) PROVE Inv'
    BY <1>3, CreateKeeps, CloseTurnKeeps
  <1>4. ASSUME NEW c \in Calls, NEW a \in Actions, NEW b \in Button, Click(c, a, b) PROVE Inv'
    BY <1>4, ClickKeeps
  <1>5. ASSUME NEW c \in Calls, NEW t \in AnyTask, TimerFires(c, t) \/ TaskAnswers(c, t) PROVE Inv'
    BY <1>5, OrdersKeep
  <1>6. ASSUME NEW c \in Calls, Start(c) PROVE Inv'
    BY <1>6, StartKeeps
  <1>7. ASSUME NEW t \in tasks, TaskLost(t) PROVE Inv'
    BY <1>7, TaskLostKeeps
  <1>8. ASSUME NEW a \in Actions, PassTime(a) PROVE Inv'
    BY <1>8, PassTimeKeeps
  <1>9. ASSUME NEW a \in Actions, NEW s \in Stage, OutboxSend(a, s) \/ OutboxDrop(a, s) PROVE Inv'
    BY <1>9, OutboxKeeps
  <1>10. ASSUME Crash PROVE Inv'
    BY <1>10, CrashKeeps
  <1>11. ASSUME NEW c \in Calls, Raises(c) PROVE Inv'
    BY <1>11, RaisesKeeps
  <1> QED
    BY <1>1, <1>2, <1>3, <1>4, <1>5, <1>6, <1>7, <1>8, <1>9, <1>10, <1>11 DEF PendingNext

LEMMA DownNext ==
  ASSUME Down, [PendingNext]_vars
  PROVE  Down'
  <1>1. CASE UNCHANGED vars
    BY <1>1 DEF vars, Down
  <1>2. ASSUME NEW c \in Calls, StepOf(c) PROVE Down'
    <2>1. calls[c] # <<>> /\ up' = up
      BY <1>2 DEF StepOf, Transition, Relate, Expire, Schedule, Ask, Claim, Enter, Send, SendFails, Column,
                  RecoverOpen, RecoverDrafts, RecoverOwed, At
    <2> QED
      BY <2>1 DEF Down
  <1>3. ASSUME NEW c \in Calls, NEW a \in Actions, Create(c, a) \/ CloseTurn(c, a) PROVE Down'
    BY <1>3 DEF Create, CloseTurn, Begin, Down
  <1>4. ASSUME NEW c \in Calls, NEW a \in Actions, NEW b \in Button, Click(c, a, b) PROVE Down'
    <2>1. PICK l : Begin(c, l)
      BY <1>4, ClickAsks
    <2>2. up' = up
      BY <1>4 DEF Click
    <2> QED
      BY <2>1, <2>2 DEF Begin, Down
  <1>5. ASSUME NEW c \in Calls, NEW t \in AnyTask, TimerFires(c, t) \/ TaskAnswers(c, t) PROVE Down'
    <2>1. up' = up /\ (calls' = calls \/ up)
      BY <1>5 DEF TimerFires, TaskAnswers, Begin
    <2> QED
      BY <2>1 DEF Down
  <1>6. ASSUME NEW c \in Calls, Start(c) PROVE Down'
    BY <1>6 DEF Start, Down
  <1>7. ASSUME NEW t \in tasks, TaskLost(t) PROVE Down'
    BY <1>7 DEF TaskLost, Down
  <1>8. ASSUME NEW a \in Actions, PassTime(a) PROVE Down'
    BY <1>8 DEF PassTime, Down
  <1>9. ASSUME NEW a \in Actions, NEW s \in Stage, OutboxSend(a, s) \/ OutboxDrop(a, s) PROVE Down'
    BY <1>9 DEF OutboxSend, OutboxDrop, Down
  <1>10. ASSUME Crash PROVE Down'
    BY <1>10 DEF Crash, Down
  <1>11. ASSUME NEW c \in Calls, Raises(c) PROVE Down'
    <2>1. calls[c] # <<>> /\ up' = up
      BY <1>11 DEF Raises
    <2> QED
      BY <2>1 DEF Down
  <1> QED
    BY <1>1, <1>2, <1>3, <1>4, <1>5, <1>6, <1>7, <1>8, <1>9, <1>10, <1>11 DEF PendingNext

LEMMA PendingInvariant == PendingSpec => [](Inv /\ Down /\ Marks)
  <1>1. PendingInit => Inv /\ Down /\ Marks
    BY PendingInvInit
  <1>2. Inv /\ Down /\ Marks /\ [PendingNext]_vars => (Inv /\ Down /\ Marks)'
    BY PendingInvNext, DownNext, MarksNext
  <1> QED
    BY <1>1, <1>2, PTL DEF PendingSpec

-----------------------------------------------------------------------------
(* The theorems. *)

\* Every value stays in its type through any interleaving of coroutines,
\* answers, deaths and starts, and the lock of a form has one holder at a time
\* (the locks of bot/pending_actions.py that _send_form takes).
THEOREM PendingTypeCorrect == PendingSpec => []PendingTypeOK
  <1>1. Inv /\ Marks => PendingTypeOK
    BY DEF Inv, Marks, Typed, LockOnce, Rows, Orders, PendingTypeOK
  <1> QED
    BY <1>1, PendingInvariant, PTL

\* Nobody is sent a stage of a form twice but for a fault: a send that failed
\* into the outbox, or a death or an exception between the send and its record.
THEOREM PendingOneForm == PendingSpec => []OneForm
  <1>1. Inv => OneForm
    <2> SUFFICES ASSUME Inv, NEW a \in Actions, NEW s \in Stage
                 PROVE  chat[a][s] + outbox[a][s] <= 1 + faults
      BY DEF OneForm
    <2>1. PICK i \in Nat, j \in Nat, f \in Nat : i = chat[a][s] /\ j = outbox[a][s] /\ f = faults
      BY PendingAssumption DEF Inv, Typed
    <2>2. PICK p \in {0, 1} : p = Recorded(a, s)
      BY DEF Recorded
    <2>3. i + j <= f + p
      BY <2>1, <2>2 DEF Inv, FormInv
    <2>4. i + j <= 1 + f
      BY <2>3
    <2> QED
      BY <2>1, <2>4
  <1> QED
    BY <1>1, PendingInvariant, PTL

\* A relationship is written at most once, and only for a form that was offered
\* and that its addressee has accepted, whoever clicks, expires or dies meanwhile.
THEOREM PendingConsent == PendingSpec => []Consent
  <1>1. Inv => Consent
    BY DEF Inv, FriendInv, Agreed, Consent
  <1> QED
    BY <1>1, PendingInvariant, PTL

\* No click, alarm or start takes a verdict back or gives it to somebody else:
\* the transition of the table is the only write, and it starts from an open row.
THEOREM PendingVerdictFinal == PendingSpec => VerdictFinal
  <1> DEFINE Final == \A a \in Actions : row[a].status \in Verdict =>
                        row'[a].status = row[a].status /\ row'[a].by = row[a].by
  <1>1. ASSUME Inv, Down, [PendingNext]_vars PROVE Final
    <2> SUFFICES ASSUME NEW a \in Actions, row[a].status \in Verdict
                 PROVE  row'[a].status = row[a].status /\ row'[a].by = row[a].by
      OBVIOUS
    <2>1. row \in [Actions -> Rows] /\ CallsOK
      BY <1>1 DEF Inv, Typed
    <2>2. row[a].status # "none" /\ row[a].status \notin Open
      BY DEF Verdict, Open
    <2>3. ASSUME NEW c \in Calls, Transition(c) PROVE row'[a] = row[a]
      <3>1. calls[c] # <<>> /\ Head(calls[c]).op = "move"
        BY <2>3 DEF Transition, At
      <3>2. PICK b \in Actions, to \in {"pending"} \cup Verdict : b = Head(calls[c]).a /\ to = Head(calls[c]).to
        BY <2>1, <3>1, HeadStep DEF Steps, MoveOK
      <3>3. \/ row' = row
            \/ row[b].status \in FromStatus(to) /\ \A d \in Actions : d # b => row'[d] = row[d]
        BY <2>1, <2>3, <3>2 DEF Transition
      <3>4. FromStatus(to) \subseteq Open
        BY FromOpen
      <3> QED
        BY <2>2, <3>3, <3>4
    <2>4. ASSUME NEW c \in Calls, Column(c) PROVE row'[a].status = row[a].status /\ row'[a].by = row[a].by
      <3>1. calls[c] # <<>>
        BY <2>4 DEF Column, At
      <3>2. PICK b \in Actions, st \in Stage : b = Head(calls[c]).a /\ st = Head(calls[c]).stage
        BY <2>1, <3>1, HeadStep DEF Steps
      <3>3. PICK old \in Rows : old = row[b]
        BY <2>1
      <3>4. PICK r : r = [old EXCEPT !.column = old.column \cup {st}]
        OBVIOUS
      <3>5. r.status = old.status /\ r.by = old.by
        BY <3>4 DEF Rows
      <3>6. row' = [row EXCEPT ![b] = r]
        BY <2>4, <3>2, <3>3, <3>4 DEF Column
      <3> QED
        BY <2>1, <3>3, <3>5, <3>6
    <2>5. ASSUME NEW c \in Calls, StepOf(c), ~Transition(c), ~Column(c) PROVE row' = row
      BY <2>5 DEF StepOf, Relate, Expire, Schedule, Ask, Claim, Enter, Send, SendFails,
                  RecoverOpen, RecoverDrafts, RecoverOwed
    <2>6. ASSUME NEW c \in Calls, NEW b \in Actions, Create(c, b) \/ CloseTurn(c, b) PROVE row'[a] = row[a]
      BY <2>1, <2>2, <2>6 DEF Create, CloseTurn
    <2>7. ASSUME NEW b \in Actions, PassTime(b) PROVE row'[a] = row[a]
      BY <2>1, <2>2, <2>7 DEF PassTime
    <2>8. ASSUME \/ \E c \in Calls : \/ \E b \in Actions, k \in Button : Click(c, b, k)
                                     \/ \E t \in AnyTask : TimerFires(c, t) \/ TaskAnswers(c, t)
                                     \/ Start(c)
                 \/ \E c \in Calls : Raises(c)
                 \/ \E t \in tasks : TaskLost(t)
                 \/ \E b \in Actions, s \in Stage : OutboxSend(b, s) \/ OutboxDrop(b, s)
                 \/ Crash
                 \/ UNCHANGED vars
          PROVE  row' = row
      BY <2>8 DEF Click, Raises, TimerFires, TaskAnswers, Start, TaskLost, OutboxSend, OutboxDrop, Crash, vars
    <2> QED
      BY <1>1, <2>3, <2>4, <2>5, <2>6, <2>7, <2>8 DEF PendingNext
  <1>2. Inv /\ Down /\ [PendingNext]_vars => [Final]_vars
    BY <1>1
  <1> QED
    BY <1>2, PendingInvariant, PTL DEF PendingSpec, VerdictFinal
=============================================================================
