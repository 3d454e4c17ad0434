-------------------------- MODULE AgentWorker_proofs --------------------------
(***************************************************************************)
(* Theorems of the agent executor composed with the hub's queue, for any   *)
(* number of slots and jobs and any number of deaths and lost calls.       *)
(***************************************************************************)
EXTENDS AgentWorker, HubQueue_proofs

Place      == AtWork \cup Down \cup {"idle", "looking", "resume", "granted"}
OutMessage == [job : Job, kind : {"started", "question", "done", "failed", "stopped"}]
Mail       == [letters : SUBSET Message, upto : 0..MaxSeq]
Closing    == [job : Job \cup {NoJob}, kind : {"none", "stopped", "failed"}]
Parked     == [Job -> {"no", "waiting", "answered"}]

\* The types of a step's variables; an executor of agent jobs has no test_done
\* to send.
AgentTypes ==
  /\ cursor \in [Slot -> 0..MaxSeq]
  /\ held \in [Slot -> Job \cup {NoJob}]
  /\ parked \in [Slot -> Parked]
  /\ dialog \in [Slot -> [Job -> {"none", "asked", "answered"}]]
  /\ outbox \in [Slot -> Seq(OutMessage)]
  /\ pc \in [Slot -> Place]
  /\ task \in [Slot -> Job \cup {NoJob}]
  /\ stopped \in [Slot -> SUBSET Job]
  /\ mail \in [Slot -> Mail]
  /\ closing \in [Slot -> Closing]
  /\ waits \in [Slot -> SUBSET {"claim", "poll"}]
  /\ orphan \in [Job -> BOOLEAN]
  /\ budget \in [{"calls", "crashes", "losses"} -> Nat]

\* Where a slot is says which job it has at hand and which one it has saved;
\* a saved job is not parked.
SlotOK(s) ==
  /\ pc[s] \in {"off", "boot", "idle", "looking"} <=> task[s] = NoJob
  /\ pc[s] \in {"starting", "declining", "work", "flush", "concluding", "failing", "resume"}
       => held[s] = task[s]
  /\ pc[s] \in {"idle", "looking", "granted", "parking"} => held[s] = NoJob
  /\ pc[s] \in {"stopping", "lastword", "releasing"} => held[s] \in {task[s], NoJob}
  /\ held[s] # NoJob => parked[s][held[s]] = "no"
  /\ closing[s].job = NoJob <=> closing[s].kind = "none"

\* A poll's letters are of the mailbox and above the cursor.
MailOK(s) ==
  /\ mail[s].letters \subseteq messages
  /\ mail[s] = NoMail \/ mail[s].upto > cursor[s]

-----------------------------------------------------------------------------
(* Messages in the outbox.                                                 *)

LEMMA Appended ==
  ASSUME NEW l \in Seq(OutMessage), NEW m \in OutMessage
  PROVE  /\ Append(l, m) \in Seq(OutMessage)
         /\ Len(Append(l, m)) = Len(l) + 1
         /\ Append(l, m)[Len(l) + 1] = m
         /\ \A i \in 1 .. Len(l) : Append(l, m)[i] = l[i]
  OBVIOUS

LEMMA Popped ==
  ASSUME NEW l \in Seq(OutMessage), l # <<>>
  PROVE  /\ Head(l) = l[1] /\ Head(l) \in OutMessage
         /\ Tail(l) \in Seq(OutMessage)
         /\ Len(Tail(l)) = Len(l) - 1
         /\ \A i \in 1 .. Len(l) - 1 : Tail(l)[i] = l[i + 1]
         /\ Len(l) > 0
  OBVIOUS

LEMMA SeqWider ==
  ASSUME NEW S, NEW T, S \subseteq T, NEW l \in Seq(S)
  PROVE  l \in Seq(T)
  OBVIOUS

\* What is in the outbox stays there over a send, and what is sent is there.
LEMMA SendPends ==
  ASSUME AgentTypes, NEW s \in Slot, NEW j \in Job, NEW kind, NEW loop, Send(s, j, kind, loop),
         [job |-> j, kind |-> kind] \in OutMessage
  PROVE  /\ outbox' \in [Slot -> Seq(OutMessage)]
         /\ \A x \in Slot \ {s} : outbox'[x] = outbox[x]
         /\ \A i \in Job : \A kinds : Pending(s, i, kinds) => Pending(s, i, kinds)'
         /\ \A kinds : kind \in kinds => Pending(s, j, kinds)'
  <1>1. PICK l \in Seq(OutMessage), m \in OutMessage : l = outbox[s] /\ m = [job |-> j, kind |-> kind]
    BY DEF AgentTypes
  <1>2. outbox' = [outbox EXCEPT ![s] = Append(l, m)]
    BY <1>1 DEF Send
  <1>3. PICK k : k = Append(l, m)
    OBVIOUS
  <1>4. /\ k \in Seq(OutMessage) /\ Len(k) = Len(l) + 1 /\ k[Len(l) + 1] = m
        /\ \A i \in 1 .. Len(l) : k[i] = l[i]
    BY <1>3, Appended
  <1>5. /\ outbox' \in [Slot -> Seq(OutMessage)] /\ outbox'[s] = k
        /\ \A x \in Slot \ {s} : outbox'[x] = outbox[x]
    BY <1>2, <1>3, <1>4 DEF AgentTypes
  <1>6. DOMAIN l = 1 .. Len(l) /\ DOMAIN k = 1 .. Len(l) + 1 /\ Len(l) \in Nat
    BY <1>4
  <1>7. ASSUME NEW i \in Job, NEW kinds, Pending(s, i, kinds)
        PROVE  Pending(s, i, kinds)'
    <2>1. PICK n \in 1 .. Len(l) : l[n].job = i /\ l[n].kind \in kinds
      BY <1>1, <1>6, <1>7 DEF Pending
    <2>2. n \in DOMAIN k /\ k[n] = l[n]
      BY <1>4, <1>6, <2>1
    <2> QED BY <1>5, <2>1, <2>2 DEF Pending
  <1>8. ASSUME NEW kinds, kind \in kinds
        PROVE  Pending(s, j, kinds)'
    <2>1. Len(l) + 1 \in DOMAIN k /\ k[Len(l) + 1].job = j /\ k[Len(l) + 1].kind \in kinds
      BY <1>1, <1>4, <1>6, <1>8
    <2> QED BY <1>5, <2>1 DEF Pending
  <1> QED BY <1>5, <1>7, <1>8

\* What a drain takes out is the first message only.
LEMMA PopPends ==
  ASSUME AgentTypes, NEW s \in Slot, Pop(s), outbox[s] # <<>>
  PROVE  /\ outbox' \in [Slot -> Seq(OutMessage)]
         /\ \A x \in Slot \ {s} : outbox'[x] = outbox[x]
         /\ \A i \in Job : \A kinds :
              Pending(s, i, kinds) /\ ~(Head(outbox[s]).job = i /\ Head(outbox[s]).kind \in kinds)
                => Pending(s, i, kinds)'
  <1>1. PICK l \in Seq(OutMessage) : l = outbox[s] /\ l # <<>>
    BY DEF AgentTypes
  <1>2. PICK k : k = Tail(l)
    OBVIOUS
  <1>3. /\ k \in Seq(OutMessage) /\ Len(k) = Len(l) - 1 /\ Head(l) = l[1] /\ Len(l) > 0
        /\ \A i \in 1 .. Len(l) - 1 : k[i] = l[i + 1]
    BY <1>1, <1>2, Popped
  <1>4. /\ outbox' \in [Slot -> Seq(OutMessage)] /\ outbox'[s] = k
        /\ \A x \in Slot \ {s} : outbox'[x] = outbox[x]
    BY <1>1, <1>2, <1>3 DEF AgentTypes, Pop
  <1>5. DOMAIN l = 1 .. Len(l) /\ DOMAIN k = 1 .. Len(l) - 1 /\ Len(l) \in Nat
    BY <1>3
  <1>6. ASSUME NEW i \in Job, NEW kinds, Pending(s, i, kinds),
               ~(Head(outbox[s]).job = i /\ Head(outbox[s]).kind \in kinds)
        PROVE  Pending(s, i, kinds)'
    <2>1. PICK n \in 1 .. Len(l) : l[n].job = i /\ l[n].kind \in kinds
      BY <1>1, <1>5, <1>6 DEF Pending
    <2>2. n # 1
      BY <1>1, <1>3, <1>6, <2>1
    <2>3. n - 1 \in DOMAIN k /\ k[n - 1] = l[n]
      BY <1>3, <1>5, <2>1, <2>2
    <2> QED BY <1>4, <2>1, <2>3 DEF Pending
  <1> QED BY <1>4, <1>6

-----------------------------------------------------------------------------
(* The composition is a use of the queue: every theorem of the queue holds *)
(* of it.                                                                  *)

LEMMA FirstMessage ==
  ASSUME AgentTypes, NEW s \in Slot, outbox[s] # <<>>
  PROVE  /\ Head(outbox[s]).job \in Job
         /\ Head(outbox[s]).kind \in {"started", "question", "done", "failed", "stopped"}
  <1>1. PICK l \in Seq(OutMessage) : l = outbox[s]
    BY DEF AgentTypes
  <1>2. Head(l) \in OutMessage
    BY <1>1, Popped
  <1> QED BY <1>1, <1>2 DEF OutMessage

LEMMA HubPostIsHubStep ==
  ASSUME NEW j \in Job, NEW kind \in {"started", "question", "done", "failed", "stopped"},
         HubPost(j, kind)
  PROVE  HubNext
  <1>1. kind # "started" => kind \in ReportKind
    BY DEF ReportKind
  <1>2. "started" \in ProgressKind
    BY DEF ProgressKind
  <1>3. ExecutorCall(Agent)
    BY <1>1, <1>2 DEF HubPost, ExecutorCall
  <1> QED BY <1>3, AgentAssumption DEF HubNext

\* The steps of the executor that call nobody.
Inner(s) ==
  \/ TakeResumed(s) \/ TakeAnswered(s) \/ Look(s) \/ LooksInVain(s)
  \/ Handle(s) \/ Begin(s)
  \/ Concludes(s) \/ Raises(s) \/ Asks(s) \/ Parking(s)
  \/ LastWord(s) \/ Sent(s) \/ HandleEnds(s)
  \/ NextLetter(s) \/ CloseParked(s) \/ PollEnds(s)
  \/ Restart(s) \/ Booted(s)

LEMMA InnerLeavesHub ==
  ASSUME NEW s \in Slot, Inner(s)
  PROVE  UNCHANGED hubVars
  BY DEF Inner, TakeResumed, TakeAnswered, Continue, Look, LooksInVain, Handle, Begin,
         Concludes, Raises, Asks, Parking, LastWord, Sent, HandleEnds, NextLetter, CloseParked, PollEnds, Restart, Booted

\* What a slot or the owner does is a call of the hub, or none.
LEMMA AgentStepIsHubStep ==
  ASSUME HubTypeOK, AgentTypes, [AgentNext]_allVars
  PROVE  [HubNext]_hubVars
  <1>1. ASSUME NEW s \in Slot, NEW j \in Job, ClaimCall(s, j) PROVE HubNext
    <2>1. ExecutorCall(Agent)
      BY <1>1 DEF ClaimCall, ExecutorCall
    <2> QED BY <2>1, AgentAssumption DEF HubNext
  <1>2. ASSUME NEW s \in Slot, PollCall(s) PROVE HubNext
    <2>1. PICK last \in Deliverable(Agent, cursor[s]) : Poll(Agent, cursor[s], last.seq)
      BY <1>2 DEF PollCall
    <2>2. cursor[s] \in 0..MaxSeq /\ last.seq \in 1..MaxSeq
      BY DEF HubTypeOK, AgentTypes, Deliverable, Message
    <2>3. ExecutorCall(Agent)
      BY <2>1, <2>2 DEF ExecutorCall
    <2> QED BY <2>3, AgentAssumption DEF HubNext
  <1>3. ASSUME NEW s \in Slot, Drain(s) PROVE [HubNext]_hubVars
    <2>1. HubPost(Head(outbox[s]).job, Head(outbox[s]).kind) \/ UNCHANGED hubVars
      BY <1>3 DEF Drain
    <2>2. outbox[s] # <<>>
      BY <1>3 DEF Drain
    <2> QED BY <2>1, <2>2, FirstMessage, HubPostIsHubStep
  <1>4. ASSUME NEW s \in Slot, Inner(s) PROVE UNCHANGED hubVars
    BY <1>4, InnerLeavesHub
  <1>5. ASSUME NEW j \in Job, OwnerSubmit(j) \/ OwnerCall(j) PROVE HubNext
    BY <1>5 DEF OwnerSubmit, OwnerCall, HubNext, ClientCall
  <1>6. ASSUME Crash \/ \E s \in Slot : DiesParking(s) PROVE UNCHANGED hubVars
    BY <1>6 DEF Crash, DiesParking
  <1>7. CASE UNCHANGED allVars
    BY <1>7 DEF allVars
  <1> QED
    BY <1>1, <1>2, <1>3, <1>4, <1>5, <1>6, <1>7 DEF AgentNext, ClaimLoop, PollLoop, Inner

-----------------------------------------------------------------------------
(* Types.                                                                  *)

LEMMA GoType ==
  ASSUME AgentTypes, NEW s \in Slot, NEW where \in Place, Go(s, where)
  PROVE  pc' \in [Slot -> Place] /\ pc'[s] = where /\ \A x \in Slot \ {s} : pc'[x] = pc[x]
  BY DEF Go, AgentTypes

LEMMA SendType ==
  ASSUME AgentTypes, NEW s \in Slot, NEW j \in Job, NEW loop \in {"claim", "poll"},
         NEW kind \in {"started", "question", "done", "failed", "stopped"},
         Send(s, j, kind, loop)
  PROVE  /\ outbox' \in [Slot -> Seq(OutMessage)] /\ waits' \in [Slot -> SUBSET {"claim", "poll"}]
         /\ \A x \in Slot \ {s} : outbox'[x] = outbox[x]
         /\ \A i \in Job : \A kinds : Pending(s, i, kinds) => Pending(s, i, kinds)'
         /\ \A kinds : kind \in kinds => Pending(s, j, kinds)'
  <1>1. [job |-> j, kind |-> kind] \in OutMessage
    BY DEF OutMessage
  <1>2. waits' \in [Slot -> SUBSET {"claim", "poll"}]
    BY DEF Send, AgentTypes
  <1> QED BY <1>1, <1>2, SendPends

LEMMA ParkType ==
  ASSUME AgentTypes, NEW s \in Slot, NEW j \in Job, NEW how \in {"no", "waiting", "answered"},
         Park(s, j, how)
  PROVE  /\ parked' \in [Slot -> Parked]
         /\ parked'[s][j] = how /\ \A i \in Job \ {j} : parked'[s][i] = parked[s][i]
         /\ \A x \in Slot \ {s} : parked'[x] = parked[x]
  BY DEF Park, AgentTypes, Parked

LEMMA WriteType ==
  ASSUME AgentTypes, NEW s \in Slot, NEW j \in Job, NEW what \in {"none", "asked", "answered"},
         Write(s, j, what)
  PROVE  dialog' \in [Slot -> [Job -> {"none", "asked", "answered"}]]
  BY DEF Write, AgentTypes

\* What the claim loop has at hand while it is past its claim.
LEMMA AtHand ==
  ASSUME AgentTypes, NEW s \in Slot, SlotOK(s), pc[s] \notin {"off", "boot", "idle", "looking"}
  PROVE  task[s] \in Job /\ task[s] # NoJob
  BY AgentAssumption DEF AgentTypes, SlotOK

\* What the invariants say of a slot is in these variables.
Same(x) ==
  /\ pc'[x] = pc[x] /\ task'[x] = task[x] /\ held'[x] = held[x] /\ parked'[x] = parked[x]
  /\ closing'[x] = closing[x] /\ outbox'[x] = outbox[x]
  /\ mail'[x] = mail[x] /\ cursor'[x] = cursor[x]

\* A step of one slot keeps the types, the shape of that slot, and the others.
Shaped(s) ==
  /\ AgentTypes'
  /\ SlotOK(s)'
  /\ \A x \in Slot \ {s} : Same(x)

LEMMA ContinueShape ==
  ASSUME AgentTypes, NEW s \in Slot, SlotOK(s), NEW j \in Job, Continue(s, j)
  PROVE  Shaped(s)
  <1>1. parked' \in [Slot -> Parked] /\ parked'[s][j] = "no"
        /\ \A x \in Slot \ {s} : parked'[x] = parked[x]
    BY ParkType DEF Continue
  <1>2. /\ task' = [task EXCEPT ![s] = j] /\ held' = [held EXCEPT ![s] = j]
        /\ UNCHANGED <<cursor, dialog, stopped, mail, closing, orphan, budget>>
    BY DEF Continue
  <1>3. /\ pc' \in [Slot -> Place] /\ pc'[s] \in {"declining", "work"}
        /\ \A x \in Slot \ {s} : pc'[x] = pc[x]
    BY GoType DEF Continue, Place, AtWork, InBody
  <1>4. /\ outbox' \in [Slot -> Seq(OutMessage)] /\ waits' \in [Slot -> SUBSET {"claim", "poll"}]
        /\ \A x \in Slot \ {s} : outbox'[x] = outbox[x]
    <2>1. CASE Send(s, j, "stopped", "claim")
      BY <2>1, SendType
    <2>2. CASE UNCHANGED <<outbox, waits>>
      BY <2>2 DEF AgentTypes
    <2> QED BY <2>1, <2>2 DEF Continue
  <1>5. AgentTypes'
    BY <1>1, <1>2, <1>3, <1>4 DEF AgentTypes
  <1>6. SlotOK(s)'
    BY <1>1, <1>2, <1>3, AgentAssumption DEF SlotOK, AgentTypes
  <1>7. \A x \in Slot \ {s} : Same(x)
    BY <1>1, <1>2, <1>3, <1>4 DEF Same, AgentTypes
  <1> QED BY <1>5, <1>6, <1>7 DEF Shaped

\* The claim loop asks for the models, and comes back for want of a job.
LEMMA LookShape ==
  ASSUME AgentTypes, NEW s \in Slot, SlotOK(s), Look(s) \/ LooksInVain(s)
  PROVE  Shaped(s)
  <1>1. PICK w \in {"looking", "idle"} : Go(s, w) /\ pc[s] \in {"looking", "idle"}
    BY DEF Look, LooksInVain
  <1>2. /\ pc' \in [Slot -> Place] /\ pc'[s] = w
        /\ \A x \in Slot \ {s} : pc'[x] = pc[x]
    BY <1>1, GoType DEF Place
  <1>3. UNCHANGED <<cursor, held, parked, dialog, outbox, task, stopped, mail, closing, waits,
                    orphan, budget>>
    BY DEF Look, LooksInVain, files, stateFile
  <1>4. AgentTypes'
    BY <1>2, <1>3 DEF AgentTypes
  <1>5. SlotOK(s)'
    BY <1>1, <1>2, <1>3 DEF SlotOK
  <1> QED BY <1>2, <1>3, <1>4, <1>5 DEF Shaped, Same

\* The claim loop saves its job, or parks it, and sends what it has to.
LEMMA HandleShape ==
  ASSUME AgentTypes, NEW s \in Slot, SlotOK(s), Handle(s)
  PROVE  Shaped(s)
  <1>0. PICK j \in Job : j = task[s] /\ j # NoJob
    BY AtHand DEF Handle
  <1>1. parked' \in [Slot -> Parked] /\ parked'[s][j] = "no"
        /\ \A x \in Slot \ {s} : parked'[x] = parked[x]
    BY <1>0, ParkType DEF Handle
  <1>2. /\ held' = [held EXCEPT ![s] = j]
        /\ UNCHANGED <<cursor, task, stopped, mail, closing, orphan, budget>>
    BY <1>0 DEF Handle
  <1>3. /\ pc' \in [Slot -> Place] /\ pc'[s] = "starting"
        /\ \A x \in Slot \ {s} : pc'[x] = pc[x]
    BY GoType DEF Handle, Place, AtWork
  <1>4. /\ outbox' \in [Slot -> Seq(OutMessage)] /\ waits' \in [Slot -> SUBSET {"claim", "poll"}]
        /\ \A x \in Slot \ {s} : outbox'[x] = outbox[x]
    BY <1>0, SendType DEF Handle
  <1>5. dialog' \in [Slot -> [Job -> {"none", "asked", "answered"}]]
    BY <1>0, WriteType DEF Handle
  <1>6. AgentTypes'
    BY <1>1, <1>2, <1>3, <1>4, <1>5 DEF AgentTypes
  <1>7. SlotOK(s)'
    BY <1>0, <1>1, <1>2, <1>3, AgentAssumption DEF SlotOK, AgentTypes
  <1>8. \A x \in Slot \ {s} : Same(x)
    BY <1>1, <1>2, <1>3, <1>4 DEF Same, AgentTypes
  <1> QED BY <1>6, <1>7, <1>8 DEF Shaped

LEMMA ParkingShape ==
  ASSUME AgentTypes, NEW s \in Slot, SlotOK(s), Parking(s)
  PROVE  Shaped(s)
  <1>0. PICK j \in Job : j = task[s] /\ j # NoJob
    BY AtHand DEF Parking
  <1>1. parked' \in [Slot -> Parked] /\ \A x \in Slot \ {s} : parked'[x] = parked[x]
    BY <1>0, ParkType DEF Parking
  <1>2. /\ held' = [held EXCEPT ![s] = NoJob]
        /\ UNCHANGED <<cursor, dialog, task, stopped, mail, closing, orphan, budget>>
    BY DEF Parking
  <1>3. /\ pc' \in [Slot -> Place] /\ pc'[s] = "parking"
        /\ \A x \in Slot \ {s} : pc'[x] = pc[x]
    BY GoType DEF Parking, Place, AtWork, InBody
  <1>4. /\ outbox' \in [Slot -> Seq(OutMessage)] /\ waits' \in [Slot -> SUBSET {"claim", "poll"}]
        /\ \A x \in Slot \ {s} : outbox'[x] = outbox[x]
    BY <1>0, SendType DEF Parking
  <1>5. AgentTypes'
    BY <1>1, <1>2, <1>3, <1>4 DEF AgentTypes
  <1>6. SlotOK(s)'
    BY <1>0, <1>1, <1>2, <1>3, AgentAssumption DEF SlotOK, AgentTypes
  <1>7. \A x \in Slot \ {s} : Same(x)
    BY <1>1, <1>2, <1>3, <1>4 DEF Same, AgentTypes
  <1> QED BY <1>5, <1>6, <1>7 DEF Shaped

\* The steps of the claim loop that move it, and send or write.
LEMMA MoveShape ==
  ASSUME AgentTypes, NEW s \in Slot, SlotOK(s),
         Begin(s) \/ Concludes(s) \/ Raises(s) \/ Asks(s) \/ LastWord(s) \/ Sent(s)
  PROVE  Shaped(s)
  <1>0. PICK j \in Job : j = task[s] /\ j # NoJob
    BY AtHand DEF Begin, Concludes, Raises, Asks, LastWord, Sent
  <1>1. UNCHANGED <<stateFile, task, stopped, mail, closing, orphan, budget>>
    BY DEF Begin, Concludes, Raises, Asks, LastWord, Sent, files
  <1>2. PICK w \in Place :
          /\ Go(s, w)
          /\ \/ pc[s] = "starting" /\ w \in {"declining", "work"}
             \/ pc[s] = "work" /\ w \in {"concluding", "flush", "failing"}
             \/ pc[s] = "flush" /\ w = "failing"
             \/ pc[s] \in {"failing", "stopping"} /\ w = "lastword"
             \/ pc[s] \in {"parking", "concluding", "lastword"} /\ w = "releasing"
    BY DEF Begin, Concludes, Raises, Asks, LastWord, Sent, Place, AtWork, InBody, InTail
  <1>3. /\ pc' \in [Slot -> Place] /\ pc'[s] = w
        /\ \A x \in Slot \ {s} : pc'[x] = pc[x]
    BY <1>2, GoType
  <1>4. /\ outbox' \in [Slot -> Seq(OutMessage)] /\ waits' \in [Slot -> SUBSET {"claim", "poll"}]
        /\ \A x \in Slot \ {s} : outbox'[x] = outbox[x]
    <2>1. ASSUME NEW kind \in {"done", "failed", "stopped"}, Send(s, j, kind, "claim")
          PROVE  /\ outbox' \in [Slot -> Seq(OutMessage)]
                 /\ waits' \in [Slot -> SUBSET {"claim", "poll"}]
                 /\ \A x \in Slot \ {s} : outbox'[x] = outbox[x]
      BY <2>1, SendType
    <2>2. CASE UNCHANGED <<outbox, waits>>
      BY <2>2 DEF AgentTypes
    <2>3. UNCHANGED <<outbox, waits>> \/ \E kind \in {"done", "failed", "stopped"} : Send(s, j, kind, "claim")
      BY <1>0 DEF Begin, Concludes, Raises, Asks, LastWord, Sent, files
    <2> QED BY <2>1, <2>2, <2>3
  <1>5. dialog' \in [Slot -> [Job -> {"none", "asked", "answered"}]]
    <2>1. Write(s, j, "asked") \/ UNCHANGED dialog
      BY <1>0 DEF Begin, Concludes, Raises, Asks, LastWord, Sent, files
    <2> QED BY <2>1, WriteType DEF AgentTypes
  <1>6. AgentTypes'
    BY <1>1, <1>3, <1>4, <1>5 DEF AgentTypes, stateFile
  <1>7. SlotOK(s)'
    BY <1>0, <1>1, <1>2, <1>3, AgentAssumption DEF SlotOK, AgentTypes, stateFile
  <1>8. \A x \in Slot \ {s} : Same(x)
    BY <1>1, <1>3, <1>4 DEF Same, stateFile
  <1> QED BY <1>6, <1>7, <1>8 DEF Shaped

LEMMA EndShape ==
  ASSUME AgentTypes, NEW s \in Slot, SlotOK(s), HandleEnds(s)
  PROVE  Shaped(s)
  <1>0. PICK j \in Job : j = task[s] /\ j # NoJob
    BY AtHand DEF HandleEnds
  <1>1. /\ held' = [held EXCEPT ![s] = NoJob] /\ task' = [task EXCEPT ![s] = NoJob]
        /\ stopped' = [stopped EXCEPT ![s] = @ \ {j}]
        /\ UNCHANGED <<cursor, parked, outbox, mail, closing, waits, orphan, budget>>
    BY <1>0 DEF HandleEnds
  <1>2. /\ pc' \in [Slot -> Place] /\ pc'[s] = "idle"
        /\ \A x \in Slot \ {s} : pc'[x] = pc[x]
    BY GoType DEF HandleEnds, Place
  <1>3. dialog' \in [Slot -> [Job -> {"none", "asked", "answered"}]]
    <2>1. Write(s, j, "none") \/ UNCHANGED dialog
      BY <1>0 DEF HandleEnds
    <2> QED BY <2>1, WriteType DEF AgentTypes
  <1>4. AgentTypes'
    BY <1>1, <1>2, <1>3 DEF AgentTypes
  <1>5. SlotOK(s)'
    BY <1>1, <1>2, AgentAssumption DEF SlotOK, AgentTypes
  <1>6. \A x \in Slot \ {s} : Same(x)
    BY <1>1, <1>2 DEF Same, AgentTypes
  <1> QED BY <1>4, <1>5, <1>6 DEF Shaped

\* The process of a slot is started.
LEMMA StartShape ==
  ASSUME AgentTypes, NEW s \in Slot, SlotOK(s), Restart(s) \/ Booted(s)
  PROVE  Shaped(s)
  <1>1. CASE Restart(s)
    <2>1. /\ pc' \in [Slot -> Place] /\ pc'[s] = "boot"
          /\ \A x \in Slot \ {s} : pc'[x] = pc[x]
      BY <1>1, GoType DEF Restart, Place, Down
    <2>2. /\ waits' \in [Slot -> SUBSET {"claim", "poll"}] /\ pc[s] = "off"
          /\ UNCHANGED <<cursor, held, parked, dialog, outbox, task, stopped, mail, closing, orphan, budget>>
      BY <1>1 DEF Restart, AgentTypes, files, stateFile
    <2>3. AgentTypes'
      BY <2>1, <2>2 DEF AgentTypes
    <2>4. SlotOK(s)'
      BY <2>1, <2>2 DEF SlotOK
    <2> QED BY <2>1, <2>2, <2>3, <2>4 DEF Shaped, Same
  <1>2. CASE Booted(s)
    <2>1. PICK j \in Job \cup {NoJob} : j = held[s]
      BY DEF AgentTypes
    <2>2. /\ pc' \in [Slot -> Place] /\ pc'[s] = IF j = NoJob THEN "idle" ELSE "resume"
          /\ \A x \in Slot \ {s} : pc'[x] = pc[x]
      BY <1>2, <2>1, GoType DEF Booted, Place
    <2>3. /\ task' = [task EXCEPT ![s] = j] /\ pc[s] = "boot"
          /\ UNCHANGED <<cursor, held, parked, dialog, outbox, stopped, mail, closing, waits, orphan, budget>>
      BY <1>2, <2>1 DEF Booted, files, stateFile
    <2>4. AgentTypes'
      BY <2>2, <2>3 DEF AgentTypes
    <2>5. SlotOK(s)'
      BY <2>1, <2>2, <2>3 DEF SlotOK, AgentTypes
    <2>6. \A x \in Slot \ {s} : Same(x)
      BY <2>2, <2>3 DEF Same, AgentTypes
    <2> QED BY <2>4, <2>5, <2>6 DEF Shaped
  <1> QED BY <1>1, <1>2

-----------------------------------------------------------------------------
(* The poll loop.                                                          *)

\* What a letter of a kind about a job may change, and how: the loop of a job in
\* work, or what is parked.
LetterTypes ==
  /\ parked' \in [Slot -> Parked] /\ pc' \in [Slot -> Place]
  /\ dialog' \in [Slot -> [Job -> {"none", "asked", "answered"}]]
  /\ stopped' \in [Slot -> SUBSET Job] /\ waits' \in [Slot -> SUBSET {"claim", "poll"}]
  /\ closing' \in [Slot -> Closing]

LetterStays(s, j) ==
  /\ \A x \in Slot \ {s} : pc'[x] = pc[x] /\ parked'[x] = parked[x] /\ closing'[x] = closing[x]
  /\ \A i \in Job \ {j} : parked'[s][i] = parked[s][i]

Interrupts(s) ==
  /\ UNCHANGED <<parked, closing>>
  /\ \/ pc'[s] = pc[s]
     \/ pc[s] \in InBody /\ pc'[s] = "stopping"
     \/ pc[s] \in InTail /\ pc'[s] = "dead"

Unparks(s, j, kind) ==
  /\ pc' = pc
  /\ parked[s][j] # "no"
  /\ \/ /\ parked'[s][j] = "no" /\ closing'[s].job = j /\ closing'[s].kind \in {"stopped", "failed"}
     \/ /\ kind = "answer" /\ parked'[s][j] = "answered" /\ closing' = closing
     \/ /\ kind = "resume" /\ parked'[s][j] = "no" /\ closing' = closing

LetterEffect(s, j, kind) ==
  /\ LetterTypes
  /\ LetterStays(s, j)
  /\ Interrupts(s) \/ Unparks(s, j, kind)

LEMMA LetterShape ==
  ASSUME AgentTypes, NEW s \in Slot, closing[s] = NoClosing, NEW m \in Message, OnMessage(s, m)
  PROVE  LetterEffect(s, m.job, m.kind)
  <1>0. PICK j \in Job, kind \in {m.kind} : j = m.job /\ kind = m.kind
    BY DEF Message
  <1>1. CASE Cancel(s, j)
    <2>1. UNCHANGED <<parked, dialog, closing>> /\ stopped' \in [Slot -> SUBSET Job]
      BY <1>1 DEF Cancel, AgentTypes
    <2>2. \/ Go(s, "stopping") /\ pc[s] \in InBody /\ waits' = [waits EXCEPT ![s] = {}]
          \/ Go(s, "dead") /\ pc[s] \in InTail /\ waits' = [waits EXCEPT ![s] = {}]
          \/ UNCHANGED <<pc, waits>>
      BY <1>1 DEF Cancel
    <2>3. waits' \in [Slot -> SUBSET {"claim", "poll"}]
      BY <2>2 DEF AgentTypes
    <2>4. /\ pc' \in [Slot -> Place] /\ \A x \in Slot \ {s} : pc'[x] = pc[x]
          /\ \/ pc'[s] = pc[s]
             \/ pc[s] \in InBody /\ pc'[s] = "stopping"
             \/ pc[s] \in InTail /\ pc'[s] = "dead"
      BY <2>2, GoType DEF AgentTypes, Place, AtWork, InTail, Down
    <2>5. LetterTypes
      BY <2>1, <2>3, <2>4 DEF LetterTypes, AgentTypes
    <2>6. LetterStays(s, j) /\ Interrupts(s)
      BY <2>1, <2>4 DEF LetterStays, Interrupts
    <2> QED BY <1>0, <2>5, <2>6 DEF LetterEffect
  <1>2. ASSUME NEW end \in {"stopped", "failed"}, StartClosing(s, j, end), parked[s][j] # "no"
        PROVE  LetterEffect(s, j, kind)
    <2>1. /\ parked' \in [Slot -> Parked] /\ parked'[s][j] = "no"
          /\ \A i \in Job \ {j} : parked'[s][i] = parked[s][i]
          /\ \A x \in Slot \ {s} : parked'[x] = parked[x]
      BY <1>2, ParkType DEF StartClosing
    <2>2. /\ closing' \in [Slot -> Closing]
          /\ closing'[s].job = j /\ closing'[s].kind \in {"stopped", "failed"}
          /\ \A x \in Slot \ {s} : closing'[x] = closing[x]
          /\ UNCHANGED <<dialog, pc, stopped, waits>>
      BY <1>2 DEF StartClosing, AgentTypes, Closing
    <2>3. LetterTypes
      BY <2>1, <2>2 DEF LetterTypes, AgentTypes
    <2>4. LetterStays(s, j) /\ Unparks(s, j, kind)
      BY <1>2, <2>1, <2>2 DEF LetterStays, Unparks
    <2> QED BY <2>3, <2>4 DEF LetterEffect
  <1>3. ASSUME parked[s][j] # "no",
               \/ kind = "answer" /\ AcceptAnswer(s, j)
               \/ kind = "resume" /\ Forget(s, j)
        PROVE  LetterEffect(s, j, kind)
    <2>1. /\ parked' \in [Slot -> Parked]
          /\ \/ kind = "answer" /\ parked'[s][j] = "answered"
             \/ kind = "resume" /\ parked'[s][j] = "no"
          /\ \A i \in Job \ {j} : parked'[s][i] = parked[s][i]
          /\ \A x \in Slot \ {s} : parked'[x] = parked[x]
      BY <1>3, ParkType DEF AcceptAnswer, Forget
    <2>2. /\ dialog' \in [Slot -> [Job -> {"none", "asked", "answered"}]]
          /\ UNCHANGED <<pc, stopped, closing, waits>>
      BY <1>3, WriteType DEF AcceptAnswer, Forget
    <2>3. LetterTypes
      BY <2>1, <2>2 DEF LetterTypes, AgentTypes
    <2>4. LetterStays(s, j) /\ Unparks(s, j, kind)
      BY <1>3, <2>1, <2>2 DEF LetterStays, Unparks
    <2> QED BY <2>3, <2>4 DEF LetterEffect
  <1>4. CASE Ignore
    <2>1. UNCHANGED <<parked, dialog, pc, stopped, closing, waits>>
      BY <1>4 DEF Ignore
    <2> QED BY <1>0, <2>1 DEF LetterEffect, LetterTypes, LetterStays, Interrupts, AgentTypes
  <1>5. \/ Cancel(s, j) \/ Ignore
        \/ parked[s][j] # "no" /\ \E end \in {"stopped", "failed"} : StartClosing(s, j, end)
        \/ parked[s][j] # "no" /\ kind = "answer" /\ AcceptAnswer(s, j)
        \/ parked[s][j] # "no" /\ kind = "resume" /\ Forget(s, j)
    BY <1>0 DEF OnMessage
  <1> QED BY <1>0, <1>1, <1>2, <1>3, <1>4, <1>5

\* A letter that was handled, and what the history notes of it.
Handled(s, j, kind) ==
  /\ LetterEffect(s, j, kind)
  /\ orphan' \in [Job -> BOOLEAN] /\ \A i \in Job : orphan[i] => orphan'[i]
  /\ parked[s][j] # "no" => /\ kind = "resume" /\ status[j] \in ActiveStatus => orphan'[j]
                            /\ kind = "answer" /\ status[j] = "waiting_owner" => orphan'[j]

LEMMA NextLetterHandled ==
  ASSUME AgentTypes, NEW s \in Slot, NextLetter(s)
  PROVE  /\ \E j \in Job : \E kind : Handled(s, j, kind)
         /\ closing[s] = NoClosing /\ pc[s] \notin Down
         /\ mail' \in [Slot -> Mail] /\ mail'[s].letters \subseteq mail[s].letters
         /\ mail'[s].upto = mail[s].upto /\ mail[s] # NoMail
         /\ \A x \in Slot \ {s} : mail'[x] = mail[x]
         /\ UNCHANGED <<hubVars, cursor, held, outbox, task, budget>>
  <1>1. PICK m \in mail[s].letters :
          /\ OnMessage(s, m)
          /\ mail' = [mail EXCEPT ![s].letters = @ \ {m}]
          /\ orphan' = [orphan EXCEPT ![m.job] = @ \/ Overtaken(s, m)]
    BY DEF NextLetter
  <1>2. mail[s] \in Mail /\ mail[s].letters \subseteq Message
    BY DEF AgentTypes, Mail
  <1>3. m \in Message /\ m.job \in Job
    BY <1>1, <1>2 DEF Message
  <1>4. closing[s] = NoClosing /\ pc[s] \notin Down
        /\ UNCHANGED <<hubVars, cursor, held, outbox, task, budget>>
    BY DEF NextLetter
  <1>5. Handled(s, m.job, m.kind)
    <2>1. LetterEffect(s, m.job, m.kind)
      BY <1>1, <1>3, <1>4, LetterShape
    <2>2. PICK late \in BOOLEAN : late <=> Overtaken(s, m)
      OBVIOUS
    <2>3. orphan' = [orphan EXCEPT ![m.job] = @ \/ late]
      BY <1>1, <2>2, Zenon
    <2>4. /\ orphan' \in [Job -> BOOLEAN] /\ \A i \in Job : orphan[i] => orphan'[i]
          /\ late => orphan'[m.job]
      BY <1>3, <2>3 DEF AgentTypes
    <2> QED BY <2>1, <2>2, <2>4 DEF Handled, Overtaken
  <1>6. /\ mail' \in [Slot -> Mail] /\ mail'[s].letters = mail[s].letters \ {m}
        /\ mail'[s].upto = mail[s].upto
        /\ \A x \in Slot \ {s} : mail'[x] = mail[x]
    BY <1>1, <1>2 DEF AgentTypes, Mail
  <1>7. mail[s] # NoMail
    BY <1>1 DEF NoMail
  <1> QED BY <1>3, <1>4, <1>5, <1>6, <1>7

LEMMA NextLetterShape ==
  ASSUME AgentTypes, NEW s \in Slot, SlotOK(s), NextLetter(s)
  PROVE  Shaped(s)
  <1>0. PICK j \in Job : \E kind : Handled(s, j, kind)
    BY NextLetterHandled
  <1>1. PICK kind : Handled(s, j, kind)
    BY <1>0
  <1>2. closing[s] = NoClosing /\ pc[s] \notin Down
        /\ mail' \in [Slot -> Mail] /\ (\A x \in Slot \ {s} : mail'[x] = mail[x])
        /\ UNCHANGED <<cursor, held, outbox, task, budget>>
    BY NextLetterHandled
  <1>3. LetterTypes /\ LetterStays(s, j) /\ (Interrupts(s) \/ Unparks(s, j, kind))
    BY <1>1 DEF Handled, LetterEffect
  <1>4. orphan' \in [Job -> BOOLEAN]
    BY <1>1 DEF Handled
  <1>5. AgentTypes'
    BY <1>2, <1>3, <1>4 DEF AgentTypes, LetterTypes
  <1>6. SlotOK(s)'
    <2>1. closing[s].job = NoJob /\ closing[s].kind = "none"
      BY <1>2 DEF NoClosing
    <2>2. CASE Interrupts(s)
      BY <1>2, <2>1, <2>2 DEF Interrupts, SlotOK, InBody, InTail
    <2>3. CASE Unparks(s, j, kind)
      <3>1. held[s] # j
        BY <2>3, AgentAssumption DEF Unparks, SlotOK
      <3>2. held[s] # NoJob => parked'[s][held[s]] = "no"
        BY <1>3, <3>1 DEF LetterStays, SlotOK, AgentTypes
      <3>3. closing'[s].job = NoJob <=> closing'[s].kind = "none"
        BY <2>1, <2>3, AgentAssumption DEF Unparks
      <3> QED BY <1>2, <2>3, <3>2, <3>3 DEF Unparks, SlotOK
    <2> QED BY <1>3, <2>2, <2>3
  <1>7. \A x \in Slot \ {s} : Same(x)
    BY <1>2, <1>3 DEF Same, LetterStays
  <1> QED BY <1>5, <1>6, <1>7 DEF Shaped

LEMMA CloseShape ==
  ASSUME AgentTypes, NEW s \in Slot, SlotOK(s), CloseParked(s)
  PROVE  /\ Shaped(s)
         /\ closing[s].job \in Job /\ closing[s].kind \in {"stopped", "failed"}
         /\ \A i \in Job \ {closing[s].job} : parked'[s][i] = parked[s][i]
         /\ closing'[s].job = NoJob
  <1>0. PICK j \in Job, end \in {"stopped", "failed"} : closing[s].job = j /\ closing[s].kind = end
    BY DEF CloseParked, NoClosing, SlotOK, AgentTypes, Closing
  <1>1. /\ parked' \in [Slot -> Parked] /\ parked'[s][j] = "no"
        /\ \A i \in Job \ {j} : parked'[s][i] = parked[s][i]
        /\ \A x \in Slot \ {s} : parked'[x] = parked[x]
    BY <1>0, ParkType DEF CloseParked
  <1>2. dialog' \in [Slot -> [Job -> {"none", "asked", "answered"}]]
    BY <1>0, WriteType DEF CloseParked
  <1>3. /\ outbox' \in [Slot -> Seq(OutMessage)] /\ waits' \in [Slot -> SUBSET {"claim", "poll"}]
        /\ \A x \in Slot \ {s} : outbox'[x] = outbox[x]
    BY <1>0, SendType DEF CloseParked
  <1>4. /\ closing' \in [Slot -> Closing]
        /\ closing'[s].job = NoJob /\ closing'[s].kind = "none"
        /\ \A x \in Slot \ {s} : closing'[x] = closing[x]
    BY DEF CloseParked, NoClosing, Closing, AgentTypes
  <1>5. UNCHANGED <<cursor, held, pc, task, stopped, mail, orphan, budget>>
    BY DEF CloseParked
  <1>6. AgentTypes'
    BY <1>1, <1>2, <1>3, <1>4, <1>5 DEF AgentTypes
  <1>7. SlotOK(s)'
    <2>1. held[s] # NoJob => parked'[s][held[s]] = "no"
      BY <1>1 DEF SlotOK, AgentTypes
    <2> QED BY <1>4, <1>5, <2>1 DEF SlotOK
  <1>8. \A x \in Slot \ {s} : Same(x)
    BY <1>1, <1>3, <1>4, <1>5 DEF Same
  <1> QED BY <1>0, <1>1, <1>4, <1>6, <1>7, <1>8 DEF Shaped

LEMMA PollEndsShape ==
  ASSUME AgentTypes, NEW s \in Slot, SlotOK(s), PollEnds(s)
  PROVE  Shaped(s) /\ mail'[s] = NoMail
  <1>1. mail[s].upto \in 0..MaxSeq
    BY DEF AgentTypes, Mail
  <1>2. /\ cursor' = [cursor EXCEPT ![s] = mail[s].upto] /\ mail' = [mail EXCEPT ![s] = NoMail]
        /\ UNCHANGED <<held, parked, dialog, outbox, pc, task, stopped, closing, waits, orphan, budget>>
    BY DEF PollEnds
  <1>3. NoMail \in Mail
    BY HubAssumption DEF NoMail, Mail
  <1>4. AgentTypes'
    BY <1>1, <1>2, <1>3 DEF AgentTypes
  <1>5. SlotOK(s)'
    BY <1>2 DEF SlotOK
  <1>6. \A x \in Slot \ {s} : Same(x)
    BY <1>2 DEF Same, AgentTypes
  <1> QED BY <1>2, <1>4, <1>5, <1>6 DEF Shaped, AgentTypes

LEMMA PollShape ==
  ASSUME HubTypeOK, AgentTypes, NEW s \in Slot, SlotOK(s), PollCall(s)
  PROVE  /\ Shaped(s)
         /\ UNCHANGED <<files, pc, task, stopped, closing, waits, orphan, budget, messages>>
         /\ mail'[s].letters \subseteq messages /\ mail'[s].upto > cursor[s]
         /\ UNCHANGED <<status, executor, presumed>>
  <1>1. PICK last \in Deliverable(Agent, cursor[s]) :
          /\ Poll(Agent, cursor[s], last.seq)
          /\ mail' = [mail EXCEPT ![s] = [letters |-> Page(Agent, cursor[s], last.seq),
                                         upto |-> last.seq]]
    BY DEF PollCall
  <1>2. PICK letters \in SUBSET messages : letters = Page(Agent, cursor[s], last.seq)
    BY DEF Page, Deliverable
  <1>3. PICK n \in 1..MaxSeq : n = last.seq /\ n > cursor[s]
    BY <1>1, <1>2 DEF Deliverable, HubTypeOK, Message
  <1>4. [letters |-> letters, upto |-> n] \in Mail
    BY <1>2 DEF Mail, HubTypeOK
  <1>5. /\ mail' \in [Slot -> Mail] /\ mail'[s].letters = letters /\ mail'[s].upto = n
        /\ \A x \in Slot \ {s} : mail'[x] = mail[x]
    BY <1>1, <1>2, <1>3, <1>4 DEF AgentTypes
  <1>6. UNCHANGED <<files, pc, task, stopped, closing, waits, orphan, budget, messages, status,
                    executor, presumed>>
    BY <1>1 DEF PollCall, Poll, history
  <1>7. AgentTypes'
    BY <1>5, <1>6 DEF AgentTypes, files, stateFile
  <1>8. SlotOK(s)'
    BY <1>6 DEF SlotOK, files, stateFile
  <1>9. \A x \in Slot \ {s} : Same(x)
    BY <1>5, <1>6 DEF Same, files, stateFile
  <1> QED BY <1>2, <1>3, <1>5, <1>6, <1>7, <1>8, <1>9 DEF Shaped

-----------------------------------------------------------------------------
(* The claim, the drain, the death of the process and the owner.           *)

LEMMA SpendType ==
  ASSUME AgentTypes, NEW what \in {"calls", "crashes", "losses"}, Spend(what)
  PROVE  budget' \in [{"calls", "crashes", "losses"} -> Nat]
  BY DEF AgentTypes, Spend

LEMMA ClaimShape ==
  ASSUME AgentTypes, NEW s \in Slot, SlotOK(s), NEW j \in Job, ClaimCall(s, j)
  PROVE  /\ Shaped(s)
         /\ status[j] = "queued" /\ j \notin TestJob /\ pc[s] = "looking"
         /\ status' = [status EXCEPT ![j] = "running"]
         /\ executor' = [executor EXCEPT ![j] = Agent]
         /\ presumed' = presumed \ {j}
         /\ UNCHANGED <<files, mail, closing, messages>>
         /\ \A i \in Job \ {j} : orphan'[i] = orphan[i]
         /\ \/ pc'[s] = "granted" /\ task'[s] = j /\ ~orphan'[j]
            \/ pc'[s] = "idle" /\ task' = task /\ orphan'[j]
  <1>1. /\ status[j] = "queued" /\ j \notin TestJob /\ pc[s] = "looking"
        /\ presumed' = presumed \ {j}
        /\ status' = [status EXCEPT ![j] = "running"]
        /\ executor' = [executor EXCEPT ![j] = Agent]
        /\ UNCHANGED <<files, stopped, mail, closing, waits, messages>>
    BY DEF ClaimCall, Claim, First
  <1>2. \/ /\ pc' \in [Slot -> Place] /\ pc'[s] = "granted" /\ \A x \in Slot \ {s} : pc'[x] = pc[x]
           /\ task' = [task EXCEPT ![s] = j] /\ orphan' = [orphan EXCEPT ![j] = FALSE] /\ budget' = budget
        \/ /\ pc' \in [Slot -> Place] /\ pc'[s] = "idle" /\ \A x \in Slot \ {s} : pc'[x] = pc[x]
           /\ task' = task /\ orphan' = [orphan EXCEPT ![j] = TRUE]
           /\ budget' \in [{"calls", "crashes", "losses"} -> Nat]
    <2>1. CASE /\ Go(s, "granted") /\ task' = [task EXCEPT ![s] = j]
               /\ orphan' = [orphan EXCEPT ![j] = FALSE] /\ budget' = budget
      <3>1. /\ pc' \in [Slot -> Place] /\ pc'[s] = "granted"
            /\ \A x \in Slot \ {s} : pc'[x] = pc[x]
        BY <2>1, GoType DEF Place
      <3> QED BY <2>1, <3>1
    <2>2. CASE /\ Spend("losses") /\ orphan' = [orphan EXCEPT ![j] = TRUE]
               /\ Go(s, "idle") /\ task' = task
      <3>1. /\ pc' \in [Slot -> Place] /\ pc'[s] = "idle"
            /\ \A x \in Slot \ {s} : pc'[x] = pc[x]
        BY <2>2, GoType DEF Place
      <3> QED BY <2>2, <3>1, SpendType
    <2> QED BY <2>1, <2>2 DEF ClaimCall
  <1>3. AgentTypes'
    <2>1. /\ pc' \in [Slot -> Place] /\ task' \in [Slot -> Job \cup {NoJob}]
          /\ orphan' \in [Job -> BOOLEAN] /\ budget' \in [{"calls", "crashes", "losses"} -> Nat]
      <3>1. \/ orphan' = [orphan EXCEPT ![j] = FALSE] \/ orphan' = [orphan EXCEPT ![j] = TRUE]
        BY <1>2
      <3>2. orphan' \in [Job -> BOOLEAN]
        BY <3>1 DEF AgentTypes
      <3>3. task' = [task EXCEPT ![s] = j] \/ task' = task
        BY <1>2
      <3>4. task' \in [Slot -> Job \cup {NoJob}]
        BY <3>3 DEF AgentTypes
      <3> QED BY <1>2, <3>2, <3>4 DEF AgentTypes
    <2> QED BY <1>1, <2>1 DEF AgentTypes, files, stateFile
  <1>4. SlotOK(s)'
    BY <1>1, <1>2, AgentAssumption DEF SlotOK, AgentTypes, files, stateFile
  <1>5. \A x \in Slot \ {s} : Same(x)
    BY <1>1, <1>2 DEF Same, AgentTypes, files, stateFile
  <1>6. \A i \in Job \ {j} : orphan'[i] = orphan[i]
    BY <1>2 DEF AgentTypes
  <1>7. \/ pc'[s] = "granted" /\ task'[s] = j /\ ~orphan'[j]
        \/ pc'[s] = "idle" /\ task' = task /\ orphan'[j]
    BY <1>2 DEF AgentTypes
  <1> QED BY <1>1, <1>3, <1>4, <1>5, <1>6, <1>7 DEF Shaped

\* What a drain does with the first message: the hub takes it, and it leaves
\* the outbox or stays there; or it is refused, or the hub is away.
Drained(s, j, kind) ==
  \/ /\ HubPost(j, kind)
     /\ Late(s, j, kind) => orphan'[j]
  \/ ~HubTakes(j, kind) /\ Pop(s) /\ UNCHANGED hubVars
  \/ UNCHANGED <<hubVars, outbox>>

LEMMA DrainShape ==
  ASSUME AgentTypes, NEW s \in Slot, SlotOK(s), Drain(s)
  PROVE  /\ Shaped(s)
         /\ Drained(s, Head(outbox[s]).job, Head(outbox[s]).kind)
         /\ outbox[s] # <<>> /\ (Pop(s) \/ outbox' = outbox)
         /\ UNCHANGED <<stateFile, dialog, pc, task, stopped, mail, closing>>
         /\ \A i \in Job : orphan[i] => orphan'[i]
  <1>1. PICK j \in Job, kind \in {"started", "question", "done", "failed", "stopped"} :
          j = Head(outbox[s]).job /\ kind = Head(outbox[s]).kind
    BY FirstMessage DEF Drain
  <1>2. /\ outbox[s] # <<>> /\ UNCHANGED <<stateFile, dialog, pc, task, stopped, mail, closing>>
        /\ \/ /\ HubPost(j, kind)
              /\ orphan' = [orphan EXCEPT ![j] = @ \/ Late(s, j, kind)]
              /\ \/ Pop(s) /\ UNCHANGED budget
                 \/ HubAway(s) /\ Spend("losses")
           \/ ~HubTakes(j, kind) /\ Pop(s) /\ UNCHANGED <<hubVars, orphan, budget>>
           \/ HubAway(s) /\ Spend("losses") /\ UNCHANGED <<hubVars, orphan>>
    BY <1>1 DEF Drain
  <1>3. budget' \in [{"calls", "crashes", "losses"} -> Nat]
    BY <1>2, SpendType DEF AgentTypes
  <1>4. Pop(s) \/ outbox' = outbox
    BY <1>2 DEF HubAway
  <1>5. /\ outbox' \in [Slot -> Seq(OutMessage)]
        /\ \A x \in Slot \ {s} : outbox'[x] = outbox[x]
    BY <1>2, <1>4, PopPends DEF AgentTypes
  <1>6. waits' \in [Slot -> SUBSET {"claim", "poll"}]
    BY <1>2 DEF Pop, HubAway, AgentTypes
  <1>7. PICK late \in BOOLEAN : late <=> Late(s, j, kind)
    OBVIOUS
  <1>8. orphan' = [orphan EXCEPT ![j] = @ \/ late] \/ orphan' = orphan
    BY <1>2, <1>7, Zenon
  <1>9. orphan' \in [Job -> BOOLEAN] /\ \A i \in Job : orphan[i] => orphan'[i]
    BY <1>8 DEF AgentTypes
  <1>10. Drained(s, j, kind)
    <2>1. CASE HubPost(j, kind) /\ orphan' = [orphan EXCEPT ![j] = @ \/ Late(s, j, kind)]
      <3>1. orphan' = [orphan EXCEPT ![j] = @ \/ late]
        BY <1>7, <2>1, Zenon
      <3>2. late => orphan'[j]
        BY <3>1 DEF AgentTypes
      <3> QED BY <1>7, <2>1, <3>2 DEF Drained
    <2>2. CASE ~HubTakes(j, kind) /\ Pop(s) /\ UNCHANGED hubVars
      BY <2>2 DEF Drained
    <2>3. CASE HubAway(s) /\ UNCHANGED hubVars
      BY <2>3 DEF Drained, HubAway
    <2> QED BY <1>2, <2>1, <2>2, <2>3
  <1>11. AgentTypes'
    BY <1>2, <1>3, <1>5, <1>6, <1>9 DEF AgentTypes, stateFile
  <1>12. SlotOK(s)'
    BY <1>2 DEF SlotOK, stateFile
  <1>13. \A x \in Slot \ {s} : Same(x)
    BY <1>2, <1>5 DEF Same, stateFile
  <1> QED BY <1>1, <1>2, <1>4, <1>9, <1>10, <1>11, <1>12, <1>13 DEF Shaped

LEMMA CrashShape ==
  ASSUME AgentTypes, \A s \in Slot : SlotOK(s), Crash
  PROVE  /\ AgentTypes'
         /\ \A s \in Slot : SlotOK(s)' /\ pc'[s] = "off" /\ mail'[s] = NoMail /\ closing'[s] = NoClosing
         /\ UNCHANGED <<hubVars, files>>
         /\ \A j \in Job : orphan[j] => orphan'[j]
         /\ \A s \in Slot, j \in Job :
              (pc[s] = "granted" /\ task[s] = j) \/ closing[s].job = j => orphan'[j]
  <1>1. /\ pc' = [s \in Slot |-> "off"] /\ task' = [s \in Slot |-> NoJob]
        /\ stopped' = [s \in Slot |-> {}] /\ mail' = [s \in Slot |-> NoMail]
        /\ closing' = [s \in Slot |-> NoClosing] /\ waits' = [s \in Slot |-> {}]
        /\ UNCHANGED <<hubVars, files>> /\ Spend("crashes")
    BY DEF Crash, Dies
  <1>2. /\ orphan' \in [Job -> BOOLEAN]
        /\ \A j \in Job : orphan[j] => orphan'[j]
        /\ \A s \in Slot, j \in Job :
             (pc[s] = "granted" /\ task[s] = j) \/ closing[s].job = j => orphan'[j]
    BY DEF Crash, InMemoryOnly, AgentTypes
  <1>3. NoMail \in Mail /\ NoClosing \in Closing
    BY HubAssumption DEF NoMail, Mail, NoClosing, Closing
  <1>4. budget' \in [{"calls", "crashes", "losses"} -> Nat]
    BY <1>1, SpendType
  <1>5. AgentTypes'
    BY <1>1, <1>2, <1>3, <1>4 DEF AgentTypes, Place, Down, files, stateFile
  <1>6. \A s \in Slot : SlotOK(s)'
    BY <1>1 DEF SlotOK, NoClosing, files, stateFile
  <1> QED BY <1>1, <1>2, <1>5, <1>6

\* A death at the end of _park leaves the job parked, and what else is in the
\* files as it was.
LEMMA DiesParkingShape ==
  ASSUME AgentTypes, \A x \in Slot : SlotOK(x), NEW s \in Slot, DiesParking(s)
  PROVE  /\ AgentTypes'
         /\ \A x \in Slot : SlotOK(x)' /\ pc'[x] = "off" /\ mail'[x] = NoMail
         /\ UNCHANGED <<hubVars, outbox>>
         /\ held'[s] = NoJob /\ held[s] = task[s]
         /\ \A x \in Slot \ {s} : held'[x] = held[x] /\ parked'[x] = parked[x]
         /\ \A i \in Job : i # task[s] => parked'[s][i] = parked[s][i]
         /\ \A j \in Job : orphan[j] \/ j = task[s] => orphan'[j]
         /\ \A x \in Slot, j \in Job :
              (pc[x] = "granted" /\ task[x] = j) \/ closing[x].job = j => orphan'[j]
  <1>0. PICK j \in Job : j = task[s] /\ j # NoJob /\ held[s] = j
    BY AtHand DEF DiesParking, SlotOK
  <1>1. /\ pc' = [x \in Slot |-> "off"] /\ task' = [x \in Slot |-> NoJob]
        /\ stopped' = [x \in Slot |-> {}] /\ mail' = [x \in Slot |-> NoMail]
        /\ closing' = [x \in Slot |-> NoClosing] /\ waits' = [x \in Slot |-> {}]
        /\ UNCHANGED <<hubVars, cursor, dialog, outbox>> /\ Spend("crashes")
        /\ held' = [held EXCEPT ![s] = NoJob] /\ Park(s, j, "waiting")
    BY <1>0 DEF DiesParking, Dies
  <1>2. /\ orphan' \in [Job -> BOOLEAN]
        /\ \A i \in Job : orphan[i] \/ i = j => orphan'[i]
        /\ \A x \in Slot, i \in Job :
             (pc[x] = "granted" /\ task[x] = i) \/ closing[x].job = i => orphan'[i]
    BY <1>0 DEF DiesParking, InMemoryOnly, AgentTypes
  <1>3. NoMail \in Mail /\ NoClosing \in Closing
    BY HubAssumption DEF NoMail, Mail, NoClosing, Closing
  <1>4. budget' \in [{"calls", "crashes", "losses"} -> Nat]
    BY <1>1, SpendType
  <1>5. /\ parked' \in [Slot -> Parked] /\ \A i \in Job \ {j} : parked'[s][i] = parked[s][i]
        /\ \A x \in Slot \ {s} : parked'[x] = parked[x]
    BY <1>1, ParkType
  <1>6. AgentTypes'
    BY <1>1, <1>2, <1>3, <1>4, <1>5 DEF AgentTypes, Place, Down
  <1>7. held'[s] = NoJob /\ \A x \in Slot \ {s} : held'[x] = held[x]
    BY <1>1 DEF AgentTypes
  <1>8. \A x \in Slot : SlotOK(x)'
    BY <1>1, <1>5, <1>7 DEF SlotOK, NoClosing
  <1> QED BY <1>0, <1>1, <1>2, <1>5, <1>6, <1>7, <1>8

LEMMA OwnerShape ==
  ASSUME HubTypeOK, AgentTypes, NEW j \in Job, OwnerSubmit(j) \/ OwnerCall(j)
  PROVE  /\ AgentTypes'
         /\ UNCHANGED <<files, memory>>
         /\ \A i \in Job \ {j} : orphan'[i] = orphan[i]
         /\ status'[j] \in ActiveStatus => orphan'[j] = orphan[j]
  <1>1. UNCHANGED <<files, memory>>
    BY DEF OwnerSubmit, OwnerCall, agentVars
  <1>2. orphan' = orphan \/ (Resume(j) /\ orphan' = [orphan EXCEPT ![j] = FALSE])
    BY DEF OwnerSubmit, OwnerCall, agentVars
  <1>3. budget' \in [{"calls", "crashes", "losses"} -> Nat]
    BY SpendType DEF OwnerSubmit, OwnerCall, agentVars, AgentTypes
  <1>4. orphan' \in [Job -> BOOLEAN] /\ \A i \in Job \ {j} : orphan'[i] = orphan[i]
    BY <1>2 DEF AgentTypes
  <1>5. AgentTypes'
    BY <1>1, <1>3, <1>4 DEF AgentTypes, files, stateFile, memory
  <1>6. Resume(j) => status'[j] \notin ActiveStatus
    BY DEF Resume, ActiveStatus, HubTypeOK
  <1> QED BY <1>1, <1>2, <1>4, <1>5, <1>6

-----------------------------------------------------------------------------
(* Every step of the composition keeps the types and the shape.            *)

AgentInv ==
  /\ AgentTypes
  /\ \A s \in Slot : SlotOK(s) /\ MailOK(s)

SlotStep(s) == ClaimLoop(s) \/ PollLoop(s) \/ Drain(s) \/ Restart(s) \/ Booted(s)

LEMMA SameKeeps ==
  ASSUME NEW x \in Slot, Same(x), messages \subseteq messages', SlotOK(x), MailOK(x)
  PROVE  SlotOK(x)' /\ MailOK(x)'
  BY DEF Same, SlotOK, MailOK

LEMMA SlotStepShape ==
  ASSUME HubTypeOK, AgentTypes, NEW s \in Slot, SlotOK(s), MailOK(s),
         messages \subseteq messages', SlotStep(s)
  PROVE  Shaped(s) /\ MailOK(s)'
  <1>1. CASE TakeResumed(s)
    <2>1. task[s] \in Job
      BY <1>1, AtHand DEF TakeResumed
    <2>2. Continue(s, task[s]) /\ UNCHANGED <<cursor, mail>>
      BY <1>1 DEF TakeResumed, Continue
    <2> QED BY <2>1, <2>2, ContinueShape DEF MailOK
  <1>2. CASE TakeAnswered(s)
    <2>1. PICK j \in Job : Continue(s, j)
      BY <1>2 DEF TakeAnswered, Answered
    <2>2. UNCHANGED <<cursor, mail>>
      BY <2>1 DEF Continue
    <2> QED BY <2>1, <2>2, ContinueShape DEF MailOK
  <1>3. ASSUME NEW j \in Job, ClaimCall(s, j) PROVE Shaped(s) /\ MailOK(s)'
    <2>1. UNCHANGED <<cursor, mail>>
      BY <1>3 DEF ClaimCall, files, stateFile
    <2> QED BY <1>3, <2>1, ClaimShape DEF MailOK
  <1>4. CASE Handle(s) \/ Parking(s) \/ HandleEnds(s) \/ Look(s) \/ LooksInVain(s)
    <2>1. UNCHANGED <<cursor, mail>>
      BY <1>4 DEF Handle, Parking, HandleEnds, Look, LooksInVain, files, stateFile
    <2> QED BY <1>4, <2>1, HandleShape, ParkingShape, EndShape, LookShape DEF MailOK
  <1>5. CASE Begin(s) \/ Concludes(s) \/ Raises(s) \/ Asks(s) \/ LastWord(s) \/ Sent(s)
    <2>1. UNCHANGED <<cursor, mail>>
      BY <1>5 DEF Begin, Concludes, Raises, Asks, LastWord, Sent, files, stateFile
    <2> QED BY <1>5, <2>1, MoveShape DEF MailOK
  <1>6. CASE PollCall(s)
    <2>1. Shaped(s) /\ mail'[s].letters \subseteq messages /\ mail'[s].upto > cursor[s]
          /\ UNCHANGED <<files, messages>>
      BY <1>6, PollShape
    <2> QED BY <2>1 DEF MailOK, files, stateFile
  <1>7. CASE NextLetter(s)
    <2>1. Shaped(s) /\ UNCHANGED cursor /\ mail'[s].letters \subseteq mail[s].letters
          /\ mail'[s].upto = mail[s].upto /\ mail[s] # NoMail
      BY <1>7, NextLetterShape, NextLetterHandled
    <2> QED BY <2>1 DEF MailOK
  <1>8. CASE CloseParked(s)
    <2>1. Shaped(s) /\ UNCHANGED <<cursor, mail>>
      BY <1>8, CloseShape DEF CloseParked
    <2> QED BY <2>1 DEF MailOK
  <1>9. CASE PollEnds(s)
    <2>1. Shaped(s) /\ mail'[s] = NoMail
      BY <1>9, PollEndsShape
    <2> QED BY <2>1 DEF MailOK, NoMail
  <1>10. CASE Drain(s)
    <2>1. Shaped(s) /\ UNCHANGED <<cursor, mail>>
      BY <1>10, DrainShape DEF stateFile
    <2> QED BY <2>1 DEF MailOK
  <1>11. CASE Restart(s) \/ Booted(s)
    <2>1. UNCHANGED <<cursor, mail>>
      BY <1>11 DEF Restart, Booted, files, stateFile
    <2> QED BY <1>11, <2>1, StartShape DEF MailOK
  <1> QED
    BY <1>1, <1>2, <1>3, <1>4, <1>5, <1>6, <1>7, <1>8, <1>9, <1>10, <1>11
    DEF SlotStep, ClaimLoop, PollLoop

LEMMA AgentInvStep ==
  ASSUME HubTypeOK, AgentInv, [AgentNext]_allVars
  PROVE  AgentInv'
  <1>1. messages \subseteq messages'
    BY AgentStepIsHubStep, MailboxGrows DEF AgentInv
  <1>2. ASSUME NEW s \in Slot, SlotStep(s) PROVE AgentInv'
    <2>1. Shaped(s) /\ MailOK(s)'
      BY <1>1, <1>2, SlotStepShape DEF AgentInv
    <2>2. \A x \in Slot \ {s} : SlotOK(x)' /\ MailOK(x)'
      BY <1>1, <2>1, SameKeeps DEF AgentInv, Shaped
    <2> QED BY <2>1, <2>2 DEF AgentInv, Shaped
  <1>3. CASE Crash
    <2>1. AgentTypes' /\ \A s \in Slot : SlotOK(s)' /\ mail'[s] = NoMail
      BY <1>3, CrashShape DEF AgentInv
    <2> QED BY <2>1 DEF AgentInv, MailOK, NoMail
  <1>6. ASSUME NEW s \in Slot, DiesParking(s) PROVE AgentInv'
    <2>1. AgentTypes' /\ \A x \in Slot : SlotOK(x)' /\ mail'[x] = NoMail
      BY <1>6, DiesParkingShape DEF AgentInv
    <2> QED BY <2>1 DEF AgentInv, MailOK, NoMail
  <1>4. ASSUME NEW j \in Job, OwnerSubmit(j) \/ OwnerCall(j) PROVE AgentInv'
    <2>1. AgentTypes' /\ UNCHANGED <<files, memory>>
      BY <1>4, OwnerShape DEF AgentInv
    <2>2. \A x \in Slot : Same(x)
      BY <2>1 DEF Same, files, stateFile, memory
    <2> QED BY <1>1, <2>1, <2>2, SameKeeps DEF AgentInv
  <1>5. CASE UNCHANGED allVars
    <2>1. AgentTypes' /\ \A x \in Slot : Same(x)
      BY <1>5 DEF allVars, agentVars, files, stateFile, memory, Same, AgentInv, AgentTypes
    <2> QED BY <1>1, <2>1, SameKeeps DEF AgentInv
  <1> QED BY <1>2, <1>3, <1>4, <1>5, <1>6 DEF AgentNext, SlotStep

LEMMA AgentInvInit ==
  ASSUME AgentInit
  PROVE  AgentInv
  <1>1. NoMail \in Mail /\ NoClosing \in Closing
    BY HubAssumption DEF NoMail, Mail, NoClosing, Closing
  <1>2. AgentTypes
    BY <1>1, HubAssumption, AgentAssumption DEF AgentInit, AgentTypes, Parked, Place
  <1>3. \A s \in Slot : SlotOK(s) /\ MailOK(s)
    BY DEF AgentInit, SlotOK, MailOK, NoMail, NoClosing
  <1> QED BY <1>2, <1>3 DEF AgentInv

LEMMA AgentInvGivesTypes ==
  ASSUME AgentInv, HubTypeOK
  PROVE  AgentTypeOK
  <1>1. SlotShape
    BY DEF AgentInv, SlotOK, MailOK, SlotShape
  <1>2. mail \in [Slot -> [letters : SUBSET messages, upto : 0..MaxSeq]]
    <2>1. ASSUME NEW s \in Slot
          PROVE  mail[s] \in [letters : SUBSET messages, upto : 0..MaxSeq]
      <3>1. mail[s] \in Mail /\ mail[s].letters \subseteq messages
        BY DEF AgentInv, AgentTypes, MailOK
      <3> QED BY <3>1 DEF Mail
    <2> QED BY <2>1 DEF AgentInv, AgentTypes
  <1>3. outbox \in [Slot -> Seq([job : Job, kind : {"started"} \cup ReportKind])]
    <2>1. OutMessage \subseteq [job : Job, kind : {"started"} \cup ReportKind]
      BY DEF OutMessage, ReportKind
    <2>2. PICK S, T : S = OutMessage /\ T = [job : Job, kind : {"started"} \cup ReportKind]
      OBVIOUS
    <2>3. outbox \in [Slot -> Seq(S)]
      BY <2>2 DEF AgentInv, AgentTypes
    <2>4. ASSUME NEW s \in Slot PROVE outbox[s] \in Seq(T)
      <3>1. outbox[s] \in Seq(S) /\ S \subseteq T
        BY <2>1, <2>2, <2>3
      <3> QED BY <3>1, SeqWider, Zenon
    <2> QED BY <2>2, <2>3, <2>4
  <1> QED BY <1>1, <1>2, <1>3 DEF AgentInv, AgentTypes, AgentTypeOK, Parked, Place, Closing

\* The files and the memory of the slots keep their types, and where a slot is
\* says what it has at hand and what is saved, whatever letters and losses and
\* deaths of the process come between.
THEOREM AgentTypeCorrect == AgentSpec => []AgentTypeOK
  <1>1. AgentInit => HubTypeOK /\ AgentInv
    <2>1. HubInit => HubTypeOK
      BY HubAssumption DEF HubInit, HubTypeOK, Status
    <2> QED BY <2>1, AgentInvInit DEF AgentInit
  <1>2. HubTypeOK /\ AgentInv /\ [AgentNext]_allVars => HubTypeOK' /\ AgentInv'
    BY AgentStepIsHubStep, HubTypeStep, AgentInvStep DEF AgentInv
  <1>3. HubTypeOK /\ AgentInv => AgentTypeOK
    BY AgentInvGivesTypes
  <1> QED BY <1>1, <1>2, <1>3, PTL DEF AgentSpec

\* What the executor and its owner do are behaviours of the queue: all that is
\* proved of the queue holds beside this executor.
THEOREM AgentUsesHub == AgentSpec => HubSpec
  <1>1. AgentInit => HubTypeOK /\ AgentInv /\ HubInit
    <2>1. HubInit => HubTypeOK
      BY HubAssumption DEF HubInit, HubTypeOK, Status
    <2> QED BY <2>1, AgentInvInit DEF AgentInit
  <1>2. HubTypeOK /\ AgentInv /\ [AgentNext]_allVars
          => HubTypeOK' /\ AgentInv' /\ [HubNext]_hubVars
    BY AgentStepIsHubStep, HubTypeStep, AgentInvStep DEF AgentInv
  <1> QED BY <1>1, <1>2, PTL DEF AgentSpec, HubSpec

-----------------------------------------------------------------------------
(* No run is lost.  A slot keeps a running job by its files, by its claim or *)
(* by a verdict it has still to send; it waits for the owner of a job with  *)
(* the parked question, or has the verdict that ends it.                    *)

Verdict(s, j) == Pending(s, j, VerdictKind)
Ending(s, j)  == Pending(s, j, {"failed", "stopped"})

Concluded == {"concluding", "lastword", "releasing", "declining"}

Keeps(s, j) ==
  \/ held[s] = j /\ pc[s] \notin Concluded
  \/ parked[s][j] # "no"
  \/ closing[s].job = j
  \/ pc[s] = "granted" /\ task[s] = j
  \/ Verdict(s, j)

Waits(s, j) ==
  \/ parked[s][j] = "waiting"
  \/ closing[s].job = j
  \/ Ending(s, j)

\* Each part is needed for the next.  Only this executor has jobs in work; a
\* job claimed again has left no waiting question behind; a job that waits is
\* waited for; a job that runs is kept.  Of a run that an answer began before a
\* claim (presumed) none of it is true.
InWork   == \A j \in Job : status[j] \in ActiveStatus /\ j \notin presumed
                             => executor[j] = Agent /\ j \notin TestJob
Granted  == \A s \in Slot : pc[s] = "granted" /\ status[task[s]] = "waiting_owner" => orphan[task[s]]
Awaited  == \A j \in Job : status[j] = "waiting_owner" /\ ~orphan[j] /\ j \notin presumed
                             => \E s \in Slot : Waits(s, j)
Kept     == \A j \in Job : status[j] = "running" /\ ~orphan[j] /\ j \notin presumed
                             => \E s \in Slot : Keeps(s, j)

KnownInv == InWork /\ Granted /\ Awaited /\ Kept

LEMMA WaitingIsKept ==
  ASSUME NEW s \in Slot, NEW j \in Job, Waits(s, j)
  PROVE  Keeps(s, j)
  BY DEF Waits, Keeps, Verdict, Ending, Pending, VerdictKind

\* A step that leaves the verdicts in the outbox.
OutboxKeeps(s) ==
  \A i \in Job : (Verdict(s, i) => Verdict(s, i)') /\ (Ending(s, i) => Ending(s, i)')

\* A step that leaves no job unkept in a slot.
Carries(s) ==
  /\ \A j \in Job \ presumed :
       /\ status[j] = "running" /\ ~orphan'[j] /\ Keeps(s, j) => Keeps(s, j)'
       /\ status[j] = "waiting_owner" /\ ~orphan'[j] /\ Waits(s, j) => Waits(s, j)'
  /\ pc'[s] = "granted" => pc[s] = "granted" /\ task'[s] = task[s]

LEMMA SameCarries ==
  ASSUME NEW x \in Slot, Same(x)
  PROVE  Carries(x)
  BY DEF Same, Carries, Keeps, Waits, Verdict, Ending, Pending

LEMMA CarriedOn ==
  ASSUME AgentTypes, \A s \in Slot : SlotOK(s), KnownInv,
         UNCHANGED <<status, executor, presumed>>,
         \A j \in Job : orphan[j] => orphan'[j],
         \A s \in Slot : Carries(s)
  PROVE  KnownInv'
  <1>1. InWork'
    BY DEF KnownInv, InWork
  <1>2. Granted'
    <2>1. ASSUME NEW s \in Slot, pc'[s] = "granted", status'[task'[s]] = "waiting_owner"
          PROVE  orphan'[task'[s]]
      <3>1. pc[s] = "granted" /\ task'[s] = task[s]
        BY <2>1 DEF Carries
      <3>2. task[s] \in Job
        BY <3>1, AtHand
      <3> QED BY <2>1, <3>1, <3>2 DEF KnownInv, Granted
    <2> QED BY <2>1 DEF Granted
  <1>3. Awaited'
    BY DEF KnownInv, Awaited, Carries
  <1>4. Kept'
    BY DEF KnownInv, Kept, Carries
  <1> QED BY <1>1, <1>2, <1>3, <1>4 DEF KnownInv

\* The verdicts in the outbox stay there over a send.
LEMMA SendCarries ==
  ASSUME AgentTypes, NEW s \in Slot, NEW j \in Job, NEW loop \in {"claim", "poll"},
         NEW kind \in {"started", "question", "done", "failed", "stopped"},
         Send(s, j, kind, loop)
  PROVE  /\ OutboxKeeps(s)
         /\ kind \in VerdictKind => Verdict(s, j)'
         /\ kind \in {"failed", "stopped"} => Ending(s, j)'
  <1>1. /\ \A i \in Job : \A kinds : Pending(s, i, kinds) => Pending(s, i, kinds)'
        /\ \A kinds : kind \in kinds => Pending(s, j, kinds)'
    BY SendType
  <1> QED BY <1>1 DEF VerdictKind, OutboxKeeps, Verdict, Ending

LEMMA QuietOutbox ==
  ASSUME NEW s \in Slot, outbox'[s] = outbox[s]
  PROVE  OutboxKeeps(s)
  BY DEF Pending, OutboxKeeps, Verdict, Ending

\* Going on with a job takes it from the parked ones into agent-state.json.
LEMMA ContinueCarries ==
  ASSUME AgentTypes, NEW s \in Slot, SlotOK(s), NEW j \in Job, Continue(s, j),
         (pc[s] = "resume" /\ j = task[s]) \/ (pc[s] = "idle" /\ parked[s][j] = "answered")
  PROVE  Carries(s)
  <1>1. parked'[s][j] = "no" /\ \A i \in Job \ {j} : parked'[s][i] = parked[s][i]
    BY ParkType DEF Continue
  <1>2. held'[s] = j /\ closing'[s] = closing[s]
    BY DEF Continue, AgentTypes
  <1>3. /\ OutboxKeeps(s)
        /\ \/ pc'[s] = "work"
           \/ pc'[s] = "declining" /\ Verdict(s, j)'
    <2>1. CASE Go(s, "work") /\ UNCHANGED <<outbox, waits>>
      <3>1. pc'[s] = "work"
        BY <2>1 DEF Go, AgentTypes
      <3> QED BY <2>1, <3>1, QuietOutbox
    <2>2. CASE Go(s, "declining") /\ Send(s, j, "stopped", "claim")
      <3>1. pc'[s] = "declining" /\ "stopped" \in VerdictKind
        BY <2>2 DEF Go, AgentTypes, VerdictKind
      <3> QED BY <2>2, <3>1, SendCarries
    <2> QED BY <2>1, <2>2 DEF Continue
  <1>4. held[s] \in {j, NoJob} /\ parked[s][j] # "waiting"
    BY AgentAssumption DEF SlotOK
  <1>5. ASSUME NEW i \in Job, Keeps(s, i) PROVE Keeps(s, i)'
    <2>1. CASE i = j
      BY <1>2, <1>3, <2>1 DEF Keeps, Concluded
    <2>2. CASE i # j
      BY <1>1, <1>2, <1>3, <1>4, <1>5, <2>2, AgentAssumption DEF Keeps, OutboxKeeps
    <2> QED BY <2>1, <2>2
  <1>6. ASSUME NEW i \in Job, Waits(s, i) PROVE Waits(s, i)'
    BY <1>1, <1>2, <1>3, <1>4, <1>6 DEF Waits, OutboxKeeps
  <1> QED BY <1>3, <1>5, <1>6 DEF Carries

\* The reply to a claim becomes agent-state.json; a question that an earlier
\* run of the job has left is forgotten, and nobody waits for its answer.
LEMMA HandleCarries ==
  ASSUME AgentTypes, NEW s \in Slot, SlotOK(s), Granted, Handle(s)
  PROVE  Carries(s)
  <1>0. PICK j \in Job : j = task[s] /\ pc[s] = "granted"
    BY AtHand DEF Handle
  <1>1. parked'[s][j] = "no" /\ \A i \in Job \ {j} : parked'[s][i] = parked[s][i]
    BY <1>0, ParkType DEF Handle
  <1>2. held'[s] = j /\ closing'[s] = closing[s] /\ pc'[s] = "starting" /\ orphan' = orphan
    BY <1>0 DEF Handle, Go, AgentTypes
  <1>3. OutboxKeeps(s)
    BY <1>0, SendCarries DEF Handle
  <1>4. held[s] = NoJob /\ (status[j] = "waiting_owner" => orphan[j])
    BY <1>0 DEF SlotOK, Granted
  <1>5. ASSUME NEW i \in Job, Keeps(s, i) PROVE Keeps(s, i)'
    <2>1. CASE i = j
      BY <1>2, <2>1 DEF Keeps, Concluded
    <2>2. CASE i # j
      BY <1>0, <1>1, <1>2, <1>3, <1>4, <1>5, <2>2, AgentAssumption DEF Keeps, OutboxKeeps
    <2> QED BY <2>1, <2>2
  <1>6. ASSUME NEW i \in Job, i # j, Waits(s, i) PROVE Waits(s, i)'
    BY <1>1, <1>2, <1>3, <1>6 DEF Waits, OutboxKeeps
  <1> QED BY <1>2, <1>4, <1>5, <1>6 DEF Carries

LEMMA LookCarries ==
  ASSUME AgentTypes, NEW s \in Slot, Look(s) \/ LooksInVain(s)
  PROVE  Carries(s)
  <1>1. /\ UNCHANGED <<held, parked, closing, outbox>>
        /\ pc[s] \in {"idle", "looking"} /\ pc'[s] \in {"idle", "looking"}
    BY DEF Look, LooksInVain, Go, AgentTypes, files, stateFile
  <1>2. OutboxKeeps(s)
    BY <1>1, QuietOutbox
  <1> QED BY <1>1, <1>2 DEF Carries, Keeps, Waits, OutboxKeeps, Concluded

\* The claim loop's other steps: what leaves agent-state.json is parked, or its
\* verdict is in the outbox.
LEMMA MoveCarries ==
  ASSUME AgentTypes, NEW s \in Slot, SlotOK(s),
         Begin(s) \/ Concludes(s) \/ Raises(s) \/ Asks(s) \/ LastWord(s) \/ Sent(s)
  PROVE  Carries(s)
  <1>0. PICK j \in Job : j = task[s]
    BY AtHand DEF Begin, Concludes, Raises, Asks, LastWord, Sent
  <1>1. UNCHANGED <<held, parked, closing, task>>
    BY DEF Begin, Concludes, Raises, Asks, LastWord, Sent, files, stateFile
  <1>2. \/ \E w \in {"work", "failing", "flush"} : Go(s, w) /\ UNCHANGED outbox
        \/ \E w \in {"declining", "concluding", "lastword"} :
             /\ Go(s, w) /\ pc[s] \in {"starting", "work", "failing", "stopping"}
             /\ \E kind \in {"done", "failed", "stopped"} : Send(s, j, kind, "claim")
        \/ /\ Go(s, "releasing") /\ UNCHANGED outbox
           /\ pc[s] \in {"parking", "concluding", "lastword"}
    BY <1>0 DEF Begin, Concludes, Raises, Asks, LastWord, Sent, files
  <1>3. pc[s] # "granted" /\ pc'[s] # "granted"
    BY <1>2 DEF Go, AgentTypes, Begin, Concludes, Raises, Asks, LastWord, Sent
  <1>4. OutboxKeeps(s)
    <2>1. ASSUME NEW kind \in {"done", "failed", "stopped"}, Send(s, j, kind, "claim")
          PROVE  OutboxKeeps(s)
      BY <2>1, SendCarries
    <2>2. CASE UNCHANGED outbox
      BY <2>2, QuietOutbox
    <2> QED BY <1>2, <2>1, <2>2
  <1>5. ASSUME NEW i \in Job, held[s] = i, pc[s] \notin Concluded
        PROVE  pc'[s] \notin Concluded \/ Verdict(s, i)'
    <2>1. ASSUME NEW w \in {"work", "failing", "flush"}, Go(s, w)
          PROVE  pc'[s] \notin Concluded
      BY <2>1 DEF Go, AgentTypes, Concluded
    <2>2. ASSUME NEW kind \in {"done", "failed", "stopped"}, Send(s, j, kind, "claim"),
                 pc[s] \in {"starting", "work", "failing", "stopping"}
          PROVE  Verdict(s, i)'
      <3>1. i = j
        BY <1>0, <1>5, <2>2, AgentAssumption DEF SlotOK
      <3>2. kind \in VerdictKind
        BY DEF VerdictKind
      <3> QED BY <2>2, <3>1, <3>2, SendCarries
    <2>3. pc[s] \notin {"parking", "concluding", "lastword"}
      BY <1>5, AgentAssumption DEF SlotOK, Concluded
    <2> QED BY <1>2, <2>1, <2>2, <2>3
  <1>6. ASSUME NEW i \in Job, Keeps(s, i) PROVE Keeps(s, i)'
    BY <1>1, <1>3, <1>4, <1>5, <1>6 DEF Keeps, OutboxKeeps
  <1>7. ASSUME NEW i \in Job, Waits(s, i) PROVE Waits(s, i)'
    BY <1>1, <1>4, <1>7 DEF Waits, OutboxKeeps
  <1> QED BY <1>3, <1>6, <1>7 DEF Carries

\* A job is parked in the same write that takes it from agent-state.json.
LEMMA ParkingCarries ==
  ASSUME AgentTypes, NEW s \in Slot, SlotOK(s), Parking(s)
  PROVE  Carries(s)
  <1>0. PICK j \in Job : j = task[s] /\ pc[s] = "flush"
    BY AtHand DEF Parking
  <1>1. parked'[s][j] = "waiting" /\ \A i \in Job \ {j} : parked'[s][i] = parked[s][i]
    BY <1>0, ParkType DEF Parking
  <1>2. closing'[s] = closing[s] /\ pc'[s] = "parking" /\ held[s] = j
    BY <1>0 DEF Parking, Go, AgentTypes, SlotOK
  <1>3. OutboxKeeps(s)
    BY <1>0, SendCarries DEF Parking
  <1>4. ASSUME NEW i \in Job, Keeps(s, i) PROVE Keeps(s, i)'
    BY <1>0, <1>1, <1>2, <1>3, <1>4 DEF Keeps, OutboxKeeps
  <1>5. ASSUME NEW i \in Job, Waits(s, i) PROVE Waits(s, i)'
    BY <1>1, <1>2, <1>3, <1>5 DEF Waits, OutboxKeeps
  <1> QED BY <1>2, <1>4, <1>5 DEF Carries

\* When handle ends, agent-state.json is left of a job whose verdict was put in
\* the outbox, or which is parked.
LEMMA EndCarries ==
  ASSUME AgentTypes, NEW s \in Slot, SlotOK(s), HandleEnds(s)
  PROVE  Carries(s)
  <1>1. UNCHANGED <<parked, closing, outbox>> /\ pc'[s] = "idle" /\ pc[s] \in {"releasing", "declining"}
    BY DEF HandleEnds, Go, AgentTypes
  <1>2. OutboxKeeps(s)
    BY <1>1, QuietOutbox
  <1>3. ASSUME NEW i \in Job, Keeps(s, i) PROVE Keeps(s, i)'
    BY <1>1, <1>2, <1>3 DEF Keeps, OutboxKeeps, Concluded
  <1>4. ASSUME NEW i \in Job, Waits(s, i) PROVE Waits(s, i)'
    BY <1>1, <1>2, <1>4 DEF Waits, OutboxKeeps
  <1> QED BY <1>1, <1>3, <1>4 DEF Carries

LEMMA StartCarries ==
  ASSUME AgentTypes, NEW s \in Slot, Restart(s) \/ Booted(s)
  PROVE  Carries(s)
  <1>1. UNCHANGED <<held, parked, closing, outbox>>
    BY DEF Restart, Booted, files, stateFile
  <1>2. pc[s] \in {"off", "boot"} /\ pc'[s] \in {"boot", "idle", "resume"}
    BY DEF Restart, Booted, Go, AgentTypes
  <1>3. OutboxKeeps(s)
    BY <1>1, QuietOutbox
  <1>4. ASSUME NEW i \in Job, Keeps(s, i) PROVE Keeps(s, i)'
    BY <1>1, <1>2, <1>3, <1>4 DEF Keeps, OutboxKeeps, Concluded
  <1>5. ASSUME NEW i \in Job, Waits(s, i) PROVE Waits(s, i)'
    BY <1>1, <1>3, <1>5 DEF Waits, OutboxKeeps
  <1> QED BY <1>2, <1>4, <1>5 DEF Carries

\* A letter moves a parked job into the hand of the poll loop, or gives it an
\* answer; only one that is overtaken forgets a job in work.
LEMMA LetterCarries ==
  ASSUME AgentTypes, NEW s \in Slot, NextLetter(s)
  PROVE  Carries(s) /\ \A i \in Job : orphan[i] => orphan'[i]
  <1>0. PICK j \in Job : \E kind : Handled(s, j, kind)
    BY NextLetterHandled
  <1>1. PICK kind : Handled(s, j, kind)
    BY <1>0
  <1>2. closing[s].job = NoJob /\ UNCHANGED <<held, outbox, task>>
    BY NextLetterHandled DEF NoClosing
  <1>3. \A i \in Job \ {j} : parked'[s][i] = parked[s][i]
    BY <1>1 DEF Handled, LetterEffect, LetterStays
  <1>4. OutboxKeeps(s)
    BY <1>2, QuietOutbox
  <1>5. ASSUME Interrupts(s) PROVE Carries(s)
    <2>1. pc'[s] = pc[s] \/ pc'[s] \in {"stopping", "dead"}
      BY <1>5 DEF Interrupts
    <2>2. pc[s] = "granted" => pc'[s] = "granted"
      BY <1>5 DEF Interrupts, InBody, InTail
    <2>3. UNCHANGED <<parked, closing>>
      BY <1>5 DEF Interrupts
    <2>4. ASSUME NEW i \in Job, Keeps(s, i) PROVE Keeps(s, i)'
      BY <1>2, <1>4, <2>1, <2>2, <2>3, <2>4 DEF Keeps, OutboxKeeps, Concluded
    <2>5. ASSUME NEW i \in Job, Waits(s, i) PROVE Waits(s, i)'
      BY <1>2, <1>4, <2>3, <2>5 DEF Waits, OutboxKeeps
    <2> QED BY <1>2, <2>1, <2>4, <2>5 DEF Carries
  <1>6. ASSUME Unparks(s, j, kind) PROVE Carries(s)
    <2>1. pc' = pc /\ parked[s][j] # "no"
      BY <1>6 DEF Unparks
    <2>2. ASSUME NEW i \in Job, i # j
          PROVE  (Keeps(s, i) => Keeps(s, i)') /\ (Waits(s, i) => Waits(s, i)')
      BY <1>2, <1>3, <1>4, <2>1, <2>2, AgentAssumption DEF Keeps, Waits, OutboxKeeps
    <2>3. CASE closing'[s].job = j
      <3>1. Keeps(s, j)' /\ Waits(s, j)'
        BY <2>3 DEF Keeps, Waits
      <3> QED BY <1>2, <2>1, <2>2, <3>1 DEF Carries
    <2>4. CASE kind = "answer" /\ parked'[s][j] = "answered"
      <3>1. Keeps(s, j)'
        BY <2>4 DEF Keeps
      <3>2. status[j] = "waiting_owner" => orphan'[j]
        BY <1>1, <2>1, <2>4 DEF Handled
      <3> QED BY <1>2, <2>1, <2>2, <3>1, <3>2 DEF Carries
    <2>5. CASE kind = "resume"
      <3>1. status[j] \in {"running", "waiting_owner"} => orphan'[j]
        BY <1>1, <2>1, <2>5 DEF Handled, ActiveStatus
      <3> QED BY <1>2, <2>1, <2>2, <3>1 DEF Carries
    <2> QED BY <1>6, <2>3, <2>4, <2>5 DEF Unparks
  <1> QED BY <1>1, <1>5, <1>6 DEF Handled, LetterEffect

\* The job that the poll loop closes leaves the state file, and its verdict
\* enters the outbox.
LEMMA CloseCarries ==
  ASSUME AgentTypes, NEW s \in Slot, SlotOK(s), CloseParked(s)
  PROVE  Carries(s)
  <1>1. PICK j \in Job, end \in {"stopped", "failed"} : closing[s].job = j /\ closing[s].kind = end
    BY CloseShape
  <1>2. Send(s, j, end, "poll") /\ UNCHANGED <<held, pc, task>>
    BY <1>1 DEF CloseParked
  <1>3. OutboxKeeps(s) /\ Verdict(s, j)' /\ Ending(s, j)'
    BY <1>2, SendCarries DEF VerdictKind
  <1>4. \A i \in Job \ {j} : parked'[s][i] = parked[s][i]
    BY <1>1, CloseShape
  <1>5. ASSUME NEW i \in Job, Keeps(s, i) PROVE Keeps(s, i)'
    BY <1>1, <1>2, <1>3, <1>4, <1>5 DEF Keeps, OutboxKeeps
  <1>6. ASSUME NEW i \in Job, Waits(s, i) PROVE Waits(s, i)'
    BY <1>1, <1>3, <1>4, <1>6 DEF Waits, OutboxKeeps
  <1> QED BY <1>2, <1>5, <1>6 DEF Carries

LEMMA PollCarries ==
  ASSUME HubTypeOK, AgentTypes, NEW s \in Slot, SlotOK(s), PollCall(s) \/ PollEnds(s)
  PROVE  Carries(s)
  <1>1. /\ pc'[s] = pc[s] /\ task'[s] = task[s] /\ held'[s] = held[s] /\ parked'[s] = parked[s]
        /\ closing'[s] = closing[s] /\ outbox'[s] = outbox[s]
    BY DEF PollCall, PollEnds, files, stateFile
  <1> QED BY <1>1 DEF Carries, Keeps, Waits, Verdict, Ending, Pending

\* A death keeps the files.  A claim that was not saved yet, and a job that was
\* being closed, are what is lost.
LEMMA CrashCarries ==
  ASSUME AgentTypes, \A s \in Slot : SlotOK(s), Crash, NEW s \in Slot
  PROVE  Carries(s)
  <1>1. UNCHANGED <<held, parked, outbox>> /\ pc'[s] = "off"
    BY CrashShape DEF files, stateFile
  <1>2. \A j \in Job : (pc[s] = "granted" /\ task[s] = j) \/ closing[s].job = j => orphan'[j]
    BY CrashShape
  <1>3. OutboxKeeps(s)
    BY <1>1, QuietOutbox
  <1>4. ASSUME NEW i \in Job, ~orphan'[i], Keeps(s, i) PROVE Keeps(s, i)'
    BY <1>1, <1>2, <1>3, <1>4 DEF Keeps, OutboxKeeps, Concluded
  <1>5. ASSUME NEW i \in Job, ~orphan'[i], Waits(s, i) PROVE Waits(s, i)'
    BY <1>1, <1>2, <1>3, <1>5 DEF Waits, OutboxKeeps
  <1> QED BY <1>1, <1>4, <1>5 DEF Carries

\* A death between the two files of _park costs the question of that job only.
LEMMA DiesParkingCarries ==
  ASSUME AgentTypes, \A x \in Slot : SlotOK(x), NEW s \in Slot, DiesParking(s), NEW x \in Slot
  PROVE  Carries(x)
  <1>1. outbox' = outbox /\ pc'[x] = "off"
    BY DiesParkingShape
  <1>2. ASSUME NEW i \in Job, ~orphan'[i]
        PROVE  /\ held'[x] = i <=> held[x] = i
               /\ parked'[x][i] = parked[x][i]
               /\ ~(pc[x] = "granted" /\ task[x] = i) /\ closing[x].job # i
    <2>1. i # task[s] /\ ~(pc[x] = "granted" /\ task[x] = i) /\ closing[x].job # i
      BY <1>2, DiesParkingShape
    <2>2. CASE x = s
      <3>1. held'[s] = NoJob /\ held[s] = task[s] /\ parked'[s][i] = parked[s][i]
        BY <2>1, DiesParkingShape
      <3> QED BY <2>1, <2>2, <3>1, AgentAssumption
    <2>3. CASE x # s
      <3>1. held'[x] = held[x] /\ parked'[x] = parked[x]
        BY <2>3, DiesParkingShape
      <3> QED BY <2>1, <3>1
    <2> QED BY <2>2, <2>3
  <1>3. OutboxKeeps(x)
    BY <1>1, QuietOutbox
  <1>4. ASSUME NEW i \in Job, ~orphan'[i], Keeps(x, i) PROVE Keeps(x, i)'
    BY <1>1, <1>2, <1>3, <1>4 DEF Keeps, OutboxKeeps, Concluded
  <1>5. ASSUME NEW i \in Job, ~orphan'[i], Waits(x, i) PROVE Waits(x, i)'
    BY <1>2, <1>3, <1>5 DEF Waits, OutboxKeeps
  <1> QED BY <1>1, <1>4, <1>5 DEF Carries

-----------------------------------------------------------------------------
(* The calls of the hub.                                                   *)

\* What a message that the hub takes does to the job.
LEMMA PostEffect ==
  ASSUME HubTypeOK, NEW j \in Job,
         NEW kind \in {"started", "question", "done", "failed", "stopped"}, HubPost(j, kind)
  PROVE  /\ executor' = executor /\ presumed' = presumed
         /\ \A i \in Job \ {j} : status'[i] = status[i]
         /\ \/ kind = "started" /\ status' = status
            \/ kind = "question" /\ status[j] = "running" /\ status'[j] = "waiting_owner"
            \/ status'[j] \in TerminalStatus
  <1>1. CASE kind = "started" /\ Progress(Agent, j, kind)
    BY <1>1 DEF Progress, history
  <1>2. CASE ConfirmStop(Agent, j)
    BY <1>2 DEF ConfirmStop, CanConfirmStop, TerminalStatus, history
  <1>3. CASE kind # "started" /\ Report(Agent, j, kind)
    <2>1. /\ Target["question"] = "waiting_owner"
          /\ \A k \in {"done", "failed", "stopped"} : Target[k] \in TerminalStatus
      BY DEF Target, TerminalStatus
    <2>2. /\ executor' = executor /\ status' = [status EXCEPT ![j] = Target[kind]]
          /\ presumed' = presumed /\ <<status[j], Target[kind]>> \in Transition
      BY <1>3 DEF Report, CanReport, history
    <2>3. kind = "question" => status[j] = "running"
      BY <2>1, <2>2 DEF Transition
    <2> QED BY <1>3, <2>1, <2>2, <2>3 DEF HubTypeOK
  <1> QED BY <1>1, <1>2, <1>3 DEF HubPost

\* The hub refuses no verdict on a job that runs, and no failure and no stop of
\* one that waits for its owner.
LEMMA Refused ==
  ASSUME NEW j \in Job, NEW kind \in {"started", "question", "done", "failed", "stopped"},
         ~HubTakes(j, kind), executor[j] = Agent
  PROVE  /\ status[j] = "running" => kind \notin VerdictKind
         /\ status[j] = "waiting_owner" => kind \notin {"failed", "stopped"}
  <1>1. kind # "started" => ~CanReport(Agent, j, kind)
    BY DEF HubTakes
  <1>2. ASSUME kind \in {"done", "failed", "stopped"}
        PROVE  <<status[j], Target[kind]>> \notin Transition
    BY <1>1, <1>2 DEF CanReport, KindFits
  <1>3. Target["done"] = "done" /\ Target["failed"] = "failed" /\ Target["stopped"] = "stopped"
    BY DEF Target
  <1> QED BY <1>2, <1>3 DEF Transition, VerdictKind

\* A message that leaves the outbox is its first one.
LEMMA DrainedOutbox ==
  ASSUME AgentTypes, NEW s \in Slot, outbox[s] # <<>>, Pop(s) \/ outbox' = outbox,
         NEW j, NEW kind, j = Head(outbox[s]).job, kind = Head(outbox[s]).kind,
         NEW x \in Slot, NEW i \in Job
  PROVE  /\ i # j \/ kind \notin VerdictKind \/ outbox' = outbox => (Verdict(x, i) => Verdict(x, i)')
         /\ i # j \/ kind \notin {"failed", "stopped"} \/ outbox' = outbox
              => (Ending(x, i) => Ending(x, i)')
  <1>1. CASE outbox'[x] = outbox[x]
    BY <1>1 DEF Verdict, Ending, Pending
  <1>2. CASE Pop(s) /\ x = s
    <2>1. \A kinds : Pending(s, i, kinds) /\ ~(j = i /\ kind \in kinds) => Pending(s, i, kinds)'
      BY <1>2, PopPends
    <2>2. outbox' = outbox => (Verdict(x, i) => Verdict(x, i)') /\ (Ending(x, i) => Ending(x, i)')
      BY DEF Verdict, Ending, Pending
    <2> QED BY <1>2, <2>1, <2>2 DEF Verdict, Ending
  <1>3. CASE Pop(s) /\ x # s
    BY <1>1, <1>3, PopPends
  <1> QED BY <1>1, <1>2, <1>3

LEMMA DrainKnown ==
  ASSUME HubTypeOK, AgentTypes, \A x \in Slot : SlotOK(x), KnownInv, NEW s \in Slot, Drain(s)
  PROVE  KnownInv'
  <1>1. PICK j \in Job, kind \in {"started", "question", "done", "failed", "stopped"} :
          j = Head(outbox[s]).job /\ kind = Head(outbox[s]).kind
    BY DrainShape, FirstMessage
  <1>2. /\ Drained(s, j, kind) /\ outbox[s] # <<>> /\ (Pop(s) \/ outbox' = outbox)
        /\ UNCHANGED <<held, parked, pc, task, closing>>
        /\ \A i \in Job : orphan[i] => orphan'[i]
    BY <1>1, DrainShape DEF stateFile
  <1>3. ASSUME NEW x \in Slot, NEW i \in Job
        PROVE  /\ i # j \/ kind \notin VerdictKind \/ outbox' = outbox => (Keeps(x, i) => Keeps(x, i)')
               /\ i # j \/ kind \notin {"failed", "stopped"} \/ outbox' = outbox
                    => (Waits(x, i) => Waits(x, i)')
    BY <1>1, <1>2, DrainedOutbox DEF Keeps, Waits
  <1>4. CASE HubPost(j, kind) /\ (Late(s, j, kind) => orphan'[j])
    <2>1. /\ executor' = executor /\ presumed' = presumed
          /\ \A i \in Job \ {j} : status'[i] = status[i]
          /\ \/ kind = "started" /\ status' = status
             \/ kind = "question" /\ status[j] = "running" /\ status'[j] = "waiting_owner"
             \/ status'[j] \in TerminalStatus
      BY <1>4, PostEffect
    <2>2. status'[j] \in TerminalStatus => status'[j] \notin ActiveStatus
      BY DEF TerminalStatus, ActiveStatus
    <2>3. InWork'
      BY <2>1, <2>2 DEF KnownInv, InWork, ActiveStatus
    <2>4. Granted'
      <3>1. ASSUME NEW x \in Slot, pc[x] = "granted", status'[task[x]] = "waiting_owner"
            PROVE  orphan'[task[x]]
        <4>1. task[x] \in Job
          BY <3>1, AtHand
        <4>2. CASE task[x] = j /\ kind = "question"
          BY <1>4, <3>1, <4>2 DEF Late
        <4>3. CASE status[task[x]] = "waiting_owner"
          BY <1>2, <3>1, <4>1, <4>3 DEF KnownInv, Granted
        <4> QED BY <2>1, <2>2, <3>1, <4>1, <4>2, <4>3 DEF ActiveStatus
      <3> QED BY <1>2, <3>1 DEF Granted
    <2>5. Awaited'
      <3>1. ASSUME NEW i \in Job, i # j, status'[i] = "waiting_owner", ~orphan'[i], i \notin presumed'
            PROVE  \E x \in Slot : Waits(x, i)'
        BY <1>2, <1>3, <2>1, <3>1 DEF KnownInv, Awaited
      <3>2. ASSUME status'[j] = "waiting_owner", ~orphan'[j], j \notin presumed'
            PROVE  \E x \in Slot : Waits(x, j)'
        <4>1. CASE kind = "question"
          <5>1. parked[s][j] = "waiting"
            BY <1>4, <3>2, <4>1 DEF Late
          <5> QED BY <1>2, <5>1 DEF Waits
        <4>2. CASE kind = "started" /\ status' = status
          <5>1. status[j] = "waiting_owner" /\ ~orphan[j] /\ j \notin presumed
            BY <1>2, <2>1, <3>2, <4>2
          <5>2. PICK x \in Slot : Waits(x, j)
            BY <5>1 DEF KnownInv, Awaited
          <5> QED BY <1>3, <4>2, <5>2
        <4> QED BY <2>1, <2>2, <3>2, <4>1, <4>2 DEF ActiveStatus
      <3> QED BY <3>1, <3>2 DEF Awaited
    <2>6. Kept'
      <3>1. ASSUME NEW i \in Job, status'[i] = "running", ~orphan'[i], i \notin presumed'
            PROVE  \E x \in Slot : Keeps(x, i)'
        <4>1. status[i] = "running" /\ (i # j \/ kind \notin VerdictKind)
          BY <2>1, <2>2, <3>1 DEF ActiveStatus, VerdictKind
        <4>2. ~orphan[i] /\ i \notin presumed
          BY <1>2, <2>1, <3>1
        <4>3. PICK x \in Slot : Keeps(x, i)
          BY <4>1, <4>2 DEF KnownInv, Kept
        <4> QED BY <1>3, <4>1, <4>3
      <3> QED BY <3>1 DEF Kept
    <2> QED BY <2>3, <2>4, <2>5, <2>6 DEF KnownInv
  <1>5. CASE (~HubTakes(j, kind) \/ outbox' = outbox) /\ UNCHANGED hubVars
    <2>1. status' = status /\ executor' = executor /\ presumed' = presumed
      BY <1>5 DEF hubVars, history
    <2>2. ASSUME NEW i \in Job, status[i] = "running", i \notin presumed
          PROVE  i # j \/ kind \notin VerdictKind \/ outbox' = outbox
      <3>1. executor[i] = Agent
        BY <2>2 DEF KnownInv, InWork, ActiveStatus
      <3> QED BY <1>5, <2>2, <3>1, Refused
    <2>3. ASSUME NEW i \in Job, status[i] = "waiting_owner", i \notin presumed
          PROVE  i # j \/ kind \notin {"failed", "stopped"} \/ outbox' = outbox
      <3>1. executor[i] = Agent
        BY <2>3 DEF KnownInv, InWork, ActiveStatus
      <3> QED BY <1>5, <2>3, <3>1, Refused
    <2>4. \A x \in Slot : Carries(x)
      BY <1>2, <1>3, <2>2, <2>3 DEF Carries
    <2> QED BY <1>2, <2>1, <2>4, CarriedOn
  <1> QED BY <1>2, <1>4, <1>5 DEF Drained

\* A claim that is answered is in the hand of its slot; one whose answer is
\* lost is what the history records.
LEMMA ClaimKnown ==
  ASSUME HubTypeOK, AgentTypes, \A x \in Slot : SlotOK(x), KnownInv,
         NEW s \in Slot, NEW j \in Job, ClaimCall(s, j)
  PROVE  KnownInv'
  <1>1. /\ status[j] = "queued" /\ j \notin TestJob /\ pc[s] = "looking"
        /\ presumed' = presumed \ {j}
        /\ status'[j] = "running" /\ (\A i \in Job \ {j} : status'[i] = status[i])
        /\ executor'[j] = Agent /\ (\A i \in Job \ {j} : executor'[i] = executor[i])
        /\ UNCHANGED <<held, parked, outbox, closing>>
    BY ClaimShape DEF HubTypeOK, files, stateFile
  <1>2. /\ \A i \in Job \ {j} : orphan'[i] = orphan[i]
        /\ \A x \in Slot \ {s} : pc'[x] = pc[x] /\ task'[x] = task[x]
        /\ \/ pc'[s] = "granted" /\ task'[s] = j /\ ~orphan'[j]
           \/ pc'[s] = "idle" /\ task' = task /\ orphan'[j]
    BY ClaimShape DEF Shaped, Same
  <1>3. ASSUME NEW x \in Slot, NEW i \in Job
        PROVE  (Keeps(x, i) => Keeps(x, i)') /\ (Waits(x, i) => Waits(x, i)')
    <2>1. (Verdict(x, i) <=> Verdict(x, i)') /\ (Ending(x, i) <=> Ending(x, i)')
      BY <1>1 DEF Verdict, Ending, Pending
    <2>2. \/ pc'[x] = pc[x] /\ task'[x] = task[x]
          \/ pc[x] = "looking" /\ pc'[x] \in {"granted", "idle"}
      BY <1>1, <1>2
    <2> QED BY <1>1, <2>1, <2>2 DEF Keeps, Waits, Concluded
  <1>4. InWork'
    BY <1>1 DEF KnownInv, InWork
  <1>5. Granted'
    <2>1. ASSUME NEW x \in Slot, pc'[x] = "granted", status'[task'[x]] = "waiting_owner"
          PROVE  orphan'[task'[x]]
      <3>1. task'[x] # j
        BY <1>1, <2>1
      <3>2. pc[x] = "granted" /\ task'[x] = task[x]
        BY <1>2, <2>1, <3>1
      <3>3. task[x] \in Job
        BY <3>2, AtHand
      <3> QED BY <1>1, <1>2, <2>1, <3>1, <3>2, <3>3 DEF KnownInv, Granted
    <2> QED BY <2>1 DEF Granted
  <1>6. Awaited'
    BY <1>1, <1>2, <1>3 DEF KnownInv, Awaited
  <1>7. Kept'
    <2>1. ~orphan'[j] => Keeps(s, j)'
      BY <1>2 DEF Keeps
    <2> QED BY <1>1, <1>2, <1>3, <2>1 DEF KnownInv, Kept
  <1> QED BY <1>4, <1>5, <1>6, <1>7 DEF KnownInv

\* The owner's answer finds the job parked, and so in a slot's hand; or it comes
\* before the claim, and that is what presumed records.
LEMMA OwnerKnown ==
  ASSUME HubTypeOK, AgentTypes, \A x \in Slot : SlotOK(x), KnownInv,
         NEW j \in Job, OwnerSubmit(j) \/ OwnerCall(j)
  PROVE  KnownInv'
  <1>1. /\ UNCHANGED <<held, parked, outbox, pc, task, closing>>
        /\ \A i \in Job \ {j} : orphan'[i] = orphan[i]
        /\ status'[j] \in ActiveStatus => orphan'[j] = orphan[j]
    BY OwnerShape DEF files, stateFile, memory
  <1>2. Submit(j) \/ Stop(j) \/ Answer(j) \/ Resume(j)
    BY DEF OwnerSubmit, OwnerCall
  <1>3. /\ executor' = executor /\ \A i \in Job \ {j} : status'[i] = status[i]
        /\ \A i \in Job \ {j} : i \in presumed' <=> i \in presumed
        /\ \/ status'[j] \in {"queued", "stopped"}
           \/ status[j] = "waiting_owner" /\ status'[j] = "running" /\ presumed' = presumed
           \/ status'[j] = "running" /\ j \in presumed'
    BY <1>2 DEF Submit, Stop, Answer, Resume, HubTypeOK, history
  <1>4. ASSUME NEW x \in Slot, NEW i \in Job
        PROVE  (Keeps(x, i) => Keeps(x, i)') /\ (Waits(x, i) => Waits(x, i)')
    BY <1>1 DEF Keeps, Waits, Verdict, Ending, Pending
  <1>5. InWork'
    BY <1>3 DEF KnownInv, InWork, ActiveStatus
  <1>6. Granted'
    <2>1. ASSUME NEW x \in Slot, pc[x] = "granted", status'[task[x]] = "waiting_owner"
          PROVE  orphan'[task[x]]
      <3>1. task[x] \in Job /\ task[x] # j
        BY <1>3, <2>1, AtHand
      <3> QED BY <1>1, <1>3, <2>1, <3>1 DEF KnownInv, Granted
    <2> QED BY <1>1, <2>1 DEF Granted
  <1>7. Awaited'
    BY <1>1, <1>3, <1>4 DEF KnownInv, Awaited
  <1>8. Kept'
    <2>1. ASSUME NEW i \in Job, i # j, status'[i] = "running", ~orphan'[i], i \notin presumed'
          PROVE  \E x \in Slot : Keeps(x, i)'
      BY <1>1, <1>3, <1>4, <2>1 DEF KnownInv, Kept
    <2>2. ASSUME status'[j] = "running", ~orphan'[j], j \notin presumed'
          PROVE  \E x \in Slot : Keeps(x, j)'
      <3>1. status[j] = "waiting_owner" /\ ~orphan[j] /\ j \notin presumed
        BY <1>1, <1>3, <2>2 DEF ActiveStatus
      <3>2. PICK x \in Slot : Waits(x, j)
        BY <3>1 DEF KnownInv, Awaited
      <3> QED BY <1>4, <3>2, WaitingIsKept
    <2> QED BY <2>1, <2>2 DEF Kept
  <1> QED BY <1>5, <1>6, <1>7, <1>8 DEF KnownInv

LEMMA KnownInvStep ==
  ASSUME HubTypeOK, AgentInv, KnownInv, [AgentNext]_allVars
  PROVE  KnownInv'
  <1> USE DEF AgentInv
  <1>1. ASSUME NEW s \in Slot, Carries(s), \A x \in Slot \ {s} : Same(x),
               UNCHANGED hubVars, \A j \in Job : orphan[j] => orphan'[j]
        PROVE  KnownInv'
    <2>1. \A x \in Slot : Carries(x)
      BY <1>1, SameCarries
    <2>2. UNCHANGED <<status, executor, presumed>>
      BY <1>1 DEF hubVars, history
    <2> QED BY <1>1, <2>1, <2>2, CarriedOn
  <1>2. messages \subseteq messages'
    BY AgentStepIsHubStep, MailboxGrows
  <1>3. ASSUME NEW s \in Slot, SlotStep(s) PROVE \A x \in Slot \ {s} : Same(x)
    BY <1>2, <1>3, SlotStepShape DEF Shaped
  <1>4. ASSUME NEW s \in Slot, Inner(s) PROVE KnownInv'
    <2>1. SlotStep(s) /\ UNCHANGED hubVars
      BY <1>4, InnerLeavesHub DEF Inner, SlotStep, ClaimLoop, PollLoop
    <2>2. Carries(s)
      <3>1. CASE TakeResumed(s)
        <4>1. Continue(s, task[s]) /\ task[s] \in Job /\ pc[s] = "resume"
          BY <3>1, AtHand DEF TakeResumed
        <4> QED BY <4>1, ContinueCarries
      <3>2. CASE TakeAnswered(s)
        <4>1. PICK j \in Job : Continue(s, j) /\ pc[s] = "idle" /\ parked[s][j] = "answered"
          BY <3>2 DEF TakeAnswered, Answered
        <4> QED BY <4>1, ContinueCarries
      <3>3. CASE Handle(s)
        BY <3>3, HandleCarries DEF KnownInv
      <3>9. CASE Look(s) \/ LooksInVain(s)
        BY <3>9, LookCarries
      <3>4. CASE Begin(s) \/ Concludes(s) \/ Raises(s) \/ Asks(s) \/ LastWord(s) \/ Sent(s)
        BY <3>4, MoveCarries
      <3>5. CASE Parking(s) \/ HandleEnds(s)
        BY <3>5, ParkingCarries, EndCarries
      <3>6. CASE NextLetter(s) \/ CloseParked(s)
        BY <3>6, LetterCarries, CloseCarries
      <3>7. CASE PollEnds(s)
        BY <3>7, PollCarries
      <3>8. CASE Restart(s) \/ Booted(s)
        BY <3>8, StartCarries
      <3> QED BY <1>4, <3>1, <3>2, <3>3, <3>4, <3>5, <3>6, <3>7, <3>8, <3>9
              DEF Inner
    <2>3. \A j \in Job : orphan[j] => orphan'[j]
      <3>1. CASE NextLetter(s)
        BY <3>1, LetterCarries
      <3>2. CASE UNCHANGED orphan
        BY <3>2
      <3> QED
        BY <1>4, <3>1, <3>2 DEF Inner, TakeResumed, TakeAnswered, Continue, Look, LooksInVain, Handle,
           Begin, Concludes, Raises, Asks, Parking, LastWord, Sent, HandleEnds, CloseParked, PollEnds, Restart, Booted
    <2> QED BY <1>1, <1>3, <2>1, <2>2, <2>3
  <1>5. ASSUME NEW s \in Slot, PollCall(s) PROVE KnownInv'
    <2>1. Carries(s) /\ \A x \in Slot \ {s} : Same(x)
      BY <1>3, <1>5, PollCarries DEF SlotStep, PollLoop
    <2>2. UNCHANGED <<status, executor, presumed, orphan>>
      BY <1>5, PollShape
    <2>3. \A x \in Slot : Carries(x)
      BY <2>1, SameCarries
    <2> QED BY <2>2, <2>3, CarriedOn
  <1>6. ASSUME NEW s \in Slot, Drain(s) PROVE KnownInv'
    BY <1>6, DrainKnown
  <1>7. ASSUME NEW s \in Slot, NEW j \in Job, ClaimCall(s, j) PROVE KnownInv'
    BY <1>7, ClaimKnown
  <1>8. CASE Crash
    <2>1. \A s \in Slot : Carries(s)
      BY <1>8, CrashCarries
    <2>2. UNCHANGED <<status, executor, presumed>> /\ \A j \in Job : orphan[j] => orphan'[j]
      BY <1>8, CrashShape DEF hubVars, history
    <2> QED BY <2>1, <2>2, CarriedOn
  <1>11. ASSUME NEW s \in Slot, DiesParking(s) PROVE KnownInv'
    <2>1. \A x \in Slot : Carries(x)
      BY <1>11, DiesParkingCarries
    <2>2. UNCHANGED <<status, executor, presumed>> /\ \A j \in Job : orphan[j] => orphan'[j]
      BY <1>11, DiesParkingShape DEF hubVars, history
    <2> QED BY <2>1, <2>2, CarriedOn
  <1>9. ASSUME NEW j \in Job, OwnerSubmit(j) \/ OwnerCall(j) PROVE KnownInv'
    BY <1>9, OwnerKnown
  <1>10. CASE UNCHANGED allVars
    <2>1. UNCHANGED <<status, executor, presumed, orphan>> /\ \A s \in Slot : Same(s)
      BY <1>10 DEF allVars, hubVars, history, agentVars, files, stateFile, memory, Same
    <2> QED BY <2>1, SameCarries, CarriedOn
  <1> QED
    BY <1>4, <1>5, <1>6, <1>7, <1>8, <1>9, <1>10, <1>11
    DEF AgentNext, ClaimLoop, PollLoop, Inner

\* The invariants of the composition together.
AgentSafe == HubTypeOK /\ AgentInv /\ KnownInv

LEMMA AgentAlwaysSafe == AgentSpec => []AgentSafe
  <1>1. AgentInit => AgentSafe
    <2>1. HubInit => HubTypeOK
      BY HubAssumption DEF HubInit, HubTypeOK, Status
    <2>2. AgentInit => KnownInv
      BY DEF AgentInit, HubInit, KnownInv, InWork, Granted, Awaited, Kept, ActiveStatus
    <2> QED BY <2>1, <2>2, AgentInvInit DEF AgentInit, AgentSafe
  <1>2. AgentSafe /\ [AgentNext]_allVars => AgentSafe'
    BY AgentStepIsHubStep, HubTypeStep, AgentInvStep, KnownInvStep DEF AgentSafe, AgentInv
  <1> QED BY <1>1, <1>2, PTL DEF AgentSpec

\* A job that the hub counts as running or waiting for its owner since it was
\* claimed is one that a slot still knows of, but for the accidents that the
\* history records, each a step named in AgentWorker: no other death of the
\* process and no other lost call drops a run in silence.  Excepted is a run that
\* an answer to the queued job began, of which no slot is told.
THEOREM AgentKnowsItsRuns == AgentSpec => []AgentRunsKnown
  <1>1. AgentSafe => AgentRunsKnown
    <2>1. ASSUME NEW s \in Slot, NEW j \in Job, Keeps(s, j)
          PROVE  Knows(s, j)
      BY <2>1 DEF Keeps, Knows, Verdict
    <2>2. ASSUME AgentSafe, NEW j \in Job, status[j] \in ActiveStatus, ~orphan[j], j \notin presumed
          PROVE  \E s \in Slot : Keeps(s, j)
      BY <2>2, WaitingIsKept DEF AgentSafe, KnownInv, Awaited, Kept, ActiveStatus
    <2> QED BY <2>1, <2>2 DEF AgentRunsKnown
  <1> QED BY <1>1, AgentAlwaysSafe, PTL

\* But for those accidents, a job that was claimed and waits for its owner has its question
\* parked in a slot that will take the answer, or its end is under way: what the
\* docs promise of every waiting job holds of all but those.
THEOREM AgentQuestionsParked == AgentSpec => []Awaited
  <1>1. AgentSafe => Awaited
    BY DEF AgentSafe, KnownInv
  <1> QED BY <1>1, AgentAlwaysSafe, PTL

\* The job of agent-state.json is not among the parked ones of its slot.
HandOrParked == \A s \in Slot : held[s] # NoJob => parked[s][held[s]] = "no"

\* No letter parks the job at hand again or answers it, and none that is gone on
\* with stays parked: after a restart a slot never takes up one job twice.
THEOREM AgentHandOrParked == AgentSpec => []HandOrParked
  <1>1. AgentSafe => HandOrParked
    BY DEF AgentSafe, AgentInv, SlotOK, HandOrParked
  <1> QED BY <1>1, AgentAlwaysSafe, PTL

=============================================================================
