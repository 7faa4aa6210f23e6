---------------------------- MODULE WorkerProofs ----------------------------
(***************************************************************************)
(* Proofs about the worker and the connector, for any number of findings,  *)
(* connections, starts of the enclave and posts, and any capacity of the   *)
(* channel: no accepted task is lost, doubled or overtaken; responses,     *)
(* registrations, keys and identities are those of the connection and of   *)
(* the submission they are used with; redelivery is harmless; the two sides*)
(* never wait for each other; and together they implement module Service.  *)
(***************************************************************************)
EXTENDS Worker, SequenceTheorems, TLAPS

\* What the worker has of the accepted tasks, in their order.
Tasks(s, t, b, r) == s \o OneOrNone(t) \o OneOrNone(b) \o r

LEMMA OptionIsSeq ==
  ASSUME NEW t \in Option(Task) PROVE OneOrNone(t) \in Seq(Task)
  BY DEF OneOrNone, Option

LEMMA PostTasks ==
  ASSUME NEW s \in Seq(Task), NEW t \in Option(Task), NEW b \in Option(Task),
         NEW r \in Seq(Task), NEW x \in Task
  PROVE  Tasks(s, t, b, Append(r, x)) = Append(Tasks(s, t, b, r), x)
<1>1. OneOrNone(t) \in Seq(Task) /\ OneOrNone(b) \in Seq(Task)
  BY OptionIsSeq
<1>2. s \o OneOrNone(t) \o OneOrNone(b) \in Seq(Task)
  BY <1>1
<1> QED
  BY <1>2 DEF Tasks

LEMMA TakeBacklogTasks ==
  ASSUME NEW s \in Seq(Task), NEW b \in Option(Task), NEW r \in Seq(Task)
  PROVE  Tasks(s, None, b, r) = Tasks(s, b, None, r)
<1>1. OneOrNone(b) \in Seq(Task) /\ OneOrNone(None) = <<>>
  BY OptionIsSeq DEF OneOrNone
<1> QED
  BY <1>1 DEF Tasks

LEMMA TakeHeadTasks ==
  ASSUME NEW s \in Seq(Task), NEW h \in Task, NEW q \in Seq(Task)
  PROVE  Tasks(s, None, None, <<h>> \o q) = Tasks(s, h, None, q)
<1>1. OneOrNone(None) = <<>> /\ OneOrNone(h) = <<h>>
  BY WorkerAssumption DEF OneOrNone, Task
<1>2. s \o (<<h>> \o q) = (s \o <<h>>) \o q
  OBVIOUS
<1> QED
  BY <1>1, <1>2 DEF Tasks

LEMMA HeadAndTail ==
  ASSUME NEW r \in Seq(Task), r # <<>>
  PROVE  Head(r) \in Task /\ Tail(r) \in Seq(Task) /\ r = <<Head(r)>> \o Tail(r)
<1> DEFINE q == <<Head(r)>> \o Tail(r)
<1>1. Head(r) \in Task /\ Tail(r) \in Seq(Task)
  OBVIOUS
<1>2. /\ Len(Tail(r)) = Len(r) - 1
      /\ \A i \in 1 .. Len(Tail(r)) : Tail(r)[i] = r[i + 1]
      /\ Head(r) = r[1] /\ Len(r) \in Nat \ {0}
  BY HeadTailProperties
<1>3. q \in Seq(Task) /\ Len(q) = Len(r)
  BY <1>1, <1>2
<1>4. \A i \in 1 .. Len(r) : q[i] = r[i]
  BY <1>1, <1>2
<1> HIDE DEF q
<1>5. r = q
  BY <1>3, <1>4, SeqEqual
<1> QED
  BY <1>1, <1>5 DEF q

LEMMA TakeReceiverTasks ==
  ASSUME NEW s \in Seq(Task), NEW r \in Seq(Task), r # <<>>
  PROVE  Tasks(s, None, None, r) = Tasks(s, Head(r), None, Tail(r))
<1> DEFINE h == Head(r)
           q == Tail(r)
<1>1. h \in Task /\ q \in Seq(Task) /\ r = <<h>> \o q
  BY HeadAndTail
<1> HIDE DEF h, q
<1>2. Tasks(s, None, None, r) = Tasks(s, h, None, q)
  BY <1>1, TakeHeadTasks
<1> QED
  BY <1>2 DEF h, q

LEMMA SettleTasks ==
  ASSUME NEW s \in Seq(Task), NEW t \in Task, NEW r \in Seq(Task)
  PROVE  Tasks(Append(s, t), None, None, r) = Tasks(s, t, None, r)
<1>1. OneOrNone(None) = <<>> /\ OneOrNone(t) = <<t>>
  BY WorkerAssumption DEF OneOrNone, Task
<1> QED
  BY <1>1 DEF Tasks

-----------------------------------------------------------------------------
(* The inductive invariant *)

Idle == {"accept", "handshake", "destroy", "register", "next_task"}
Busy == {"send", "await", "process", "submit"}

QueueTypes ==
  /\ receiver \in Seq(Task) /\ backlog \in Option(Task) /\ task \in Option(Task)
  /\ accepted \in Seq(Task) /\ settled \in Seq(Task)

\* The worker has a task in hand exactly where it is busy, and then the backlog is
\* empty: taking the task back overwrites nothing.
Holding ==
  /\ pc \in Idle \cup Busy \cup {"dead"}
  /\ pc \in Idle => task = None
  /\ pc \in Busy => task # None /\ backlog = None

IInv == QueueTypes /\ Holding /\ NoTaskLost

\* NoTaskLost in the words of the lemmas about Tasks.
Accounted == accepted = Tasks(settled, task, backlog, receiver)

LEMMA WhileAlive == ASSUME IInv, pc # "dead" PROVE Accounted
  BY DEF IInv, NoTaskLost, Accounted, Tasks

LEMMA StaysAccounted ==
  ASSUME QueueTypes', Holding', Accounted' PROVE IInv'
  BY DEF IInv, NoTaskLost, Accounted, Tasks, Holding, Idle, Busy

\* A step that leaves the tasks alone, and the worker idle or busy as it was.
LEMMA QuietStep ==
  ASSUME IInv, UNCHANGED <<receiver, backlog, task, accepted, settled>>,
         \/ pc' = pc
         \/ pc \in Idle /\ pc' \in Idle
         \/ pc \in Busy /\ pc' \in Busy
  PROVE  IInv'
  BY DEF IInv, QueueTypes, Holding, NoTaskLost, Idle, Busy

LEMMA DieStep ==
  ASSUME IInv, NEW call, Die(call)
  PROVE  IInv'
<1>1. <<>> \in Seq(Task)
  OBVIOUS
<1> QED
  BY <1>1 DEF Die, Goto, IInv, QueueTypes, Holding, NoTaskLost, Idle, Busy, Option

LEMMA PostStep ==
  ASSUME IInv, NEW f \in Findings, post_new_finding(f)
  PROVE  IInv'
<1>1. /\ pc # "dead" /\ f \in Task
      /\ receiver' = Append(receiver, f) /\ accepted' = Append(accepted, f)
      /\ UNCHANGED <<pc, backlog, task, settled>>
  BY DEF post_new_finding, Task
<1>2. QueueTypes' /\ Holding'
  BY <1>1 DEF IInv, QueueTypes, Holding
<1>3. accepted' = Append(Tasks(settled, task, backlog, receiver), f)
  BY <1>1, WhileAlive DEF Accounted
<1>4. Accounted'
  BY <1>1, <1>3, PostTasks DEF IInv, QueueTypes, Accounted
<1> QED
  BY <1>2, <1>4, StaysAccounted

LEMMA NextTaskStep ==
  ASSUME IInv, next_task
  PROVE  IInv'
<1>1. /\ pc = "next_task" /\ pc' = "send" /\ task = None
      /\ UNCHANGED <<accepted, settled>> /\ QueueTypes
  BY DEF next_task, Goto, history, IInv, Holding, Idle
<1>2. accepted = Tasks(settled, None, backlog, receiver)
  BY <1>1, WhileAlive DEF Accounted
<1>3. CASE backlog # None /\ task' = backlog /\ backlog' = None /\ UNCHANGED receiver
  <2>1. QueueTypes' /\ Holding'
    BY <1>1, <1>3 DEF QueueTypes, Holding, Idle, Busy, Option
  <2>2. Accounted'
    BY <1>1, <1>2, <1>3, TakeBacklogTasks DEF QueueTypes, Accounted
  <2> QED
    BY <2>1, <2>2, StaysAccounted
<1>4. CASE /\ backlog = None /\ receiver # <<>>
           /\ task' = Head(receiver) /\ receiver' = Tail(receiver) /\ UNCHANGED backlog
  <2>1. Head(receiver) \in Task /\ Tail(receiver) \in Seq(Task)
    BY <1>1, <1>4, HeadAndTail DEF QueueTypes
  <2>2. QueueTypes' /\ Holding'
    BY <1>1, <1>4, <2>1, WorkerAssumption
       DEF QueueTypes, Holding, Idle, Busy, Option, Task
  <2>3. Accounted'
    BY <1>1, <1>2, <1>4, TakeReceiverTasks DEF QueueTypes, Accounted
  <2> QED
    BY <2>2, <2>3, StaysAccounted
<1> QED
  BY <1>3, <1>4 DEF next_task

LEMMA TakeBackStep ==
  ASSUME IInv, pc \in Busy, TakeBack
  PROVE  IInv'
<1>1. /\ pc' = "accept" /\ backlog' = task /\ task' = None /\ backlog = None
      /\ UNCHANGED <<receiver, accepted, settled>> /\ QueueTypes
  BY DEF TakeBack, Reconnect, Goto, history, IInv, Holding
<1>2. QueueTypes' /\ Holding'
  BY <1>1 DEF QueueTypes, Holding, Idle, Busy, Option
<1>3. accepted = Tasks(settled, task, None, receiver)
  BY <1>1, WhileAlive DEF Accounted, Busy
<1>4. Accounted'
  BY <1>1, <1>3, TakeBacklogTasks DEF QueueTypes, Accounted
<1> QED
  BY <1>2, <1>4, StaysAccounted

LEMMA SettleStep ==
  ASSUME IInv, pc \in Busy, Settle, UNCHANGED <<receiver, backlog, accepted>>
  PROVE  IInv'
<1>1. /\ pc' = "next_task" /\ settled' = Append(settled, task) /\ task' = None
      /\ task \in Task /\ backlog = None /\ QueueTypes
  BY DEF Settle, Goto, IInv, QueueTypes, Holding, Option
<1>2. QueueTypes' /\ Holding'
  BY <1>1 DEF QueueTypes, Holding, Idle, Busy, Option
<1>3. accepted = Tasks(settled, task, None, receiver)
  BY <1>1, WhileAlive DEF Accounted, Busy
<1>4. Accounted'
  BY <1>1, <1>3, SettleTasks DEF QueueTypes, Accounted
<1> QED
  BY <1>2, <1>4, StaysAccounted

-----------------------------------------------------------------------------
(* Steps *)

LEMMA ClientStep ==
  ASSUME IInv, Client
  PROVE  IInv'
<1>1. CASE get_public_key
  BY <1>1, QuietStep DEF get_public_key, server, history
<1>2. ASSUME NEW f \in Findings, NEW k \in Starts, CreateFinding(f, k) PROVE IInv'
  BY <1>2, QuietStep DEF CreateFinding, server, history
<1>3. ASSUME NEW f \in Findings, DestroyFinding(f) PROVE IInv'
  BY <1>3, QuietStep DEF DestroyFinding, server, history
<1>4. ASSUME NEW f \in Findings, post_new_finding(f) PROVE IInv'
  BY <1>4, PostStep
<1> QED
  BY <1>1, <1>2, <1>3, <1>4 DEF Client

LEMMA WorkerStepKeeps ==
  ASSUME IInv, WorkerStep
  PROVE  IInv'
<1>1. CASE Accept
  BY <1>1, QuietStep DEF Accept, Goto, history, Idle
<1>2. CASE AcceptFails
  BY <1>2, DieStep DEF AcceptFails
<1>3. CASE ReceiveIdentity
  <2>1. pc' \in Idle
    BY <1>3 DEF ReceiveIdentity, NextStep, Goto, Idle
  <2> QED
    BY <1>3, <2>1, QuietStep DEF ReceiveIdentity, history, Idle
<1>4. CASE LoseHandshake
  BY <1>4, QuietStep DEF LoseHandshake, Reconnect, Goto, history, Idle
<1>5. CASE destroy_enclave
  <2>1. CASE Die("destroy_enclave")
    BY <2>1, DieStep
  <2>2. CASE ~Die("destroy_enclave")
    <3>1. /\ pc \in Idle /\ pc' \in Idle
          /\ UNCHANGED <<receiver, backlog, task, accepted, settled>>
      BY <1>5, <2>2 DEF destroy_enclave, Goto, history, Idle
    <3> QED
      BY <3>1, QuietStep
  <2> QED
    BY <2>1, <2>2
<1>6. CASE register_enclave
  <2>1. CASE Die("register_enclave")
    BY <2>1, DieStep
  <2>2. CASE ~Die("register_enclave")
    <3>1. /\ pc \in Idle /\ pc' \in Idle
          /\ UNCHANGED <<receiver, backlog, task, accepted, settled>>
      BY <1>6, <2>2 DEF register_enclave, Goto, history, Idle
    <3> QED
      BY <3>1, QuietStep
  <2> QED
    BY <2>1, <2>2
<1>7. CASE next_task
  BY <1>7, NextTaskStep
<1>8. CASE Send
  BY <1>8, QuietStep DEF Send, Goto, server, history, Busy
<1>9. CASE SendFails \/ LoseResponse
  BY <1>9, TakeBackStep DEF SendFails, LoseResponse, Busy
<1>10. CASE ReceiveResponse
  <2>1. pc \in Busy /\ UNCHANGED <<receiver, backlog, accepted>>
    BY <1>10 DEF ReceiveResponse, Busy
  <2>2. CASE Settle
    BY <2>1, <2>2, SettleStep
  <2>3. CASE ~Settle
    <3>1. pc' \in Busy /\ UNCHANGED <<task, settled>>
      BY <1>10, <2>3 DEF ReceiveResponse, Goto, Busy
    <3> QED
      BY <2>1, <3>1, QuietStep
  <2> QED
    BY <2>2, <2>3
<1>11. CASE StoreBlobs
  <2>1. pc \in Busy /\ UNCHANGED <<receiver, backlog, accepted>>
    BY <1>11 DEF StoreBlobs, Busy
  <2>2. CASE Settle
    BY <2>1, <2>2, SettleStep
  <2>3. CASE ~Settle
    <3>1. pc' \in Busy /\ UNCHANGED <<task, settled>>
      BY <1>11, <2>3 DEF StoreBlobs, Goto, Busy
    <3> QED
      BY <2>1, <3>1, QuietStep
  <2> QED
    BY <2>2, <2>3
<1>12. CASE Submit
  <2>1. CASE Die("wallet") \/ Die("process_response")
    BY <2>1, DieStep
  <2>2. CASE ~(Die("wallet") \/ Die("process_response"))
    <3>1. pc \in Busy /\ Settle /\ UNCHANGED <<receiver, backlog, accepted>>
      BY <1>12, <2>2 DEF Submit, Busy
    <3> QED
      BY <3>1, SettleStep
  <2> QED
    BY <2>1, <2>2
<1> QED
  BY <1>1, <1>2, <1>3, <1>4, <1>5, <1>6, <1>7, <1>8, <1>9, <1>10, <1>11, <1>12 DEF WorkerStep, WorkerLoop

LEMMA OtherStep ==
  ASSUME IInv, ConnectorStep \/ Restart \/ \E c \in Conns : Break(c)
  PROVE  IInv'
<1>1. UNCHANGED <<pc, receiver, backlog, task, accepted, settled>>
  BY DEF ConnectorStep, ConnectorLoop, Connect, ReadTask, NoticeLoss, RunTask, Restart, Break, server, history
<1> QED
  BY <1>1, QuietStep

LEMMA InitHolds == Init => IInv
<1> SUFFICES ASSUME Init PROVE IInv
  OBVIOUS
<1>1. /\ pc = "accept" /\ receiver = <<>> /\ backlog = None /\ task = None
      /\ accepted = <<>> /\ settled = <<>>
  BY DEF Init
<1>2. <<>> \in Seq(Task) /\ <<>> \o <<>> = <<>>
  OBVIOUS
<1>3. QueueTypes /\ Holding
  BY <1>1, <1>2 DEF QueueTypes, Holding, Idle, Busy, Option
<1>4. NoTaskLost
  BY <1>1, <1>2 DEF NoTaskLost, OneOrNone
<1> QED
  BY <1>3, <1>4 DEF IInv

LEMMA StepHolds == IInv /\ [Next]_vars => IInv'
<1> SUFFICES ASSUME IInv, [Next]_vars PROVE IInv'
  OBVIOUS
<1>1. CASE UNCHANGED vars
  BY <1>1, QuietStep DEF vars, server, history
<1>2. CASE Client
  BY <1>2, ClientStep
<1>3. CASE WorkerStep
  BY <1>3, WorkerStepKeeps
<1>4. CASE ConnectorStep \/ Restart \/ \E c \in Conns : Break(c)
  BY <1>4, OtherStep
<1> QED
  BY <1>1, <1>2, <1>3, <1>4 DEF Next

\* What the worker is done with, has in hand, has taken back and has not yet
\* looked at are always the accepted tasks in their order, as long as it lives:
\* the loop of worker.rs with its backlog loses and repeats nothing, whenever the
\* connection breaks.
THEOREM EveryTaskIsKept == Spec => []NoTaskLost
<1>1. IInv => NoTaskLost
  BY DEF IInv
<1> QED
  BY <1>1, InitHolds, StepHolds, PTL DEF Spec

-----------------------------------------------------------------------------
(* What the steps of each party leave alone *)

LEMMA ClientFrame ==
  ASSUME Client
  PROVE  UNCHANGED <<pc, backlog, task, response, identity, last_used_enclave, stream,
                     start, attested, loc, socket, running, conns, pending, alive, request, reply,
                     settled, death>>
<1>1. CASE get_public_key
  BY <1>1 DEF get_public_key, server, connector, wire, history
<1>2. ASSUME NEW f \in Findings, NEW k \in Starts, CreateFinding(f, k)
      PROVE  UNCHANGED <<pc, server, connector, wire, history>>
  BY <1>2 DEF CreateFinding
<1>3. ASSUME NEW f \in Findings, DestroyFinding(f)
      PROVE  UNCHANGED <<pc, server, connector, wire, history>>
  BY <1>3 DEF DestroyFinding
<1>4. ASSUME NEW f \in Findings, post_new_finding(f)
      PROVE  UNCHANGED <<pc, backlog, task, response, identity, last_used_enclave, stream,
                         connector, wire, settled, death>>
  BY <1>4 DEF post_new_finding
<1> QED BY <1>1, <1>2, <1>3, <1>4 DEF Client, server, connector, wire, history

LEMMA WorkerFrame ==
  ASSUME WorkerStep
  PROVE  UNCHANGED <<start, attested, loc, socket, running, conns, known, key, accepted>>
<1>1. CASE Accept \/ ReceiveIdentity \/ next_task \/ Send \/ ReceiveResponse \/ StoreBlobs
  BY <1>1 DEF Accept, ReceiveIdentity, next_task, Send, ReceiveResponse, StoreBlobs,
     server, connector, wire, client, history
<1>2. CASE LoseHandshake \/ SendFails \/ LoseResponse
  BY <1>2 DEF LoseHandshake, SendFails, LoseResponse, TakeBack, connector, client, history
<1>3. CASE AcceptFails \/ destroy_enclave \/ register_enclave \/ Submit
  BY <1>3 DEF AcceptFails, destroy_enclave, register_enclave, Submit, Die, connector, wire, client,
     history
<1> QED BY <1>1, <1>2, <1>3 DEF WorkerStep, WorkerLoop

LEMMA ConnectorFrame ==
  ASSUME ConnectorStep \/ Restart \/ \E c \in Conns : Break(c)
  PROVE  UNCHANGED <<pc, receiver, backlog, task, response, identity, last_used_enclave, stream,
                     attested, known, chain, key, accepted, settled, death>>

  BY DEF ConnectorStep, ConnectorLoop, Connect, ReadTask, NoticeLoss, RunTask, Restart, Break, server, connector,
     client, history

-----------------------------------------------------------------------------
(* The connections and the order in which they are accepted *)

\* The connections that the listener has handed to the worker, or dropped.
Taken == Len(conns) - Len(pending)

\* Connections wait in the order in which they were made.
Waiting == /\ Taken \in Nat
           /\ \A i \in 1 .. Len(pending) : pending[i] = Taken + i

Wired ==
  /\ start \in Starts
  /\ conns \in Seq(Starts) /\ Len(conns) <= MaxConns
  /\ pending \in Seq(Conns) /\ alive \subseteq Conns
  /\ Waiting

LEMMA WiredSame ==
  ASSUME Wired, UNCHANGED <<start, conns, pending>>, alive' \subseteq alive
  PROVE  Wired' /\ Taken' = Taken
BY DEF Wired, Waiting, Taken

LEMMA WiredAccept ==
  ASSUME Wired, Accept
  PROVE  /\ Wired' /\ Taken' = Taken + 1
         /\ Head(pending) = Taken + 1 /\ Taken + 1 \in 1 .. Len(conns)
<1>1. /\ pending \in Seq(Conns) /\ pending # <<>> /\ pending' = Tail(pending)
      /\ UNCHANGED <<start, conns, alive>>
  BY WorkerFrame DEF Accept, Wired, WorkerStep, WorkerLoop, connector
<1>2. /\ Len(pending) \in Nat \ {0} /\ Tail(pending) \in Seq(Conns) /\ Head(pending) = pending[1]
      /\ Len(pending') = Len(pending) - 1
      /\ \A i \in 1 .. Len(pending') : pending'[i] = pending[i + 1]
  BY <1>1, HeadTailProperties
<1>3. Len(conns) \in Nat
  BY DEF Wired
<1>4. Taken' = Taken + 1 /\ Head(pending) = Taken + 1 /\ Taken + 1 \in 1 .. Len(conns)
  BY <1>1, <1>2, <1>3 DEF Wired, Waiting, Taken
<1>5. ASSUME NEW i \in 1 .. Len(pending') PROVE pending'[i] = Taken' + i
  <2>1. i + 1 \in 1 .. Len(pending) /\ pending'[i] = pending[i + 1]
    BY <1>2
  <2>2. pending[i + 1] = Taken + (i + 1) /\ Taken \in Nat
    BY <2>1 DEF Wired, Waiting
  <2> QED BY <1>4, <2>1, <2>2
<1> QED BY <1>1, <1>2, <1>3, <1>4, <1>5 DEF Wired, Waiting

LEMMA WiredConnect ==
  ASSUME Wired, Connect
  PROVE  /\ Wired' /\ Taken' = Taken
         /\ socket' = Len(conns) + 1 /\ Len(conns') = Len(conns) + 1
         /\ conns'[Len(conns) + 1] = start
         /\ \A c \in 1 .. Len(conns) : conns'[c] = conns[c]
<1>1. /\ conns' = Append(conns, start) /\ pending' = Append(pending, socket')
      /\ socket' = Len(conns') /\ alive' = alive \cup {socket'} /\ start' = start
      /\ Len(conns) < MaxConns
  BY DEF Connect
<1>2. /\ conns' \in Seq(Starts) /\ Len(conns') = Len(conns) + 1 /\ Len(conns) \in Nat
      /\ conns'[Len(conns) + 1] = start /\ socket' = Len(conns) + 1
      /\ \A c \in 1 .. Len(conns) : conns'[c] = conns[c]
  BY <1>1, AppendProperties DEF Wired
<1>3. socket' \in Conns
  BY <1>1, <1>2, WorkerAssumption DEF Conns
<1>4. /\ pending' \in Seq(Conns) /\ Len(pending') = Len(pending) + 1 /\ Len(pending) \in Nat
      /\ pending'[Len(pending) + 1] = socket'
      /\ \A i \in 1 .. Len(pending) : pending'[i] = pending[i]
  BY <1>1, <1>3, AppendProperties DEF Wired
<1>5. Taken' = Taken
  BY <1>2, <1>4 DEF Taken
<1>6. ASSUME NEW i \in 1 .. Len(pending') PROVE pending'[i] = Taken + i
  <2>1. CASE i \in 1 .. Len(pending)
    BY <1>4, <2>1 DEF Wired, Waiting
  <2>2. CASE i = Len(pending) + 1
    BY <1>2, <1>4, <2>2 DEF Taken
  <2> QED BY <1>4, <2>1, <2>2
<1>7. Waiting'
  BY <1>5, <1>6 DEF Wired, Waiting
<1>8. start' \in Starts /\ alive' \subseteq Conns
  BY <1>1, <1>3 DEF Wired
<1>9. Len(conns') <= MaxConns
  BY <1>1, <1>2, WorkerAssumption
<1> QED BY <1>2, <1>4, <1>5, <1>7, <1>8, <1>9 DEF Wired

LEMMA WiredDie ==
  ASSUME Wired, NEW call, Die(call)
  PROVE  Wired'
<1>1. pending' = <<>> /\ alive' = {} /\ UNCHANGED <<start, conns>>
  BY DEF Die, connector
<1> QED BY <1>1 DEF Wired, Waiting, Taken

\* What a step of the worker does to the connections.
LEMMA WorkerWire ==
  ASSUME WorkerStep
  PROVE  \/ Accept
         \/ UNCHANGED pending /\ alive' \subseteq alive
         \/ \E call \in Calls : Die(call)
<1>1. CASE ReceiveIdentity \/ next_task \/ Send \/ ReceiveResponse \/ StoreBlobs
  BY <1>1 DEF ReceiveIdentity, next_task, Send, ReceiveResponse, StoreBlobs, wire
<1>2. CASE LoseHandshake \/ SendFails \/ LoseResponse
  BY <1>2 DEF LoseHandshake, SendFails, LoseResponse, TakeBack, Reconnect
<1>3. CASE AcceptFails \/ destroy_enclave \/ register_enclave \/ Submit
  BY <1>3 DEF AcceptFails, destroy_enclave, register_enclave, Submit, Calls, wire
<1> QED BY <1>1, <1>2, <1>3 DEF WorkerStep, WorkerLoop

LEMMA WiredStep ==
  ASSUME Wired, [Next]_vars
  PROVE  Wired'
<1>1. CASE Client \/ UNCHANGED vars
  BY <1>1, ClientFrame, WiredSame DEF vars, connector, wire
<1>2. CASE WorkerStep
  BY <1>2, WorkerFrame, WorkerWire, WiredSame, WiredAccept, WiredDie
<1>3. CASE Connect
  BY <1>3, WiredConnect
<1>4. CASE ReadTask \/ NoticeLoss \/ RunTask
  BY <1>4, WiredSame DEF ReadTask, NoticeLoss, RunTask, wire
<1>5. CASE \E c \in Conns : Break(c)
  BY <1>5, WiredSame DEF Break, connector
<1>6. CASE Restart
  <2>1. start' \in Starts
    BY <1>6, WorkerAssumption DEF Restart, Wired, Starts
  <2> QED BY <1>6, <2>1 DEF Restart, Wired, Waiting, Taken
<1> QED BY <1>1, <1>2, <1>3, <1>4, <1>5, <1>6 DEF Next, ConnectorStep, ConnectorLoop

LEMMA WiredInit == Init => Wired
<1>1. 1 \in Starts
  BY WorkerAssumption DEF Starts
<1> QED BY <1>1, WorkerAssumption DEF Init, Wired, Waiting, Taken

-----------------------------------------------------------------------------
(* The connection, the identity and the registered enclave *)

\* Where the worker has read the identity that its connection began with.
Linked == {"destroy", "register", "next_task"} \cup Busy

Streaming ==
  /\ pc \in {"accept", "handshake", "dead"} \cup Linked
  /\ pc \in {"accept", "dead"} => stream = None
  /\ pc \in Linked \cup {"handshake"} => stream \in 1 .. Taken
  /\ pc \in {"accept", "handshake"} => identity = None
  /\ pc \in Linked => identity = conns[stream]
  /\ identity \in Option(Starts)

\* A task is taken only when the registration on record is of the start at the other
\* end, or there is none.
Registered ==
  /\ last_used_enclave \in Option(EnclaveInfo)
  /\ pc \in Busy \cup {"next_task"} /\ last_used_enclave # None =>
       last_used_enclave.identity = identity

Link == Wired /\ Streaming /\ Registered

\* The worker stays where it is while connections are added.
LEMMA LinkSame ==
  ASSUME Link, UNCHANGED <<pc, stream, identity, last_used_enclave>>, Wired', Taken' = Taken,
         \A c \in 1 .. Len(conns) : conns'[c] = conns[c]
  PROVE  Link'
<1>1. Taken \in Nat /\ \A c \in 1 .. Taken : c \in 1 .. Len(conns)
  BY DEF Link, Wired, Waiting, Taken
<1> QED BY <1>1 DEF Link, Streaming, Registered

LEMMA LinkDie ==
  ASSUME Link, NEW call, Die(call)
  PROVE  Link'
<1>1. Wired'
  BY WiredDie DEF Link
<1>2. pc' = "dead" /\ stream' = None /\ UNCHANGED <<identity, last_used_enclave>>
  BY DEF Die, Goto
<1> QED BY <1>1, <1>2 DEF Link, Streaming, Registered, Linked, Busy

\* The worker goes on with its task, or from one to the next.
LEMMA LinkBusy ==
  ASSUME Link, {pc, pc'} \subseteq Busy \cup {"next_task"},
         UNCHANGED <<stream, identity, last_used_enclave, start, conns, pending, alive>>
  PROVE  Link'
<1>1. Wired' /\ Taken' = Taken
  BY WiredSame DEF Link
<1> QED BY <1>1 DEF Link, Streaming, Registered, Linked, Busy

LEMMA LinkReconnect ==
  ASSUME Link, Reconnect, UNCHANGED <<last_used_enclave, start, conns, pending>>
  PROVE  Link'
<1>1. /\ pc' = "accept" /\ stream' = None /\ identity' = None
      /\ alive' \subseteq alive
  BY DEF Reconnect, Goto
<1>2. Wired'
  BY <1>1, WiredSame DEF Link
<1> QED BY <1>1, <1>2 DEF Link, Streaming, Registered, Linked, Busy, Option

LEMMA LinkWorker ==
  ASSUME Link, WorkerStep
  PROVE  Link'
<1>0. UNCHANGED <<start, conns>>
  BY WorkerFrame
<1>1. CASE Accept
  <2>1. Wired' /\ Taken' = Taken + 1 /\ stream' = Taken + 1 /\ Taken \in Nat
    BY <1>1, WiredAccept DEF Accept, Link, Wired, Waiting
  <2>2. pc = "accept" /\ pc' = "handshake" /\ UNCHANGED <<identity, last_used_enclave>>
    BY <1>1 DEF Accept, Goto
  <2> QED BY <2>1, <2>2 DEF Link, Streaming, Registered, Linked, Busy
<1>2. CASE AcceptFails
  BY <1>2, LinkDie DEF AcceptFails
<1>3. CASE ReceiveIdentity
  <2>1. /\ Wired' /\ Taken' = Taken /\ pc = "handshake"
        /\ UNCHANGED <<stream, conns, last_used_enclave>>
        /\ identity' = conns[stream] /\ pc' = NextStep(identity')
    BY <1>3, <1>0, WiredSame DEF ReceiveIdentity, Link, wire, Goto
  <2>2. stream \in 1 .. Taken /\ Taken \in Nat /\ Taken <= Len(conns) /\ conns \in Seq(Starts)
    BY <2>1 DEF Link, Streaming, Wired, Waiting, Taken
  <2>3. identity' \in Starts
    BY <2>1, <2>2
  <2>4. /\ pc' \in {"destroy", "register", "next_task"}
        /\ pc' = "next_task" /\ last_used_enclave # None =>
             last_used_enclave.identity = identity'
    BY <2>1 DEF NextStep
  <2> QED BY <2>1, <2>2, <2>3, <2>4 DEF Link, Streaming, Registered, Linked, Busy, Option
<1>4. CASE LoseHandshake
  BY <1>0, <1>4, LinkReconnect DEF LoseHandshake
<1>5. CASE destroy_enclave
  <2>1. CASE Die("destroy_enclave")
    BY <2>1, LinkDie
  <2>2. CASE ~Die("destroy_enclave")
    <3>1. /\ pc = "destroy" /\ pc' \in {"register", "next_task"} /\ last_used_enclave' = None
          /\ UNCHANGED <<identity, stream, conns, pending, alive>>
      BY <1>5, <2>2 DEF destroy_enclave, Goto, wire
    <3>2. Wired' /\ Taken' = Taken
      BY <1>0, <3>1, WiredSame DEF Link
    <3> QED BY <3>1, <3>2 DEF Link, Streaming, Registered, Linked, Busy, Option
  <2> QED BY <2>1, <2>2
<1>6. CASE register_enclave
  <2>1. CASE Die("register_enclave")
    BY <2>1, LinkDie
  <2>2. CASE ~Die("register_enclave")
    <3>1. /\ pc = "register" /\ pc' = "next_task"
          /\ last_used_enclave' \in
               {None, [enclave_ref |-> EnclaveConfig, identity |-> identity]}
          /\ UNCHANGED <<identity, stream, conns, pending, alive>>
      BY <1>6, <2>2 DEF register_enclave, SharedObject, Goto, wire
    <3>2. Wired' /\ Taken' = Taken
      BY <1>0, <3>1, WiredSame DEF Link
    <3>3. identity \in Starts
      BY <3>1 DEF Link, Streaming, Linked, Wired, Waiting, Taken
    <3>4. [enclave_ref |-> EnclaveConfig, identity |-> identity] \in EnclaveInfo
      BY <3>3 DEF EnclaveInfo
    <3>5. Registered'
      BY <3>1, <3>4 DEF Registered, Option
    <3> QED BY <3>1, <3>2, <3>5 DEF Link, Streaming, Linked, Busy
  <2> QED BY <2>1, <2>2
<1>7. CASE next_task \/ Send
  BY <1>0, <1>7, LinkBusy DEF next_task, Send, Goto, server, wire, Busy
<1>8. CASE SendFails \/ LoseResponse
  BY <1>0, <1>8, LinkReconnect DEF SendFails, LoseResponse, TakeBack
<1>9. CASE ReceiveResponse
  BY <1>0, <1>9, LinkBusy DEF ReceiveResponse, Settle, Goto, Busy
<1>10. CASE StoreBlobs
  BY <1>0, <1>10, LinkBusy DEF StoreBlobs, Settle, Goto, wire, Busy
<1>11. CASE Submit
  <2>1. CASE Die("wallet") \/ Die("process_response")
    BY <2>1, LinkDie
  <2>2. CASE ~(Die("wallet") \/ Die("process_response"))
    <3>1. /\ pc = "submit" /\ pc' = "next_task"
          /\ UNCHANGED <<stream, identity, last_used_enclave, conns, pending, alive>>
      BY <1>11, <2>2 DEF Submit, Settle, Goto, wire
    <3> QED BY <1>0, <3>1, LinkBusy DEF Busy
  <2> QED BY <2>1, <2>2
<1> QED BY <1>1, <1>2, <1>3, <1>4, <1>5, <1>6, <1>7, <1>8, <1>9, <1>10, <1>11 DEF WorkerStep, WorkerLoop

LEMMA LinkStep ==
  ASSUME Link, [Next]_vars
  PROVE  Link'
<1>1. Wired'
  BY WiredStep DEF Link
<1>2. CASE Client \/ UNCHANGED vars
  <2>1. UNCHANGED <<pc, stream, identity, last_used_enclave, conns, pending>>
    BY <1>2, ClientFrame DEF vars, server, wire
  <2> QED BY <1>1, <2>1, LinkSame DEF Taken
<1>3. CASE WorkerStep
  BY <1>3, LinkWorker
<1>4. CASE Connect
  BY <1>1, <1>4, WiredConnect, ConnectorFrame, LinkSame DEF Link, ConnectorStep, ConnectorLoop
<1>5. CASE ReadTask \/ NoticeLoss \/ RunTask \/ Restart \/ \E c \in Conns : Break(c)
  <2>1. UNCHANGED <<conns, pending>>
    BY <1>5 DEF ReadTask, NoticeLoss, RunTask, Restart, Break, wire
  <2> QED BY <1>1, <1>5, <2>1, ConnectorFrame, LinkSame DEF ConnectorStep, ConnectorLoop, Taken
<1> QED BY <1>2, <1>3, <1>4, <1>5 DEF Next, ConnectorStep, ConnectorLoop

LEMMA LinkInit == Init => Link
<1>1. Init => Streaming /\ Registered
  BY DEF Init, Streaming, Registered, Linked, Busy, Option
<1> QED BY <1>1, WiredInit DEF Link

\* Whatever connections come and go, GET /public_key answers with the key of the
\* start at the other end of the worker's stream, and with none while the worker
\* waits for one: reset_identity and the handshake of worker.rs.
THEOREM IdentityTheorem == Spec => []IdentityIsOfStream
<1>1. Link => IdentityIsOfStream
  BY DEF Link, Streaming, IdentityIsOfStream
<1> QED BY <1>1, LinkInit, LinkStep, PTL DEF Spec

-----------------------------------------------------------------------------
(* The connector, and the messages on their way *)

Connected ==
  /\ loc \in {"connect", "ready", "running"}
  /\ loc = "connect" => socket = None
  /\ loc # "connect" => socket \in 1 .. Len(conns) /\ conns[socket] = start
  /\ loc = "running" => running \in Task
  /\ loc # "running" => running = None

\* A response carries the signature of the start that made its connection.
Signed == \A c \in Conns :
  reply[c] # None => c \in 1 .. Len(conns) /\ reply[c].signer = conns[c]

Messages == /\ request \in [Conns -> Option(Task)]
            /\ reply \in [Conns -> Option(Response)]
            /\ Signed

Talk == Connected /\ Messages

LEMMA TalkSame ==
  ASSUME Talk, UNCHANGED <<start, loc, socket, running, conns, request, reply>>
  PROVE  Talk'
BY DEF Talk, Connected, Messages, Signed

LEMMA TalkConnect ==
  ASSUME Wired, Talk, Connect
  PROVE  Talk'
<1>1. /\ socket' = Len(conns) + 1 /\ Len(conns') = Len(conns) + 1
      /\ conns'[Len(conns) + 1] = start
      /\ \A c \in 1 .. Len(conns) : conns'[c] = conns[c]
  BY WiredConnect
<1>2. loc = "connect" /\ loc' = "ready" /\ UNCHANGED <<start, running, request, reply>>
  BY DEF Connect
<1>3. Len(conns) \in Nat
  BY DEF Wired
<1>4. Connected'
  BY <1>1, <1>2, <1>3 DEF Talk, Connected
<1>5. Messages'
  BY <1>1, <1>2, <1>3 DEF Talk, Messages, Signed
<1> QED BY <1>4, <1>5 DEF Talk

LEMMA TalkWorker ==
  ASSUME IInv, Talk, WorkerStep
  PROVE  Talk'
<1>0. UNCHANGED <<start, loc, socket, running, conns>>
  BY WorkerFrame
<1>1. Connected'
  BY <1>0 DEF Talk, Connected
<1>2. CASE UNCHANGED <<request, reply>>
  BY <1>0, <1>2, TalkSame
<1>3. CASE Send
  <2>1. /\ request' = [request EXCEPT ![stream] = IF stream \in alive THEN task ELSE None]
        /\ reply' = reply /\ task \in Option(Task)
    BY <1>3 DEF Send, IInv, QueueTypes
  <2> QED BY <1>0, <1>1, <2>1 DEF Talk, Messages, Signed, Option
<1>4. CASE ReceiveResponse
  <2>1. PICK c \in Readable : reply' = [reply EXCEPT ![c] = None] /\ request' = request
    BY <1>4 DEF ReceiveResponse
  <2> QED BY <1>0, <1>1, <2>1 DEF Talk, Messages, Signed, Option
<1>5. CASE ~Send /\ ~ReceiveResponse
  <2>1. UNCHANGED <<request, reply>>
    <3>1. CASE Accept \/ ReceiveIdentity \/ next_task \/ StoreBlobs
      BY <3>1 DEF Accept, ReceiveIdentity, next_task, StoreBlobs, wire
    <3>2. CASE LoseHandshake \/ SendFails \/ LoseResponse
      BY <3>2 DEF LoseHandshake, SendFails, LoseResponse, TakeBack
    <3>3. CASE AcceptFails \/ destroy_enclave \/ register_enclave \/ Submit
      BY <3>3 DEF AcceptFails, destroy_enclave, register_enclave, Submit, Die, wire
    <3> QED BY <1>5, <3>1, <3>2, <3>3 DEF WorkerStep, WorkerLoop
  <2> QED BY <1>2, <2>1
<1> QED BY <1>3, <1>4, <1>5

LEMMA TalkRead ==
  ASSUME Wired, Talk, ReadTask
  PROVE  Talk'
<1>1. /\ loc = "ready" /\ loc' = "running" /\ request[socket] # None
      /\ running' = request[socket] /\ request' = [request EXCEPT ![socket] = None]
      /\ UNCHANGED <<start, socket, conns, reply>>
  BY DEF ReadTask
<1>2. socket \in Conns /\ request[socket] \in Task
  <2>1. socket \in Conns
    BY <1>1, WorkerAssumption DEF Talk, Connected, Wired, Conns
  <2> QED BY <1>1, <2>1 DEF Talk, Messages, Option
<1>3. Messages'
  BY <1>1 DEF Talk, Messages, Signed, Option
<1> QED BY <1>1, <1>2, <1>3 DEF Talk, Connected

LEMMA TalkRun ==
  ASSUME Talk, RunTask
  PROVE  Talk'
<1>0. loc = "running" /\ running \in Task /\ running' = None /\ UNCHANGED <<start, conns, request>>
      /\ socket \in 1 .. Len(conns) /\ conns[socket] = start
  BY DEF RunTask, Talk, Connected
<1>1. CASE /\ loc' = "ready" /\ socket' = socket
           /\ \E r \in ResultsOf(running) : reply' = [reply EXCEPT ![socket] = r]
  <2>1. PICK r \in ResultsOf(running) : reply' = [reply EXCEPT ![socket] = r]
    BY <1>1
  <2>2. r \in Response /\ r.signer = start
    BY DEF ResultsOf
  <2>3. Connected'
    BY <1>0, <1>1 DEF Connected
  <2>4. Messages'
    BY <1>0, <2>1, <2>2 DEF Talk, Messages, Signed, Option
  <2> QED BY <2>3, <2>4 DEF Talk
<1>2. CASE loc' = "connect" /\ socket' = None /\ reply' = reply
  BY <1>0, <1>2 DEF Talk, Connected, Messages, Signed
<1> QED BY <1>1, <1>2 DEF RunTask

LEMMA TalkStep ==
  ASSUME IInv, Wired, Talk, [Next]_vars
  PROVE  Talk'
<1>1. CASE Client \/ UNCHANGED vars
  BY <1>1, ClientFrame, TalkSame DEF vars, connector, wire
<1>2. CASE WorkerStep
  BY <1>2, TalkWorker
<1>3. CASE Connect
  BY <1>3, TalkConnect
<1>4. CASE ReadTask
  BY <1>4, TalkRead
<1>5. CASE RunTask
  BY <1>5, TalkRun
<1>6. CASE NoticeLoss
  BY <1>6 DEF NoticeLoss, wire, Talk, Connected, Messages, Signed
<1>7. CASE Restart
  BY <1>7 DEF Restart, Talk, Connected, Messages, Signed
<1>8. CASE \E c \in Conns : Break(c)
  BY <1>8, TalkSame DEF Break, connector
<1> QED BY <1>1, <1>2, <1>3, <1>4, <1>5, <1>6, <1>7, <1>8 DEF Next, ConnectorStep, ConnectorLoop

LEMMA TalkInit == Init => Talk
BY DEF Init, Talk, Connected, Messages, Signed, Option

-----------------------------------------------------------------------------
(* One request and one answer at a time *)

\* Nothing is on its way on connection c, and nobody is at work for it.
Silent(c) == request[c] = None /\ reply[c] = None /\ ~(loc = "running" /\ socket = c)

\* On connection c the task in hand, or its answer, is in one place at most.
Answering(c) ==
  /\ request[c] \in {None, task}
  /\ reply[c] # None => reply[c].task = task /\ request[c] = None
  /\ loc = "running" /\ socket = c => running = task /\ request[c] = None /\ reply[c] = None

\* The worker's connection is silent but where the worker awaits an answer, and
\* so are those it has not accepted.
Exchange ==
  /\ \A c \in Conns : c > Taken => Silent(c)
  /\ pc \in (Linked \cup {"handshake"}) \ {"await"} => Silent(stream)
  /\ pc = "await" => Answering(stream)

Processed ==
  /\ response \in Option(Response)
  /\ pc \in {"process", "submit"} =>
       /\ response # None /\ response.task = task
       /\ response.signer = identity /\ response.kind # "failed"
  /\ response # None => pc \in {"process", "submit"}

Base == IInv /\ Link /\ Talk

LEMMA StreamIsConn ==
  ASSUME Base, pc \in Linked \cup {"handshake"}
  PROVE  stream \in Conns /\ stream \in 1 .. Taken /\ stream \in 1 .. Len(conns) /\ Taken \in Nat
<1>1. stream \in 1 .. Taken /\ Taken \in Nat /\ Taken = Len(conns) - Len(pending)
      /\ Len(pending) \in Nat /\ Len(conns) \in Nat /\ Len(conns) <= MaxConns
  BY DEF Base, Link, Streaming, Wired, Waiting, Taken
<1> QED BY <1>1, WorkerAssumption DEF Conns

LEMMA ExchangeSame ==
  ASSUME Exchange, UNCHANGED <<stream, task, request, reply>>, Taken' = Taken,
         \/ UNCHANGED <<loc, socket, running>>
         \/ loc' # "running",
         \/ pc' = pc
         \/ pc' \in {"accept", "dead"}
         \/ {pc, pc'} \subseteq (Linked \cup {"handshake"}) \ {"await"}
  PROVE  Exchange'
BY DEF Exchange, Silent, Answering, Linked, Busy

LEMMA ExchangeLeft ==
  ASSUME Exchange, UNCHANGED <<request, reply, loc, socket>>, Taken' = Taken,
         pc' \in {"accept", "dead"}
  PROVE  Exchange'
BY DEF Exchange, Silent, Linked, Busy

LEMMA ExchangeDie ==
  ASSUME Base, Exchange, NEW call, Die(call)
  PROVE  Exchange'
<1>1. /\ pc' = "dead" /\ Taken' = Len(conns) /\ Len(conns) \in Nat /\ Len(pending) \in Nat
      /\ UNCHANGED <<request, reply, loc, socket>>
  BY DEF Die, Goto, Taken, connector, Base, Link, Wired
<1>2. ASSUME NEW c \in Conns, c > Taken' PROVE c > Taken
  BY <1>1, <1>2, WorkerAssumption DEF Conns, Taken
<1> QED BY <1>1, <1>2 DEF Exchange, Silent, Linked, Busy

LEMMA ExchangeRead ==
  ASSUME Base, Exchange, ReadTask
  PROVE  Exchange'
<1>1. /\ loc = "ready" /\ loc' = "running" /\ request[socket] # None
      /\ running' = request[socket] /\ request' = [request EXCEPT ![socket] = None]
      /\ UNCHANGED <<pc, stream, task, socket, conns, pending, reply>>
  BY DEF ReadTask, server
<1>2. ~Silent(socket) /\ Taken' = Taken /\ request \in [Conns -> Option(Task)]
  BY <1>1 DEF Silent, Taken, Base, Talk, Messages
<1>3. \A c \in Conns : Silent(c) => Silent(c)'
  BY <1>1, <1>2 DEF Silent
<1>4. ASSUME pc = "await" PROVE Answering(stream)'
  <2>1. stream \in Conns
    BY <1>4, StreamIsConn DEF Linked, Busy
  <2> QED BY <1>1, <1>2, <1>4, <2>1 DEF Exchange, Answering
<1>5. pc \in (Linked \cup {"handshake"}) \ {"await"} => Silent(stream)'
  BY <1>1, <1>3, StreamIsConn DEF Exchange
<1> QED BY <1>1, <1>2, <1>3, <1>4, <1>5 DEF Exchange

LEMMA ExchangeRun ==
  ASSUME Base, Exchange, RunTask
  PROVE  Exchange'
<1>1. /\ loc = "running" /\ UNCHANGED <<pc, stream, task, conns, pending, request>>
      /\ loc' # "running"
  BY DEF RunTask, server
<1>2. ~Silent(socket) /\ Taken' = Taken /\ reply \in [Conns -> Option(Response)]
  BY <1>1 DEF Silent, Taken, Base, Talk, Messages
<1>3. CASE reply' = reply
  BY <1>1, <1>2, <1>3, ExchangeSame
<1>4. CASE \E r \in ResultsOf(running) : reply' = [reply EXCEPT ![socket] = r]
  <2>1. PICK r \in ResultsOf(running) : reply' = [reply EXCEPT ![socket] = r]
    BY <1>4
  <2>2. r.task = running
    BY DEF ResultsOf
  <2>3. \A c \in Conns : Silent(c) => Silent(c)'
    BY <1>1, <1>2, <2>1 DEF Silent
  <2>4. ASSUME pc = "await" PROVE Answering(stream)'
    <3>1. stream \in Conns
      BY <2>4, StreamIsConn DEF Linked, Busy
    <3> QED BY <1>1, <1>2, <2>1, <2>2, <2>4, <3>1 DEF Exchange, Answering
  <2>5. pc \in (Linked \cup {"handshake"}) \ {"await"} => Silent(stream)'
    BY <1>1, <2>3, StreamIsConn DEF Exchange
  <2> QED BY <1>1, <1>2, <2>3, <2>4, <2>5 DEF Exchange
<1> QED BY <1>3, <1>4 DEF RunTask

LEMMA ExchangeSend ==
  ASSUME Base, Exchange, Send
  PROVE  Exchange'
<1>1. /\ pc = "send" /\ pc' = "await"
      /\ request' = [request EXCEPT ![stream] = IF stream \in alive THEN task ELSE None]
      /\ UNCHANGED <<stream, task, reply, loc, socket, running, conns, pending>>
  BY DEF Send, Goto, server, connector
<1>2. stream \in Conns /\ stream \in 1 .. Taken /\ Taken \in Nat /\ Taken' = Taken
      /\ request \in [Conns -> Option(Task)] /\ Silent(stream)
  BY <1>1, StreamIsConn DEF Linked, Busy, Taken, Base, Talk, Messages, Exchange
<1>3. Answering(stream)'
  BY <1>1, <1>2 DEF Silent, Answering
<1>4. ASSUME NEW c \in Conns, c > Taken PROVE Silent(c)'
  <2>1. c # stream /\ Silent(c)
    BY <1>2, <1>4 DEF Exchange, Conns
  <2> QED BY <1>1, <1>2, <2>1 DEF Silent
<1> QED BY <1>1, <1>2, <1>3, <1>4 DEF Exchange

\* The worker has read the answer: its connection is silent again.
LEMMA ExchangeReceive ==
  ASSUME Base, Exchange, ReceiveResponse
  PROVE  /\ Exchange'
         /\ \/ Settle
            \/ pc' = "process" /\ response' # None /\ response' \in Response
               /\ response'.task = task /\ response'.signer = identity
               /\ response'.kind # "failed"
               /\ UNCHANGED <<task, identity>>
<1>1. /\ pc = "await" /\ reply[stream] # None
      /\ reply' = [reply EXCEPT ![stream] = None]
      /\ Settle \/ (response' = reply[stream] /\ pc' = "process" /\ UNCHANGED task
                    /\ response'.kind # "failed")
      /\ UNCHANGED <<stream, identity, request, loc, socket, running, conns, pending>>
  BY DEF ReceiveResponse, Readable, Goto, connector
<1>2. stream \in Conns /\ stream \in 1 .. Taken /\ Taken \in Nat /\ Taken' = Taken
      /\ reply \in [Conns -> Option(Response)] /\ Answering(stream)
  BY <1>1, StreamIsConn DEF Linked, Busy, Taken, Base, Talk, Messages, Exchange
<1>3. pc' \in {"next_task", "process"}
  BY <1>1 DEF Settle, Goto
<1>4. Silent(stream)'
  BY <1>1, <1>2 DEF Silent, Answering
<1>5. \A c \in Conns : Silent(c) => Silent(c)'
  BY <1>1, <1>2 DEF Silent
<1>6. Exchange'
  BY <1>1, <1>2, <1>3, <1>4, <1>5 DEF Exchange
<1>7. /\ reply[stream] \in Response /\ reply[stream].task = task
      /\ reply[stream].signer = identity
  BY <1>1, <1>2 DEF Answering, Option, Base, Link, Streaming, Linked, Busy, Talk, Messages, Signed
<1> QED BY <1>1, <1>6, <1>7

LEMMA ExchangeWorker ==
  ASSUME Base, Exchange, WorkerStep
  PROVE  Exchange'
<1>0. UNCHANGED <<loc, socket, running, conns>>
  BY WorkerFrame
<1>1. CASE Accept
  <2>1. /\ Taken' = Taken + 1 /\ stream' = Taken + 1 /\ Taken + 1 \in 1 .. Len(conns)
        /\ pc' = "handshake" /\ UNCHANGED <<request, reply>>
    BY <1>1, WiredAccept DEF Accept, Goto, Base, Link
  <2>2. Taken \in Nat /\ Len(conns) \in Nat /\ Len(conns) <= MaxConns
    BY DEF Base, Link, Wired, Waiting
  <2>3. stream' \in Conns /\ Silent(stream')
    BY <2>1, <2>2, WorkerAssumption DEF Exchange, Conns
  <2>4. \A c \in Conns : c > Taken' => c > Taken
    BY <2>1, <2>2 DEF Conns
  <2> QED BY <1>0, <2>1, <2>3, <2>4 DEF Exchange, Silent
<1>2. CASE AcceptFails
  BY <1>2, ExchangeDie DEF AcceptFails
<1>3. CASE ReceiveIdentity
  BY <1>0, <1>3, ExchangeSame
     DEF ReceiveIdentity, NextStep, Goto, wire, Linked, Busy, Taken
<1>4. CASE LoseHandshake \/ SendFails \/ LoseResponse
  <2>1. pc' = "accept" /\ UNCHANGED <<pending, request, reply>>
    BY <1>4 DEF LoseHandshake, SendFails, LoseResponse, TakeBack, Reconnect, Goto
  <2> QED BY <1>0, <2>1, ExchangeLeft DEF Taken
<1>5. CASE destroy_enclave
  <2>1. CASE Die("destroy_enclave")
    BY <2>1, ExchangeDie
  <2>2. CASE ~Die("destroy_enclave")
    <3>1. /\ pc = "destroy" /\ pc' \in {"register", "next_task"}
          /\ UNCHANGED <<stream, task, pending, request, reply>>
      BY <1>5, <2>2 DEF destroy_enclave, Goto, wire
    <3> QED BY <1>0, <3>1, ExchangeSame DEF Linked, Busy, Taken
  <2> QED BY <2>1, <2>2
<1>6. CASE register_enclave
  <2>1. CASE Die("register_enclave")
    BY <2>1, ExchangeDie
  <2>2. CASE ~Die("register_enclave")
    <3>1. /\ pc = "register" /\ pc' = "next_task"
          /\ UNCHANGED <<stream, task, pending, request, reply>>
      BY <1>6, <2>2 DEF register_enclave, Goto, wire
    <3> QED BY <1>0, <3>1, ExchangeSame DEF Linked, Busy, Taken
  <2> QED BY <2>1, <2>2
<1>7. CASE next_task
  <2>1. pc = "next_task" /\ pc' = "send" /\ UNCHANGED <<stream, pending, request, reply>>
    BY <1>7 DEF next_task, Goto, wire
  <2> QED BY <1>0, <2>1 DEF Exchange, Silent, Linked, Busy, Taken
<1>8. CASE Send
  BY <1>8, ExchangeSend
<1>9. CASE ReceiveResponse
  BY <1>9, ExchangeReceive
<1>10. CASE StoreBlobs
  <2>1. /\ pc = "process" /\ pc' \in {"submit", "next_task"}
        /\ UNCHANGED <<stream, pending, request, reply>>
    BY <1>10 DEF StoreBlobs, Settle, Goto, wire
  <2> QED BY <1>0, <2>1 DEF Exchange, Silent, Linked, Busy, Taken
<1>11. CASE Submit
  <2>1. CASE Die("wallet") \/ Die("process_response")
    BY <2>1, ExchangeDie
  <2>2. CASE ~(Die("wallet") \/ Die("process_response"))
    <3>1. /\ pc = "submit" /\ pc' = "next_task"
          /\ UNCHANGED <<stream, pending, request, reply>>
      BY <1>11, <2>2 DEF Submit, Settle, Goto, wire
    <3> QED BY <1>0, <3>1 DEF Exchange, Silent, Linked, Busy, Taken
  <2> QED BY <2>1, <2>2
<1> QED BY <1>1, <1>2, <1>3, <1>4, <1>5, <1>6, <1>7, <1>8, <1>9, <1>10, <1>11 DEF WorkerStep, WorkerLoop

LEMMA ExchangeStep ==
  ASSUME Base, Exchange, [Next]_vars
  PROVE  Exchange'
<1>1. CASE Client \/ UNCHANGED vars
  <2>1. UNCHANGED <<pc, stream, task, loc, socket, running, conns, pending, request, reply>>
    BY <1>1, ClientFrame DEF vars, server, connector, wire
  <2> QED BY <2>1, ExchangeSame DEF Taken
<1>2. CASE WorkerStep
  BY <1>2, ExchangeWorker
<1>3. CASE Connect
  <2>1. /\ Taken' = Taken /\ loc' = "ready"
        /\ UNCHANGED <<pc, stream, task, request, reply>>
    BY <1>3, WiredConnect DEF Connect, server, Base, Link
  <2> QED BY <2>1, ExchangeSame
<1>4. CASE ReadTask
  BY <1>4, ExchangeRead
<1>5. CASE RunTask
  BY <1>5, ExchangeRun
<1>6. CASE NoticeLoss \/ Restart
  <2>1. /\ loc' = "connect"
        /\ UNCHANGED <<pc, stream, task, conns, pending, request, reply>>
    BY <1>6 DEF NoticeLoss, Restart, server, wire
  <2> QED BY <2>1, ExchangeSame DEF Taken
<1>7. CASE \E c \in Conns : Break(c)
  <2>1. UNCHANGED <<pc, stream, task, loc, socket, running, conns, pending, request, reply>>
    BY <1>7 DEF Break, server, connector
  <2> QED BY <2>1, ExchangeSame DEF Taken
<1> QED BY <1>1, <1>2, <1>3, <1>4, <1>5, <1>6, <1>7 DEF Next, ConnectorStep, ConnectorLoop

LEMMA ProcessedSame ==
  ASSUME Processed, UNCHANGED <<response, task, identity>>,
         \/ pc' = pc
         \/ pc = "process" /\ pc' = "submit"
  PROVE  Processed'
BY DEF Processed

\* Where there is no response, there is none to be processed.
LEMMA ProcessedIdle ==
  ASSUME response' = None, pc' \notin {"process", "submit"}
  PROVE  Processed'
BY DEF Processed, Option

LEMMA ProcessedWorker ==
  ASSUME Base, Exchange, Processed, WorkerStep
  PROVE  Processed'
<1>1. CASE Accept \/ ReceiveIdentity \/ LoseHandshake \/ next_task \/ Send \/ SendFails \/ LoseResponse
  <2>1. response' = response /\ pc \notin {"process", "submit"} /\ pc' \notin {"process", "submit"}
    BY <1>1 DEF Accept, ReceiveIdentity, NextStep, LoseHandshake, next_task, Send, SendFails,
       LoseResponse, TakeBack, Reconnect, Goto, server
  <2> QED BY <2>1, ProcessedIdle DEF Processed
<1>2. CASE \E call \in Calls : Die(call)
  BY <1>2, ProcessedIdle DEF Die, Goto
<1>3. CASE AcceptFails
  BY <1>2, <1>3 DEF AcceptFails, Calls
<1>4. CASE Settle
  BY <1>4, ProcessedIdle DEF Settle, Goto
<1>5. CASE destroy_enclave \/ register_enclave
  <2>1. ASSUME ~(\E call \in Calls : Die(call))
        PROVE  response' = response /\ pc \in {"destroy", "register"} /\ pc' \in {"register", "next_task"}
    BY <1>5, <2>1 DEF destroy_enclave, register_enclave, Goto, Calls
  <2> QED BY <1>2, <2>1, ProcessedIdle DEF Processed
<1>6. CASE ReceiveResponse
  BY <1>4, <1>6, ExchangeReceive DEF Processed, Option
<1>7. CASE StoreBlobs
  <2>1. CASE ~Settle
    BY <1>7, <2>1, ProcessedSame DEF StoreBlobs, Goto
  <2> QED BY <1>4, <2>1
<1>8. CASE Submit
  BY <1>2, <1>4, <1>8 DEF Submit, Calls
<1> QED BY <1>1, <1>3, <1>5, <1>6, <1>7, <1>8 DEF WorkerStep, WorkerLoop

LEMMA ProcessedStep ==
  ASSUME Base, Exchange, Processed, [Next]_vars
  PROVE  Processed'
<1>1. CASE WorkerStep
  BY <1>1, ProcessedWorker
<1>2. CASE ~WorkerStep
  <2>1. UNCHANGED <<pc, response, task, identity>>
    BY <1>2, ClientFrame, ConnectorFrame DEF Next, vars, server
  <2> QED BY <2>1, ProcessedSame
<1> QED BY <1>1, <1>2

Talks == Base /\ Exchange /\ Processed

LEMMA TalksInit == Init => Talks
<1>1. Init => Exchange
  BY DEF Init, Exchange, Silent, Linked, Busy
<1>2. Init => Processed
  BY DEF Init, Processed, Option
<1> QED BY <1>1, <1>2, InitHolds, LinkInit, TalkInit DEF Talks, Base

LEMMA TalksStep == Talks /\ [Next]_vars => Talks'
<1> SUFFICES ASSUME Talks, [Next]_vars PROVE Talks'
  OBVIOUS
<1>1. Base'
  BY StepHolds, LinkStep, TalkStep DEF Talks, Base, Link
<1> QED BY <1>1, ExchangeStep, ProcessedStep DEF Talks

\* The response that process_response of worker.rs works on answers the task in
\* hand, whatever was left on connections that broke.
THEOREM ResponseTheorem == Spec => []ResponseIsForTask
<1>1. Talks => ResponseIsForTask
  BY DEF Talks, Processed, ResponseIsForTask
<1> QED BY <1>1, TalksInit, TalksStep, PTL DEF Spec

-----------------------------------------------------------------------------
(* Types *)

\* What is written down for good: the requests, the findings and their keys.
Ledger ==
  /\ Len(receiver) <= Capacity
  /\ attested \in [Starts -> BOOLEAN]
  /\ known \subseteq Starts
  /\ chain \in [Findings -> Statuses] /\ key \in [Findings -> Option(Starts)]
  /\ death \in Option(Calls)

LEMMA LedgerSame ==
  ASSUME Ledger, UNCHANGED <<receiver, attested, known, chain, key, death>>
  PROVE  Ledger'
BY DEF Ledger

LEMMA LedgerClient ==
  ASSUME Talks, Ledger, Client
  PROVE  Ledger'
<1>0. UNCHANGED <<attested, death>>
  BY ClientFrame
<1>1. CASE get_public_key
  <2>1. identity \in Starts
    BY <1>1 DEF get_public_key, Talks, Base, Link, Streaming, Option
  <2> QED BY <1>0, <1>1, <2>1 DEF get_public_key, Ledger, server
<1>2. ASSUME NEW f \in Findings, NEW k \in Starts, CreateFinding(f, k) PROVE Ledger'
  BY <1>0, <1>2 DEF CreateFinding, Ledger, server, Statuses, Option
<1>3. ASSUME NEW f \in Findings, DestroyFinding(f) PROVE Ledger'
  BY <1>0, <1>3 DEF DestroyFinding, Ledger, server, Statuses
<1>4. ASSUME NEW f \in Findings, post_new_finding(f) PROVE Ledger'
  <2>1. receiver \in Seq(Task) /\ f \in Task /\ Len(receiver) < Capacity
        /\ receiver' = Append(receiver, f) /\ UNCHANGED <<known, chain, key>>
    BY <1>4 DEF post_new_finding, Task, client, Talks, Base, IInv, QueueTypes
  <2>2. Len(receiver') = Len(receiver) + 1 /\ Len(receiver) \in Nat
    BY <2>1, AppendProperties
  <2> QED BY <1>0, <2>1, <2>2, WorkerAssumption DEF Ledger
<1> QED BY <1>1, <1>2, <1>3, <1>4 DEF Client

LEMMA LedgerDie ==
  ASSUME Ledger, NEW call \in Calls, Die(call), chain' \in [Findings -> Statuses]
  PROVE  Ledger'
<1>1. receiver' = <<>> /\ death' = call /\ UNCHANGED <<attested, known, key>>
  BY DEF Die, connector
<1> QED BY <1>1, WorkerAssumption DEF Ledger, Option

\* The outcome of a response is written for its task.
LEMMA OutcomeIs ==
  ASSUME Talks, Ledger, pc = "submit", Outcome
  PROVE  /\ task \in Findings
         /\ \E s \in {"Committed", "Error"} : chain' = [chain EXCEPT ![task] = s]
<1>1. /\ response \in Response /\ response.task = task /\ response.kind # "failed"
      /\ task \in Findings
  BY DEF Talks, Processed, Option, Base, IInv, Holding, QueueTypes, Busy, Task
<1>2. response.kind \in {"report", "error"}
  BY <1>1 DEF Response
<1>3. StatusFor[response.kind] \in {"Committed", "Error"}
  BY <1>2 DEF StatusFor
<1> QED BY <1>1, <1>3 DEF Outcome

LEMMA LedgerWorker ==
  ASSUME Talks, Ledger, WorkerStep
  PROVE  Ledger'
<1>0. UNCHANGED <<attested, known, key>>
  BY WorkerFrame
<1>1. CASE /\ ~next_task /\ ~Submit
           /\ \A call \in Calls : ~Die(call)
  <2>1. CASE Accept \/ ReceiveIdentity \/ Send \/ ReceiveResponse \/ StoreBlobs
    BY <1>0, <2>1, LedgerSame DEF Accept, ReceiveIdentity, Send, ReceiveResponse, StoreBlobs,
       server, client, history
  <2>2. CASE LoseHandshake \/ SendFails \/ LoseResponse
    BY <1>0, <2>2, LedgerSame DEF LoseHandshake, SendFails, LoseResponse, TakeBack, client, history
  <2>3. CASE AcceptFails \/ destroy_enclave \/ register_enclave
    BY <1>0, <1>1, <2>3, LedgerSame DEF AcceptFails, destroy_enclave, register_enclave, client,
       history, Calls
  <2> QED BY <1>1, <2>1, <2>2, <2>3 DEF WorkerStep, WorkerLoop
<1>2. CASE next_task
  <2>1. receiver \in Seq(Task)
    BY DEF Talks, Base, IInv, QueueTypes
  <2>2. CASE receiver' = receiver
    BY <1>0, <1>2, <2>2, LedgerSame DEF next_task, client, history
  <2>3. CASE receiver # <<>> /\ receiver' = Tail(receiver)
    <3>1. Len(receiver') = Len(receiver) - 1 /\ Len(receiver) \in Nat
      BY <2>1, <2>3, HeadTailProperties
    <3> QED BY <1>0, <1>2, <3>1, WorkerAssumption DEF next_task, client, history, Ledger
  <2> QED BY <1>2, <2>2, <2>3 DEF next_task
<1>3. CASE Submit
  <2>1. UNCHANGED chain \/ Outcome
    BY <1>3 DEF Submit
  <2>2. chain' \in [Findings -> Statuses]
    <3>1. CASE Outcome
      <4>1. PICK s \in {"Committed", "Error"} : chain' = [chain EXCEPT ![task] = s]
        BY <1>3, <3>1, OutcomeIs DEF Submit
      <4> QED BY <4>1 DEF Ledger, Statuses
    <3>2. CASE UNCHANGED chain
      BY <3>2 DEF Ledger
    <3> QED BY <2>1, <3>1, <3>2
  <2>3. CASE Die("wallet") \/ Die("process_response")
    BY <2>2, <2>3, LedgerDie DEF Calls
  <2>4. CASE ~(Die("wallet") \/ Die("process_response"))
    <3>1. UNCHANGED <<receiver, death>>
      BY <1>3, <2>4 DEF Submit
    <3> QED BY <1>0, <2>2, <3>1 DEF Ledger
  <2> QED BY <2>3, <2>4
<1>4. ASSUME NEW call \in Calls, Die(call), ~Submit PROVE Ledger'
  <2>1. UNCHANGED chain
    <3>1. CASE Accept \/ ReceiveIdentity \/ next_task \/ Send \/ ReceiveResponse \/ StoreBlobs
      BY <3>1 DEF Accept, ReceiveIdentity, next_task, Send, ReceiveResponse, StoreBlobs, client
    <3>2. CASE LoseHandshake \/ SendFails \/ LoseResponse
      BY <3>2 DEF LoseHandshake, SendFails, LoseResponse, TakeBack, client
    <3>3. CASE AcceptFails \/ destroy_enclave \/ register_enclave
      BY <3>3 DEF AcceptFails, destroy_enclave, register_enclave, client
    <3> QED BY <1>4, <3>1, <3>2, <3>3 DEF WorkerStep, WorkerLoop
  <2> QED BY <1>4, <2>1, LedgerDie DEF Ledger
<1> QED BY <1>1, <1>2, <1>3, <1>4

LEMMA LedgerStep ==
  ASSUME Talks, Ledger, [Next]_vars
  PROVE  Ledger'
<1>1. CASE Client
  BY <1>1, LedgerClient
<1>2. CASE WorkerStep
  BY <1>2, LedgerWorker
<1>3. CASE ~Client /\ ~WorkerStep
  BY <1>3, ConnectorFrame, LedgerSame DEF Next, vars, server, connector, client, history
<1> QED BY <1>1, <1>2, <1>3

LEMMA LedgerInit == Init => Ledger
BY WorkerAssumption DEF Init, Ledger, Option, Statuses

LEMMA TypesAre == Talks /\ Ledger => TypeOK
<1> SUFFICES ASSUME Talks, Ledger PROVE TypeOK
  OBVIOUS
<1>1. /\ pc \in Locations
      /\ receiver \in Seq(Task) /\ Len(receiver) <= Capacity
      /\ backlog \in Option(Task) /\ task \in Option(Task)
      /\ accepted \in Seq(Task) /\ settled \in Seq(Task)
  BY DEF Talks, Base, IInv, QueueTypes, Holding, Idle, Busy, Locations, Ledger
<1>2. response \in Option(Response) /\ identity \in Option(Starts)
      /\ last_used_enclave \in Option(EnclaveInfo)
  BY DEF Talks, Base, Processed, Link, Streaming, Registered
<1>3. stream \in Option(Conns)
  <2>1. CASE pc \in {"accept", "dead"}
    BY <2>1 DEF Talks, Base, Link, Streaming, Option
  <2>2. CASE pc \in Linked \cup {"handshake"}
    BY <2>2, StreamIsConn DEF Talks, Option
  <2> QED BY <2>1, <2>2 DEF Talks, Base, Link, Streaming
<1>4. /\ start \in Starts
      /\ conns \in Seq(Starts) /\ Len(conns) <= MaxConns
      /\ pending \in Seq(Conns) /\ alive \subseteq Conns
  BY DEF Talks, Base, Link, Wired
<1>5. /\ loc \in {"connect", "ready", "running"} /\ running \in Option(Task)
  BY DEF Talks, Base, Talk, Connected, Option
<1>6. socket \in Option(Conns)
  BY <1>4, WorkerAssumption DEF Talks, Base, Talk, Connected, Option, Conns
<1>7. request \in [Conns -> Option(Task)] /\ reply \in [Conns -> Option(Response)]
  BY DEF Talks, Base, Talk, Messages
<1> QED BY <1>1, <1>2, <1>3, <1>4, <1>5, <1>6, <1>7 DEF TypeOK, Ledger

\* The state of Worker stays well typed; what a response says of its task and its
\* start is needed to see that the chain gets one of its own statuses.
THEOREM TypeTheorem == Spec => []TypeOK
<1>1. Talks /\ Ledger /\ [Next]_vars => (Talks /\ Ledger)'
  BY TalksStep, LedgerStep
<1> QED BY <1>1, TalksInit, LedgerInit, TypesAre, PTL DEF Spec

-----------------------------------------------------------------------------
(* Redelivery *)

Posted == \A i \in 1 .. Len(accepted) : chain[accepted[i]] # "none"

\* What is written was settled, as long as nothing ended the worker in between.
Written ==
  pc # "dead" =>
    \A f \in Findings : chain[f] \in {"Committed", "Error"} =>
      \E i \in 1 .. Len(settled) : settled[i] = f

Alive == pc # "dead" => death = None

History == Posted /\ Written /\ Alive /\ RedeliveryIsHarmless

Known == Talks /\ Ledger

\* The task in hand was accepted after all that is settled.
LEMMA InHand ==
  ASSUME Known, pc \in Busy
  PROVE  /\ Len(settled) + 1 \in 1 .. Len(accepted) /\ accepted[Len(settled) + 1] = task
         /\ \A i \in 1 .. Len(settled) : i \in 1 .. Len(accepted) /\ accepted[i] = settled[i]
         /\ Len(settled) \in Nat /\ task \in Findings
         /\ accepted \in Seq(Task) /\ settled \in Seq(Task)
<1>1. /\ accepted = settled \o OneOrNone(task) \o OneOrNone(backlog) \o receiver
      /\ task \in Task /\ backlog = None /\ receiver \in Seq(Task) /\ settled \in Seq(Task)
      /\ accepted \in Seq(Task)
  BY DEF Known, Talks, Base, IInv, NoTaskLost, QueueTypes, Holding, Busy, Option
<1>2. OneOrNone(task) = <<task>> /\ OneOrNone(backlog) = <<>>
  BY <1>1, WorkerAssumption DEF OneOrNone, Task
<1>3. accepted = (settled \o <<task>>) \o receiver
  BY <1>1, <1>2
<1> DEFINE first == settled \o <<task>>
<1>4. /\ first \in Seq(Task) /\ Len(first) = Len(settled) + 1 /\ first[Len(settled) + 1] = task
      /\ \A i \in 1 .. Len(settled) : first[i] = settled[i]
      /\ Len(settled) \in Nat
  BY <1>1
<1> HIDE DEF first
<1>5. /\ Len(accepted) = Len(first) + Len(receiver) /\ Len(receiver) \in Nat
      /\ \A i \in 1 .. Len(first) : accepted[i] = first[i]
  BY <1>1, <1>3, <1>4 DEF first
<1>6. ASSUME NEW i \in 1 .. Len(settled)
      PROVE  i \in 1 .. Len(accepted) /\ accepted[i] = settled[i]
  BY <1>4, <1>5
<1> QED BY <1>1, <1>4, <1>5, <1>6 DEF Task

LEMMA HistorySame ==
  ASSUME History, UNCHANGED <<pc, last_used_enclave, accepted, settled, chain, death>>
  PROVE  History'
BY DEF History, Posted, Written, Alive, RedeliveryIsHarmless

\* A living worker: death is none, and RedeliveryIsHarmless says nothing.
LEMMA HistoryAlive ==
  ASSUME History, pc' # "dead", death' = None, Posted', Written'
  PROVE  History'
<1>1. None # "process_response"
  BY WorkerAssumption DEF Calls
<1> QED BY <1>1 DEF History, Alive, RedeliveryIsHarmless

LEMMA HistoryDie ==
  ASSUME Known, History, NEW call \in Calls, Die(call), pc # "dead", chain' = chain,
         call = "process_response" => pc = "submit" /\ ~Executes(response)
  PROVE  History'
<1>1. /\ pc' = "dead" /\ death' = call
      /\ UNCHANGED <<last_used_enclave, accepted, settled>>
  BY DEF Die, Goto
<1>2. Posted' /\ Written' /\ Alive'
  BY <1>1 DEF History, Posted, Written, Alive
<1>3. ASSUME call = "process_response", last_used_enclave = None,
             \A f \in Findings : chain[f] # "destroyed"
      PROVE  \E i, j \in DOMAIN accepted : i # j /\ accepted[i] = accepted[j]
  <2>1. pc \in Busy /\ chain[task] # "Draft" /\ task \in Findings
        /\ chain \in [Findings -> Statuses]
    <3>1. pc \in Busy /\ response.task = task
      BY <1>3 DEF Known, Talks, Processed, Busy
    <3> QED BY <1>3, <3>1, InHand DEF Executes, Known, Ledger
  <2>2. chain[task] # "none"
    BY <2>1, InHand DEF History, Posted
  <2>3. chain[task] \in {"Committed", "Error"}
    BY <1>3, <2>1, <2>2 DEF Statuses
  <2>4. PICK i \in 1 .. Len(settled) : settled[i] = task
    BY <2>1, <2>3 DEF History, Written
  <2>5. /\ i \in 1 .. Len(accepted) /\ Len(settled) + 1 \in 1 .. Len(accepted)
        /\ i # Len(settled) + 1 /\ accepted[i] = accepted[Len(settled) + 1]
        /\ DOMAIN accepted = 1 .. Len(accepted)
    BY <2>1, <2>4, InHand
  <2> QED BY <2>5
<1>4. RedeliveryIsHarmless'
  BY <1>1, <1>3 DEF RedeliveryIsHarmless
<1> QED BY <1>2, <1>4 DEF History

LEMMA PostedClient ==
  ASSUME Known, History, Client
  PROVE  History'
<1>0. UNCHANGED <<pc, last_used_enclave, settled, death>>
  BY ClientFrame
<1>t. /\ accepted \in Seq(Task) /\ chain \in [Findings -> Statuses]
      /\ \A i \in 1 .. Len(accepted) : accepted[i] \in Findings
  <2>1. accepted \in Seq(Task)
    BY DEF Known, Talks, Base, IInv, QueueTypes
  <2> QED BY <2>1, ElementOfSeq DEF Known, Ledger, Task
<1>1. CASE get_public_key
  BY <1>0, <1>1, HistorySame DEF get_public_key, history
<1>2. ASSUME NEW f \in Findings, NEW k \in Starts, CreateFinding(f, k) PROVE History'
  <2>1. /\ chain[f] = "none" /\ chain' = [chain EXCEPT ![f] = "Draft"] /\ accepted' = accepted
    BY <1>2 DEF CreateFinding, history
  <2>2. \A g \in Findings : /\ chain'[g] = chain[g] \/ (chain[g] = "none" /\ chain'[g] = "Draft")
    BY <1>t, <2>1
  <2> QED BY <1>0, <1>t, <2>1, <2>2 DEF History, Posted, Written, Alive, RedeliveryIsHarmless
<1>3. ASSUME NEW f \in Findings, DestroyFinding(f) PROVE History'
  <2>1. /\ chain' = [chain EXCEPT ![f] = "destroyed"] /\ accepted' = accepted
    BY <1>3 DEF DestroyFinding, history
  <2>2. \A g \in Findings : chain'[g] = chain[g] \/ chain'[g] = "destroyed"
    BY <1>t, <2>1
  <2> QED BY <1>0, <1>t, <2>1, <2>2 DEF History, Posted, Written, Alive, RedeliveryIsHarmless
<1>4. ASSUME NEW f \in Findings, post_new_finding(f) PROVE History'
  <2>1. /\ chain[f] # "none" /\ pc # "dead" /\ accepted' = Append(accepted, f)
        /\ f \in Task /\ chain' = chain
    BY <1>4 DEF post_new_finding, client, Task
  <2>2. /\ Len(accepted') = Len(accepted) + 1 /\ Len(accepted) \in Nat
        /\ accepted'[Len(accepted) + 1] = f
        /\ \A i \in 1 .. Len(accepted) : accepted'[i] = accepted[i]
    BY <1>t, <2>1, AppendProperties
  <2>3. ASSUME NEW i \in 1 .. Len(accepted') PROVE chain'[accepted'[i]] # "none"
    <3>1. CASE i \in 1 .. Len(accepted)
      BY <2>1, <2>2, <3>1 DEF History, Posted
    <3>2. CASE i = Len(accepted) + 1
      BY <2>1, <2>2, <3>2
    <3> QED BY <2>2, <3>1, <3>2
  <2>4. Posted' /\ Written'
    BY <1>0, <2>1, <2>3 DEF History, Posted, Written
  <2> QED BY <1>0, <2>1, <2>4, HistoryAlive DEF History, Alive
<1> QED BY <1>1, <1>2, <1>3, <1>4 DEF Client

\* The worker settles a task.
LEMMA WrittenSettle ==
  ASSUME Known, History, pc \in Busy, Settle,
         UNCHANGED <<accepted, death>>,
         \/ chain' = chain
         \/ \E s \in {"Committed", "Error"} : chain' = [chain EXCEPT ![task] = s]
  PROVE  History'
<1>1. /\ pc' = "next_task" /\ settled' = Append(settled, task)
      /\ task \in Task /\ settled \in Seq(Task) /\ accepted \in Seq(Task)
      /\ chain \in [Findings -> Statuses]
  BY InHand DEF Settle, Goto, Known, Ledger, Task
<1>2. /\ Len(settled') = Len(settled) + 1 /\ Len(settled) \in Nat
      /\ settled'[Len(settled) + 1] = task
      /\ \A i \in 1 .. Len(settled) : settled'[i] = settled[i]
  BY <1>1, AppendProperties
<1>3. \A g \in Findings : \/ chain'[g] = chain[g]
                          \/ g = task /\ chain'[g] # "none"
  BY <1>1 DEF Task
<1>4. ASSUME NEW f \in Findings, chain'[f] \in {"Committed", "Error"}
      PROVE  \E i \in 1 .. Len(settled') : settled'[i] = f
  <2>1. CASE f = task
    BY <1>2, <2>1
  <2>2. CASE f # task
    <3>1. PICK i \in 1 .. Len(settled) : settled[i] = f
      BY <1>3, <1>4, <2>2 DEF History, Written, Busy
    <3> QED BY <1>2, <3>1
  <2> QED BY <2>1, <2>2
<1>5. Posted'
  BY <1>1, <1>3, ElementOfSeq DEF History, Posted, Task
<1>6. Written'
  BY <1>4 DEF Written
<1> QED BY <1>1, <1>5, <1>6, HistoryAlive DEF History, Alive, Busy

LEMMA HistoryWorker ==
  ASSUME Known, History, WorkerStep
  PROVE  History'
<1>0. pc # "dead" /\ accepted' = accepted
  BY WorkerFrame DEF WorkerStep, WorkerLoop, Accept, AcceptFails, ReceiveIdentity, LoseHandshake, destroy_enclave,
     register_enclave, next_task, Send, SendFails, ReceiveResponse, LoseResponse, StoreBlobs, Submit
<1>1. CASE pc' # "dead" /\ UNCHANGED <<settled, chain, death>>
  BY <1>0, <1>1, HistoryAlive DEF History, Posted, Written, Alive
<1>2. CASE Accept \/ ReceiveIdentity \/ next_task \/ Send
  BY <1>1, <1>2 DEF Accept, ReceiveIdentity, NextStep, next_task, Send, Goto, client, history
<1>3. CASE LoseHandshake \/ SendFails \/ LoseResponse
  BY <1>1, <1>3 DEF LoseHandshake, SendFails, LoseResponse, TakeBack, Reconnect, Goto, client, history
<1>4. CASE AcceptFails
  BY <1>0, <1>4, HistoryDie DEF AcceptFails, Calls
<1>5. CASE destroy_enclave
  <2>1. CASE Die("destroy_enclave") /\ chain' = chain
    BY <1>0, <2>1, HistoryDie DEF Calls
  <2> QED BY <1>1, <1>5, <2>1 DEF destroy_enclave, Goto, client, history
<1>6. CASE register_enclave
  <2>1. CASE Die("register_enclave") /\ chain' = chain
    BY <1>0, <2>1, HistoryDie DEF Calls
  <2> QED BY <1>1, <1>6, <2>1 DEF register_enclave, Goto, client, history
<1>7. CASE ReceiveResponse
  <2>1. pc \in Busy /\ UNCHANGED <<chain, death>>
    BY <1>7 DEF ReceiveResponse, Busy, client
  <2>2. CASE Settle
    BY <1>0, <2>1, <2>2, WrittenSettle
  <2>3. CASE ~Settle
    BY <1>1, <1>7, <2>1, <2>3 DEF ReceiveResponse, Goto
  <2> QED BY <2>2, <2>3
<1>8. CASE StoreBlobs
  <2>1. pc \in Busy /\ UNCHANGED <<chain, death>>
    BY <1>8 DEF StoreBlobs, Busy, client
  <2>2. CASE Settle
    BY <1>0, <2>1, <2>2, WrittenSettle
  <2>3. CASE ~Settle
    BY <1>1, <1>8, <2>1, <2>3 DEF StoreBlobs, Goto
  <2> QED BY <2>2, <2>3
<1>9. CASE Submit
  <2>1. pc = "submit"
    BY <1>9 DEF Submit
  <2>2. CASE Outcome /\ Settle /\ death' = death
    BY <1>0, <2>1, <2>2, OutcomeIs, WrittenSettle DEF Known, Busy
  <2>3. CASE UNCHANGED chain /\ (Die("wallet") \/ (Die("process_response") /\ ~Executes(response)))
    BY <1>0, <2>1, <2>3, HistoryDie DEF Calls
  <2>4. CASE Outcome /\ Die("wallet")
    <3>1. PICK s \in {"Committed", "Error"} : chain' = [chain EXCEPT ![task] = s]
      BY <2>1, <2>4, OutcomeIs DEF Known
    <3>2. /\ pc' = "dead" /\ death' = "wallet" /\ settled' = settled
      BY <2>4 DEF Die, Goto
    <3>3. /\ accepted \in Seq(Task) /\ chain \in [Findings -> Statuses]
      BY <2>1, InHand DEF Busy, Known, Ledger
    <3>4. Posted'
      BY <1>0, <3>1, <3>3, ElementOfSeq DEF History, Posted, Task
    <3> QED BY <3>2, <3>4 DEF History, Written, Alive, RedeliveryIsHarmless
  <2> QED BY <1>9, <2>2, <2>3, <2>4 DEF Submit
<1> QED BY <1>2, <1>3, <1>4, <1>5, <1>6, <1>7, <1>8, <1>9 DEF WorkerStep, WorkerLoop

LEMMA HistoryStep ==
  ASSUME Known, History, [Next]_vars
  PROVE  History'
<1>1. CASE Client
  BY <1>1, PostedClient
<1>2. CASE WorkerStep
  BY <1>2, HistoryWorker
<1>3. CASE ~Client /\ ~WorkerStep
  BY <1>3, ConnectorFrame, HistorySame DEF Next, vars, server, client, history
<1> QED BY <1>1, <1>2, <1>3

LEMMA HistoryInit == Init => History
<1> SUFFICES ASSUME Init PROVE History
  OBVIOUS
<1>1. None # "process_response" /\ death = None
  BY WorkerAssumption DEF Init, Calls
<1>2. Posted /\ Written /\ Alive
  BY DEF Init, Posted, Written, Alive
<1> QED BY <1>1, <1>2 DEF History, RedeliveryIsHarmless

\* In test mode the worker dies of an outcome that the chain rejects only if the
\* finding was posted twice or destroyed: the backlog of worker.rs never sends a
\* task again whose outcome was written.
THEOREM RedeliveryTheorem == Spec => []RedeliveryIsHarmless
<1>1. Init => Known /\ History
  BY TalksInit, LedgerInit, HistoryInit DEF Known
<1>2. Known /\ History /\ [Next]_vars => (Known /\ History)'
  BY TalksStep, LedgerStep, HistoryStep DEF Known
<1>3. History => RedeliveryIsHarmless
  BY DEF History
<1> QED BY <1>1, <1>2, <1>3, PTL DEF Spec

-----------------------------------------------------------------------------
(* Whose key a response was made with *)

\* A report or an error message was made by the start whose key its submission
\* was encrypted for; a submission that was not made has no key.
Keyed ==
  /\ \A f \in Findings : chain[f] = "none" => key[f] = None
  /\ \A c \in Conns : reply[c] # None /\ reply[c].kind # "failed" =>
                        reply[c].signer = key[reply[c].task]
  /\ response # None => response.signer = key[response.task]

LEMMA KeyedInit == Init => Keyed
BY DEF Init, Keyed

\* Nothing is known of the answer to a submission before it is made.
LEMMA KeyedCreate ==
  ASSUME Known, Keyed, NEW f \in Findings, NEW k \in Starts, CreateFinding(f, k)
  PROVE  Keyed'
<1>1. /\ chain[f] = "none" /\ key[f] = None
      /\ chain' = [chain EXCEPT ![f] = "Draft"] /\ key' = [key EXCEPT ![f] = k]
      /\ UNCHANGED <<reply, response>>
      /\ chain \in [Findings -> Statuses] /\ key \in [Findings -> Option(Starts)]
  BY DEF CreateFinding, wire, server, Keyed, Known, Ledger
<1>2. ASSUME NEW r \in Response, r.signer = key[r.task]
      PROVE  r.signer = key'[r.task]
  <2>1. r.task \in Findings /\ r.signer \in Starts
    BY DEF Response, Task
  <2>2. r.task # f
    BY <1>1, <1>2, <2>1, WorkerAssumption DEF Starts
  <2> QED BY <1>1, <1>2, <2>1, <2>2
<1>3. \A g \in Findings : chain'[g] = "none" => key'[g] = None
  BY <1>1 DEF Keyed
<1>4. /\ \A c \in Conns : reply[c] # None => reply[c] \in Response
      /\ response # None => response \in Response
  BY DEF Known, Talks, Base, Talk, Messages, Processed, Option
<1> QED BY <1>1, <1>2, <1>3, <1>4 DEF Keyed

LEMMA KeyedRun ==
  ASSUME Known, Keyed, RunTask
  PROVE  Keyed'
<1>1. UNCHANGED <<chain, key, response>>
  BY DEF RunTask, client, server
<1>2. CASE reply' = reply
  BY <1>1, <1>2 DEF Keyed
<1>3. CASE \E r \in ResultsOf(running) : reply' = [reply EXCEPT ![socket] = r]
  <2>1. PICK r \in ResultsOf(running) : reply' = [reply EXCEPT ![socket] = r]
    BY <1>3
  <2>2. r.kind # "failed" => r.signer = key[r.task]
    BY DEF ResultsOf
  <2>3. reply \in [Conns -> Option(Response)]
    BY DEF Known, Talks, Base, Talk, Messages
  <2> QED BY <1>1, <2>1, <2>2, <2>3 DEF Keyed
<1> QED BY <1>2, <1>3 DEF RunTask

\* What a step of the worker does to answers and findings.
LEMMA KeyedWorker ==
  ASSUME Known, Keyed, WorkerStep
  PROVE  Keyed'
<1>0. key' = key
  BY WorkerFrame
<1>1. \A f \in Findings : chain'[f] = "none" => chain[f] = "none"
  <2>1. CASE Submit
    <3>1. CASE Outcome
      <4>1. PICK s \in {"Committed", "Error"} : chain' = [chain EXCEPT ![task] = s]
        BY <2>1, <3>1, OutcomeIs DEF Submit, Known
      <4> QED BY <4>1 DEF Known, Ledger
    <3> QED BY <2>1, <3>1 DEF Submit
  <2>2. CASE ~Submit
    <3>1. CASE Accept \/ ReceiveIdentity \/ next_task \/ Send \/ ReceiveResponse \/ StoreBlobs
      BY <3>1 DEF Accept, ReceiveIdentity, next_task, Send, ReceiveResponse, StoreBlobs, client
    <3>2. CASE LoseHandshake \/ SendFails \/ LoseResponse
      BY <3>2 DEF LoseHandshake, SendFails, LoseResponse, TakeBack, client
    <3>3. CASE AcceptFails \/ destroy_enclave \/ register_enclave
      BY <3>3 DEF AcceptFails, destroy_enclave, register_enclave, client
    <3> QED BY <2>2, <3>1, <3>2, <3>3 DEF WorkerStep, WorkerLoop
  <2> QED BY <2>1, <2>2
<1>2. CASE ReceiveResponse
  <2>1. /\ reply[stream] # None /\ stream \in Conns
        /\ reply' = [reply EXCEPT ![stream] = None]
        /\ Settle \/ (response' = reply[stream] /\ reply[stream].kind # "failed")
        /\ reply \in [Conns -> Option(Response)]
    BY <1>2, StreamIsConn DEF ReceiveResponse, Readable, Linked, Busy, Known, Talks, Base, Talk, Messages
  <2>2. response' # None => response'.signer = key'[response'.task]
    BY <1>0, <2>1 DEF Settle, Keyed
  <2> QED BY <1>0, <1>1, <2>1, <2>2 DEF Keyed
<1>3. CASE ~ReceiveResponse
  <2>1. reply' = reply /\ response' \in {response, None}
    <3>1. CASE Accept \/ ReceiveIdentity \/ next_task \/ Send \/ StoreBlobs
      BY <3>1 DEF Accept, ReceiveIdentity, next_task, Send, StoreBlobs, Settle, wire, server
    <3>2. CASE LoseHandshake \/ SendFails \/ LoseResponse
      BY <3>2 DEF LoseHandshake, SendFails, LoseResponse, TakeBack
    <3>3. CASE AcceptFails \/ destroy_enclave \/ register_enclave \/ Submit
      BY <3>3 DEF AcceptFails, destroy_enclave, register_enclave, Submit, Settle, Die, wire
    <3> QED BY <1>3, <3>1, <3>2, <3>3 DEF WorkerStep, WorkerLoop
  <2> QED BY <1>0, <1>1, <2>1 DEF Keyed
<1> QED BY <1>2, <1>3

LEMMA KeyedStep ==
  ASSUME Known, Keyed, [Next]_vars
  PROVE  Keyed'
<1>1. CASE WorkerStep
  BY <1>1, KeyedWorker
<1>2. CASE RunTask
  BY <1>2, KeyedRun
<1>3. ASSUME NEW f \in Findings, NEW k \in Starts, CreateFinding(f, k) PROVE Keyed'
  BY <1>3, KeyedCreate
<1>4. ASSUME NEW f \in Findings, DestroyFinding(f) PROVE Keyed'
  <2>1. chain' = [chain EXCEPT ![f] = "destroyed"] /\ UNCHANGED <<key, reply, response>>
    BY <1>4 DEF DestroyFinding, wire, server
  <2> QED BY <2>1 DEF Keyed, Known, Ledger
<1>5. CASE get_public_key \/ \E f \in Findings : post_new_finding(f)
  BY <1>5 DEF get_public_key, post_new_finding, Keyed, wire, server, client
<1>6. CASE UNCHANGED vars
  BY <1>6 DEF vars, wire, server, client, Keyed
<1>7. CASE Connect \/ ReadTask \/ NoticeLoss \/ Restart \/ \E c \in Conns : Break(c)
  BY <1>7 DEF Connect, ReadTask, NoticeLoss, Restart, Break, Keyed, wire, server, client
<1> QED BY <1>1, <1>2, <1>3, <1>4, <1>5, <1>6, <1>7 DEF Next, Client, ConnectorStep, ConnectorLoop

\* An outcome is made by the start whose key the finder encrypted for (task.rs of
\* the connector), and the registration the worker then has on record is of that
\* start: last_used_enclave of worker.rs outlives connections, and is given up as
\* soon as another start is at the other end.  (The object the worker keeps of a
\* registration is another matter: it is not the Enclave, see SharedObject.)
THEOREM SignerTheorem == Spec => []EnclaveIsSigner
<1>1. Known /\ Keyed => EnclaveIsSigner
  BY DEF Known, Talks, Base, Link, Registered, Processed, Keyed, EnclaveIsSigner, Busy
<1>2. Init => Known /\ Keyed
  BY TalksInit, LedgerInit, KeyedInit DEF Known
<1>3. Known /\ Keyed /\ [Next]_vars => (Known /\ Keyed)'
  BY TalksStep, LedgerStep, KeyedStep DEF Known
<1> QED BY <1>1, <1>2, <1>3, PTL DEF Spec

-----------------------------------------------------------------------------
(* Nobody waits in vain *)

\* A connection that holds is the connector's, and the worker has it or will
\* accept it; when the worker awaits an answer on it, the task is on its way there,
\* at work, or on its way back.
Served ==
  /\ \A c \in alive : loc # "connect" /\ socket = c
  /\ \A c \in alive : c > Taken \/ c = stream
  /\ pc = "await" /\ stream \in alive =>
       request[stream] # None \/ reply[stream] # None \/ (loc = "running" /\ socket = stream)

LEMMA ServedInit == Init => Served
BY DEF Init, Served

LEMMA ServedSame ==
  ASSUME Served, UNCHANGED <<loc, socket, stream, request, reply>>, Taken' = Taken,
         alive' \subseteq alive, pc' = pc \/ pc' # "await"
  PROVE  Served'
BY DEF Served

\* No connection holds any more.
LEMMA ServedNone ==
  ASSUME alive' = {} PROVE Served'
BY DEF Served

LEMMA ServedWorker ==
  ASSUME Talks, Served, WorkerStep
  PROVE  Served'
<1>0. UNCHANGED <<loc, socket, conns>>
  BY WorkerFrame
<1>1. CASE Accept
  <2>1. /\ Taken' = Taken + 1 /\ stream' = Taken + 1 /\ Taken \in Nat /\ pc' = "handshake"
        /\ pc = "accept" /\ stream = None /\ alive' = alive /\ alive \subseteq Conns
    BY <1>1, WiredAccept DEF Accept, Goto, Talks, Base, Link, Streaming, Wired, Waiting
  <2>2. ASSUME NEW c \in alive PROVE c > Taken' \/ c = stream'
    <3>1. c \in Conns /\ c # None
      BY <2>1, WorkerAssumption DEF Conns
    <3> QED BY <2>1, <3>1 DEF Served, Conns
  <2> QED BY <1>0, <2>1, <2>2 DEF Served
<1>2. CASE LoseHandshake \/ SendFails \/ LoseResponse
  <2>1. /\ pc' = "accept" /\ alive' = alive \ {stream} /\ UNCHANGED <<pending, request, reply>>
    BY <1>2 DEF LoseHandshake, SendFails, LoseResponse, TakeBack, Reconnect, Goto
  <2> QED BY <1>0, <2>1 DEF Served, Taken
<1>3. CASE \E call \in Calls : Die(call)
  BY <1>3, ServedNone DEF Die
<1>4. CASE Send
  <2>1. /\ request' = [request EXCEPT ![stream] = IF stream \in alive THEN task ELSE None]
        /\ UNCHANGED <<stream, pending, alive, reply>> /\ pc = "send"
    BY <1>4 DEF Send, server
  <2>2. stream \in Conns /\ task # None /\ request \in [Conns -> Option(Task)]
    BY <2>1, StreamIsConn DEF Linked, Busy, Talks, Base, IInv, Holding, Talk, Messages
  <2> QED BY <1>0, <2>1, <2>2 DEF Served, Taken
<1>5. CASE ReceiveResponse
  <2>1. pc' # "await" /\ UNCHANGED <<stream, pending, alive>>
    BY <1>5 DEF ReceiveResponse, Settle, Goto
  <2> QED BY <1>0, <2>1 DEF Served, Taken
<1>6. CASE ReceiveIdentity \/ next_task \/ StoreBlobs
  <2>1. pc' # "await" /\ UNCHANGED <<stream, pending, alive, request, reply>>
    BY <1>6 DEF ReceiveIdentity, NextStep, next_task, StoreBlobs, Settle, Goto, wire
  <2> QED BY <1>0, <2>1, ServedSame DEF Taken
<1>7. CASE AcceptFails \/ destroy_enclave \/ register_enclave \/ Submit
  <2>1. CASE ~(\E call \in Calls : Die(call))
    <3>1. pc' # "await" /\ UNCHANGED <<stream, pending, alive, request, reply>>
      BY <1>7, <2>1 DEF AcceptFails, destroy_enclave, register_enclave, Submit, Settle, Goto, wire, Calls
    <3> QED BY <1>0, <3>1, ServedSame DEF Taken
  <2> QED BY <1>3, <2>1
<1> QED BY <1>1, <1>2, <1>4, <1>5, <1>6, <1>7 DEF WorkerStep, WorkerLoop

LEMMA ServedConnector ==
  ASSUME Talks, Served, ConnectorStep
  PROVE  Served'
<1>1. CASE Connect
  <2>1. /\ loc' = "ready" /\ socket' = Len(conns) + 1 /\ Taken' = Taken
        /\ alive' = alive \cup {socket'} /\ alive = {}
        /\ UNCHANGED <<pc, stream, request, reply>>
    BY <1>1, WiredConnect DEF Connect, Served, server, Talks, Base, Link
  <2>2. /\ Taken \in Nat /\ Len(conns) \in Nat /\ Taken <= Len(conns)
        /\ pc = "await" => stream \in 1 .. Taken
    BY DEF Talks, Base, Link, Streaming, Linked, Busy, Wired, Waiting, Taken
  <2> QED BY <2>1, <2>2 DEF Served
<1>2. CASE ReadTask
  <2>1. /\ loc = "ready" /\ loc' = "running" /\ request' = [request EXCEPT ![socket] = None]
        /\ UNCHANGED <<pc, stream, socket, conns, pending, alive, reply>>
    BY <1>2 DEF ReadTask, server
  <2> QED BY <2>1 DEF Served, Taken
<1>3. CASE NoticeLoss
  <2>1. socket \notin alive /\ alive' = alive
    BY <1>3 DEF NoticeLoss, wire
  <2> QED BY <2>1, ServedNone DEF Served
<1>4. CASE RunTask
  <2>0. UNCHANGED <<pc, stream, conns, pending, request>> /\ loc = "running"
    BY <1>4 DEF RunTask, server
  <2>1. CASE /\ socket \in alive /\ loc' = "ready" /\ UNCHANGED <<socket, alive>>
             /\ \E r \in ResultsOf(running) : reply' = [reply EXCEPT ![socket] = r]
    <3>1. PICK r \in ResultsOf(running) : reply' = [reply EXCEPT ![socket] = r]
      BY <2>1
    <3>2. r \in Response /\ None \notin Response
      BY NoneIsNoResponse DEF ResultsOf
    <3>3. socket \in Conns /\ reply \in [Conns -> Option(Response)]
      BY <2>1 DEF Talks, Base, Link, Wired, Talk, Messages
    <3> QED BY <2>0, <2>1, <3>1, <3>2, <3>3 DEF Served, Taken
  <2>2. CASE alive' = alive \ {socket}
    <3>1. alive' = {}
      BY <2>2 DEF Served
    <3> QED BY <3>1, ServedNone
  <2> QED BY <1>4, <2>1, <2>2 DEF RunTask
<1> QED BY <1>1, <1>2, <1>3, <1>4 DEF ConnectorStep, ConnectorLoop

LEMMA ServedStep ==
  ASSUME Talks, Served, [Next]_vars
  PROVE  Served'
<1>1. CASE Client \/ UNCHANGED vars
  BY <1>1, ClientFrame, ServedSame DEF vars, server, connector, wire, Taken
<1>2. CASE WorkerStep
  BY <1>2, ServedWorker
<1>3. CASE ConnectorStep
  BY <1>3, ServedConnector
<1>4. CASE \E c \in Conns : Break(c)
  BY <1>4, ServedSame DEF Break, server, connector, Taken
<1>5. CASE Restart
  <2>1. alive' = {}
    BY <1>5 DEF Restart, Served
  <2> QED BY <2>1, ServedNone
<1> QED BY <1>1, <1>2, <1>3, <1>4, <1>5 DEF Next

\* The worker and the connector of main.rs, neither of which has a timeout for its
\* peer, are never both waiting for the other, whenever a connection breaks or the
\* enclave restarts.
THEOREM WaitingTheorem == Spec => []NobodyWaitsInVain
<1>1. ASSUME Talks, Served PROVE NobodyWaitsInVain
  <2>0. /\ alive \subseteq Conns /\ Taken \in Nat /\ Len(conns) \in Nat /\ Len(pending) \in Nat
        /\ Taken = Len(conns) - Len(pending) /\ pending \in Seq(Conns)
        /\ \A i \in 1 .. Len(pending) : pending[i] = Taken + i
    BY <1>1 DEF Talks, Base, Link, Wired, Waiting, Taken
  <2>1. ASSUME loc = "ready", socket \in alive, socket # stream
        PROVE  \E i \in DOMAIN pending : pending[i] = socket
    <3>1. socket \in 1 .. Len(conns) /\ socket > Taken
      BY <1>1, <2>1 DEF Served, Talks, Base, Talk, Connected
    <3>2. socket - Taken \in 1 .. Len(pending)
      BY <2>0, <3>1
    <3>3. pending[socket - Taken] = socket /\ DOMAIN pending = 1 .. Len(pending)
      BY <2>0, <3>1, <3>2
    <3> QED BY <3>2, <3>3
  <2>2. ASSUME pc = "accept", pending = <<>>, loc = "ready" PROVE socket \notin alive
    <3>1. stream = None /\ DOMAIN pending = {}
      BY <1>1, <2>2 DEF Talks, Base, Link, Streaming
    <3>2. socket # None
      BY <1>1, <2>2, <2>0, WorkerAssumption DEF Talks, Base, Talk, Connected, Link, Wired
    <3> QED BY <2>1, <2>2, <3>1, <3>2
  <2>3. ASSUME pc = "await", stream \in alive, reply[stream] = None
        PROVE  socket = stream /\ (loc = "running" \/ (loc = "ready" /\ request[stream] # None))
    BY <1>1, <2>3 DEF Served, Talks, Base, Talk, Connected
  <2> QED BY <2>1, <2>2, <2>3 DEF NobodyWaitsInVain
<1>2. Init => Talks /\ Served
  BY TalksInit, ServedInit
<1>3. Talks /\ Served /\ [Next]_vars => (Talks /\ Served)'
  BY TalksStep, ServedStep
<1> QED BY <1>1, <1>2, <1>3, PTL DEF Spec
-----------------------------------------------------------------------------
(* Server and connector are the service of module Service *)

Queue == OneOrNone(task) \o OneOrNone(backlog) \o receiver

LEMMA QueueIsTasks ==
  ASSUME NEW t \in Option(Task), NEW b \in Option(Task), NEW r \in Seq(Task)
  PROVE  OneOrNone(t) \o OneOrNone(b) \o r = Tasks(<<>>, t, b, r)
<1>1. OneOrNone(t) \in Seq(Task) /\ OneOrNone(b) \in Seq(Task) /\ <<>> \in Seq(Task)
  BY OptionIsSeq
<1>2. <<>> \o OneOrNone(t) = OneOrNone(t)
  BY <1>1
<1> QED BY <1>2 DEF Tasks

LEMMA QueueIs ==
  ASSUME Known
  PROVE  /\ receiver \in Seq(Task) /\ backlog \in Option(Task) /\ task \in Option(Task)
         /\ Queue = Tasks(<<>>, task, backlog, receiver)
<1>1. receiver \in Seq(Task) /\ backlog \in Option(Task) /\ task \in Option(Task)
  BY DEF Known, Talks, Base, IInv, QueueTypes
<1> QED BY <1>1, QueueIsTasks DEF Queue

\* What a busy worker has is the task in hand and the channel.
LEMMA QueueBusy ==
  ASSUME Known, pc \in Busy
  PROVE  /\ Queue # <<>> /\ Head(Queue) = task /\ Tail(Queue) = receiver
         /\ task \in Findings /\ backlog = None
<1>1. task \in Task /\ backlog = None /\ receiver \in Seq(Task)
  BY DEF Known, Talks, Base, IInv, QueueTypes, Holding, Busy, Option
<1>2. OneOrNone(task) = <<task>> /\ OneOrNone(backlog) = <<>>
  BY <1>1, WorkerAssumption DEF OneOrNone, Task
<1>3. Queue = <<task>> \o receiver
  BY <1>1, <1>2 DEF Queue
<1> DEFINE r == receiver
           q == <<task>> \o r
<1>4. q \in Seq(Task) /\ Len(q) = 1 + Len(r) /\ Len(r) \in Nat /\ q[1] = task
      /\ \A i \in 1 .. Len(r) : q[i + 1] = r[i]
  BY <1>1
<1> HIDE DEF q
<1>5. q # <<>>
  BY <1>4
<1>6. Head(q) = task /\ Tail(q) \in Seq(Task) /\ Len(Tail(q)) = Len(r)
      /\ \A i \in 1 .. Len(Tail(q)) : Tail(q)[i] = q[i + 1]
  BY <1>4, <1>5, HeadTailProperties
<1>7. Tail(q) = r
  BY <1>1, <1>4, <1>6, SeqEqual
<1> QED BY <1>1, <1>3, <1>5, <1>6, <1>7 DEF q, Task

\* An outcome that is written, if any, is that of the task in hand.
WritesForTask == \/ UNCHANGED chain
                 \/ chain[task] = "Draft" /\ Outcome /\ pc = "submit"

LEMMA AnswerStep ==
  ASSUME Known, pc \in Busy, WritesForTask
  PROVE  Service!Answer
<1>1. CASE UNCHANGED chain
  BY <1>1 DEF Service!Answer
<1>2. CASE chain[task] = "Draft" /\ Outcome /\ pc = "submit"
  <2>1. PICK s \in {"Committed", "Error"} : chain' = [chain EXCEPT ![task] = s]
    BY <1>2, OutcomeIs DEF Known
  <2>2. Queue # <<>> /\ Head(Queue) = task
    BY QueueBusy
  <2> QED BY <1>2, <2>1, <2>2 DEF Service!Answer, Service!Outcomes, Queue
<1> QED BY <1>1, <1>2 DEF WritesForTask

LEMMA FinishStep ==
  ASSUME Known, pc \in Busy, Settle, UNCHANGED <<receiver, backlog>>, WritesForTask
  PROVE  Service!Finish
<1>1. Queue # <<>> /\ Tail(Queue) = receiver /\ backlog = None
  BY QueueBusy
<1>2. task' = None /\ (pc' # "dead") = (pc # "dead") /\ settled' = Append(settled, Head(Queue))
  BY QueueBusy DEF Settle, Goto, Busy
<1>3. Queue' = receiver
  <2>1. OneOrNone(task)' = <<>> /\ OneOrNone(backlog)' = <<>> /\ receiver' = receiver
    BY <1>1, <1>2 DEF OneOrNone
  <2>2. receiver \in Seq(Task)
    BY QueueIs
  <2> QED BY <2>1, <2>2 DEF Queue
<1>4. Service!Answer
  BY AnswerStep
<1> QED BY <1>1, <1>2, <1>3, <1>4 DEF Service!Finish, Queue

LEMMA StopStep ==
  ASSUME Known, NEW call, Die(call), pc # "dead", \/ UNCHANGED chain
                                                  \/ pc \in Busy /\ WritesForTask
  PROVE  Service!Stop
<1>1. pc' = "dead" /\ receiver' = <<>> /\ backlog' = None /\ task' = None /\ settled' = settled
  BY DEF Die, Goto
<1>2. Queue' = <<>>
  BY <1>1 DEF Queue, OneOrNone
<1>3. Service!Answer
  BY AnswerStep DEF Service!Answer
<1> QED BY <1>1, <1>2, <1>3 DEF Service!Stop, Queue

\* A step that only moves tasks between hand, backlog and channel.
LEMMA HiddenStep ==
  ASSUME Queue' = Queue, (pc' # "dead") = (pc # "dead"), UNCHANGED <<chain, settled>>
  PROVE  UNCHANGED Service!vars
BY DEF Service!vars, Queue

LEMMA SubmitStep ==
  ASSUME Known, NEW f \in Findings, post_new_finding(f)
  PROVE  Service!Submit(f)
<1>1. /\ pc # "dead" /\ chain[f] # "none" /\ Len(receiver) < Capacity /\ f \in Task
      /\ receiver' = Append(receiver, f) /\ UNCHANGED <<pc, backlog, task, chain, settled>>
  BY DEF post_new_finding, client, Task
<1>2. /\ receiver \in Seq(Task) /\ backlog \in Option(Task) /\ task \in Option(Task)
      /\ task = None \/ backlog = None
  BY <1>1, QueueIs DEF Known, Talks, Base, IInv, NoTaskLost
<1>3. Queue' = Append(Queue, f)
  <2>1. Queue' = OneOrNone(task) \o OneOrNone(backlog) \o Append(receiver, f)
    BY <1>1 DEF Queue, OneOrNone
  <2>2. Append(receiver, f) \in Seq(Task) /\ <<>> \in Seq(Task)
    BY <1>1, <1>2
  <2>3. Queue' = Tasks(<<>>, task, backlog, Append(receiver, f))
    BY <1>2, <2>1, <2>2, QueueIsTasks
  <2>4. Tasks(<<>>, task, backlog, Append(receiver, f))
          = Append(Tasks(<<>>, task, backlog, receiver), f)
    BY <1>1, <1>2, <2>2, PostTasks
  <2>5. Queue = Tasks(<<>>, task, backlog, receiver)
    BY QueueIs
  <2> QED BY <2>3, <2>4, <2>5
<1>4. Len(Queue) <= Capacity
  <2>1. OneOrNone(task) \in Seq(Task) /\ OneOrNone(backlog) \in Seq(Task)
    BY <1>2, OptionIsSeq
  <2>2. Len(OneOrNone(task)) + Len(OneOrNone(backlog)) <= 1
    BY <1>2, WorkerAssumption DEF OneOrNone
  <2>3. Len(Queue) = Len(OneOrNone(task)) + Len(OneOrNone(backlog)) + Len(receiver)
    BY <1>2, <2>1 DEF Queue
  <2> DEFINE a == Len(OneOrNone(task))
             b == Len(OneOrNone(backlog))
             n == Len(receiver)
  <2>4. a \in Nat /\ b \in Nat /\ n \in Nat /\ n < Capacity /\ Capacity \in Nat
        /\ a + b <= 1 /\ Len(Queue) = a + b + n
    BY <1>1, <1>2, <2>1, <2>2, <2>3, WorkerAssumption
  <2> HIDE DEF a, b, n
  <2> QED BY <2>4
<1> QED BY <1>1, <1>3, <1>4 DEF Service!Submit, Queue

LEMMA ServiceClient ==
  ASSUME Known, Client
  PROVE  [Service!Next]_Service!vars
<1>1. ASSUME NEW f \in Findings, post_new_finding(f) PROVE Service!Next
  BY <1>1, SubmitStep DEF Service!Next
<1>2. CASE ~\E f \in Findings : post_new_finding(f)
  <2>1. UNCHANGED <<pc, receiver, backlog, task, settled>>
    BY <1>2 DEF Client, get_public_key, CreateFinding, DestroyFinding, server, history
  <2>2. Queue' = Queue
    BY <2>1 DEF Queue, OneOrNone
  <2>3. CASE get_public_key
    BY <2>1, <2>2, <2>3, HiddenStep DEF get_public_key
  <2>4. ASSUME NEW f \in Findings, NEW k \in Starts, CreateFinding(f, k) PROVE Service!Make(f)
    BY <2>1, <2>2, <2>4 DEF CreateFinding, Service!Make, Queue
  <2>5. ASSUME NEW f \in Findings, DestroyFinding(f) PROVE Service!Destroy(f)
    BY <2>1, <2>2, <2>5 DEF DestroyFinding, Service!Destroy, Service!Outcomes, Queue
  <2> QED BY <1>2, <2>3, <2>4, <2>5 DEF Client, Service!Next
<1> QED BY <1>1, <1>2

LEMMA ServiceNextTask ==
  ASSUME Known, next_task
  PROVE  UNCHANGED Service!vars
<1>1. pc = "next_task" /\ pc' = "send" /\ UNCHANGED <<chain, settled>> /\ task = None /\ <<>> \in Seq(Task)
  BY DEF next_task, Goto, client, history, Known, Talks, Base, IInv, Holding, Idle
<1>2. CASE backlog # None /\ task' = backlog /\ backlog' = None /\ UNCHANGED receiver
  <2>1. Queue' = OneOrNone(backlog) \o OneOrNone(None) \o receiver
    BY <1>2 DEF Queue, OneOrNone
  <2>2. Queue' = Tasks(<<>>, backlog, None, receiver)
    BY <2>1, QueueIs, QueueIsTasks DEF Option
  <2> QED BY <1>1, <2>2, QueueIs, TakeBacklogTasks, HiddenStep
<1>3. CASE /\ backlog = None /\ receiver # <<>>
           /\ task' = Head(receiver) /\ receiver' = Tail(receiver) /\ UNCHANGED backlog
  <2>1. Head(receiver) \in Task /\ Tail(receiver) \in Seq(Task) /\ Head(receiver) \in Option(Task)
    BY <1>3, QueueIs, HeadAndTail DEF Option
  <2>2. Queue' = OneOrNone(Head(receiver)) \o OneOrNone(None) \o Tail(receiver)
    BY <1>3 DEF Queue, OneOrNone
  <2>3. Queue' = Tasks(<<>>, Head(receiver), None, Tail(receiver))
    BY <2>1, <2>2, QueueIs, QueueIsTasks DEF Option
  <2>4. Queue = Tasks(<<>>, None, None, receiver)
    BY <1>1, <1>3, QueueIs
  <2>5. Queue' = Queue
    BY <1>1, <1>3, <2>3, <2>4, QueueIs, TakeReceiverTasks
  <2> QED BY <1>1, <2>5, HiddenStep
<1> QED BY <1>2, <1>3 DEF next_task

LEMMA ServiceTakeBack ==
  ASSUME Known, pc \in Busy, TakeBack
  PROVE  UNCHANGED Service!vars
<1>1. pc' = "accept" /\ backlog' = task /\ task' = None /\ backlog = None
      /\ UNCHANGED <<receiver, chain, settled>> /\ <<>> \in Seq(Task)
  BY QueueBusy DEF TakeBack, Reconnect, Goto, client, history
<1>2. Queue' = OneOrNone(None) \o OneOrNone(task) \o receiver
  BY <1>1 DEF Queue, OneOrNone
<1>3. Queue' = Tasks(<<>>, None, task, receiver)
  BY <1>2, QueueIs, QueueIsTasks DEF Option
<1>4. Queue = Tasks(<<>>, task, None, receiver)
  BY <1>1, QueueIs
<1>5. Queue' = Queue
  BY <1>1, <1>3, <1>4, QueueIs, TakeBacklogTasks
<1> QED BY <1>1, <1>5, HiddenStep DEF Busy

LEMMA ServiceWorker ==
  ASSUME Known, WorkerStep
  PROVE  [Service!Next]_Service!vars
<1>1. CASE next_task
  BY <1>1, ServiceNextTask
<1>2. CASE SendFails \/ LoseResponse
  BY <1>2, ServiceTakeBack DEF SendFails, LoseResponse, Busy
<1>3. CASE Submit
  <2>1. pc \in Busy /\ pc = "submit" /\ pc # "dead"
    BY <1>3 DEF Submit, Busy
  <2>2. response.task = task
    BY <2>1 DEF Known, Talks, Processed
  <2>3. CASE Settle
    <3>1. WritesForTask /\ UNCHANGED <<receiver, backlog>>
      BY <1>3, <2>1, <2>2, <2>3 DEF Submit, WritesForTask, Executes, Die, Settle, Goto
    <3> QED BY <2>1, <2>3, <3>1, FinishStep DEF Service!Next
  <2>4. CASE ~Settle
    <3>1. Die("wallet") \/ Die("process_response")
      BY <1>3, <2>4 DEF Submit
    <3>2. WritesForTask
      BY <1>3, <2>1, <2>2 DEF Submit, WritesForTask, Executes
    <3> QED BY <2>1, <3>1, <3>2, StopStep DEF Service!Next
  <2> QED BY <2>3, <2>4
<1>4. CASE ReceiveResponse \/ StoreBlobs
  <2>1. pc \in Busy /\ UNCHANGED <<receiver, backlog, chain>>
    BY <1>4 DEF ReceiveResponse, StoreBlobs, Busy, client
  <2>2. CASE Settle
    BY <2>1, <2>2, FinishStep DEF WritesForTask, Service!Next
  <2>3. CASE ~Settle
    <3>1. pc' \in Busy /\ UNCHANGED <<task, settled>>
      BY <1>4, <2>3 DEF ReceiveResponse, StoreBlobs, Goto, Busy
    <3>2. Queue' = Queue
      BY <2>1, <3>1 DEF Queue, OneOrNone
    <3> QED BY <2>1, <3>1, <3>2, HiddenStep DEF Busy
  <2> QED BY <2>2, <2>3
<1>5. CASE AcceptFails \/ destroy_enclave \/ register_enclave
  <2>1. pc # "dead" /\ UNCHANGED chain
    BY <1>5 DEF AcceptFails, destroy_enclave, register_enclave, client
  <2>2. CASE \E call \in Calls : Die(call)
    BY <2>1, <2>2, StopStep DEF Service!Next
  <2>3. CASE ~\E call \in Calls : Die(call)
    <3>1. pc' # "dead" /\ UNCHANGED <<receiver, backlog, task, settled>>
      BY <1>5, <2>3 DEF AcceptFails, destroy_enclave, register_enclave, Goto, Calls, history
    <3>2. Queue' = Queue
      BY <3>1 DEF Queue, OneOrNone
    <3> QED BY <2>1, <3>1, <3>2, HiddenStep
  <2> QED BY <2>2, <2>3
<1>6. CASE Accept \/ ReceiveIdentity \/ LoseHandshake \/ Send
  <2>1. pc # "dead" /\ pc' # "dead" /\ UNCHANGED <<receiver, backlog, task, chain, settled>>
    BY <1>6 DEF Accept, ReceiveIdentity, LoseHandshake, Send, Reconnect, NextStep, Goto, client,
       server, history
  <2>2. Queue' = Queue
    BY <2>1 DEF Queue, OneOrNone
  <2> QED BY <2>1, <2>2, HiddenStep
<1> QED BY <1>1, <1>2, <1>3, <1>4, <1>5, <1>6 DEF WorkerStep, WorkerLoop

LEMMA ServiceStep ==
  ASSUME Known, [Next]_vars
  PROVE  [Service!Next]_Service!vars
<1>1. CASE Client
  BY <1>1, ServiceClient
<1>2. CASE WorkerStep
  BY <1>2, ServiceWorker
<1>3. CASE ~Client /\ ~WorkerStep
  <2>1. UNCHANGED <<pc, receiver, backlog, task, chain, settled>>
    BY <1>3 DEF Next, vars, ConnectorStep, ConnectorLoop, Connect, ReadTask, NoticeLoss, RunTask, Break, Restart,
       server, client, history
  <2>2. Queue' = Queue
    BY <2>1 DEF Queue, OneOrNone
  <2> QED BY <2>1, <2>2, HiddenStep
<1> QED BY <1>1, <1>2, <1>3

LEMMA ServiceInit == Init => Service!Init
<1> SUFFICES ASSUME Init PROVE Service!Init
  OBVIOUS
<1>1. Queue = <<>>
  BY DEF Init, Queue, OneOrNone
<1> QED BY <1>1 DEF Init, Service!Init, Queue

\* The HTTP handler, the worker loop and the connector together are the service
\* that answers submissions one by one: redelivery, reconnection and restarts of
\* the enclave are stutters of it, and every outcome on the chain is the one
\* outcome of the submission whose turn it was.
THEOREM ServiceTheorem == Spec => ImplementsService
<1>1. Init => Known
  BY TalksInit, LedgerInit DEF Known
<1>2. Known /\ [Next]_vars => Known'
  BY TalksStep, LedgerStep DEF Known
<1>3. Init => Service!Init
  BY ServiceInit
<1>4. Known /\ [Next]_vars => [Service!Next]_Service!vars
  BY ServiceStep
<1> QED BY <1>1, <1>2, <1>3, <1>4, PTL DEF Spec, ImplementsService, Service!Spec
=============================================================================
