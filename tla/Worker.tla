------------------------------- MODULE Worker -------------------------------
(***************************************************************************)
(* How a submission travels: the HTTP handler and the worker of            *)
(* rs/lancer-server, the connector of rs/lancer-enclave-connector at the   *)
(* other end of a stream, and the finding on the chain.  The worker sends  *)
(* one task at a time, takes it back into a backlog when the stream        *)
(* breaks, and writes the outcome to the chain.  An action is what happens *)
(* between two awaits; a panic ends the worker, while the HTTP side goes   *)
(* on.                                                                     *)
(*                                                                         *)
(* A start of the connector makes new keys, so its identity is the number  *)
(* of the start.  A connection is numbered; the peer that loses it learns  *)
(* so at its next read or write.  A message travels in one frame, which    *)
(* holds 8 MB; a longer one cannot be sent, and the sender gives up the    *)
(* connection.                                                             *)
(***************************************************************************)
EXTENDS Integers, Sequences, FiniteSets

CONSTANTS
  Findings,     \* object ids of findings
  Oversized,    \* those whose submission is longer than a frame may be
  EnclaveConfig,\* object id of the enclave configuration, shared on the chain
  None,         \* Option::None
  Capacity,     \* of the task channel
  MaxStarts,    \* bound: starts of the enclave
  MaxConns,     \* bound: connections made
  MaxPosts      \* bound: requests accepted by the handler

\* The calls the worker may die in.
Calls == {"accept", "destroy_enclave", "register_enclave", "process_response", "wallet"}

ASSUME WorkerAssumption ==
  /\ Oversized \subseteq Findings
  /\ Capacity \in Nat \ {0}
  /\ MaxStarts \in Nat \ {0}
  /\ MaxConns \in Nat
  /\ MaxPosts \in Nat
  /\ None \notin Findings
  /\ None \notin Calls
  /\ None \notin 1 .. MaxStarts
  /\ EnclaveConfig \notin 1 .. MaxStarts
  /\ None \notin 1 .. MaxConns

VARIABLES
  \* the server
  pc,                 \* where the worker is
  receiver,           \* the task channel
  backlog,            \* the task to send again
  task,               \* the task the worker is busy with
  response,           \* the response being processed
  identity,           \* what GET /public_key answers with
  last_used_enclave,  \* the object kept of a registration, and the identity registered
  stream,             \* the worker's connection
  \* the connector
  start,              \* number of the running start
  attested,           \* attested[i]: did start i get an attestation document?
  loc,                \* where the connector is
  socket,             \* its connection
  running,            \* the task it runs
  \* between them
  conns,              \* conns[c]: the start that made connection c
  pending,            \* connections the listener has not accepted
  alive,              \* connections that neither peer nor network has closed
  request,            \* request[c], reply[c]: message on its way on connection c
  reply,
  \* clients and the chain
  known,              \* public keys clients have fetched
  chain,              \* status of each finding
  key,                \* the key a submission is encrypted with; its hash fixes it
  \* history, read by properties only
  accepted,           \* tasks the handler put in the channel
  settled,            \* tasks the worker is done with
  death               \* the call the worker died in

server == <<receiver, backlog, task, response, identity, last_used_enclave, stream>>
connector == <<start, attested, loc, socket, running>>
wire == <<conns, pending, alive, request, reply>>
client == <<known, chain, key>>
history == <<accepted, settled, death>>
vars == <<pc, server, connector, wire, client, history>>

Starts == 1 .. MaxStarts
Conns == 1 .. MaxConns

Task == Findings
Statuses == {"none", "Draft", "Committed", "Error", "destroyed"}

\* What Task::run gives for a task: the encrypted report or error message with
\* the signature of the start that ran it, or an error text.
Response == [task : Task, kind : {"report", "error", "failed"}, signer : Starts]

ASSUME NoneIsNoResponse == None \notin Response

\* The Enclave object that the chain makes for a start is known by its number.
EnclaveInfo == [enclave_ref : Starts \cup {EnclaveConfig}, identity : Starts]

Locations == {"accept", "handshake", "destroy", "register", "next_task", "send", "await",
              "process", "submit", "dead"}

Init ==
  /\ pc = "accept"
  /\ receiver = <<>> /\ backlog = None /\ task = None /\ response = None
  /\ identity = None /\ last_used_enclave = None /\ stream = None
  /\ start = 1 /\ attested \in [Starts -> BOOLEAN]
  /\ loc = "connect" /\ socket = None /\ running = None
  /\ conns = <<>> /\ pending = <<>> /\ alive = {}
  /\ request = [c \in Conns |-> None] /\ reply = [c \in Conns |-> None]
  /\ known = {}
  /\ chain = [f \in Findings |-> "none"]
  /\ key = [f \in Findings |-> None]
  /\ accepted = <<>> /\ settled = <<>> /\ death = None

-----------------------------------------------------------------------------
(* Clients: the finder's transactions and requests *)

\* GET /public_key; clients keep the answer.
get_public_key ==
  /\ identity # None
  /\ known' = known \cup {identity}
  /\ UNCHANGED <<pc, server, connector, wire, chain, key, history>>

\* createFinding: the submission is encrypted for a key the client has, and the
\* finding is created with the hash of the encrypted submission.
CreateFinding(f, k) ==
  /\ chain[f] = "none"
  /\ k \in known
  /\ chain' = [chain EXCEPT ![f] = "Draft"]
  /\ key' = [key EXCEPT ![f] = k]
  /\ UNCHANGED <<pc, server, connector, wire, known, history>>

\* destroy_v1 by the owner.
DestroyFinding(f) ==
  /\ chain[f] \in {"Draft", "Committed", "Error"}
  /\ chain' = [chain EXCEPT ![f] = "destroyed"]
  /\ UNCHANGED <<pc, server, connector, wire, known, key, history>>

\* Variant: a channel without a limit.
post_unlimited(f) ==
  /\ chain[f] # "none"
  /\ pc # "dead"
  /\ Len(accepted) < MaxPosts
  /\ receiver' = Append(receiver, f)
  /\ accepted' = Append(accepted, f)
  /\ UNCHANGED <<pc, backlog, task, response, identity, last_used_enclave, stream,
                 connector, wire, client, settled, death>>

\* The handler compares the hash with the finding's, not its status, so the same
\* submission is accepted again at any time, and it may wait for room in the
\* channel while the finding it has read is destroyed.  When there is none for
\* 10 s, or the worker is dead, the request fails and changes nothing.
post_new_finding(f) ==
  /\ chain[f] # "none"
  /\ pc # "dead"
  /\ Len(receiver) < Capacity
  /\ Len(accepted) < MaxPosts
  /\ receiver' = Append(receiver, f)
  /\ accepted' = Append(accepted, f)
  /\ UNCHANGED <<pc, backlog, task, response, identity, last_used_enclave, stream,
                 connector, wire, client, settled, death>>

Client == \/ get_public_key
          \/ \E f \in Findings : \/ \E k \in Starts : CreateFinding(f, k)
                                 \/ DestroyFinding(f)
                                 \/ post_new_finding(f)

-----------------------------------------------------------------------------
(* The worker: connecting *)

Goto(l) == pc' = l

\* A panic, or an error out of worker(): the channel and all sockets are dropped.
\* The identity stays what it was.
Die(call) ==
  /\ Goto("dead")
  /\ death' = call
  /\ receiver' = <<>> /\ backlog' = None /\ task' = None /\ response' = None
  /\ stream' = None
  /\ alive' = {} /\ pending' = <<>>
  /\ UNCHANGED <<identity, last_used_enclave, connector, conns, request, reply, known, key,
                 accepted, settled>>

\* Variant: the identity of the lost connection is still served.
Reconnect_keeping_identity ==
  /\ Goto("accept")
  /\ alive' = alive \ {stream}
  /\ stream' = None
  /\ UNCHANGED identity

\* The stream goes out of scope at the end of the loop body, and the next round
\* starts with reset_identity.
Reconnect ==
  /\ Goto("accept")
  /\ alive' = alive \ {stream}
  /\ stream' = None
  /\ identity' = None

Accept ==
  /\ pc = "accept"
  /\ pending # <<>>
  /\ stream' = Head(pending)
  /\ pending' = Tail(pending)
  /\ Goto("handshake")
  /\ UNCHANGED <<receiver, backlog, task, response, identity, last_used_enclave, connector,
                 conns, alive, request, reply, client, history>>

AcceptFails == pc = "accept" /\ Die("accept") /\ UNCHANGED chain

\* Variant: the enclave that is registered already is used on.
NextStep_reusing(i) ==
  IF last_used_enclave # None THEN "next_task"
  ELSE IF attested[i] THEN "register" ELSE "next_task"

\* What follows the identity: nothing when it is the one registered last, else
\* the old enclave is to be destroyed and the new one registered if it is attested.
NextStep(i) ==
  IF last_used_enclave # None /\ last_used_enclave.identity = i THEN "next_task"
  ELSE IF last_used_enclave # None THEN "destroy"
  ELSE IF attested[i] THEN "register" ELSE "next_task"

\* The identity is the first message on every connection, and may still be read
\* when the connection is gone.
ReceiveIdentity ==
  /\ pc = "handshake"
  /\ identity' = conns[stream]
  /\ Goto(NextStep(conns[stream]))
  /\ UNCHANGED <<receiver, backlog, task, response, last_used_enclave, stream, connector, wire,
                 client, history>>

LoseHandshake ==
  /\ pc = "handshake"
  /\ stream \notin alive
  /\ Reconnect
  /\ UNCHANGED <<receiver, backlog, task, response, last_used_enclave, connector, conns, pending,
                 request, reply, client, history>>

\* An error before the transaction is sent is logged; a transaction that fails
\* panics in execute_transaction_must_succeed.
destroy_enclave ==
  /\ pc = "destroy"
  /\ \/ /\ last_used_enclave' = None
        /\ Goto(IF attested[identity] THEN "register" ELSE "next_task")
        /\ UNCHANGED <<receiver, backlog, task, response, identity, stream, connector, wire,
                       client, history>>
     \/ Die("destroy_enclave") /\ UNCHANGED chain

\* The first of the shared objects in the effects of the registration.  These are
\* the ones the transaction takes; the Enclave that it makes is not among them.
SharedObject == EnclaveConfig

\* The same; after an error the worker goes on without an enclave.
register_enclave ==
  /\ pc = "register"
  /\ \/ /\ last_used_enclave' \in
             {None, [enclave_ref |-> SharedObject, identity |-> identity]}
        /\ Goto("next_task")
        /\ UNCHANGED <<receiver, backlog, task, response, identity, stream, connector, wire,
                       client, history>>
     \/ Die("register_enclave") /\ UNCHANGED chain

-----------------------------------------------------------------------------
(* The worker: tasks *)

\* Variant: the backlog is not looked at again.
next_task_receiver_only ==
  /\ pc = "next_task"
  /\ receiver # <<>>
  /\ task' = Head(receiver)
  /\ receiver' = Tail(receiver)
  /\ Goto("send")
  /\ UNCHANGED <<backlog, response, identity, last_used_enclave, stream, connector, wire, client,
                 history>>

\* The channel never closes: the server that holds the sender outlives it.
next_task ==
  /\ pc = "next_task"
  /\ \/ /\ backlog # None
        /\ task' = backlog
        /\ backlog' = None
        /\ UNCHANGED receiver
     \/ /\ backlog = None
        /\ receiver # <<>>
        /\ task' = Head(receiver)
        /\ receiver' = Tail(receiver)
        /\ UNCHANGED backlog
  /\ Goto("send")
  /\ UNCHANGED <<response, identity, last_used_enclave, stream, connector, wire, client, history>>

\* Variant: the task whose connection broke is forgotten.
TakeBack_forgetting ==
  /\ UNCHANGED backlog
  /\ task' = None
  /\ Reconnect
  /\ UNCHANGED <<receiver, response, last_used_enclave, connector, conns, pending, request,
                 reply, client, history>>

TakeBack ==
  /\ backlog' = task
  /\ task' = None
  /\ Reconnect
  /\ UNCHANGED <<receiver, response, last_used_enclave, connector, conns, pending, request,
                 reply, client, history>>

\* Writing to a connection that is gone may succeed; the HTTP side accepts
\* submissions of 50 MB, but no frame is longer than 8 MB.
Send ==
  /\ pc = "send"
  /\ task \notin Oversized
  /\ request' = [request EXCEPT ![stream] = IF stream \in alive THEN task ELSE None]
  /\ Goto("await")
  /\ UNCHANGED <<server, connector, conns, pending, alive, reply, client, history>>

SendFails == pc = "send" /\ (stream \notin alive \/ task \in Oversized) /\ TakeBack

\* Variant: a response is taken from whichever connection it came on.
Readable_any == Conns

\* The connections whose messages the worker reads.
Readable == {stream}

Settle == /\ settled' = Append(settled, task)
          /\ task' = None
          /\ response' = None
          /\ Goto("next_task")

\* An error response ends the task: nothing is written to the chain.
ReceiveResponse ==
  /\ pc = "await"
  /\ \E c \in Readable :
       /\ reply[c] # None
       /\ reply' = [reply EXCEPT ![c] = None]
       /\ \/ reply[c].kind = "failed" /\ Settle
          \/ /\ reply[c].kind # "failed"
             /\ response' = reply[c]
             /\ Goto("process")
             /\ UNCHANGED <<task, settled>>
  /\ UNCHANGED <<receiver, backlog, identity, last_used_enclave, stream, connector, conns,
                 pending, alive, request, client, accepted, death>>

LoseResponse == pc = "await" /\ stream \notin alive /\ TakeBack

-----------------------------------------------------------------------------
(* The worker: process_response *)

\* The blobs are stored and the objects looked up; an error is logged, and the
\* task is over.
StoreBlobs ==
  /\ pc = "process"
  /\ \/ Goto("submit") /\ UNCHANGED <<task, response, settled>>
     \/ Settle
  /\ UNCHANGED <<receiver, backlog, identity, last_used_enclave, stream, connector, wire, client,
                 accepted, death>>

\* What the enclave signs: the id of the blob that holds the encrypted object.
SignedBlob(r) == [object |-> r.task]

\* What the server stores: the object together with that id.
StoredBlob(r) == [object |-> r.task, blob_id |-> SignedBlob(r)]

\* commit and report_error take an Enclave object, and the signature must be of the
\* start it was made for.  Blob ids are made from the content of the blob.
verify_signature(enclave, r) == enclave = r.signer /\ StoredBlob(r) = SignedBlob(r)

\* Will the chain execute commit or report_error, or its _for_testing form when
\* no enclave is registered?
Executes(r) ==
  /\ chain[r.task] = "Draft"
  /\ last_used_enclave # None => verify_signature(last_used_enclave.enclave_ref, r)

StatusFor == [report |-> "Committed", error |-> "Error"]

Outcome == chain' = [chain EXCEPT ![response.task] = StatusFor[response.kind]]

\* Variant: the task is kept in the backlog after its outcome was written.
Submit_keeping ==
  /\ pc = "submit"
  /\ \/ /\ Executes(response)
        /\ Outcome
        /\ backlog' = task /\ task' = None /\ response' = None
        /\ Goto("next_task")
        /\ UNCHANGED <<receiver, identity, last_used_enclave, stream, connector, wire, known, key,
                       history>>
     \/ ~Executes(response) /\ UNCHANGED chain /\ Die("process_response")

\* The transaction: a panic when it fails, and also when the wallet finds no gas
\* coin or the node does not answer, before or after the transaction took effect.
Submit ==
  /\ pc = "submit"
  /\ \/ /\ Executes(response)
        /\ Outcome
        /\ Settle
        /\ UNCHANGED <<receiver, backlog, identity, last_used_enclave, stream, connector, wire,
                       known, key, accepted, death>>
     \/ Executes(response) /\ (Outcome \/ UNCHANGED chain) /\ Die("wallet")
     \/ ~Executes(response) /\ UNCHANGED chain /\ Die("process_response")

WorkerLoop == \/ Accept \/ ReceiveIdentity \/ LoseHandshake
              \/ destroy_enclave \/ register_enclave
              \/ next_task \/ Send \/ SendFails \/ ReceiveResponse \/ LoseResponse
              \/ StoreBlobs \/ Submit

WorkerStep == WorkerLoop \/ AcceptFails

-----------------------------------------------------------------------------
(* The connector and the enclave it runs in *)

\* run(): connect and send the identity.
Connect ==
  /\ loc = "connect"
  /\ pc # "dead"
  /\ Len(conns) < MaxConns
  /\ conns' = Append(conns, start)
  /\ socket' = Len(conns')
  /\ pending' = Append(pending, socket')
  /\ alive' = alive \cup {socket'}
  /\ loc' = "ready"
  /\ UNCHANGED <<pc, server, start, attested, running, request, reply, client, history>>

ReadTask ==
  /\ loc = "ready"
  /\ request[socket] # None
  /\ running' = request[socket]
  /\ request' = [request EXCEPT ![socket] = None]
  /\ loc' = "running"
  /\ UNCHANGED <<pc, server, start, attested, socket, conns, pending, alive, reply, client,
                 history>>

NoticeLoss ==
  /\ loc = "ready"
  /\ socket \notin alive
  /\ loc' = "connect"
  /\ socket' = None
  /\ UNCHANGED <<pc, server, start, attested, running, wire, client, history>>

\* Task::run: a submission encrypted for another start's key cannot be opened;
\* otherwise the script decides what it gives.
ResultsOf(f) ==
  {r \in Response : /\ r.task = f
                    /\ r.signer = start
                    /\ r.kind # "failed" => key[f] = start}

\* Variant: a task that fails is not answered.
RunTask_silent ==
  /\ loc = "running"
  /\ running' = None
  /\ \/ /\ socket \in alive
        /\ \E r \in ResultsOf(running) :
             reply' = IF r.kind = "failed" THEN reply ELSE [reply EXCEPT ![socket] = r]
        /\ loc' = "ready"
        /\ UNCHANGED <<socket, alive>>
     \/ /\ socket \notin alive \/ key[running] = start
        /\ loc' = "connect"
        /\ socket' = None
        /\ alive' = alive \ {socket}
        /\ UNCHANGED reply
  /\ UNCHANGED <<pc, server, start, attested, conns, pending, request, client, history>>

\* The connection is not looked at while the task runs; sending the response
\* shows whether it is still there.  A response that the script made too long for
\* a frame cannot be sent, and run() gives up the connection.
RunTask ==
  /\ loc = "running"
  /\ running' = None
  /\ \/ /\ socket \in alive
        /\ \E r \in ResultsOf(running) : reply' = [reply EXCEPT ![socket] = r]
        /\ loc' = "ready"
        /\ UNCHANGED <<socket, alive>>
     \/ /\ socket \notin alive \/ key[running] = start
        /\ loc' = "connect"
        /\ socket' = None
        /\ alive' = alive \ {socket}
        /\ UNCHANGED reply
  /\ UNCHANGED <<pc, server, start, attested, conns, pending, request, client, history>>

ConnectorLoop == Connect \/ ReadTask \/ NoticeLoss

ConnectorStep == ConnectorLoop \/ RunTask

\* The network closes a connection.
Break(c) ==
  /\ c \in alive
  /\ Len(conns) < MaxConns
  /\ alive' = alive \ {c}
  /\ UNCHANGED <<pc, server, connector, conns, pending, request, reply, client, history>>

\* The enclave, or the connector after a panic, starts anew.
Restart ==
  /\ start < MaxStarts
  /\ Len(conns) < MaxConns
  /\ start' = start + 1
  /\ loc' = "connect"
  /\ alive' = alive \ {socket}
  /\ socket' = None
  /\ running' = None
  /\ UNCHANGED <<pc, server, attested, conns, pending, request, reply, client, history>>

-----------------------------------------------------------------------------

Next == \/ Client
        \/ WorkerStep
        \/ ConnectorStep
        \/ \E c \in Conns : Break(c)
        \/ Restart

Spec == Init /\ [][Next]_vars

\* The loops of worker and connector are run by their schedulers.  Nothing is asked
\* of clients, of the network, of the enclave's operator or of the listener, which
\* may fail but need not; and nothing of RunTask, since the script that a task
\* brings may run for ever.
FairSpec == Spec /\ WF_vars(WorkerLoop) /\ WF_vars(ConnectorLoop)

-----------------------------------------------------------------------------
(* Properties *)

Option(S) == S \cup {None}

TypeOK ==
  /\ pc \in Locations
  /\ receiver \in Seq(Task) /\ Len(receiver) <= Capacity
  /\ backlog \in Option(Task) /\ task \in Option(Task)
  /\ response \in Option(Response)
  /\ identity \in Option(Starts) /\ last_used_enclave \in Option(EnclaveInfo)
  /\ stream \in Option(Conns)
  /\ start \in Starts /\ attested \in [Starts -> BOOLEAN]
  /\ loc \in {"connect", "ready", "running"}
  /\ socket \in Option(Conns) /\ running \in Option(Task)
  /\ conns \in Seq(Starts) /\ Len(conns) <= MaxConns
  /\ pending \in Seq(Conns) /\ alive \subseteq Conns
  /\ request \in [Conns -> Option(Task)] /\ reply \in [Conns -> Option(Response)]
  /\ known \subseteq Starts
  /\ chain \in [Findings -> Statuses] /\ key \in [Findings -> Option(Starts)]
  /\ accepted \in Seq(Task) /\ settled \in Seq(Task)
  /\ death \in Option(Calls)

OneOrNone(t) == IF t = None THEN <<>> ELSE <<t>>

\* While the worker lives no accepted task is lost, doubled or overtaken, however
\* often the connection breaks or the enclave restarts under it: what the worker
\* is done with, what it has in hand or in the backlog, and what waits in the
\* channel are the accepted tasks in their order.
NoTaskLost ==
  pc # "dead" =>
    /\ accepted = settled \o OneOrNone(task) \o OneOrNone(backlog) \o receiver
    /\ task = None \/ backlog = None

\* A response is processed for the task it answers, also after connections with
\* requests and responses on their way were abandoned.
ResponseIsForTask == response # None => response.task = task

\* A response that is to be written was made by the start whose key its
\* submission was encrypted for, however old that key and however often the
\* enclave has restarted since; and the registration the worker has on record,
\* which it keeps over reconnections, is that start's.
EnclaveIsSigner ==
  response # None =>
    /\ response.signer = key[response.task]
    /\ last_used_enclave # None => last_used_enclave.identity = response.signer

\* Worker and connector never wait for each other: neither has a timeout for its
\* peer.  While the worker waits for a connection, one is waiting for it or the
\* connector is not content with the one it has; while it waits for an answer on
\* a connection that holds, the answer or the request is there or the task is
\* being run at the other end; and a connector that waits for a task does so on a
\* connection that the worker has or will accept.
NobodyWaitsInVain ==
  /\ pc = "accept" => pending # <<>> \/ loc # "ready" \/ socket \notin alive
  /\ pc = "await" /\ stream \in alive =>
       \/ reply[stream] # None
       \/ socket = stream /\ (loc = "running" \/ (loc = "ready" /\ request[stream] # None))
  /\ loc = "ready" /\ socket \in alive =>
       socket = stream \/ \E i \in DOMAIN pending : pending[i] = socket

\* The key handed out is that of the enclave the worker is connected to, and
\* none is handed out while it waits for one.
IdentityIsOfStream ==
  /\ pc \in {"accept", "handshake"} => identity = None
  /\ stream # None /\ pc # "handshake" => identity = conns[stream]

\* Redelivery never produces a second outcome: without a registered enclave the
\* worker dies of a rejected outcome only when the finder posted the same
\* submission twice or destroyed the finding.
RedeliveryIsHarmless ==
  death = "process_response" /\ last_used_enclave = None =>
    \/ \E i, j \in DOMAIN accepted : i # j /\ accepted[i] = accepted[j]
    \/ \E f \in Findings : chain[f] = "destroyed"

\* The worker's queue as those who submit see it: the task in hand, or taken
\* back, comes first.
Service == INSTANCE Service
  WITH up <- pc # "dead",
       queue <- OneOrNone(task) \o OneOrNone(backlog) \o receiver,
       done <- settled,
       outcome <- chain

\* Connections, restarts, redelivery and the registration of enclaves are not to
\* be seen from outside: server and connector together are a service that answers
\* submissions one by one in their order and writes each outcome for the
\* submission it is at, once.
ImplementsService == Service!Spec

\* Every accepted task is settled in the end, unless the worker dies: lost
\* connections and restarts only delay it.  That is, if the connector does not go
\* on for ever losing its connections -- as it does over a task or a response that
\* is too long for a frame -- and every script that is run comes to an end: else
\* the line stands still.
EveryTaskSettled ==
  <>[](loc # "connect") /\ []<>(loc # "running") =>
    \A n \in 1 .. MaxPosts : (Len(accepted) >= n) ~> (Len(settled) >= n \/ pc = "dead")

\* In test mode, a response that cannot be written fails its own task only, as
\* the message at src/rs/lancer-server/src/worker.rs:499 says.
FailedTaskIsContained == death = "process_response" => last_used_enclave # None

\* An outcome signed by the registered enclave can be written while the finding
\* waits for one, as src/README.md:26 promises.
AttestedOutcomeIsWritten ==
  pc = "submit" /\ last_used_enclave # None /\ chain[task] = "Draft" => Executes(response)
=============================================================================
