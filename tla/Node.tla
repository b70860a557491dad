-------------------------------- MODULE Node --------------------------------
(***************************************************************************)
(* A node and an arbitrary peer over a link that may break frames and may  *)
(* fail: the reactor with the record of what was exchanged since run().    *)
(* The link keeps order and neither loses nor repeats whole frames (UART,  *)
(* USB and WebSocket are byte streams).  The peer never takes a frame from *)
(* the link here, so that outbox is all the node has written.              *)
(***************************************************************************)
EXTENDS Reactor

CONSTANT MaxFrames  \* bound on the frames the peer sends in one connection

ASSUME NodeAssumption == MaxFrames \in Nat

VARIABLES
    posted,  \* history: the frames the peer has put on the link
    owed,    \* history: the commands and heartbeats the node has read
    served   \* history: who carried out or refused each of them

history == <<posted, owed, served>>

nodeVars == <<reactorVars, history>>

NodeTypeOK ==
    /\ RegistryTypeOK
    /\ phase \in Phase
    /\ reply \in FromNode \cup {NoFrame}
    /\ inbox \in Seq(ToNode)
    /\ outbox \in Seq(FromNode)
    /\ posted \in Seq(ToNode)
    /\ owed \in Seq(ToNode)
    /\ served \in Seq(0..UpdateHandler)

NodeInit ==
    /\ ReactorInit
    /\ posted = <<>>
    /\ owed = <<>>
    /\ served = <<>>

-----------------------------------------------------------------------------
Build(cap) == Register(cap) /\ UNCHANGED history

StartRun == Run /\ UNCHANGED history

Write == Send /\ UNCHANGED history

WriteFails == SendFails /\ UNCHANGED history

ReadCommand(id, success) ==
    /\ Serve(id, success)
    /\ owed' = Append(owed, Command(id))
    /\ served' = Append(served, Server(id))
    /\ UNCHANGED posted

CommandPanics(id) ==
    /\ Panics(id)
    /\ owed' = Append(owed, Command(id))
    /\ served' = Append(served, Server(id))
    /\ UNCHANGED posted

ReadHeartbeat ==
    /\ Echo
    /\ owed' = Append(owed, Heartbeat)
    /\ served' = Append(served, NoOne)
    /\ UNCHANGED posted

ReadUnexpected == Ignore /\ UNCHANGED history

ReadBroken == Reject /\ UNCHANGED history

LinkFails == ReadFails /\ UNCHANGED history

\* The peer sends whatever it likes, also before the node runs.
Post(frame) ==
    /\ phase \notin {"stopped", "panicked"}
    /\ Len(posted) < MaxFrames
    /\ posted' = Append(posted, frame)
    /\ inbox' = Append(inbox, frame)
    /\ UNCHANGED <<registryVars, phase, reply, outbox, owed, served>>

\* The loop of tpt-node-mock's main: a new connection with a new Node.  After a
\* panic it is the device, or the program, that is started again.
Reconnect ==
    /\ phase \in {"stopped", "panicked"}
    /\ entries' = <<>> /\ ota' = FALSE
    /\ phase' = "setup"
    /\ reply' = NoFrame
    /\ inbox' = <<>> /\ outbox' = <<>>
    /\ posted' = <<>> /\ owed' = <<>> /\ served' = <<>>

\* What the node does of its own accord once it runs.
NodeStep ==
    \/ Write
    \/ \E id \in CommandId, success \in BOOLEAN : ReadCommand(id, success)
    \/ \E id \in CommandId : CommandPanics(id)
    \/ ReadHeartbeat
    \/ ReadUnexpected
    \/ ReadBroken

NodeNext ==
    \/ \E cap \in Capabilities : Build(cap)
    \/ StartRun
    \/ NodeStep
    \/ WriteFails
    \/ LinkFails
    \/ \E frame \in ToNode : Post(frame)
    \/ Reconnect

NodeSpec == NodeInit /\ [][NodeNext]_nodeVars

\* The executor keeps polling the node's future and the transport's writes end,
\* so the loop goes on while it has something to write or to read.
FairNodeSpec == NodeSpec /\ WF_nodeVars(NodeStep)

-----------------------------------------------------------------------------
Request == {Heartbeat} \cup {Command(id) : id \in CommandId}

Requests(frames) == Selected(frames, Request)

\* A request is answered in kind: a heartbeat with a heartbeat, a command with
\* the acknowledgement of that command.
Answers(frame, request) ==
    IF request = Heartbeat THEN frame = Heartbeat
    ELSE frame.kind = "Ack" /\ frame.id = request.id

\* What the node has written and, last, what it is writing or failed to write.
Written == outbox \o (IF reply = NoFrame THEN <<>> ELSE <<reply>>)

\* A command that panicked has been read and is not answered.
Unanswered == IF phase = "panicked" THEN 1 ELSE 0

\* Once run() has begun the node speaks first, with its manifest, and then says
\* exactly one thing for every command and heartbeat it reads, in the order they
\* came, and nothing else: the peer can pair the k-th answer with its k-th
\* request although acknowledgements carry no sequence number.  Only the last
\* answer can be missing, and then its write has failed or its command has
\* panicked, and the node says nothing more.
RepliesInOrder ==
    phase # "setup" =>
        /\ Len(Written) + Unanswered = Len(owed) + 1
        /\ Written[1] = Handshake(Manifest)
        /\ \A i \in 1..(Len(owed) - Unanswered) : Answers(Written[i + 1], owed[i])
        /\ phase \in {"read", "panicked"} => reply = NoFrame

\* The loop drops no request on its way through frames it ignores or refuses:
\* what it has answered and what is still on the link are all the requests the
\* peer sent, in their order.
RequestsAreKept == Requests(posted) = owed \o Requests(inbox)

\* A command id has one server for as long as the node runs, so the START, CHUNK
\* and FINISH of an update reach the same handler; and a success is never
\* reported for a command nobody carried out.
OneServerPerId ==
    phase # "setup" =>
        /\ Len(served) = Len(owed)
        /\ \A i, j \in 1..Len(owed) : owed[i] = owed[j] => served[i] = served[j]
        /\ \A i \in 1..(Len(owed) - Unanswered) :
               Written[i + 1].kind = "Ack" /\ Written[i + 1].success => served[i] # NoOne

\* While "Ota" is advertised an id of the update range reaches the update handler
\* and no driver, and no other id does.
UpdatesReachTheHandler ==
    phase # "setup" /\ "Ota" \in {Manifest[k] : k \in 1..Len(Manifest)} =>
        \A i \in 1..Len(owed) :
            owed[i].kind = "Command" => (served[i] = UpdateHandler <=> owed[i].id \in OtaIds)

\* Commands keep their server, and updates have the one they need.
RoutingIsStable == OneServerPerId /\ UpdatesReachTheHandler

\* Every command and heartbeat that reaches a node which has called run() is
\* answered in the end, unless run() returns with an error or a command panics
\* first: no kind of frame ahead of it stalls the loop.
EveryRequestAnswered ==
    \A n \in 1..MaxFrames :
        phase # "setup" /\ Len(Requests(posted)) >= n
            ~> phase \in {"stopped", "panicked"} \/ Len(outbox) > n

=============================================================================
