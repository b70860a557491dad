---------------------------- MODULE ReactorProofs ---------------------------
(***************************************************************************)
(* The reactor for any registry and any drivers.  Facing any sequence of   *)
(* frames, a node answers each request once and in order, loses none and   *)
(* keeps the server of an id (Node).  Facing the base station, through any *)
(* number of resets, heartbeats do not multiply and the probe is refused   *)
(* at most once (Basestation).                                             *)
(***************************************************************************)
EXTENDS Node, Basestation, SequenceFacts, FiniteSetTheorems

-----------------------------------------------------------------------------
(* The registry                                                            *)

LEMMA EmptyRegistry ==
    /\ entries = <<>> /\ ota = FALSE => RegistryTypeOK
    /\ entries' = <<>> /\ ota' = FALSE => RegistryTypeOK'
<1>1. <<>> \in Seq(Capabilities) /\ Len(<<>>) = 0
  OBVIOUS
<1>2. 0 <= MaxCapabilities
  BY RegistryAssumption
<1>. QED
  BY <1>1, <1>2 DEF RegistryTypeOK

LEMMA RegistryStays ==
    ASSUME RegistryTypeOK, UNCHANGED registryVars
    PROVE  RegistryTypeOK'
  BY DEF RegistryTypeOK, registryVars

\* What is registered beyond the capacity is not.
LEMMA RegistryGrows ==
    ASSUME RegistryTypeOK, NEW cap \in Capabilities, RegisterCapability(cap)
    PROVE  RegistryTypeOK'
<1>1. Len(entries) \in Nat /\ MaxCapabilities \in Nat
  BY LenProperties, RegistryAssumption DEF RegistryTypeOK
<1>2. CASE entries' = entries
  BY <1>2 DEF RegistryTypeOK, RegisterCapability
<1>3. CASE Len(entries) < MaxCapabilities /\ entries' = Append(entries, cap)
  BY <1>1, <1>3, AppendProperties DEF RegistryTypeOK, RegisterCapability
<1>. QED
  BY <1>2, <1>3 DEF RegisterCapability

\* The registry advertises what the wire can express of its entries.
LEMMA ManifestOfEntries ==
    ASSUME RegistryTypeOK
    PROVE  /\ Manifest \in Manifests
           /\ \A k \in 1..Len(Manifest) : Manifest[k] = "Ota" =>
                  \E i \in 1..Len(entries) : entries[i] = "Ota"
<1> DEFINE wired == Selected(entries, Advertised)
           Entry == {entries[i] : i \in 1..Len(entries)}
<1>1. entries \in Seq(Capabilities) /\ Len(entries) \in Nat /\ Len(entries) <= MaxCapabilities
  BY LenProperties DEF RegistryTypeOK
<1>2. entries \in Seq(Entry) /\ Entry \subseteq Capabilities
  <2>1. \A i \in 1..Len(entries) : entries[i] \in Entry /\ entries[i] \in Capabilities
    BY <1>1, ElementOfSeq
  <2>2. entries \in [1..Len(entries) -> Entry]
    BY <1>1, <2>1, LenProperties
  <2>3. entries \in Seq(Entry)
    BY <1>1, <2>2, SeqDef
  <2>. QED
    BY <2>1, <2>3
<1> HIDE DEF Entry
<1>3. wired \in Seq(Entry \cap Advertised) /\ Len(wired) <= Len(entries)
  BY <1>2, SelectedType
<1> HIDE DEF wired
<1>4. Len(wired) \in Nat
  BY <1>3, LenProperties
<1>5. \A k \in 1..Len(wired) : wired[k] \in Entry /\ wired[k] \in Capabilities
  BY <1>2, <1>3, ElementOfSeq
<1>6. Manifest = [k \in 1..Len(wired) |-> ToWire(wired[k])]
  BY DEF Manifest, wired
<1>7. Manifest \in [1..Len(wired) -> Wire] /\ Len(Manifest) = Len(wired)
  <2>1. \A k \in 1..Len(wired) : ToWire(wired[k]) \in Wire
    BY <1>5 DEF Wire
  <2>. QED
    BY <1>4, <1>6, <2>1
<1>8. Manifest \in Manifests
  <2>1. Len(wired) \in 0..MaxCapabilities
    BY <1>1, <1>3, <1>4, RegistryAssumption
  <2>. QED
    BY <1>7, <2>1 DEF Manifests
<1>9. ASSUME NEW k \in 1..Len(Manifest), Manifest[k] = "Ota"
      PROVE  \E i \in 1..Len(entries) : entries[i] = "Ota"
  <2>1. ToWire(wired[k]) = "Ota" /\ wired[k] \in Entry
    BY <1>5, <1>6, <1>7, <1>9
  <2>2. wired[k] = "Ota"
    <3>1. \A cap : ToWire(cap) = "Ota" => cap = "Ota"
      BY DEF ToWire, NoWire
    <3>. QED
      BY <2>1, <3>1
  <2>. QED
    BY <2>1, <2>2 DEF Entry
<1>. QED
  BY <1>8, <1>9

\* Who serves an id is nobody, a driver of the registry or the update handler.
LEMMA ServerIsOneOf ==
    ASSUME RegistryTypeOK, NEW id \in CommandId
    PROVE  /\ Server(id) \in 0..UpdateHandler
           /\ ota => (Server(id) = UpdateHandler <=> id \in OtaIds)
<1>1. Len(entries) \in Nat /\ Len(entries) <= MaxCapabilities /\ MaxCapabilities \in Nat
  BY LenProperties, RegistryAssumption DEF RegistryTypeOK
<1>2. CASE ota /\ id \in OtaIds
  <2>1. Server(id) = UpdateHandler
    BY <1>2 DEF Server
  <2>. QED
    BY <1>1, <1>2, <2>1 DEF UpdateHandler
<1>3. CASE ~(ota /\ id \in OtaIds) /\ Claimants(id) # {}
  <2>1. Claimants(id) \subseteq 1..Len(entries) /\ Claimants(id) \subseteq Nat
    BY <1>1 DEF Claimants
  <2>2. \E i \in Claimants(id) : \A j \in Claimants(id) : i <= j
    BY <1>3, <2>1, Least
  <2>3. Server(id) = CHOOSE i \in Claimants(id) : \A j \in Claimants(id) : i <= j
    BY <1>3 DEF Server
  <2>4. Server(id) \in Claimants(id)
    BY <2>2, <2>3
  <2>5. Server(id) \in 1..Len(entries)
    BY <2>1, <2>4
  <2>6. Server(id) \in 0..UpdateHandler /\ Server(id) # UpdateHandler
    BY <1>1, <2>5 DEF UpdateHandler
  <2>. QED
    BY <1>3, <2>6
<1>4. CASE ~(ota /\ id \in OtaIds) /\ Claimants(id) = {}
  <2>1. Server(id) = 0
    BY <1>4 DEF Server, NoOne
  <2>. QED
    BY <1>1, <1>4, <2>1 DEF UpdateHandler
<1>. QED
  BY <1>2, <1>3, <1>4

-----------------------------------------------------------------------------
(* A node and any peer                                                    *)

\* What a running node writes: the manifest of its registry, then answers.
Answer == {Heartbeat} \cup {Ack(id, success) : id \in CommandId, success \in BOOLEAN}

Spoken == Answer \cup {Handshake(Manifest)}

Servers == {NoOne} \cup {Server(id) : id \in CommandId}

\* Kept apart from the registry, which is fixed once run() has begun.
Exchange ==
    /\ RegistryTypeOK
    /\ inbox \in Seq(ToNode)
    /\ owed \in Seq(Request)
    /\ Len(served) = Len(owed)
    /\ served \in Seq(Servers)
    /\ phase \in Phase
    /\ phase = "setup" =>
        outbox = <<>> /\ owed = <<>> /\ served = <<>> /\ reply = NoFrame
    /\ phase # "setup" => outbox \in Seq(Spoken) /\ reply \in Spoken \cup {NoFrame}
    /\ phase = "write" => reply # NoFrame

ReportsSuccess(frame) == frame.kind = "Ack" /\ frame.success

\* The server an id has in the registry is the one that served it, and a success
\* was reported only where there is one.
ServedByServer ==
    \A i \in 1..Len(owed) :
        /\ owed[i] = Heartbeat => served[i] = NoOne
        /\ \A id \in CommandId : owed[i] = Command(id) =>
               /\ served[i] = Server(id)
               /\ ReportsSuccess(Written[i + 1]) => Server(id) # NoOne

NodeInv == Exchange /\ RepliesInOrder /\ ServedByServer

-----------------------------------------------------------------------------
\* The kinds of frames are told apart.
LEMMA Kinds ==
    /\ NoFrame \notin Spoken
    /\ Heartbeat.kind = "Heartbeat"
    /\ \A id \in CommandId :
           Command(id) # Heartbeat /\ Command(id).kind = "Command" /\ Command(id).id = id
    /\ \A id \in CommandId, success \in BOOLEAN :
           /\ Ack(id, success).kind = "Ack" /\ Ack(id, success).id = id
           /\ Ack(id, success).success = success
<1>1. NoFrame.kind = "none" /\ Heartbeat.kind = "Heartbeat"
  BY DEF NoFrame, Heartbeat
<1>2. \A id \in CommandId : Command(id).kind = "Command" /\ Command(id).id = id
  BY DEF Command
<1>3. \A id \in CommandId, success \in BOOLEAN :
          /\ Ack(id, success).kind = "Ack" /\ Ack(id, success).id = id
          /\ Ack(id, success).success = success
  BY DEF Ack
<1>4. Handshake(Manifest).kind = "Handshake"
  BY DEF Handshake
<1>. QED
  BY <1>1, <1>2, <1>3, <1>4 DEF Spoken, Answer

\* The registry decides who serves an id: where it stays, they stay.
LEMMA ServersStay ==
    ASSUME UNCHANGED registryVars
    PROVE  /\ Manifest' = Manifest
           /\ \A id \in CommandId : Server(id)' = Server(id)
           /\ Servers' = Servers
<1>1. Manifest' = Manifest
  BY DEF registryVars, Manifest
<1>2. \A id \in CommandId : Server(id)' = Server(id)
  BY DEF registryVars, Server, Claimants
<1>3. Servers' = Servers
  BY <1>2 DEF Servers, NoOne
<1>. QED
  BY <1>1, <1>2, <1>3

LEMMA InitNodeInv == NodeInit => NodeInv
<1> SUFFICES ASSUME NodeInit PROVE NodeInv
  OBVIOUS
<1>1. RegistryTypeOK
  <2>1. entries = <<>> /\ ota = FALSE
    BY DEF NodeInit, ReactorInit, RegistryInit
  <2>2. 0 <= MaxCapabilities
    BY RegistryAssumption
  <2>3. entries \in Seq(Capabilities) /\ Len(entries) = 0
    BY <2>1
  <2>4. ota \in BOOLEAN
    BY <2>1
  <2>. QED
    BY <2>2, <2>3, <2>4 DEF RegistryTypeOK
<1>3. Exchange
  BY <1>1, EmptySeq DEF NodeInit, ReactorInit, Exchange, Phase
<1>2. RepliesInOrder /\ ServedByServer
  BY DEF NodeInit, ReactorInit, RepliesInOrder, ServedByServer
<1>. QED
  BY <1>2, <1>3 DEF NodeInv

\* A sequence of frames with one more behind it.
LEMMA OneMore ==
    ASSUME NEW S, NEW frames \in Seq(S), NEW frame \in S
    PROVE  /\ Append(frames, frame) \in Seq(S)
           /\ frames \o <<frame>> = Append(frames, frame)
           /\ frames \o <<>> = frames
           /\ Len(Append(frames, frame)) = Len(frames) + 1
           /\ Append(frames, frame)[Len(frames) + 1] = frame
           /\ \A i \in 1..Len(frames) : Append(frames, frame)[i] = frames[i]
  BY AppendProperties, AppendIsConcat, ConcatEmptySeq

\* The node waits: it reads a request and has the answer to it.
LEMMA RequestTaken ==
    ASSUME NodeInv, UNCHANGED registryVars, UNCHANGED outbox,
           phase = "read", phase' = "write", inbox' \in Seq(ToNode),
           NEW request \in Request, owed' = Append(owed, request),
           NEW frame \in Answer, reply' = frame, Answers(frame, request),
           NEW server \in Servers, served' = Append(served, server),
           request = Heartbeat => server = NoOne,
           \A id \in CommandId : request = Command(id) =>
               server = Server(id) /\ (ReportsSuccess(frame) => Server(id) # NoOne)
    PROVE  NodeInv'
<1> USE DEF Unanswered
<1>1. /\ Manifest' = Manifest /\ Servers' = Servers
      /\ \A id \in CommandId : Server(id)' = Server(id)
  BY ServersStay
<1>2. Spoken' = Spoken /\ frame \in Spoken /\ frame # NoFrame
  BY <1>1, Kinds DEF Spoken
<1>3. /\ outbox \in Seq(Spoken) /\ owed \in Seq(Request) /\ served \in Seq(Servers)
      /\ Len(served) = Len(owed) /\ Len(owed) \in Nat
      /\ reply = NoFrame
  BY LenProperties DEF NodeInv, Exchange, RepliesInOrder
<1>4. Written = outbox /\ Written' = Append(outbox, frame)
  BY <1>2, <1>3, OneMore DEF Written
<1>5. /\ Len(Written) = Len(owed) + 1
      /\ \A i \in 1..Len(owed) : Answers(Written[i + 1], owed[i])
  BY DEF NodeInv, RepliesInOrder
<1>6. /\ Len(Written') = Len(owed') + 1 /\ Len(owed') = Len(owed) + 1
      /\ Written'[Len(owed) + 2] = frame
      /\ \A i \in 1..(Len(owed) + 1) : Written'[i] = Written[i]
  BY <1>2, <1>3, <1>4, <1>5, OneMore
<1>7. /\ owed' \in Seq(Request) /\ owed'[Len(owed) + 1] = request
      /\ \A i \in 1..Len(owed) : owed'[i] = owed[i]
  BY <1>3, OneMore
<1>8. /\ served' \in Seq(Servers) /\ Len(served') = Len(owed')
      /\ served'[Len(owed) + 1] = server
      /\ \A i \in 1..Len(owed) : served'[i] = served[i]
  BY <1>3, <1>6, OneMore
<1>9. Exchange'
  BY <1>1, <1>2, <1>3, <1>7, <1>8, RegistryStays DEF NodeInv, Exchange, Phase
<1>10. RepliesInOrder'
  <2>1. Written'[1] = Handshake(Manifest)
    <3>1. Written[1] = Handshake(Manifest)
      BY DEF NodeInv, RepliesInOrder
    <3>2. 1 \in 1..(Len(owed) + 1)
      BY <1>3
    <3>. QED
      BY <1>6, <3>1, <3>2
  <2>2. ASSUME NEW i \in 1..Len(owed') PROVE Answers(Written'[i + 1], owed'[i])
    <3>1. CASE i \in 1..Len(owed)
      <4>1. i + 1 \in 1..(Len(owed) + 1)
        BY <1>3, <3>1
      <4>. QED
        BY <1>5, <1>6, <1>7, <3>1, <4>1
    <3>2. CASE i = Len(owed) + 1
      BY <1>3, <1>6, <1>7, <3>2
    <3>. QED
      BY <1>3, <1>6, <3>1, <3>2
  <2>. QED
    BY <1>1, <1>6, <2>1, <2>2 DEF RepliesInOrder
<1>11. ServedByServer'
  <2>1. ASSUME NEW i \in 1..Len(owed'), owed'[i] = Heartbeat PROVE served'[i] = NoOne
    BY <1>3, <1>6, <1>7, <1>8, <2>1 DEF NodeInv, ServedByServer
  <2>2. ASSUME NEW i \in 1..Len(owed'), NEW id \in CommandId, owed'[i] = Command(id)
        PROVE  served'[i] = Server(id) /\ (ReportsSuccess(Written'[i + 1]) => Server(id) # NoOne)
    <3>1. CASE i \in 1..Len(owed)
      <4>1. i + 1 \in 1..(Len(owed) + 1)
        BY <1>3, <3>1
      <4>2. owed[i] = Command(id) /\ served'[i] = served[i] /\ Written'[i + 1] = Written[i + 1]
        BY <1>6, <1>7, <1>8, <2>2, <3>1, <4>1
      <4>3. served[i] = Server(id) /\ (ReportsSuccess(Written[i + 1]) => Server(id) # NoOne)
        BY <3>1, <4>2 DEF NodeInv, ServedByServer
      <4>. QED
        BY <4>2, <4>3
    <3>2. CASE i = Len(owed) + 1
      <4>1. Written'[i + 1] = frame /\ request = Command(id)
        BY <1>3, <1>6, <1>7, <2>2, <3>2
      <4>. QED
        BY <1>8, <3>2, <4>1
    <3>. QED
      BY <1>3, <1>6, <2>2, <3>1, <3>2
  <2>3. ASSUME NEW i \in 1..Len(owed'), NEW id \in CommandId, owed'[i] = Command(id)
        PROVE  /\ served'[i] = Server(id)'
               /\ ReportsSuccess(Written'[i + 1]) => Server(id)' # NoOne
    BY <1>1, <2>2, <2>3
  <2>. QED
    BY <2>1, <2>3 DEF ServedByServer, NoOne, Heartbeat, Command, ReportsSuccess
<1>. QED
  BY <1>9, <1>10, <1>11 DEF NodeInv

\* The node reads a command that panics: what it has written stays, and the last
\* thing it owes will not follow.
LEMMA CommandLost ==
    ASSUME NodeInv, NEW id \in CommandId, CommandPanics(id)
    PROVE  NodeInv'
<1> USE DEF reactorVars
<1>1. /\ phase = "read" /\ phase' = "panicked" /\ inbox # <<>> /\ inbox' = Tail(inbox)
      /\ UNCHANGED <<registryVars, reply, outbox>>
      /\ owed' = Append(owed, Command(id)) /\ served' = Append(served, Server(id))
  BY DEF CommandPanics, Panics, Reads
<1>2. /\ Manifest' = Manifest /\ Servers' = Servers /\ Spoken' = Spoken
      /\ \A other \in CommandId : Server(other)' = Server(other)
  BY <1>1, ServersStay DEF Spoken
<1>3. /\ RegistryTypeOK /\ inbox \in Seq(ToNode) /\ outbox \in Seq(Spoken) /\ reply = NoFrame
      /\ owed \in Seq(Request) /\ served \in Seq(Servers)
      /\ Len(served) = Len(owed) /\ Len(owed) \in Nat
  BY <1>1, LenProperties DEF NodeInv, Exchange, RepliesInOrder
<1>4. Written' = Written /\ Len(Written) = Len(owed) + 1
  BY <1>1 DEF Written, NodeInv, RepliesInOrder, Unanswered
<1>5. /\ owed' \in Seq(Request) /\ Len(owed') = Len(owed) + 1 /\ owed'[Len(owed) + 1] = Command(id)
      /\ \A i \in 1..Len(owed) : owed'[i] = owed[i]
  <2>1. Command(id) \in Request
    BY DEF Request
  <2>. QED
    BY <1>1, <1>3, <2>1, OneMore
<1>6. /\ served' \in Seq(Servers) /\ Len(served') = Len(owed')
      /\ served'[Len(owed) + 1] = Server(id)
      /\ \A i \in 1..Len(owed) : served'[i] = served[i]
  <2>1. Server(id) \in Servers
    BY DEF Servers
  <2>. QED
    BY <1>1, <1>3, <1>5, <2>1, OneMore
<1>7. Exchange'
  <2>1. inbox' \in Seq(ToNode) /\ RegistryTypeOK'
    BY <1>1, <1>3, HeadTailProperties, RegistryStays
  <2>. QED
    BY <1>1, <1>2, <1>3, <1>5, <1>6, <2>1 DEF Exchange, Phase
<1>8. RepliesInOrder'
  <2>1. Unanswered' = 1 /\ Unanswered = 0
    BY <1>1 DEF Unanswered
  <2>2. /\ Written[1] = Handshake(Manifest)
        /\ \A i \in 1..Len(owed) : Answers(Written[i + 1], owed[i])
    BY <1>1, <1>3, <2>1 DEF NodeInv, RepliesInOrder
  <2>3. \A i \in 1..(Len(owed') - 1) : Answers(Written'[i + 1], owed'[i])
    BY <1>3, <1>4, <1>5, <2>2
  <2>. QED
    BY <1>1, <1>2, <1>3, <1>4, <1>5, <2>1, <2>2, <2>3 DEF RepliesInOrder, NoFrame
<1>9. ServedByServer'
  <2>1. Server(id) # NoOne
    <3>1. MayPanic(Server(id))
      BY DEF CommandPanics, Panics
    <3>. QED
      BY <3>1, RegistryAssumption DEF MayPanic, UpdateHandler, NoOne
  <2>2. ASSUME NEW i \in 1..Len(owed'), owed'[i] = Heartbeat PROVE served'[i] = NoOne
    <3>1. CASE i \in 1..Len(owed)
      BY <1>5, <1>6, <2>2, <3>1 DEF NodeInv, ServedByServer
    <3>2. CASE i = Len(owed) + 1
      BY <1>5, <2>2, <3>2, Kinds
    <3>. QED
      BY <1>3, <1>5, <3>1, <3>2
  <2>3. ASSUME NEW i \in 1..Len(owed'), NEW other \in CommandId, owed'[i] = Command(other)
        PROVE  /\ served'[i] = Server(other)
               /\ ReportsSuccess(Written[i + 1]) => Server(other) # NoOne
    <3>1. CASE i \in 1..Len(owed)
      BY <1>5, <1>6, <2>3, <3>1 DEF NodeInv, ServedByServer
    <3>2. CASE i = Len(owed) + 1
      <4>1. other = id
        BY <1>5, <2>3, <3>2, Kinds
      <4>. QED
        BY <1>6, <2>1, <3>2, <4>1
    <3>. QED
      BY <1>3, <1>5, <3>1, <3>2
  <2>4. ASSUME NEW i \in 1..Len(owed'), NEW other \in CommandId, owed'[i] = Command(other)
        PROVE  /\ served'[i] = Server(other)'
               /\ ReportsSuccess(Written'[i + 1]) => Server(other)' # NoOne
    BY <1>2, <1>4, <2>3, <2>4
  <2>. QED
    BY <2>2, <2>4 DEF ServedByServer, NoOne, Heartbeat, Command, ReportsSuccess
<1>. QED
  BY <1>7, <1>8, <1>9 DEF NodeInv

\* A step that answers nothing and leaves what has been written.
LEMMA NothingNew ==
    ASSUME NodeInv, UNCHANGED registryVars, UNCHANGED <<owed, served>>,
           inbox' \in Seq(ToNode), Written' = Written,
           phase' \in Phase, phase = "setup" <=> phase' = "setup",
           phase = "panicked" <=> phase' = "panicked",
           phase' # "setup" => outbox' \in Seq(Spoken) /\ reply' \in Spoken \cup {NoFrame},
           phase' = "setup" => outbox' = <<>> /\ reply' = NoFrame,
           phase' = "write" => reply' # NoFrame,
           phase' \in {"read", "panicked"} => reply' = NoFrame
    PROVE  NodeInv'
<1>1. /\ Manifest' = Manifest /\ Servers' = Servers
      /\ \A id \in CommandId : Server(id)' = Server(id)
  BY ServersStay
<1>2. Spoken' = Spoken
  BY <1>1 DEF Spoken
<1>3. Exchange'
  BY <1>1, <1>2, RegistryStays DEF NodeInv, Exchange
<1>4. RepliesInOrder'
  BY <1>1 DEF NodeInv, RepliesInOrder, Unanswered
<1>5. ServedByServer'
  BY <1>1 DEF NodeInv, ServedByServer, NoOne, Heartbeat, Command, ReportsSuccess
<1>. QED
  BY <1>3, <1>4, <1>5 DEF NodeInv

LEMMA NextNodeInv == NodeInv /\ [NodeNext]_nodeVars => NodeInv'
<1> SUFFICES ASSUME NodeInv, [NodeNext]_nodeVars PROVE NodeInv'
  OBVIOUS
<1> USE DEF history, reactorVars
<1>1. ASSUME NEW cap \in Capabilities, Build(cap) PROVE NodeInv'
  <2>1. phase = "setup" /\ UNCHANGED <<phase, reply, inbox, outbox, history>>
    BY <1>1 DEF Build, Register
  <2>2. RepliesInOrder' /\ ServedByServer'
    <3>1. Len(owed') = 0
      BY <2>1 DEF NodeInv, Exchange
    <3>. QED
      BY <2>1, <3>1 DEF RepliesInOrder, ServedByServer
  <2>3. Exchange'
    <3>1. RegistryTypeOK'
      BY <1>1, RegistryGrows DEF Build, Register, NodeInv, Exchange
    <3>. QED
      BY <2>1, <3>1 DEF NodeInv, Exchange
  <2>. QED
    BY <2>2, <2>3 DEF NodeInv
<1>2. CASE StartRun
  <2>1. /\ phase = "setup" /\ phase' = "write" /\ reply' = Handshake(Manifest)
        /\ UNCHANGED <<registryVars, inbox, outbox, history>>
    BY <1>2 DEF StartRun, Run
  <2>2. outbox = <<>> /\ owed = <<>> /\ served = <<>>
    BY <2>1 DEF NodeInv, Exchange
  <2>3. Manifest' = Manifest /\ Servers' = Servers /\ Spoken' = Spoken
    BY <2>1, ServersStay DEF Spoken
  <2>4. reply' \in Spoken /\ reply' # NoFrame
    BY <2>1, Kinds DEF Spoken
  <2>5. Exchange'
    BY <2>1, <2>2, <2>3, <2>4, EmptySeq, RegistryStays DEF NodeInv, Exchange, Phase
  <2>6. Written' = <<Handshake(Manifest)>>
    BY <2>1, <2>2, <2>4, ConcatEmptySeq DEF Written
  <2>7. RepliesInOrder' /\ ServedByServer'
    BY <2>1, <2>2, <2>3, <2>6 DEF RepliesInOrder, ServedByServer, Unanswered
  <2>. QED
    BY <2>5, <2>7 DEF NodeInv
<1>3. CASE Write
  <2>1. /\ phase = "write" /\ phase' = "read" /\ reply' = NoFrame
        /\ outbox' = Append(outbox, reply) /\ UNCHANGED <<registryVars, inbox, history>>
    BY <1>3 DEF Write, Send
  <2>2. outbox \in Seq(Spoken) /\ reply \in Spoken
    BY <2>1 DEF NodeInv, Exchange
  <2>3. outbox' \in Seq(Spoken) /\ Written = outbox' /\ Written' = outbox'
    BY <2>1, <2>2, Kinds, OneMore DEF Written
  <2>. QED
    BY <2>1, <2>3, NothingNew DEF NodeInv, Exchange, Phase
<1>4. CASE WriteFails
  <2>1. /\ phase = "write" /\ phase' = "stopped"
        /\ UNCHANGED <<registryVars, reply, inbox, outbox, history>>
    BY <1>4 DEF WriteFails, SendFails
  <2>2. Written' = Written
    BY <2>1 DEF Written
  <2>. QED
    BY <2>1, <2>2, NothingNew DEF NodeInv, Exchange, Phase
<1>5. ASSUME NEW id \in CommandId, NEW success \in BOOLEAN, ReadCommand(id, success)
      PROVE  NodeInv'
  <2>1. /\ phase = "read" /\ phase' = "write" /\ inbox # <<>> /\ inbox' = Tail(inbox)
        /\ Server(id) = NoOne => ~success
        /\ reply' = Ack(id, success) /\ UNCHANGED <<registryVars, outbox>>
        /\ owed' = Append(owed, Command(id)) /\ served' = Append(served, Server(id))
    BY <1>5 DEF ReadCommand, Serve, Reads
  <2>2. inbox' \in Seq(ToNode)
    BY <2>1, HeadTailProperties DEF NodeInv, Exchange
  <2>3. Server(id) \in Servers
    BY DEF Servers
  <2>4. Command(id) \in Request /\ Ack(id, success) \in Answer
    BY DEF Request, Answer
  <2>5. Answers(Ack(id, success), Command(id)) /\ Command(id) # Heartbeat
    BY Kinds DEF Answers
  <2>6. ReportsSuccess(Ack(id, success)) => Server(id) # NoOne
    BY <2>1, Kinds DEF ReportsSuccess
  <2>7. \A other \in CommandId : Command(id) = Command(other) => other = id
    BY Kinds
  <2>. QED
    BY <2>1, <2>2, <2>3, <2>4, <2>5, <2>6, <2>7, RequestTaken
<1>6. CASE ReadHeartbeat
  <2>1. /\ phase = "read" /\ phase' = "write" /\ inbox # <<>> /\ inbox' = Tail(inbox)
        /\ reply' = Heartbeat /\ UNCHANGED <<registryVars, outbox>>
        /\ owed' = Append(owed, Heartbeat) /\ served' = Append(served, NoOne)
    BY <1>6 DEF ReadHeartbeat, Echo, Reads
  <2>2. inbox' \in Seq(ToNode)
    BY <2>1, HeadTailProperties DEF NodeInv, Exchange
  <2>3. Heartbeat \in Request /\ Heartbeat \in Answer /\ Answers(Heartbeat, Heartbeat)
    BY DEF Request, Answer, Answers
  <2>4. NoOne \in Servers
    BY DEF Servers
  <2>5. \A id \in CommandId : Heartbeat # Command(id)
    BY Kinds
  <2>. QED
    BY <2>1, <2>2, <2>3, <2>4, <2>5, RequestTaken
<1>7. ASSUME phase = "read", phase' \in {"read", "stopped"}, inbox' \in {inbox, Tail(inbox)},
             inbox' # inbox => inbox # <<>>,
             UNCHANGED <<registryVars, reply, outbox, owed, served>>
      PROVE  NodeInv'
  <2>1. inbox' \in Seq(ToNode)
    BY <1>7, HeadTailProperties DEF NodeInv, Exchange
  <2>2. Written' = Written
    BY <1>7 DEF Written
  <2>. QED
    BY <1>7, <2>1, <2>2, NothingNew DEF NodeInv, Exchange, RepliesInOrder, Phase
<1>8. CASE ReadUnexpected
  BY <1>7, <1>8 DEF ReadUnexpected, Ignore, Reads
<1>9. CASE ReadBroken
  BY <1>7, <1>9 DEF ReadBroken, Reject, Reads
<1>10. CASE LinkFails
  BY <1>7, <1>10 DEF LinkFails, ReadFails
<1>11. ASSUME NEW frame \in ToNode, Post(frame) PROVE NodeInv'
  <2>1. inbox' \in Seq(ToNode)
    BY <1>11, AppendProperties DEF Post, NodeInv, Exchange
  <2>2. Written' = Written
    BY <1>11 DEF Post, Written
  <2>. QED
    BY <1>11, <2>1, <2>2, NothingNew DEF Post, NodeInv, Exchange, RepliesInOrder
<1>12. CASE Reconnect
  <2>1. Len(owed') = 0 /\ phase' = "setup"
    BY <1>12 DEF Reconnect
  <2>2. Exchange'
    <3>1. RegistryTypeOK'
      <4>1. entries' = <<>> /\ ota' = FALSE
        BY <1>12 DEF Reconnect
      <4>2. 0 <= MaxCapabilities
        BY RegistryAssumption
      <4>3. entries' \in Seq(Capabilities) /\ Len(entries') = 0
        BY <4>1
      <4>4. ota' \in BOOLEAN
        BY <4>1
      <4>. QED
        BY <4>2, <4>3, <4>4 DEF RegistryTypeOK
    <3>. QED
      BY <1>12, <2>1, <3>1, EmptySeq DEF Reconnect, Exchange, Phase
  <2>3. RepliesInOrder' /\ ServedByServer'
    BY <2>1 DEF RepliesInOrder, ServedByServer
  <2>. QED
    BY <2>2, <2>3 DEF NodeInv
<1>13. CASE UNCHANGED nodeVars
  <2>1. Written' = Written
    BY <1>13 DEF nodeVars, Written
  <2>. QED
    BY <1>13, <2>1, NothingNew DEF nodeVars, NodeInv, Exchange, RepliesInOrder
<1>14. ASSUME NEW id \in CommandId, CommandPanics(id) PROVE NodeInv'
  BY <1>14, CommandLost
<1>. QED
  BY <1>1, <1>2, <1>3, <1>4, <1>5, <1>6, <1>8, <1>9, <1>10, <1>11, <1>12, <1>13, <1>14
     DEF NodeNext, NodeStep

-----------------------------------------------------------------------------
\* The k-th answer of a node that runs belongs to its k-th request, whatever is
\* registered, refused, ignored or broken (Node::run, reactor.rs).
THEOREM RepliesAreInOrder == NodeSpec => []RepliesInOrder
<1>1. NodeInv => RepliesInOrder
  BY DEF NodeInv
<1>. QED
  BY InitNodeInv, NextNodeInv, <1>1, PTL DEF NodeSpec

\* While a node runs, an id has one server, and what nobody carried out is not
\* reported as a success (Node::dispatch_command and CapabilityRegistry::dispatch).
THEOREM ServersAreStable == NodeSpec => []OneServerPerId
<1>1. NodeInv => OneServerPerId
  <2> SUFFICES ASSUME NodeInv PROVE OneServerPerId
    OBVIOUS
  <2>1. /\ owed \in Seq(Request) /\ Len(owed) \in Nat /\ Len(served) = Len(owed)
        /\ ServedByServer
    BY LenProperties DEF NodeInv, Exchange
  <2>2. ASSUME NEW i \in 1..Len(owed), NEW j \in 1..Len(owed), owed[i] = owed[j]
        PROVE  served[i] = served[j]
    <3>1. owed[i] \in Request
      BY <2>1, ElementOfSeq
    <3>. QED
      BY <2>1, <2>2, <3>1 DEF ServedByServer, Request
  <2>3. ASSUME phase # "setup", NEW i \in 1..(Len(owed) - Unanswered),
               ReportsSuccess(Written[i + 1])
        PROVE  served[i] # NoOne
    <3>4. i \in 1..Len(owed)
      BY <2>1 DEF Unanswered
    <3>1. owed[i] \in Request
      BY <2>1, <3>4, ElementOfSeq
    <3>2. CASE owed[i] = Heartbeat
      <4>1. Written[i + 1] = Heartbeat
        BY <2>3, <3>2 DEF NodeInv, RepliesInOrder, Answers
      <4>. QED
        BY <2>3, <4>1, Kinds DEF ReportsSuccess
    <3>3. CASE \E id \in CommandId : owed[i] = Command(id)
      BY <2>1, <2>3, <3>3, <3>4 DEF ServedByServer
    <3>. QED
      BY <3>1, <3>2, <3>3 DEF Request
  <2>. QED
    BY <2>1, <2>2, <2>3 DEF OneServerPerId, ReportsSuccess
<1>. QED
  BY InitNodeInv, NextNodeInv, <1>1, PTL DEF NodeSpec

-----------------------------------------------------------------------------
\* The update handler comes with the capability that advertises it.
HandlerComes == \A i \in 1..Len(entries) : entries[i] = "Ota" => ota

LinkInv == posted \in Seq(ToNode) /\ RequestsAreKept /\ HandlerComes

LEMMA InitLinkInv == NodeInit => LinkInv
<1> SUFFICES ASSUME NodeInit PROVE LinkInv
  OBVIOUS
<1>1. /\ posted = <<>> /\ inbox = <<>> /\ owed = <<>> /\ entries = <<>>
  BY DEF NodeInit, ReactorInit, RegistryInit
<1>2. posted \in Seq(ToNode) /\ HandlerComes
  BY <1>1 DEF HandlerComes
<1>3. RequestsAreKept
  BY <1>1, SelectedEmpty DEF RequestsAreKept, Requests
<1>. QED
  BY <1>2, <1>3 DEF LinkInv

\* A frame the peer sends is on the link and in the record of what it sent.
LEMMA RequestPosted ==
    ASSUME NodeInv, LinkInv, NEW frame \in ToNode,
           posted' = Append(posted, frame), inbox' = Append(inbox, frame), owed' = owed
    PROVE  RequestsAreKept'
<1>1. /\ posted \in Seq(ToNode) /\ inbox \in Seq(ToNode) /\ owed \in Seq(Request)
      /\ Selected(posted, Request) = owed \o Selected(inbox, Request)
  BY DEF NodeInv, Exchange, LinkInv, RequestsAreKept, Requests
<1>2. /\ Selected(posted', Request) =
            IF frame \in Request THEN Append(Selected(posted, Request), frame)
            ELSE Selected(posted, Request)
      /\ Selected(inbox', Request) =
            IF frame \in Request THEN Append(Selected(inbox, Request), frame)
            ELSE Selected(inbox, Request)
  BY <1>1, SelectedAppend
<1>3. PICK waiting \in Seq(Request) : waiting = Selected(inbox, Request)
  <2>1. Selected(inbox, Request) \in Seq(ToNode \cap Request)
    BY <1>1, SelectedType
  <2>. QED
    BY <2>1, SeqMonotonic
<1>4. ASSUME frame \in Request PROVE Append(owed \o waiting, frame) = owed \o Append(waiting, frame)
  <2>1. PICK last \in Seq(Request) : last = <<frame>>
    <3>1. <<frame>> \in Seq(Request)
      BY <1>4
    <3>. QED
      BY <3>1
  <2>2. /\ Append(owed \o waiting, frame) = (owed \o waiting) \o last
        /\ Append(waiting, frame) = waiting \o last
    BY <1>1, <1>3, <1>4, <2>1, ConcatProperties, AppendIsConcat
  <2>. QED
    BY <1>1, <1>3, <2>1, <2>2, ConcatAssociative
<1>5. CASE frame \in Request
  <2>1. Selected(posted', Request) = Append(owed \o waiting, frame)
    BY <1>1, <1>2, <1>3, <1>5
  <2>2. Selected(inbox', Request) = Append(waiting, frame)
    BY <1>2, <1>3, <1>5
  <2>. QED
    BY <1>4, <1>5, <2>1, <2>2 DEF RequestsAreKept, Requests
<1>6. CASE frame \notin Request
  BY <1>1, <1>2, <1>6 DEF RequestsAreKept, Requests
<1>. QED
  BY <1>5, <1>6

\* A request is read: it is owed an answer and no longer on the link.
LEMMA RequestRead ==
    ASSUME NodeInv, LinkInv, NEW request \in Request, inbox # <<>>, Head(inbox) = request,
           inbox' = Tail(inbox), owed' = Append(owed, request), posted' = posted
    PROVE  RequestsAreKept'
<1>1. /\ inbox \in Seq(ToNode) /\ inbox' \in Seq(ToNode) /\ owed \in Seq(Request)
      /\ Selected(posted, Request) = owed \o Selected(inbox, Request)
  BY HeadTailProperties DEF NodeInv, Exchange, LinkInv, RequestsAreKept, Requests
<1>2. Selected(inbox, Request) = <<request>> \o Selected(inbox', Request)
  BY <1>1, SelectedFirst
<1>3. PICK waiting \in Seq(Request) : waiting = Selected(inbox', Request)
  <2>1. Selected(inbox', Request) \in Seq(ToNode \cap Request)
    BY <1>1, SelectedType
  <2>. QED
    BY <2>1, SeqMonotonic
<1>4. Append(owed, request) \o waiting = owed \o (<<request>> \o waiting)
  BY <1>1, <1>3, ConcatToAppend
<1>. QED
  BY <1>1, <1>2, <1>3, <1>4 DEF RequestsAreKept, Requests

\* A frame that is no request is read: nothing is owed for it.
LEMMA OtherFrameRead ==
    ASSUME NodeInv, LinkInv, inbox # <<>>, Head(inbox) \notin Request,
           inbox' = Tail(inbox), UNCHANGED <<owed, posted>>
    PROVE  RequestsAreKept'
<1>1. inbox \in Seq(ToNode)
  BY DEF NodeInv, Exchange
<1>2. Selected(inbox, Request) = Selected(inbox', Request)
  BY <1>1, SelectedFirst
<1>. QED
  BY <1>2 DEF LinkInv, RequestsAreKept, Requests

LEMMA NextLinkInv == NodeInv /\ LinkInv /\ [NodeNext]_nodeVars => LinkInv'
<1> SUFFICES ASSUME NodeInv, LinkInv, [NodeNext]_nodeVars PROVE LinkInv'
  OBVIOUS
<1> USE DEF history, reactorVars, registryVars
<1>1. ASSUME NEW cap \in Capabilities, Build(cap) PROVE LinkInv'
  <2>1. UNCHANGED <<posted, inbox, owed>> /\ RegisterCapability(cap)
    BY <1>1 DEF Build, Register
  <2>2. entries \in Seq(Capabilities) /\ ota \in BOOLEAN
    BY DEF NodeInv, Exchange, RegistryTypeOK
  <2>3. ota' = (ota \/ cap = "Ota") /\ entries' \in {entries, Append(entries, cap)}
    BY <2>1 DEF RegisterCapability
  <2>4. ASSUME NEW i \in 1..Len(entries'), entries'[i] = "Ota" PROVE ota'
    <3>1. CASE i \in 1..Len(entries) /\ entries'[i] = entries[i]
      BY <2>3, <2>4, <3>1 DEF LinkInv, HandlerComes
    <3>2. CASE entries'[i] = cap
      BY <2>3, <2>4, <3>2
    <3>3. entries' = Append(entries, cap) =>
              (i \in 1..Len(entries) /\ entries'[i] = entries[i]) \/ entries'[i] = cap
      BY <2>2, AppendProperties, LenProperties
    <3>. QED
      BY <2>3, <3>1, <3>2, <3>3
  <2>5. posted' \in Seq(ToNode) /\ RequestsAreKept'
    BY <2>1 DEF LinkInv, RequestsAreKept
  <2>. QED
    BY <2>4, <2>5 DEF LinkInv, HandlerComes
<1>2. ASSUME UNCHANGED registryVars, posted' \in Seq(ToNode), RequestsAreKept' PROVE LinkInv'
  BY <1>2 DEF LinkInv, HandlerComes
<1>3. ASSUME UNCHANGED <<registryVars, posted, inbox, owed>> PROVE LinkInv'
  BY <1>2, <1>3 DEF LinkInv, RequestsAreKept
<1>4. CASE StartRun \/ Write \/ WriteFails \/ LinkFails \/ UNCHANGED nodeVars
  BY <1>3, <1>4 DEF StartRun, Run, Write, Send, WriteFails, SendFails, LinkFails, ReadFails, nodeVars
<1>5. ASSUME NEW id \in CommandId, NEW success \in BOOLEAN, ReadCommand(id, success)
      PROVE  LinkInv'
  <2>1. /\ UNCHANGED registryVars /\ inbox # <<>> /\ inbox' = Tail(inbox) /\ Head(inbox) = Command(id)
        /\ owed' = Append(owed, Command(id)) /\ posted' = posted
    BY <1>5 DEF ReadCommand, Serve, Reads
  <2>2. Command(id) \in Request
    BY DEF Request
  <2>. QED
    BY <1>2, <2>1, <2>2, RequestRead DEF LinkInv
<1>11. ASSUME NEW id \in CommandId, CommandPanics(id) PROVE LinkInv'
  <2>1. /\ UNCHANGED registryVars /\ inbox # <<>> /\ inbox' = Tail(inbox) /\ Head(inbox) = Command(id)
        /\ owed' = Append(owed, Command(id)) /\ posted' = posted
    BY <1>11 DEF CommandPanics, Panics, Reads
  <2>2. Command(id) \in Request
    BY DEF Request
  <2>. QED
    BY <1>2, <2>1, <2>2, RequestRead DEF LinkInv
<1>6. CASE ReadHeartbeat
  <2>1. /\ UNCHANGED registryVars /\ inbox # <<>> /\ inbox' = Tail(inbox) /\ Head(inbox) = Heartbeat
        /\ owed' = Append(owed, Heartbeat) /\ posted' = posted
    BY <1>6 DEF ReadHeartbeat, Echo, Reads
  <2>2. Heartbeat \in Request
    BY DEF Request
  <2>. QED
    BY <1>2, <2>1, <2>2, RequestRead DEF LinkInv
<1>7. Unexpected \notin Request /\ Broken \notin Request
  BY DEF Unexpected, Broken, Request, Heartbeat, Command
<1>8. CASE ReadUnexpected \/ ReadBroken
  <2>1. /\ UNCHANGED registryVars /\ inbox # <<>> /\ inbox' = Tail(inbox)
        /\ Head(inbox) \in {Unexpected, Broken} /\ UNCHANGED <<owed, posted>>
    BY <1>8 DEF ReadUnexpected, Ignore, ReadBroken, Reject, Reads
  <2>. QED
    BY <1>2, <1>7, <2>1, OtherFrameRead DEF LinkInv
<1>9. ASSUME NEW frame \in ToNode, Post(frame) PROVE LinkInv'
  <2>1. /\ UNCHANGED registryVars /\ owed' = owed
        /\ posted' = Append(posted, frame) /\ inbox' = Append(inbox, frame)
    BY <1>9 DEF Post
  <2>2. posted' \in Seq(ToNode)
    BY <2>1, AppendProperties DEF LinkInv
  <2>. QED
    BY <1>2, <2>1, <2>2, RequestPosted
<1>10. CASE Reconnect
  <2>1. entries' = <<>> /\ posted' = <<>> /\ inbox' = <<>> /\ owed' = <<>>
    BY <1>10 DEF Reconnect
  <2>2. posted' \in Seq(ToNode) /\ HandlerComes'
    BY <2>1 DEF HandlerComes
  <2>3. RequestsAreKept'
    BY <2>1, SelectedEmpty DEF RequestsAreKept, Requests
  <2>. QED
    BY <2>2, <2>3 DEF LinkInv
<1>. QED
  BY <1>1, <1>4, <1>5, <1>6, <1>8, <1>9, <1>10, <1>11 DEF NodeNext, NodeStep

\* Types of all the state of a node and of the record of its conversation, and
\* with them that the manifest never has more entries than a frame has room for.
THEOREM NodeTypes == NodeSpec => []NodeTypeOK
<1>1. NodeInv /\ LinkInv => NodeTypeOK
  <2> SUFFICES ASSUME NodeInv, LinkInv PROVE NodeTypeOK
    OBVIOUS
  <2>1. /\ RegistryTypeOK /\ phase \in Phase /\ inbox \in Seq(ToNode)
        /\ owed \in Seq(Request) /\ served \in Seq(Servers) /\ posted \in Seq(ToNode)
    BY DEF NodeInv, Exchange, LinkInv
  <2>2. Spoken \subseteq FromNode
    BY <2>1, ManifestOfEntries DEF Spoken, Answer, FromNode
  <2>3. outbox \in Seq(FromNode) /\ reply \in FromNode \cup {NoFrame}
    <3>1. CASE phase = "setup"
      BY <3>1 DEF NodeInv, Exchange
    <3>2. CASE phase # "setup"
      <4>1. outbox \in Seq(Spoken) /\ reply \in Spoken \cup {NoFrame}
        BY <3>2 DEF NodeInv, Exchange
      <4>. QED
        BY <2>2, <4>1, SeqMonotonic
    <3>. QED
      BY <3>1, <3>2
  <2>4. Request \subseteq ToNode
    BY DEF Request, ToNode
  <2>5. Servers \subseteq 0..UpdateHandler
    <3>1. NoOne \in 0..UpdateHandler
      BY RegistryAssumption DEF NoOne, UpdateHandler
    <3>. QED
      BY <2>1, <3>1, ServerIsOneOf DEF Servers
  <2>6. owed \in Seq(ToNode) /\ served \in Seq(0..UpdateHandler)
    BY <2>1, <2>4, <2>5, SeqMonotonic
  <2>. QED
    BY <2>1, <2>3, <2>6 DEF NodeTypeOK
<1>. QED
  BY InitNodeInv, NextNodeInv, InitLinkInv, NextLinkInv, <1>1, PTL DEF NodeSpec

\* Node::run answers or is still to read every request the peer sent, in order,
\* whatever other frames lie between them.
THEOREM NoRequestIsLost == NodeSpec => []RequestsAreKept
<1>1. LinkInv => RequestsAreKept
  BY DEF LinkInv
<1>. QED
  BY InitNodeInv, NextNodeInv, InitLinkInv, NextLinkInv, <1>1, PTL DEF NodeSpec

\* An id keeps its server while the node runs, and the ids of an update have the
\* update handler for theirs once it is advertised (Node::register_capability,
\* CapabilityRegistry::manifest, Node::dispatch_command).
THEOREM RoutesAreStable == NodeSpec => []RoutingIsStable
<1>1. NodeInv /\ LinkInv => UpdatesReachTheHandler
  <2> SUFFICES ASSUME NodeInv, LinkInv, "Ota" \in {Manifest[k] : k \in 1..Len(Manifest)},
                      NEW i \in 1..Len(owed), owed[i].kind = "Command"
               PROVE  served[i] = UpdateHandler <=> owed[i].id \in OtaIds
    BY DEF UpdatesReachTheHandler
  <2>1. RegistryTypeOK /\ owed \in Seq(Request) /\ ServedByServer
    BY DEF NodeInv, Exchange
  <2>2. ota
    <3>1. \E n \in 1..Len(entries) : entries[n] = "Ota"
      BY <2>1, ManifestOfEntries
    <3>. QED
      BY <3>1 DEF LinkInv, HandlerComes
  <2>3. PICK id \in CommandId : owed[i] = Command(id)
    <3>1. owed[i] \in Request
      BY <2>1, ElementOfSeq
    <3>. QED
      BY <3>1, Kinds DEF Request
  <2>4. owed[i].id = id /\ served[i] = Server(id)
    BY <2>1, <2>3, Kinds DEF ServedByServer
  <2>. QED
    BY <2>1, <2>2, <2>4, ServerIsOneOf
<1>2. OneServerPerId /\ UpdatesReachTheHandler => RoutingIsStable
  BY DEF RoutingIsStable
<1>. QED
  BY InitNodeInv, NextNodeInv, InitLinkInv, NextLinkInv, ServersAreStable, <1>1, <1>2, PTL
     DEF NodeSpec

-----------------------------------------------------------------------------
(* Sequences of frames and how many of them are of some kinds              *)

IsSequence(frames) == \E S : frames \in Seq(S)

Frames(frames) == {frames[i] : i \in 1..Len(frames)}

One(condition) == IF condition THEN 1 ELSE 0

LEMMA PlacesFinite ==
    ASSUME NEW S, NEW frames \in Seq(S), NEW kinds
    PROVE  /\ IsFiniteSet(Places(frames, kinds))
           /\ Count(frames, kinds) \in Nat
<1>1. Len(frames) \in Nat
  BY LenProperties
<1>2. IsFiniteSet(1..Len(frames))
  BY <1>1, FS_Interval
<1>3. Places(frames, kinds) \subseteq 1..Len(frames)
  BY DEF Places
<1>. QED
  BY <1>2, <1>3, FS_Subset, FS_CardinalityType DEF Count

LEMMA CountEmpty ==
    ASSUME NEW kinds
    PROVE  Count(<<>>, kinds) = 0
<1>1. Places(<<>>, kinds) = {}
  BY DEF Places
<1>. QED
  BY <1>1, FS_EmptySet DEF Count

LEMMA CountAppend ==
    ASSUME NEW S, NEW frames \in Seq(S), NEW frame, NEW kinds
    PROVE  /\ IsSequence(Append(frames, frame))
           /\ Frames(Append(frames, frame)) = Frames(frames) \cup {frame}
           /\ Len(Append(frames, frame)) = Len(frames) + 1
           /\ Count(Append(frames, frame), kinds) = Count(frames, kinds) + One(frame.kind \in kinds)
<1> DEFINE n == Len(frames)
           more == Append(frames, frame)
<1>1. n \in Nat
  BY LenProperties
<1>2. frames \in Seq(S \cup {frame})
  BY SeqMonotonic
<1>3. /\ more \in Seq(S \cup {frame}) /\ Len(more) = n + 1 /\ more[n + 1] = frame
      /\ \A i \in 1..n : more[i] = frames[i]
  BY <1>2, AppendProperties
<1> HIDE DEF n, more
<1>4. 1..(n + 1) = (1..n) \cup {n + 1}
  BY <1>1
<1>5. Frames(more) = Frames(frames) \cup {frame}
  <2>1. Frames(more) = {more[i] : i \in 1..n} \cup {more[n + 1]}
    BY <1>3, <1>4 DEF Frames
  <2>2. {more[i] : i \in 1..n} = {frames[i] : i \in 1..n}
    BY <1>3
  <2>. QED
    BY <1>3, <2>1, <2>2 DEF Frames, n
<1>6. Places(more, kinds) =
          Places(frames, kinds) \cup (IF frame.kind \in kinds THEN {n + 1} ELSE {})
  BY <1>1, <1>3, <1>4 DEF Places, n
<1>7. n + 1 \notin Places(frames, kinds)
  BY <1>1 DEF Places, n
<1>8. Count(more, kinds) = Count(frames, kinds) + One(frame.kind \in kinds)
  <2>1. IsFiniteSet(Places(frames, kinds)) /\ Count(frames, kinds) \in Nat
    BY PlacesFinite
  <2>2. CASE frame.kind \in kinds
    BY <1>6, <1>7, <2>1, <2>2, FS_AddElement DEF Count, One
  <2>3. CASE frame.kind \notin kinds
    BY <1>6, <2>1, <2>3 DEF Count, One
  <2>. QED
    BY <2>2, <2>3
<1>9. IsSequence(more)
  BY <1>3 DEF IsSequence
<1>. QED
  BY <1>3, <1>5, <1>8, <1>9 DEF n, more

\* What is taken from the front is not counted any more.
LEMMA CountTail ==
    ASSUME NEW S, NEW frames \in Seq(S), frames # <<>>, NEW kinds
    PROVE  /\ IsSequence(Tail(frames))
           /\ Frames(Tail(frames)) \subseteq Frames(frames)
           /\ Head(frames) \in Frames(frames)
           /\ Len(Tail(frames)) = Len(frames) - 1
           /\ Count(Tail(frames), kinds) + One(Head(frames).kind \in kinds) <= Count(frames, kinds)
<1> DEFINE n == Len(frames)
           rest == Tail(frames)
           here == Places(frames, kinds)
           there == Places(rest, kinds)
<1>1. n \in Nat /\ n > 0 /\ Head(frames) = frames[1]
  BY LenProperties, EmptySeq
<1>2. /\ rest \in Seq(S) /\ Len(rest) = n - 1
      /\ \A i \in 1..(n - 1) : rest[i] = frames[i + 1]
  BY HeadTailProperties
<1> HIDE DEF n, rest
<1>3. Frames(rest) \subseteq Frames(frames) /\ Head(frames) \in Frames(frames)
  BY <1>1, <1>2 DEF Frames, n
<1>4. there \subseteq 1..(n - 1) /\ \A i \in there : i + 1 \in here \ {1}
  BY <1>1, <1>2 DEF Places, n
<1>5. IsFiniteSet(here) /\ Cardinality(here) \in Nat /\ Cardinality(there) \in Nat
  BY <1>2, PlacesFinite DEF Count
<1>6. /\ IsFiniteSet(here \ {1})
      /\ Cardinality(here \ {1}) = IF 1 \in here THEN Cardinality(here) - 1 ELSE Cardinality(here)
  BY <1>5, FS_RemoveElement
<1>7. [i \in there |-> i + 1] \in Injection(there, here \ {1})
  <2> HIDE DEF here, there
  <2>1. [i \in there |-> i + 1] \in [there -> here \ {1}]
    BY <1>4
  <2>2. \A i, j \in there : i + 1 = j + 1 => i = j
    BY <1>1, <1>4
  <2>. QED
    BY <2>1, <2>2 DEF Injection, IsInjective
<1>8. Cardinality(there) <= Cardinality(here \ {1})
  BY <1>6, <1>7, FS_Injection
<1>9. 1 \in here <=> Head(frames).kind \in kinds
  BY <1>1 DEF Places, n
<1>10. Cardinality(there) + One(Head(frames).kind \in kinds) <= Cardinality(here)
  <2> HIDE DEF here, there
  <2>1. CASE 1 \in here
    BY <1>5, <1>6, <1>8, <1>9, <2>1 DEF One
  <2>2. CASE 1 \notin here
    BY <1>5, <1>6, <1>8, <1>9, <2>2 DEF One
  <2>. QED
    BY <2>1, <2>2
<1>. QED
  BY <1>2, <1>3, <1>10 DEF Count, IsSequence, n, rest

\* A frame that is picked up in the middle is counted with none.
LEMMA CountBroken ==
    ASSUME NEW S, NEW frames \in Seq(S), frames # <<>>, NEW kinds, "Broken" \notin kinds
    PROVE  /\ IsSequence(<<Broken>> \o Tail(frames))
           /\ Frames(<<Broken>> \o Tail(frames)) \subseteq Frames(frames) \cup {Broken}
           /\ Count(<<Broken>> \o Tail(frames), kinds) <= Count(frames, kinds)
<1> DEFINE n == Len(frames)
           new == <<Broken>> \o Tail(frames)
<1>1. n \in Nat /\ n > 0 /\ Broken.kind = "Broken"
  BY LenProperties, EmptySeq DEF Broken
<1>2. /\ Tail(frames) \in Seq(S) /\ Len(Tail(frames)) = n - 1
      /\ \A i \in 1..(n - 1) : Tail(frames)[i] = frames[i + 1]
  BY HeadTailProperties
<1>3. <<Broken>> \in Seq(S \cup {Broken}) /\ Len(<<Broken>>) = 1 /\ <<Broken>>[1] = Broken
  OBVIOUS
<1>4. Tail(frames) \in Seq(S \cup {Broken})
  BY <1>2, SeqMonotonic
<1>5. /\ new \in Seq(S \cup {Broken}) /\ Len(new) = n
      /\ \A i \in 1..n : new[i] = IF i <= 1 THEN <<Broken>>[i] ELSE Tail(frames)[i - 1]
  BY <1>1, <1>2, <1>3, <1>4, ConcatProperties
<1> HIDE DEF n, new
<1>6. new[1] = Broken /\ \A i \in 2..n : new[i] = frames[i]
  BY <1>1, <1>2, <1>3, <1>5
<1>7. Frames(new) \subseteq Frames(frames) \cup {Broken}
  BY <1>1, <1>5, <1>6 DEF Frames, n
<1>8. Places(new, kinds) \subseteq Places(frames, kinds)
  BY <1>1, <1>5, <1>6 DEF Places, n
<1>9. Count(new, kinds) <= Count(frames, kinds)
  BY <1>8, PlacesFinite, FS_Subset DEF Count
<1>. QED
  BY <1>5, <1>7, <1>9 DEF IsSequence, new

\* The same of a line, whatever the frames on it are.
LEMMA Counted ==
    ASSUME NEW frames, IsSequence(frames)
    PROVE  \A kinds : Count(frames, kinds) \in Nat
  BY PlacesFinite DEF IsSequence

LEMMA Added ==
    ASSUME NEW frames, IsSequence(frames), NEW frame
    PROVE  /\ IsSequence(Append(frames, frame))
           /\ Frames(Append(frames, frame)) = Frames(frames) \cup {frame}
           /\ Len(Append(frames, frame)) = Len(frames) + 1
           /\ \A kinds : Count(Append(frames, frame), kinds) =
                             Count(frames, kinds) + One(frame.kind \in kinds)
<1>1. PICK S : frames \in Seq(S)
  BY DEF IsSequence
<1>2. ASSUME NEW kinds
      PROVE  Count(Append(frames, frame), kinds) = Count(frames, kinds) + One(frame.kind \in kinds)
  BY <1>1, CountAppend
<1>. QED
  BY <1>1, <1>2, CountAppend

LEMMA Taken ==
    ASSUME NEW frames, IsSequence(frames), frames # <<>>
    PROVE  /\ IsSequence(Tail(frames))
           /\ Frames(Tail(frames)) \subseteq Frames(frames)
           /\ Head(frames) \in Frames(frames)
           /\ Len(Tail(frames)) = Len(frames) - 1
           /\ \A kinds : Count(Tail(frames), kinds) + One(Head(frames).kind \in kinds)
                             <= Count(frames, kinds)
  BY CountTail DEF IsSequence

LEMMA CutOff ==
    ASSUME NEW frames, IsSequence(frames), frames # <<>>
    PROVE  /\ IsSequence(<<Broken>> \o Tail(frames))
           /\ Frames(<<Broken>> \o Tail(frames)) \subseteq Frames(frames) \cup {Broken}
           /\ Len(<<Broken>> \o Tail(frames)) = Len(frames)
           /\ \A kinds : "Broken" \notin kinds =>
                  Count(<<Broken>> \o Tail(frames), kinds) <= Count(frames, kinds)
<1>1. PICK S : frames \in Seq(S)
  BY DEF IsSequence
<1>2. ASSUME NEW kinds, "Broken" \notin kinds
      PROVE  /\ IsSequence(<<Broken>> \o Tail(frames))
             /\ Frames(<<Broken>> \o Tail(frames)) \subseteq Frames(frames) \cup {Broken}
             /\ Count(<<Broken>> \o Tail(frames), kinds) <= Count(frames, kinds)
  BY <1>1, <1>2, CountBroken
<1>3. "Broken" \notin {}
  OBVIOUS
<1>4. Len(<<Broken>> \o Tail(frames)) = Len(frames)
  <2>1. PICK rest \in Seq(S) : rest = Tail(frames)
    BY <1>1, HeadTailProperties
  <2>2. Len(rest) = Len(frames) - 1 /\ Len(rest) \in Nat /\ Len(frames) \in Nat
    BY <1>1, <2>1, HeadTailProperties, LenProperties
  <2>3. PICK T : T = S \cup {Broken}
    OBVIOUS
  <2>4. <<Broken>> \in Seq(T) /\ Len(<<Broken>>) = 1 /\ rest \in Seq(T)
    BY <2>1, <2>3, SeqMonotonic
  <2>5. Len(<<Broken>> \o rest) = Len(<<Broken>>) + Len(rest)
    BY <2>4, ConcatProperties
  <2>. QED
    BY <2>1, <2>2, <2>4, <2>5
<1>. QED
  BY <1>2, <1>3, <1>4

-----------------------------------------------------------------------------
(* The inductive invariant                                                 *)

Speech == {"Heartbeat", "Handshake"}

Refusal == Ack(SerialProbe, FALSE)

\* The node is about to say something that becomes a heartbeat, or refuses.
BeatHeld == One(phase = "setup" \/ (phase = "write" /\ reply.kind \in Speech))

RefusalHeld == One(phase = "write" /\ reply.kind = "Ack")

\* What either side says: no command but the probe, no acknowledgement but its
\* refusal.
OnlyTheProbe ==
    /\ IsSequence(inbox) /\ IsSequence(outbox) /\ IsSequence(acks)
    /\ \A frame \in Frames(inbox) : frame.kind = "Command" => frame = Command(SerialProbe)
    /\ \A frame \in Frames(outbox) : frame.kind \in Speech \/ frame \in {Refusal, Broken}
    /\ \A frame \in Frames(acks) : frame = Refusal
    /\ phase = "write" => reply.kind \in Speech \/ reply = Refusal

LineState ==
    /\ phase \in Phase
    /\ batch \in Nat /\ batch <= Len(outbox)
    /\ sentProbe \in BOOLEAN
    /\ restarts \in Nat

BeatsBounded ==
    Count(inbox, {"Heartbeat"}) + Count(outbox, Speech) + BeatHeld <= restarts + 1

ProbesBounded ==
    Count(inbox, {"Command"}) + Count(outbox, {"Ack"}) + Len(acks) + RefusalHeld <= One(sentProbe)

LineInv == OnlyTheProbe /\ LineState /\ BeatsBounded /\ ProbesBounded

\* Nobody serves the probe: advertising "Uart" brings no driver.
LEMMA NobodyServesTheProbe == Server(SerialProbe) = NoOne
<1>1. SerialProbe \notin OtaIds
  BY StationAssumption
<1>2. Claimants(SerialProbe) = {}
  BY StationAssumption DEF Claimants
<1>. QED
  BY <1>1, <1>2 DEF Server

LEMMA FrameKinds ==
    /\ Heartbeat.kind = "Heartbeat" /\ Broken.kind = "Broken"
    /\ Refusal.kind = "Ack" /\ Command(SerialProbe).kind = "Command"
    /\ \A manifest : Handshake(manifest).kind = "Handshake"
    /\ \A id \in CommandId : Command(id).kind = "Command" /\ Command(id).id = id
    /\ \A id \in CommandId, success \in BOOLEAN : Ack(id, success).kind = "Ack"
    /\ SerialProbe \in CommandId
<1>1. Heartbeat.kind = "Heartbeat" /\ Broken.kind = "Broken"
  BY DEF Heartbeat, Broken
<1>2. \A id, success : Ack(id, success).kind = "Ack"
  BY DEF Ack
<1>3. \A id : Command(id).kind = "Command" /\ Command(id).id = id
  BY DEF Command
<1>4. \A manifest : Handshake(manifest).kind = "Handshake"
  BY DEF Handshake
<1>5. SerialProbe \in CommandId
  BY StationAssumption
<1>. QED
  BY <1>1, <1>2, <1>3, <1>4, <1>5 DEF Refusal

LEMMA InitLineInv == LineInit => LineInv
<1> SUFFICES ASSUME LineInit PROVE LineInv
  OBVIOUS
<1>1. /\ inbox = <<>> /\ outbox = <<>> /\ acks = <<>> /\ phase = "setup"
      /\ batch = 0 /\ sentProbe = FALSE /\ restarts = 0
  BY DEF LineInit, ReactorInit
<1>2. IsSequence(<<>>) /\ Frames(<<>>) = {} /\ Len(<<>>) = 0
  <2>1. <<>> \in Seq({}) /\ Len(<<>>) = 0
    OBVIOUS
  <2>. QED
    BY <2>1 DEF IsSequence, Frames
<1>3. OnlyTheProbe
  BY <1>1, <1>2 DEF OnlyTheProbe
<1>4. LineState
  <2>1. batch \in Nat /\ batch <= Len(outbox) /\ restarts \in Nat
    BY <1>1, <1>2
  <2>2. phase \in Phase /\ sentProbe \in BOOLEAN
    BY <1>1 DEF Phase
  <2>. QED
    BY <2>1, <2>2 DEF LineState
<1>5. BeatsBounded
  BY <1>1, CountEmpty DEF BeatsBounded, BeatHeld, One
<1>6. ProbesBounded
  BY <1>1, <1>2, CountEmpty DEF ProbesBounded, RefusalHeld, One
<1>. QED
  BY <1>3, <1>4, <1>5, <1>6 DEF LineInv

-----------------------------------------------------------------------------
(* The steps of the station                                                *)

\* A write of the station adds its frame, or nothing that counts.
LEMMA PutsFacts ==
    ASSUME IsSequence(inbox), NEW frame, Puts(frame)
    PROVE  /\ IsSequence(inbox')
           /\ Frames(inbox') \subseteq Frames(inbox) \cup {frame, Broken}
           /\ \A kinds : "Broken" \notin kinds =>
                  Count(inbox', kinds) <= Count(inbox, kinds) + One(frame.kind \in kinds)
<1>1. CASE inbox' = Append(inbox, frame)
  BY <1>1, Added, Counted DEF One
<1>2. CASE inbox' = inbox
  BY <1>2, Counted DEF One
<1>3. CASE inbox' = Append(inbox, Broken)
  <2>1. ASSUME NEW kinds, "Broken" \notin kinds PROVE Count(inbox', kinds) = Count(inbox, kinds)
    BY <1>3, <2>1, Added, Counted, FrameKinds DEF One
  <2>. QED
    BY <1>3, <2>1, Added, Counted DEF One
<1>. QED
  BY <1>1, <1>2, <1>3 DEF Puts

\* The station hears a frame and may write one.
LEMMA HearsFacts ==
    ASSUME LineInv, NEW frame, Hears(frame)
    PROVE  /\ frame \in Frames(outbox)
           /\ IsSequence(outbox') /\ Frames(outbox') \subseteq Frames(outbox)
           /\ \A kinds : Count(outbox', kinds) + One(frame.kind \in kinds) <= Count(outbox, kinds)
           /\ batch' \in Nat /\ batch' <= Len(outbox')
           /\ UNCHANGED <<registryVars, phase, reply, sentProbe, restarts>>
<1>1. batch \in Nat /\ batch > 0 /\ batch <= Len(outbox) /\ IsSequence(outbox)
  BY DEF Hears, LineInv, LineState, OnlyTheProbe
<1>2. outbox # <<>>
  <2>1. Len(<<>>) = 0
    OBVIOUS
  <2>. QED
    BY <1>1, <2>1
<1>3. /\ frame = Head(outbox) /\ outbox' = Tail(outbox) /\ batch' = batch - 1
      /\ UNCHANGED <<registryVars, phase, reply, sentProbe, restarts>>
  BY DEF Hears
<1>4. Len(outbox) \in Nat
  BY <1>1, LenProperties DEF IsSequence
<1>5. batch' \in Nat /\ batch' <= Len(outbox')
  BY <1>1, <1>2, <1>3, <1>4, Taken
<1>. QED
  BY <1>1, <1>2, <1>3, <1>5, Taken

LEMMA StationBeatsKeepsInv == LineInv /\ StationBeats => LineInv'
<1> SUFFICES ASSUME LineInv, StationBeats PROVE LineInv'
  OBVIOUS
<1>1. PICK frame : Hears(frame) /\ frame.kind \in Speech
  BY FrameKinds DEF StationBeats, Speech
<1>2. Puts(Heartbeat) /\ UNCHANGED acks
  BY DEF StationBeats
<1>3. IsSequence(inbox) /\ IsSequence(outbox) /\ IsSequence(acks)
  BY DEF LineInv, OnlyTheProbe
<1>4. \A kinds : /\ Count(inbox, kinds) \in Nat /\ Count(inbox', kinds) \in Nat
                 /\ Count(outbox, kinds) \in Nat /\ Count(outbox', kinds) \in Nat
  BY <1>1, <1>2, <1>3, HearsFacts, PutsFacts, Counted
<1>5. UNCHANGED <<phase, reply, sentProbe, restarts>>
  BY <1>1, HearsFacts
<1>6. OnlyTheProbe'
  BY <1>1, <1>2, <1>3, <1>5, HearsFacts, PutsFacts, FrameKinds DEF LineInv, OnlyTheProbe
<1>7. LineState'
  BY <1>1, <1>5, HearsFacts DEF LineInv, LineState
<1>8. BeatsBounded'
  <2>1. Count(inbox', {"Heartbeat"}) <= Count(inbox, {"Heartbeat"}) + 1
    BY <1>2, <1>3, PutsFacts, FrameKinds DEF One
  <2>2. Count(outbox', Speech) + 1 <= Count(outbox, Speech)
    BY <1>1, HearsFacts DEF One
  <2>3. BeatHeld' = BeatHeld /\ BeatHeld \in Nat
    BY <1>5 DEF BeatHeld, One
  <2>. QED
    BY <1>4, <1>5, <2>1, <2>2, <2>3 DEF LineInv, LineState, BeatsBounded
<1>9. ProbesBounded'
  <2>1. Count(inbox', {"Command"}) <= Count(inbox, {"Command"})
    BY <1>2, <1>3, <1>4, PutsFacts, FrameKinds DEF One
  <2>2. Count(outbox', {"Ack"}) <= Count(outbox, {"Ack"})
    BY <1>1, <1>4, HearsFacts DEF One
  <2>3. RefusalHeld' = RefusalHeld /\ RefusalHeld \in Nat /\ One(sentProbe)' = One(sentProbe)
        /\ One(sentProbe) \in Nat
    BY <1>5 DEF RefusalHeld, One
  <2>4. Len(acks) \in Nat
    BY <1>3, LenProperties DEF IsSequence
  <2>. QED
    BY <1>2, <1>4, <2>1, <2>2, <2>3, <2>4 DEF LineInv, ProbesBounded
<1>. QED
  BY <1>6, <1>7, <1>8, <1>9 DEF LineInv

LEMMA StationReadsKeepsInv ==
    ASSUME LineInv, UNCHANGED <<phase, reply, inbox, outbox, acks, sentProbe, restarts>>,
           batch' \in Nat, batch' <= Len(outbox)
    PROVE  LineInv'
<1>1. OnlyTheProbe' /\ LineState'
  BY DEF LineInv, OnlyTheProbe, LineState
<1>2. BeatHeld' = BeatHeld /\ RefusalHeld' = RefusalHeld
  BY DEF BeatHeld, RefusalHeld
<1>3. BeatsBounded' /\ ProbesBounded'
  BY <1>2 DEF LineInv, BeatsBounded, ProbesBounded
<1>. QED
  BY <1>1, <1>3 DEF LineInv

LEMMA StationHearsAckKeepsInv ==
    ASSUME LineInv, NEW id \in CommandId, NEW success \in BOOLEAN, StationHearsAck(id, success)
    PROVE  LineInv'
<1> DEFINE frame == Ack(id, success)
<1>1. Hears(frame) /\ acks' = Append(acks, frame) /\ UNCHANGED inbox /\ frame.kind = "Ack"
  BY FrameKinds DEF StationHearsAck
<1> HIDE DEF frame
<1>2. IsSequence(inbox) /\ IsSequence(outbox) /\ IsSequence(acks)
  BY DEF LineInv, OnlyTheProbe
<1>3. \A kinds : /\ Count(inbox, kinds) \in Nat
                 /\ Count(outbox, kinds) \in Nat /\ Count(outbox', kinds) \in Nat
  BY <1>1, <1>2, HearsFacts, Counted
<1>4. UNCHANGED <<phase, reply, sentProbe, restarts>>
  BY <1>1, HearsFacts
<1>5. frame = Refusal
  BY <1>1, HearsFacts, FrameKinds DEF LineInv, OnlyTheProbe, Speech
<1>6. OnlyTheProbe'
  BY <1>1, <1>2, <1>4, <1>5, HearsFacts, Added DEF LineInv, OnlyTheProbe
<1>7. LineState'
  BY <1>1, <1>4, HearsFacts DEF LineInv, LineState
<1>8. BeatHeld' = BeatHeld /\ BeatHeld \in Nat /\ RefusalHeld' = RefusalHeld /\ RefusalHeld \in Nat
  BY <1>4 DEF BeatHeld, RefusalHeld, One
<1>9. BeatsBounded'
  <2>1. Count(outbox', Speech) <= Count(outbox, Speech)
    BY <1>1, <1>3, HearsFacts DEF One
  <2>. QED
    BY <1>1, <1>3, <1>4, <1>8, <2>1 DEF LineInv, LineState, BeatsBounded
<1>10. ProbesBounded'
  <2>1. Count(outbox', {"Ack"}) + 1 <= Count(outbox, {"Ack"})
    BY <1>1, HearsFacts DEF One
  <2>2. Len(acks') = Len(acks) + 1 /\ Len(acks) \in Nat
    BY <1>1, <1>2, Added, LenProperties DEF IsSequence
  <2>3. One(sentProbe)' = One(sentProbe) /\ One(sentProbe) \in Nat
    BY <1>4 DEF One
  <2>. QED
    BY <1>1, <1>3, <1>8, <2>1, <2>2, <2>3 DEF LineInv, ProbesBounded
<1>. QED
  BY <1>6, <1>7, <1>9, <1>10 DEF LineInv

\* A broken frame comes off the line, or takes the next one with it.
LEMMA StationHearsBrokenKeepsInv == LineInv /\ StationHearsBroken => LineInv'
<1> SUFFICES ASSUME LineInv, StationHearsBroken PROVE LineInv'
  OBVIOUS
<1>1. /\ IsSequence(outbox) /\ batch \in Nat /\ batch <= Len(outbox) /\ Len(outbox) \in Nat
      /\ UNCHANGED <<phase, reply, inbox, acks, sentProbe, restarts>>
  BY LenProperties DEF StationHearsBroken, Hears, LineInv, LineState, OnlyTheProbe, IsSequence
<1>2. /\ IsSequence(outbox') /\ Frames(outbox') \subseteq Frames(outbox) \cup {Broken}
      /\ \A kinds : "Broken" \notin kinds => Count(outbox', kinds) <= Count(outbox, kinds)
      /\ batch' \in Nat /\ batch' <= Len(outbox')
  <2>1. CASE Hears(Broken)
    <3>1. ASSUME NEW kinds, "Broken" \notin kinds PROVE Count(outbox', kinds) <= Count(outbox, kinds)
      BY <2>1, <3>1, HearsFacts, FrameKinds, Counted, <1>1 DEF One
    <3>. QED
      BY <2>1, <3>1, HearsFacts
  <2>2. CASE /\ batch > 1 /\ batch' = batch - 1
             /\ outbox' = <<Broken>> \o Tail(Tail(outbox))
    <3>1. PICK rest : rest = Tail(outbox)
      OBVIOUS
    <3>2. outbox # <<>>
      BY <1>1, <2>2
    <3>3. /\ IsSequence(rest) /\ Frames(rest) \subseteq Frames(outbox)
          /\ Len(rest) = Len(outbox) - 1
          /\ \A kinds : Count(rest, kinds) + One(Head(outbox).kind \in kinds) <= Count(outbox, kinds)
      BY <1>1, <3>1, <3>2, Taken
    <3>4. rest # <<>>
      BY <1>1, <2>2, <3>3
    <3>5. outbox' = <<Broken>> \o Tail(rest)
      BY <2>2, <3>1
    <3>6. /\ IsSequence(outbox') /\ Frames(outbox') \subseteq Frames(rest) \cup {Broken}
          /\ Len(outbox') = Len(rest)
          /\ \A kinds : "Broken" \notin kinds => Count(outbox', kinds) <= Count(rest, kinds)
      BY <3>3, <3>4, <3>5, CutOff
    <3>7. ASSUME NEW kinds, "Broken" \notin kinds PROVE Count(outbox', kinds) <= Count(outbox, kinds)
      <4>1. /\ Count(outbox', kinds) \in Nat /\ Count(rest, kinds) \in Nat
            /\ Count(outbox, kinds) \in Nat
        BY <1>1, <3>3, <3>6, Counted
      <4>2. Count(outbox', kinds) <= Count(rest, kinds) /\ Count(rest, kinds) <= Count(outbox, kinds)
        BY <3>3, <3>6, <3>7, <4>1 DEF One
      <4>. QED
        BY <4>1, <4>2
    <3>. QED
      BY <1>1, <2>2, <3>3, <3>6, <3>7
  <2>. QED
    BY <2>1, <2>2 DEF StationHearsBroken
<1>3. /\ Count(outbox', Speech) <= Count(outbox, Speech)
      /\ Count(outbox', {"Ack"}) <= Count(outbox, {"Ack"})
  BY <1>2 DEF Speech
<1>4. /\ Count(inbox, {"Heartbeat"}) \in Nat /\ Count(inbox, {"Command"}) \in Nat
      /\ Count(outbox, Speech) \in Nat /\ Count(outbox', Speech) \in Nat
      /\ Count(outbox, {"Ack"}) \in Nat /\ Count(outbox', {"Ack"}) \in Nat
      /\ Len(acks) \in Nat /\ restarts \in Nat
  BY <1>1, <1>2, Counted, LenProperties DEF LineInv, LineState, OnlyTheProbe, IsSequence
<1>5. OnlyTheProbe'
  BY <1>1, <1>2 DEF LineInv, OnlyTheProbe, Refusal
<1>6. LineState'
  BY <1>1, <1>2 DEF LineInv, LineState
<1>7. /\ BeatHeld' = BeatHeld /\ BeatHeld \in Nat /\ RefusalHeld' = RefusalHeld /\ RefusalHeld \in Nat
      /\ One(sentProbe)' = One(sentProbe) /\ One(sentProbe) \in Nat
  BY <1>1 DEF BeatHeld, RefusalHeld, One
<1>8. BeatsBounded'
  BY <1>1, <1>3, <1>4, <1>7 DEF LineInv, BeatsBounded
<1>9. ProbesBounded'
  BY <1>1, <1>3, <1>4, <1>7 DEF LineInv, ProbesBounded
<1>. QED
  BY <1>5, <1>6, <1>8, <1>9 DEF LineInv

LEMMA StationProbesKeepsInv == LineInv /\ StationProbes => LineInv'
<1> SUFFICES ASSUME LineInv, StationProbes PROVE LineInv'
  OBVIOUS
<1>1. /\ UNCHANGED <<phase, reply, outbox, batch, acks, restarts>>
      /\ sentProbe' = TRUE /\ sentProbe \in BOOLEAN
  BY DEF StationProbes, LineInv, LineState
<1>2. CASE sentProbe
  <2>1. UNCHANGED <<phase, reply, inbox, outbox, acks, sentProbe, restarts, batch>>
    BY <1>1, <1>2 DEF StationProbes
  <2>. QED
    BY <2>1, StationReadsKeepsInv DEF LineInv, LineState
<1>3. CASE ~sentProbe
  <2>1. Puts(Command(SerialProbe))
    BY <1>3 DEF StationProbes
  <2>2. IsSequence(inbox) /\ IsSequence(outbox) /\ IsSequence(acks)
    BY DEF LineInv, OnlyTheProbe
  <2>3. \A kinds : /\ Count(inbox, kinds) \in Nat /\ Count(inbox', kinds) \in Nat
                   /\ Count(outbox, kinds) \in Nat
    BY <2>1, <2>2, PutsFacts, Counted
  <2>4. OnlyTheProbe'
    BY <1>1, <2>1, <2>2, PutsFacts, FrameKinds DEF LineInv, OnlyTheProbe
  <2>5. LineState'
    BY <1>1 DEF LineInv, LineState
  <2>6. BeatHeld' = BeatHeld /\ BeatHeld \in Nat /\ RefusalHeld' = RefusalHeld /\ RefusalHeld \in Nat
    BY <1>1 DEF BeatHeld, RefusalHeld, One
  <2>7. BeatsBounded'
    <3>1. Count(inbox', {"Heartbeat"}) <= Count(inbox, {"Heartbeat"})
      BY <2>1, <2>2, <2>3, PutsFacts, FrameKinds DEF One
    <3>. QED
      BY <1>1, <2>3, <2>6, <3>1 DEF LineInv, LineState, BeatsBounded
  <2>8. ProbesBounded'
    <3>1. Count(inbox', {"Command"}) <= Count(inbox, {"Command"}) + 1
      BY <2>1, <2>2, <2>3, PutsFacts, FrameKinds DEF One
    <3>2. Len(acks) \in Nat
      BY <2>2, LenProperties DEF IsSequence
    <3>3. One(sentProbe) = 0 /\ One(sentProbe)' = 1
      BY <1>1, <1>3 DEF One
    <3>. QED
      BY <1>1, <2>3, <2>6, <3>1, <3>2, <3>3 DEF LineInv, ProbesBounded
  <2>. QED
    BY <2>4, <2>5, <2>7, <2>8 DEF LineInv
<1>. QED
  BY <1>1, <1>2, <1>3

-----------------------------------------------------------------------------
(* The steps of the node                                                   *)

\* What a step of the node has to show: it turns frames into others and adds none.
LEMMA NodeKeepsInv ==
    ASSUME LineInv, UNCHANGED <<batch, sentProbe, acks, restarts>>,
           OnlyTheProbe', phase' \in Phase, Len(outbox) <= Len(outbox'),
           Count(inbox', {"Heartbeat"}) + Count(outbox', Speech) + BeatHeld'
               <= Count(inbox, {"Heartbeat"}) + Count(outbox, Speech) + BeatHeld,
           Count(inbox', {"Command"}) + Count(outbox', {"Ack"}) + RefusalHeld'
               <= Count(inbox, {"Command"}) + Count(outbox, {"Ack"}) + RefusalHeld
    PROVE  LineInv'
<1>1. /\ IsSequence(inbox) /\ IsSequence(outbox) /\ IsSequence(acks)
      /\ IsSequence(inbox') /\ IsSequence(outbox')
  BY DEF LineInv, OnlyTheProbe
<1>2. \A kinds : /\ Count(inbox, kinds) \in Nat /\ Count(inbox', kinds) \in Nat
                 /\ Count(outbox, kinds) \in Nat /\ Count(outbox', kinds) \in Nat
  BY <1>1, Counted
<1>3. Len(acks) \in Nat /\ Len(outbox) \in Nat /\ Len(outbox') \in Nat
  BY <1>1, LenProperties DEF IsSequence
<1>4. /\ BeatHeld \in Nat /\ BeatHeld' \in Nat /\ RefusalHeld \in Nat /\ RefusalHeld' \in Nat
      /\ One(sentProbe)' = One(sentProbe) /\ One(sentProbe) \in Nat
  BY DEF BeatHeld, RefusalHeld, One
<1>5. LineState'
  BY <1>3 DEF LineInv, LineState
<1>6. BeatsBounded'
  <2> DEFINE here == Count(inbox, {"Heartbeat"}) + Count(outbox, Speech) + BeatHeld
             there == Count(inbox', {"Heartbeat"}) + Count(outbox', Speech) + BeatHeld'
  <2>1. /\ Count(inbox, {"Heartbeat"}) \in Nat /\ Count(outbox, Speech) \in Nat
        /\ Count(inbox', {"Heartbeat"}) \in Nat /\ Count(outbox', Speech) \in Nat
    BY <1>2
  <2>2. here \in Nat /\ there \in Nat
    BY <1>4, <2>1
  <2>3. there <= here
    OBVIOUS
  <2>4. here <= restarts + 1 /\ restarts \in Nat /\ restarts' = restarts
    BY DEF LineInv, LineState, BeatsBounded
  <2> HIDE DEF here, there
  <2>5. there <= restarts' + 1
    BY <2>2, <2>3, <2>4
  <2>. QED
    BY <2>5 DEF there, BeatsBounded, Speech
<1>7. ProbesBounded'
  <2> DEFINE here == Count(inbox, {"Command"}) + Count(outbox, {"Ack"}) + RefusalHeld
             there == Count(inbox', {"Command"}) + Count(outbox', {"Ack"}) + RefusalHeld'
  <2>1. /\ Count(inbox, {"Command"}) \in Nat /\ Count(outbox, {"Ack"}) \in Nat
        /\ Count(inbox', {"Command"}) \in Nat /\ Count(outbox', {"Ack"}) \in Nat
    BY <1>2
  <2>2. there <= here
    OBVIOUS
  <2>3. here + Len(acks) <= One(sentProbe)
    BY <1>3, <1>4, <2>1 DEF LineInv, ProbesBounded
  <2>4. here \in Nat /\ there \in Nat
    BY <1>4, <2>1
  <2> HIDE DEF here, there
  <2>5. there + Len(acks) <= One(sentProbe)
    BY <1>3, <1>4, <2>2, <2>3, <2>4
  <2>6. Count(inbox', {"Command"}) + Count(outbox', {"Ack"}) + Len(acks') + RefusalHeld'
            = there + Len(acks)
    BY <1>3, <1>4, <2>1 DEF there
  <2>7. Count(inbox', {"Command"}) + Count(outbox', {"Ack"}) + Len(acks') + RefusalHeld'
            <= One(sentProbe)'
    BY <1>4, <2>5, <2>6
  <2>. QED
    BY <2>7 DEF ProbesBounded
<1>. QED
  BY <1>5, <1>6, <1>7 DEF LineInv

\* Where the node waits it holds nothing.
LEMMA NothingHeld ==
    ASSUME phase \in {"read", "stopped"}
    PROVE  BeatHeld = 0 /\ RefusalHeld = 0
  BY DEF BeatHeld, RefusalHeld, One

LEMMA RunKeepsInv ==
    ASSUME LineInv, Run, UNCHANGED <<stationVars, restarts>>
    PROVE  LineInv'
<1>1. /\ phase = "setup" /\ phase' = "write" /\ reply' = Handshake(Manifest)
      /\ UNCHANGED <<inbox, outbox>> /\ UNCHANGED <<batch, sentProbe, acks, restarts>>
  BY DEF Run, stationVars
<1>2. reply'.kind = "Handshake"
  BY <1>1, FrameKinds
<1>3. OnlyTheProbe' /\ phase' \in Phase
  BY <1>1, <1>2 DEF LineInv, OnlyTheProbe, Speech, Phase
<1>4. BeatHeld' = 1 /\ BeatHeld = 1 /\ RefusalHeld' = 0 /\ RefusalHeld = 0
  BY <1>1, <1>2 DEF BeatHeld, RefusalHeld, One, Speech
<1>5. /\ Count(inbox, {"Heartbeat"}) \in Nat /\ Count(outbox, Speech) \in Nat
      /\ Count(inbox, {"Command"}) \in Nat /\ Count(outbox, {"Ack"}) \in Nat /\ Len(outbox) \in Nat
  BY Counted, LenProperties DEF LineInv, OnlyTheProbe, IsSequence
<1>. QED
  BY <1>1, <1>3, <1>4, <1>5, NodeKeepsInv

LEMMA SendKeepsInv ==
    ASSUME LineInv, Send, UNCHANGED <<stationVars, restarts>>
    PROVE  LineInv'
<1>1. /\ phase = "write" /\ phase' = "read" /\ outbox' = Append(outbox, reply)
      /\ UNCHANGED inbox /\ UNCHANGED <<batch, sentProbe, acks, restarts>>
  BY DEF Send, stationVars
<1>2. IsSequence(inbox) /\ IsSequence(outbox) /\ (reply.kind \in Speech \/ reply = Refusal)
  BY <1>1 DEF LineInv, OnlyTheProbe
<1>3. OnlyTheProbe' /\ phase' \in Phase
  BY <1>1, <1>2, Added DEF LineInv, OnlyTheProbe, Phase
<1>4. /\ Count(inbox, {"Heartbeat"}) \in Nat /\ Count(outbox, Speech) \in Nat
      /\ Count(inbox, {"Command"}) \in Nat /\ Count(outbox, {"Ack"}) \in Nat /\ Len(outbox) \in Nat
  BY <1>2, Counted, LenProperties DEF IsSequence
<1>5. Count(outbox', Speech) = Count(outbox, Speech) + One(reply.kind \in Speech)
  BY <1>1, <1>2, Added
<1>6. Count(outbox', {"Ack"}) = Count(outbox, {"Ack"}) + One(reply.kind \in {"Ack"})
  BY <1>1, <1>2, Added
<1>7. BeatHeld = One(reply.kind \in Speech) /\ RefusalHeld = One(reply.kind \in {"Ack"})
  BY <1>1 DEF BeatHeld, RefusalHeld, One
<1>8. BeatHeld' = 0 /\ RefusalHeld' = 0
  BY <1>1 DEF BeatHeld, RefusalHeld, One
<1>9. One(reply.kind \in Speech) \in Nat /\ One(reply.kind \in {"Ack"}) \in Nat
  BY DEF One
<1>10. Len(outbox') = Len(outbox) + 1
  BY <1>1, <1>2, Added
<1>. QED
  BY <1>1, <1>3, <1>4, <1>5, <1>6, <1>7, <1>8, <1>9, <1>10, NodeKeepsInv

\* The node takes a frame from the line and has, or has no, answer to it.
LEMMA TakesKeepsInv ==
    ASSUME LineInv, UNCHANGED <<stationVars, restarts>>, UNCHANGED outbox,
           phase = "read", inbox # <<>>, inbox' = Tail(inbox), NEW frame, frame = Head(inbox),
           \/ phase' \in {"read", "stopped"}
           \/ phase' = "write" /\ frame.kind = "Heartbeat" /\ reply' = Heartbeat
           \/ phase' = "write" /\ frame.kind = "Command" /\ reply' = Refusal
    PROVE  LineInv'
<1>1. UNCHANGED <<batch, sentProbe, acks, restarts>>
  BY DEF stationVars
<1>2. IsSequence(inbox) /\ IsSequence(outbox) /\ BeatHeld = 0 /\ RefusalHeld = 0
  BY NothingHeld DEF LineInv, OnlyTheProbe
<1>3. OnlyTheProbe' /\ phase' \in Phase
  BY <1>1, <1>2, Taken, FrameKinds DEF LineInv, OnlyTheProbe, Phase, Speech
<1>4. IsSequence(inbox') /\ Len(outbox) \in Nat
  BY <1>2, Taken, LenProperties DEF IsSequence
<1>5. /\ Count(inbox, {"Heartbeat"}) \in Nat /\ Count(outbox, Speech) \in Nat
      /\ Count(inbox, {"Command"}) \in Nat /\ Count(outbox, {"Ack"}) \in Nat
      /\ Count(inbox', {"Heartbeat"}) \in Nat /\ Count(inbox', {"Command"}) \in Nat
  BY <1>2, <1>4, Counted
<1>6. Count(inbox', {"Heartbeat"}) + One(frame.kind \in {"Heartbeat"}) <= Count(inbox, {"Heartbeat"})
  BY <1>2, Taken
<1>7. Count(inbox', {"Command"}) + One(frame.kind \in {"Command"}) <= Count(inbox, {"Command"})
  BY <1>2, Taken
<1>8. CASE phase' \in {"read", "stopped"}
  <2>1. BeatHeld' = 0 /\ RefusalHeld' = 0
    BY <1>8 DEF BeatHeld, RefusalHeld, One
  <2>2. One(frame.kind \in {"Heartbeat"}) \in Nat /\ One(frame.kind \in {"Command"}) \in Nat
    BY DEF One
  <2>. QED
    BY <1>1, <1>2, <1>3, <1>4, <1>5, <1>6, <1>7, <2>1, <2>2, NodeKeepsInv
<1>9. CASE phase' = "write" /\ frame.kind = "Heartbeat" /\ reply' = Heartbeat
  <2>1. BeatHeld' = 1 /\ RefusalHeld' = 0
    BY <1>9, FrameKinds DEF BeatHeld, RefusalHeld, One, Speech
  <2>2. One(frame.kind \in {"Heartbeat"}) = 1 /\ One(frame.kind \in {"Command"}) = 0
    BY <1>9 DEF One
  <2>. QED
    BY <1>1, <1>2, <1>3, <1>4, <1>5, <1>6, <1>7, <2>1, <2>2, NodeKeepsInv
<1>10. CASE phase' = "write" /\ frame.kind = "Command" /\ reply' = Refusal
  <2>1. BeatHeld' = 0 /\ RefusalHeld' = 1
    BY <1>10, FrameKinds DEF BeatHeld, RefusalHeld, One, Speech
  <2>2. One(frame.kind \in {"Heartbeat"}) = 0 /\ One(frame.kind \in {"Command"}) = 1
    BY <1>10 DEF One
  <2>. QED
    BY <1>1, <1>2, <1>3, <1>4, <1>5, <1>6, <1>7, <2>1, <2>2, NodeKeepsInv
<1>. QED
  BY <1>8, <1>9, <1>10

\* A command on the line is the probe, and the node refuses it.
LEMMA ServeRefuses ==
    ASSUME LineInv, NEW id \in CommandId, NEW success \in BOOLEAN, Serve(id, success)
    PROVE  reply' = Refusal
<1>1. /\ inbox # <<>> /\ Command(id) = Head(inbox) /\ reply' = Ack(id, success)
      /\ Server(id) = NoOne => ~success
  BY DEF Serve, Reads
<1>2. Command(id) = Command(SerialProbe)
  BY <1>1, Taken, FrameKinds DEF LineInv, OnlyTheProbe
<1>3. id = SerialProbe
  BY <1>2, FrameKinds
<1>4. success = FALSE
  BY <1>1, <1>3, NobodyServesTheProbe
<1>. QED
  BY <1>1, <1>3, <1>4 DEF Refusal

LEMMA NodeRunsKeepsInv == LineInv /\ NodeRuns => LineInv'
<1> SUFFICES ASSUME LineInv, NodeRuns PROVE LineInv'
  OBVIOUS
<1>1. UNCHANGED <<stationVars, restarts>>
  BY DEF NodeRuns
<1>2. CASE Run
  BY <1>1, <1>2, RunKeepsInv
<1>3. CASE Send
  BY <1>1, <1>3, SendKeepsInv
<1>4. ASSUME NEW id \in CommandId, NEW success \in BOOLEAN, Serve(id, success)
      PROVE  LineInv'
  <2>1. /\ phase = "read" /\ phase' = "write" /\ inbox # <<>> /\ inbox' = Tail(inbox)
        /\ Command(id) = Head(inbox) /\ UNCHANGED outbox
    BY <1>4 DEF Serve, Reads
  <2>2. reply' = Refusal /\ Command(id).kind = "Command"
    BY <1>4, ServeRefuses, FrameKinds
  <2>. QED
    BY <1>1, <2>1, <2>2, TakesKeepsInv
<1>5. CASE Echo
  <2>1. /\ phase = "read" /\ phase' = "write" /\ inbox # <<>> /\ inbox' = Tail(inbox)
        /\ Heartbeat = Head(inbox) /\ UNCHANGED outbox /\ reply' = Heartbeat
        /\ Heartbeat.kind = "Heartbeat"
    BY <1>5, FrameKinds DEF Echo, Reads
  <2>. QED
    BY <1>1, <2>1, TakesKeepsInv
<1>6. CASE Ignore
  BY <1>1, <1>6, TakesKeepsInv DEF Ignore, Reads
<1>7. CASE Reject
  BY <1>1, <1>7, TakesKeepsInv DEF Reject, Reads
<1>. QED
  BY <1>2, <1>3, <1>4, <1>5, <1>6, <1>7 DEF NodeRuns

LEMMA NodeBuildsKeepsInv ==
    ASSUME LineInv, NEW cap \in Capabilities, NodeBuilds(cap)
    PROVE  LineInv'
<1>1. UNCHANGED <<phase, reply, inbox, outbox, acks, sentProbe, restarts, batch>>
  BY DEF NodeBuilds, Register, stationVars
<1>. QED
  BY <1>1, StationReadsKeepsInv DEF LineInv, LineState

\* A frame cut off while it is written adds nothing that counts.
LEMMA TornWrite ==
    ASSUME LineInv, outbox' \in {outbox, Append(outbox, Broken)}
    PROVE  /\ IsSequence(outbox') /\ Frames(outbox') \subseteq Frames(outbox) \cup {Broken}
           /\ Len(outbox) \in Nat /\ Len(outbox') \in Nat /\ Len(outbox) <= Len(outbox')
           /\ Count(outbox', Speech) = Count(outbox, Speech)
           /\ Count(outbox', {"Ack"}) = Count(outbox, {"Ack"})
<1>1. IsSequence(outbox) /\ Len(outbox) \in Nat
  BY LenProperties DEF LineInv, OnlyTheProbe, IsSequence
<1>2. CASE outbox' = outbox
  BY <1>1, <1>2
<1>3. CASE outbox' = Append(outbox, Broken)
  <2>1. /\ IsSequence(outbox') /\ Frames(outbox') = Frames(outbox) \cup {Broken}
        /\ Len(outbox') = Len(outbox) + 1
        /\ Count(outbox', Speech) = Count(outbox, Speech) + One(Broken.kind \in Speech)
        /\ Count(outbox', {"Ack"}) = Count(outbox, {"Ack"}) + One(Broken.kind \in {"Ack"})
    BY <1>1, <1>3, Added
  <2>2. One(Broken.kind \in Speech) = 0 /\ One(Broken.kind \in {"Ack"}) = 0
    BY FrameKinds DEF One, Speech
  <2>3. Count(outbox, Speech) \in Nat /\ Count(outbox, {"Ack"}) \in Nat
    BY <1>1, Counted
  <2>. QED
    BY <1>1, <2>1, <2>2, <2>3
<1>. QED
  BY <1>2, <1>3

LEMMA NodeFailsKeepsInv == LineInv /\ NodeFails => LineInv'
<1> SUFFICES ASSUME LineInv, NodeFails PROVE LineInv'
  OBVIOUS
<1>1. /\ phase' = "stopped" /\ UNCHANGED <<reply, inbox>>
      /\ outbox' \in {outbox, Append(outbox, Broken)}
      /\ UNCHANGED <<batch, sentProbe, acks, restarts>>
  BY DEF NodeFails, SendFails, SendBreaksOff, ReadFails, stationVars
<1>2. OnlyTheProbe' /\ phase' \in Phase
  BY <1>1, TornWrite DEF LineInv, OnlyTheProbe, Phase, Refusal
<1>3. /\ BeatHeld' = 0 /\ RefusalHeld' = 0 /\ BeatHeld \in Nat /\ RefusalHeld \in Nat
  BY <1>1 DEF BeatHeld, RefusalHeld, One
<1>4. /\ Count(inbox, {"Heartbeat"}) \in Nat /\ Count(outbox, Speech) \in Nat
      /\ Count(inbox, {"Command"}) \in Nat /\ Count(outbox, {"Ack"}) \in Nat
  BY Counted DEF LineInv, OnlyTheProbe
<1>5. /\ Count(inbox', {"Heartbeat"}) + Count(outbox', Speech) + BeatHeld'
               <= Count(inbox, {"Heartbeat"}) + Count(outbox, Speech) + BeatHeld
      /\ Count(inbox', {"Command"}) + Count(outbox', {"Ack"}) + RefusalHeld'
               <= Count(inbox, {"Command"}) + Count(outbox, {"Ack"}) + RefusalHeld
  BY <1>1, <1>3, <1>4, TornWrite
<1>. QED
  BY <1>1, <1>2, <1>5, TornWrite, NodeKeepsInv

\* A reset loses what the node was saying and starts one handshake.
LEMMA RestartKeepsInv == LineInv /\ Restart => LineInv'
<1> SUFFICES ASSUME LineInv, Restart PROVE LineInv'
  OBVIOUS
<1>1. /\ phase' = "setup" /\ restarts' = restarts + 1 /\ reply' = NoFrame
      /\ UNCHANGED <<batch, sentProbe, acks>>
      /\ outbox' \in {outbox, Append(outbox, Broken)}
      /\ \/ inbox' = <<>>
         \/ inbox # <<>> /\ inbox' = <<Broken>> \o Tail(inbox)
  BY DEF Restart, stationVars
<1>2. IsSequence(inbox) /\ IsSequence(outbox) /\ IsSequence(acks)
  BY DEF LineInv, OnlyTheProbe
<1>3. /\ IsSequence(inbox') /\ Frames(inbox') \subseteq Frames(inbox) \cup {Broken}
      /\ Count(inbox', {"Heartbeat"}) <= Count(inbox, {"Heartbeat"})
      /\ Count(inbox', {"Command"}) <= Count(inbox, {"Command"})
  <2>1. CASE inbox' = <<>>
    <3>1. <<>> \in Seq({}) /\ Len(<<>>) = 0
      OBVIOUS
    <3>2. IsSequence(inbox') /\ Frames(inbox') = {}
      BY <2>1, <3>1 DEF IsSequence, Frames
    <3>3. Count(inbox', {"Heartbeat"}) = 0 /\ Count(inbox', {"Command"}) = 0
      BY <2>1, CountEmpty
    <3>4. Count(inbox, {"Heartbeat"}) \in Nat /\ Count(inbox, {"Command"}) \in Nat
      BY <1>2, Counted
    <3>. QED
      BY <3>2, <3>3, <3>4
  <2>2. CASE inbox # <<>> /\ inbox' = <<Broken>> \o Tail(inbox)
    BY <1>2, <2>2, CutOff
  <2>. QED
    BY <1>1, <2>1, <2>2
<1>4. /\ Count(inbox, {"Heartbeat"}) \in Nat /\ Count(outbox, Speech) \in Nat
      /\ Count(inbox, {"Command"}) \in Nat /\ Count(outbox, {"Ack"}) \in Nat
      /\ Count(inbox', {"Heartbeat"}) \in Nat /\ Count(inbox', {"Command"}) \in Nat
  BY <1>2, <1>3, Counted
<1>5. Len(acks) \in Nat /\ restarts \in Nat
  BY <1>2, LenProperties DEF IsSequence, LineInv, LineState
<1>6. OnlyTheProbe'
  BY <1>1, <1>2, <1>3, FrameKinds, TornWrite DEF LineInv, OnlyTheProbe, Refusal
<1>7. LineState'
  BY <1>1, <1>5, TornWrite DEF LineInv, LineState, Phase
<1>8. /\ BeatHeld' = 1 /\ BeatHeld \in Nat /\ RefusalHeld' = 0 /\ RefusalHeld \in Nat
      /\ One(sentProbe)' = One(sentProbe) /\ One(sentProbe) \in Nat
  BY <1>1 DEF BeatHeld, RefusalHeld, One
<1>9. BeatsBounded'
  <2>1. Count(inbox, {"Heartbeat"}) + Count(outbox, Speech) + BeatHeld <= restarts + 1
    BY DEF LineInv, BeatsBounded
  <2>2. Count(inbox', {"Heartbeat"}) + Count(outbox, Speech) + 1 <= restarts + 1 + 1
    BY <1>3, <1>4, <1>5, <1>8, <2>1
  <2>. QED
    BY <1>1, <1>8, <2>2, TornWrite DEF BeatsBounded
<1>10. ProbesBounded'
  <2>1. Count(inbox, {"Command"}) + Count(outbox, {"Ack"}) + Len(acks) + RefusalHeld <= One(sentProbe)
    BY DEF LineInv, ProbesBounded
  <2>2. Count(inbox', {"Command"}) + Count(outbox, {"Ack"}) + Len(acks) + 0 <= One(sentProbe)
    BY <1>3, <1>4, <1>5, <1>8, <2>1
  <2>. QED
    BY <1>1, <1>8, <2>2, TornWrite DEF ProbesBounded
<1>. QED
  BY <1>6, <1>7, <1>9, <1>10 DEF LineInv

-----------------------------------------------------------------------------
LEMMA NextLineInv == LineInv /\ [LineNext]_lineVars => LineInv'
<1> SUFFICES ASSUME LineInv, [LineNext]_lineVars PROVE LineInv'
  OBVIOUS
<1>1. CASE StationReads
  <2>1. /\ UNCHANGED <<phase, reply, inbox, outbox, acks, sentProbe, restarts>>
        /\ batch' \in (IF sentProbe /\ Head(outbox) # Broken THEN 1 ELSE 0)..Len(outbox)
    BY <1>1 DEF StationReads, reactorVars
  <2>2. Len(outbox) \in Nat
    BY LenProperties DEF LineInv, OnlyTheProbe, IsSequence
  <2>3. batch' \in Nat /\ batch' <= Len(outbox)
    BY <2>1, <2>2
  <2>. QED
    BY <2>1, <2>3, StationReadsKeepsInv
<1>2. CASE UNCHANGED lineVars
  BY <1>2, StationReadsKeepsInv DEF lineVars, reactorVars, stationVars, LineInv, LineState
<1>3. CASE StationReadFails
  <2>1. UNCHANGED <<phase, reply, inbox, outbox, acks, sentProbe, restarts, batch>>
    BY <1>3 DEF StationReadFails, reactorVars
  <2>. QED
    BY <2>1, StationReadsKeepsInv DEF LineInv, LineState
<1>. QED
  BY <1>1, <1>2, <1>3, StationBeatsKeepsInv, StationHearsAckKeepsInv, StationProbesKeepsInv,
     StationHearsBrokenKeepsInv,
     NodeRunsKeepsInv, NodeBuildsKeepsInv, NodeFailsKeepsInv, RestartKeepsInv
     DEF LineNext, StationStep

\* The node and the station each echo the other's heartbeats, and there is never
\* more than one on its way for every time the node was started, so that the line
\* does not fill up, through lost and broken frames and resets.
LEMMA HeartbeatsBounded == LineSpec => []HeartbeatsDoNotMultiply
<1>1. LineInv => HeartbeatsDoNotMultiply
  BY DEF LineInv, BeatsBounded, BeatHeld, Speech, One, HeartbeatsDoNotMultiply, Beats
<1>. QED
  BY InitLineInv, NextLineInv, <1>1, PTL DEF LineSpec

\* The probe is sent once and refused at most once, also across resets.
LEMMA ProbeRefusedOnce == LineSpec => []ProbeIsRefusedOnce
<1>1. LineInv => ProbeIsRefusedOnce
  <2> SUFFICES ASSUME LineInv PROVE ProbeIsRefusedOnce
    OBVIOUS
  <2>1. \A i \in 1..Len(acks) : acks[i] = Ack(SerialProbe, FALSE)
    BY DEF LineInv, OnlyTheProbe, Frames, Refusal
  <2>. QED
    BY <2>1 DEF LineInv, ProbesBounded, RefusalHeld, One, ProbeIsRefusedOnce, Probes
<1>. QED
  BY InitLineInv, NextLineInv, <1>1, PTL DEF LineSpec

-----------------------------------------------------------------------------
(* What a calm line keeps                                                  *)

BeatSomewhere ==
    \/ \E frame \in Frames(inbox) : frame.kind = "Heartbeat"
    \/ \E frame \in Frames(outbox) : frame.kind \in Speech
    \/ phase = "setup"
    \/ phase = "write" /\ reply.kind \in Speech

ProbeSomewhere ==
    \/ \E frame \in Frames(inbox) : frame.kind = "Command"
    \/ \E frame \in Frames(outbox) : frame.kind = "Ack"
    \/ Frames(acks) # {}
    \/ phase = "write" /\ reply.kind = "Ack"

\* Nothing on a calm line is broken, so that the node has no reason to stop.
CalmInv ==
    calm => /\ phase # "stopped" /\ Broken \notin Frames(inbox)
            /\ BeatSomewhere
            /\ restarts = 0 /\ sentProbe => ProbeSomewhere

LEMMA TakenOne ==
    ASSUME NEW frames, IsSequence(frames), frames # <<>>
    PROVE  Frames(frames) \subseteq Frames(Tail(frames)) \cup {Head(frames)}
<1>1. PICK S : frames \in Seq(S)
  BY DEF IsSequence
<1>2. PICK n \in Nat : n = Len(frames) /\ n > 0 /\ Head(frames) = frames[1]
  BY <1>1, LenProperties, EmptySeq
<1>3. PICK rest : rest = Tail(frames)
  OBVIOUS
<1>4. Len(rest) = n - 1 /\ \A i \in 1..(n - 1) : rest[i] = frames[i + 1]
  BY <1>1, <1>2, <1>3, HeadTailProperties
<1>5. ASSUME NEW i \in 1..n, i # 1 PROVE frames[i] \in Frames(rest)
  <2>1. i - 1 \in 1..(n - 1) /\ (i - 1) + 1 = i
    BY <1>5
  <2>2. rest[i - 1] = frames[i]
    BY <1>4, <2>1
  <2>. QED
    BY <1>4, <2>1, <2>2 DEF Frames
<1>. QED
  BY <1>2, <1>3, <1>5 DEF Frames

\* A frame that is there is counted.
LEMMA SomeAreCounted ==
    ASSUME NEW frames, IsSequence(frames), NEW frame \in Frames(frames), NEW kinds,
           frame.kind \in kinds
    PROVE  Count(frames, kinds) > 0
<1>1. PICK i \in 1..Len(frames) : frame = frames[i]
  BY DEF Frames
<1>2. i \in Places(frames, kinds)
  BY <1>1 DEF Places
<1>3. IsFiniteSet(Places(frames, kinds)) /\ Count(frames, kinds) \in Nat
  BY PlacesFinite DEF IsSequence
<1>4. Count(frames, kinds) # 0
  BY <1>2, <1>3, FS_EmptySet DEF Count
<1>. QED
  BY <1>3, <1>4

LEMMA InitCalmInv == LineInit => CalmInv
<1> SUFFICES ASSUME LineInit PROVE CalmInv
  OBVIOUS
<1>1. inbox = <<>> /\ phase = "setup" /\ sentProbe = FALSE
  BY DEF LineInit, ReactorInit
<1>2. Frames(<<>>) = {}
  BY DEF Frames
<1>. QED
  BY <1>1, <1>2 DEF CalmInv, BeatSomewhere

\* While the line stays calm a write of the station arrives.
LEMMA CalmPuts ==
    ASSUME LineInv, CalmInv, NEW frame, Puts(frame), calm', frame # Broken
    PROVE  /\ calm /\ Frames(inbox') = Frames(inbox) \cup {frame}
           /\ Broken \notin Frames(inbox')
<1>1. calm /\ inbox' = Append(inbox, frame)
  BY DEF Puts
<1>. QED
  BY <1>1, Added DEF LineInv, OnlyTheProbe, CalmInv

\* The station takes a frame off the line and leaves the others.
LEMMA CalmHears ==
    ASSUME LineInv, NEW frame, Hears(frame)
    PROVE  /\ Frames(outbox) \subseteq Frames(outbox') \cup {frame}
           /\ UNCHANGED <<phase, reply, sentProbe, restarts>>
<1>1. outbox # <<>>
  <2>1. Len(<<>>) = 0
    OBVIOUS
  <2>. QED
    BY <2>1 DEF Hears, LineInv, LineState
<1>. QED
  BY <1>1, TakenOne DEF Hears, LineInv, OnlyTheProbe

LEMMA StationKeepsCalmInv ==
    ASSUME LineInv, CalmInv, StationStep
    PROVE  CalmInv'
<1> SUFFICES ASSUME calm' PROVE CalmInv'
  BY DEF CalmInv
<1>1. CASE StationReads
  <2>1. UNCHANGED <<phase, reply, inbox, outbox, acks, sentProbe, restarts, calm>>
    BY <1>1 DEF StationReads, reactorVars
  <2>. QED
    BY <2>1 DEF CalmInv, BeatSomewhere, ProbeSomewhere
<1>2. CASE StationBeats
  <2>1. PICK frame : Hears(frame) /\ frame.kind \in Speech
    BY <1>2, FrameKinds DEF StationBeats, Speech
  <2>2. Puts(Heartbeat) /\ acks' = acks
    BY <1>2 DEF StationBeats
  <2>3. Heartbeat # Broken /\ Heartbeat.kind = "Heartbeat" /\ frame.kind # "Ack"
    BY <2>1, FrameKinds DEF Speech
  <2>4. /\ calm /\ Frames(inbox') = Frames(inbox) \cup {Heartbeat} /\ Broken \notin Frames(inbox')
    BY <2>2, <2>3, CalmPuts
  <2>5. /\ Frames(outbox) \subseteq Frames(outbox') \cup {frame}
        /\ UNCHANGED <<phase, reply, sentProbe, restarts>>
    BY <2>1, CalmHears
  <2>6. BeatSomewhere'
    BY <2>3, <2>4 DEF BeatSomewhere
  <2>7. ProbeSomewhere => ProbeSomewhere'
    BY <2>2, <2>3, <2>4, <2>5 DEF ProbeSomewhere
  <2>. QED
    BY <2>4, <2>5, <2>6, <2>7 DEF CalmInv
<1>3. ASSUME NEW id \in CommandId, NEW success \in BOOLEAN, StationHearsAck(id, success)
      PROVE  CalmInv'
  <2>1. PICK frame : frame = Ack(id, success) /\ frame.kind = "Ack"
    BY FrameKinds
  <2>2. Hears(frame) /\ acks' = Append(acks, frame) /\ UNCHANGED <<inbox, calm>>
    BY <1>3, <2>1 DEF StationHearsAck
  <2>3. /\ Frames(outbox) \subseteq Frames(outbox') \cup {frame}
        /\ UNCHANGED <<phase, reply, sentProbe, restarts>>
    BY <2>2, CalmHears
  <2>4. frame.kind \notin Speech
    BY <2>1 DEF Speech
  <2>5. BeatSomewhere => BeatSomewhere'
    BY <2>2, <2>3, <2>4 DEF BeatSomewhere
  <2>6. ProbeSomewhere'
    <3>1. Frames(acks') = Frames(acks) \cup {frame}
      BY <2>2, Added DEF LineInv, OnlyTheProbe
    <3>. QED
      BY <3>1 DEF ProbeSomewhere
  <2>. QED
    BY <2>2, <2>3, <2>5, <2>6 DEF CalmInv
<1>4. CASE StationProbes
  <2>1. UNCHANGED <<phase, reply, outbox, acks, restarts>>
    BY <1>4 DEF StationProbes
  <2>2. CASE sentProbe
    <3>1. UNCHANGED <<inbox, calm>>
      BY <1>4, <2>2 DEF StationProbes
    <3>. QED
      BY <2>1, <2>2, <3>1 DEF CalmInv, BeatSomewhere, ProbeSomewhere
  <2>3. CASE ~sentProbe
    <3>1. PICK frame : frame = Command(SerialProbe) /\ frame.kind = "Command" /\ frame # Broken
      BY FrameKinds
    <3>2. Puts(frame)
      BY <1>4, <2>3, <3>1 DEF StationProbes
    <3>3. calm /\ Frames(inbox') = Frames(inbox) \cup {frame} /\ Broken \notin Frames(inbox')
      BY <3>1, <3>2, CalmPuts
    <3>4. ProbeSomewhere' /\ (BeatSomewhere => BeatSomewhere')
      BY <2>1, <3>1, <3>3 DEF ProbeSomewhere, BeatSomewhere
    <3>. QED
      BY <2>1, <3>3, <3>4 DEF CalmInv
  <2>. QED
    BY <2>2, <2>3
<1>5. CASE StationHearsBroken
  BY <1>5 DEF StationHearsBroken
<1>. QED
  BY <1>1, <1>2, <1>3, <1>4, <1>5 DEF StationStep

\* The node takes the frame at the head of a calm line, which is not broken.
LEMMA CalmReads ==
    ASSUME LineInv, CalmInv, calm, NEW frame, Reads(frame)
    PROVE  /\ phase = "read" /\ UNCHANGED outbox /\ frame # Broken
           /\ Frames(inbox) \subseteq Frames(inbox') \cup {frame}
           /\ Broken \notin Frames(inbox')
<1>1. /\ phase = "read" /\ UNCHANGED outbox
      /\ inbox # <<>> /\ frame = Head(inbox) /\ inbox' = Tail(inbox) /\ IsSequence(inbox)
  BY DEF Reads, LineInv, OnlyTheProbe
<1>2. frame \in Frames(inbox) /\ Frames(inbox') \subseteq Frames(inbox)
  BY <1>1, Taken
<1>. QED
  BY <1>1, <1>2, TakenOne DEF CalmInv

LEMMA NodeKeepsCalmInv ==
    ASSUME LineInv, CalmInv, NodeRuns
    PROVE  CalmInv'
<1> SUFFICES ASSUME calm' PROVE CalmInv'
  BY DEF CalmInv
<1>1. calm /\ UNCHANGED <<sentProbe, acks, restarts>>
  BY DEF NodeRuns, stationVars
<1>2. CASE Run
  <2>1. /\ phase = "setup" /\ phase' = "write" /\ reply' = Handshake(Manifest)
        /\ UNCHANGED <<inbox, outbox>> /\ reply'.kind = "Handshake"
    BY <1>2, FrameKinds DEF Run
  <2>2. BeatSomewhere' /\ (ProbeSomewhere => ProbeSomewhere')
    BY <1>1, <2>1 DEF BeatSomewhere, ProbeSomewhere, Speech
  <2>. QED
    BY <1>1, <2>1, <2>2 DEF CalmInv
<1>3. CASE Send
  <2>1. /\ phase = "write" /\ phase' = "read" /\ outbox' = Append(outbox, reply) /\ UNCHANGED inbox
        /\ IsSequence(outbox)
    BY <1>3 DEF Send, LineInv, OnlyTheProbe
  <2>2. Frames(outbox') = Frames(outbox) \cup {reply}
    BY <2>1, Added
  <2>3. (BeatSomewhere => BeatSomewhere') /\ (ProbeSomewhere => ProbeSomewhere')
    BY <1>1, <2>1, <2>2 DEF BeatSomewhere, ProbeSomewhere
  <2>. QED
    BY <1>1, <2>1, <2>3 DEF CalmInv
<1>4. ASSUME NEW id \in CommandId, NEW success \in BOOLEAN, Serve(id, success)
      PROVE  CalmInv'
  <2>1. PICK frame : Reads(frame) /\ frame.kind = "Command"
    BY <1>4, FrameKinds DEF Serve
  <2>2. phase' = "write" /\ reply'.kind = "Ack"
    BY <1>4, FrameKinds DEF Serve
  <2>3. /\ phase = "read" /\ UNCHANGED outbox /\ Frames(inbox) \subseteq Frames(inbox') \cup {frame}
        /\ Broken \notin Frames(inbox')
    BY <1>1, <2>1, CalmReads
  <2>4. (BeatSomewhere => BeatSomewhere') /\ ProbeSomewhere'
    BY <2>1, <2>2, <2>3 DEF BeatSomewhere, ProbeSomewhere
  <2>. QED
    BY <1>1, <2>2, <2>3, <2>4 DEF CalmInv
<1>5. CASE Echo
  <2>1. /\ Reads(Heartbeat) /\ phase' = "write" /\ reply' = Heartbeat
        /\ Heartbeat.kind = "Heartbeat"
    BY <1>5, FrameKinds DEF Echo
  <2>2. /\ phase = "read" /\ UNCHANGED outbox
        /\ Frames(inbox) \subseteq Frames(inbox') \cup {Heartbeat}
        /\ Broken \notin Frames(inbox')
    BY <1>1, <2>1, CalmReads
  <2>3. BeatSomewhere' /\ (ProbeSomewhere => ProbeSomewhere')
    BY <1>1, <2>1, <2>2 DEF BeatSomewhere, ProbeSomewhere, Speech
  <2>. QED
    BY <1>1, <2>1, <2>2, <2>3 DEF CalmInv
<1>6. CASE Ignore
  <2>1. Reads(Unexpected) /\ UNCHANGED <<phase, reply>> /\ Unexpected.kind = "Unexpected"
    BY <1>6 DEF Ignore, Unexpected
  <2>2. /\ phase = "read" /\ UNCHANGED outbox
        /\ Frames(inbox) \subseteq Frames(inbox') \cup {Unexpected}
        /\ Broken \notin Frames(inbox')
    BY <1>1, <2>1, CalmReads
  <2>3. (BeatSomewhere => BeatSomewhere') /\ (ProbeSomewhere => ProbeSomewhere')
    BY <1>1, <2>1, <2>2 DEF BeatSomewhere, ProbeSomewhere
  <2>. QED
    BY <1>1, <2>1, <2>2, <2>3 DEF CalmInv
<1>7. CASE Reject
  BY <1>1, <1>7, CalmReads DEF Reject
<1>. QED
  BY <1>2, <1>3, <1>4, <1>5, <1>6, <1>7 DEF NodeRuns

LEMMA NextCalmInv == LineInv /\ CalmInv /\ [LineNext]_lineVars => CalmInv'
<1> SUFFICES ASSUME LineInv, CalmInv, [LineNext]_lineVars PROVE CalmInv'
  OBVIOUS
<1>1. ASSUME NEW cap \in Capabilities, NodeBuilds(cap) PROVE CalmInv'
  <2>1. UNCHANGED <<phase, reply, inbox, outbox, acks, sentProbe, restarts, calm>>
    BY <1>1 DEF NodeBuilds, Register, stationVars
  <2>. QED
    BY <2>1 DEF CalmInv, BeatSomewhere, ProbeSomewhere
<1>2. CASE NodeFails
  BY <1>2 DEF NodeFails, CalmInv
<1>3. CASE Restart
  <2>1. phase' = "setup" /\ restarts' = restarts + 1 /\ (calm' => inbox' = <<>>)
    BY <1>3 DEF Restart
  <2>2. restarts' # 0
    BY <2>1 DEF LineInv, LineState
  <2>3. calm' => Broken \notin Frames(inbox')
    BY <2>1 DEF Frames
  <2>. QED
    BY <2>1, <2>2, <2>3 DEF CalmInv, BeatSomewhere
<1>4. CASE UNCHANGED lineVars
  <2>1. UNCHANGED <<phase, reply, inbox, outbox, acks, sentProbe, restarts, calm>>
    BY <1>4 DEF lineVars, reactorVars, stationVars
  <2>. QED
    BY <2>1 DEF CalmInv, BeatSomewhere, ProbeSomewhere
<1>. QED
  BY <1>1, <1>2, <1>3, <1>4, StationKeepsCalmInv, NodeKeepsCalmInv DEF LineNext, StationReadFails, CalmInv

LEMMA CalmLine == LineSpec => [](LineInv /\ CalmInv)
  BY InitLineInv, NextLineInv, InitCalmInv, NextCalmInv, PTL DEF LineSpec

\* While nothing fails a heartbeat is always on its way or about to be: the echo
\* of Node::run and of the station's drain loop never lose the last one.
LEMMA HeartbeatKept == LineSpec => []HeartbeatIsKept
<1>1. LineInv /\ CalmInv => HeartbeatIsKept
  <2> SUFFICES ASSUME LineInv, CalmInv, calm PROVE Beats > 0
    BY DEF HeartbeatIsKept
  <2>1. IsSequence(inbox) /\ IsSequence(outbox)
    BY DEF LineInv, OnlyTheProbe
  <2>2. Count(inbox, {"Heartbeat"}) \in Nat /\ Count(outbox, Speech) \in Nat
    BY <2>1, Counted
  <2>3. BeatHeld \in {0, 1} /\ Beats = Count(inbox, {"Heartbeat"}) + Count(outbox, Speech) + BeatHeld
    BY DEF Beats, BeatHeld, One, Speech
  <2>4. CASE \E frame \in Frames(inbox) : frame.kind = "Heartbeat"
    <3>1. Count(inbox, {"Heartbeat"}) > 0
      BY <2>1, <2>4, SomeAreCounted
    <3>. QED
      BY <2>2, <2>3, <3>1
  <2>5. CASE \E frame \in Frames(outbox) : frame.kind \in Speech
    <3>1. Count(outbox, Speech) > 0
      BY <2>1, <2>5, SomeAreCounted
    <3>. QED
      BY <2>2, <2>3, <3>1
  <2>6. CASE phase = "setup" \/ (phase = "write" /\ reply.kind \in Speech)
    <3>1. BeatHeld = 1
      BY <2>6 DEF BeatHeld, One
    <3>. QED
      BY <2>2, <2>3, <3>1
  <2>. QED
    BY <2>4, <2>5, <2>6 DEF CalmInv, BeatSomewhere
<1>. QED
  BY <1>1, CalmLine, PTL

\* Between the write of the probe and the refusal's arrival neither gets lost,
\* while nothing fails and the node is not reset.
LEMMA ProbeKept == LineSpec => []ProbeIsKept
<1>1. LineInv /\ CalmInv => ProbeIsKept
  <2> SUFFICES ASSUME LineInv, CalmInv, calm, restarts = 0, sentProbe PROVE Probes > 0
    BY DEF ProbeIsKept
  <2>1. IsSequence(inbox) /\ IsSequence(outbox) /\ IsSequence(acks)
    BY DEF LineInv, OnlyTheProbe
  <2>2. /\ Count(inbox, {"Command"}) \in Nat /\ Count(outbox, {"Ack"}) \in Nat
        /\ Len(acks) \in Nat
    BY <2>1, Counted, LenProperties DEF IsSequence
  <2>3. /\ RefusalHeld \in {0, 1}
        /\ Probes = Count(inbox, {"Command"}) + Count(outbox, {"Ack"}) + Len(acks) + RefusalHeld
    BY DEF Probes, RefusalHeld, One
  <2>4. CASE \E frame \in Frames(inbox) : frame.kind = "Command"
    <3>1. Count(inbox, {"Command"}) > 0
      BY <2>1, <2>4, SomeAreCounted
    <3>. QED
      BY <2>2, <2>3, <3>1
  <2>5. CASE \E frame \in Frames(outbox) : frame.kind = "Ack"
    <3>1. Count(outbox, {"Ack"}) > 0
      BY <2>1, <2>5, SomeAreCounted
    <3>. QED
      BY <2>2, <2>3, <3>1
  <2>6. CASE Frames(acks) # {}
    <3>1. Len(acks) > 0
      BY <2>2, <2>6 DEF Frames
    <3>. QED
      BY <2>2, <2>3, <3>1
  <2>7. CASE phase = "write" /\ reply.kind = "Ack"
    <3>1. RefusalHeld = 1
      BY <2>7 DEF RefusalHeld, One
    <3>. QED
      BY <2>2, <2>3, <3>1
  <2>. QED
    BY <2>4, <2>5, <2>6, <2>7 DEF CalmInv, ProbeSomewhere
<1>. QED
  BY <1>1, CalmLine, PTL

\* Whatever the line and the resets do, the two echo loops (Node::run and the
\* station's) make no heartbeat, and lose none while nothing fails.
THEOREM HeartbeatsAccountedFor == LineSpec => []HeartbeatsAreAccountedFor
<1>1. HeartbeatsDoNotMultiply /\ HeartbeatIsKept => HeartbeatsAreAccountedFor
  BY DEF HeartbeatsAreAccountedFor
<1>. QED
  BY HeartbeatsBounded, HeartbeatKept, <1>1, PTL

\* The station's one probe and its refusal are never doubled, and while nothing
\* fails and the node is not reset neither is lost between being sent and heard.
THEOREM ProbeAccountedFor == LineSpec => []ProbeIsAccountedFor
<1>1. ProbeIsRefusedOnce /\ ProbeIsKept => ProbeIsAccountedFor
  BY DEF ProbeIsAccountedFor
<1>. QED
  BY ProbeRefusedOnce, ProbeKept, <1>1, PTL

-----------------------------------------------------------------------------
(* Types of the line                                                       *)

\* What the node is writing is a frame.
LineTypes ==
    /\ LineTypeOK
    /\ phase = "write" => reply \in FromNode

\* What is on the line towards the station.
Heard == FromNode \cup {Broken}

LEMMA FramesOfNode ==
    /\ Heartbeat \in FromNode /\ Heartbeat \in ToNode /\ Broken \in ToNode
    /\ \A id \in CommandId : Command(id) \in ToNode
    /\ \A id \in CommandId, success \in BOOLEAN : Ack(id, success) \in FromNode
    /\ RegistryTypeOK => Handshake(Manifest) \in FromNode
<1>1. RegistryTypeOK => Handshake(Manifest) \in FromNode
  BY ManifestOfEntries DEF FromNode
<1>. QED
  BY <1>1 DEF FromNode, ToNode

LEMMA InitLineTypes == LineInit => LineTypes
<1> SUFFICES ASSUME LineInit PROVE LineTypes
  OBVIOUS
<1>1. /\ entries = <<>> /\ ota = FALSE /\ phase = "setup" /\ reply = NoFrame
      /\ inbox = <<>> /\ outbox = <<>> /\ acks = <<>>
      /\ station = "read" /\ batch = 0 /\ sentProbe = FALSE /\ restarts = 0 /\ calm = TRUE
  BY DEF LineInit, ReactorInit, RegistryInit
<1>2. RegistryTypeOK
  BY <1>1, EmptyRegistry
<1>3. /\ inbox \in Seq(ToNode) /\ outbox \in Seq(Heard) /\ acks \in Seq(FromNode)
      /\ Len(outbox) = 0
  BY <1>1
<1>4. batch \in 0..Len(outbox) /\ restarts \in 0..MaxRestarts
  BY <1>1, <1>3, StationAssumption
<1>. QED
  BY <1>1, <1>2, <1>3, <1>4 DEF LineTypes, LineTypeOK, Heard, Phase

\* What the station writes is a frame to the node or a part of one.
LEMMA PutsTyped ==
    ASSUME LineTypes, NEW frame \in ToNode, Puts(frame)
    PROVE  inbox' \in Seq(ToNode) /\ calm' \in BOOLEAN
<1>1. inbox \in Seq(ToNode) /\ calm \in BOOLEAN /\ Broken \in ToNode
  BY FramesOfNode DEF LineTypes, LineTypeOK, Heard
<1>2. \A f \in ToNode : Append(inbox, f) \in Seq(ToNode)
  BY <1>1, AppendProperties
<1>. QED
  BY <1>1, <1>2 DEF Puts

LEMMA HearsTyped ==
    ASSUME LineTypes, NEW frame, Hears(frame), inbox' \in Seq(ToNode),
           calm' \in BOOLEAN, acks' \in Seq(FromNode)
    PROVE  LineTypes'
<1>1. /\ batch \in 0..Len(outbox) /\ batch > 0 /\ outbox \in Seq(Heard) /\ Len(outbox) \in Nat
      /\ outbox' = Tail(outbox) /\ batch' = batch - 1
      /\ UNCHANGED <<registryVars, phase, reply, station, sentProbe, restarts>>
  BY LenProperties DEF Hears, LineTypes, LineTypeOK, Heard
<1>2. outbox # <<>>
  BY <1>1
<1>3. outbox' \in Seq(Heard) /\ Len(outbox') = Len(outbox) - 1
  BY <1>1, <1>2, HeadTailProperties
<1>4. batch' \in 0..Len(outbox')
  BY <1>1, <1>3
<1>. QED
  BY <1>1, <1>3, <1>4, RegistryStays DEF LineTypes, LineTypeOK, Heard

\* The station's variables stay: what the node has to show.
LEMMA NodeTyped ==
    ASSUME LineTypes, UNCHANGED stationVars, RegistryTypeOK', phase' \in Phase,
           inbox' \in Seq(ToNode), outbox' \in Seq(Heard), Len(outbox) <= Len(outbox'),
           reply' \in FromNode \cup {NoFrame}, phase' = "write" => reply' \in FromNode,
           restarts' \in 0..MaxRestarts, calm' \in BOOLEAN
    PROVE  LineTypes'
<1>1. /\ batch \in 0..Len(outbox) /\ outbox \in Seq(Heard) /\ Len(outbox) \in Nat
      /\ Len(outbox') \in Nat
  BY LenProperties DEF LineTypes, LineTypeOK, Heard
<1>2. batch' \in 0..Len(outbox')
  BY <1>1 DEF stationVars
<1>. QED
  BY <1>2 DEF LineTypes, LineTypeOK, Heard, stationVars

LEMMA NextLineTypes == LineTypes /\ [LineNext]_lineVars => LineTypes'
<1> SUFFICES ASSUME LineTypes, [LineNext]_lineVars PROVE LineTypes'
  OBVIOUS
<1> USE DEF reactorVars
<1>0. /\ RegistryTypeOK /\ phase \in Phase /\ reply \in FromNode \cup {NoFrame}
      /\ inbox \in Seq(ToNode) /\ outbox \in Seq(Heard) /\ acks \in Seq(FromNode)
      /\ Len(outbox) \in Nat /\ restarts \in 0..MaxRestarts /\ calm \in BOOLEAN
      /\ batch \in 0..Len(outbox) /\ sentProbe \in BOOLEAN
  BY LenProperties DEF LineTypes, LineTypeOK, Heard
<1>10. /\ Append(outbox, Broken) \in Seq(Heard)
       /\ Len(Append(outbox, Broken)) = Len(outbox) + 1
  <2>1. Broken \in Heard
    BY DEF Heard
  <2>. QED
    BY <1>0, <2>1, AppendProperties
<1>13. ASSUME outbox' \in {outbox, Append(outbox, Broken)}
       PROVE  outbox' \in Seq(Heard) /\ Len(outbox) <= Len(outbox')
  <2>1. CASE outbox' = outbox
    BY <1>0, <2>1
  <2>2. CASE outbox' = Append(outbox, Broken)
    <3>1. PICK longer \in Seq(Heard) : longer = Append(outbox, Broken) /\ Len(longer) = Len(outbox) + 1
      BY <1>10
    <3>2. outbox' = longer
      BY <2>2, <3>1
    <3>. QED
      BY <1>0, <3>1, <3>2
  <2>. QED
    BY <1>13, <2>1, <2>2
<1>1. CASE StationReads
  <2>1. /\ station' = "drain" /\ batch' \in (IF sentProbe /\ Head(outbox) # Broken THEN 1 ELSE 0)..Len(outbox)
        /\ UNCHANGED <<registryVars, phase, reply, inbox, outbox, sentProbe, acks, restarts, calm>>
    BY <1>1 DEF StationReads
  <2>2. batch' \in 0..Len(outbox)
    BY <1>0, <2>1
  <2>. QED
    BY <1>0, <2>1, <2>2, RegistryStays DEF LineTypes, LineTypeOK, Heard
<1>2. CASE StationBeats
  <2>1. PICK frame : Hears(frame)
    BY <1>2 DEF StationBeats
  <2>2. Puts(Heartbeat) /\ UNCHANGED acks
    BY <1>2 DEF StationBeats
  <2>. QED
    BY <1>0, <2>1, <2>2, PutsTyped, HearsTyped, FramesOfNode
<1>3. ASSUME NEW id \in CommandId, NEW success \in BOOLEAN, StationHearsAck(id, success)
      PROVE  LineTypes'
  <2>1. /\ Hears(Ack(id, success)) /\ UNCHANGED <<inbox, calm>>
        /\ acks' = Append(acks, Ack(id, success))
    BY <1>3 DEF StationHearsAck
  <2>2. acks' \in Seq(FromNode)
    BY <1>0, <2>1, FramesOfNode, AppendProperties
  <2>. QED
    BY <1>0, <2>1, <2>2, HearsTyped
<1>4. CASE StationProbes
  <2>1. /\ station' = "read" /\ sentProbe' = TRUE
        /\ UNCHANGED <<registryVars, phase, reply, outbox, batch, acks, restarts>>
    BY <1>4 DEF StationProbes
  <2>2. Command(SerialProbe) \in ToNode
    BY FramesOfNode, StationAssumption
  <2>3. inbox' \in Seq(ToNode) /\ calm' \in BOOLEAN
    BY <1>0, <1>4, <2>2, PutsTyped DEF StationProbes
  <2>. QED
    BY <1>0, <2>1, <2>3, RegistryStays DEF LineTypes, LineTypeOK, Heard
<1>5. CASE NodeRuns
  <2>1. UNCHANGED stationVars /\ UNCHANGED <<restarts, calm>>
    BY <1>5 DEF NodeRuns
  <2>2. CASE Run
    <3>1. /\ phase' = "write" /\ reply' = Handshake(Manifest)
          /\ UNCHANGED <<registryVars, inbox, outbox>>
      BY <2>2 DEF Run
    <3>. QED
      BY <1>0, <2>1, <3>1, RegistryStays, FramesOfNode, NodeTyped DEF Phase
  <2>3. CASE Send
    <3>1. /\ phase' = "read" /\ reply' = NoFrame /\ outbox' = Append(outbox, reply)
          /\ reply \in FromNode /\ UNCHANGED <<registryVars, inbox>>
      BY <2>3 DEF Send, LineTypes
    <3>2. outbox' \in Seq(Heard) /\ Len(outbox') = Len(outbox) + 1
      BY <1>0, <3>1, AppendProperties DEF Heard
    <3>. QED
      BY <1>0, <2>1, <3>1, <3>2, RegistryStays, NodeTyped DEF Phase
  <2>4. ASSUME inbox # <<>>, inbox' = Tail(inbox), UNCHANGED <<registryVars, outbox>>,
               phase' \in Phase, reply' \in FromNode \cup {NoFrame},
               phase' = "write" => reply' \in FromNode
        PROVE  LineTypes'
    <3>1. inbox' \in Seq(ToNode)
      BY <1>0, <2>4, HeadTailProperties
    <3>. QED
      BY <1>0, <2>1, <2>4, <3>1, RegistryStays, NodeTyped
  <2>5. ASSUME NEW id \in CommandId, NEW success \in BOOLEAN, Serve(id, success)
        PROVE  LineTypes'
    BY <2>4, <2>5, FramesOfNode DEF Serve, Reads, Phase
  <2>6. CASE Echo
    BY <2>4, <2>6, FramesOfNode DEF Echo, Reads, Phase
  <2>7. CASE Ignore
    BY <1>0, <2>4, <2>7 DEF Ignore, Reads
  <2>8. CASE Reject
    BY <1>0, <2>4, <2>8 DEF Reject, Reads, Phase
  <2>. QED
    BY <1>5, <2>2, <2>3, <2>5, <2>6, <2>7, <2>8 DEF NodeRuns
<1>6. ASSUME NEW cap \in Capabilities, NodeBuilds(cap) PROVE LineTypes'
  <2>1. /\ RegisterCapability(cap)
        /\ UNCHANGED <<phase, reply, inbox, outbox, stationVars, restarts, calm>>
    BY <1>6 DEF NodeBuilds, Register
  <2>2. phase' = "write" => reply' \in FromNode
    BY <2>1 DEF LineTypes
  <2>. QED
    BY <1>0, <2>1, <2>2, RegistryGrows, NodeTyped
<1>7. CASE NodeFails
  <2>1. /\ phase' = "stopped" /\ calm' = FALSE
        /\ outbox' \in {outbox, Append(outbox, Broken)}
        /\ UNCHANGED <<registryVars, reply, inbox, stationVars, restarts>>
    BY <1>7 DEF NodeFails, SendFails, SendBreaksOff, ReadFails
  <2>3. outbox' \in Seq(Heard) /\ Len(outbox) <= Len(outbox')
    BY <1>13, <2>1
  <2>2. RegistryTypeOK' /\ phase' \in Phase /\ phase' # "write" /\ calm' \in BOOLEAN
    BY <1>0, <2>1, RegistryStays DEF Phase
  <2>. QED
    BY <1>0, <2>1, <2>2, <2>3, NodeTyped
<1>8. CASE Restart
  <2>1. /\ restarts < MaxRestarts /\ restarts' = restarts + 1
        /\ entries' = <<>> /\ ota' = FALSE /\ phase' = "setup" /\ reply' = NoFrame
        /\ \/ inbox' = <<>>
           \/ inbox # <<>> /\ inbox' = <<Broken>> \o Tail(inbox)
        /\ calm' \in {calm, FALSE} /\ outbox' \in {outbox, Append(outbox, Broken)}
        /\ UNCHANGED stationVars
    BY <1>8 DEF Restart
  <2>6. outbox' \in Seq(Heard) /\ Len(outbox) <= Len(outbox')
    BY <1>13, <2>1
  <2>2. RegistryTypeOK'
    BY <2>1, EmptyRegistry
  <2>3. inbox' \in Seq(ToNode)
    <3>1. CASE inbox' = <<>>
      BY <3>1
    <3>2. CASE inbox # <<>> /\ inbox' = <<Broken>> \o Tail(inbox)
      <4>1. <<Broken>> \in Seq(ToNode)
        BY FramesOfNode
      <4>2. Tail(inbox) \in Seq(ToNode)
        BY <1>0, <3>2, HeadTailProperties
      <4>. QED
        BY <3>2, <4>1, <4>2, ConcatProperties
    <3>. QED
      BY <2>1, <3>1, <3>2
  <2>4. restarts' \in 0..MaxRestarts
    BY <1>0, <2>1, StationAssumption
  <2>5. calm' \in BOOLEAN
    BY <1>0, <2>1
  <2>. QED
    BY <1>0, <2>1, <2>2, <2>3, <2>4, <2>5, <2>6, NodeTyped DEF Phase
<1>9. CASE UNCHANGED lineVars
  BY <1>0, <1>9, RegistryStays DEF lineVars, stationVars, LineTypes, LineTypeOK, Heard
<1>11. CASE StationReadFails
  BY <1>0, <1>11, RegistryStays DEF StationReadFails, LineTypes, LineTypeOK, Heard
<1>12. CASE StationHearsBroken
  <2>1. CASE Hears(Broken)
    BY <1>0, <1>12, <2>1, HearsTyped DEF StationHearsBroken
  <2>2. CASE /\ batch > 1 /\ outbox' = <<Broken>> \o Tail(Tail(outbox)) /\ batch' = batch - 1
             /\ UNCHANGED <<registryVars, phase, reply, station, sentProbe, restarts>>
    <3>1. outbox # <<>>
      BY <1>0, <2>2
    <3>2. PICK rest \in Seq(Heard) : rest = Tail(outbox) /\ Len(rest) = Len(outbox) - 1
      BY <1>0, <3>1, HeadTailProperties
    <3>3. rest # <<>>
      <4>1. Len(rest) > 0
        BY <1>0, <2>2, <3>2
      <4>. QED
        BY <4>1
    <3>4. PICK last \in Seq(Heard) : last = Tail(rest) /\ Len(last) = Len(rest) - 1
      BY <3>2, <3>3, HeadTailProperties
    <3>5. PICK torn \in Seq(Heard) : torn = <<Broken>> /\ Len(torn) = 1
      <4>1. <<Broken>> \in Seq(Heard) /\ Len(<<Broken>>) = 1
        BY DEF Heard
      <4>. QED
        BY <4>1
    <3>6. outbox' = torn \o last
      BY <2>2, <3>2, <3>4, <3>5
    <3>7. outbox' \in Seq(Heard) /\ Len(outbox') = Len(outbox) - 1
      BY <1>0, <3>2, <3>4, <3>5, <3>6, ConcatProperties
    <3>8. batch' \in 0..Len(outbox')
      BY <1>0, <2>2, <3>7
    <3>. QED
      BY <1>0, <1>12, <2>2, <3>7, <3>8, RegistryStays DEF StationHearsBroken, LineTypes, LineTypeOK, Heard
  <2>. QED
    BY <1>12, <2>1, <2>2 DEF StationHearsBroken
<1>. QED
  BY <1>1, <1>2, <1>3, <1>4, <1>5, <1>6, <1>7, <1>8, <1>9, <1>11, <1>12 DEF LineNext, StationStep

\* Types of both ends of the line, the frames under way included; the station
\* never handles more frames of a read than have arrived.
THEOREM LineTyped == LineSpec => []LineTypeOK
<1>1. LineTypes => LineTypeOK
  BY DEF LineTypes
<1>. QED
  BY InitLineTypes, NextLineTypes, <1>1, PTL DEF LineSpec

=============================================================================
