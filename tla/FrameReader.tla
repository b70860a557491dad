----------------------------- MODULE FrameReader -----------------------------
(***************************************************************************)
(* The frames of a node over the bytes of a transport: recv_frame and      *)
(* send_frame of tpt-node-core (capability.rs) in the loop of Node::run,   *)
(* over each transport of the repository, facing a peer whose frames may   *)
(* lose a byte or have one changed on the line.  Every message is answered *)
(* here by one frame, as a heartbeat or a command is; Reactor has the rest *)
(* of the loop, over frames.                                               *)
(*                                                                         *)
(* A byte is a pair of what the sender meant it for and the value it has.  *)
(* One byte stands for the two of the magic number, one for the length and *)
(* the type, one for the four of the CRC, which is taken to be an ideal    *)
(* checksum: bytes decode exactly if they are a frame.                     *)
(***************************************************************************)
EXTENDS BleTransport, WsTransport, NbTransport, EspTransport, SequencesExt

CONSTANTS
    Message,     \* what a frame can carry
    PayloadLen,  \* its length for each message
    MaxPayload,  \* MAX_PAYLOAD_SIZE
    Noise,       \* the values a damaged byte can have
    AnswerLen,   \* length of an answer's frame
    MaxPosted,   \* bound on the frames the peer sends
    MaxDamaged   \* bound on the damaged ones among them

ASSUME FrameAssumption ==
    /\ Message \subseteq Nat \ {0}
    /\ MaxPayload \in Nat
    /\ PayloadLen \in [Message -> 0..MaxPayload]
    /\ Noise \subseteq Nat
    /\ AnswerLen \in Nat \ {0}
    /\ MaxPosted \in Nat /\ MaxDamaged \in Nat

VARIABLES
    phase,   \* "header" or "rest" of recv_frame, "answer" of send_frame, "stopped"
    error,   \* the LinkError run() has returned; "none" so far
    posted,  \* history: what the peer has sent, frame by frame
    got      \* history: the messages decoded

readerVars == <<linkVars, phase, error, posted, got>>

-----------------------------------------------------------------------------
(* Frames                                                                  *)

HeaderLen == 2
TrailerLen == 1
Magic == <<"magic", 0>>

Encode(m) ==
    <<Magic, <<"length", PayloadLen[m]>>>>
    \o [i \in 1..PayloadLen[m] |-> <<"payload", m>>]
    \o <<<<"check", m>>>>

\* The frame the node writes for a message, and for no message its handshake.
Answer(m) == [i \in 1..AnswerLen |-> <<"answer", m>>]
Handshake == 0

Damaged == 0

\* What the line can make of a frame: a byte is lost, or has another value.
Damages(bytes) ==
    {RemoveAt(bytes, i) : i \in 1..Len(bytes)}
    \cup {[bytes EXCEPT ![i] = <<"noise", v>>] : i \in 1..Len(bytes), v \in Noise}

\* Mutant of Decodes: the CRC is not compared.
DecodesUnchecked(bytes, m) == SubSeq(bytes, 1, Len(bytes) - 1) = Front(Encode(m))

\* decoder.try_parse of header and rest.
Decodes(bytes, m) == bytes = Encode(m)

-----------------------------------------------------------------------------
\* run() begins with the handshake.
ReaderInit ==
    /\ LinkInit
    /\ phase = "answer"
    /\ out = Answer(Handshake)
    /\ error = "none"
    /\ posted = <<>>
    /\ got = <<>>

Post(frame, bytes) ==
    /\ Len(posted) < MaxPosted
    /\ posted' = Append(posted, [frame |-> frame, bytes |-> bytes])
    /\ wire' = wire \o bytes
    /\ UNCHANGED <<config, polling, fifo, staged, buf, need, outgoing, phase, error, got>>

PostMessage(m) == Post(m, Encode(m))

IsDamaged(entry) == entry.frame = Damaged

PostDamaged(m) ==
    /\ Len(SelectSeq(posted, IsDamaged)) < MaxDamaged
    /\ \E bytes \in Damages(Encode(m)) : Post(Damaged, bytes)

Outside == UNCHANGED <<phase, error, posted, got>>

LineArrives == Arrive /\ Outside

LineDrains == Drain /\ Outside

\* A node that has stopped polls no transport any more.
TransportStep ==
    /\ phase # "stopped"
    /\ BleStep \/ WsStep \/ NbStep \/ EspStep \/ ExecutorStep
    /\ Outside

\* read_exact of the header of the next frame.
AwaitHeader ==
    /\ phase' = "header"
    /\ buf' = <<>>
    /\ need' = HeaderLen

Stop(e) ==
    /\ phase' = "stopped"
    /\ error' = e
    /\ buf' = <<>> /\ need' = 0
    /\ out' = <<>>
    /\ UNCHANGED <<config, polling, wire, fifo, staged, tx, heard, posted, got>>

\* The slice of the read_exact in progress is full.
Full == phase \in {"header", "rest"} /\ Len(buf) = need

\* Mutant of PlausibleHeader: the length is not compared with MAX_PAYLOAD_SIZE.
HeaderWithMagic == buf[1] = Magic

PlausibleHeader == buf[1] = Magic /\ buf[2][2] <= MaxPayload

\* The length tells how much more to read, whoever put it there.
AcceptHeader ==
    /\ phase = "header" /\ Full
    /\ PlausibleHeader
    /\ phase' = "rest"
    /\ need' = HeaderLen + buf[2][2] + TrailerLen
    /\ UNCHANGED <<config, polling, wire, fifo, staged, buf, outgoing, error, posted, got>>

RejectHeader ==
    /\ phase = "header" /\ Full
    /\ ~PlausibleHeader
    /\ Stop("InvalidFrame")

Decode(m) ==
    /\ phase = "rest" /\ Full
    /\ Decodes(buf, m)
    /\ phase' = "answer"
    /\ got' = Append(got, m)
    /\ buf' = <<>> /\ need' = 0
    /\ out' = Answer(m)
    /\ UNCHANGED <<config, polling, wire, fifo, staged, tx, heard, error, posted>>

RejectFrame ==
    /\ phase = "rest" /\ Full
    /\ \A m \in Message : ~Decodes(buf, m)
    /\ Stop("InvalidFrame")

Answered ==
    /\ phase = "answer"
    /\ Running /\ Sent
    /\ AwaitHeader
    /\ UNCHANGED <<config, polling, wire, fifo, staged, outgoing, error, posted, got>>

\* Any call into the device, stream or socket can fail; of the reads, those of
\* BleStream and of the driver of esp-hal can come back empty-handed.
TransportFails ==
    /\ Running
    /\ \/ phase \in {"header", "rest"} /\ ~Full
       \/ phase = "answer"
    /\ \/ Stop("Io")
       \/ phase # "answer" /\ kind \in {"ble", "esp_async"} /\ Stop("UnexpectedEof")

ReaderStep ==
    \/ TransportStep
    \/ AcceptHeader
    \/ RejectHeader
    \/ \E m \in Message : Decode(m)
    \/ RejectFrame
    \/ Answered

ReaderNext ==
    \/ \E m \in Message : PostMessage(m)
    \/ \E m \in Message : PostDamaged(m)
    \/ LineArrives
    \/ LineDrains
    \/ ReaderStep
    \/ TransportFails

ReaderSpec == ReaderInit /\ [][ReaderNext]_readerVars

\* The executor goes on with a poll it has begun and begins one it has reason
\* for; bytes on the line get to the other end.  Neither peer nor transport has to
\* do anything.
FairReaderSpec ==
    /\ ReaderSpec
    /\ WF_readerVars(ReaderStep)
    /\ WF_readerVars(LineArrives)
    /\ WF_readerVars(LineDrains)

-----------------------------------------------------------------------------
(* Properties                                                              *)

ReadError == {"none", "InvalidFrame", "Io", "UnexpectedEof"}

\* Also: the staging buffer of BLE is never asked to hold more than it has room
\* for, and no read_exact fills more than its slice.
ReaderTypeOK ==
    /\ kind \in Kinds
    /\ PollTypeOK
    /\ Len(fifo) <= FifoLen
    /\ kind = "ble" => Len(staged) <= RxBufLen
    /\ Len(buf) <= need
    /\ kind \in Flushed => Len(tx) <= TxLen
    /\ phase \in {"header", "rest", "answer", "stopped"}
    /\ error \in ReadError /\ (error # "none" <=> phase = "stopped")
    /\ got \in Seq(Message)
    /\ \A i \in 1..Len(posted) : posted[i].frame \in Message \cup {Damaged}

BytesOf(frames) == FlattenSeq([i \in 1..Len(frames) |-> Encode(frames[i])])

Posted == FlattenSeq([i \in 1..Len(posted) |-> posted[i].bytes])

\* No transport loses, repeats or reorders a byte between the line and the
\* frames, however reads and frames are cut against one another: the frames
\* decoded, the part of one read so far, what the transport holds back, what the
\* device holds and what is under way are all the peer has sent, in order.
BytesInOrder ==
    phase # "stopped" => BytesOf(got) \o buf \o staged \o fifo \o wire = Posted

\* The peer gets whole answers in the order of the messages: what it has heard,
\* what the device holds and what is left to write are the handshake and one
\* answer per message, up to the write the transport failed in; and when the
\* node waits for the next frame on a flushing transport it has left nothing of
\* an answer in the device.
AnswersAreWhole ==
    LET answers == Answer(Handshake) \o FlattenSeq([i \in 1..Len(got) |-> Answer(got[i])])
        written == heard \o tx \o out
    IN  /\ IF phase = "stopped" THEN IsPrefix(written, answers) ELSE written = answers
        /\ phase \in {"header", "rest"} /\ kind \in Flushed => heard = answers

\* Over every transport the reader implements FrameLink.
Frames == INSTANCE FrameLink WITH
    sent <- [i \in 1..(Len(posted) - Len(got)) |-> posted[Len(got) + i].frame],
    ended <- IF error = "none" THEN "no"
             ELSE IF error = "InvalidFrame" THEN "damage" ELSE "failure"

ImplementsFrames == Frames!FrameSpec

TransportFailed == error \in {"Io", "UnexpectedEof"}

Intact(n) == Len(posted) >= n /\ \A i \in 1..n : posted[i].frame # Damaged

AnswerArrives(n) == TransportFailed \/ Len(heard) >= (n + 1) * AnswerLen

\* A frame behind nothing but undamaged ones is answered in the end, unless the
\* transport fails: no task sleeps on with a byte to read or with room to write,
\* if the executor polls in a loop or the interrupts of the device wake the task,
\* and no transport waits for more bytes than the frame has.  With an executor that
\* is left unwoken it would not hold: the async UART keeps no waker.
FramesAreAnswered ==
    \A n \in 1..MaxPosted :
        executor # "unwoken" /\ Intact(n) ~> AnswerArrives(n)

\* Bytes the peer has sent from the start of its first damaged frame on.
BytesFromDamage ==
    LET damaged == {i \in 1..Len(posted) : IsDamaged(posted[i])}
        tail == {i \in 1..Len(posted) : \E j \in damaged : j <= i}
    IN  FoldFunctionOnSet(LAMBDA entry, sum : Len(entry.bytes) + sum, 0, posted, tail)

LongestFrame == HeaderLen + MaxPayload + TrailerLen

\* No wake-up is lost between the WouldBlock of the device and the executor: a
\* future on its way to Pending or asleep, whose task has not been woken meanwhile,
\* waits for bytes while the device has none, or for room or for the end of a
\* flush while the device holds bytes that are still to go.  What it waits for is
\* yet to happen, and its interrupt yet to come.
NoWakeupIsLost ==
    ~Running /\ executor = "woken" /\ ~woken =>
        \/ phase \in {"header", "rest"} /\ ~Full /\ fifo = <<>>
        \/ phase = "answer" /\ tx # <<>> /\ (out = <<>> \/ Len(tx) = TxLen)

\* All the peer has sent is in the slices of the reader, which are not full.
WaitsForMore ==
    /\ phase \in {"header", "rest"} /\ ~Full
    /\ staged = <<>> /\ fifo = <<>> /\ wire = <<>>

\* The reader waits for nothing it has been sent: once it has every byte and
\* wants more, either every frame posted has been decoded and none of its bytes
\* kept, or a damaged frame is next and less has come since it began than the
\* longest frame has.
OnlyNewFramesAreAwaited ==
    WaitsForMore =>
        \/ Len(got) = Len(posted) /\ buf = <<>>
        \/ /\ Len(got) < Len(posted) /\ IsDamaged(posted[Len(got) + 1])
           /\ Len(Posted) < Len(BytesOf(got)) + LongestFrame

\* A damaged frame cannot keep the node waiting for good while the peer goes on
\* sending: whatever its length has become, the node has noticed after as many
\* bytes as the longest frame has, if its executor polls it again.
DamageIsNoticed ==
    executor # "unwoken" /\ BytesFromDamage >= LongestFrame ~> phase = "stopped"

=============================================================================
