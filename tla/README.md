# Verification of tpt-e-node

TLA+ models of the device runtime in this repository, the TLC runs that check
them on small instances, and TLAPS proofs of what matters most.
Sources are named relative to `src/` of the checkout; `core` is
`crates/tpt-node-core/src`, `esp32` is `crates/tpt-node-esp32/src`, `mock` is
`crates/tpt-node-mock/src`, `riscv` is `crates/tpt-node-riscv/src`.

## The system

| component | state | operations | interacts with |
|---|---|---|---|
| update handler, `core/ota.rs` | state, bytes received, announced size and CRC | START, CHUNK, FINISH, anything else of 0x02xx | called by the reactor; owns a boxed `FlashWriter` |
| RAM writer, `core/ota.rs` | one buffer of 1024 bytes | write, verify | under the handler; the only writer `Node` ever creates |
| flash writer, `esp32/flash.rs` | bytes written, CRC register, erased flag; the chip | write, verify | under the handler (in its tests); drives a NOR chip |
| CRC digest, `esp32/crc.rs` | a 32-bit register | update, finalize, reset | in the flash writer |
| registry, `core/capability.rs` | entries with a wire name and a driver | register, manifest, dispatch | in `Node` |
| reactor, `core/reactor.rs`, `send_frame`/`recv_frame` | registry, handler, frame decoder, transport | register, run | reads and writes frames on a transport |
| base station, `mock/bin/mock_basestation.rs` | decoder, "probe sent" | its loop | the peer on a serial line |
| mock node, `mock/main.rs` | a connection and a `Node` for it | reconnect loop | runs a `Node` over a WebSocket |
| file drivers, `esp32/littlefs.rs`, `mock/drivers.rs` | a file system | read, write, list, format | called by the registry |
| frame reading and writing, `core/capability.rs` | the header, then the rest of a frame; what is left to write | `recv_frame`, `send_frame` | in the reactor, on a transport |
| transports, `esp32/transport`, `esp32/ble.rs`, `riscv/transport`, `mock/lib.rs` | peripheral or stream, staging buffer or queue | read_exact, write_all | under `recv_frame` and `send_frame`, polled by an executor |
| codec (tpt-e-link), templates, examples | | | outside the repository, or set-up only |

A node is one task. It waits only while it writes a frame or waits for one,
so a command is decoded and carried out in one step, and what interleaves is
the peer, the link, the chip's failures and restarts, and below the frames the
device, the polls of the executor and the wake-ups. The hard parts:

* an update spreads over many commands, whose acknowledgements may be lost, and
  whose chunks the host may cut, repeat or send out of order;
* both writers keep state across sessions: the RAM buffer is never cleared, the
  flash writer recognises a session only by a chunk at offset 0;
* a write to flash may fail after the CRC, the counters or part of the chip
  have changed, and a restart keeps only the chip;
* acknowledgements have no sequence number;
* `run()` ends at the first error of the link, at any point of an upload;
* one read of a frame spans many polls and reads of the device, each of which may
  return less than was asked for or, over BLE and WebSocket, hold the next frame;
* the length of a frame is believed before its checksum is known;
* the async transports return Pending, an interrupt may come before the executor
  knows, and one of them keeps no waker for it to wake;
* a command may panic, and is then not answered;
* a file may arrive in pieces, any of which may fail, be cut off or be repeated.

What makes each component correct: the verdict on an update is about the bytes
uploaded (handler and writers); no byte outside the partition changes (flash
writer); the digest is the CRC of the bytes fed, however they were cut; every
request is answered once, in order, and its id always reaches the same handler
(reactor, registry); frames are read whole, in order and without loss, or not at
all (transports, frame reading); host and node agree on what has arrived, across
connections (mock node); echoed heartbeats neither die nor multiply (station).
`PROJECT.json` lists the hazards line by line with the properties aimed at them.

## The modules

```
OtaHandler   OtaHost            CapabilityRegistry (over Selections)
     \        /   \                       |
      RamOta   EspOta                  Reactor
         \                            /   |   \
          \                       Node    |    Basestation
           \                              |
            +---------- NodeUpdate -------+

                 ByteLink                          FileCommands
        /        |        |        \                /       \
 BleTransport WsTransport NbTransport EspTransport  EspFiles  HostFiles
        \        |        |        /
                FrameReader                        Crc32

RamOta, EspOta and NodeUpdate implement OtaUpload; FrameReader implements FrameLink.

theorems about                    in
RamOta                            RamOtaProofs
EspOta                            EspOtaProofs
Node, Basestation                 ReactorProofs
NodeUpdate                        NodeUpdateProofs (over RamOtaProofs)
FrameReader                       FrameReaderProofs
EspFiles, HostFiles               FilesProofs
Crc32                             Crc32Proofs
sequences, induction              SequenceFacts, used by the others
```

* **OtaHandler** is `OtaHandler::handle` for any writer: one operator per early
  return or outcome, which takes what the writer answers as given. It keeps the
  code's order of tests (the state before the arguments) and its asymmetry: a
  match leaves the announced size and CRC, a mismatch resets them. `received`
  is a 32-bit counter that wraps, as in a release build.
* **OtaHost** adds what the host knows: `stream`, the bytes accepted in this
  session; `faithful`, whether each accepted chunk continued the stream or
  repeated a part of it; `verdict`. They are history: no guard of the node reads
  them. The host is that of `tests/reactor.rs` (`node_ota_flow_over_mock_transport`),
  with retries; hosts that are not faithful are in the behaviours too.
* **RamOta** puts them over `RamFlashWriter`. `Written` is resize-and-copy,
  `Fits` the capacity test, `ChunkPanics` the overflow of `offset + len`, after
  which the device aborts (`panic = "abort"`) and restarts empty.
* **EspOta** puts them over `OtaRegionFlashWriter` and the chip. A byte is a set
  of bits, so programming is intersection. `Image` is what `write_flash` hands
  to the chip: the head of the first word read back, the chunk, 0xFF to the end
  of the last word. A chip operation may fail at any point (`EraseFails`,
  `ProgramFails` leave any prefix done) and `Reboot` may come at any time. The
  CRC register is represented by the bytes it was fed, which `CrcInductive`
  of Crc32Proofs justifies.
* **OtaUpload** is the abstract promise: bytes accepted since the start make up
  one upload, and a finish tells whether it has the announced checksum. RamOta
  and EspOta implement it through `Upload == INSTANCE OtaUpload WITH ...`: RamOta for
  the hosts of `OrderlySpec`, EspOta for any host, where a verdict on a session that
  is not clean counts as none. NodeUpdate implements it too, through `HostUpload`: an
  update is one the host knows it has begun and that follows no larger image on its
  connection (`UnderWay`).
* **Crc32** is `IsoHdlcCrc32`, words as sets of bit places, beside a definition
  of the checksum by polynomial division over GF(2).
* **CapabilityRegistry** is the registry with the part of
  `register_capability` and `dispatch_command` that decides who serves an id.
  **Selections** has what it and Node need of a sequence, its members in a set,
  as a recursive function.
* **Reactor** is `Node::run` for any peer: `setup`, then alternately `write` and
  `read`, or `stopped`. The write of a reply is a step of its own that may fail
  after the command has been carried out; a command whose server has a panic in its
  code may end in one (`Panics`), without an answer and without `run()` returning.
* **Node** gives the reactor an arbitrary peer, with a history of what was
  posted, read and served, and the reconnect loop of the mock program.
* **Basestation** gives it the loop of `mock_basestation.rs`: a read returns any
  number of frames, or part of one, or fails, which ends the station; frames are
  drained one at a time, a broken one is reported and may take bytes of the next with
  it; a failed write of the station is ignored by it, as in the code. A write of the
  node that fails, or a reset in the middle of one, may leave part of a frame.
* **NodeUpdate** is an update through the mock program: the host of
  `tests/reactor.rs`, a link that fails between any two steps, the reactor
  (`Node == INSTANCE Reactor`), the handler and the RAM writer (`RamOta`), and the
  loop that makes a new node two seconds after a session has ended. `Carry` takes
  a command off the link, gives it to the handler and begins to write its
  answer; `WriteFails` loses that answer after the command was carried out. The
  host starts an image again on the next connection unless it is done with it; then
  it hangs up or goes on with another image on the same connection, to a node whose
  buffer still holds the last one. `largest` is history: the longest image the
  connection has carried before.
* **ByteLink** is what the transports stand on: the bytes on the wire, in the
  device, in the slice being read and in the one being written, and the executor.
  `busy` polls in a loop (the `block_on` of the templates and examples); the others
  poll a task when it has been woken, which the interrupts of the device do (`woken`)
  or, where the transport keeps no waker, do not (`unwoken`). A poll meets WouldBlock
  (`Block`), gets Pending back to the executor (`Yield`) and is repeated (`Repoll`) in
  three steps, with an `Interrupt` before, between or after them: it sets a flag that
  the executor clears when it begins a poll.
* **BleTransport**, **WsTransport**, **NbTransport** and **EspTransport** are the
  seven transports' `read_exact` and `write_all`, one action per call into the
  device: BLE's staging buffer (`BleRefill`, `BleCopy`), WebSocket's queue and
  messages cut anywhere, the byte-wise loops of the blocking and `nb` transports,
  the partial reads of esp-hal, and the calls that meet WouldBlock. A BLE write that
  fails may have sent a part; a WebSocket message arrives whole or not at all.
* **FrameReader** is `recv_frame` and `send_frame` over any of them: header,
  rest, decoding, answer. The peer's frames may lose a byte or have one changed,
  the transport may fail at every call.
* **FrameLink** is what that promises: frames whole, in order, up to the first
  damaged one. It is the link `Reactor` assumes: its `Reads`, `Reject` and
  `ReadFails` are FrameLink's `ReadFrame`, `MeetDamage` and `FailToRead`. Reactor,
  Node, Basestation and NodeUpdate speak of frames for this reason.
* **FileCommands** is the client of either file driver: the files as names and
  bytes, and what the answers entitle the client to: `kept`, the bytes whose
  write was acknowledged and has not been put in doubt by another, and `sent`,
  the places it sent a byte for. `WriteAt` is seek-and-write.
* **EspFiles** is `EspLittleFsDriver`. Every command mounts the file system
  anew, so `formatted` and the files are all there is. `EspWriteBreaksOff` and
  `EspFormatBreaksOff` leave what LittleFS may leave when the chip, the space or the
  power fails, with a failure answered or no answer; `Restart` is the panic of
  `decode_u32` on short arguments. No command makes a directory.
* **HostFiles** is `HostLittleFsDriver`: a write makes the directories of its
  path, then opens the file and truncates it, then writes, and may fail after
  each of these, in the middle of the directories (`MakesSomeAncestors`) and in the
  middle of the data. FORMAT does nothing. Which calls succeed with the files and
  directories there are is the operating system's part.
* **MC...** modules give the constants values. **...Proofs** hold the theorems.

Operators marked "Mutant of" are plausible bugs; with such an operator in place
of the one it mutates, a run must find its property violated.

## The runs

| run | shows |
|---|---|
| `ram_ota` | with any host, panics and restarts: `StreamInBuffer`, `BufferEndsAtLongest`, and `VerdictIsAboutUpload`: a faithful upload that reaches the furthest byte ever written is judged on exactly its bytes |
| `esp_ota` | on a failing chip, with restarts: `CleanUploadInFlash`, `ContinuationNeverConflicts`, `OtherPartitionsUntouched`, `VerdictIsAboutFlash`; seen through its answers, it implements OtaUpload (`ImplementsUpload`) |
| `crc32` | the digest is the CRC for every cut and after every reset; single-byte changes are noticed; the check values |
| `node` | one answer per request and in order, no request lost, stable routes; every request is answered in the end, unless `run()` returns or a command panics |
| `esp_files` | through failures and losses of power: an acknowledged byte stays in its place until it is written again or formatted away (`AcknowledgedBytesAreKept`), and a file shows nothing else (`NoStrayBytes`) |
| `host_files` | a rejected path leaves neither file nor directory, and directories are only those of files somebody wrote, wherever a write broke off (`OnlyWantedDirectories`); the data of the last write to a file is at its offset, and a file shows no byte that was not sent for its place (`DataIsInPlace`) |
| `frames` | over each transport and executor: no byte is lost, repeated or moved between line and frames (`BytesInOrder`), the peer hears whole answers in order (`AnswersAreWhole`), the reader implements FrameLink (`ImplementsFrames`); where interrupts wake the task, one that is not polled waits for what is still to come (`NoWakeupIsLost`); a reader without bytes for new frames only, or for less than one longest frame after damage (`OnlyNewFramesAreAwaited`); so, on a busy loop or with such interrupts, every frame ahead of damage is answered (`FramesAreAnswered`), and damage is noticed within the bytes of one longest frame (`DamageIsNoticed`) |
| `node_update` | through a failing link and reconnections, with any images after one another: host and node agree on what has arrived (`HostKnowsTheBuffer`), an image is refused only if it is too large or shorter than one before it on its connection (`RefusedOnlyForCause`), the two never both wait (`NeverBothWait`), a command finds its update handler in the state it asks for (`CommandFindsItsSession`), and every upload ends in a verdict or a refusal (`UploadEnds`); the program implements OtaUpload, but for an image that follows a larger one on its connection (`ImplementsHostUpload`) |
| `basestation` | heartbeats do not multiply and the probe is refused at most once, with faults and resets; while nothing fails neither gets lost (`HeartbeatsAreAccountedFor`, `ProbeIsAccountedFor`), so the heartbeat never stops and the probe is answered |

Three more runs end in a violation: a document, comment or test says what the code
does not do.

* `ram_ota_second_image`: after a longer upload a correct one fails, on every
  retry, until the device restarts (`verify` takes the CRC of the whole buffer).
* `esp_ota_failed_chunk`: a chunk answered with error 3 is in the CRC already,
  so sending it again spoils the verdict; the host has to start the upload again.
* `host_files_pieces`: the second write to a file of the host driver takes away the
  acknowledged bytes of the first (`truncate(true)`, `mock/drivers.rs:141`), so a file
  sent in pieces does not arrive. The trait speaks of a write "starting at
  `offset`" (`core/capability.rs:69`), and the LittleFS driver keeps both
  (`esp_files`; `overwrite_preserves_tail`, `esp32/littlefs.rs:306`).

`ram_ota_second_image` takes a second, shorter image to the same node. The mock
program makes a new node for each connection, so it meets this only if its host
uploads both on one connection, and nothing in `main.rs` or `run()` keeps a host from
that: `RefusedOnlyForCause` names the case (`largest`), and `ImplementsHostUpload`
promises no verdict in it. A mutant that keeps the old node brings the refusal over from
earlier connections, and breaks both.

Met while modelling, and not a run:

* A full registry refuses `Capability::Ota`, and the node has an update handler
  nevertheless, says so (`has_ota`, of which `core/reactor.rs:76` says "i.e.
  `Capability::Ota` was registered") and serves updates without advertising them:
  `register_capability` makes the handler first (line 64; `Register` in Reactor).
  `RoutingIsStable` has the other direction: an advertised update is served.
* Under an executor that polls a task only when it is woken, the asynchronous UART of
  `riscv` sleeps on with a frame in the device: `poll_fn` drops the context
  (`riscv/transport/uart.rs:55`), so its interrupt has nothing to wake, although the
  module recommends the transport for `embassy-executor` (lines 11 and 95). Such an
  executor is in the behaviours (`unwoken`), and the premise of `FramesAreAnswered`
  leaves it out; without the premise TLC has the flush of the handshake wait for ever,
  once the FIFO drains between WouldBlock and Pending. An application that wakes the
  task by other means is `woken`, and `frames` shows that nothing is lost then.
* `esp32-blinky` never calls `node.run()` (`templates/esp32-blinky/src/main.rs:84`),
  although its head says that the base station sees its handshake (line 3). The
  driver of `riscv-sensor` claims no command, and nothing calls its `read_samples`.
* `core/capability.rs:282` says that UART and BLE should not go through
  `recv_frame`; they do. `frames` shows that it works for them: `read_exact`
  returns only with all its bytes.
* A frame whose length has been changed can leave the node waiting for bytes and
  the peer for an answer, with no timeout on the node's side. `DamageIsNoticed` is
  therefore about a peer that goes on sending.
* On a device nothing follows the end of `run()` but an endless loop or a panic;
  only the mock program connects again.
* FINISH compares neither `received` nor `expected_size` with anything, so it may
  succeed without all announced bytes having been received in the session
  (`FinishVerified`; `core/ota.rs:114` has "All chunks received").
* An offset near 2^32 aborts a 32-bit device instead of being answered with error
  code 3 (`ChunkPanics` in RamOta, `Panics` in Reactor), and a file command with fewer than four
  bytes behind the path does the same on the ESP32 (`Restart` in EspFiles), where
  the host driver answers with a failure.
* A receive error or a broken frame ends `run()`, though
  `riscv/transport/uart.rs:21` and `esp32/transport/uart.rs:24` leave it to "the wire
  layer" to retry (`Reject` and `ReadFails` in Reactor).
* `Node` always creates the RAM writer (`core/reactor.rs:65`), so an update
  through a node is limited to 1024 bytes and never reaches flash:
  `OtaRegionFlashWriter` is used by its own tests only.
* The command table in `esp32/littlefs.rs:14` numbers list, read and write
  otherwise than `core/capability.rs:23`, which the code uses. What READ and LIST
  find is dropped: their acknowledgement tells success only.

### Bounds

* RAM: a buffer of 3 bytes, chunks of up to 2, bytes of one bit, every offset
  into and just behind the buffer and the last one of the address range (8
  values instead of 2^32), three announcements. Enough for gaps, overlaps,
  retries, two sessions of different length, an exact fit and one too far.
  The checksum of an instance numbers the byte strings, so that a verdict tells
  any two of them apart: the ideal a CRC approximates.
* Flash: a chip of 8 one-bit bytes whose middle four are the region, words of
  two bytes, chunks of up to two: chunks start and end inside words, in the
  region's first and last word and leave the region, with a partition on either
  side. The chip of the runs does not report conflicting writes, as that of the tests
  (MockFlash) does: `ContinuationNeverConflicts` says that there are none to report, and
  the proofs are about either (`Strict`). `received`, which nothing reads, is not
  counted. `MaxFed` (4) bounds the bytes fed to one CRC, which out-of-order chunks
  could otherwise grow for ever; the region holds no more in order.
* CRC: 12 byte values, up to 3 bytes, in updates of up to 2; the check value is
  that of 9 bytes.
* Files: on flash two names in the root and one below a directory that is not
  there; on the host a name used for a file and for the directory of another
  file, and a path that leaves the root. Writes of up to two bytes at offsets 0
  and 1: appending, overlap, repetition, a gap, and no bytes at all.
* Node: a registry of two, three capabilities with overlapping claims on the
  update id, `MaxFrames` (3) frames from the peer per connection.
* Frames: every transport, with a device that holds three bytes, sends one at a
  time and, for BLE, a staging buffer of two, so that a read ends inside a frame, at
  its end and inside the next one. Two messages, of no byte and of one; at most two
  frames from the peer, one of which may be damaged (`MaxPosted`, `MaxDamaged`):
  any byte lost or changed, the length also to one too short, too long or beyond
  the maximum. One byte stands for the two of the magic number, one for length and
  type, one for the four of the CRC, which is taken to be ideal.
* Update through a node: a buffer of three bytes, chunks of two, images of no
  byte, of one short chunk, of one chunk, of the buffer's size and of one byte more;
  at most three failures of the link (`MaxFailures`), any number of uploads and of
  connections, one image or several on each.
* Station: at most two resets of the node (`MaxRestarts`), two capabilities.
  Nothing else is bounded: that the line does not fill up is a result
  (`HeartbeatsDoNotMultiply`).

Deadlock is checked in every run but `basestation` and `frames`: with faults a node
may have stopped for good and the station wait for it, and a reader stops at the
first damage. In `node_update` its absence also shows that the handler has a case
for every command of the host (`Handles`), as `CommandFindsItsSession` says for any
images and failures.

### Fairness

`FairNodeSpec` has weak fairness of the node's own steps (write, read and handle
a frame). The executors of the repository poll the node's future in a busy loop,
and `read_exact` returns when the bytes are there. Nothing makes the link fail
or the peer send. `FairReaderSpec` says below the frames where that comes from:
weak fairness of the steps of a poll, of bytes that arrive and of bytes that drain.
The executor repeats a poll that has ended in Pending if it is a busy loop, or if an
interrupt has woken the task since the poll began. The driver of esp-hal keeps the
waker for that; the async RISC-V transport drops its context. So `FramesAreAnswered`
and `DamageIsNoticed` are stated of a busy loop or of interrupts that wake the
task, and say nothing of a node that has neither.
`FairUpdateSpec` adds to the program's own steps the reconnection, which comes two
seconds after a session has ended, and the host's: it goes on with an upload it
has begun. Failures need not stop to be counted on: they are bounded.
`FairLineSpec` adds the station's steps; its loop never blocks for longer than
the port's timeout. A read of the station that completes no frame is a step only
while it has an effect (the probe), so partial reads cannot starve whole ones.

## The proofs

The modules named ...Proofs prove every type invariant, safety invariant and action
property of the passing runs, and the four refinements, for every value of the
constants that satisfies the named assumptions: any capacity, chunk size, byte set,
word and region size, any paths, any capabilities and claims, any number of frames,
resets and failures, any transport, device and staging buffer, any payloads, any
checksum function, messages of any length. The types of the node, of the program and
of the station's line, which the properties of `node`, `node_update` and
`basestation` rest on, are theorems only (`NodeTypes`, `UpdateTyped`, `LineTyped`), and
so is the refinement of the RAM writer by itself (`RamImplementsUpload`), which
`ram_ota` answers for with `VerdictIsAboutUpload`. None assumes a property of the checksum
of an upload; Crc32Proofs proves what the code's CRC is.

Much of the code computes by going through a sequence, which takes induction. The
library's induction theorems are about an operator, which the provers cannot
instantiate; `SequenceFacts` states induction for a set instead. `Least` takes the
least of a set of naturals from the library's facts about well-founded relations,
`Induction` and `BoundedInduction` follow, and `RecursiveFunction` gives the
existence of a function defined by recursion, without which nothing is known of
one. Recursion in the models is therefore by functions on an interval, and a proof
about one names the chain of its values (`Kept`, `Joins`, `Turns`, `Updates`,
`Divisions`), shows that there is one and only one, and does induction over it.

* **RAM.** The inductive invariant `RamIInv` is the type invariant with
  `StreamInBuffer`, `BufferEndsAtLongest` and the fact that a halted handler was
  receiving. `StreamInBuffer` needs the type invariant for the ranges of offset
  and length, and the buffer's length to be the furthest end for the verdict:
  then a faithful upload of that length *is* the buffer, and the verdict on the
  one is the verdict on the other.
* **Flash.** `EspIInv` adds to the type invariant that a clean session's bytes
  are fed, counted, stored and followed by erased bytes, and that the writer
  has erased by then. The step that matters is `ChunkStored` in order: the first
  word's head is read back and intersected with itself, the new bytes fall on
  erased ones, and padding with all bits changes nothing. `ContinuationSafe` is the other half:
  for the next chunk there is nothing to conflict with, since what it does not read
  back is erased still. `RegionIsolation` is
  arithmetic: rounding down and up to words stays inside a region that starts
  and ends on words.
* **Reactor.** `NodeInv` joins to `RepliesInOrder` that histories and frames are of
  their kinds (`Exchange`) and that each request was served by the server its id
  has now (`ServedByServer`); the registry does not change once the manifest is
  written. `OneServerPerId` follows: two requests with one id have one server.
  `LinkInv` adds that the requests posted are those read or still on the link
  (`RequestsAreKept`), by what `Selected` does at either end of a sequence, and that the
  update handler is there once `Ota` is in the registry, whence `RoutingIsStable`.
* **Station.** `LineInv` counts. `BeatsBounded` and `ProbesBounded` bound the
  frames on the line together with those each side has in hand, and each step is
  shown to take away what it adds; `CountAppend` and `CountTail` say what happens
  to a count when a frame is sent or taken. A broken frame counts as none.
  `LineTypes` is the type invariant, with the frames in hand.
* **Update through a node.** Host and node are in one of four situations
  (`UpdateInv`): before the handshake, idle, with one command on the link, or with
  that command carried out and its answer somewhere or lost. In the first three
  they are `Agreed`; in the last the node is `Ahead` by exactly that command.
  `ProgramTypes` adds the registry, the reactor and the host's place for the types.
  `CarryGoesAhead` takes the one to the other. What is left behind the host's image
  is at most the largest one the connection has carried (`NothingBeyond`), whence
  `RefusalHasACause`; where that is none, the buffer at FINISH is the upload
  (`CommandOfUpdate`), whence `ProgramImplementsUpload`. There the update begins when the
  host hears of it (`UpdateBegins`); a new image, or another connection, is `Lose`, and
  a failure of the link changes nothing.
* **Files.** The three properties of `esp_files` are inductive together
  (`FilesInv`). `WriteAtFacts` says what a write leaves in a file; `Written` and
  `Unwritten` are the two outcomes of a write, whatever the client is told of
  it. A write that breaks off is harmless because it puts in doubt exactly the
  bytes it covers. `HostInv` is `OnlyWantedDirectories` and `DataIsInPlace` with the
  types. A directory made on the way to another one is wanted for the same file, as
  ancestors of ancestors are ancestors, and is inside the root, as the path is
  (`HostAssumption`); `FileReplaced` says what is in a file that was truncated and
  written, as far as the write came.
* **Frames.** A frame in flight may be anywhere between the peer and the slice it is
  read into, in several pieces. `ReaderInv` says that what was posted is, byte by
  byte, what was decoded followed by slice, staging buffer, device and wire
  (`BytesArrive`), that a read has the length its frame announced (`PhaseOK`), and
  the same of the answers on their way out. It needs no transport by name: every
  step of the four is one of a few effects (`TransportEffect`), `Taken` and `Given`
  show each to move bytes along the chain and no further, and the rest of the proof
  knows only the effect. Decoding needs more: that the bytes at the head are those
  of the first frame not yet decoded and not of a later one (`NextFrames`), by
  induction over the frames, and that no damage makes a frame that passes for
  another (`DamageFacts`). FrameLink's steps follow: `Decode` is its `ReadFrame`,
  `RejectHeader` and `RejectFrame` its `MeetDamage`, `TransportFails` its `FailToRead`;
  all else stutters.
* **Waiting.** What liveness rests on is safety: that nothing is waited for in vain.
  `WaitInv` says of a task that is not being polled, and has not been woken since its
  poll began, what it met WouldBlock for (`MustWait`): an empty device, or one with
  something to drain. A poll blocks only so (`TransportWaits`); from then until the next
  poll only an interrupt changes the device, and that leaves `woken` behind
  (`InterruptWakes`), whence `NoWakeupIsLost`. A frame begins and ends in a poll only
  (`HasBlocked`, `PolledMoves`), and a stopped node polls no transport any more, a guard
  of `TransportStep`. `OnlyNewFramesAreAwaited` follows from
  `ReaderInv` and the bound `WaitInv` puts on a read: with all bytes in the slices, `BytesArrive` says that
  the slices are what the undecoded frames have come to (`AllThatHasCome`); an intact
  one would fill its slice exactly, so the next is damaged, and less than the longest
  frame has come since.
  `RunningInv`, beside `UpdateInv`, says that a node that runs has registered all the
  program names, has not panicked, and waits only for a host that is to speak:
  `NobodyWaitsInVain`; with what the two agree on, `CommandsFindTheirSession`. `CalmInv`
  says of a calm line that a heartbeat, or the handshake that brings one, is somewhere
  (`BeatSomewhere`), and the probe or its refusal likewise (`ProbeSomewhere`), and that
  no frame on it is broken; each step hands on what it takes.
* **CRC.** `CrcIInv`: the register is what the bytes since the last reset make of
  INIT, as updates compose (`UpdatedByConcat`). The inner loop is linear
  (`ShiftedXor`) and only shifts a word whose low bits are clear, so the table
  does with a byte what eight turns of the loop do with register and byte together
  (`UpdatedIsShiftedBy`). That is also a step of polynomial division, reflected
  (`DividedIsShifted`), whatever the width of the word: `TurnsAreUpdates` runs it over
  register and whole message at once, and after n bytes has the register in front
  of the bytes still to come. `DigestTheorem` reads off the remainder. A turn of
  the loop loses nothing, since POLY has the highest bit, so registers that have
  parted stay apart (`RegistersPart`): `CorruptionTheorem`. `KnownDigestsTheorem` is a
  computation, and its lemmas `Digit1` to `Digit9` are its 72 turns, each checked.
* **Refinement.** Every step maps to a step of OtaUpload or a stutter, on the RAM
  writer under `OrderlySpec`: a chunk to `Extend`, or to nothing if it was a repetition;
  FINISH to `Conclude`, by the invariants that make the upload what the checksum is
  taken of; a restart, and on flash the FINISH of a session that was not clean, to
  `Lose`.

Model-checked only: liveness, as fairness and ENABLED are outside what TLAPS proves
(`EveryRequestAnswered`, `FramesAreAnswered`, `DamageIsNoticed`, `UploadEnds`,
`HeartbeatNeverStops`, `ProbeIsAnswered`). What each of them needs of the states
is proved: the order of answers, wake-ups that are not lost, frames that are not waited
for twice, two sides that do not both wait, a heartbeat and a probe that do not vanish. That
the steps are then taken, and come to an end, TLC shows on the instances.

## Not modelled

* The codec of tpt-e-link, a dependency outside the repository. FrameReader takes
  from it what the node relies on: magic number, length and checksum.
* `send_telemetry` and `send_log`, which cannot be called while `run()` holds the
  node; `read_samples`, which nothing calls.
* The arithmetic panic of `received` in a debug build, which takes 2^32 bytes.
* The names a listing returns (at most 32, of 64 bytes each) and the bytes of a
  read, which the acknowledgement drops.
* Peripherals: an overrun of a receiver is a read error (`TransportFails`), and the
  set-up of pins, clocks and peripherals in templates and examples is left out.
* Timeouts: the node has none, and no second peer shares its link.

## Plan

What the project would take up next: the LittleFS driver under the reactor, which
adds to EspFiles that answers are lost while the files stay; `OtaRegionFlashWriter`
in the place of the RAM writer of NodeUpdate, once a node can be given one;
FrameReader with damage in two frames in its run, which the proofs cover already.
