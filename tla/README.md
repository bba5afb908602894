# Verification of NetworkingCodeExamples

TLA+ models of Maxeler's networking examples: dataflow kernels and state
machines that run on an FPGA (the *engine*, written in MaxJ) and C programs
that run on its *host*. TLC checks the models on small instances, TLAPS proves
the most important invariants for every value of the parameters. Every
definition is translated from the code; `PROJECT.json` ("map") names the lines.

    tlc -config tracker.cfg MCMessageTracker     # a run
    tlapm MessageTrackerProofs.tla               # proofs

## 1. The system

The repository is a set of separate examples. They are put together from the
same few parts, and what is hard in them is the same:

- **Kernels and manager state machines** run in lock step with a clock. They
  see a stream of words, some cycles of which are not valid, may look ahead or
  back by a fixed number of cycles (`stream.offset`), remember (`streamHold`,
  counters) and write words out. They cannot stop at once: a stall of the output
  takes cycles to reach the source. Hard: idle cycles in between, two frames
  close to each other, what is under way when something stalls.
- **Host programs** share rings of slots in memory with the engine, which fills
  or empties them by DMA, and call into a TCP/UDP library. Hard: what the engine
  does between two steps of the host, events that arrive after the engine has
  moved on, and connections that come and go.
- **Pure computations** in kernels and hosts: checksums, fields that lie across
  words, sign extension, indices. Hard: boundaries and wrap-around.

The inventory. "Modelled" names the module.

| Component (src/) | State | Operations | Interacts with | Must hold | Modelled |
|---|---|---|---|---|---|
| Tracker: splitting machine, `PacketProcessing/Tracker/.../MessageTracker.maxj` | state FIRST/TRACK/GAP, boundary registers, input FIFO, output register | one cycle: take a word, follow the boundaries, pad between messages | UDP stream in front, filtering kernel behind, a stall handshake on either side | splits at the right places, keeps order, honours stalls, finds each frame's start | `MessageTracker` |
| Tracker: filter and host, `FilteringKernel.maxj`, `tracker.c` | held alignment and search field | realign, compare with 1024 filters, drop padding; configure, send a datagram, count what comes back | tracker in front, framed stream to the host | exactly the matching messages, aligned and whole | `MessageFilter`, `TestHosts` |
| Metadata and header kernels, `Udp/UdpOneTo*`, `Tcp/Tcp*Offload`, `Gateways/*FIFO/.../{Inbound,Outbound}.maxj` | held metadata; input around now | put metadata words before a frame, or take them off | network on one side, framed stream of the host on the other | frames whole, in order, with their own metadata | `FramedKernels` |
| Flow control, `FlowControl/*` | pipeline, stall line, item counter | compute one item a cycle, stall, freeze | source and output buffer | nothing lost when the output stalls, nothing locks up | `FlowControl` (ClockEnable: not) |
| FIFO gateway hosts, `Gateways/*FIFO/runtime/fifo.c` | number of sockets, state table of sockets | start-up, `process`, `transition`, `Listen`, `CloseGraceful`, `Send` | TCP engine and framer, two rings, remote clients | follows the engine, closes and reopens the right connection, echoes in order | `FifoGateway` |
| Echo hosts, `tcpoffload.c`, `tcpfpoffload.c`, `udponetoone.c`, `udponetomany.c` | two rings, connections | open, connect, await; read, acquire, copy, write, discard, check | engine's DMA, remote peers | every frame echoed as received; TCP programs end when a connection drops | `EchoHost` |
| Forwarding, `Tcp/TcpForwarding`, `Udp/UdpForwarding` | decision ROM, held type and decision, message count, event ring | decide by a message's first word, forward, report | multicast feed, consumers, host | whole messages to the right consumer, one event each | `Forwarding` |
| Trading strategy, `Trading/Strategy` | three rings, three threads and the flag they share, update number | stream updates, decide on orders, report statuses, read both, shut down | threads of one program and the kernel | no order lost, statuses lost only to a stall, the engine outlives its readers | `TradingStrategy` |
| Test hosts: fragmenter, header inserter, dynamic gap, ROM frames, two latency tests | ROM or registers of the engine, the request, the frames read for it | configure, acquire, fill, write, collect, compare | the engine under test, two rings | a test that passes was answered right; a right engine passes | `TestHosts` |
| ROM frame generator's layout, `PacketProcessing/RomFrameGen` | ROM, counter | lay out frames, send one per request | host | the frame drawn is the frame sent | `RomFrames` |
| Ethernet forwarding, `PacketProcessing/EthernetParsing` | held fields | capture and replace fields, change checksums | link on either side | valid checksums, nothing else touched | `EthChecksum`, `FieldAccess` |
| Sign extender, with and without pattern matching | fields held from the first word | cut out and extend three values; cut out a text and search it | link, host | values kept, the right packets forwarded | `SignExtension`, `PatternMatching` |
| FIFO gateway framer and manager; clock enable kernel; CME trading; UDP logging; senders, consumers, managers, build files | - | - | - | - | no, section 8 |

What is specific to each, and how it is modelled, follows in section 2; the
points where this code can go wrong that a test would hardly reach are listed
one by one in `PROJECT.json` ("hazards"), each with the properties that cover
it or the reason why none does.

## 2. Modules

### Tracker

`MessageFrames` holds the wire format: a frame is a sequence of messages given
by their numbers of extra fields; where each message begins and ends follows.
`MessageSplitter` is the abstract specification: a frame becomes, message by
message, the words from the one with its first byte to the one with its last,
the first marked and with its alignment, then a padding word; a word that two
messages share is sent twice. It may lose its place, but then only until the
frame ends. `MessageTracker` is the state machine: an action is a clock cycle
in one of its states (`FirstWord`/`FirstWait`, `TrackWord`/`TrackWait`, `Gap`),
in which a word may arrive and the output may be stalled. Variables have the
names of the registers. The FIFO has the depth and level of the code's
(`ProgFull + 2 * InputStallLatency`), and what its data port shows while it is
empty is any value. The history variable `inStep` says that neither of two
known weak spots was hit in this frame: a waiting cycle that clears the start
mark, and a count read from an empty FIFO. While it holds, the machine refines
`MessageSplitter` (`SplitsMessages`, by `bus <- IF inStep THEN outputReg ELSE
NoWord`). `efCount`, `efPos` and `cycleCounter` are written and never read.

`MessageFilter` is the kernel behind it, `FilteringKernel`. Its input is
what `MessageSplitter` promises, with idle cycles where there may be some, and
it is a function of the input around each cycle and of what is held since the
last start mark. It does not see `MessageTracker`'s input but its specification,
so the two compose through `MessageSplitter`; what the filter does with a
message whose start mark was lost (section 5) is not looked at.

### Kernels between network and host

`FramedKernels` has the eight kernels as functions of the input in a window of
five cycles, two either way, so a look-ahead or a look-back is an offset in
it, and of one held value. `owed` is a history variable: the output the frames seen so
far still call for, added to when a word enters the window and taken from when
a word is put out. So that what a kernel puts out is checked against a
reference, not against itself. Frames arrive without holes, and the gaps
between them are at least what the kernel asks `nonBlockingInput` for. The
fast-path and FixFIFO kernels have the same text and share the definitions.

### Flow control

`FlowControl` has the pipeline as stages that hold a word or not, the stall
line as the history of the output's stall, and the buffer behind the output as
its occupancy. A cycle takes a word in or not, and the reader reads or not.
`StallLatency` and `PipeStall` differ in `StallNow` and in the latency they
declare. The frame variant of StallLatency computes the same stall.

### FIFO gateway

`FifoGateway` begins with the start of the program (`ReadConstants`, `InitTcp`
with its 16 bit argument, `ListenAll`, a socket at a time while clients already
connect). Then the host's steps are actions of their own where the engine can
get in between: `ProcessEvent` (a frame that is not echoed), `ProcessData` (the
state is followed, then `Send` begins) and `SendFrame` (one round of its loop).
`Transition` is the whole switch, with the calls into the engine. The TCP
engine and its clients are external: connections, messages, FIN and reset, with
reports in the order they happen. `Close` follows an endless loop and is never
reached. BinFIFO's and FixFIFO's hosts are the same text but for one check of
the socket number (`Known`); both are run, from the arguments in `Arguments`.

### Echo hosts

`EchoHost` has both rings as queues of frames that *should* be in the slots, and
`memory` with what *is* in them; they differ as soon as something is
overwritten. Each library call of the loop is a step (`Poll`, `Acquire`, `Read`,
`Copy`, `Write`, `Discard`, `Check`), with the engine's DMA between them. The
UDP programs acquire before they read, the TCP programs after, and have one
buffer for both rings. The start of each program is in the model as well: calls
that fail end two of them, `tcpoffload.c` does not look at whether a connect failed,
and the wait for a connection ends after five seconds, connected or not.

### Trading strategy

`TradingStrategy` has the main thread, the two reading threads, and the kernel as
a step per update. The kernel's two outputs differ: a full order ring stalls the
input, and up to `OrderStallLatency` orders that are under way still fit; a full
status ring stalls nothing, the status is dropped. The threads test `running`
before each read. It is a plain variable in the code; it is taken to be read
again each time, as the calls between the tests make a compiler do.

### Test hosts

The host programs that test an engine have one skeleton: configure, take a
slot, fill it, write, collect, compare, go on. `TestHosts` has that skeleton once, and
a record and an operator or two for what differs in each program. The engine
promises an answer to a request and keeps its promise (`Emit`) or breaks it
(`EmitBroken`: missing, short, wrong in its last byte, sent twice), because
finding that out is what the programs are for. `Gap` only prints and the tracker
test only counts, so nothing is said of what they accept.

### Forwarding

`Forwarding` has the host's start-up in its order (ROM, feed, consumers, event
ring) and its event loop, and the kernel, which runs as soon as the feed is
open. A word stands for its byte 7. In a cycle without input the kernel may see
anything, a start of frame too. The events cross a small buffer and then the
ring in the host's memory.

### Algorithms

`EthChecksum`, `FieldAccess`, `SignExtension`, `PatternMatching`, `RomFrames` and
`MessageFilter` are operators; `PacketAlgorithms` takes samples of their inputs and
keeps what the code makes of them, so that each invariant compares a result with
its definition.

### Proofs

`FlowControlProofs`, `MessageTrackerProofs`, `FramedKernelsProofs`,
`FifoGatewayProofs`, `EchoHostProofs`, `ForwardingProofs` and
`TradingStrategyProofs` extend the module they are named after;
`PacketProcessingProofs` extends `PacketAlgorithms` and `TestHosts`, the packet
processing examples' kernels and hosts. See section 6.

## 3. Runs

Every run is exhaustive for its bounds.

| Run | Question | Bounds and why they are enough | Result |
|---|---|---|---|
| `tracker` | Does the machine split frames as promised, keep order, keep both stall handshakes, and finish frames? | Five frames: second messages at alignments 6, 4, 2 and 0 (all there are), ends inside a word and on a boundary, a shared last word, three messages, a frame cut short like the test program's. FIFO of 4 (full, empty, both latencies used up); output latency 3, the least for which the contract holds (the code has 4). | holds |
| `tracker_shared` | Is a shared word put out a second time with its start mark, as the comment says? | the same | violated, section 5 |
| `framed` | Do the eight kernels put out exactly the frames, without holes, leaving nothing behind? | Frames of up to 4 words (longer than any look-ahead), any gap from the smallest up, two destinations, EOF unknown in idle cycles. The one-to-many kernels are given the gap they would need and at least two data words, see section 5. | holds |
| `flow` | Does the buffer overflow, does a stall stop the output, does the source resume? | Pipeline 2, stall path 1, input latency 2; all patterns of input and reads; 9 items, more than fit pipeline and buffer. The proofs lift these bounds. | holds |
| `gateway` | Do the hosts follow the engine, close and reopen the right connection, echo in order? | Both programs, in simulation and on hardware, with 1 and 2 sockets, an argument that is cut to 1, one that is too large and a maxfile without constants. Two connections of two messages on one socket, one of one on the others; messages of one or two frames; rings of 2 and 1, so that `Send` has to wait and events queue behind. | holds |
| `echo` | Is every frame intact until it is copied and sent? Do the loops do their job, whatever the start of the program did? | All four programs, two sockets, two slots, five frames: either ring goes round more than twice. | holds |
| `echo_alias` | The same for the TCP programs' echoes | the same | violated |
| `forwarding` | Whole messages to the right place, one right event each, all printed? | Four types: forwarded by both programs, by one, by none; one- and two-word messages whose later words look like other types; event buffer 1 and ring 2, so that the kernel stalls while the host connects. | holds |
| `strategy` | Is every order read once and in order, is the log right, does the program end, with the engine there until it does? | Five updates over rings of two: the order stall with its late update, dropped statuses, and threads stopped with orders still waiting. Updates both sides want, none wants, and of an unknown security. | holds |
| `hosts` | Does a test that passes mean that the engine was right, does each end, is a request only made when the last is done with? | Seven programs, three requests each, two faults; frames of one to ten bytes in fragments of four (full, not full, three of them); header frames of no data up to three bytes; ROM frames of sizes 0, 1, 4, 6 and 7 (a word and a section have 4 and 8). | holds |
| `algorithms` | Are checksums, fields, values, texts, ROM frames and filtered messages right? | Halves of 4 bits, words of 4 bytes, bytes of 4 values (see below); every field of up to a word in a frame of three words, all 256 choices of sizes, the string at each place of the text and past its end, every frame size in a section, the last type included; for the filter, each start in a word, each subset of a frame's messages, none to two idle cycles. | holds |
| `checksum` | Is the IP checksum right for all addresses? | Addresses with small, large and mixed halves | violated |

The scaled radices are parameters. `Radix` takes the place of 2^16: the sums are
one's complement sums modulo `Radix - 1` for any radix, and up to four halves
plus a checksum still need two folds. `LinkWordBytes` is 4 for 8 in `FieldAccess`:
fields at every offset, within and across words, exist as well. `ByteValues` is
4 for 256: two non-negative and two negative bytes.

`CHECK_DEADLOCK FALSE` is in eight configurations, each of a system that really
stops: the echo, strategy and test programs end, the gateway's and the forwarding
host may exit, `MaxFrames`, `MaxConns`, `MaxMessages` and `MaxUpdates` bound what
arrives, and a sample is the end of its behaviour.

## 4. Fairness

Liveness is checked under these assumptions only:

- *Tracker* (`FrameFinishes`): the clock runs and downstream does not stall for
  ever; a frame that has begun to arrive keeps arriving (the UDP engine holds
  it whole). Nothing is assumed about new frames.
- *Flow control* (`SourceResumes`): the clock runs and the reader of the buffer
  does not stop for ever. The source need not ever push.
- *Gateway* (`Reopens`): the host's start and loop run; the engine
  transmits what it is given (clients read); a FIN is answered, or the engine's
  own timeout closes the socket. The last is strong fairness, because the report
  waits for a place in the ring. Without clients that read, `Send` spins and every
  socket is held up; this is a property of the code (fifo.c:276), not of the model.
- *Echo hosts* (`EchoesAll`, `TerminatesOnDrop`): the program runs, its waits time
  out, and the engine sends what is in the ring. Nothing is assumed about arrivals
  or connections: one that never comes up ends the TCP programs as well.
- *Strategy* (`ProgramEnds`): each thread is scheduled, and the kernel takes an
  update when its order output has room. The file may end anywhere.
- *Test hosts* (`TestsEnd`): the program runs and the engine answers. Excepted are an
  engine that broke its promise, a lost datagram, after which the tracker test waits for
  ever, and a ROM frame without bytes.
- *Forwarding* (`EveryMessagePrinted`): the host runs, the engine delivers
  events, the kernel runs when its outputs have room and the consumers' links
  take what it puts out. A host that could not open a consumer is excepted.

## 5. Where code and comments disagree

1. `tracker_shared`: `newMessageStarting` lives for one cycle. When the
   output is stalled or the FIFO empty in the cycle after a padding word, the next
   message has neither start mark nor alignment (MessageTracker.maxj:149 against
   the comment at 199-202). The damage is bounded: `FrameStartsInFirst` and
   `SplitsMessages` show that the next frame is split right again.
2. `echo_alias`: `tcpoffload.c` and `tcpfpoffload.c` set up the tx stream on
   `rx_buffer`. A frame that arrives after the host discarded one overwrites its
   echo.
3. `checksum`: EthFwdKernel subtracts on unsigned 32 bits. When the old addresses
   are more than the sum and the new addresses, it wraps, and since 2^32 is 1
   modulo 2^16 - 1 the checksum is one off. `ChecksumsRight` shows that this is
   the only case.

Others the modules show with a changed configuration:

- The string search compares one start position less than the text has
  (StringSearchLib.maxj:14). A packet whose text ends with the string is not forwarded,
  against README.md:9 of the example: `EveryTextForwarded` is violated with the
  constants of `checksum.cfg`. `TextForwarded` shows that this is the only case.
- The one-to-many kernels handle two metadata words and ask for a gap of one
  cycle. A datagram that follows at that gap overwrites the last word of the one
  before it: with `Spacing <- NoSpacing`, `framed.cfg` violates `OutputIsFrames` for
  the Tx kernel and for the Rx kernel. Even at a gap of two, a datagram of one word
  loses a metadata word (that is why `framed` has two or more).
- After its last item PipeStall's pipeline runs freely and empties into a stalled
  output, past the declared latency: `DeclaredLatencySuffices` is violated with the
  constants of `flow.cfg`. `NoOverflow` shows by how much: at most the length of the
  pipeline.
- `romframegen.c:56` may draw size 0; for type 0 the index of the last word then
  wraps to 65535 and the loop at line 72 leaves the arrays. `FramesFromRom` and
  `TestsEnd` leave size 0 out (`EmptyMessage`).
- FixFIFO's `fifo.c` indexes its table with whatever socket an event names;
  BinFIFO's checks it, and without that check `OutsideUntouched` is violated (it is
  the mutant of that property). The model gives FixFIFO only events of its own
  sockets.

And some that are plain to see and need no model: the comment on the CME
order condition (CmeTradingStrategyKernel.maxj:194-198) wants an open market, a
response with a lower order id *and* a changed price, the code (line 204) one with an
order id that is *not* lower in an open market, *or* a matched order at a changed
price; and the BinFIFO sender connects 1024 ports where simulation has 64 at most.

## 6. Proofs

Eight modules prove, for every value of the constants that satisfies the
modules' assumptions, all the invariants and action properties that the passing
runs check, and the refinement:

| Theorem | States | Argument |
|---|---|---|
| `TrackerHonoursStall` | `StallContract`: after a stall at most `OutputStallLatency` words, for every latency of 3 or more | `StallInv`: words sent in the stall, the word in the output register and the padding word a GAP cycle is about to send are at most three together, because a machine that has seen the stall puts out a new word only from GAP, and GAP is entered only on a new word |
| `TrackerFifoNeverOverflows` | `FifoNeverOverflows`, any `ProgFull` and `InputStallLatency` | `FifoInv`: the occupancy is at most the level and the words pushed since it was reached (`late`), which are at most the latency |
| `TrackerTypes` | `TypeOK` | registers wrap at their widths (`UInt16Wraps`); the machine has an output before it needs it |
| `TrackerFindsFrameStart` | `FrameStartsInFirst`, for every set of frames and any timing | `PlaceInv`: the FIFO's words are consecutive words of frames (a chain), and head and state agree. It does not mention the boundary registers, which may be wrong: only the end-of-frame mark brings the machine back. A UDP frame has too few words for `wordPos` to wrap (`SmallWordsDoNotWrap`, from `FrameAssumption`) |
| `TrackerKeepsSharedWord` | `SharedWordStillThere` | `SharedInv`: unless a message ends on a word boundary, the registers for its end and for the next one's start agree, so the word they share is not read when the first message ends |
| `TrackerKeepsWordsInOrder` | `WordsInOrder`: no word is lost, skipped or swapped, for every FIFO and timing | `OrderInv`: in TRACK the next word read is the one after the last put out, or that word again after its padding; GAP knows whether the frame has ended, and FIRST is entered only after its last padding word |
| `TrackerSplitsMessages` | `SplitsMessages`, the refinement of `MessageSplitter`, if `DeclaredLengthsFit` | `SplitInv`, see below |
| `FlowTypes` | `TypeOK` | |
| `FlowNeverOverflows` | `NoOverflow` for every pipeline, stall path and level | see below |
| `PipeStallKeepsLatencyBeforeEnd` | `NoOverflowBeforeEnd` | `FrozenInv` |
| `FlowStallStopsOutput` | `StallStopsOutput` | `FlowInv` |
| `KernelsPutOutFrames`, `KernelsLeaveNoHole`, `KernelsFinishFrames` | `OutputIsFrames`, `NoHoleInFrame`, `NothingLeftBehind`: eight kernels, frames of any length, any sockets and gaps, if `RoomForMetadata` | `WindowInv`: the window holds parts of frames without holes, far enough apart. `HeldInv`: a kernel that takes metadata out holds that of the frame it is in. And `owed` is what the window still calls for (`Pending`), so that each word put out is the first of it |
| `OrdersSafe` | `OrdersInOrder`: any ring, any latency within the declared one | `RoomInv`: no more orders wait than the ring's slots and the updates that got through since it was full, which are at most `LateUpdates`; so the order that a step sends has a place |
| `LogSafe` | `LogInOrder` | `LogInv`: what was put out is what was printed and what waits, less a status that is printed and not yet discarded; `NumbersInv`: every number put out is smaller than the next update's |
| `ThreadsSafe` | `EngineOutlivesThreads` | `ThreadsInv`: a join passes only after its thread's end, and no thread starts again |
| `ReceivedSafe` | `ReceivedIntact`: four programs, any number of slots and sockets | `Room` and `SlotsDiffer`: frames that are in a ring together have numbers less than `Slots` apart, and so different remainders. The TCP programs' copy lands in the rx buffer: `InStep` says the host writes as many as it discards, so it lands in the slot of the frame being echoed itself, and `Turn` that this is at the front |
| `UdpEchoSafe` | `UdpEchoIntact` | `Copied`: between copy and write the next slot of the tx buffer holds the frame at the front of the rx ring |
| `ForwardingTellsTheHost` | `EventsDescribeMessages`: any number of messages, buffers of any depth | `KernelInv`: the kernel has counted the messages it has begun and holds the decision for the one it is in; `HostInv`: the ROM is filled before the feed opens, and the feed begins with a message |
| `ForwardingKeepsMessagesWhole` | `ForwardsWhole` | the same invariant |
| `OutsideSafe` | `OutsideUntouched`: any number of sockets, any arguments | `StartInv`: nothing is opened or reported before its turn; `FixInv`: FixFIFO's events name its sockets |
| `TableFollows` | `HostFollowsEngine`: any number of connections and messages, any rings | `LinkInv`, see below |
| `CallsSafe` | `CallsFitState` | `LinkInv` on the step: a listen or close is asked for on the oldest report, and whatever the engine did since is among the later ones |
| `EchoesInOrder` | `EchoInOrder`: any number of clients, messages and frames, any rings | `WayInv`, see below |
| `ForwarderKeepsChecksums` | `ChecksumsRight`: any radix of more than 3 | folding twice is the remainder modulo `Radix - 1`, and the addresses taken out and put in cancel there |
| `FieldsStayInPlace` | `FieldsInPlace`: any size of word, frame and field | a byte of the frame is at a place of its word's, and the field's first and last byte are at most a word apart |
| `ValuesStayTheSame` | `ValuesKept`: any number of byte values, all sizes | a negative byte in front of a number is `ByteValues - 1`, which leaves the number it stands for alone |
| `TextsAreForwarded` | `TextForwarded`: any string and text | the places that are compared are all but the last |
| `RomFramesAreTheirTypes` | `FramesFromRom`: any size of section | a frame's words are within its type's section, and sixteen bits hold their indices |
| `MessagesAreFiltered` | `FilteredRight`: any frames of messages, any choice of messages | a message's words are consecutive cycles (`Carried`), in which its start is the last one seen (`HeldStart`); the shift moves each byte of the frame to its place in the message (`RealignedByte`), so the search field is its own field C, which no other message has |
| `PassesAreRight` | `PassMeansRight`: seven programs, any number of rounds and of faults, any sizes of frames and fragments | `TestInv`, see below |
| `TestsStayInStep` | `InStep` | `OnItsWay`: before a request is made nothing is on its way; then the request or its answer is, one frame or all fragments less those collected |

`NoOverflow` is not inductive: it says nothing about what is under way. The
inductive invariant `IInv` adds four parts to `TypeOK`. `RoomInv`: if the output
was not stalled j cycles ago, the buffer holds less than `ProgFull + j`, because
it gains at most a word in a cycle. `FlowInv`: while the pipeline runs freely, a
word in stage i entered when the source saw no stall, so some cycle of the last
`Delay + i` was not stalled. A word that is put out is in the last stage;
with `RoomInv` the buffer then has room for it, which gives `FullInv`, the
bound itself. `FrozenInv` is the smaller bound before PipeStall's last item: a
frozen pipeline only moves when a word comes in, so a word that is put out means
that the source pushes in the same cycle, and the length of the pipeline drops
out of the age.

`HostFollowsEngine` is not inductive either: it says nothing while a report is on
its way, and that is when the host acts. `LinkInv` describes the whole way between
table and engine. `Pending` is the queue of reports not yet followed (the one being
echoed has been). The engine is where the newest report of a socket says, or
closing what it reported (`Latest`); a report of `Closed` is the last of its socket,
and only the oldest may be of `Established` (`Ordered`); an established connection has
no other report pending (`Fresh`); a socket that listens has none and is `Closed` in
the table (`Listening`); and without a report the two agree. In the lemma `Following` these parts
meet: the host takes the oldest report, and the rest still describes the way.

`SplitsMessages` says nothing of the registers that lead to the next word.
`SplitInv` says that, while `inStep` holds, the last word put out is the
one the splitter promises, and that the boundary registers say where its message
ends and the next one starts (`RegistersAt`). With `PlaceInv` the word
read next is then the one whose place the registers were compared with, and each cycle
is a step of the splitter or leaves its bus alone. `DeclaredLengthsFit` is a
condition on the input: a frame that is cut short may declare more extra fields
than it has bytes, and when the end it declares does not fit the 16 bits of the
offset register, the machine sees an end that is too early (for example one message
with 10922 extra fields; TLC shows it with that frame). For frames that are
not cut it follows from their size.

`RoomForMetadata` is the condition `framed` is run under as well: the
kernels with two metadata words need a gap of two, and OneToManyRx a datagram of two
words (section 5). The other six kernels are right without it.

`EchoInOrder` speaks of two successive frames that the engine gives to a client.
`WayInv` puts all that is on its way to a client in one line: the frame given last, its
frames in the ring to the engine, its messages in the ring from the engine, and the
one the engine sends next; each fits the one before it. The host takes
from the front of one ring and puts at the end of the other, so the line only moves.

`PassMeansRight` is about programs that do not compare an answer with the
promise. The fragmenter's test appends fragments until it has the expected number of
bytes, and looks at the number of fragments and at the bytes only. That this is
enough is a matter of the parts: `Fragments` says that no frame is longer than a
fragment may be and that, as the bytes of all requests are different, a frame's first
byte tells from which request and place in it the frame is, unless it is wrong
or the frame has none. So what agrees with the request so far is no longer than
it, and in as few fragments as its length allows only if each but
the last is full: they are then the request's first parts (`Gathered`). The latency
tests compare the first byte only. Their answers have no more than one
(`AnswersShort`), and a frame that is cut short or spoilt differs there. A
program that gives its frame back after the comparison compares what is
still in the slot (`AnswerHeld`). `InStep` needs none of this, only how much is
on its way. Both are inductive with `HostTypeOK`, `Ready` (the engine has the
configuration before it is asked) and `Asked` (what is on its way was asked for).

The algorithms' properties say all about a sample, so they are inductive as they are,
and the work is in lemmas about the operators. They are about numbers and
sequences of any length; induction over their length uses one lemma, `SetInduction`
(a set of naturals with 0 and successors is all of them), on the set of
lengths for which a lemma holds. A few definitions are written so that
they can be reasoned about: `Signed` and the `Before` of `FilteredRight` are
recursive functions, and `Forwarding`'s properties count the places of a sequence
(`Lists`, `Rank`) instead of selecting from it.

The assumptions on constants are named in the modules: the depth of the tracker's FIFO
is computed as in the code, latencies and rings are natural numbers, a frame is a UDP
payload with at least one message (`FrameAssumption`, `FramesAssumption`), samples are
of their types, `NoWord` is no word, `None` neither a number nor a state nor a
message (`NoMessageAssumption`), the words of a ROM's sections have
indices of 16 bits (`SizeAssumption`; the code has 20 sections of 16 words), and a register holds the five half words that
a checksum's change adds up (a radix of more than 3). `LatencyAssumption` of `TradingStrategy` is one about the hardware: no
more updates get through after a stall than the order stream's declared stall
latency allows for. The code declares 16 without measuring it.

Only model-checked: the eight liveness properties of section 4, which this
prover does not reach. The properties of the violated runs are false.

## 7. What the models assume

The MaxCompiler, SLiC and networking libraries are not in the repository. The
models take from how the code uses them:

- `nonBlockingInput` with `NO_TRICKLING` (or its default) hands a frame over
  without holes and leaves at least the gap asked for (the comment at
  TcpOffloadRx.maxj:23-26 says so). SOF is low in idle cycles for the framed
  kernels, and EOF is anything; `Forwarding` lets SOF be anything as well.
- `stream.offset` and `streamHold` look across cycles, valid or not.
- A stall latency is a number of cycles in which the other side may go on.
- `replaceField`'s counter shows its reset in the cycle of the reset.
- A framed stream's ring gives slots out in order, and the engine uses a slot as
  soon as it is given back.
- The TCP engine reports changes of state in the order they happen, and takes a
  close of a connection that has gone as nothing to do.

- The counters and stream holds of a test's engine work: it promises the right
  answer to one request at a time.

Left out: frames that do not fit a slot; frames of a single word for the
tracker; fields longer than a word; the packing of addresses into metadata
words (they are tagged words); the floating point signals of the trading
strategy (an update says whose threshold it passes); the decision of EthFwdKernel
to forward, three comparisons; the network beyond the engine. The "note" of
each component in `PROJECT.json` says what is missing in it.

## 8. Not modelled

- *Framer protocols and manager of the gateways, clock enable kernel, the cycles of
  the header inserter, fragmenter and gap kernels.* What they do is done by library
  components (`TCPFramerSM`, `makeContiguousStall`, `HeaderInserter` and others)
  whose source is not in the repository; the code here only sets their parameters.
  What their hosts need of them is promised in `TestHosts`.
- *UDP logging.* The kernel is one library counter that restarts at 1; which frame
  sizes are right depends on the cycle in which the restart shows.
- *CME trading.* Connectors, sessions and books are a closed library. Of the kernel
  only the order condition is here, and there is nothing to check it against.
- *Senders, consumers, the multicast feed.* Straight-line programs at the ends of
  what is modelled; they are the environment.
- *Managers, parameters, types, build files.* Wiring without state.
