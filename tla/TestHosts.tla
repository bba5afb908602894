----------------------------- MODULE TestHosts -----------------------------
(***************************************************************************)
(* The host programs that test an engine: each configures it, sends a      *)
(* request, reads what comes back, compares it with what should have, and  *)
(* goes on to the next request.  They are told apart by a record (what     *)
(* their main function does besides these steps), by their requests, and   *)
(* by what they compare.                                                   *)
(*                                                                         *)
(* The engine promises frames for a request, and may break its promise:    *)
(* that is what the tests are for.  Bytes are numbers, those rand() draws  *)
(* are all different or any of Data; a header field counts as one byte.    *)
(***************************************************************************)
EXTENDS RomFrames, Sequences, SequencesExt, FiniteSets

CONSTANTS
  Programs,        \* the tests looked at
  Rounds,          \* bound: requests of a program (1000000, 10000, 1000, 10)
  ArraySize,       \* 32
  MaxFrameSize,    \* 1400
  FragmentWords,   \* MAX_FRAGMENT_SIZE_BYTES / WORD_SIZE: 18
  LinkBytes,       \* LINK_WIDTH_BYTES: 8
  NumMessageTypes, \* NUM_SUPPORTED_MESSAGE_TYPES: 20
  MessageSizes,    \* sizes rand() may draw for a message type
  NumMessages,     \* NUM_MESSAGES_EXPECTED: 7
  Slots,           \* slots of a ring
  Data,
  MaxFaults        \* bound: promises the engine breaks

Tests == {"LatencyTest", "DirectLatencyTest", "Gap", "HeaderInserter",
          "Fragmenter", "RomFrameGen", "Tracker"}

ASSUME ProgramsAssumption == Programs \subseteq Tests
\* An index of frameRom is a uint16_t.
ASSUME SizeAssumption ==
  /\ Rounds \in Nat \ {0} /\ ArraySize \in Nat \ {0} /\ Slots \in Nat \ {0}
  /\ MaxFrameSize \in Nat /\ MaxFrameSize > 1
  /\ FragmentWords \in Nat \ {0} /\ LinkBytes \in Nat \ {0}
  /\ NumMessageTypes \in Nat \ {0} /\ NumMessages \in Nat \ {0}
  /\ MaxMessageSizeWords * NumMessageTypes <= 65536
  /\ MessageSizes \subseteq 0 .. MaxMessageSizeWords * WordSizeBytes - 1

VARIABLES
  program, pc, round,
  sizes,       \* message_size_per_type
  config,      \* what the engine's memories and registers hold
  request,     \* the frame in the slot, or the buffer, that was written
  collected,   \* the frames read for it
  toEngine, pending, toHost,   \* requests, promised frames, frames sent
  faults,      \* promises broken
  lost,        \* has the datagram been lost on its way to the engine
  judged       \* history: the requests, with what was taken for their answers

host == <<program, sizes, config>>
vars == <<program, pc, round, sizes, config, request, collected, toEngine,
          pending, toHost, faults, lost, judged>>

-----------------------------------------------------------------------------
\* The programs.  rounds: requests it makes; acquires: does it take a slot
\* for a request; ring: is a frame only given back after the comparison;
\* compares: does it end with an error when the answer is not what it expects.

LatencyTest ==
  [rounds |-> Rounds, acquires |-> TRUE, ring |-> TRUE, compares |-> TRUE]

\* The request is written from a buffer of the program's own.
DirectLatencyTest ==
  [rounds |-> Rounds, acquires |-> FALSE, ring |-> TRUE, compares |-> TRUE]

\* What comes back is shown, not compared.
Gap ==
  [rounds |-> Rounds, acquires |-> TRUE, ring |-> TRUE, compares |-> FALSE]

\* The loop runs from no data to ArraySize bytes of it.
HeaderInserter ==
  [rounds |-> ArraySize + 1, acquires |-> TRUE, ring |-> TRUE, compares |-> TRUE]

\* A fragment is given back as soon as it has been accumulated.
Fragmenter ==
  [rounds |-> Rounds, acquires |-> TRUE, ring |-> FALSE, compares |-> TRUE]

RomFrameGen ==
  [rounds |-> Rounds, acquires |-> TRUE, ring |-> TRUE, compares |-> TRUE]

\* One datagram through a Linux socket; frames are counted as they come.
Tracker ==
  [rounds |-> 1, acquires |-> FALSE, ring |-> FALSE, compares |-> FALSE]

Main == CASE program = "LatencyTest" -> LatencyTest
          [] program = "DirectLatencyTest" -> DirectLatencyTest
          [] program = "Gap" -> Gap
          [] program = "HeaderInserter" -> HeaderInserter
          [] program = "Fragmenter" -> Fragmenter
          [] program = "RomFrameGen" -> RomFrameGen
          [] program = "Tracker" -> Tracker

-----------------------------------------------------------------------------
\* The ROM of HeaderInserter: the entries the program fills, and the header
\* that an entry gives.

RomEntries == 0 .. 15
HeaderIndex == 3
Blank == [cpuData1 |-> 0, cpuData2 |-> 0]
CpuRom == [i \in RomEntries |-> [cpuData1 |-> 4096 + i, cpuData2 |-> 34]]
Hfb == 171
Hfc == 204

\* What the kernel puts in front of the frame.
InsertedHeader(info) == <<info.cpuData2, Hfb, Hfc, info.cpuData1>>

\* What the test expects there.
ExpectedHeader == <<CpuRom[HeaderIndex].cpuData2, Hfb, Hfc, CpuRom[HeaderIndex].cpuData1>>

\* The bytes of a word of frameRom; the engine's copy of a frame's last word
\* has zeros after the frame.
RomByte(index, b) == index * WordSizeBytes + b

FrameBuffer(type) ==
  [k \in 1 .. MaxMessageSizeWords * WordSizeBytes |->
     RomByte(MaxMessageSizeWords * type, k)]

ApplyMod(word, mod) ==
  [b \in 1 .. WordSizeBytes |-> IF mod = 0 \/ b <= mod THEN word[b] ELSE 0]

FrameRom(index, m) ==
  LET word == [b \in 1 .. WordSizeBytes |-> RomByte(index, b)]
  IN IF index = m.endIndex THEN ApplyMod(word, m.frameMod) ELSE word

\* A type whose frame has no bytes: its last word is before its first, and
\* for type 0 the loop over the words has no end.
EmptyMessage == program = "RomFrameGen" /\ \E t \in DOMAIN sizes : sizes[t] = 0

\* The tracker's datagram: messages that all match a filter.
Match == 204
GenData == [m \in 1 .. NumMessages |-> [numExtraFields |-> m, fieldC |-> Match]]

-----------------------------------------------------------------------------
\* The engine.

\* What a run of the configuring actions leaves in it, and what is there
\* before.
Configuration ==
  CASE program = "HeaderInserter" -> CpuRom
    [] program = "Fragmenter" -> FragmentWords
    [] program = "RomFrameGen" -> [t \in DOMAIN sizes |-> Metadata(t, sizes[t])]
    [] program = "Tracker" -> {Match}
    [] OTHER -> {}

Unconfigured ==
  CASE program = "HeaderInserter" -> [i \in RomEntries |-> Blank]
    [] program = "Fragmenter" -> 1
    [] program = "RomFrameGen" -> [t \in DOMAIN sizes |-> Metadata(0, 1)]
    [] OTHER -> {}

\* A frame in parts of at most n bytes.
Parts(frame, n) ==
  [i \in 1 .. (Len(frame) + n - 1) \div n |->
     SubSeq(frame, (i - 1) * n + 1, IF i * n < Len(frame) THEN i * n ELSE Len(frame))]

RomFrame(m) ==
  SubSeq(FlattenSeq([i \in 1 .. m.endIndex - m.startIndex + 1 |->
                       FrameRom(m.startIndex + i - 1, m)]),
         1, SentBytes(m))

\* The frames promised for a request.
Promise(req) ==
  CASE program = "HeaderInserter" -> <<InsertedHeader(config[req[1]]) \o req>>
    [] program = "Fragmenter" -> Parts(req, config * LinkBytes)
    [] program = "RomFrameGen" -> <<RomFrame(config[req[1]])>>
    [] program = "Tracker" -> SelectSeq(req, LAMBDA m : m.fieldC \in config)
    [] OTHER -> <<req>>

\* The counter of an empty frame's words starts past its end: the frame has
\* some length or other, or there is none.
PromisesNothing(req) == program = "RomFrameGen" /\ sizes[req[1]] = 0

Process ==
  /\ toEngine # <<>> /\ pending = <<>>
  /\ toEngine' = Tail(toEngine)
  /\ pending' \in IF PromisesNothing(Head(toEngine))
                    THEN {<<>>, <<FrameBuffer(0)>>}
                    ELSE {Promise(Head(toEngine))}
  /\ UNCHANGED <<host, pc, round, request, collected, toHost, faults, lost, judged>>

Emit ==
  /\ pending # <<>> /\ Len(toHost) < Slots
  /\ toHost' = Append(toHost, Head(pending))
  /\ pending' = Tail(pending)
  /\ UNCHANGED <<host, pc, round, request, collected, toEngine, faults, lost, judged>>

\* A frame that is missing, too short, wrong in its last byte, or sent twice.
Broken(frame) ==
  {<<>>, <<Front(frame)>>, <<Front(frame) \o <<-1>> >>, <<frame, frame>>}

EmitBroken ==
  /\ faults < MaxFaults /\ program # "Tracker"
  /\ pending # <<>> /\ Len(toHost) + 1 < Slots
  /\ \E frames \in Broken(Head(pending)) : toHost' = toHost \o frames
  /\ pending' = Tail(pending)
  /\ faults' = faults + 1
  /\ UNCHANGED <<host, pc, round, request, collected, toEngine, lost, judged>>

-----------------------------------------------------------------------------
\* The steps of a program.

FirstStep == IF Main.acquires THEN "acquire" ELSE "fill"

Configure ==
  /\ pc = "configure"
  /\ IF program = "RomFrameGen" /\ sizes[0] = 0
       THEN pc' = "failed" /\ UNCHANGED config
       ELSE pc' = FirstStep /\ config' = Configuration
  /\ UNCHANGED <<program, sizes, round, request, collected, toEngine, pending,
                 toHost, faults, lost, judged>>

Acquire ==
  /\ pc = "acquire" /\ Len(toEngine) < Slots
  /\ pc' = "fill"
  /\ UNCHANGED <<host, round, request, collected, toEngine, pending, toHost, faults, lost, judged>>

GapRequest(r) == <<IF r % 2 = 1 THEN 71 ELSE 78>>

HeaderRequest(r) == <<HeaderIndex>> \o [s \in 1 .. r |-> s - 1]

\* From one byte to one less than the largest frame.
GenFrameData(r) ==
  {[k \in 1 .. n |-> r * MaxFrameSize + k] : n \in 1 .. MaxFrameSize - 1}

RomRequest(r) == <<r % NumMessageTypes>>

Requests(r) ==
  CASE program \in {"LatencyTest", "DirectLatencyTest"} -> {<<d>> : d \in Data}
    [] program = "Gap" -> {GapRequest(r)}
    [] program = "HeaderInserter" -> {HeaderRequest(r)}
    [] program = "Fragmenter" -> GenFrameData(r)
    [] program = "RomFrameGen" -> {RomRequest(r)}
    [] program = "Tracker" -> {GenData}

Fill ==
  /\ pc = "fill"
  /\ request' \in Requests(round)
  /\ pc' = "write"
  /\ UNCHANGED <<host, round, collected, toEngine, pending, toHost, faults, lost, judged>>

\* Also reset_buffer.
Write ==
  /\ pc = "write" /\ program # "Tracker"
  /\ toEngine' = Append(toEngine, request)
  /\ collected' = <<>>
  /\ pc' = "collect"
  /\ UNCHANGED <<host, round, request, pending, toHost, faults, lost, judged>>

\* A datagram, which may get lost.
SendTestFrame ==
  /\ pc = "write" /\ program = "Tracker"
  /\ \/ toEngine' = Append(toEngine, request) /\ UNCHANGED lost
     \/ lost' = TRUE /\ UNCHANGED toEngine
  /\ pc' = "collect"
  /\ UNCHANGED <<host, round, request, collected, pending, toHost, faults, judged>>

Accumulated == FlattenSeq(collected)

\* Has all been read that the program waits for?
Enough ==
  CASE program = "Fragmenter" -> Len(Accumulated) >= Len(request)
    [] program = "Tracker" -> Len(collected) = NumMessages
    [] OTHER -> collected # <<>>

Collect ==
  /\ pc = "collect" /\ ~Enough /\ toHost # <<>>
  /\ collected' = Append(collected, Head(toHost))
  /\ toHost' = IF Main.ring THEN toHost ELSE Tail(toHost)
  /\ UNCHANGED <<host, pc, round, request, toEngine, pending, faults, lost, judged>>

-----------------------------------------------------------------------------
\* The comparisons: what makes a program end with an error.

HeaderSize == Len(ExpectedHeader)

\* memcmp looks at so many bytes, whatever the frame's size is.
Differs(expected, got) == \E k \in DOMAIN expected : k \notin DOMAIN got \/ got[k] # expected[k]

HeaderFails(frame) ==
  \/ Len(frame) # HeaderSize + Len(request)
  \/ Differs(ExpectedHeader, frame)
  \/ Differs(request, SubSeq(frame, HeaderSize + 1, Len(frame)))

\* Mutant: a fragment that is not full is not expected.
ExpectedFull(size) == size \div (FragmentWords * LinkBytes)

ExpectedFragments(size) ==
  LET actual == FragmentWords * LinkBytes
  IN size \div actual + IF size % actual # 0 THEN 1 ELSE 0

FragmentsFail ==
  \/ Len(collected) # ExpectedFragments(Len(request))
  \/ Differs(request, Accumulated)

\* The bytes of the frame that was read, against the program's copy.
RomFails(frame) ==
  LET type == request[1]
  IN \/ Len(frame) # sizes[type]
     \/ Differs(frame, FrameBuffer(type))

LatencyFails(slot) == Differs(request, slot)

\* Mutant: only the frame's contents are compared, where they should begin.
FailsContents ==
  CASE program = "HeaderInserter" ->
         Differs(request, SubSeq(collected[1], HeaderSize + 1, Len(collected[1])))
    [] program = "RomFrameGen" -> Differs(collected[1], FrameBuffer(request[1]))
    [] OTHER -> FALSE

Fails ==
  CASE program = "HeaderInserter" -> HeaderFails(collected[1])
    [] program = "Fragmenter" -> FragmentsFail
    [] program = "RomFrameGen" -> RomFails(collected[1])
    [] program \in {"LatencyTest", "DirectLatencyTest"} -> LatencyFails(collected[1])
    [] OTHER -> FALSE

NextStep == IF round + 1 = Main.rounds THEN "done" ELSE FirstStep

\* Mutant: the slot of the answer is not given back.
JudgeKeep ==
  /\ pc = "collect" /\ Enough
  /\ IF Fails THEN pc' = "failed" /\ UNCHANGED <<round, judged>>
     ELSE /\ pc' = NextStep
          /\ round' = round + 1
          /\ judged' = Append(judged, [request |-> request, answer |-> collected])
  /\ UNCHANGED <<host, request, collected, toEngine, pending, toHost, faults, lost>>

Judge ==
  /\ pc = "collect" /\ Enough
  /\ IF Fails THEN pc' = "failed" /\ UNCHANGED <<round, judged>>
     ELSE /\ pc' = NextStep
          /\ round' = round + 1
          /\ judged' = Append(judged, [request |-> request, answer |-> collected])
  /\ toHost' = IF Main.ring THEN Tail(toHost) ELSE toHost
  /\ UNCHANGED <<host, request, collected, toEngine, pending, faults, lost>>

Host == Configure \/ Acquire \/ Fill \/ Write \/ SendTestFrame \/ Collect \/ Judge

-----------------------------------------------------------------------------
HostsInit ==
  /\ program \in Programs
  /\ pc = "configure" /\ round = 0
  /\ sizes \in IF program = "RomFrameGen" THEN [0 .. NumMessageTypes - 1 -> MessageSizes] ELSE {<<>>}
  /\ config = Unconfigured
  /\ request = <<>> /\ collected = <<>>
  /\ toEngine = <<>> /\ pending = <<>> /\ toHost = <<>>
  /\ faults = 0 /\ lost = FALSE /\ judged = <<>>

HostsNext == Host \/ Process \/ Emit \/ EmitBroken

HostsSpec == HostsInit /\ [][HostsNext]_vars

\* The program runs, and the engine answers.
Fairness == WF_vars(Host) /\ WF_vars(Process) /\ WF_vars(Emit)
FairSpec == HostsSpec /\ Fairness

-----------------------------------------------------------------------------
\* A test that passes has been answered right, request by request: what it
\* compares leaves no fault unseen that was in an answer it read.
PassMeansRight ==
  pc = "done" /\ Main.compares =>
    \A n \in DOMAIN judged : judged[n].answer = Promise(judged[n].request)

\* While the engine does what it promises, a request is only made when
\* nothing is left of the one before: the kernels look at the start of a
\* frame also while they are putting one out.
InStep ==
  faults = 0 /\ pc = "write" => toEngine = <<>> /\ pending = <<>> /\ toHost = <<>>

\* Against an engine that does what it promises every test ends well, unless
\* its datagram is lost or it draws a frame without bytes.
TestsEnd == <>(pc = "done" \/ faults > 0 \/ lost \/ EmptyMessage)
=============================================================================
