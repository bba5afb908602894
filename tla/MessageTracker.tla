--------------------------- MODULE MessageTracker ---------------------------
(***************************************************************************)
(* The manager state machine MessageTracker.maxj: a FIFO of frame words    *)
(* and a machine that follows the message boundaries through them, one     *)
(* word per clock cycle.  An action is one clock cycle in one state of the *)
(* machine.  In each cycle the environment may push the next word of the   *)
(* frame (upstream) and may raise output.stall (downstream).               *)
(*                                                                         *)
(* The parsed value of a word is the number of extra fields read at one of *)
(* its bytes.  It is the count of the message that starts at that byte;    *)
(* where no message starts, or when the FIFO is empty and its data port    *)
(* shows no word, it is any member of Counts.                              *)
(***************************************************************************)
EXTENDS MessageFrames

CONSTANTS
  Frames,               \* frames that may arrive
  Counts,               \* what two bytes that are no count may read as
  ProgFull,             \* occupancy at which the input is stalled (480)
  InputStallLatency,    \* words upstream may push once stalled (16)
  OutputStallLatency,   \* words downstream accepts once it stalls (4)
  FifoDepth,            \* 512
  NoWord

UInt16s == {x \in Nat : x < 65536}
UInt3s == 0 .. 7

ASSUME FifoAssumption ==
  /\ ProgFull \in Nat /\ InputStallLatency \in Nat /\ FifoDepth \in Nat
  /\ FifoDepth = ProgFull + 2 * InputStallLatency
ASSUME OutputAssumption == OutputStallLatency \in Nat /\ OutputStallLatency >= 3
ASSUME CountAssumption ==
  /\ Counts \subseteq UInt16s
  /\ \A f \in Frames : f.counts \in Seq(Counts)
\* A UDP payload (at most 65507 bytes) holding at least one message header.
ASSUME FrameAssumption ==
  \A f \in Frames : /\ f.counts # <<>> /\ f.cut \in BOOLEAN
                    /\ LastWord(f) \in Nat /\ 1 <= LastWord(f) /\ LastWord(f) <= 8188

Words == [frame : Frames, word : UInt16s, eof : BOOLEAN]
Outputs == [frame : Frames, msg : Nat, word : UInt16s, pad : BOOLEAN,
            som : BOOLEAN, align : UInt3s, eom : BOOLEAN]
ASSUME NoWordAssumption == NoWord \notin Words /\ NoWord \notin Outputs

VARIABLES
  currentState, wordPos, nextMsgStartWord, nextAlignment, currentMsgEndWord,
  newMessageStarting, currentAlignment, frameEndedLastCycle,
  outputStalling,       \* output.stall, one cycle late
  outputReg,            \* the last word put on the output
  outputRegValid,
  inputFifo,            \* words [frame, word, eof]
  upstream,             \* the last word pushed of a frame in transit, or NoWord
  late,                 \* words pushed since the input is stalled
  pushed,               \* words sent since output.stall was raised
  inStep                \* history: the current frame has been followed so far

registers == <<wordPos, nextMsgStartWord, nextAlignment, currentMsgEndWord,
               newMessageStarting, currentAlignment, frameEndedLastCycle>>
vars == <<currentState, registers, outputStalling, outputReg, outputRegValid,
          inputFifo, upstream, late, pushed, inStep>>

States == {"FIRST", "TRACK", "GAP"}
FirstMessageAlignment == HeaderBytes

UInt16(x) == x % 65536
ByteOffsetToWordOffset(b) == b \div WordBytes
ByteOffsetToAlignment(b) == b % WordBytes

-----------------------------------------------------------------------------
\* The FIFO (first word falls through) and the two stall handshakes.

Empty == inputFifo = <<>>
\* Mutant: the input is stalled only when the FIFO is full.
IsFullAtDepth == Len(inputFifo) >= FifoDepth

IsFull == Len(inputFifo) >= ProgFull
\* Mutant: the machine does not look at its output's stall.
InputValidUnstalled == ~Empty
\* Mutant: the FIFO does not let its first word fall through.
InputValidLate == Len(inputFifo) > 1 /\ ~outputStalling

InputValid == ~Empty /\ ~outputStalling

FrameWord(f, w) == [frame |-> f, word |-> w, eof |-> w = LastWord(f)]

ArrivingWords ==
  IF upstream = NoWord THEN {FrameWord(f, 0) : f \in Frames}
                       ELSE {FrameWord(upstream.frame, upstream.word + 1)}

\* What the FIFO's data port may show as the two bytes at offset a.
CountsAt(a) ==
  IF Empty THEN Counts
  ELSE LET h  == Head(inputFifo)
           ms == MessagesAt(h.frame, h.word, a)
       IN IF ms = {} THEN Counts ELSE {h.frame.counts[m] : m \in ms}

\* extractExtraFieldCount: a count sits at byte 2, 4, 6, otherwise 0.
ExtraFieldCounts(a) == CountsAt(IF a \in {2, 4, 6} THEN a ELSE 0)

\* The rest of a cycle: the FIFO is read or not, a word arrives or not.
Input(readEnable, push) ==
  LET rest == IF readEnable THEN Tail(inputFifo) ELSE inputFifo
  IN IF push
     THEN /\ ~IsFull \/ late < InputStallLatency
          /\ \E w \in ArrivingWords :
               /\ inputFifo' = Append(rest, w)
               /\ upstream' = IF w.eof THEN NoWord ELSE w
          /\ late' = IF IsFull THEN late + 1 ELSE 0
     ELSE /\ inputFifo' = rest
          /\ late' = IF IsFull THEN late ELSE 0
          /\ UNCHANGED upstream

\* Downstream sees the output register and raises or drops output.stall.
Output(stall) ==
  /\ outputStalling' = stall
  /\ pushed' = IF ~stall THEN 0
               ELSE IF outputRegValid THEN pushed + 1 ELSE pushed

-----------------------------------------------------------------------------
\* Mutant: no correction for a message that ends on a word boundary.
BoundariesUncorrected(start, byteOffset) ==
  LET next == UInt16(start + ByteOffsetToWordOffset(byteOffset))
  IN /\ nextMsgStartWord' = next
     /\ nextAlignment' = ByteOffsetToAlignment(byteOffset)
     /\ currentMsgEndWord' = next

\* The registers that describe where the message being read ends.
Boundaries(start, byteOffset) ==
  LET next  == UInt16(start + ByteOffsetToWordOffset(byteOffset))
      align == ByteOffsetToAlignment(byteOffset)
  IN /\ nextMsgStartWord' = next
     /\ nextAlignment' = align
     /\ currentMsgEndWord' = IF align = 0 THEN UInt16(next - 1) ELSE next

\* FIRST latches the boundaries of the first message in every cycle.
FirstRegisters ==
  /\ \E n \in CountsAt(FirstMessageAlignment) :
       Boundaries(0, UInt16(FirstMessageAlignment + MessageBytes(n)))
  /\ wordPos' = 1
  /\ newMessageStarting' = FALSE
  /\ frameEndedLastCycle' = FALSE
  /\ UNCHANGED currentAlignment

FirstWord(stall, push) ==
  /\ currentState = "FIRST" /\ InputValid
  /\ FirstRegisters
  /\ outputReg' = [frame |-> Head(inputFifo).frame, msg |-> 1,
                   word |-> Head(inputFifo).word, pad |-> FALSE, som |-> TRUE,
                   align |-> FirstMessageAlignment, eom |-> FALSE]
  /\ outputRegValid' = TRUE
  /\ currentState' = "TRACK"
  /\ inStep' = TRUE
  /\ Input(TRUE, push) /\ Output(stall)

\* Mutant: FIRST moves on without waiting for a word.
FirstWaitEager(stall, push) ==
  /\ currentState = "FIRST" /\ ~InputValid
  /\ FirstRegisters
  /\ outputRegValid' = FALSE
  /\ currentState' = "TRACK"
  /\ Input(FALSE, push) /\ Output(stall)
  /\ UNCHANGED <<outputReg, inStep>>

FirstWait(stall, push) ==
  /\ currentState = "FIRST" /\ ~InputValid
  /\ FirstRegisters
  /\ outputRegValid' = FALSE
  /\ Input(FALSE, push) /\ Output(stall)
  /\ UNCHANGED <<currentState, outputReg, inStep>>

\* Mutant: the last word of a frame stays in the FIFO when it ends a message.
ReadsWordUndrained(shared, eof) == ~shared
\* Mutant: a word shared by two messages is consumed with the first.
ReadsWordAlways(shared, eof) == TRUE

\* A word that also starts the next message stays in the FIFO, to be put out a
\* second time; the last word of a frame is always drained.
ReadsWord(shared, eof) == ~shared \/ eof

TrackWord(stall, push) ==
  LET h      == Head(inputFifo)
      atEnd  == wordPos = currentMsgEndWord
      shared == atEnd /\ currentMsgEndWord = nextMsgStartWord
  IN
  /\ currentState = "TRACK" /\ InputValid
  /\ outputReg' = [frame |-> h.frame, msg |-> outputReg.msg + (IF outputReg.pad THEN 1 ELSE 0),
                   word |-> h.word, pad |-> FALSE, som |-> newMessageStarting,
                   align |-> IF newMessageStarting THEN currentAlignment ELSE 0,
                   eom |-> atEnd]
  /\ outputRegValid' = TRUE
  /\ wordPos' = IF shared THEN wordPos ELSE UInt16(wordPos + 1)
  /\ newMessageStarting' = FALSE
  /\ frameEndedLastCycle' = h.eof
  /\ currentState' = IF atEnd \/ h.eof THEN "GAP" ELSE "TRACK"
  /\ Input(ReadsWord(shared, h.eof), push) /\ Output(stall)
  /\ UNCHANGED <<nextMsgStartWord, nextAlignment, currentMsgEndWord,
                 currentAlignment, inStep>>

\* No word this cycle; the new-message flag is cleared all the same.
TrackWait(stall, push) ==
  /\ currentState = "TRACK" /\ ~InputValid
  /\ outputRegValid' = FALSE
  /\ newMessageStarting' = FALSE
  /\ frameEndedLastCycle' = FALSE
  /\ inStep' = (inStep /\ ~newMessageStarting)
  /\ Input(FALSE, push) /\ Output(stall)
  /\ UNCHANGED <<currentState, wordPos, nextMsgStartWord, nextAlignment,
                 currentMsgEndWord, currentAlignment, outputReg>>

\* One padding word, sent whether or not the output stalls; the count of the
\* message about to start is read from the FIFO whether or not it is empty.
Gap(stall, push) ==
  /\ currentState = "GAP"
  /\ \E n \in ExtraFieldCounts(nextAlignment) :
       Boundaries(wordPos, UInt16(nextAlignment + MessageBytes(n)))
  /\ outputReg' = [outputReg EXCEPT !.pad = TRUE, !.som = FALSE, !.align = 0,
                                    !.eom = TRUE]
  /\ outputRegValid' = TRUE
  /\ currentAlignment' = nextAlignment
  /\ newMessageStarting' = TRUE
  /\ frameEndedLastCycle' = FALSE
  /\ currentState' = IF frameEndedLastCycle THEN "FIRST" ELSE "TRACK"
  /\ inStep' = (inStep /\ (frameEndedLastCycle \/ ~Empty))
  /\ Input(FALSE, push) /\ Output(stall)
  /\ UNCHANGED wordPos

Cycle(stall, push) ==
  \/ FirstWord(stall, push)
  \/ FirstWait(stall, push)
  \/ TrackWord(stall, push)
  \/ TrackWait(stall, push)
  \/ Gap(stall, push)

Init ==
  /\ currentState = "FIRST"
  /\ wordPos = 0 /\ nextMsgStartWord = 0 /\ nextAlignment = 0
  /\ currentMsgEndWord = 0 /\ currentAlignment = 0
  /\ newMessageStarting = FALSE /\ frameEndedLastCycle = FALSE
  /\ outputStalling = TRUE
  /\ outputReg = NoWord /\ outputRegValid = FALSE
  /\ inputFifo = <<>> /\ upstream = NoWord /\ late = 0
  /\ pushed = 0 /\ inStep = FALSE

Next == \E stall, push \in BOOLEAN : Cycle(stall, push)

Spec == Init /\ [][Next]_vars

\* The clock runs, downstream does not stall for ever, and a frame that has
\* begun to arrive keeps arriving.
Fairness ==
  /\ WF_vars(\E push \in BOOLEAN : Cycle(FALSE, push))
  /\ WF_vars(upstream # NoWord /\ \E stall \in BOOLEAN : Cycle(stall, TRUE))

FairSpec == Spec /\ Fairness

-----------------------------------------------------------------------------
\* Properties.

\* Type invariant: the registers hold values of their width, the machine has
\* put out a word before it follows one, and the FIFO holds frame words.
TypeOK ==
  /\ currentState \in States
  /\ wordPos \in UInt16s /\ nextMsgStartWord \in UInt16s
  /\ currentMsgEndWord \in UInt16s
  /\ nextAlignment \in UInt3s /\ currentAlignment \in UInt3s
  /\ newMessageStarting \in BOOLEAN /\ frameEndedLastCycle \in BOOLEAN
  /\ outputStalling \in BOOLEAN /\ outputRegValid \in BOOLEAN
  /\ outputReg \in Outputs \cup {NoWord}
  /\ currentState # "FIRST" \/ outputRegValid => outputReg \in Outputs
  /\ inputFifo \in Seq(Words)
  /\ upstream \in Words \cup {NoWord}
  /\ late \in Nat /\ pushed \in Nat /\ inStep \in BOOLEAN

\* Once downstream stalls, the tracker sends no more words than the stall
\* latency it declares for its output, although the padding cycle ignores
\* the stall and the machine sees output.stall one cycle late.
StallContract == pushed <= OutputStallLatency

\* The words upstream may still push after input.stall fit in the FIFO.
FifoNeverOverflows == Len(inputFifo) <= FifoDepth

\* Whatever happened in a frame - a lost start mark, a count read from an
\* empty FIFO - the machine is in FIRST exactly at the start of the next.
FrameStartsInFirst ==
  ~Empty => /\ currentState = "FIRST" => Head(inputFifo).word = 0
            /\ currentState = "TRACK" => /\ Head(inputFifo).frame = outputReg.frame
                                        /\ Head(inputFifo).word = wordPos

\* A count that shares its word with the end of the previous message is never
\* read from an empty FIFO: the shared word has not been consumed.
SharedWordStillThere ==
  currentState = "GAP" /\ ~frameEndedLastCycle /\ nextAlignment # 0 => ~Empty

\* No input word is dropped or sent out of order: after word w of a frame comes
\* its padding, w again if it is shared and not the last, or w + 1, and a frame
\* is left only after its last word and entered at word 0.
InOrder ==
  LET a == outputReg b == outputReg' IN
  a # NoWord =>
    \/ /\ b.frame = a.frame /\ b.word = a.word
       /\ b.pad \/ (a.pad /\ a.word # LastWord(a.frame))
    \/ b.frame = a.frame /\ b.word = a.word + 1
    \/ a.pad /\ a.word = LastWord(a.frame) /\ b.word = 0
WordsInOrder == [][InOrder]_outputReg

\* The machine splits frames as MessageSplitter promises; it loses its place
\* only by a start mark cleared in a waiting cycle or a count read from an
\* empty FIFO (inStep), and then only until the frame ends.
Splitter == INSTANCE MessageSplitter
              WITH Lost <- NoWord, bus <- IF inStep THEN outputReg ELSE NoWord
SplitsMessages == Splitter!Spec

\* Every frame that is begun is finished, however downstream stalls and
\* however the frame is spread in time.
FrameFinishes == currentState # "FIRST" ~> currentState = "FIRST"

\* The comment on the shared word: it is output twice, "once with
\* END_OF_MESSAGE, second time with NEW_MESSAGE".
SharedWordStartsMessage ==
  [][outputReg # NoWord /\ outputReg.pad /\ ~outputReg'.pad => outputReg'.som]_outputReg
=============================================================================
