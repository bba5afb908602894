------------------------ MODULE MessageTrackerProofs ------------------------
(***************************************************************************)
(* Theorems about MessageTracker for every set of frames, every FIFO size  *)
(* and every stall latency that its assumptions allow.                     *)
(***************************************************************************)
EXTENDS MessageTracker, WellFoundedInduction, SequenceTheorems, TLAPS

-----------------------------------------------------------------------------
(***************************************************************************)
(* The output handshake.  Words already sent in a stall, the word in the   *)
(* output register and the padding word a GAP cycle is about to send are   *)
(* at most three together, because a machine that has seen the stall puts  *)
(* out a new word only from GAP, and GAP is entered only on a new word.    *)
(***************************************************************************)
Pending == (IF outputRegValid THEN 1 ELSE 0) + (IF currentState = "GAP" THEN 1 ELSE 0)

StallInv ==
  /\ pushed \in Nat
  /\ outputStalling \in BOOLEAN
  /\ outputRegValid \in BOOLEAN
  /\ IF outputStalling THEN pushed + Pending <= 3 ELSE pushed = 0

LEMMA StallInvInit == Init => StallInv
<1> SUFFICES ASSUME Init PROVE StallInv
  OBVIOUS
<1>1. ~outputRegValid /\ outputRegValid \in BOOLEAN
  BY Zenon DEF Init
<1> QED
  BY <1>1 DEF Init, StallInv, Pending

LEMMA StallInvStep == StallInv /\ [Next]_vars => StallInv'
<1> SUFFICES ASSUME StallInv, [Next]_vars PROVE StallInv'
  OBVIOUS
<1>1. CASE UNCHANGED vars
  BY <1>1 DEF StallInv, Pending, vars
<1>2. ASSUME NEW stall \in BOOLEAN, NEW push \in BOOLEAN, Cycle(stall, push)
      PROVE StallInv'
  <2> USE DEF StallInv, Pending, Output
  <2>1. CASE FirstWord(stall, push)
    BY <2>1 DEF FirstWord, InputValid
  <2>2. CASE FirstWait(stall, push)
    <3>1. ~outputRegValid' /\ outputRegValid' \in BOOLEAN
      BY <2>2, Zenon DEF FirstWait
    <3> QED
      BY <2>2, <3>1 DEF FirstWait
  <2>3. CASE TrackWord(stall, push)
    BY <2>3 DEF TrackWord, InputValid
  <2>4. CASE TrackWait(stall, push)
    <3>1. ~outputRegValid' /\ outputRegValid' \in BOOLEAN
      BY <2>4, Zenon DEF TrackWait
    <3> QED
      BY <2>4, <3>1 DEF TrackWait
  <2>5. CASE Gap(stall, push)
    BY <2>5 DEF Gap
  <2> QED
    BY <1>2, <2>1, <2>2, <2>3, <2>4, <2>5 DEF Cycle
<1> QED
  BY <1>1, <1>2 DEF Next

\* The tracker honours the stall latency of its output: downstream never gets
\* more words than it declared after it has stalled.
THEOREM TrackerHonoursStall == Spec => []StallContract
<1>1. StallInv => StallContract
  <2> SUFFICES ASSUME StallInv PROVE StallContract
    OBVIOUS
  <2>1. pushed <= 3
    BY DEF StallInv, Pending
  <2> QED
    BY <2>1, OutputAssumption DEF StallContract, StallInv
<1> QED
  BY <1>1, StallInvInit, StallInvStep, PTL DEF Spec

-----------------------------------------------------------------------------
(***************************************************************************)
(* The input FIFO: its words are the words of whole frames in order, the   *)
(* last one pushed is the one upstream remembers, and upstream pushes only *)
(* late words once the FIFO has reached the programmable full level.       *)
(***************************************************************************)
FifoInv ==
  /\ inputFifo \in Seq(Words)
  /\ upstream \in Words \cup {NoWord}
  /\ upstream # NoWord => upstream.word < LastWord(upstream.frame)
  /\ late \in 0 .. InputStallLatency
  /\ Len(inputFifo) <= ProgFull + late

LEMMA LastWordBound ==
  ASSUME NEW f \in Frames
  PROVE  LastWord(f) \in Int /\ 1 <= LastWord(f) /\ LastWord(f) <= 8188
BY FrameAssumption

LEMMA FrameWordTyped ==
  ASSUME NEW f \in Frames, NEW w \in 0 .. LastWord(f)
  PROVE  /\ FrameWord(f, w) \in Words
         /\ FrameWord(f, w).frame = f /\ FrameWord(f, w).word = w
         /\ FrameWord(f, w).eof <=> w = LastWord(f)
<1>1. (w = LastWord(f)) \in BOOLEAN
  OBVIOUS
<1>2. w \in UInt16s
  <2>1. LastWord(f) \in Int /\ LastWord(f) <= 8188
    BY LastWordBound
  <2> QED
    BY <2>1 DEF UInt16s
<1> QED
  BY <1>1, <1>2 DEF FrameWord, Words

LEMMA ArrivingTyped ==
  ASSUME FifoInv, NEW w \in ArrivingWords
  PROVE  /\ w \in Words
         /\ w.word \in 0 .. LastWord(w.frame)
         /\ w.eof <=> w.word = LastWord(w.frame)
<1>1. CASE upstream = NoWord
  <2>1. PICK f \in Frames : w = FrameWord(f, 0)
    BY <1>1 DEF ArrivingWords
  <2>2. 0 \in 0 .. LastWord(f)
    BY FrameAssumption
  <2> QED
    BY <2>1, <2>2, FrameWordTyped
<1>2. CASE upstream # NoWord
  <2>1. w = FrameWord(upstream.frame, upstream.word + 1)
    BY <1>2 DEF ArrivingWords
  <2>2. upstream \in Words
    BY <1>2 DEF FifoInv
  <2>3. upstream.frame \in Frames /\ upstream.word \in UInt16s
    BY <2>2 DEF Words
  <2>4. upstream.word + 1 \in 0 .. LastWord(upstream.frame)
    BY <1>2, <2>3, LastWordBound DEF FifoInv, UInt16s
  <2> QED
    BY <2>1, <2>3, <2>4, FrameWordTyped
<1> QED
  BY <1>1, <1>2

LEMMA InputKeepsFifoInv ==
  ASSUME FifoInv, NEW read \in BOOLEAN, NEW push \in BOOLEAN,
         read => ~Empty, Input(read, push)
  PROVE  FifoInv'
<1> DEFINE rest == IF read THEN Tail(inputFifo) ELSE inputFifo
<1>1. rest \in Seq(Words) /\ Len(rest) <= Len(inputFifo)
  BY DEF FifoInv, Empty
<1>2. CASE push
  <2>1. PICK w \in ArrivingWords :
          /\ inputFifo' = Append(rest, w)
          /\ upstream' = IF w.eof THEN NoWord ELSE w
    BY <1>2 DEF Input
  <2>2. w \in Words /\ (~w.eof => w.word < LastWord(w.frame))
    <3>1. w.frame \in Frames /\ w \in Words
      BY ArrivingTyped DEF Words
    <3>2. LastWord(w.frame) \in Int
      BY <3>1, LastWordBound
    <3>3. w.word \in 0 .. LastWord(w.frame) /\ (w.eof <=> w.word = LastWord(w.frame))
      BY ArrivingTyped
    <3> QED
      BY <3>1, <3>2, <3>3
  <2>3. inputFifo' \in Seq(Words) /\ Len(inputFifo') <= Len(inputFifo) + 1
    BY <1>1, <2>1, <2>2
  <2>4. late' \in 0 .. InputStallLatency /\ Len(inputFifo') <= ProgFull + late'
    BY <1>2, <2>3, FifoAssumption DEF Input, FifoInv, IsFull
  <2> QED
    BY <2>1, <2>2, <2>3, <2>4 DEF FifoInv
<1>3. CASE ~push
  <2>1. inputFifo' = rest /\ upstream' = upstream
    BY <1>3 DEF Input
  <2>2. late' \in 0 .. InputStallLatency /\ Len(inputFifo') <= ProgFull + late'
    BY <1>1, <1>3, <2>1, FifoAssumption DEF Input, FifoInv, IsFull
  <2> QED
    BY <1>1, <2>1, <2>2 DEF FifoInv
<1> QED
  BY <1>2, <1>3

\* Every cycle reads the FIFO or not, and reads it only when it is not empty.
LEMMA CycleInput ==
  ASSUME NEW stall \in BOOLEAN, NEW push \in BOOLEAN, Cycle(stall, push)
  PROVE  \E read \in BOOLEAN : (read => ~Empty) /\ Input(read, push)
<1>1. CASE FirstWord(stall, push)
  BY <1>1 DEF FirstWord, InputValid
<1>2. CASE FirstWait(stall, push)
  BY <1>2 DEF FirstWait
<1>3. CASE TrackWord(stall, push)
  <2>1. ReadsWord(wordPos = currentMsgEndWord /\ currentMsgEndWord = nextMsgStartWord,
                  Head(inputFifo).eof) \in BOOLEAN
    BY DEF ReadsWord
  <2> QED
    BY <1>3, <2>1, Zenon DEF TrackWord, InputValid
<1>4. CASE TrackWait(stall, push)
  BY <1>4 DEF TrackWait
<1>5. CASE Gap(stall, push)
  BY <1>5 DEF Gap
<1> QED
  BY <1>1, <1>2, <1>3, <1>4, <1>5 DEF Cycle

LEMMA FifoInvInit == Init => FifoInv
BY FifoAssumption DEF Init, FifoInv

LEMMA FifoInvStep == FifoInv /\ [Next]_vars => FifoInv'
<1> SUFFICES ASSUME FifoInv, [Next]_vars PROVE FifoInv'
  OBVIOUS
<1>1. CASE UNCHANGED vars
  BY <1>1 DEF FifoInv, vars
<1>2. CASE Next
  BY <1>2, CycleInput, InputKeepsFifoInv DEF Next
<1> QED
  BY <1>1, <1>2

\* The words in flight when the tracker stalls its input never overflow the
\* FIFO, whatever depth and latency it is built with.
THEOREM TrackerFifoNeverOverflows == Spec => []FifoNeverOverflows
<1>1. FifoInv => FifoNeverOverflows
  BY FifoAssumption DEF FifoInv, FifoNeverOverflows
<1> QED
  BY <1>1, FifoInvInit, FifoInvStep, PTL DEF Spec

-----------------------------------------------------------------------------
(***************************************************************************)
(* Types.  The registers keep their widths because every assignment to one *)
(* wraps, and what is read as a count is sixteen bits wide.                *)
(***************************************************************************)
LEMMA UInt16Wraps ==
  ASSUME NEW x \in Int
  PROVE  UInt16(x) \in UInt16s
BY DEF UInt16, UInt16s

LEMMA CountsAreUInt16 ==
  ASSUME FifoInv, NEW a, NEW n \in CountsAt(a)
  PROVE  n \in Nat
<1>1. Counts \subseteq Nat
  BY CountAssumption DEF UInt16s
<1>2. CASE Empty
  BY <1>1, <1>2 DEF CountsAt
<1>3. CASE ~Empty
  <2> DEFINE h == Head(inputFifo)
  <2>1. h \in Words
    BY <1>3 DEF FifoInv, Empty
  <2>2. h.frame \in Frames
    BY <2>1 DEF Words
  <2>3. h.frame.counts \in Seq(Counts)
    BY <2>2, CountAssumption
  <2>4. CASE MessagesAt(h.frame, h.word, a) = {}
    BY <1>1, <1>3, <2>4 DEF CountsAt
  <2>5. CASE MessagesAt(h.frame, h.word, a) # {}
    <3>1. PICK m \in MessagesAt(h.frame, h.word, a) : n = h.frame.counts[m]
      BY <1>3, <2>5 DEF CountsAt
    <3>2. m \in 1 .. Len(h.frame.counts)
      BY <3>1 DEF MessagesAt
    <3>3. h.frame.counts[m] \in Counts
      <4>1. \A c \in Seq(Counts) : \A k \in 1 .. Len(c) : c[k] \in Counts
        OBVIOUS
      <4> HIDE DEF h
      <4> QED
        BY <2>3, <3>2, <4>1
    <3> QED
      BY <1>1, <3>1, <3>3
  <2> QED
    BY <2>4, <2>5
<1> QED
  BY <1>2, <1>3

LEMMA BoundariesTyped ==
  ASSUME NEW start \in Nat, NEW b \in Nat, Boundaries(start, b)
  PROVE  /\ nextMsgStartWord' \in UInt16s /\ nextAlignment' \in UInt3s
         /\ currentMsgEndWord' \in UInt16s
<1>1. ByteOffsetToWordOffset(b) \in Nat /\ ByteOffsetToAlignment(b) \in UInt3s
  BY DEF ByteOffsetToWordOffset, ByteOffsetToAlignment, WordBytes, UInt3s
<1> DEFINE next == UInt16(start + ByteOffsetToWordOffset(b))
<1>2. next \in UInt16s
  BY <1>1, UInt16Wraps
<1>3. UInt16(next - 1) \in UInt16s
  BY <1>2, UInt16Wraps DEF UInt16s
<1> QED
  BY <1>1, <1>2, <1>3 DEF Boundaries

\* The registers, and the words already put out.
RegistersOK ==
  /\ currentState \in States
  /\ wordPos \in UInt16s /\ nextMsgStartWord \in UInt16s
  /\ currentMsgEndWord \in UInt16s
  /\ nextAlignment \in UInt3s /\ currentAlignment \in UInt3s
  /\ newMessageStarting \in BOOLEAN /\ frameEndedLastCycle \in BOOLEAN
  /\ inStep \in BOOLEAN

OutputOK ==
  /\ outputReg \in Outputs \cup {NoWord}
  /\ currentState # "FIRST" \/ outputRegValid => outputReg \in Outputs

LEMMA FirstRegistersTyped ==
  ASSUME FifoInv, RegistersOK, FirstRegisters
  PROVE  /\ wordPos' \in UInt16s /\ nextMsgStartWord' \in UInt16s
         /\ currentMsgEndWord' \in UInt16s
         /\ nextAlignment' \in UInt3s /\ currentAlignment' \in UInt3s
         /\ newMessageStarting' \in BOOLEAN /\ frameEndedLastCycle' \in BOOLEAN
<1>1. PICK n \in CountsAt(FirstMessageAlignment) :
        Boundaries(0, UInt16(FirstMessageAlignment + MessageBytes(n)))
  BY DEF FirstRegisters
<1>2. n \in Nat
  BY <1>1, CountsAreUInt16
<1>3. FirstMessageAlignment + MessageBytes(n) \in Int
  BY <1>2 DEF FirstMessageAlignment, HeaderBytes, MessageBytes, MsgOverhead, EfSize
<1>4. UInt16(FirstMessageAlignment + MessageBytes(n)) \in Nat
  BY <1>3, UInt16Wraps DEF UInt16s
<1>5. /\ nextMsgStartWord' \in UInt16s /\ nextAlignment' \in UInt3s
      /\ currentMsgEndWord' \in UInt16s
  BY <1>1, <1>4, BoundariesTyped
<1>6. wordPos' \in UInt16s
  BY DEF FirstRegisters, UInt16s
<1>7. /\ currentAlignment' \in UInt3s
      /\ newMessageStarting' \in BOOLEAN /\ frameEndedLastCycle' \in BOOLEAN
  BY Zenon DEF FirstRegisters, RegistersOK
<1> QED
  BY <1>5, <1>6, <1>7

LEMMA RegistersStep ==
  ASSUME FifoInv, RegistersOK, NEW stall \in BOOLEAN, NEW push \in BOOLEAN,
         Cycle(stall, push)
  PROVE  RegistersOK'
<1>1. CASE FirstWord(stall, push)
  BY <1>1, FirstRegistersTyped DEF FirstWord, RegistersOK, States
<1>2. CASE FirstWait(stall, push)
  BY <1>2, FirstRegistersTyped DEF FirstWait, RegistersOK, States
<1>3. CASE TrackWord(stall, push)
  <2>1. Head(inputFifo).eof \in BOOLEAN
    <3>1. Head(inputFifo) \in Words
      BY <1>3 DEF TrackWord, InputValid, Empty, FifoInv
    <3> QED
      BY <3>1 DEF Words
  <2>2. UInt16(wordPos + 1) \in UInt16s
    BY UInt16Wraps DEF RegistersOK, UInt16s
  <2>3. wordPos' \in UInt16s
    BY <1>3, <2>2 DEF TrackWord, RegistersOK
  <2>4. currentState' \in States
    BY <1>3 DEF TrackWord, States
  <2>5. newMessageStarting' \in BOOLEAN /\ frameEndedLastCycle' \in BOOLEAN
    BY <1>3, <2>1, Zenon DEF TrackWord
  <2>6. UNCHANGED <<nextMsgStartWord, nextAlignment, currentMsgEndWord,
                    currentAlignment, inStep>>
    BY <1>3 DEF TrackWord
  <2> QED
    BY <2>3, <2>4, <2>5, <2>6 DEF RegistersOK
<1>4. CASE TrackWait(stall, push)
  <2>1. inStep' \in BOOLEAN /\ newMessageStarting' \in BOOLEAN
        /\ frameEndedLastCycle' \in BOOLEAN
    BY <1>4, Zenon DEF TrackWait, RegistersOK
  <2> QED
    BY <1>4, <2>1 DEF TrackWait, RegistersOK
<1>5. CASE Gap(stall, push)
  <2>1. PICK n \in ExtraFieldCounts(nextAlignment) :
          Boundaries(wordPos, UInt16(nextAlignment + MessageBytes(n)))
    BY <1>5 DEF Gap
  <2>2. n \in Nat
    BY <2>1, CountsAreUInt16 DEF ExtraFieldCounts
  <2>3. nextAlignment + MessageBytes(n) \in Int /\ wordPos \in Nat
    BY <2>2 DEF MessageBytes, MsgOverhead, EfSize, RegistersOK, UInt3s, UInt16s
  <2>4. UInt16(nextAlignment + MessageBytes(n)) \in Nat
    BY <2>3, UInt16Wraps DEF UInt16s
  <2>5. /\ nextMsgStartWord' \in UInt16s /\ nextAlignment' \in UInt3s
        /\ currentMsgEndWord' \in UInt16s
    BY <2>1, <2>3, <2>4, BoundariesTyped
  <2>6. inStep' \in BOOLEAN /\ newMessageStarting' \in BOOLEAN
        /\ frameEndedLastCycle' \in BOOLEAN
    BY <1>5, Zenon DEF Gap, RegistersOK
  <2>7. currentState' \in States /\ wordPos' = wordPos
        /\ currentAlignment' = nextAlignment
    BY <1>5 DEF Gap, States
  <2> QED
    BY <2>5, <2>6, <2>7 DEF RegistersOK
<1> QED
  BY <1>1, <1>2, <1>3, <1>4, <1>5 DEF Cycle

LEMMA OutputStep ==
  ASSUME FifoInv, RegistersOK, OutputOK, NEW stall \in BOOLEAN,
         NEW push \in BOOLEAN, Cycle(stall, push)
  PROVE  OutputOK'
<1> DEFINE h == Head(inputFifo)
<1>0. ASSUME ~Empty
      PROVE  h.frame \in Frames /\ h.word \in UInt16s /\ h.eof \in BOOLEAN
  <2>1. h \in Words
    BY <1>0 DEF Empty, FifoInv
  <2> QED
    BY <2>1 DEF Words
<1>1. CASE FirstWord(stall, push)
  <2>1. FirstMessageAlignment \in UInt3s
    BY DEF FirstMessageAlignment, HeaderBytes, UInt3s
  <2>2. outputReg' \in Outputs
    BY <1>0, <1>1, <2>1 DEF FirstWord, InputValid, Outputs
  <2> QED
    BY <2>2 DEF OutputOK
<1>2. CASE FirstWait(stall, push)
  <2>1. ~outputRegValid' /\ outputReg' = outputReg /\ currentState' = "FIRST"
    BY <1>2, Zenon DEF FirstWait
  <2> QED
    BY <2>1 DEF OutputOK
<1>3. CASE TrackWord(stall, push)
  <2>1. outputReg \in Outputs /\ ~Empty
    BY <1>3 DEF TrackWord, OutputOK, InputValid
  <2>2. outputReg.msg + (IF outputReg.pad THEN 1 ELSE 0) \in Nat
    BY <2>1 DEF Outputs
  <2>3. (IF newMessageStarting THEN currentAlignment ELSE 0) \in UInt3s
    BY DEF RegistersOK, UInt3s
  <2>4. newMessageStarting \in BOOLEAN /\ (wordPos = currentMsgEndWord) \in BOOLEAN
    BY DEF RegistersOK
  <2>5. outputReg' \in Outputs
    BY <1>0, <1>3, <2>1, <2>2, <2>3, <2>4 DEF TrackWord, Outputs
  <2> QED
    BY <2>5 DEF OutputOK
<1>4. CASE TrackWait(stall, push)
  <2>1. outputReg' = outputReg /\ outputReg \in Outputs
    BY <1>4 DEF TrackWait, OutputOK
  <2> QED
    BY <2>1 DEF OutputOK
<1>5. CASE Gap(stall, push)
  <2>1. outputReg \in Outputs
    BY <1>5 DEF Gap, OutputOK
  <2>2. 0 \in UInt3s
    BY DEF UInt3s
  <2>3. outputReg' \in Outputs
    BY <1>5, <2>1, <2>2 DEF Gap, Outputs
  <2> QED
    BY <2>3 DEF OutputOK
<1> QED
  BY <1>1, <1>2, <1>3, <1>4, <1>5 DEF Cycle

TypeInv == RegistersOK /\ OutputOK /\ FifoInv /\ StallInv

LEMMA TypeInvInit == Init => TypeInv
<1> SUFFICES ASSUME Init PROVE TypeInv
  OBVIOUS
<1>1. ~outputRegValid /\ ~newMessageStarting /\ ~frameEndedLastCycle /\ ~inStep
      /\ newMessageStarting \in BOOLEAN /\ frameEndedLastCycle \in BOOLEAN
      /\ inStep \in BOOLEAN
  BY Zenon DEF Init
<1>2. RegistersOK
  BY <1>1 DEF Init, RegistersOK, UInt16s, UInt3s, States
<1>3. OutputOK
  BY <1>1 DEF Init, OutputOK
<1> QED
  BY <1>2, <1>3, FifoInvInit, StallInvInit DEF TypeInv

LEMMA TypeInvStep == TypeInv /\ [Next]_vars => TypeInv'
<1> SUFFICES ASSUME TypeInv, [Next]_vars PROVE TypeInv'
  OBVIOUS
<1>1. FifoInv' /\ StallInv'
  BY FifoInvStep, StallInvStep DEF TypeInv
<1>2. CASE UNCHANGED vars
  BY <1>1, <1>2 DEF TypeInv, RegistersOK, OutputOK, vars, registers
<1>3. CASE Next
  BY <1>1, <1>3, RegistersStep, OutputStep DEF TypeInv, Next
<1> QED
  BY <1>2, <1>3

LEMMA TypeInvAlways == Spec => []TypeInv
BY TypeInvInit, TypeInvStep, PTL DEF Spec

\* Type correctness.
THEOREM TrackerTypes == Spec => []TypeOK
<1>1. TypeInv => TypeOK
  BY FifoAssumption DEF TypeInv, TypeOK, RegistersOK, OutputOK, FifoInv, StallInv
<1> QED
  BY <1>1, TypeInvAlways, PTL

-----------------------------------------------------------------------------
(***************************************************************************)
(* The place in the frame.  The FIFO and upstream together hold the words  *)
(* of frames in order; the machine waits for word 0 in FIRST and for word  *)
(* wordPos of its frame in TRACK, whether or not that word has arrived.    *)
(***************************************************************************)
Follows(a, b) == IF a.eof THEN b.word = 0 ELSE b.frame = a.frame /\ b.word = a.word + 1

Chain(fifo, up) ==
  /\ \A i \in 1 .. Len(fifo) : /\ fifo[i].word <= LastWord(fifo[i].frame)
                               /\ fifo[i].eof <=> fifo[i].word = LastWord(fifo[i].frame)
  /\ \A i \in 1 .. Len(fifo) - 1 : Follows(fifo[i], fifo[i + 1])
  /\ fifo # <<>> => up = IF fifo[Len(fifo)].eof THEN NoWord ELSE fifo[Len(fifo)]

AtStart(fifo, up) == IF fifo = <<>> THEN up = NoWord ELSE fifo[1].word = 0
AtWord(fifo, up, f, k) ==
  IF fifo = <<>> THEN up # NoWord /\ up.frame = f /\ up.word + 1 = k
                 ELSE fifo[1].frame = f /\ fifo[1].word = k

PlaceInv ==
  /\ Chain(inputFifo, upstream)
  /\ IF currentState = "FIRST" \/ (currentState = "GAP" /\ frameEndedLastCycle)
     THEN AtStart(inputFifo, upstream)
     ELSE AtWord(inputFifo, upstream, outputReg.frame, wordPos)

\* What arrives continues what upstream remembers.
LEMMA ArrivingContinues ==
  ASSUME FifoInv, NEW w \in ArrivingWords
  PROVE  IF upstream = NoWord THEN w.word = 0
         ELSE w.frame = upstream.frame /\ w.word = upstream.word + 1
<1>1. CASE upstream = NoWord
  <2>1. PICK f \in Frames : w = FrameWord(f, 0)
    BY <1>1 DEF ArrivingWords
  <2> QED
    BY <1>1, <2>1 DEF FrameWord
<1>2. CASE upstream # NoWord
  BY <1>2 DEF ArrivingWords, FrameWord
<1> QED
  BY <1>1, <1>2

\* Appending a word that continues the chain.
LEMMA ChainPush ==
  ASSUME FifoInv, NEW rest \in Seq(Words), Chain(rest, upstream),
         NEW w \in ArrivingWords
  PROVE  Chain(Append(rest, w), IF w.eof THEN NoWord ELSE w)
<1> DEFINE longer == Append(rest, w)
<1>0. w \in Words
  BY ArrivingTyped
<1>1. /\ longer \in Seq(Words) /\ Len(longer) = Len(rest) + 1 /\ Len(rest) \in Nat
      /\ \A i \in 1 .. Len(rest) : longer[i] = rest[i]
      /\ longer[Len(rest) + 1] = w /\ longer # <<>>
  BY <1>0
<1> HIDE DEF longer
<1>2. ASSUME NEW i \in 1 .. Len(longer)
      PROVE  /\ longer[i].word <= LastWord(longer[i].frame)
             /\ longer[i].eof <=> longer[i].word = LastWord(longer[i].frame)
  <2>1. CASE i = Len(rest) + 1
    <3>1. w.frame \in Frames
      BY <1>0 DEF Words
    <3>2. LastWord(w.frame) \in Int
      BY <3>1, LastWordBound
    <3>3. w.word \in 0 .. LastWord(w.frame) /\ (w.eof <=> w.word = LastWord(w.frame))
      BY ArrivingTyped
    <3> QED
      BY <1>1, <2>1, <3>2, <3>3
  <2>2. CASE i \in 1 .. Len(rest)
    BY <1>1, <2>2 DEF Chain
  <2> QED
    BY <1>1, <2>1, <2>2
<1>3. ASSUME NEW i \in 1 .. Len(longer) - 1
      PROVE  Follows(longer[i], longer[i + 1])
  <2>1. CASE i = Len(rest)
    <3>1. rest # <<>> /\ longer[i] = rest[Len(rest)] /\ longer[i + 1] = w
      BY <1>1, <2>1
    <3>2. upstream = IF rest[Len(rest)].eof THEN NoWord ELSE rest[Len(rest)]
      BY <3>1 DEF Chain
    <3>3. rest[Len(rest)] \in Words
      BY <1>1, <2>1
    <3>4. rest[Len(rest)] # NoWord
      BY <3>3, NoWordAssumption
    <3> QED
      BY <3>1, <3>2, <3>4, ArrivingContinues DEF Follows
  <2>2. CASE i # Len(rest)
    <3>1. i \in 1 .. Len(rest) - 1 /\ i \in 1 .. Len(rest) /\ i + 1 \in 1 .. Len(rest)
      BY <1>1, <2>2
    <3> QED
      BY <1>1, <3>1 DEF Chain
  <2> QED
    BY <2>1, <2>2
<1> QED
  BY <1>1, <1>2, <1>3 DEF Chain, longer

\* Reading the head leaves a chain.
LEMMA ChainTail ==
  ASSUME FifoInv, inputFifo # <<>>, Chain(inputFifo, upstream)
  PROVE  /\ Tail(inputFifo) \in Seq(Words)
         /\ Chain(Tail(inputFifo), upstream)
         /\ IF inputFifo[1].eof THEN AtStart(Tail(inputFifo), upstream)
            ELSE AtWord(Tail(inputFifo), upstream, inputFifo[1].frame, inputFifo[1].word + 1)
<1> DEFINE rest == Tail(inputFifo)
<1>1. /\ rest \in Seq(Words) /\ Len(rest) = Len(inputFifo) - 1
      /\ Len(inputFifo) \in Nat /\ Len(inputFifo) >= 1
      /\ \A i \in 1 .. Len(rest) : rest[i] = inputFifo[i + 1]
  BY DEF FifoInv
<1>2. rest = <<>> <=> Len(rest) = 0
  <2> HIDE DEF rest
  <2> QED
    BY <1>1
<1>3. inputFifo[1] \in Words
  BY <1>1 DEF FifoInv
<1> HIDE DEF rest
<1>4. ASSUME NEW i \in 1 .. Len(rest)
      PROVE  /\ rest[i].word <= LastWord(rest[i].frame)
             /\ rest[i].eof <=> rest[i].word = LastWord(rest[i].frame)
  <2>1. i + 1 \in 1 .. Len(inputFifo)
    BY <1>1
  <2> QED
    BY <1>1, <2>1 DEF Chain
<1>5. ASSUME NEW i \in 1 .. Len(rest) - 1
      PROVE  Follows(rest[i], rest[i + 1])
  <2>1. /\ i + 1 \in 1 .. Len(inputFifo) - 1 /\ i \in 1 .. Len(rest)
        /\ i + 1 \in 1 .. Len(rest)
    BY <1>1
  <2>2. Follows(inputFifo[i + 1], inputFifo[(i + 1) + 1])
    BY <2>1 DEF Chain
  <2> QED
    BY <1>1, <2>1, <2>2
<1>6. rest # <<>> => rest[Len(rest)] = inputFifo[Len(inputFifo)]
  BY <1>1, <1>2
<1>7. Chain(rest, upstream)
  BY <1>4, <1>5, <1>6 DEF Chain
<1>8. IF inputFifo[1].eof THEN AtStart(rest, upstream)
      ELSE AtWord(rest, upstream, inputFifo[1].frame, inputFifo[1].word + 1)
  <2>1. CASE rest = <<>>
    <3>1. Len(inputFifo) = 1
      BY <1>1, <1>2, <2>1
    <3>2. upstream = IF inputFifo[1].eof THEN NoWord ELSE inputFifo[1]
      BY <3>1 DEF Chain
    <3> QED
      BY <1>3, <2>1, <3>2, NoWordAssumption DEF AtStart, AtWord
  <2>2. CASE rest # <<>>
    <3>1. 1 \in 1 .. Len(inputFifo) - 1 /\ rest[1] = inputFifo[2]
      BY <1>1, <1>2, <2>2
    <3>2. Follows(inputFifo[1], inputFifo[1 + 1])
      BY <3>1 DEF Chain
    <3> QED
      BY <2>2, <3>1, <3>2 DEF Follows, AtStart, AtWord
  <2> QED
    BY <2>1, <2>2
<1> QED
  BY <1>1, <1>7, <1>8 DEF rest

\* A cycle that does not read the FIFO keeps the chain and the place in it.
LEMMA InputUnread ==
  ASSUME FifoInv, NEW rest \in Seq(Words), Chain(rest, upstream),
         NEW push \in BOOLEAN,
         IF push THEN \E w \in ArrivingWords :
                        /\ inputFifo' = Append(rest, w)
                        /\ upstream' = IF w.eof THEN NoWord ELSE w
                 ELSE inputFifo' = rest /\ upstream' = upstream
  PROVE  /\ Chain(inputFifo', upstream')
         /\ AtStart(rest, upstream) => AtStart(inputFifo', upstream')
         /\ \A f, k : AtWord(rest, upstream, f, k) => AtWord(inputFifo', upstream', f, k)
<1>1. CASE ~push
  BY <1>1
<1>2. CASE push
  <2>1. PICK w \in ArrivingWords : /\ inputFifo' = Append(rest, w)
                                  /\ upstream' = IF w.eof THEN NoWord ELSE w
    BY <1>2
  <2>2. Chain(inputFifo', upstream')
    BY <2>1, ChainPush
  <2>3. w \in Words
    BY ArrivingTyped
  <2>4. inputFifo' # <<>> /\ inputFifo'[1] = IF rest = <<>> THEN w ELSE rest[1]
    BY <2>1, <2>3
  <2>5. AtStart(rest, upstream) => AtStart(inputFifo', upstream')
    BY <2>4, ArrivingContinues DEF AtStart
  <2>6. \A f, k : AtWord(rest, upstream, f, k) => AtWord(inputFifo', upstream', f, k)
    BY <2>4, ArrivingContinues DEF AtWord
  <2> QED
    BY <2>2, <2>5, <2>6
<1> QED
  BY <1>1, <1>2

LEMMA PlaceUnread ==
  ASSUME FifoInv, Chain(inputFifo, upstream), NEW push \in BOOLEAN, Input(FALSE, push)
  PROVE  /\ Chain(inputFifo', upstream')
         /\ AtStart(inputFifo, upstream) => AtStart(inputFifo', upstream')
         /\ \A f, k : AtWord(inputFifo, upstream, f, k) => AtWord(inputFifo', upstream', f, k)
<1>1. inputFifo \in Seq(Words)
  BY DEF FifoInv
<1>2. IF push THEN \E w \in ArrivingWords :
                     /\ inputFifo' = Append(inputFifo, w)
                     /\ upstream' = IF w.eof THEN NoWord ELSE w
              ELSE inputFifo' = inputFifo /\ upstream' = upstream
  BY DEF Input
<1> QED
  BY <1>1, <1>2, InputUnread

LEMMA PlaceRead ==
  ASSUME FifoInv, Chain(inputFifo, upstream), ~Empty, NEW push \in BOOLEAN,
         Input(TRUE, push)
  PROVE  /\ Chain(inputFifo', upstream')
         /\ IF Head(inputFifo).eof THEN AtStart(inputFifo', upstream')
            ELSE AtWord(inputFifo', upstream',
                        Head(inputFifo).frame, Head(inputFifo).word + 1)
<1> DEFINE rest == Tail(inputFifo)
<1>1. inputFifo # <<>> /\ Head(inputFifo) = inputFifo[1]
  BY DEF FifoInv, Empty
<1>2. /\ rest \in Seq(Words)
      /\ Chain(rest, upstream)
      /\ IF inputFifo[1].eof THEN AtStart(rest, upstream)
         ELSE AtWord(rest, upstream, inputFifo[1].frame, inputFifo[1].word + 1)
  BY <1>1, ChainTail
<1>3. IF push THEN \E w \in ArrivingWords :
                     /\ inputFifo' = Append(rest, w)
                     /\ upstream' = IF w.eof THEN NoWord ELSE w
              ELSE inputFifo' = rest /\ upstream' = upstream
  BY DEF Input
<1> HIDE DEF rest
<1>4. /\ Chain(inputFifo', upstream')
      /\ AtStart(rest, upstream) => AtStart(inputFifo', upstream')
      /\ \A f, k : AtWord(rest, upstream, f, k) => AtWord(inputFifo', upstream', f, k)
  BY <1>2, <1>3, InputUnread
<1> QED
  BY <1>1, <1>2, <1>4

\* The word at the head, or the word upstream remembers, is a word of a frame,
\* so the word counter never wraps.
LEMMA HeadInFrame ==
  ASSUME FifoInv, Chain(inputFifo, upstream), ~Empty
  PROVE  /\ Head(inputFifo) = inputFifo[1] /\ inputFifo # <<>>
         /\ Head(inputFifo) \in Words
         /\ Head(inputFifo).word \in Nat /\ Head(inputFifo).word <= 8188
         /\ Head(inputFifo).eof <=> Head(inputFifo).word = LastWord(Head(inputFifo).frame)
<1>1. /\ inputFifo # <<>> /\ Head(inputFifo) = inputFifo[1]
      /\ inputFifo[1] \in Words /\ 1 \in 1 .. Len(inputFifo)
  BY DEF FifoInv, Empty
<1>2. /\ inputFifo[1].word <= LastWord(inputFifo[1].frame)
      /\ inputFifo[1].eof <=> inputFifo[1].word = LastWord(inputFifo[1].frame)
  BY <1>1 DEF Chain
<1>3. inputFifo[1].frame \in Frames /\ inputFifo[1].word \in UInt16s
  BY <1>1 DEF Words
<1>4. LastWord(inputFifo[1].frame) \in Int /\ LastWord(inputFifo[1].frame) <= 8188
  BY <1>3, LastWordBound
<1>5. inputFifo[1].word \in Nat /\ inputFifo[1].word <= 8188
  BY <1>2, <1>3, <1>4 DEF UInt16s
<1> QED
  BY <1>1, <1>2, <1>5

LEMMA SmallWordsDoNotWrap ==
  ASSUME NEW k \in Nat, k <= 8188
  PROVE  UInt16(k + 1) = k + 1
BY DEF UInt16

LEMMA PlaceStep ==
  ASSUME TypeInv, PlaceInv, NEW stall \in BOOLEAN, NEW push \in BOOLEAN,
         Cycle(stall, push)
  PROVE  PlaceInv'
<1> DEFINE h == Head(inputFifo)
<1> USE DEF TypeInv
<1>1. CASE FirstWord(stall, push)
  <2>1. ~Empty /\ Input(TRUE, push) /\ currentState = "FIRST"
    BY <1>1 DEF FirstWord, InputValid
  <2>2. h = inputFifo[1] /\ inputFifo # <<>> /\ h \in Words
        /\ (h.eof <=> h.word = LastWord(h.frame))
    BY <2>1, HeadInFrame DEF PlaceInv
  <2>3. h.word = 0
    BY <2>1, <2>2 DEF PlaceInv, AtStart
  <2>4. ~h.eof
    <3>1. h.frame \in Frames
      BY <2>2 DEF Words
    <3>2. LastWord(h.frame) # 0
      BY <3>1, LastWordBound
    <3> QED
      BY <2>2, <2>3, <3>2
  <2>5. Chain(inputFifo', upstream') /\ AtWord(inputFifo', upstream', h.frame, h.word + 1)
    BY <2>1, <2>4, PlaceRead DEF PlaceInv
  <2>6. currentState' = "TRACK" /\ wordPos' = h.word + 1 /\ outputReg'.frame = h.frame
    BY <1>1, <2>3 DEF FirstWord, FirstRegisters
  <2> QED
    BY <2>5, <2>6 DEF PlaceInv
<1>2. CASE FirstWait(stall, push)
  <2>1. Input(FALSE, push) /\ currentState = "FIRST" /\ currentState' = "FIRST"
    BY <1>2 DEF FirstWait
  <2> QED
    BY <2>1, PlaceUnread DEF PlaceInv
<1>3. CASE TrackWord(stall, push)
  <2>1. ~Empty /\ currentState = "TRACK"
    BY <1>3 DEF TrackWord, InputValid
  <2>2. /\ h = inputFifo[1] /\ inputFifo # <<>> /\ h \in Words
        /\ h.word \in Nat /\ h.word <= 8188
    BY <2>1, HeadInFrame DEF PlaceInv
  <2>3. h.frame = outputReg.frame /\ h.word = wordPos
    BY <2>1, <2>2 DEF PlaceInv, AtWord
  <2> DEFINE shared == wordPos = currentMsgEndWord /\ currentMsgEndWord = nextMsgStartWord
  <2>4. /\ frameEndedLastCycle' = h.eof
        /\ currentState' = IF wordPos = currentMsgEndWord \/ h.eof THEN "GAP" ELSE "TRACK"
        /\ outputReg'.frame = h.frame
        /\ wordPos' = IF shared THEN wordPos ELSE UInt16(wordPos + 1)
        /\ Input(~shared \/ h.eof, push)
    BY <1>3 DEF TrackWord, ReadsWord
  <2>5. CASE h.eof
    <3>1. Input(TRUE, push)
      BY <2>4, <2>5
    <3>2. Chain(inputFifo', upstream') /\ AtStart(inputFifo', upstream')
      BY <2>1, <2>5, <3>1, PlaceRead DEF PlaceInv
    <3>3. currentState' = "GAP" /\ frameEndedLastCycle'
      BY <2>4, <2>5
    <3> QED
      BY <3>2, <3>3 DEF PlaceInv
  <2>6. CASE ~h.eof /\ shared
    <3>1. Input(FALSE, push)
      BY <2>4, <2>6
    <3>2. /\ Chain(inputFifo', upstream')
          /\ AtWord(inputFifo', upstream', outputReg.frame, wordPos)
      BY <2>1, <3>1, PlaceUnread DEF PlaceInv
    <3>3. /\ currentState' = "GAP" /\ ~frameEndedLastCycle'
          /\ outputReg'.frame = outputReg.frame /\ wordPos' = wordPos
      BY <2>3, <2>4, <2>6
    <3> QED
      BY <3>2, <3>3 DEF PlaceInv
  <2>7. CASE ~h.eof /\ ~shared
    <3>1. Input(TRUE, push)
      BY <2>4, <2>7
    <3>2. /\ Chain(inputFifo', upstream')
          /\ AtWord(inputFifo', upstream', h.frame, h.word + 1)
      BY <2>1, <2>7, <3>1, PlaceRead DEF PlaceInv
    <3>3. /\ currentState' \in {"GAP", "TRACK"} /\ ~frameEndedLastCycle'
          /\ outputReg'.frame = h.frame /\ wordPos' = h.word + 1
      BY <2>2, <2>3, <2>4, <2>7, SmallWordsDoNotWrap
    <3> QED
      BY <3>2, <3>3 DEF PlaceInv
  <2> QED
    BY <2>5, <2>6, <2>7
<1>4. CASE TrackWait(stall, push)
  <2>1. /\ Input(FALSE, push) /\ currentState = "TRACK" /\ currentState' = "TRACK"
        /\ outputReg' = outputReg /\ wordPos' = wordPos
    BY <1>4 DEF TrackWait
  <2> QED
    BY <2>1, PlaceUnread DEF PlaceInv
<1>5. CASE Gap(stall, push)
  <2>1. /\ Input(FALSE, push) /\ currentState = "GAP" /\ wordPos' = wordPos
        /\ currentState' = IF frameEndedLastCycle THEN "FIRST" ELSE "TRACK"
    BY <1>5 DEF Gap
  <2>2. outputReg'.frame = outputReg.frame
    <3>1. outputReg \in Outputs
      BY <2>1 DEF OutputOK
    <3> QED
      BY <1>5, <3>1 DEF Gap, Outputs
  <2> QED
    BY <2>1, <2>2, PlaceUnread DEF PlaceInv
<1> QED
  BY <1>1, <1>2, <1>3, <1>4, <1>5 DEF Cycle

LEMMA PlaceAlways == Spec => []PlaceInv
<1>1. Init => PlaceInv
  BY DEF Init, PlaceInv, Chain, AtStart
<1>2. TypeInv /\ PlaceInv /\ [Next]_vars => PlaceInv'
  <2> SUFFICES ASSUME TypeInv, PlaceInv, [Next]_vars PROVE PlaceInv'
    OBVIOUS
  <2>1. CASE UNCHANGED vars
    BY <2>1 DEF PlaceInv, vars, registers
  <2>2. CASE Next
    BY <2>2, PlaceStep DEF Next
  <2> QED
    BY <2>1, <2>2
<1> QED
  BY <1>1, <1>2, TypeInvAlways, PTL DEF Spec

\* However a frame was read, the machine is in FIRST exactly when the next word
\* is the first of a frame, and in TRACK it reads word wordPos of its frame:
\* no word is skipped and a lost message boundary never outlives its frame.
THEOREM TrackerFindsFrameStart == Spec => []FrameStartsInFirst
<1>1. TypeInv /\ PlaceInv => FrameStartsInFirst
  <2> SUFFICES ASSUME TypeInv, PlaceInv, ~Empty PROVE FrameStartsInFirst
    BY DEF FrameStartsInFirst
  <2>1. Head(inputFifo) = inputFifo[1] /\ inputFifo # <<>>
    BY HeadInFrame DEF TypeInv, PlaceInv
  <2> QED
    BY <2>1 DEF PlaceInv, AtStart, AtWord, FrameStartsInFirst
<1> QED
  BY <1>1, TypeInvAlways, PlaceAlways, PTL

-----------------------------------------------------------------------------
(***************************************************************************)
(* The shared word.  The end and start registers agree unless the message  *)
(* ends on a word boundary, so a word with bytes of both messages is not   *)
(* taken from the FIFO when the first of them ends.                        *)
(***************************************************************************)
SharedInv ==
  /\ currentState # "FIRST" /\ nextAlignment # 0 => currentMsgEndWord = nextMsgStartWord
  /\ SharedWordStillThere

LEMMA UnreadStaysThere ==
  ASSUME FifoInv, NEW push \in BOOLEAN, Input(FALSE, push), ~Empty
  PROVE  ~Empty'
<1>1. CASE push
  <2>1. PICK w \in ArrivingWords : inputFifo' = Append(inputFifo, w)
    BY <1>1 DEF Input
  <2>2. w \in Words
    BY ArrivingTyped
  <2> QED
    BY <2>1, <2>2 DEF FifoInv, Empty
<1>2. CASE ~push
  BY <1>2 DEF Input, Empty
<1> QED
  BY <1>1, <1>2

LEMMA SharedStep ==
  ASSUME TypeInv, SharedInv, NEW stall \in BOOLEAN, NEW push \in BOOLEAN,
         Cycle(stall, push)
  PROVE  SharedInv'
<1> USE DEF SharedInv, SharedWordStillThere
<1>1. CASE FirstWord(stall, push)
  BY <1>1 DEF FirstWord, FirstRegisters, Boundaries
<1>2. CASE FirstWait(stall, push)
  BY <1>2 DEF FirstWait
<1>3. CASE TrackWord(stall, push)
  <2>1. /\ currentState = "TRACK" /\ ~Empty
        /\ frameEndedLastCycle' = Head(inputFifo).eof
        /\ currentState' = IF wordPos = currentMsgEndWord \/ Head(inputFifo).eof
                           THEN "GAP" ELSE "TRACK"
        /\ nextAlignment' = nextAlignment /\ nextMsgStartWord' = nextMsgStartWord
        /\ currentMsgEndWord' = currentMsgEndWord
        /\ Input(~(wordPos = currentMsgEndWord /\ currentMsgEndWord = nextMsgStartWord)
                   \/ Head(inputFifo).eof, push)
    BY <1>3 DEF TrackWord, InputValid, ReadsWord
  <2>2. ASSUME currentState' = "GAP", ~frameEndedLastCycle', nextAlignment' # 0
        PROVE  ~Empty'
    <3>1. /\ ~Head(inputFifo).eof /\ wordPos = currentMsgEndWord
          /\ currentMsgEndWord = nextMsgStartWord
      BY <2>1, <2>2
    <3>2. Input(FALSE, push)
      BY <2>1, <3>1
    <3> QED
      BY <2>1, <3>2, UnreadStaysThere DEF TypeInv
  <2> QED
    BY <2>1, <2>2
<1>4. CASE TrackWait(stall, push)
  BY <1>4 DEF TrackWait
<1>5. CASE Gap(stall, push)
  BY <1>5 DEF Gap, Boundaries
<1> QED
  BY <1>1, <1>2, <1>3, <1>4, <1>5 DEF Cycle

\* The count of a message that begins in the middle of a word is never read
\* from an empty FIFO, for any frames and any timing.
THEOREM TrackerKeepsSharedWord == Spec => []SharedWordStillThere
<1>1. Init => SharedInv
  BY DEF Init, SharedInv, SharedWordStillThere
<1>2. TypeInv /\ SharedInv /\ [Next]_vars => SharedInv'
  <2> SUFFICES ASSUME TypeInv, SharedInv, [Next]_vars PROVE SharedInv'
    OBVIOUS
  <2>1. CASE UNCHANGED vars
    BY <2>1 DEF SharedInv, SharedWordStillThere, Empty, vars, registers
  <2>2. CASE Next
    BY <2>2, SharedStep DEF Next
  <2> QED
    BY <2>1, <2>2
<1>3. SharedInv => SharedWordStillThere
  BY DEF SharedInv
<1> QED
  BY <1>1, <1>2, <1>3, TypeInvAlways, PTL DEF Spec

-----------------------------------------------------------------------------
(***************************************************************************)
(* The order of the words put out.  In TRACK the next word read is the one *)
(* after the last put out, or that word again after its padding; a padding *)
(* word on a frame's last word leads to FIRST and every other one to       *)
(* TRACK.                                                                  *)
(***************************************************************************)
OrderInv ==
  /\ currentState = "FIRST" /\ outputReg # NoWord =>
       outputReg.pad /\ outputReg.word = LastWord(outputReg.frame)
  /\ currentState = "GAP" =>
       /\ ~outputReg.pad
       /\ frameEndedLastCycle <=> outputReg.word = LastWord(outputReg.frame)
  /\ currentState = "TRACK" =>
       outputReg.word # LastWord(outputReg.frame)
  /\ currentState = "TRACK" \/ (currentState = "GAP" /\ ~frameEndedLastCycle) =>
       \/ wordPos = outputReg.word + 1
       \/ wordPos = outputReg.word /\ (currentState = "TRACK" => outputReg.pad)

LEMMA OrderStep ==
  ASSUME TypeInv, PlaceInv, OrderInv, NEW stall \in BOOLEAN, NEW push \in BOOLEAN,
         Cycle(stall, push)
  PROVE  OrderInv' /\ (outputReg' # outputReg => InOrder)
<1> DEFINE h == Head(inputFifo)
<1> USE DEF TypeInv
<1>1. CASE FirstWord(stall, push)
  <2>1. ~Empty /\ currentState = "FIRST"
    BY <1>1 DEF FirstWord, InputValid
  <2>2. h = inputFifo[1] /\ inputFifo # <<>> /\ h \in Words
    BY <2>1, HeadInFrame DEF PlaceInv
  <2>3. h.word = 0
    BY <2>1, <2>2 DEF PlaceInv, AtStart
  <2>4. LastWord(h.frame) # 0
    <3>1. h.frame \in Frames
      BY <2>2 DEF Words
    <3> QED
      BY <3>1, LastWordBound
  <2>5. /\ currentState' = "TRACK" /\ wordPos' = 1 /\ outputReg'.frame = h.frame
        /\ outputReg'.word = h.word
    BY <1>1 DEF FirstWord, FirstRegisters
  <2>6. OrderInv'
    BY <2>3, <2>4, <2>5 DEF OrderInv
  <2>7. InOrder
    BY <2>1, <2>3, <2>5 DEF OrderInv, InOrder
  <2> QED
    BY <2>6, <2>7
<1>2. CASE FirstWait(stall, push)
  BY <1>2 DEF FirstWait, OrderInv
<1>3. CASE TrackWord(stall, push)
  <2>1. ~Empty /\ currentState = "TRACK"
    BY <1>3 DEF TrackWord, InputValid
  <2>2. /\ h = inputFifo[1] /\ inputFifo # <<>>
        /\ h.word \in Nat /\ h.word <= 8188
        /\ h.eof <=> h.word = LastWord(h.frame)
    BY <2>1, HeadInFrame DEF PlaceInv
  <2>3. h.frame = outputReg.frame /\ h.word = wordPos
    BY <2>1, <2>2 DEF PlaceInv, AtWord
  <2> DEFINE shared == wordPos = currentMsgEndWord /\ currentMsgEndWord = nextMsgStartWord
  <2>4. /\ frameEndedLastCycle' = h.eof
        /\ currentState' = IF wordPos = currentMsgEndWord \/ h.eof THEN "GAP" ELSE "TRACK"
        /\ outputReg'.frame = h.frame /\ outputReg'.word = h.word /\ ~outputReg'.pad
        /\ wordPos' = IF shared THEN wordPos ELSE UInt16(wordPos + 1)
    BY <1>3 DEF TrackWord
  <2>5. wordPos' = h.word \/ wordPos' = h.word + 1
    BY <2>2, <2>3, <2>4, SmallWordsDoNotWrap
  <2>6. currentState' = "TRACK" => wordPos' = h.word + 1
    BY <2>2, <2>3, <2>4, SmallWordsDoNotWrap
  <2>7. OrderInv'
    BY <2>2, <2>4, <2>5, <2>6 DEF OrderInv
  <2>8. InOrder
    BY <2>1, <2>3, <2>4 DEF OrderInv, InOrder
  <2> QED
    BY <2>7, <2>8
<1>4. CASE TrackWait(stall, push)
  BY <1>4 DEF TrackWait, OrderInv
<1>5. CASE Gap(stall, push)
  <2>1. /\ currentState = "GAP" /\ wordPos' = wordPos
        /\ currentState' = IF frameEndedLastCycle THEN "FIRST" ELSE "TRACK"
        /\ ~frameEndedLastCycle'
    BY <1>5 DEF Gap
  <2>2. outputReg \in Outputs
    BY <2>1 DEF OutputOK
  <2>3. outputReg'.frame = outputReg.frame /\ outputReg'.word = outputReg.word
        /\ outputReg'.pad
    BY <1>5, <2>2 DEF Gap, Outputs
  <2>4. OrderInv'
    BY <2>1, <2>3 DEF OrderInv
  <2>5. InOrder
    BY <2>3 DEF InOrder
  <2> QED
    BY <2>4, <2>5
<1> QED
  BY <1>1, <1>2, <1>3, <1>4, <1>5 DEF Cycle

LEMMA OrderAlways == Spec => []OrderInv
<1>1. Init => OrderInv
  BY DEF Init, OrderInv
<1>2. TypeInv /\ PlaceInv /\ OrderInv /\ [Next]_vars => OrderInv'
  <2> SUFFICES ASSUME TypeInv, PlaceInv, OrderInv, [Next]_vars PROVE OrderInv'
    OBVIOUS
  <2>1. CASE UNCHANGED vars
    BY <2>1 DEF OrderInv, vars, registers
  <2>2. CASE Next
    BY <2>2, OrderStep DEF Next
  <2> QED
    BY <2>1, <2>2
<1> QED
  BY <1>1, <1>2, TypeInvAlways, PlaceAlways, PTL DEF Spec

\* No input word is dropped, repeated without its padding or put out of order,
\* for any frames, any timing and any counts read from an empty FIFO.
THEOREM TrackerKeepsWordsInOrder == Spec => WordsInOrder
<1>1. TypeInv /\ PlaceInv /\ OrderInv /\ [Next]_vars => [InOrder]_outputReg
  <2> SUFFICES ASSUME TypeInv, PlaceInv, OrderInv, [Next]_vars, outputReg' # outputReg
               PROVE  InOrder
    OBVIOUS
  <2>1. Next
    BY DEF vars
  <2> QED
    BY <2>1, OrderStep DEF Next
<1> QED
  BY <1>1, TypeInvAlways, PlaceAlways, OrderAlways, PTL DEF Spec, WordsInOrder

-----------------------------------------------------------------------------
(***************************************************************************)
(* Where messages start.  Offsets is a recursive function on the counts of *)
(* a frame; that it exists is shown by induction, and its first facts are  *)
(* that offsets are even and that messages are at least a word long, so no *)
(* two start in the same place.                                            *)
(***************************************************************************)
LEMMA SetInduction ==
  ASSUME NEW T, T \subseteq Nat, 0 \in T, \A n \in T : n + 1 \in T
  PROVE  T = Nat
<1> SUFFICES ASSUME T # Nat PROVE FALSE
  OBVIOUS
<1> DEFINE B == Nat \ T
           R == {p \in Nat \X Nat : p[1] < p[2]}
<1>1. IsWellFoundedOn(R, Nat)
  BY NatLessThanWellFounded DEF OpToRel
<1>2. B \subseteq Nat /\ B # {}
  OBVIOUS
<1> HIDE DEF B, R
<1>3. PICK x \in B : \A y \in B : <<y, x>> \notin R
  BY <1>1, <1>2, WFMin, Zenon
<1>4. x \in Nat /\ x # 0 /\ x - 1 \in Nat
  BY DEF B
<1>5. <<x - 1, x>> \in R
  BY <1>4 DEF R
<1>6. x - 1 \notin B
  BY <1>3, <1>5, Zenon
<1> QED
  BY <1>4, <1>6 DEF B

LEMMA OffsetsFunction ==
  ASSUME NEW f, f.counts \in Seq(Nat)
  PROVE  Offsets(f) = [m \in 1 .. Len(f.counts) + 1 |->
                         IF m = 1 THEN HeaderBytes
                         ELSE Offsets(f)[m - 1] + MessageBytes(f.counts[m - 1])]
<1> DEFINE c == f.counts
           D == 1 .. Len(c) + 1
           Rule(g, m) == IF m = 1 THEN HeaderBytes ELSE g[m - 1] + MessageBytes(c[m - 1])
           Upto(g, n) == \A m \in D : m <= n => g[m] = Rule(g, m)
           T == {n \in Nat : \E g \in [D -> Int] : Upto(g, n)}
<1>0. Len(c) \in Nat /\ \A m \in 1 .. Len(c) : c[m] \in Nat
  OBVIOUS
<1> HIDE DEF c
<1>1. 0 \in T
  <2>1. [m \in D |-> 0] \in [D -> Int]
    OBVIOUS
  <2>2. Upto([m \in D |-> 0], 0)
    BY <1>0
  <2> QED
    BY <2>1, <2>2
<1>2. ASSUME NEW n \in T PROVE n + 1 \in T
  <2>1. PICK g \in [D -> Int] : Upto(g, n)
    OBVIOUS
  <2>2. \A m \in D : Rule(g, m) \in Int
    <3> SUFFICES ASSUME NEW m \in D PROVE Rule(g, m) \in Int
      OBVIOUS
    <3>1. m # 1 => m - 1 \in D /\ m - 1 \in 1 .. Len(c)
      BY <1>0
    <3>2. m # 1 => g[m - 1] \in Int /\ c[m - 1] \in Nat
      BY <1>0, <3>1
    <3> QED
      BY <3>2 DEF MessageBytes, MsgOverhead, EfSize, HeaderBytes
  <2> DEFINE h == [m \in D |-> IF m = n + 1 THEN Rule(g, m) ELSE g[m]]
  <2>3. h \in [D -> Int]
    <3> HIDE DEF Rule
    <3> QED
      BY <2>2
  <2>4. Upto(h, n + 1)
    <3> SUFFICES ASSUME NEW m \in D, m <= n + 1 PROVE h[m] = Rule(h, m)
      OBVIOUS
    <3>1. n \in Nat /\ m \in Nat
      BY <1>0
    <3>2. m # 1 => m - 1 \in D /\ h[m - 1] = g[m - 1]
      BY <1>0, <3>1
    <3>3. Rule(h, m) = Rule(g, m)
      BY <3>2
    <3>4. h[m] = IF m = n + 1 THEN Rule(g, m) ELSE g[m]
      OBVIOUS
    <3>5. m # n + 1 => g[m] = Rule(g, m)
      BY <2>1, <3>1
    <3> QED
      BY <3>3, <3>4, <3>5
  <2> HIDE DEF h, Upto
  <2> QED
    BY <2>3, <2>4
<1>3. Len(c) + 1 \in T
  <2>1. T \subseteq Nat
    BY DEF T
  <2> HIDE DEF T
  <2>2. T = Nat
    BY <1>1, <1>2, <2>1, SetInduction
  <2> QED
    BY <1>0, <2>2
<1>4. PICK g \in [D -> Int] : \A m \in D : g[m] = Rule(g, m)
  BY <1>0, <1>3 DEF T
<1>5. g = [m \in D |-> Rule(g, m)]
  BY <1>4
<1> DEFINE offs == CHOOSE o : o = [m \in D |-> Rule(o, m)]
<1>6. offs = [m \in D |-> Rule(offs, m)]
  BY <1>5, Zenon
<1>7. Offsets(f) = offs
  BY Zenon DEF Offsets, c
<1> HIDE DEF offs
<1> QED
  BY <1>6, <1>7 DEF c

LEMMA FrameCounts ==
  ASSUME NEW f \in Frames
  PROVE  /\ f.counts \in Seq(Nat) /\ Len(f.counts) \in Nat /\ 1 <= Len(f.counts)
         /\ \A m \in 1 .. Len(f.counts) : f.counts[m] \in Nat
<1>1. f.counts \in Seq(Counts) /\ Counts \subseteq Nat
  BY CountAssumption DEF UInt16s
<1>2. f.counts \in Seq(Nat)
  BY <1>1, SeqMonotonic
<1>3. f.counts # <<>>
  BY FrameAssumption
<1> QED
  BY <1>2, <1>3

LEMMA OffsetsRule ==
  ASSUME NEW f \in Frames
  PROVE  /\ Offsets(f)[1] = 4
         /\ \A m \in 1 .. Len(f.counts) :
              /\ f.counts[m] \in Nat
              /\ Offsets(f)[m + 1] = Offsets(f)[m] + (10 + 6 * f.counts[m])
<1> DEFINE c == f.counts
<1>1. c \in Seq(Nat) /\ Len(c) \in Nat /\ 1 <= Len(c) /\ \A m \in 1 .. Len(c) : c[m] \in Nat
  BY FrameCounts
<1>2. Offsets(f) = [m \in 1 .. Len(c) + 1 |->
                      IF m = 1 THEN HeaderBytes
                      ELSE Offsets(f)[m - 1] + MessageBytes(c[m - 1])]
  BY <1>1, OffsetsFunction
<1> HIDE DEF c
<1>3. \A m \in 1 .. Len(c) + 1 :
        Offsets(f)[m] = IF m = 1 THEN HeaderBytes
                        ELSE Offsets(f)[m - 1] + MessageBytes(c[m - 1])
  BY <1>2
<1>4. Offsets(f)[1] = 4
  BY <1>1, <1>3 DEF HeaderBytes
<1>5. ASSUME NEW m \in 1 .. Len(c)
      PROVE  c[m] \in Nat /\ Offsets(f)[m + 1] = Offsets(f)[m] + (10 + 6 * c[m])
  <2>1. m + 1 \in 1 .. Len(c) + 1 /\ m + 1 # 1 /\ (m + 1) - 1 = m
    BY <1>1
  <2>2. Offsets(f)[m + 1] = Offsets(f)[m] + MessageBytes(c[m])
    BY <1>3, <2>1
  <2> QED
    BY <1>1, <2>2 DEF MessageBytes, MsgOverhead, EfSize
<1> QED
  BY <1>4, <1>5 DEF c

LEMMA OffsetsEven ==
  ASSUME NEW f \in Frames, NEW m \in 1 .. Len(f.counts) + 1
  PROVE  Offsets(f)[m] \in Nat /\ Offsets(f)[m] >= 4 /\ Offsets(f)[m] % 2 = 0
<1> DEFINE c == f.counts
           o == Offsets(f)
           Ok(k) == o[k] \in Nat /\ o[k] >= 4 /\ o[k] % 2 = 0
           T == {n \in Nat : n + 1 \in 1 .. Len(c) + 1 => Ok(n + 1)}
<1>1. /\ Len(c) \in Nat /\ o[1] = 4
      /\ \A k \in 1 .. Len(c) : c[k] \in Nat /\ o[k + 1] = o[k] + (10 + 6 * c[k])
  BY FrameCounts, OffsetsRule
<1> HIDE DEF c, o
<1>2. 0 \in T
  BY <1>1
<1>3. ASSUME NEW n \in T PROVE n + 1 \in T
  <2> SUFFICES ASSUME (n + 1) + 1 \in 1 .. Len(c) + 1 PROVE Ok((n + 1) + 1)
    BY DEF T
  <2>1. n + 1 \in 1 .. Len(c) /\ Ok(n + 1)
    BY <1>1
  <2>2. c[n + 1] \in Nat /\ o[(n + 1) + 1] = o[n + 1] + (10 + 6 * c[n + 1])
    BY <1>1, <2>1
  <2> QED
    BY <2>1, <2>2
<1>4. T = Nat
  <2>1. T \subseteq Nat
    BY DEF T
  <2> HIDE DEF T
  <2> QED
    BY <1>2, <1>3, <2>1, SetInduction
<1>5. m - 1 \in Nat /\ (m - 1) + 1 = m /\ m \in 1 .. Len(c) + 1
  BY <1>1 DEF c
<1>6. m - 1 \in T
  <2> HIDE DEF T
  <2> QED
    BY <1>4, <1>5
<1>7. Ok(m)
  BY <1>5, <1>6
<1> QED
  BY <1>7 DEF o

LEMMA OffsetsGrow ==
  ASSUME NEW f \in Frames, NEW i \in 1 .. Len(f.counts) + 1,
         NEW k \in 1 .. Len(f.counts) + 1, i < k
  PROVE  Offsets(f)[i] + 10 <= Offsets(f)[k]
<1> DEFINE c == f.counts
           o == Offsets(f)
           T == {n \in Nat : i + 1 + n \in 1 .. Len(c) + 1 => o[i] + 10 <= o[i + 1 + n]}
<1>1. /\ Len(c) \in Nat
      /\ \A j \in 1 .. Len(c) : c[j] \in Nat /\ o[j + 1] = o[j] + (10 + 6 * c[j])
      /\ \A j \in 1 .. Len(c) + 1 : o[j] \in Nat
      /\ i \in 1 .. Len(c) + 1 /\ k \in 1 .. Len(c) + 1
  BY FrameCounts, OffsetsRule, OffsetsEven
<1> HIDE DEF c, o
<1>2. 0 \in T
  <2> SUFFICES ASSUME i + 1 + 0 \in 1 .. Len(c) + 1 PROVE o[i] + 10 <= o[i + 1 + 0]
    BY DEF T
  <2>1. i \in 1 .. Len(c) /\ i + 1 + 0 = i + 1
    BY <1>1
  <2>2. c[i] \in Nat /\ o[i + 1] = o[i] + (10 + 6 * c[i]) /\ o[i] \in Nat
    BY <1>1, <2>1
  <2>3. o[i] + 10 <= o[i + 1]
    BY <2>2
  <2> QED
    BY <2>1, <2>3
<1>3. ASSUME NEW n \in T PROVE n + 1 \in T
  <2> SUFFICES ASSUME i + 1 + (n + 1) \in 1 .. Len(c) + 1
               PROVE  o[i] + 10 <= o[i + 1 + (n + 1)]
    BY DEF T
  <2> DEFINE j == i + 1 + n
  <2>1. j \in 1 .. Len(c) /\ j + 1 = i + 1 + (n + 1)
    BY <1>1
  <2>2. o[i] + 10 <= o[j]
    BY <1>1, <2>1
  <2> HIDE DEF j
  <2>3. c[j] \in Nat /\ o[j + 1] = o[j] + (10 + 6 * c[j]) /\ o[j] \in Nat /\ o[i] \in Nat
    BY <1>1, <2>1
  <2>4. o[i] + 10 <= o[j + 1]
    BY <2>2, <2>3
  <2> QED
    BY <2>1, <2>4
<1>4. T = Nat
  <2>1. T \subseteq Nat
    BY DEF T
  <2> HIDE DEF T
  <2> QED
    BY <1>2, <1>3, <2>1, SetInduction
<1>5. k - (i + 1) \in Nat /\ i + 1 + (k - (i + 1)) = k
  BY <1>1
<1>6. o[i] + 10 <= o[k]
  BY <1>1, <1>4, <1>5
<1> QED
  BY <1>6 DEF o

\* Division by the eight bytes of a word.
LEMMA DivWord ==
  ASSUME NEW a \in Int
  PROVE  /\ a \div 8 \in Int /\ a % 8 \in 0 .. 7
         /\ a = 8 * (a \div 8) + (a % 8)
OBVIOUS

LEMMA DivUnique ==
  ASSUME NEW a \in Int, NEW q \in Int, NEW r \in 0 .. 7, a = 8 * q + r
  PROVE  a \div 8 = q /\ a % 8 = r
<1>1. (8 * q + r) \div 8 = q /\ (8 * q + r) % 8 = r
  OBVIOUS
<1> QED
  BY <1>1

\* The last byte of a message is a word before the next message's first word
\* exactly when the next message starts a word.
LEMMA EndBeforeStart ==
  ASSUME NEW f \in Frames, NEW m \in 1 .. Len(f.counts)
  PROVE  /\ StartWord(f, m + 1) \in Nat /\ StartByte(f, m + 1) \in 0 .. 7
         /\ DeclaredEndWord(f, m) = IF StartByte(f, m + 1) = 0
                                    THEN StartWord(f, m + 1) - 1 ELSE StartWord(f, m + 1)
<1> DEFINE o == Offsets(f)[m + 1]
<1>1. o \in Nat /\ o >= 4
  <2>1. m + 1 \in 1 .. Len(f.counts) + 1
    BY FrameCounts
  <2> QED
    BY <2>1, OffsetsEven
<1> HIDE DEF o
<1>2. PICK q \in Int, r \in 0 .. 7 : o = 8 * q + r /\ o \div 8 = q /\ o % 8 = r
  BY <1>1, DivWord
<1>3. (o - 1) \div 8 = IF r = 0 THEN q - 1 ELSE q
  <2>1. CASE r = 0
    <3>1. o - 1 = 8 * (q - 1) + 7 /\ o - 1 \in Int /\ q - 1 \in Int
      BY <1>1, <1>2, <2>1
    <3> QED
      BY <2>1, <3>1, DivUnique
  <2>2. CASE r # 0
    <3>1. o - 1 = 8 * q + (r - 1) /\ o - 1 \in Int /\ r - 1 \in 0 .. 7
      BY <1>1, <1>2, <2>2
    <3> QED
      BY <1>2, <2>2, <3>1, DivUnique
  <2> QED
    BY <2>1, <2>2
<1> QED
  BY <1>1, <1>2, <1>3 DEF StartWord, StartByte, DeclaredEndWord, WordBytes, o

\* A frame in words: every message but the last ends before the frame's last
\* word, and the last one, cut short or not, ends with the frame.
LEMMA MessagesInFrame ==
  ASSUME NEW f \in Frames, NEW m \in 1 .. Len(f.counts)
  PROVE  /\ StartWord(f, m) \in Nat /\ DeclaredEndWord(f, m) \in Nat
         /\ EndWord(f, m) \in Nat
         /\ StartWord(f, m) < EndWord(f, m)
         /\ m < Len(f.counts) => /\ DeclaredEndWord(f, m) < LastWord(f)
                                 /\ EndWord(f, m) = DeclaredEndWord(f, m)
         /\ m = Len(f.counts) => EndWord(f, m) = LastWord(f)
<1> DEFINE n == Len(f.counts)
           o == Offsets(f)
           b == FrameBytes(f)
<1>1. n \in Nat /\ 1 <= n
  BY FrameCounts
<1>2. \A i \in 1 .. n + 1 : o[i] \in Nat /\ o[i] >= 4
  BY OffsetsEven
<1>3. /\ \A i, k \in 1 .. n + 1 : i < k => o[i] + 10 <= o[k]
      /\ b = IF f.cut THEN o[n] + 10 ELSE o[n + 1]
  BY OffsetsGrow DEF FrameBytes, MsgOverhead
<1> HIDE DEF n, o, b
<1>4. /\ m \in 1 .. n /\ m \in 1 .. n + 1 /\ m + 1 \in 1 .. n + 1 /\ n \in 1 .. n + 1
      /\ n + 1 \in 1 .. n + 1
  BY <1>1 DEF n
<1>5. b \in Nat /\ o[n] + 10 <= b /\ b <= o[n + 1]
  BY <1>1, <1>2, <1>3, <1>4
<1>6. /\ o[m] \in Nat /\ o[m + 1] \in Nat /\ o[m] >= 4 /\ o[m] + 10 <= o[m + 1]
      /\ m < n => o[m + 1] <= o[n]
      /\ o[m] <= o[n] /\ o[n] \in Nat
  BY <1>1, <1>2, <1>3, <1>4, SMTT(40)
<1>7. /\ StartWord(f, m) = o[m] \div 8
      /\ DeclaredEndWord(f, m) = (o[m + 1] - 1) \div 8
      /\ LastWord(f) = (b - 1) \div 8
  BY DEF StartWord, DeclaredEndWord, LastWord, WordBytes, o, b
<1>8. o[m] \div 8 \in Nat /\ (o[m + 1] - 1) \div 8 \in Nat /\ (b - 1) \div 8 \in Nat
  BY <1>5, <1>6, SMTT(40)
<1>9. o[m] \div 8 < (o[m + 1] - 1) \div 8 /\ o[m] \div 8 < (b - 1) \div 8
  BY <1>5, <1>6, SMTT(40)
<1>10. m < n => (o[m + 1] - 1) \div 8 < (b - 1) \div 8
  <2>1. m < n => o[m + 1] + 10 <= b
    BY <1>5, <1>6
  <2> QED
    BY <1>5, <1>6, <2>1
<1>11. m = n => (b - 1) \div 8 <= (o[m + 1] - 1) \div 8
  BY <1>5, <1>6
<1>12. EndWord(f, m) = IF (o[m + 1] - 1) \div 8 < (b - 1) \div 8
                       THEN (o[m + 1] - 1) \div 8 ELSE (b - 1) \div 8
  BY <1>7 DEF EndWord
<1> HIDE DEF n
<1>13. (m < n \/ m = n) /\ n = Len(f.counts)
  BY <1>1, <1>4 DEF n
<1> QED
  BY <1>7, <1>8, <1>9, <1>10, <1>11, <1>12, <1>13

\* Exactly one message starts where message m starts, at an even byte.
LEMMA StartsAreDistinct ==
  ASSUME NEW f \in Frames, NEW m \in 1 .. Len(f.counts)
  PROVE  /\ MessagesAt(f, StartWord(f, m), StartByte(f, m)) = {m}
         /\ StartByte(f, m) \in {0, 2, 4, 6}
         /\ m = 1 => StartWord(f, m) = 0 /\ StartByte(f, m) = 4
<1> DEFINE n == Len(f.counts)
           o == Offsets(f)
<1>1. n \in Nat /\ o[1] = 4
  BY FrameCounts, OffsetsRule
<1>2. \A i \in 1 .. n + 1 : o[i] \in Nat /\ o[i] % 2 = 0
  BY OffsetsEven
<1>3. \A i, k \in 1 .. n + 1 : i < k => o[i] + 10 <= o[k]
  BY OffsetsGrow
<1> HIDE DEF o
<1>4. o[m] \in Nat /\ o[m] % 2 = 0
  BY <1>1, <1>2
<1>5. \A k \in 1 .. n : o[k] = o[m] => k = m
  BY <1>1, <1>2, <1>3
<1>6. (o[m] \div 8) * 8 + (o[m] % 8) = o[m]
  BY <1>4, DivWord
<1>7. MessagesAt(f, StartWord(f, m), StartByte(f, m)) = {k \in 1 .. n : o[k] = o[m]}
  <2>1. MessagesAt(f, StartWord(f, m), StartByte(f, m))
          = {k \in 1 .. n : o[k] = (o[m] \div 8) * 8 + (o[m] % 8)}
    BY DEF MessagesAt, StartWord, StartByte, WordBytes, o
  <2> QED
    BY <1>6, <2>1
<1>8. o[m] % 8 \in {0, 2, 4, 6}
  BY <1>4
<1> QED
  BY <1>1, <1>5, <1>7, <1>8 DEF StartWord, StartByte, WordBytes, o

-----------------------------------------------------------------------------
(***************************************************************************)
(* The refinement.  While the machine is in step, its registers say where  *)
(* the message it is in ends and where the next one starts, and the last   *)
(* word put out is the one the splitter promises.                          *)
(***************************************************************************)
RegistersAt(f, m) ==
  /\ nextMsgStartWord = StartWord(f, m + 1)
  /\ nextAlignment = StartByte(f, m + 1)
  /\ currentMsgEndWord = DeclaredEndWord(f, m)

SplitInv ==
  inStep =>
    LET f == outputReg.frame
        m == outputReg.msg
    IN /\ outputReg # NoWord /\ m \in 1 .. Len(f.counts)
       /\ currentState = "FIRST" => outputReg = Splitter!EndOf(f)
       /\ currentState = "GAP" =>
            /\ outputReg = Splitter!Word(f, m, EndWord(f, m))
            /\ RegistersAt(f, m)
            /\ ~frameEndedLastCycle => wordPos = StartWord(f, m + 1)
       /\ currentState = "TRACK" /\ ~outputReg.pad =>
            /\ outputReg = Splitter!Word(f, m, outputReg.word)
            /\ StartWord(f, m) <= outputReg.word /\ outputReg.word < EndWord(f, m)
            /\ wordPos = outputReg.word + 1
            /\ ~newMessageStarting /\ RegistersAt(f, m)
       /\ currentState = "TRACK" /\ outputReg.pad =>
            /\ m < Len(f.counts) /\ outputReg = Splitter!Padding(f, m)
            /\ newMessageStarting /\ currentAlignment = StartByte(f, m + 1)
            /\ RegistersAt(f, m + 1) /\ wordPos = StartWord(f, m + 1)

\* Messages whose declared length fits the sixteen bits of the byte offset
\* register.  Only the last message of a frame cut short can declare more.
DeclaredLengthsFit ==
  \A f \in Frames : f.cut =>
    LET n == Len(f.counts) IN StartByte(f, n) + MessageBytes(f.counts[n]) < 65536

\* The splitter's wire format is the tracker's.
LEMMA SameFormat ==
  /\ \A f, m : Splitter!StartWord(f, m) = StartWord(f, m)
  /\ \A f, m : Splitter!StartByte(f, m) = StartByte(f, m)
  /\ \A f, m : Splitter!DeclaredEndWord(f, m) = DeclaredEndWord(f, m)
  /\ \A f, m : Splitter!EndWord(f, m) = EndWord(f, m)
<1>1. \A f : Splitter!Offsets(f) = Offsets(f)
  BY Zenon DEF Splitter!Offsets, Offsets, Splitter!HeaderBytes, HeaderBytes, Splitter!MessageBytes, MessageBytes, Splitter!MsgOverhead, MsgOverhead, Splitter!EfSize, EfSize
<1>2. \A f : Splitter!LastWord(f) = LastWord(f)
  BY <1>1 DEF Splitter!LastWord, LastWord, Splitter!FrameBytes, FrameBytes, Splitter!MsgOverhead, MsgOverhead, Splitter!WordBytes, WordBytes
<1>3. /\ \A f, m : Splitter!StartWord(f, m) = StartWord(f, m)
      /\ \A f, m : Splitter!StartByte(f, m) = StartByte(f, m)
      /\ \A f, m : Splitter!DeclaredEndWord(f, m) = DeclaredEndWord(f, m)
  BY <1>1 DEF Splitter!StartWord, StartWord, Splitter!StartByte, StartByte, Splitter!DeclaredEndWord, DeclaredEndWord, Splitter!WordBytes, WordBytes
<1> QED
  BY <1>2, <1>3 DEF Splitter!EndWord, EndWord

\* A message's declared bytes fit the register: a frame holds at most 65507.
LEMMA DeclaredBytesFit ==
  ASSUME DeclaredLengthsFit, NEW f \in Frames, NEW m \in 1 .. Len(f.counts)
  PROVE  /\ MessageBytes(f.counts[m]) \in Nat
         /\ StartByte(f, m) + MessageBytes(f.counts[m]) < 65536
         /\ StartWord(f, m) <= 8188
         /\ Offsets(f)[m] \in Nat
         /\ Offsets(f)[m + 1] = Offsets(f)[m] + MessageBytes(f.counts[m])
<1> DEFINE n == Len(f.counts)
           o == Offsets(f)
           x == MessageBytes(f.counts[m])
<1>1. n \in Nat /\ 1 <= n /\ n \in 1 .. n + 1 /\ m \in 1 .. n + 1 /\ m + 1 \in 1 .. n + 1
      /\ n + 1 \in 1 .. n + 1
  BY FrameCounts
<1>2. x \in Nat /\ o[m + 1] = o[m] + x
  BY OffsetsRule DEF MessageBytes, MsgOverhead, EfSize
<1>3. o[m] \in Nat /\ o[m + 1] \in Nat /\ o[n] \in Nat /\ o[n + 1] \in Nat
      /\ (m + 1 < n => o[m + 1] <= o[n])
      /\ (m < n => o[m] + 10 <= o[n])
  <2>1. \A i \in 1 .. n + 1 : o[i] \in Nat
    BY OffsetsEven
  <2>2. \A i, k \in 1 .. n + 1 : i < k => o[i] + 10 <= o[k]
    BY OffsetsGrow
  <2> QED
    BY <1>1, <2>1, <2>2
<1>4. StartByte(f, m) = o[m] % 8 /\ StartByte(f, m) <= o[m] /\ StartByte(f, m) \in Nat
  BY <1>3 DEF StartByte, WordBytes
<1>5. FrameBytes(f) = IF f.cut THEN o[n] + 10 ELSE o[n + 1]
  BY DEF FrameBytes, MsgOverhead
<1>6. /\ FrameBytes(f) \in Nat /\ FrameBytes(f) <= 65512
      /\ StartWord(f, m) < LastWord(f) /\ StartWord(f, m) \in Nat
  <2>1. FrameBytes(f) \in Nat
    BY <1>3, <1>5
  <2>2. (FrameBytes(f) - 1) \div 8 <= 8188
    BY LastWordBound DEF LastWord, WordBytes
  <2>3. m = n \/ m < n
    BY <1>1
  <2>4. StartWord(f, m) < EndWord(f, m) /\ StartWord(f, m) \in Nat
        /\ EndWord(f, m) \in Nat /\ EndWord(f, m) <= LastWord(f)
    BY <2>3, MessagesInFrame, LastWordBound DEF EndWord
  <2>5. LastWord(f) \in Int
    BY LastWordBound
  <2> QED
    BY <2>1, <2>2, <2>4, <2>5
<1>7. StartWord(f, m) <= 8188
  BY <1>6, LastWordBound
<1>8. CASE f.cut /\ m = n
  BY <1>2, <1>3, <1>7, <1>8 DEF DeclaredLengthsFit
<1>9. CASE ~f.cut \/ m # n
  <2>1. o[m + 1] <= FrameBytes(f)
    <3>1. CASE m = n
      BY <1>3, <1>5, <1>9, <3>1
    <3>2. CASE m < n /\ m + 1 = n
      BY <1>1, <1>3, <1>5, <3>2, OffsetsGrow
    <3>3. CASE m < n /\ m + 1 < n
      BY <1>1, <1>3, <1>5, <3>3, OffsetsGrow, SMTT(40)
    <3> QED
      BY <1>1, <3>1, <3>2, <3>3
  <2> HIDE DEF x, o
  <2>2. StartByte(f, m) + x < 65536
    BY <1>2, <1>3, <1>4, <1>6, <2>1
  <2> QED
    BY <1>2, <1>3, <1>7, <2>2 DEF x, o
<1> QED
  BY <1>8, <1>9

\* The boundaries latched from a message's own count describe that message.
LEMMA BoundariesRight ==
  ASSUME DeclaredLengthsFit, NEW f \in Frames, NEW m \in 1 .. Len(f.counts),
         Boundaries(StartWord(f, m), UInt16(StartByte(f, m) + MessageBytes(f.counts[m])))
  PROVE  RegistersAt(f, m)'
<1> DEFINE s == StartWord(f, m)
           r == StartByte(f, m)
           x == MessageBytes(f.counts[m])
           a == Offsets(f)[m]
           b == Offsets(f)[m + 1]
           q == (r + x) \div 8
           t == (r + x) % 8
<1>1. /\ x \in Nat /\ r + x < 65536 /\ s <= 8188 /\ s \in Nat /\ r \in 0 .. 7
      /\ a = 8 * s + r /\ b = a + x
  <2>1. a \in Nat
    BY DeclaredBytesFit
  <2>2. /\ s = a \div 8 /\ r = a % 8
    BY DEF StartWord, StartByte, WordBytes
  <2> HIDE DEF s, r, a
  <2>3. a = 8 * s + r /\ r \in 0 .. 7
    BY <2>1, <2>2, DivWord
  <2> HIDE DEF x, b
  <2> QED
    BY <2>3, DeclaredBytesFit, MessagesInFrame, SMTT(40) DEF s, r, x, a, b
<1> HIDE DEF s, r, x, a, b
<1>2. q \in Nat /\ q <= 8191 /\ t \in 0 .. 7 /\ r + x = 8 * q + t
  <2>1. r + x \in Int /\ r + x >= 0
    BY <1>1
  <2>2. q \in Int /\ t \in 0 .. 7 /\ r + x = 8 * q + t
    BY <2>1, DivWord
  <2> HIDE DEF q, t
  <2> QED
    BY <1>1, <2>1, <2>2
<1>3. UInt16(r + x) = r + x
  <2>1. r + x \in Nat /\ r + x < 65536
    BY <1>1
  <2> QED
    BY <2>1 DEF UInt16
<1> DEFINE next == UInt16(s + q)
<1>4. /\ nextMsgStartWord' = next /\ nextAlignment' = t
      /\ currentMsgEndWord' = IF t = 0 THEN UInt16(next - 1) ELSE next
  BY <1>3 DEF Boundaries, ByteOffsetToWordOffset, ByteOffsetToAlignment, WordBytes, s, r, x
<1> HIDE DEF q, t
<1>5. next = s + q /\ next \in Nat /\ next < 65536
  <2>1. s + q \in Nat /\ s + q < 65536
    BY <1>1, <1>2
  <2> QED
    BY <2>1 DEF UInt16
<1>6. StartWord(f, m + 1) = s + q /\ StartByte(f, m + 1) = t
  <2>1. b = 8 * (s + q) + t /\ s + q \in Int /\ b \in Int
    BY <1>1, <1>2
  <2> DEFINE w == s + q
  <2>2. b = 8 * w + t /\ w \in Int /\ t \in 0 .. 7
    BY <1>2, <2>1
  <2> HIDE DEF w
  <2>3. b \div 8 = w /\ b % 8 = t
    BY <2>1, <2>2, DivUnique
  <2>4. b \div 8 = s + q /\ b % 8 = t
    BY <2>3 DEF w
  <2> QED
    BY <2>4 DEF StartWord, StartByte, WordBytes, b
<1> HIDE DEF next
<1>7. DeclaredEndWord(f, m) = IF t = 0 THEN s + q - 1 ELSE s + q
  <2>1. DeclaredEndWord(f, m) = IF StartByte(f, m + 1) = 0
                                THEN StartWord(f, m + 1) - 1 ELSE StartWord(f, m + 1)
    BY EndBeforeStart
  <2> QED
    BY <1>1, <1>2, <1>6, <2>1
<1>8. DeclaredEndWord(f, m) \in Nat
  BY MessagesInFrame
<1>9. t = 0 => UInt16(next - 1) = s + q - 1
  BY <1>1, <1>2, <1>5, <1>7, <1>8 DEF UInt16
<1> QED
  BY <1>4, <1>5, <1>6, <1>7, <1>9 DEF RegistersAt

\* What is read as the count of message m at its own place is its count.
LEMMA CountsRight ==
  ASSUME ~Empty, NEW f \in Frames, NEW m \in 1 .. Len(f.counts),
         Head(inputFifo).frame = f, Head(inputFifo).word = StartWord(f, m)
  PROVE  /\ CountsAt(StartByte(f, m)) = {f.counts[m]}
         /\ ExtraFieldCounts(StartByte(f, m)) = {f.counts[m]}
<1>1. MessagesAt(f, StartWord(f, m), StartByte(f, m)) = {m}
  BY StartsAreDistinct
<1>2. CountsAt(StartByte(f, m)) = {f.counts[m]}
  BY <1>1 DEF CountsAt
<1>3. ExtraFieldCounts(StartByte(f, m)) = CountsAt(StartByte(f, m))
  BY StartsAreDistinct DEF ExtraFieldCounts
<1> QED
  BY <1>2, <1>3

Bus == IF inStep THEN outputReg ELSE NoWord

\* FIRST starts a frame, whatever became of the one before.
LEMMA FirstWordSplits ==
  ASSUME TypeInv, PlaceInv, SplitInv, DeclaredLengthsFit,
         NEW stall \in BOOLEAN, NEW push \in BOOLEAN, FirstWord(stall, push)
  PROVE  SplitInv' /\ Splitter!StartFrame
<1>1. ~Empty /\ currentState = "FIRST"
  BY DEF FirstWord, InputValid
<1>2. PICK f \in Frames : Head(inputFifo).frame = f /\ Head(inputFifo).word = 0
  <2> DEFINE h == Head(inputFifo)
  <2>1. h = inputFifo[1] /\ inputFifo # <<>> /\ h \in Words
    BY <1>1, HeadInFrame DEF TypeInv, PlaceInv
  <2>2. h.word = 0
    BY <1>1, <2>1 DEF PlaceInv, AtStart
  <2>3. h.frame \in Frames
    BY <2>1 DEF Words
  <2> QED
    BY <2>2, <2>3
<1>3. 1 \in 1 .. Len(f.counts)
  BY FrameCounts
<1>4. /\ StartWord(f, 1) = 0 /\ StartByte(f, 1) = 4 /\ FirstMessageAlignment = 4
      /\ EndWord(f, 1) \in Nat /\ 0 < EndWord(f, 1)
      /\ DeclaredEndWord(f, 1) \in Nat /\ 0 < DeclaredEndWord(f, 1)
  <2>1. StartWord(f, 1) = 0 /\ StartByte(f, 1) = 4 /\ FirstMessageAlignment = 4
    BY <1>3, StartsAreDistinct DEF FirstMessageAlignment, HeaderBytes
  <2>2. LastWord(f) \in Int
    BY <1>3, LastWordBound
  <2>3. EndWord(f, 1) <= DeclaredEndWord(f, 1)
    BY <1>3, <2>2, MessagesInFrame DEF EndWord
  <2> QED
    BY <1>3, <2>1, <2>3, MessagesInFrame
<1>5. RegistersAt(f, 1)'
  <2>1. PICK n \in CountsAt(FirstMessageAlignment) :
          Boundaries(0, UInt16(FirstMessageAlignment + MessageBytes(n)))
    BY DEF FirstWord, FirstRegisters
  <2>2. n = f.counts[1]
    BY <1>1, <1>2, <1>3, <1>4, <2>1, CountsRight
  <2>3. Boundaries(StartWord(f, 1), UInt16(StartByte(f, 1) + MessageBytes(f.counts[1])))
    BY <1>4, <2>1, <2>2
  <2> QED
    BY <1>3, <2>3, BoundariesRight
<1>6. outputReg' = Splitter!Word(f, 1, 0)
  <2>1. outputReg' = [frame |-> f, msg |-> 1, word |-> 0, pad |-> FALSE, som |-> TRUE,
                      align |-> 4, eom |-> FALSE]
    BY <1>2, <1>4 DEF FirstWord
  <2>2. /\ (0 = Splitter!StartWord(f, 1)) = TRUE /\ Splitter!StartByte(f, 1) = 4
        /\ (0 = Splitter!DeclaredEndWord(f, 1)) = FALSE
    BY <1>4, SameFormat
  <2> QED
    BY <2>1, <2>2 DEF Splitter!Word
<1>7. outputReg'.frame = f /\ outputReg'.msg = 1 /\ outputReg'.word = 0 /\ ~outputReg'.pad
  BY <1>6 DEF Splitter!Word
<1>8. /\ currentState' = "TRACK" /\ wordPos' = 1 /\ ~newMessageStarting' /\ inStep'
  BY DEF FirstWord, FirstRegisters
<1>9. outputReg' # NoWord
  <2>1. outputReg' \in Outputs
    BY <1>8, OutputStep DEF TypeInv, OutputOK, Cycle
  <2> QED
    BY <2>1, NoWordAssumption
<1>10. SplitInv'
  BY <1>3, <1>4, <1>5, <1>6, <1>7, <1>8, <1>9 DEF SplitInv
<1>11. Splitter!Between
  BY <1>1 DEF SplitInv, Splitter!Between
<1> QED
  BY <1>3, <1>6, <1>8, <1>10, <1>11 DEF Splitter!StartFrame

\* TRACK goes on with its message, or starts the next after its padding.
LEMMA TrackWordSplits ==
  ASSUME TypeInv, PlaceInv, OrderInv, SplitInv, inStep,
         NEW stall \in BOOLEAN, NEW push \in BOOLEAN, TrackWord(stall, push)
  PROVE  SplitInv' /\ (Splitter!NextWord \/ Splitter!NextMessage)
<1>1. ~Empty /\ currentState = "TRACK" /\ outputReg \in Outputs
  BY DEF TrackWord, InputValid, TypeInv, OutputOK
<1>2. PICK f \in Frames, old \in Nat :
        /\ outputReg.frame = f /\ outputReg.msg = old
        /\ outputReg.pad \in BOOLEAN /\ outputReg # NoWord
        /\ old \in 1 .. Len(f.counts) /\ Len(f.counts) \in Nat
  <2>1. outputReg.frame \in Frames /\ outputReg.msg \in Nat /\ outputReg.pad \in BOOLEAN
    BY <1>1 DEF Outputs
  <2> QED
    BY <2>1, FrameCounts DEF SplitInv
<1>3. PICK w \in Nat :
        /\ wordPos = w /\ w <= 8188
        /\ Head(inputFifo).frame = f /\ Head(inputFifo).word = w
        /\ Head(inputFifo).eof <=> w = LastWord(f)
  <2> DEFINE h == Head(inputFifo)
  <2>1. /\ h = inputFifo[1] /\ inputFifo # <<>>
        /\ h.word \in Nat /\ h.word <= 8188
        /\ h.eof <=> h.word = LastWord(h.frame)
    BY <1>1, HeadInFrame DEF TypeInv, PlaceInv
  <2>2. h.frame = f /\ h.word = wordPos
    BY <1>1, <1>2, <2>1 DEF PlaceInv, AtWord
  <2> QED
    BY <2>1, <2>2
<1>0. PICK m \in Nat : m = IF outputReg.pad THEN old + 1 ELSE old
  OBVIOUS
<1> DEFINE atEnd == w = currentMsgEndWord
           shared == atEnd /\ currentMsgEndWord = nextMsgStartWord
<1>4. /\ m \in 1 .. Len(f.counts) /\ RegistersAt(f, m)
      /\ w <= EndWord(f, m) /\ StartWord(f, m) <= w
      /\ newMessageStarting <=> w = StartWord(f, m)
      /\ newMessageStarting => currentAlignment = StartByte(f, m)
      /\ newMessageStarting <=> outputReg.pad
      /\ outputReg.pad => outputReg = Splitter!Padding(f, old)
      /\ ~outputReg.pad => /\ outputReg.word < EndWord(f, m) /\ w = outputReg.word + 1
                           /\ outputReg.word \in Nat
  <2>1. CASE outputReg.pad
    <3>1. /\ old < Len(f.counts) /\ outputReg = Splitter!Padding(f, old)
          /\ newMessageStarting /\ currentAlignment = StartByte(f, old + 1)
          /\ RegistersAt(f, old + 1) /\ w = StartWord(f, old + 1)
      BY <1>1, <1>2, <1>3, <2>1 DEF SplitInv
    <3>2. m = old + 1 /\ m \in 1 .. Len(f.counts)
      BY <1>2, <1>0, <2>1, <3>1
    <3>3. w <= EndWord(f, m) /\ StartWord(f, m) <= w
      BY <1>2, <3>1, <3>2, MessagesInFrame
    <3> QED
      BY <2>1, <3>1, <3>2, <3>3
  <2>2. CASE ~outputReg.pad
    <3>1. /\ StartWord(f, old) <= outputReg.word /\ outputReg.word < EndWord(f, old)
          /\ w = outputReg.word + 1
          /\ ~newMessageStarting /\ RegistersAt(f, old)
          /\ outputReg = Splitter!Word(f, old, outputReg.word)
      BY <1>1, <1>2, <1>3, <2>2 DEF SplitInv
    <3>2. outputReg.word \in Nat
      BY <1>1 DEF Outputs, UInt16s
    <3> QED
      BY <1>2, <1>0, <2>2, <3>1, <3>2, MessagesInFrame
  <2> QED
    BY <1>2, <2>1, <2>2
<1>5. /\ StartWord(f, m) \in Nat /\ EndWord(f, m) \in Nat /\ DeclaredEndWord(f, m) \in Nat
      /\ StartWord(f, m) < EndWord(f, m)
      /\ EndWord(f, m) = IF DeclaredEndWord(f, m) < LastWord(f) THEN DeclaredEndWord(f, m)
                                                                ELSE LastWord(f)
      /\ LastWord(f) \in Int
  BY <1>2, <1>4, MessagesInFrame, LastWordBound DEF EndWord
<1>6. /\ nextMsgStartWord = StartWord(f, m + 1) /\ nextAlignment = StartByte(f, m + 1)
      /\ currentMsgEndWord = DeclaredEndWord(f, m)
  BY <1>4 DEF RegistersAt
<1>7. /\ outputReg' = [frame |-> f, msg |-> m, word |-> w, pad |-> FALSE,
                       som |-> newMessageStarting,
                       align |-> IF newMessageStarting THEN currentAlignment ELSE 0,
                       eom |-> atEnd]
      /\ wordPos' = IF shared THEN w ELSE UInt16(w + 1)
      /\ frameEndedLastCycle' = Head(inputFifo).eof
      /\ currentState' = IF atEnd \/ Head(inputFifo).eof THEN "GAP" ELSE "TRACK"
  <2>1. outputReg.msg + (IF outputReg.pad THEN 1 ELSE 0) = m
    BY <1>2, <1>0
  <2>2. /\ outputReg' = [frame |-> Head(inputFifo).frame,
                         msg |-> outputReg.msg + (IF outputReg.pad THEN 1 ELSE 0),
                         word |-> Head(inputFifo).word, pad |-> FALSE,
                         som |-> newMessageStarting,
                         align |-> IF newMessageStarting THEN currentAlignment ELSE 0,
                         eom |-> wordPos = currentMsgEndWord]
        /\ wordPos' = IF wordPos = currentMsgEndWord /\ currentMsgEndWord = nextMsgStartWord
                      THEN wordPos ELSE UInt16(wordPos + 1)
        /\ frameEndedLastCycle' = Head(inputFifo).eof
        /\ currentState' = IF wordPos = currentMsgEndWord \/ Head(inputFifo).eof
                           THEN "GAP" ELSE "TRACK"
    BY DEF TrackWord
  <2>3. (wordPos = currentMsgEndWord) = atEnd
    BY <1>3
  <2>4. /\ wordPos' = IF shared THEN w ELSE UInt16(w + 1)
        /\ currentState' = IF atEnd \/ Head(inputFifo).eof THEN "GAP" ELSE "TRACK"
    BY <1>3, <2>2
  <2> HIDE DEF atEnd
  <2>5. outputReg' = [frame |-> f, msg |-> m, word |-> w, pad |-> FALSE,
                      som |-> newMessageStarting,
                      align |-> IF newMessageStarting THEN currentAlignment ELSE 0,
                      eom |-> atEnd]
    <3>1. Head(inputFifo).frame = f /\ Head(inputFifo).word = w
      BY <1>3
    <3>2. outputReg' = [frame |-> Head(inputFifo).frame,
                        msg |-> outputReg.msg + (IF outputReg.pad THEN 1 ELSE 0),
                        word |-> Head(inputFifo).word, pad |-> FALSE,
                        som |-> newMessageStarting,
                        align |-> IF newMessageStarting THEN currentAlignment ELSE 0,
                        eom |-> wordPos = currentMsgEndWord]
      BY <2>2
    <3> QED
      BY <2>1, <2>3, <3>1, <3>2, ZenonT(60)
  <2> QED
    BY <2>2, <2>4, <2>5
<1>8. outputReg' = Splitter!Word(f, m, w)
  <2>1. /\ (w = Splitter!StartWord(f, m)) = newMessageStarting
        /\ (w = Splitter!DeclaredEndWord(f, m)) = atEnd
        /\ newMessageStarting => currentAlignment = Splitter!StartByte(f, m)
    BY <1>4, <1>6, SameFormat DEF TypeInv, RegistersOK
  <2> HIDE DEF atEnd
  <2> QED
    BY <1>7, <2>1 DEF Splitter!Word
<1>9. /\ ~newMessageStarting' /\ inStep'
      /\ nextMsgStartWord' = nextMsgStartWord /\ nextAlignment' = nextAlignment
      /\ currentMsgEndWord' = currentMsgEndWord
  BY DEF TrackWord
<1>10. outputReg'.frame = f /\ outputReg'.msg = m /\ outputReg'.word = w /\ ~outputReg'.pad
  BY <1>7
<1>11. outputReg' # NoWord
  <2>1. Cycle(stall, push)
    BY DEF Cycle
  <2>2. outputReg' \in Outputs
    BY <1>7, <2>1, OutputStep DEF TypeInv, OutputOK
  <2> QED
    BY <2>2, NoWordAssumption
<1>12. UInt16(w + 1) = w + 1
  BY <1>3, SmallWordsDoNotWrap
<1>13. ASSUME currentState' = "TRACK" PROVE SplitInv'
  <2>1. w < EndWord(f, m) /\ wordPos' = w + 1
    BY <1>3, <1>4, <1>5, <1>6, <1>7, <1>12, <1>13
  <2>2. RegistersAt(f, m)' /\ m \in 1 .. Len(f.counts) /\ StartWord(f, m) <= w
    BY <1>4, <1>9 DEF RegistersAt
  <2> QED
    BY <1>8, <1>9, <1>10, <1>11, <1>13, <2>1, <2>2 DEF SplitInv
<1>14. ASSUME currentState' = "GAP" PROVE SplitInv'
  <2>1. w = EndWord(f, m)
    BY <1>3, <1>4, <1>5, <1>6, <1>7, <1>14
  <2>2. ASSUME ~frameEndedLastCycle'
        PROVE  wordPos' = StartWord(f, m + 1)
    <3>1. w = DeclaredEndWord(f, m)
      BY <1>6, <1>7, <1>14, <2>2
    <3>2. /\ StartWord(f, m + 1) \in Nat
          /\ DeclaredEndWord(f, m) = IF StartByte(f, m + 1) = 0
                                     THEN StartWord(f, m + 1) - 1 ELSE StartWord(f, m + 1)
      BY <1>2, <1>4, EndBeforeStart
    <3> QED
      BY <1>3, <1>6, <1>7, <1>12, <3>1, <3>2
  <2>3. RegistersAt(f, m)' /\ m \in 1 .. Len(f.counts)
    BY <1>4, <1>9 DEF RegistersAt
  <2> QED
    BY <1>8, <1>9, <1>10, <1>11, <1>14, <2>1, <2>2, <2>3 DEF SplitInv
<1>15. SplitInv'
  BY <1>7, <1>13, <1>14
<1>16. Splitter!NextWord \/ Splitter!NextMessage
  <2>1. CASE outputReg.pad
    <3>1. m = outputReg.msg + 1 /\ w = StartWord(f, m)
      BY <1>2, <1>0, <1>4, <2>1
    <3>2. outputReg.msg < Len(outputReg.frame.counts)
      BY <1>2, <1>4, <2>1, <3>1
    <3> QED
      BY <1>2, <1>8, <1>9, <2>1, <3>1, <3>2, SameFormat DEF Splitter!NextMessage
  <2>2. CASE ~outputReg.pad
    <3>1. m = outputReg.msg /\ w = outputReg.word + 1
      BY <1>2, <1>0, <1>4, <2>2
    <3> QED
      BY <1>2, <1>4, <1>8, <1>9, <2>2, <3>1, SameFormat DEF Splitter!NextWord
  <2> QED
    BY <1>2, <2>1, <2>2
<1> QED
  BY <1>15, <1>16

\* GAP pads the message that has ended and latches the next one's boundaries.
LEMMA GapSplits ==
  ASSUME TypeInv, PlaceInv, OrderInv, SplitInv, DeclaredLengthsFit, inStep,
         NEW stall \in BOOLEAN, NEW push \in BOOLEAN, Gap(stall, push), inStep'
  PROVE  SplitInv' /\ Splitter!EndMessage
<1>1. currentState = "GAP" /\ outputReg \in Outputs /\ (frameEndedLastCycle \/ ~Empty)
  BY DEF Gap, TypeInv, OutputOK
<1>2. PICK f \in Frames, m \in Nat :
        /\ outputReg.frame = f /\ outputReg.msg = m /\ outputReg # NoWord
        /\ m \in 1 .. Len(f.counts) /\ Len(f.counts) \in Nat
  <2>1. outputReg.frame \in Frames /\ outputReg.msg \in Nat
    BY <1>1 DEF Outputs
  <2> QED
    BY <2>1, FrameCounts DEF SplitInv
<1>3. /\ outputReg = Splitter!Word(f, m, EndWord(f, m))
      /\ RegistersAt(f, m)
      /\ ~frameEndedLastCycle => wordPos = StartWord(f, m + 1)
      /\ frameEndedLastCycle <=> EndWord(f, m) = LastWord(f)
  <2>1. /\ outputReg = Splitter!Word(f, m, EndWord(f, m))
        /\ RegistersAt(f, m)
        /\ ~frameEndedLastCycle => wordPos = StartWord(f, m + 1)
    BY <1>1, <1>2 DEF SplitInv
  <2>2. outputReg.word = EndWord(f, m)
    BY <2>1 DEF Splitter!Word
  <2> QED
    BY <1>1, <1>2, <2>1, <2>2 DEF OrderInv
<1>4. frameEndedLastCycle <=> m = Len(f.counts)
  BY <1>2, <1>3, MessagesInFrame, LastWordBound
<1>5. outputReg' = Splitter!Padding(f, m)
  <2>1. outputReg' = [outputReg EXCEPT !.pad = TRUE, !.som = FALSE, !.align = 0, !.eom = TRUE]
    BY DEF Gap
  <2> QED
    BY <1>3, <2>1, SameFormat DEF Splitter!Word, Splitter!Padding
<1>6. /\ outputReg'.frame = f /\ outputReg'.msg = m /\ outputReg'.pad
  BY <1>5 DEF Splitter!Padding
<1>7. outputReg' # NoWord
  <2>1. Cycle(stall, push)
    BY DEF Cycle
  <2>2. outputReg' \in Outputs
    BY <2>1, OutputStep DEF TypeInv, OutputOK, Gap
  <2> QED
    BY <2>2, NoWordAssumption
<1>8. Splitter!EndMessage
  BY <1>2, <1>3, <1>5, SameFormat DEF Splitter!EndMessage, Splitter!Word
<1>9. CASE frameEndedLastCycle
  <2>1. currentState' = "FIRST"
    BY <1>9 DEF Gap
  <2>2. outputReg' = Splitter!EndOf(f)
    BY <1>4, <1>5, <1>9 DEF Splitter!EndOf
  <2> QED
    BY <1>2, <1>6, <1>7, <1>8, <2>1, <2>2 DEF SplitInv
<1>10. CASE ~frameEndedLastCycle
  <2>1. m + 1 \in 1 .. Len(f.counts) /\ m < Len(f.counts)
    BY <1>2, <1>4, <1>10
  <2>2. /\ currentState' = "TRACK" /\ newMessageStarting' /\ wordPos' = wordPos
        /\ currentAlignment' = nextAlignment
    BY <1>10 DEF Gap
  <2>3. wordPos = StartWord(f, m + 1) /\ nextAlignment = StartByte(f, m + 1)
    BY <1>3, <1>10 DEF RegistersAt
  <2>4. Head(inputFifo).frame = f /\ Head(inputFifo).word = wordPos
    <3>1. Head(inputFifo) = inputFifo[1] /\ inputFifo # <<>>
      BY <1>1, <1>10, HeadInFrame DEF TypeInv, PlaceInv
    <3> QED
      BY <1>1, <1>2, <1>10, <3>1 DEF PlaceInv, AtWord
  <2>5. RegistersAt(f, m + 1)'
    <3>1. PICK n \in ExtraFieldCounts(nextAlignment) :
            Boundaries(wordPos, UInt16(nextAlignment + MessageBytes(n)))
      BY DEF Gap
    <3>2. n = f.counts[m + 1]
      BY <1>1, <1>2, <1>10, <2>1, <2>3, <2>4, <3>1, CountsRight
    <3> QED
      BY <1>2, <2>1, <2>3, <3>1, <3>2, BoundariesRight
  <2> QED
    BY <1>2, <1>5, <1>6, <1>7, <1>8, <2>1, <2>2, <2>3, <2>5 DEF SplitInv, RegistersAt
<1> QED
  BY <1>9, <1>10

LEMMA SplitStep ==
  ASSUME TypeInv, PlaceInv, OrderInv, SplitInv, DeclaredLengthsFit,
         NEW stall \in BOOLEAN, NEW push \in BOOLEAN, Cycle(stall, push)
  PROVE  SplitInv' /\ [Splitter!Next]_(Splitter!vars)
<1> USE DEF Splitter!vars
<1>1. CASE FirstWord(stall, push)
  BY <1>1, FirstWordSplits DEF Splitter!Next
<1>2. CASE FirstWait(stall, push)
  <2>1. /\ currentState = "FIRST" /\ currentState' = "FIRST"
        /\ outputReg' = outputReg /\ inStep' = inStep
    BY <1>2 DEF FirstWait
  <2> QED
    BY <2>1 DEF SplitInv
<1>3. CASE TrackWord(stall, push)
  <2>1. CASE inStep
    BY <1>3, <2>1, TrackWordSplits DEF Splitter!Next
  <2>2. CASE ~inStep
    BY <1>3, <2>2 DEF TrackWord, SplitInv
  <2> QED
    BY <2>1, <2>2
<1>4. CASE TrackWait(stall, push)
  <2>1. /\ currentState = "TRACK" /\ currentState' = "TRACK" /\ ~newMessageStarting'
        /\ outputReg' = outputReg /\ wordPos' = wordPos
        /\ nextMsgStartWord' = nextMsgStartWord /\ nextAlignment' = nextAlignment
        /\ currentMsgEndWord' = currentMsgEndWord
        /\ inStep' <=> inStep /\ ~newMessageStarting
    BY <1>4 DEF TrackWait
  <2>2. CASE inStep /\ ~newMessageStarting
    <3>1. inStep' = inStep
      BY <2>1, <2>2, <1>4 DEF TrackWait, TypeInv, RegistersOK
    <3>2. ~outputReg.pad
      BY <2>1, <2>2 DEF SplitInv
    <3> QED
      BY <2>1, <2>2, <3>1, <3>2 DEF SplitInv, RegistersAt
  <2>3. CASE ~(inStep /\ ~newMessageStarting)
    <3>1. ~inStep'
      BY <2>1, <2>3
    <3>2. inStep => outputReg # NoWord
      BY DEF SplitInv
    <3> QED
      BY <3>1, <3>2 DEF SplitInv, Splitter!Next, Splitter!LosePlace
  <2> QED
    BY <2>2, <2>3
<1>5. CASE Gap(stall, push)
  <2>1. CASE inStep /\ inStep'
    BY <1>5, <2>1, GapSplits DEF Splitter!Next
  <2>2. CASE ~inStep
    <3>1. ~inStep'
      BY <1>5, <2>2 DEF Gap
    <3> QED
      BY <2>2, <3>1 DEF SplitInv
  <2>3. CASE inStep /\ ~inStep'
    BY <2>3 DEF SplitInv, Splitter!Next, Splitter!LosePlace
  <2> QED
    BY <2>1, <2>2, <2>3
<1> QED
  BY <1>1, <1>2, <1>3, <1>4, <1>5 DEF Cycle

\* The machine splits frames into their messages as MessageSplitter promises,
\* for any frames whose messages declare no more bytes than the offset register
\* counts, any FIFO and any timing: every step it takes is a step of the
\* splitter or leaves the splitter's bus alone.
THEOREM TrackerSplitsMessages ==
  ASSUME DeclaredLengthsFit
  PROVE  Spec => SplitsMessages
<1>1. Init => SplitInv /\ Splitter!Init
  BY DEF Init, SplitInv, Splitter!Init
<1>2. TypeInv /\ PlaceInv /\ OrderInv /\ SplitInv /\ [Next]_vars
        => SplitInv' /\ [Splitter!Next]_(Splitter!vars)
  <2> SUFFICES ASSUME TypeInv, PlaceInv, OrderInv, SplitInv, [Next]_vars
               PROVE  SplitInv' /\ [Splitter!Next]_(Splitter!vars)
    OBVIOUS
  <2>1. CASE UNCHANGED vars
    BY <2>1 DEF SplitInv, RegistersAt, Splitter!vars, vars, registers
  <2>2. CASE Next
    BY <2>2, SplitStep DEF Next
  <2> QED
    BY <2>1, <2>2
<1> QED
  BY <1>1, <1>2, TypeInvAlways, PlaceAlways, OrderAlways, PTL
     DEF Spec, SplitsMessages, Splitter!Spec
=============================================================================
