---------------------------- MODULE MessageFilter ----------------------------
(***************************************************************************)
(* The filtering kernel behind the message tracker.  It shifts the words   *)
(* of a message by the message's place in its first word, looks its field  *)
(* C up in the filter and passes all its words on, or none.                *)
(*                                                                         *)
(* The kernel is a function of its input, a sequence of cycles.  A byte is *)
(* the set of its bits, so that "or" is the union and {} is zero; the      *)
(* bytes of a frame are told apart by bits of their own.                   *)
(***************************************************************************)
EXTENDS MessageFrames, SequencesExt

FieldCBytes == 3

-----------------------------------------------------------------------------
\* The input, as MessageSplitter promises it.

\* Byte b of a frame, and what is behind its end in the last word.
FrameByte(f, b) == IF b < FrameBytes(f) THEN {b} ELSE {-1}

Carries(f, w) == [b \in 1 .. WordBytes |-> FrameByte(f, w * WordBytes + b - 1)]

InputWord(f, m, w) ==
  [valid |-> TRUE, som |-> w = StartWord(f, m), eom |-> w = DeclaredEndWord(f, m),
   padding |-> FALSE, data |-> Carries(f, w),
   alignment |-> IF w = StartWord(f, m) THEN StartByte(f, m) ELSE 0]

PaddingWord(f, m) ==
  [valid |-> TRUE, som |-> FALSE, eom |-> TRUE, padding |-> TRUE,
   data |-> Carries(f, EndWord(f, m)), alignment |-> 0]

\* A cycle without input may show a start of message, at any place.
NoInput(mark, alignment) ==
  [valid |-> FALSE, som |-> mark, eom |-> mark, padding |-> FALSE,
   data |-> [b \in 1 .. WordBytes |-> {-2}], alignment |-> alignment]

\* NO_TRICKLING: no idle cycle within what ends with EOM, so there may be one
\* before a message and before its padding.  idle is what comes there.
MessageInput(f, m, idle) ==
  LET words == [i \in 1 .. EndWord(f, m) - StartWord(f, m) + 1 |->
                  InputWord(f, m, StartWord(f, m) + i - 1)]
  IN idle \o words \o (IF Last(words).eom THEN idle ELSE <<>>) \o <<PaddingWord(f, m)>>

FrameInput(f, idle) ==
  FlattenSeq([m \in DOMAIN f.counts |-> MessageInput(f, m, idle)]) \o <<NoInput(FALSE, 0)>>

-----------------------------------------------------------------------------
\* The kernel, in cycle t of its input.

IsStart(input, t) == input[t].valid /\ input[t].som

\* The cycle a streamHold that stores at a start of message shows in cycle t,
\* if there has been one.
Hold(input, t) ==
  {s \in 1 .. t : IsStart(input, s) /\ \A u \in s + 1 .. t : ~IsStart(input, u)}

\* Mutant: the alignment is not held beyond the first word.
AlignmentNow(input, t) == input[t].alignment

\* streamHold shows 0 before it has stored anything.
Alignment(input, t) ==
  IF Hold(input, t) = {} THEN 0 ELSE input[CHOOSE s \in Hold(input, t) : TRUE].alignment

ShiftRight(data, n) ==
  [b \in 1 .. WordBytes |-> IF b + n <= WordBytes THEN data[b + n] ELSE {}]
ShiftLeft(data, n) ==
  [b \in 1 .. WordBytes |-> IF b - n >= 1 THEN data[b - n] ELSE {}]

\* Either shift by the alignment held in the cycle of the word that is shifted.
\* The shift to the left is a number of three bits.
Realign(input, t) ==
  LET Right == ShiftRight(input[t].data, Alignment(input, t))
      Left  == ShiftLeft(input[t + 1].data,
                         (WordBytes - Alignment(input, t + 1)) % WordBytes)
  IN IF Alignment(input, t) = 0 THEN input[t].data
     ELSE [b \in 1 .. WordBytes |-> Left[b] \cup Right[b]]

\* Field C lies across the first two words.
SearchField(input, s) ==
  SubSeq(Realign(input, s), 8, 8) \o SubSeq(Realign(input, s + 1), 1, 2)

Match(input, t, filter) ==
  \E s \in Hold(input, t) : SearchField(input, s) \in filter

\* What the kernel puts out for its input but the last cycle, which it looks at
\* from the one before.  (Before the first message there is no valid word.)
FilteringKernel(input, filter) ==
  LET Out(t) == [sof |-> input[t].som, eof |-> input[t].eom, data |-> Realign(input, t)]
      Now(t) == input[t].valid /\ Match(input, t, filter) /\ ~input[t].padding
  IN FlattenSeq([t \in 1 .. Len(input) - 1 |-> IF Now(t) THEN <<Out(t)>> ELSE <<>>])

-----------------------------------------------------------------------------
\* Reference.

Message(f, m) ==
  LET size == (IF Offsets(f)[m + 1] < FrameBytes(f) THEN Offsets(f)[m + 1]
                                                    ELSE FrameBytes(f)) - Offsets(f)[m]
  IN [i \in 1 .. size |-> {Offsets(f)[m] + i - 1}]

FieldC(f, m) ==
  SubSeq(Message(f, m), MsgOverhead - FieldCBytes + 1, MsgOverhead)

\* The words are message m, from its first byte on, and marked as a frame.
IsMessage(words, f, m) ==
  LET data == FlattenSeq([i \in DOMAIN words |-> words[i].data])
  IN /\ Len(words) = EndWord(f, m) - StartWord(f, m) + 1
     /\ IsPrefix(Message(f, m), data)
     /\ \A i \in DOMAIN words :
          /\ words[i].sof <=> i = 1
          /\ words[i].eof <=> StartWord(f, m) + i - 1 = DeclaredEndWord(f, m)
=============================================================================
