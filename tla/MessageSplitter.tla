-------------------------- MODULE MessageSplitter --------------------------
(***************************************************************************)
(* What the message tracker promises, without its registers: it turns each *)
(* frame into its messages.  A message is the words from the one holding   *)
(* its first byte to the one holding its last byte, the first marked som   *)
(* with the position of the message in that word, and after each message   *)
(* comes one padding word.  A word shared by two messages is sent twice.   *)
(*                                                                         *)
(* The promise is conditional: the splitter may lose its place, but only   *)
(* until the frame it is in has ended; the next frame starts afresh.       *)
(***************************************************************************)
EXTENDS MessageFrames

CONSTANT Frames, Lost

VARIABLE bus   \* the last word sent, or Lost

vars == bus

Word(f, m, w) ==
  [frame |-> f, msg |-> m, word |-> w, pad |-> FALSE,
   som   |-> w = StartWord(f, m),
   align |-> IF w = StartWord(f, m) THEN StartByte(f, m) ELSE 0,
   eom   |-> w = DeclaredEndWord(f, m)]

Padding(f, m) ==
  [frame |-> f, msg |-> m, word |-> EndWord(f, m), pad |-> TRUE,
   som |-> FALSE, align |-> 0, eom |-> TRUE]

EndOf(f) == Padding(f, Len(f.counts))

\* Between frames nothing of the last frame matters.
Between == \/ bus = Lost
           \/ bus # Lost /\ bus = EndOf(bus.frame)

StartFrame == /\ Between
              /\ \E f \in Frames : bus' = Word(f, 1, 0)

NextWord == /\ bus # Lost /\ ~bus.pad
            /\ bus.word < EndWord(bus.frame, bus.msg)
            /\ bus' = Word(bus.frame, bus.msg, bus.word + 1)

EndMessage == /\ bus # Lost /\ ~bus.pad
              /\ bus.word = EndWord(bus.frame, bus.msg)
              /\ bus' = Padding(bus.frame, bus.msg)

NextMessage == /\ bus # Lost /\ bus.pad
               /\ bus.msg < Len(bus.frame.counts)
               /\ bus' = Word(bus.frame, bus.msg + 1,
                              StartWord(bus.frame, bus.msg + 1))

LosePlace == bus # Lost /\ bus' = Lost

Init == bus = Lost
Next == StartFrame \/ NextWord \/ EndMessage \/ NextMessage \/ LosePlace
Spec == Init /\ [][Next]_vars
=============================================================================
