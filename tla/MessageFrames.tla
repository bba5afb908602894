--------------------------- MODULE MessageFrames ---------------------------
(***************************************************************************)
(* The wire format the tracker example splits.  A UDP frame is a four-byte *)
(* header followed by messages; a message is a two-byte number of extra    *)
(* fields, fields A (4 bytes), B (1) and C (3), and six bytes per extra    *)
(* field.  The frame crosses the FPGA as a sequence of eight-byte words.   *)
(*                                                                         *)
(* A frame is [counts, cut]: counts[m] is the number of extra fields that  *)
(* message m declares.  When cut holds the last message carries none of    *)
(* the extra fields it declares: the test program's frame ends that way,   *)
(* its size includes one message header past the last message it filled.   *)
(***************************************************************************)
EXTENDS Integers, Sequences

WordBytes == 8
HeaderBytes == 4
MsgOverhead == 2 + 4 + 1 + 3
EfSize == 6

MessageBytes(n) == MsgOverhead + EfSize * n

\* offsets[m] is the byte at which message m starts; the last entry is the
\* byte after the last declared one.
Offsets(f) ==
  LET offs[m \in 1 .. Len(f.counts) + 1] ==
        IF m = 1 THEN HeaderBytes
                 ELSE offs[m - 1] + MessageBytes(f.counts[m - 1])
  IN offs

FrameBytes(f) ==
  LET n == Len(f.counts)
  IN  IF f.cut THEN Offsets(f)[n] + MsgOverhead ELSE Offsets(f)[n + 1]

LastWord(f) == (FrameBytes(f) - 1) \div WordBytes

StartWord(f, m) == Offsets(f)[m] \div WordBytes
StartByte(f, m) == Offsets(f)[m] % WordBytes

\* The word that holds the last byte message m declares.
DeclaredEndWord(f, m) == (Offsets(f)[m + 1] - 1) \div WordBytes

EndWord(f, m) ==
  IF DeclaredEndWord(f, m) < LastWord(f) THEN DeclaredEndWord(f, m)
                                         ELSE LastWord(f)

\* The messages whose first byte is byte b of word w of the frame: at most one.
MessagesAt(f, w, b) ==
  {m \in 1 .. Len(f.counts) : Offsets(f)[m] = w * WordBytes + b}
=============================================================================
