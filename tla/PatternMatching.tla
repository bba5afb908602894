--------------------------- MODULE PatternMatching ---------------------------
(***************************************************************************)
(* SignExtenderWithPatternMatching: behind its three values a packet has a *)
(* text; whether that contains a string decides if the packet is forwarded *)
(* on.  The values and the text are cut out of the first four words, which *)
(* may go beyond the packet.  The text is held from the first word, so the *)
(* decision is the same for all the words of the packet.                   *)
(***************************************************************************)
EXTENDS SignExtension

CONSTANT SearchString   \* "YES" in the code

TextSizeBytes == 8

ASSUME StringAssumption ==
  SearchString \in Seq(0 .. ByteValues - 1) /\ Len(SearchString) \in 1 .. TextSizeBytes

FourWords(words) ==
  SubSeq(words[1], 2, 8) \o words[2] \o words[3] \o SubSeq(words[4], 1, 5)

TextOffset(sizes) ==
  ToActualSize(sizes.a, ASize) + ToActualSize(sizes.b, BSize) + ToActualSize(sizes.c, CSize)

\* Mutant: the size of the third value is taken at its word.
TextFieldAt(sizes, words) ==
  SubSeq(ByteShiftRight(FourWords(words), TextOffset(sizes) - ToActualSize(sizes.c, CSize) + sizes.c),
         1, TextSizeBytes)

TextField(sizes, words) ==
  SubSeq(ByteShiftRight(FourWords(words), TextOffset(sizes)), 1, TextSizeBytes)

\* One position less is compared than there is.
MatchFound(text) ==
  \E start \in 0 .. TextSizeBytes - Len(SearchString) - 1 :
    \A i \in DOMAIN SearchString : text[start + i] = SearchString[i]

\* What is made of a packet: its values, and is it forwarded.
SignExtKernel(sizes, words) ==
  [values  |-> IncomingDataOf(sizes, FourWords(words)),
   forward |-> MatchFound(TextField(sizes, words))]
=============================================================================
