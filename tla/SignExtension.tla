--------------------------- MODULE SignExtension ---------------------------
(***************************************************************************)
(* IncomingData of the sign extender: three signed values of sizes that    *)
(* the first byte of a packet gives follow each other from its second      *)
(* byte.  Words have 8 bytes, the least significant first.  The values are *)
(* cut out of the first three words and extended to 8, 8 and 4 bytes.      *)
(***************************************************************************)
EXTENDS Integers, Sequences

CONSTANT ByteValues     \* 256 in the code

ASSUME ByteAssumption == ByteValues \in Nat /\ ByteValues % 2 = 0 /\ ByteValues > 0

\* The bits in which the first byte gives the size of A, of B and of C.
ASize == 3
BSize == 3
CSize == 2

Negative(byte) == byte >= ByteValues \div 2

\* Mutant: size 0 is taken at its word.
SizeAsGiven(sz, bits) == sz

\* Size 0 is the largest.
ToActualSize(sz, bits) == IF sz = 0 THEN 2 ^ bits ELSE sz

SuperWord(words) == SubSeq(words[1], 2, 8) \o words[2] \o SubSeq(words[3], 1, 5)

ByteShiftRight(v, n) ==
  [i \in DOMAIN v |-> IF i + n \in DOMAIN v THEN v[i + n] ELSE 0]

\* The sign bit of a value of size sz, and the bytes above it.
SignExtend(sz, v) ==
  LET Sign == Negative(v[IF sz = 0 THEN Len(v) ELSE sz])
  IN [i \in DOMAIN v |->
        IF sz = 0 \/ i <= sz THEN v[i] ELSE IF Sign THEN ByteValues - 1 ELSE 0]

ExtractValue(input, sz, bits) == SignExtend(sz, SubSeq(input, 1, 2 ^ bits))

\* The values of a packet whose bytes behind the first are superWord.
IncomingDataOf(sizes, superWord) ==
  LET bOffset == ToActualSize(sizes.a, ASize)
      cOffset == bOffset + ToActualSize(sizes.b, BSize)
  IN [a |-> ExtractValue(superWord, sizes.a, ASize),
      b |-> ExtractValue(ByteShiftRight(superWord, bOffset), sizes.b, BSize),
      c |-> ExtractValue(ByteShiftRight(superWord, cOffset), sizes.c, CSize)]

IncomingData(sizes, words) == IncomingDataOf(sizes, SuperWord(words))
=============================================================================
