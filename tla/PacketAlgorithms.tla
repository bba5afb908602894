-------------------------- MODULE PacketAlgorithms --------------------------
(***************************************************************************)
(* The algorithms of the packet processing examples, on samples of what    *)
(* they are given.  A state is a sample with what the code makes of it.    *)
(***************************************************************************)
EXTENDS EthChecksum, FieldAccess, PatternMatching, RomFrames

CONSTANTS
  Addresses,      \* of the frame and of the forwarder
  FrameWords,     \* words of a frame
  DataBytes,      \* packets of the sign extender: 32 bytes each
  MessageTypes,
  TrackedFrames   \* frames of messages, as in MessageFrames

\* An index of frameRom is a uint16_t.
ASSUME SamplesAssumption ==
  /\ Addresses \subseteq 0 .. Radix * Radix - 1
  /\ FrameWords \in Nat \ {0}
  /\ DataBytes \subseteq [1 .. 32 -> 0 .. ByteValues - 1]
  /\ MessageTypes \subseteq Nat
  /\ \A t \in MessageTypes : MaxMessageSizeWords * (t + 1) <= 65536
ASSUME FramesAssumption ==
  \A f \in TrackedFrames : f.counts \in Seq(Nat) /\ f.counts # <<>> /\ f.cut \in BOOLEAN

VARIABLE sample

Tracked == INSTANCE MessageFilter

\* A frame whose checksum is right has its addresses replaced.
ForwardFrame ==
  \E src, dst, local, forward \in Addresses, rest, checksum \in HalfWords :
    /\ rest # 0
    /\ Covers(checksum, rest, src, dst)
    /\ sample' =
         [of |-> "checksum", src |-> src, dst |-> dst, rest |-> rest, local |-> local, forward |-> forward,
          sum |-> Complement(checksum) + Change(src, dst, local, forward),
          ip |-> IpChecksum(checksum, src, dst, local, forward),
          udp |-> UdpChecksum(checksum, src, dst, local, forward)]

\* The bytes of the frame are told apart, those of the new field are negative.
FrameOf(words) ==
  [n \in 1 .. words |-> [b \in 1 .. LinkWordBytes |-> (n - 1) * LinkWordBytes + b]]

ReplaceOneField ==
  \E field \in FieldDescs(FrameWords * LinkWordBytes) :
    LET frame == FrameOf(FrameWords)
        new   == [i \in 1 .. field.size |-> -i]
    IN sample' =
         [of |-> "field", field |-> field,
          captured |-> CaptureField(frame, field),
          output |-> FlattenSeq(ReplaceField(frame, field, new))]

ReceivePacket ==
  \E a, b \in 0 .. 7, c \in 0 .. 3, bytes \in DataBytes :
    LET sizes == [a |-> a, b |-> b, c |-> c]
        words == <<SubSeq(bytes, 1, 8), SubSeq(bytes, 9, 16), SubSeq(bytes, 17, 24)>>
    IN sample' = [of |-> "values", sizes |-> sizes, bytes |-> bytes,
                  values |-> IncomingData(sizes, words)]

\* A packet with the string at some place in its text, as far as it goes in,
\* and any bytes where it has no string.
ReceiveText ==
  \E a, b \in 0 .. 7, c \in 0 .. 3, bytes \in DataBytes, place \in 0 .. TextSizeBytes :
    LET sizes == [a |-> a, b |-> b, c |-> c]
        text  == 1 + TextOffset(sizes)
        all   == [k \in 1 .. 32 |->
                    IF k - text - place \in DOMAIN SearchString /\ k <= text + TextSizeBytes
                    THEN SearchString[k - text - place] ELSE bytes[k]]
    IN sample' = [of |-> "text", sizes |-> sizes, bytes |-> all,
                  result |-> SignExtKernel(sizes, [w \in 1 .. 4 |-> SubSeq(all, 8 * w - 7, 8 * w)])]

ConfigureRom ==
  \E t \in MessageTypes, size \in 0 .. MaxMessageSizeWords * WordSizeBytes - 1 :
    sample' = [of |-> "rom", type |-> t, size |-> size, metadata |-> Metadata(t, size)]

\* A frame passes a filter that looks for some of its messages.  Idle cycles
\* come where there may be some, and show a start of message or not.
FilterFrame ==
  \E f \in TrackedFrames, idle \in {<<>>, <<TRUE>>, <<FALSE, TRUE>>} :
    \E wanted \in SUBSET DOMAIN f.counts :
      sample' =
        [of |-> "filter", frame |-> f, wanted |-> wanted,
         output |-> Tracked!FilteringKernel(
                      Tracked!FrameInput(f, [i \in DOMAIN idle |-> Tracked!NoInput(idle[i], 2)]),
                      {Tracked!FieldC(f, m) : m \in wanted})]

Init == sample = [of |-> "none"]

Next ==
  /\ sample.of = "none"
  /\ \/ ForwardFrame \/ ReplaceOneField \/ ReceivePacket \/ ReceiveText
     \/ ConfigureRom \/ FilterFrame

Spec == Init /\ [][Next]_sample

-----------------------------------------------------------------------------
\* The frame sent carries checksums that are right for its new addresses, if
\* those taken out of the sum are not more than is in it.
ChecksumsRight ==
  sample.of = "checksum" /\ sample.sum >= 0 =>
    /\ Covers(sample.ip, sample.rest, sample.local, sample.forward)
    /\ Covers(sample.udp, sample.rest, sample.local, sample.forward)
    /\ sample.udp # 0

\* The checksums are right whatever the addresses are.
ChecksumsAlwaysRight ==
  sample.of = "checksum" =>
    Covers(sample.ip, sample.rest, sample.local, sample.forward)

\* A field is read, and replaced, at its place and nothing else is touched,
\* also where it lies across two words.
FieldsInPlace ==
  sample.of = "field" =>
    LET f == sample.field
        In(k) == k \in f.offset + 1 .. f.offset + f.size
    IN /\ sample.captured = [i \in 1 .. f.size |-> f.offset + i]
       /\ sample.output =
            [k \in 1 .. FrameWords * LinkWordBytes |-> IF In(k) THEN f.offset - k ELSE k]

\* The number that bytes stand for, least significant first: the last one has
\* the sign.
Signed(bytes) ==
  LET From[i \in 1 .. Len(bytes)] ==
        IF i < Len(bytes) THEN bytes[i] + ByteValues * From[i + 1]
        ELSE IF Negative(bytes[i]) THEN bytes[i] - ByteValues ELSE bytes[i]
  IN From[1]

\* The bytes of value a, b and c, where size 0 is the largest.
FullSize(sz, bits) == IF sz = 0 THEN 2 ^ bits ELSE sz
SizesOf(sizes) == <<FullSize(sizes.a, 3), FullSize(sizes.b, 3), FullSize(sizes.c, 2)>>

AreValuesOf(values, sizes, bytes) ==
  LET n == SizesOf(sizes)
      InPacket(from, size) == Signed(SubSeq(bytes, from, from + size - 1))
  IN /\ Signed(values.a) = InPacket(2, n[1])
     /\ Signed(values.b) = InPacket(2 + n[1], n[2])
     /\ Signed(values.c) = InPacket(2 + n[1] + n[2], n[3])

\* The values handed on are the numbers in the packet, whatever their sizes.
ValuesKept ==
  /\ sample.of = "values" => AreValuesOf(sample.values, sample.sizes, sample.bytes)
  /\ sample.of = "text" => AreValuesOf(sample.result.values, sample.sizes, sample.bytes)

\* The places in the text of a packet at which the string is.
PlacesOf(sizes, bytes) ==
  LET n == SizesOf(sizes)
      text == SubSeq(bytes, 2 + n[1] + n[2] + n[3], 9 + n[1] + n[2] + n[3])
  IN {k \in 0 .. 8 - Len(SearchString) :
        SubSeq(text, k + 1, k + Len(SearchString)) = SearchString}

\* A packet is only forwarded for a string in its own text, not for one that
\* begins in a value before it or ends behind it, and always for one that is
\* there with at least a character after it.
TextForwarded ==
  sample.of = "text" =>
    LET Places == PlacesOf(sample.sizes, sample.bytes)
    IN /\ sample.result.forward => Places # {}
       /\ ~sample.result.forward => Places \subseteq {8 - Len(SearchString)}

\* A packet whose text contains the string is forwarded.
EveryTextForwarded ==
  sample.of = "text" =>
    (sample.result.forward <=> PlacesOf(sample.sizes, sample.bytes) # {})

\* The frame sent for a type has the size drawn for it, and lies in the part
\* of the ROM that is that type's own.
FramesFromRom ==
  sample.of = "rom" /\ sample.size > 0 =>
    /\ SentBytes(sample.metadata) = sample.size
    /\ \A i \in Section(sample.metadata) : i \div MaxMessageSizeWords = sample.type

\* The messages whose field C is in the filter come out, whole, aligned and as
\* one frame each, in their order, wherever in a word they start, also when
\* they share a word; of the other messages and of padding nothing does.
FilteredRight ==
  sample.of = "filter" =>
    LET f == sample.frame
        Size(m) == Tracked!EndWord(f, m) - Tracked!StartWord(f, m) + 1
        Before[m \in 1 .. Len(f.counts) + 1] ==
          IF m = 1 THEN 0
          ELSE Before[m - 1] + IF m - 1 \in sample.wanted THEN Size(m - 1) ELSE 0
    IN /\ Len(sample.output) = Before[Len(f.counts) + 1]
       /\ \A m \in sample.wanted :
            Tracked!IsMessage(SubSeq(sample.output, Before[m] + 1, Before[m] + Size(m)), f, m)
=============================================================================
