---------------------- MODULE PacketProcessingProofs -----------------------
(***************************************************************************)
(* The packet processing examples.  First their algorithms: what they make *)
(* of a sample is right, for every radix, word size, frame size, number of *)
(* byte values, string and table and list of frames; there is one theorem  *)
(* for each.  These properties say all there is to say about a sample, so  *)
(* none of them needs an invariant stronger than itself; the work is in    *)
(* the lemmas about the operators.  Then the programs that test an engine: *)
(* TestInv says what is on its way between a program and its engine, and   *)
(* OnItsWay how much of it there is while the engine keeps its promises.   *)
(***************************************************************************)
EXTENDS PacketAlgorithms, TestHosts, SequenceTheorems, WellFoundedInduction,
        TLAPS

\* Each action makes a sample of its own kind.
LEMMA KindOfSample ==
  /\ ForwardFrame    => sample'.of = "checksum"
  /\ ReplaceOneField => sample'.of = "field"
  /\ ReceivePacket   => sample'.of = "values"
  /\ ReceiveText     => sample'.of = "text"
  /\ ConfigureRom    => sample'.of = "rom"
  /\ FilterFrame     => sample'.of = "filter"
<1>1. ForwardFrame => sample'.of = "checksum"
  BY DEF ForwardFrame
<1>2. ReplaceOneField => sample'.of = "field"
  BY DEF ReplaceOneField
<1>3. ReceivePacket => sample'.of = "values"
  BY DEF ReceivePacket
<1>4. ReceiveText => sample'.of = "text"
  BY DEF ReceiveText
<1>5. ConfigureRom => sample'.of = "rom"
  BY DEF ConfigureRom
<1>6. FilterFrame => sample'.of = "filter"
  BY DEF FilterFrame
<1> QED
  BY <1>1, <1>2, <1>3, <1>4, <1>5, <1>6

-----------------------------------------------------------------------------
(***************************************************************************)
(* Checksums, modulo Radix - 1: adding up the half words of a word takes   *)
(* multiples of Radix - 1 away, and so does wrapping a sum.                *)
(***************************************************************************)

LEMMA HalvesOf ==
  ASSUME NEW x \in 0 .. Radix * Radix - 1
  PROVE  \E q \in 0 .. Radix - 1 :
           /\ Sum16(x) \in 0 .. 2 * (Radix - 1)
           /\ Sum16(x) = x - (Radix - 1) * q
           /\ x < 2 * Radix - 1 => Sum16(x) < Radix
<1> USE RadixAssumption
<1> DEFINE q == x \div Radix
           r == x % Radix
<1>1. x = Radix * q + r /\ r \in 0 .. Radix - 1 /\ q \in Nat
  OBVIOUS
<1>2. Sum16(x) = q + r
  BY DEF Sum16
<1> HIDE DEF q, r
<1>3. q \in 0 .. Radix - 1
  BY <1>1
<1>4. Radix * q = (Radix - 1) * q + q
  BY <1>1
<1>5. x < 2 * Radix - 1 => q + r < Radix
  <2> SUFFICES ASSUME x < 2 * Radix - 1 PROVE q + r < Radix
    OBVIOUS
  <2>1. q \in 0 .. 1
    <3>1. q > 1 => Radix * q >= Radix * 2
      BY <1>1
    <3> QED
      BY <1>1, <3>1
  <2>2. CASE q = 0
    BY <1>1, <2>2
  <2>3. CASE q = 1
    BY <1>1, <2>3
  <2> QED
    BY <2>1, <2>2, <2>3
<1>6. q + r = x - (Radix - 1) * q
  BY <1>1, <1>4
<1>7. q + r \in 0 .. 2 * (Radix - 1)
  BY <1>1, <1>3
<1> QED
  BY <1>2, <1>3, <1>5, <1>6, <1>7

LEMMA WrapIsCongruent ==
  ASSUME NEW v \in 0 .. Radix * Radix - 1
  PROVE  \E k \in Int : Wrap16(v) = v - (Radix - 1) * k /\ Wrap16(v) \in 0 .. Radix - 1
<1> USE RadixAssumption
<1>1. PICK q \in 0 .. Radix - 1 :
        Sum16(v) \in 0 .. 2 * (Radix - 1) /\ Sum16(v) = v - (Radix - 1) * q
  BY HalvesOf
<1>2. 2 * (Radix - 1) <= Radix * Radix - 1
  <2>1. Radix * 2 <= Radix * Radix
    OBVIOUS
  <2> QED
    BY <2>1
<1>3. Sum16(v) \in 0 .. Radix * Radix - 1 /\ Sum16(v) < 2 * Radix - 1
  BY <1>1, <1>2
<1>4. PICK p \in 0 .. Radix - 1 :
        /\ Sum16(Sum16(v)) \in 0 .. 2 * (Radix - 1)
        /\ Sum16(Sum16(v)) = Sum16(v) - (Radix - 1) * p
        /\ Sum16(Sum16(v)) < Radix
  BY <1>3, HalvesOf
<1>5. Wrap16(v) = Sum16(Sum16(v))
  BY <1>4 DEF Wrap16
<1>6. (Radix - 1) * q + (Radix - 1) * p = (Radix - 1) * (q + p)
  BY <1>1, <1>4
<1>7. Sum16(Sum16(v)) = v - (Radix - 1) * (q + p)
  BY <1>1, <1>4, <1>6
<1> WITNESS q + p \in Int
<1> QED
  BY <1>1, <1>4, <1>5, <1>7

\* Numbers that differ by a multiple of Radix - 1 cover the same.
LEMMA SameRemainder ==
  ASSUME NEW a \in Int, NEW k \in Int, a % (Radix - 1) = 0
  PROVE  (a + (Radix - 1) * k) % (Radix - 1) = 0
<1> USE RadixAssumption
<1> DEFINE M == Radix - 1
           j == a \div M
<1>1. M \in Nat /\ M > 0
  OBVIOUS
<1> HIDE DEF M
<1>2. a = M * j /\ j \in Int
  <2>1. a % M = 0
    BY DEF M
  <2> QED
    BY <1>1, <2>1
<1> HIDE DEF j
<1>3. M * j + M * k = M * (j + k)
  BY <1>1, <1>2
<1>4. (M * (j + k)) % M = 0
  BY <1>1, <1>2
<1> QED
  BY <1>2, <1>3, <1>4 DEF M

LEMMA SumRange ==
  ASSUME NEW x \in 0 .. Radix * Radix - 1
  PROVE  Sum16(x) \in 0 .. 2 * (Radix - 1)
BY HalvesOf

\* The sum fits a register, so that unsigned arithmetic does not wrap unless it
\* goes below 0.
LEMMA NewChecksums ==
  ASSUME NEW checksum \in HalfWords, NEW rest \in HalfWords,
         NEW src \in 0 .. Radix * Radix - 1, NEW dst \in 0 .. Radix * Radix - 1,
         NEW local \in 0 .. Radix * Radix - 1, NEW forward \in 0 .. Radix * Radix - 1,
         Covers(checksum, rest, src, dst),
         Complement(checksum) + Change(src, dst, local, forward) >= 0
  PROVE  /\ Covers(IpChecksum(checksum, src, dst, local, forward), rest, local, forward)
         /\ Covers(UdpChecksum(checksum, src, dst, local, forward), rest, local, forward)
         /\ UdpChecksum(checksum, src, dst, local, forward) # 0
<1> USE RadixAssumption
<1> DEFINE M  == Radix - 1
           v  == Complement(checksum) + Change(src, dst, local, forward)
           Ss == Sum16(src)
           Sd == Sum16(dst)
           Sl == Sum16(local)
           Sf == Sum16(forward)
           ip == IpChecksum(checksum, src, dst, local, forward)
<1>1. /\ Ss \in 0 .. 2 * M /\ Sd \in 0 .. 2 * M
      /\ Sl \in 0 .. 2 * M /\ Sf \in 0 .. 2 * M
  BY SumRange
<1>2. v = M - checksum + Sl + Sf - Ss - Sd /\ checksum \in 0 .. M /\ rest \in 0 .. M
  <2>1. v = M - checksum + (Sl + Sf - Ss - Sd) /\ checksum \in 0 .. M /\ rest \in 0 .. M
    BY DEF Complement, Change, HalfWords
  <2> HIDE DEF v, Ss, Sd, Sl, Sf, M
  <2> QED
    BY <1>1, <2>1 DEF M
<1>3. M \in Nat /\ M > 2
  OBVIOUS
<1>4. v \in 0 .. Radix * Radix - 1
  <2>1. 5 * M <= M * M + 2 * M
    <3>1. 3 * M <= M * M
      BY <1>3
    <3> QED
      BY <1>3, <3>1
  <2>2. M * M + 2 * M = Radix * Radix - 1
    OBVIOUS
  <2>3. v >= 0 /\ v \in Int
    BY <1>1, <1>2, <1>3
  <2>4. v <= 5 * M
    <3> HIDE DEF v, Ss, Sd, Sl, Sf, M
    <3> QED
      BY <1>1, <1>2, <1>3
  <2> QED
    BY <2>1, <2>2, <2>3, <2>4
<1>5. UInt32(v) = v
  BY <1>4 DEF UInt32
<1>6. PICK k \in Int : Wrap16(v) = v - M * k /\ Wrap16(v) \in 0 .. M
  BY <1>4, WrapIsCongruent
<1>7. ip = M - (v - M * k) /\ ip \in 0 .. M
  BY <1>5, <1>6 DEF IpChecksum, Complement
<1> DEFINE old == checksum + rest + Ss + Sd
<1>8. old % M = 0 /\ old \in Int
  BY <1>1, <1>2, <1>3 DEF Covers
<1> HIDE DEF v, Ss, Sd, Sl, Sf, ip, M
<1>9. ip + rest + Sl + Sf = old + M * k
  BY <1>1, <1>2, <1>3, <1>6, <1>7
<1>10. (ip + rest + Sl + Sf) % M = 0
  BY <1>8, <1>9, SameRemainder DEF M
<1>11. CASE ip = 0
  <2>1. M + rest + Sl + Sf = (ip + rest + Sl + Sf) + M * 1
    BY <1>1, <1>2, <1>3, <1>7, <1>11
  <2>2. (M + rest + Sl + Sf) % M = 0
    <3>1. ip + rest + Sl + Sf \in Int
      BY <1>1, <1>2, <1>3, <1>7
    <3> QED
      BY <1>10, <2>1, <3>1, SameRemainder DEF M
  <2>3. UdpChecksum(checksum, src, dst, local, forward) = M
    BY <1>11 DEF ip, UdpChecksum, Complement, M
  <2> QED
    BY <1>3, <1>10, <2>2, <2>3 DEF Covers, ip, Sl, Sf, M
<1>12. CASE ip # 0
  <2>1. UdpChecksum(checksum, src, dst, local, forward) = ip
    BY <1>12 DEF ip, UdpChecksum
  <2> QED
    BY <1>10, <1>12, <2>1 DEF Covers, ip, Sl, Sf, M
<1> QED
  BY <1>11, <1>12

LEMMA ChecksumsStep == ChecksumsRight /\ [Next]_sample => ChecksumsRight'
<1> SUFFICES ASSUME ChecksumsRight, [Next]_sample PROVE ChecksumsRight'
  OBVIOUS
<1>1. CASE ForwardFrame
  <2>1. PICK src, dst, local, forward \in Addresses, rest, checksum \in HalfWords :
          /\ rest # 0
          /\ Covers(checksum, rest, src, dst)
          /\ sample' =
               [of |-> "checksum", src |-> src, dst |-> dst, rest |-> rest, local |-> local,
                forward |-> forward,
                sum |-> Complement(checksum) + Change(src, dst, local, forward),
                ip |-> IpChecksum(checksum, src, dst, local, forward),
                udp |-> UdpChecksum(checksum, src, dst, local, forward)]
    BY <1>1, Zenon DEF ForwardFrame
  <2>2. /\ src \in 0 .. Radix * Radix - 1 /\ dst \in 0 .. Radix * Radix - 1
        /\ local \in 0 .. Radix * Radix - 1 /\ forward \in 0 .. Radix * Radix - 1
    BY SamplesAssumption
  <2>3. SUFFICES ASSUME Complement(checksum) + Change(src, dst, local, forward) >= 0
        PROVE  /\ Covers(IpChecksum(checksum, src, dst, local, forward), rest, local, forward)
               /\ Covers(UdpChecksum(checksum, src, dst, local, forward), rest, local, forward)
               /\ UdpChecksum(checksum, src, dst, local, forward) # 0
    BY <2>1 DEF ChecksumsRight
  <2> QED
    BY <2>1, <2>2, <2>3, NewChecksums
<1>2. CASE sample' = sample
  BY <1>2 DEF ChecksumsRight
<1>3. CASE sample'.of # "checksum"
  BY <1>3 DEF ChecksumsRight
<1>4. [Next]_sample => sample' = sample \/ ForwardFrame \/ sample'.of # "checksum"
  BY KindOfSample DEF Next
<1> QED
  BY <1>1, <1>2, <1>3, <1>4

\* The forwarder's checksums are right for the new addresses, whatever half
\* words and addresses there are, unless more is taken out of the sum than is
\* in it.
THEOREM ForwarderKeepsChecksums == Spec => []ChecksumsRight
<1>1. Init => ChecksumsRight
  BY DEF Init, ChecksumsRight
<1> QED
  BY <1>1, ChecksumsStep, PTL DEF Spec

-----------------------------------------------------------------------------
(***************************************************************************)
(* The frames of the ROM.                                                  *)
(***************************************************************************)

LEMMA WordsOf ==
  ASSUME NEW size \in Nat
  PROVE  /\ size = WordSizeBytes * (size \div WordSizeBytes) + (size % WordSizeBytes)
         /\ size % WordSizeBytes \in 0 .. 3
         /\ size \div WordSizeBytes \in Nat
BY DEF WordSizeBytes

LEMMA RomFrameOf ==
  ASSUME NEW t \in MessageTypes, NEW size \in 1 .. MaxMessageSizeWords * WordSizeBytes - 1
  PROVE  /\ SentBytes(Metadata(t, size)) = size
         /\ \A i \in Section(Metadata(t, size)) : i \div MaxMessageSizeWords = t
<1> USE SectionAssumption
<1> DEFINE m == Metadata(t, size)
           S == MaxMessageSizeWords
           q == BytesToWords(size)
<1>1. t \in Nat /\ S * (t + 1) <= 65536 /\ S * (t + 1) = S * t + S /\ S * t \in Nat
  BY SamplesAssumption
<1>2. /\ q \in 1 .. S
      /\ size = (q - 1) * WordSizeBytes
                  + IF size % WordSizeBytes = 0 THEN WordSizeBytes ELSE size % WordSizeBytes
  BY WordsOf DEF BytesToWords, WordSizeBytes
<1> HIDE DEF q
<1>3. UInt16(S * t + q - 1) = S * t + q - 1
  BY <1>1, <1>2 DEF UInt16
<1>4. m = [startIndex |-> S * t, endIndex |-> S * t + q - 1, frameMod |-> size % WordSizeBytes]
  BY <1>3 DEF Metadata, q
<1> HIDE DEF m
<1>5. SentBytes(m) = size
  BY <1>1, <1>2, <1>4 DEF SentBytes, WordSizeBytes
<1>6. ASSUME NEW i \in Section(m) PROVE i \div S = t
  <2>1. i \in S * t .. S * t + S - 1
    BY <1>1, <1>2, <1>4, <1>6 DEF Section
  <2>2. i = S * (i \div S) + (i % S) /\ i % S \in 0 .. S - 1 /\ i \div S \in Nat
    BY <1>1, <2>1
  <2>3. i \div S > t => S * (i \div S) >= S * (t + 1)
    <3> DEFINE p == i \div S
    <3>1. p \in Nat
      BY <2>2
    <3> HIDE DEF p
    <3>2. S * (p - t - 1) = S * p - S * (t + 1)
      BY <1>1, <3>1
    <3>3. p > t => S * (p - t - 1) >= 0
      BY <1>1, <3>1
    <3>4. p > t => S * p >= S * (t + 1)
      BY <1>1, <3>1, <3>2, <3>3
    <3> QED
      BY <3>4 DEF p
  <2>4. i \div S < t => S * (i \div S) + S <= S * t
    <3>1. i \div S < t => S * ((i \div S) + 1) <= S * t
      BY <1>1, <2>2
    <3> QED
      BY <1>1, <2>2, <3>1
  <2> QED
    BY <1>1, <2>1, <2>2, <2>3, <2>4
<1> QED
  BY <1>5, <1>6 DEF m

LEMMA RomStep == FramesFromRom /\ [Next]_sample => FramesFromRom'
<1> SUFFICES ASSUME FramesFromRom, [Next]_sample PROVE FramesFromRom'
  OBVIOUS
<1>1. CASE ConfigureRom
  <2>1. PICK t \in MessageTypes, size \in 0 .. MaxMessageSizeWords * WordSizeBytes - 1 :
          sample' = [of |-> "rom", type |-> t, size |-> size, metadata |-> Metadata(t, size)]
    BY <1>1, Zenon DEF ConfigureRom
  <2>2. CASE size > 0
    <3>1. size \in 1 .. MaxMessageSizeWords * WordSizeBytes - 1
      BY <2>2, SectionAssumption DEF WordSizeBytes
    <3>2. /\ SentBytes(sample'.metadata) = sample'.size
          /\ \A i \in Section(sample'.metadata) : i \div MaxMessageSizeWords = sample'.type
      BY <2>1, <3>1, RomFrameOf
    <3> QED
      BY <3>2 DEF FramesFromRom, SentBytes, Section
  <2>3. CASE ~(size > 0)
    BY <2>1, <2>3 DEF FramesFromRom
  <2> QED
    BY <2>2, <2>3
<1>2. CASE sample' = sample
  BY <1>2 DEF FramesFromRom, SentBytes, Section
<1>3. CASE sample'.of # "rom"
  BY <1>3 DEF FramesFromRom
<1>4. [Next]_sample => sample' = sample \/ ConfigureRom \/ sample'.of # "rom"
  BY KindOfSample DEF Next
<1> QED
  BY <1>1, <1>2, <1>3, <1>4

\* A frame that RomFrameGen sends has the size of its type and comes from the
\* type's own part of the ROM, for every size of the parts.
THEOREM RomFramesAreTheirTypes == Spec => []FramesFromRom
<1>1. Init => FramesFromRom
  BY DEF Init, FramesFromRom
<1> QED
  BY <1>1, RomStep, PTL DEF Spec

-----------------------------------------------------------------------------
(***************************************************************************)
(* Sequences put together.  FlattenSeq is a recursive function; that it    *)
(* exists, and what is at each place of its value, is shown by induction.  *)
(***************************************************************************)
LEMMA SetInduction ==
  ASSUME NEW T, T \subseteq Nat, 0 \in T, \A n \in T : n + 1 \in T
  PROVE  T = Nat
<1> SUFFICES ASSUME T # Nat PROVE FALSE
  OBVIOUS
<1> DEFINE B == Nat \ T
           R == {p \in Nat \X Nat : p[1] < p[2]}
<1>1. IsWellFoundedOn(R, Nat)
  BY NatLessThanWellFounded DEF OpToRel
<1>2. B \subseteq Nat /\ B # {}
  OBVIOUS
<1> HIDE DEF B, R
<1>3. PICK x \in B : \A y \in B : <<y, x>> \notin R
  BY <1>1, <1>2, WFMin, Zenon
<1>4. x \in Nat /\ x # 0 /\ x - 1 \in Nat
  BY DEF B
<1>5. <<x - 1, x>> \in R
  BY <1>4 DEF R
<1>6. x - 1 \notin B
  BY <1>3, <1>5, Zenon
<1> QED
  BY <1>4, <1>6 DEF B

\* The function that FlattenSeq defines.
LEMMA FlattenFunction ==
  ASSUME NEW T, NEW s \in Seq(Seq(T)), Len(s) > 0
  PROVE  \E f \in [1 .. Len(s) -> Seq(T)] :
           /\ FlattenSeq(s) = f[Len(s)]
           /\ \A i \in 1 .. Len(s) : f[i] = IF i = 1 THEN s[i] ELSE f[i - 1] \o s[i]
<1> DEFINE D == 1 .. Len(s)
           Rule(g, i) == IF i = 1 THEN s[i] ELSE g[i - 1] \o s[i]
           Upto(g, n) == \A i \in D : i <= n => g[i] = Rule(g, i)
           U == {n \in Nat : \E g \in [D -> Seq(T)] : Upto(g, n)}
<1>0. Len(s) \in Nat /\ \A i \in D : s[i] \in Seq(T)
  OBVIOUS
<1>1. 0 \in U
  <2>1. <<>> \in Seq(T)
    OBVIOUS
  <2>2. [i \in D |-> <<>>] \in [D -> Seq(T)]
    BY <2>1
  <2>3. Upto([i \in D |-> <<>>], 0)
    BY <1>0
  <2> QED
    BY <2>2, <2>3
<1>2. ASSUME NEW n \in U PROVE n + 1 \in U
  <2>1. PICK g \in [D -> Seq(T)] : Upto(g, n)
    OBVIOUS
  <2>2. \A i \in D : Rule(g, i) \in Seq(T)
    <3> SUFFICES ASSUME NEW i \in D PROVE Rule(g, i) \in Seq(T)
      OBVIOUS
    <3>1. s[i] \in Seq(T)
      BY <1>0
    <3>2. i # 1 => i - 1 \in D
      BY <1>0
    <3>3. i # 1 => g[i - 1] \in Seq(T)
      BY <3>2
    <3> HIDE DEF D
    <3> QED
      BY <3>1, <3>3
  <2> DEFINE h == [i \in D |-> IF i = n + 1 THEN Rule(g, i) ELSE g[i]]
  <2>3. h \in [D -> Seq(T)]
    <3> HIDE DEF Rule
    <3> QED
      BY <2>2
  <2>4. Upto(h, n + 1)
    <3> SUFFICES ASSUME NEW i \in D, i <= n + 1 PROVE h[i] = Rule(h, i)
      OBVIOUS
    <3>1. n \in Nat /\ i \in Nat
      BY <1>0
    <3>2. i # 1 => i - 1 \in D /\ h[i - 1] = g[i - 1]
      BY <1>0, <3>1
    <3>3. Rule(h, i) = Rule(g, i)
      BY <3>2
    <3>4. h[i] = IF i = n + 1 THEN Rule(g, i) ELSE g[i]
      OBVIOUS
    <3>5. i # n + 1 => g[i] = Rule(g, i)
      <4>1. i # n + 1 => i <= n
        BY <3>1
      <4> HIDE DEF D, Rule
      <4> QED
        BY <2>1, <4>1
    <3> QED
      BY <3>3, <3>4, <3>5
  <2> HIDE DEF h, Upto
  <2> QED
    BY <2>3, <2>4
<1>3. Len(s) \in U
  <2>1. U \subseteq Nat
    BY DEF U
  <2> HIDE DEF U
  <2>2. U = Nat
    BY <1>1, <1>2, <2>1, SetInduction
  <2> QED
    BY <1>0, <2>2
<1>4. PICK g \in [D -> Seq(T)] : \A i \in D : g[i] = Rule(g, i)
  BY <1>0, <1>3 DEF U
<1>5. g = [i \in D |-> Rule(g, i)]
  BY <1>4
<1> DEFINE f == CHOOSE o : o = [i \in D |-> Rule(o, i)]
<1>6. f = [i \in D |-> Rule(f, i)]
  BY <1>5, Zenon
<1>7. FlattenSeq(s) = f[Len(s)]
  BY DEF FlattenSeq
<1> HIDE DEF f, U
<1>8. \A i \in D : f[i] = Rule(f, i)
  BY <1>6
<1> DEFINE V == {n \in Nat : \A i \in D : i <= n => f[i] \in Seq(T)}
<1>9. ASSUME NEW n \in V PROVE n + 1 \in V
  <2> SUFFICES ASSUME NEW i \in D, i <= n + 1 PROVE f[i] \in Seq(T)
    OBVIOUS
  <2>1. i # 1 => i - 1 \in D /\ i - 1 <= n
    BY <1>0
  <2>2. i # 1 => f[i - 1] \in Seq(T)
    BY <2>1
  <2>3. s[i] \in Seq(T) /\ f[i] = Rule(f, i)
    BY <1>0, <1>8
  <2> QED
    BY <2>2, <2>3
<1>10. 0 \in V
  OBVIOUS
<1>11. V = Nat
  <2>1. V \subseteq Nat
    BY DEF V
  <2> HIDE DEF V
  <2> QED
    BY <1>9, <1>10, <2>1, SetInduction
<1>12. f \in [D -> Seq(T)]
  <2>1. \A i \in D : f[i] \in Seq(T)
    <3>1. Len(s) \in V
      BY <1>0, <1>11
    <3>2. \A i \in D : i <= Len(s)
      BY <1>0
    <3> QED
      BY <3>1, <3>2
  <2>2. DOMAIN f = D
    BY <1>6
  <2> QED
    BY <1>6, <2>1
<1> QED
  BY <1>7, <1>8, <1>12

\* Where the parts of s lie when part i ends at place P[i].
EndsOf(P, s) ==
  /\ P \in [0 .. Len(s) -> Nat] /\ P[0] = 0
  /\ \A i \in 1 .. Len(s) : P[i] = P[i - 1] + Len(s[i])

LEMMA FlattenPlaces ==
  ASSUME NEW T, NEW s \in Seq(Seq(T)), NEW P, EndsOf(P, s)
  PROVE  /\ FlattenSeq(s) \in Seq(T)
         /\ Len(FlattenSeq(s)) = P[Len(s)]
         /\ \A i \in 1 .. Len(s) : \A k \in 1 .. Len(s[i]) :
              FlattenSeq(s)[P[i - 1] + k] = s[i][k] /\ P[i - 1] + k <= P[Len(s)]
<1>0. Len(s) \in Nat /\ \A i \in 1 .. Len(s) : s[i] \in Seq(T) /\ Len(s[i]) \in Nat
  OBVIOUS
<1>1. CASE Len(s) = 0
  <2>1. s = <<>>
    BY <1>1
  <2>2. FlattenSeq(s) = <<>>
    BY <1>1, <2>1 DEF FlattenSeq
  <2> QED
    BY <1>1, <2>2 DEF EndsOf
<1>2. CASE Len(s) > 0
  <2>1. PICK f \in [1 .. Len(s) -> Seq(T)] :
          /\ FlattenSeq(s) = f[Len(s)]
          /\ \A i \in 1 .. Len(s) : f[i] = IF i = 1 THEN s[i] ELSE f[i - 1] \o s[i]
    BY <1>2, FlattenFunction
  <2> DEFINE Good(n) ==
        /\ Len(f[n]) = P[n]
        /\ \A i \in 1 .. n : \A k \in 1 .. Len(s[i]) :
             f[n][P[i - 1] + k] = s[i][k] /\ P[i - 1] + k \in 1 .. P[n]
      U == {n \in Nat : n \in 1 .. Len(s) => Good(n)}
  <2>2. ASSUME NEW n \in U PROVE n + 1 \in U
    <3> DEFINE m == n + 1
    <3>0. SUFFICES ASSUME m \in 1 .. Len(s) PROVE Good(m)
      <4> HIDE DEF Good
      <4> QED
        OBVIOUS
    <3>1. n \in Nat /\ m \in Nat /\ s[m] \in Seq(T) /\ Len(s[m]) \in Nat /\ P[n] \in Nat /\ P[m] = P[n] + Len(s[m])
      BY <1>0, <3>0 DEF EndsOf
    <3>2. CASE n = 0
      <4>1. f[m] = s[m] /\ P[n] = 0
        <5>1. m = 1 /\ P[n] = 0
          BY <3>1, <3>2 DEF EndsOf
        <5>2. f[m] = IF m = 1 THEN s[m] ELSE f[m - 1] \o s[m]
          BY <2>1, <3>0
        <5> QED
          BY <5>1, <5>2
      <4>2. \A k \in 1 .. Len(s[m]) : f[m][P[m - 1] + k] = s[m][k] /\ P[m - 1] + k \in 1 .. P[m]
        BY <3>1, <3>2, <4>1
      <4> QED
        BY <3>1, <3>2, <4>1, <4>2
    <3>3. CASE n > 0
      <4>1. n \in 1 .. Len(s) /\ f[n] \in Seq(T) /\ Good(n)
        BY <1>0, <3>0, <3>1, <3>3, SMTT(40)
      <4>2. f[m] = f[n] \o s[m]
        <5>1. m - 1 = n /\ m # 1
          BY <3>1, <3>3
        <5>2. f[m] = IF m = 1 THEN s[m] ELSE f[m - 1] \o s[m]
          BY <2>1, <3>0
        <5> QED
          BY <5>1, <5>2
      <4> DEFINE a == f[n]
                 b == s[m]
      <4> HIDE DEF a, b
      <4>3. /\ Len(a \o b) = Len(a) + Len(b)
            /\ \A j \in 1 .. Len(a) : (a \o b)[j] = a[j]
            /\ \A k \in 1 .. Len(b) : (a \o b)[Len(a) + k] = b[k]
        <5>1. a \in Seq(T) /\ b \in Seq(T)
          BY <3>1, <4>1 DEF a, b
        <5> QED
          BY <5>1
      <4>4. Len(a) = P[n]
        BY <4>1 DEF a
      <4>5. ASSUME NEW i \in 1 .. m, NEW k \in 1 .. Len(s[i])
            PROVE  f[m][P[i - 1] + k] = s[i][k] /\ P[i - 1] + k \in 1 .. P[m]
        <5>1. CASE i = m
          <6>1. f[m][P[n] + k] = b[k]
            <7>1. f[m] = a \o b /\ k \in 1 .. Len(b)
              BY <4>2, <5>1 DEF a, b
            <7> QED
              BY <4>3, <4>4, <7>1
          <6>2. i - 1 = n /\ b[k] = s[i][k]
            BY <3>1, <5>1 DEF b
          <6>3. P[n] + k \in 1 .. P[m]
            BY <3>1, <5>1
          <6> QED
            BY <6>1, <6>2, <6>3
        <5>2. CASE i # m
          <6>1. i \in 1 .. n
            BY <3>1, <5>2
          <6>2. f[n][P[i - 1] + k] = s[i][k] /\ P[i - 1] + k \in 1 .. P[n]
            BY <4>1, <6>1
          <6>3. f[m][P[i - 1] + k] = a[P[i - 1] + k]
            BY <4>2, <4>3, <4>4, <6>2 DEF a, b
          <6> QED
            BY <3>1, <6>2, <6>3 DEF a
        <5> QED
          BY <5>1, <5>2
      <4>6. Len(f[m]) = P[m]
        BY <3>1, <4>2, <4>3, <4>4 DEF a, b
      <4> QED
        BY <4>5, <4>6
    <3> QED
      BY <3>1, <3>2, <3>3
  <2>3. 0 \in U
    OBVIOUS
  <2>4. U = Nat
    <3>1. U \subseteq Nat
      BY DEF U
    <3> HIDE DEF U
    <3> QED
      BY <2>2, <2>3, <3>1, SetInduction
  <2>5. Good(Len(s))
    <3>1. Len(s) \in U
      BY <1>0, <2>4
    <3> HIDE DEF Good
    <3> QED
      BY <1>0, <1>2, <3>1
  <2>6. Len(s) \in 1 .. Len(s) /\ f[Len(s)] \in Seq(T)
    BY <1>0, <1>2
  <2>7. ASSUME NEW i \in 1 .. Len(s), NEW k \in 1 .. Len(s[i])
        PROVE  FlattenSeq(s)[P[i - 1] + k] = s[i][k] /\ P[i - 1] + k <= P[Len(s)]
    BY <2>1, <2>5
  <2> QED
    BY <2>1, <2>5, <2>6, <2>7
<1> QED
  BY <1>0, <1>1, <1>2

LEMMA PartOf ==
  ASSUME NEW T, NEW u \in Seq(T), NEW p \in Nat, NEW w \in Nat, p + w <= Len(u)
  PROVE  /\ SubSeq(u, p + 1, p + w) \in Seq(T) /\ Len(SubSeq(u, p + 1, p + w)) = w
         /\ SubSeq(u, p + 1, p + w) = [i \in 1 .. w |-> u[p + i]]
<1>1. SubSeq(u, p + 1, p + w) = [i \in 1 .. w |-> u[p + i]]
  OBVIOUS
<1>2. [i \in 1 .. w |-> u[p + i]] \in [1 .. w -> T]
  OBVIOUS
<1> QED
  BY <1>1, <1>2

-----------------------------------------------------------------------------
(***************************************************************************)
(* Fields: a frame put together from words, and a field's place in it.     *)
(***************************************************************************)

\* A place k of a stream is in word (k - 1) \div L, counted from 0.
LEMMA PlaceOf ==
  ASSUME NEW L \in Nat \ {0}, NEW k \in Nat \ {0}
  PROVE  /\ (k - 1) \div L \in Nat /\ (k - 1) % L \in 0 .. L - 1
         /\ k = ((k - 1) \div L) * L + ((k - 1) % L) + 1
         /\ \A n \in Nat : k <= n * L => (k - 1) \div L < n
         /\ \A n \in Nat : k > n * L => (k - 1) \div L >= n
<1> DEFINE q == (k - 1) \div L
           r == (k - 1) % L
<1>1. q \in Nat /\ r \in 0 .. L - 1 /\ k - 1 = L * q + r
  OBVIOUS
<1> HIDE DEF q, r
<1>2. ASSUME NEW n \in Nat, k <= n * L PROVE q < n
  <2> SUFFICES ASSUME q >= n PROVE FALSE
    BY <1>1
  <2>1. L * q = L * n + L * (q - n) /\ L * (q - n) >= 0
    BY <1>1
  <2> QED
    BY <1>1, <1>2, <2>1
<1>3. ASSUME NEW n \in Nat, k > n * L PROVE q >= n
  <2> SUFFICES ASSUME q < n PROVE FALSE
    BY <1>1
  <2>1. L * n = L * (q + 1) + L * (n - q - 1) /\ L * (n - q - 1) >= 0
    BY <1>1
  <2>2. L * (q + 1) = L * q + L
    BY <1>1
  <2> QED
    BY <1>1, <1>3, <2>1, <2>2
<1> QED
  BY <1>1, <1>2, <1>3 DEF q, r

LEMMA FlattenWords ==
  ASSUME NEW T, NEW L \in Nat \ {0}, NEW s \in Seq(Seq(T)),
         \A i \in 1 .. Len(s) : Len(s[i]) = L
  PROVE  FlattenSeq(s) = [k \in 1 .. Len(s) * L |-> s[(k - 1) \div L + 1][((k - 1) % L) + 1]]
<1> DEFINE n == Len(s)
           P == [i \in 0 .. n |-> i * L]
           e == FlattenSeq(s)
<1>1. n \in Nat /\ n * L \in Nat
  OBVIOUS
<1>2. EndsOf(P, s)
  <2>1. \A i \in 1 .. n : i * L = (i - 1) * L + L
    BY <1>1
  <2>2. P \in [0 .. n -> Nat] /\ P[0] = 0
    BY <1>1
  <2> QED
    BY <1>1, <2>1, <2>2 DEF EndsOf
<1>3. /\ e \in Seq(T) /\ Len(e) = n * L
      /\ \A i \in 1 .. n : \A j \in 1 .. L : e[(i - 1) * L + j] = s[i][j]
  <2>1. /\ e \in Seq(T) /\ Len(e) = P[n]
        /\ \A i \in 1 .. n : \A j \in 1 .. Len(s[i]) : e[P[i - 1] + j] = s[i][j]
    <3> HIDE DEF P
    <3> QED
      BY <1>2, FlattenPlaces
  <2>2. P[n] = n * L
    BY <1>1
  <2>3. ASSUME NEW i \in 1 .. n, NEW j \in 1 .. L PROVE e[(i - 1) * L + j] = s[i][j]
    <3>1. P[i - 1] = (i - 1) * L
      BY <1>1
    <3>2. Len(s[i]) = L
      OBVIOUS
    <3> HIDE DEF P, e
    <3> QED
      BY <2>1, <3>1, <3>2
  <2> QED
    BY <2>1, <2>2, <2>3
<1> HIDE DEF e
<1>4. ASSUME NEW k \in 1 .. n * L PROVE e[k] = s[(k - 1) \div L + 1][((k - 1) % L) + 1]
  <2> DEFINE q == (k - 1) \div L
             r == (k - 1) % L
  <2>1. q \in Nat /\ r \in 0 .. L - 1 /\ k = q * L + r + 1 /\ q < n
    <3>1. k \in Nat \ {0} /\ k <= n * L /\ n \in Nat
      BY <1>1
    <3>2. q \in Nat /\ r \in 0 .. L - 1 /\ k = q * L + r + 1
      BY <3>1, PlaceOf
    <3>3. \A p \in Nat : k <= p * L => q < p
      BY <3>1, PlaceOf
    <3> QED
      BY <3>1, <3>2, <3>3
  <2> HIDE DEF q, r
  <2>2. q + 1 \in 1 .. n /\ r + 1 \in 1 .. L /\ (q + 1) - 1 = q
    BY <1>1, <2>1
  <2>3. e[((q + 1) - 1) * L + (r + 1)] = s[q + 1][r + 1]
    BY <1>3, <2>2
  <2>4. ((q + 1) - 1) * L + (r + 1) = k
    BY <1>1, <2>1, <2>2
  <2> QED
    BY <2>3, <2>4 DEF q, r
<1>5. e = [k \in 1 .. n * L |-> e[k]]
  BY <1>3
<1> QED
  BY <1>4, <1>5 DEF e

LEMMA FieldLies ==
  ASSUME NEW field \in FieldDescs(FrameWords * LinkWordBytes)
  PROVE  /\ LinkWordBytes \in Nat \ {0} /\ FrameWords \in Nat \ {0}
         /\ field.offset \in Nat /\ field.size \in 1 .. LinkWordBytes
         /\ OffsetMod(field) \in 0 .. LinkWordBytes - 1
         /\ StartWord(field) \in Nat
         /\ field.offset = StartWord(field) * LinkWordBytes + OffsetMod(field)
         /\ FieldSizeWords(field) \in 1 .. 2
         /\ OffsetMod(field) + field.size <= FieldSizeWords(field) * LinkWordBytes
         /\ StartWord(field) + FieldSizeWords(field) <= FrameWords
<1> USE WordBytesAssumption, SamplesAssumption
<1> DEFINE L == LinkWordBytes
           W == FrameWords
           o == field.offset
           z == field.size
           d == OffsetMod(field)
           p == StartWord(field)
           w == FieldSizeWords(field)
<1>1. L \in Nat \ {0} /\ W \in Nat \ {0}
  OBVIOUS
<1>2. o \in Nat /\ z \in 1 .. L /\ o + z <= W * L
  <2>1. W * L \in Nat
    OBVIOUS
  <2> QED
    BY <2>1 DEF FieldDescs
<1>3. d \in 0 .. L - 1 /\ p \in Nat /\ o = p * L + d
  BY <1>1, <1>2 DEF OffsetMod, StartWord
<1>4. w = IF d + z > L THEN 2 ELSE 1
  BY DEF FieldSizeWords
<1> HIDE DEF L, W, o, z, d, p, w
<1>5. d + z <= w * L
  BY <1>1, <1>2, <1>3, <1>4
<1>6. p < W
  <2> SUFFICES ASSUME p >= W PROVE FALSE
    BY <1>1, <1>3
  <2>1. p * L = W * L + (p - W) * L /\ (p - W) * L >= 0
    BY <1>1, <1>3
  <2> QED
    BY <1>1, <1>2, <1>3, <2>1
<1>7. d + z > L => p + 1 < W
  <2> SUFFICES ASSUME d + z > L, p + 1 >= W PROVE FALSE
    BY <1>1, <1>3
  <2>1. (p + 1) * L = W * L + (p + 1 - W) * L /\ (p + 1 - W) * L >= 0
    BY <1>1, <1>3
  <2>2. (p + 1) * L = p * L + L
    BY <1>1, <1>3
  <2> QED
    BY <1>1, <1>2, <1>3, <2>1, <2>2
<1> QED
  BY <1>1, <1>2, <1>3, <1>4, <1>5, <1>6, <1>7 DEF L, W, o, z, d, p, w

LEMMA FrameOfWords ==
  ASSUME NEW n \in Nat
  PROVE  /\ FrameOf(n) \in Seq(Seq(Int)) /\ Len(FrameOf(n)) = n
         /\ \A i \in 1 .. n :
              /\ FrameOf(n)[i] \in Seq(Int) /\ Len(FrameOf(n)[i]) = LinkWordBytes
              /\ FrameOf(n)[i] \in [1 .. LinkWordBytes -> Int]
              /\ \A b \in 1 .. LinkWordBytes : FrameOf(n)[i][b] = (i - 1) * LinkWordBytes + b
<1> USE WordBytesAssumption
<1> DEFINE Word(i) == [b \in 1 .. LinkWordBytes |-> (i - 1) * LinkWordBytes + b]
<1>1. ASSUME NEW i \in 1 .. n PROVE Word(i) \in [1 .. LinkWordBytes -> Int]
  OBVIOUS
<1>2. ASSUME NEW i \in 1 .. n PROVE Word(i) \in Seq(Int) /\ Len(Word(i)) = LinkWordBytes
  BY <1>1
<1>3. FrameOf(n) = [i \in 1 .. n |-> Word(i)]
  BY DEF FrameOf
<1>4. \A i \in 1 .. n : \A b \in 1 .. LinkWordBytes : Word(i)[b] = (i - 1) * LinkWordBytes + b
  OBVIOUS
<1> HIDE DEF Word
<1>5. FrameOf(n) \in [1 .. n -> Seq(Int)]
  BY <1>2, <1>3
<1>6. FrameOf(n) \in Seq(Seq(Int)) /\ Len(FrameOf(n)) = n
  BY <1>5
<1> QED
  BY <1>1, <1>2, <1>3, <1>4, <1>6

LEMMA FieldIsCaptured ==
  ASSUME NEW field \in FieldDescs(FrameWords * LinkWordBytes)
  PROVE  CaptureField(FrameOf(FrameWords), field) = [i \in 1 .. field.size |-> field.offset + i]
<1> DEFINE L == LinkWordBytes
           F == FrameOf(FrameWords)
           p == StartWord(field)
           w == FieldSizeWords(field)
           d == OffsetMod(field)
           z == field.size
           s == SubSeq(F, p + 1, p + w)
           e == FlattenSeq(s)
<1>1. /\ L \in Nat \ {0} /\ z \in 1 .. L /\ p \in Nat /\ w \in 1 .. 2 /\ d \in 0 .. L - 1
      /\ field.offset = p * L + d /\ d + z <= w * L /\ p + w <= FrameWords
  BY FieldLies
<1>2. /\ F \in Seq(Seq(Int)) /\ Len(F) = FrameWords /\ FrameWords \in Nat
      /\ \A i \in 1 .. FrameWords :
           Len(F[i]) = L /\ \A b \in 1 .. L : F[i][b] = (i - 1) * L + b
  BY FieldLies, FrameOfWords
<1>3. CaptureField(F, field) = SubSeq(e, d + 1, d + z)
  BY DEF CaptureField
<1> HIDE DEF L, F, p, w, d, z
<1>4. /\ s \in Seq(Seq(Int)) /\ Len(s) = w
      /\ \A i \in 1 .. w : p + i \in 1 .. FrameWords /\ s[i] = F[p + i]
  <2> DEFINE T == Seq(Int)
  <2>1. F \in Seq(T) /\ p \in Nat /\ w \in Nat /\ p + w <= Len(F)
    BY <1>1, <1>2
  <2> HIDE DEF T
  <2>2. s \in Seq(T) /\ Len(s) = w /\ s = [i \in 1 .. w |-> F[p + i]]
    BY <2>1, PartOf
  <2>3. \A i \in 1 .. w : p + i \in 1 .. FrameWords
    BY <1>1, <1>2
  <2> QED
    BY <2>2, <2>3 DEF T
<1> HIDE DEF s
<1>5. \A i \in 1 .. Len(s) : Len(s[i]) = L
  BY <1>2, <1>4
<1>6. e = [k \in 1 .. w * L |-> s[(k - 1) \div L + 1][((k - 1) % L) + 1]]
  BY <1>1, <1>4, <1>5, FlattenWords, ZenonT(60)
<1>7. w * L \in Nat
  BY <1>1
<1>8. ASSUME NEW k \in 1 .. w * L PROVE e[k] = p * L + k
  <2> DEFINE q == (k - 1) \div L
             r == (k - 1) % L
  <2>1. k \in Nat \ {0} /\ k <= w * L /\ w \in Nat
    BY <1>1, <1>7
  <2>2. q \in Nat /\ r \in 0 .. L - 1 /\ k = q * L + r + 1
    BY <1>1, <2>1, PlaceOf
  <2>3. \A n \in Nat : k <= n * L => q < n
    BY <1>1, <2>1, PlaceOf
  <2>4. e[k] = s[q + 1][r + 1]
    BY <1>6
  <2> HIDE DEF q, r, e
  <2>5. q + 1 \in 1 .. w /\ r + 1 \in 1 .. L
    BY <1>1, <2>1, <2>2, <2>3
  <2>6. s[q + 1][r + 1] = (p + (q + 1) - 1) * L + (r + 1)
    <3>1. s[q + 1] = F[p + (q + 1)] /\ p + (q + 1) \in 1 .. FrameWords
      BY <1>4, <2>5
    <3> DEFINE i == p + (q + 1)
    <3>2. i \in 1 .. FrameWords
      BY <3>1
    <3> HIDE DEF i
    <3>3. F[i][r + 1] = (i - 1) * L + (r + 1)
      BY <1>2, <2>5, <3>2
    <3>4. s[q + 1] = F[i]
      BY <3>1, Zenon DEF i
    <3>5. i - 1 = p + (q + 1) - 1
      BY <1>1, <2>2 DEF i
    <3>6. s[q + 1][r + 1] = F[i][r + 1]
      BY <3>4
    <3> QED
      BY <3>3, <3>5, <3>6
  <2>7. (p + (q + 1) - 1) * L = p * L + q * L
    BY <1>1, <2>2
  <2>8. p * L \in Nat /\ q * L \in Nat
    BY <1>1, <2>2
  <2> QED
    BY <1>1, <2>1, <2>2, <2>4, <2>6, <2>7, <2>8
<1>9. e \in [1 .. w * L -> Int]
  <2>1. p * L \in Int
    BY <1>1
  <2>2. \A k \in 1 .. w * L : e[k] \in Int
    BY <1>8, <1>7, <2>1
  <2> QED
    BY <1>6, <2>2
<1> HIDE DEF e
<1>10. e \in Seq(Int) /\ Len(e) = w * L
  BY <1>7, <1>9
<1>11. SubSeq(e, d + 1, d + z) = [i \in 1 .. z |-> e[d + i]]
  BY <1>1, <1>7, <1>10
<1>12. ASSUME NEW i \in 1 .. z PROVE e[d + i] = field.offset + i
  <2>1. d + i \in 1 .. w * L
    BY <1>1, <1>7
  <2>2. e[d + i] = p * L + (d + i) /\ p * L \in Nat
    BY <1>1, <1>8, <2>1
  <2> QED
    BY <1>1, <2>2
<1>13. SubSeq(e, d + 1, d + z) = [i \in 1 .. z |-> field.offset + i]
  BY <1>11, <1>12
<1> QED
  BY <1>3, <1>13 DEF F, z

\* The new field's bytes are negative, so that they can be told from those of
\* the frame.
LEMMA TimesMinus ==
  ASSUME NEW a \in Nat, NEW c \in Nat, NEW l \in Nat
  PROVE  a * l \in Nat /\ c * l \in Nat /\ (a - c) * l = a * l - c * l
OBVIOUS

LEMMA FieldIsReplaced ==
  ASSUME NEW field \in FieldDescs(FrameWords * LinkWordBytes)
  PROVE  FlattenSeq(ReplaceField(FrameOf(FrameWords), field, [i \in 1 .. field.size |-> -i]))
           = [k \in 1 .. FrameWords * LinkWordBytes |->
                IF k \in field.offset + 1 .. field.offset + field.size
                  THEN field.offset - k ELSE k]
<1> DEFINE L == LinkWordBytes
           W == FrameWords
           F == FrameOf(W)
           p == StartWord(field)
           w == FieldSizeWords(field)
           d == OffsetMod(field)
           z == field.size
           o == field.offset
           new == [i \in 1 .. z |-> -i]
           s == ReplaceField(F, field, new)
           Byte(k) == IF k \in o + 1 .. o + z THEN o - k ELSE k
<1>1. /\ L \in Nat \ {0} /\ z \in 1 .. L /\ p \in Nat /\ w \in 1 .. 2 /\ d \in 0 .. L - 1
      /\ o = p * L + d /\ d + z <= w * L /\ p + w <= W /\ o \in Nat
  BY FieldLies
<1>2. /\ F \in Seq(Seq(Int)) /\ Len(F) = W /\ W \in Nat
      /\ \A i \in 1 .. W :
           /\ F[i] \in [1 .. L -> Int]
           /\ \A b \in 1 .. L : F[i][b] = (i - 1) * L + b
  BY FieldLies, FrameOfWords
<1>3. DOMAIN F = 1 .. W
  BY <1>2
<1> DEFINE NewByte(i, b) ==
             LET pos == (i - 1 - p) * L + b - d IN IF pos \in 1 .. z THEN -pos ELSE F[i][b]
           NewWord(i) == [b \in 1 .. L |-> NewByte(i, b)]
<1>4. s = [i \in 1 .. W |-> IF i - 1 - p \in 0 .. w - 1 THEN NewWord(i) ELSE F[i]]
  <2>1. ASSUME NEW i \in 1 .. W
        PROVE  NewFieldWord(F[i], i - 1 - p, field, new) = NewWord(i)
    <3>1. DOMAIN F[i] = 1 .. L /\ DOMAIN new = 1 .. z
      BY <1>2
    <3>2. \A pos \in 1 .. z : new[pos] = -pos
      OBVIOUS
    <3> HIDE DEF F, new, L, p, w, z
    <3>3. NewFieldWord(F[i], i - 1 - p, field, new) =
            [b \in 1 .. L |->
               IF (i - 1 - p) * L + b - d \in 1 .. z THEN new[(i - 1 - p) * L + b - d] ELSE F[i][b]]
      BY <3>1 DEF NewFieldWord, L
    <3> QED
      BY <3>2, <3>3
  <2> HIDE DEF F, new, NewWord, w, p
  <2>2. s = [i \in DOMAIN F |->
               IF i - 1 - p \in 0 .. w - 1
                 THEN NewFieldWord(F[i], i - 1 - p, field, new) ELSE F[i]]
    BY DEF ReplaceField, w, p
  <2> QED
    BY <1>3, <2>1, <2>2
<1> HIDE DEF L, W, F, p, w, d, z, o, s, new
<1>5. \A i \in 1 .. W : \A b \in 1 .. L : F[i][b] \in Int /\ NewByte(i, b) \in Int
  <2> SUFFICES ASSUME NEW i \in 1 .. W, NEW b \in 1 .. L PROVE F[i][b] \in Int /\ NewByte(i, b) \in Int
    OBVIOUS
  <2>0. i - 1 \in Int /\ i - 1 - p \in Int /\ L \in Int
    BY <1>1, <1>2, SMTT(30)
  <2>1. (i - 1) * L \in Int /\ (i - 1 - p) * L \in Int
    BY <2>0
  <2> QED
    BY <1>1, <1>2, <2>1
<1>6. ASSUME NEW i \in 1 .. W, NEW b \in 1 .. L
      PROVE  s[i][b] = Byte((i - 1) * L + b)
  <2> DEFINE k == (i - 1) * L + b
  <2>1. /\ (i - 1) * L \in Nat /\ p * L \in Nat /\ i - 1 \in Nat
        /\ (i - 1 - p) * L = (i - 1) * L - p * L
    <3>1. i - 1 \in Nat /\ L \in Nat /\ p \in Nat
      BY <1>1, <1>2
    <3> QED
      BY <3>1, TimesMinus, ZenonT(60)
  <2>2. (i - 1 - p) * L + b - d = k - o
    BY <1>1, <2>1
  <2>3. F[i][b] = k
    BY <1>2
  <2>4. NewByte(i, b) = Byte(k)
    BY <1>1, <2>1, <2>2, <2>3
  <2>5. CASE i - 1 - p \in 0 .. w - 1
    <3>1. s[i] = NewWord(i)
      BY <1>4, <2>5
    <3> QED
      BY <2>4, <3>1
  <2>6. CASE i - 1 - p \notin 0 .. w - 1
    <3>1. s[i] = F[i]
      BY <1>4, <2>6
    <3>2. k \notin o + 1 .. o + z
      <4>1. CASE i - 1 < p
        <5>1. (p - (i - 1) - 1) * L >= 0 /\ (p - (i - 1) - 1) * L = p * L - (i - 1) * L - L
          BY <1>1, <2>1, <4>1
        <5> QED
          BY <1>1, <2>1, <5>1
      <4>2. CASE i - 1 >= p + w
        <5>1. (i - 1 - p - w) * L >= 0 /\ (i - 1 - p - w) * L = (i - 1) * L - p * L - w * L
              /\ w * L \in Nat
          BY <1>1, <2>1, <4>2
        <5> QED
          BY <1>1, <2>1, <5>1
      <4> QED
        BY <1>1, <2>1, <2>6, <4>1, <4>2
    <3> QED
      BY <2>3, <3>1, <3>2
  <2> QED
    BY <2>5, <2>6
<1>7. /\ s \in Seq(Seq(Int)) /\ Len(s) = W
      /\ \A i \in 1 .. Len(s) : Len(s[i]) = L
  <2>1. ASSUME NEW i \in 1 .. W
        PROVE  NewWord(i) \in [1 .. L -> Int] /\ F[i] \in [1 .. L -> Int]
    <3>1. \A b \in 1 .. L : NewByte(i, b) \in Int
      BY <1>5
    <3>2. F[i] \in [1 .. L -> Int]
      BY <1>2
    <3> HIDE DEF NewByte
    <3> QED
      BY <3>1, <3>2
  <2> HIDE DEF NewWord
  <2>2. \A i \in 1 .. W : s[i] \in [1 .. L -> Int]
    BY <1>4, <2>1
  <2>3. \A i \in 1 .. W : s[i] \in Seq(Int) /\ Len(s[i]) = L
    BY <1>1, <2>2
  <2>4. s \in [1 .. W -> Seq(Int)]
    BY <1>4, <2>3
  <2> QED
    BY <1>2, <2>3, <2>4
<1>8. FlattenSeq(s) = [k \in 1 .. W * L |-> s[(k - 1) \div L + 1][((k - 1) % L) + 1]]
  <2>1. s \in Seq(Seq(Int)) /\ L \in Nat \ {0} /\ \A i \in 1 .. Len(s) : Len(s[i]) = L
    BY <1>1, <1>7
  <2>2. FlattenSeq(s) = [k \in 1 .. Len(s) * L |-> s[(k - 1) \div L + 1][((k - 1) % L) + 1]]
    BY <2>1, FlattenWords
  <2> QED
    BY <1>7, <2>2
<1>9. ASSUME NEW k \in 1 .. W * L
      PROVE  s[(k - 1) \div L + 1][((k - 1) % L) + 1] = Byte(k)
  <2> DEFINE q == (k - 1) \div L
             r == (k - 1) % L
  <2>1. k \in Nat \ {0} /\ k <= W * L /\ W \in Nat
    BY <1>1, <1>2
  <2>2. q \in Nat /\ r \in 0 .. L - 1 /\ k = q * L + r + 1
    BY <1>1, <2>1, PlaceOf
  <2>3. \A n \in Nat : k <= n * L => q < n
    BY <1>1, <2>1, PlaceOf
  <2> HIDE DEF q, r
  <2>4. q + 1 \in 1 .. W /\ r + 1 \in 1 .. L
    BY <1>1, <2>1, <2>2, <2>3
  <2>5. ((q + 1) - 1) * L + (r + 1) = k
    BY <1>1, <2>1, <2>2
  <2>6. s[q + 1][r + 1] = Byte(((q + 1) - 1) * L + (r + 1))
    BY <1>6, <2>4
  <2> QED
    BY <2>5, <2>6 DEF q, r
<1>10. FlattenSeq(s) = [k \in 1 .. W * L |-> Byte(k)]
  BY <1>8, <1>9
<1> QED
  BY <1>10 DEF s, F, W, L, z, o, new

LEMMA FieldStep == FieldsInPlace /\ [Next]_sample => FieldsInPlace'
<1> SUFFICES ASSUME FieldsInPlace, [Next]_sample PROVE FieldsInPlace'
  OBVIOUS
<1>1. CASE ReplaceOneField
  <2>1. PICK field \in FieldDescs(FrameWords * LinkWordBytes) :
          sample' =
            [of |-> "field", field |-> field,
             captured |-> CaptureField(FrameOf(FrameWords), field),
             output |-> FlattenSeq(ReplaceField(FrameOf(FrameWords), field,
                                                [i \in 1 .. field.size |-> -i]))]
    BY <1>1, Zenon DEF ReplaceOneField
  <2> DEFINE f == sample'.field
  <2>2. /\ sample'.captured = [i \in 1 .. f.size |-> f.offset + i]
        /\ sample'.output =
             [k \in 1 .. FrameWords * LinkWordBytes |->
                IF k \in f.offset + 1 .. f.offset + f.size THEN f.offset - k ELSE k]
    BY <2>1, FieldIsCaptured, FieldIsReplaced
  <2> QED
    BY <2>2 DEF FieldsInPlace
<1>2. CASE sample' = sample
  BY <1>2 DEF FieldsInPlace
<1>3. CASE sample'.of # "field"
  BY <1>3 DEF FieldsInPlace
<1>4. [Next]_sample => sample' = sample \/ ReplaceOneField \/ sample'.of # "field"
  BY KindOfSample DEF Next
<1> QED
  BY <1>1, <1>2, <1>3, <1>4

\* A field of up to a word is read and replaced at its place, wherever in the
\* frame it lies, for every frame size and every word size.
THEOREM FieldsStayInPlace == Spec => []FieldsInPlace
<1>1. Init => FieldsInPlace
  BY DEF Init, FieldsInPlace
<1> QED
  BY <1>1, FieldStep, PTL DEF Spec

-----------------------------------------------------------------------------
(***************************************************************************)
(* Signed numbers.  Signed is a recursive function from the last byte to   *)
(* the first; bytes of nothing but sign above a number do not change it.   *)
(***************************************************************************)
TopByte(byte) == IF Negative(byte) THEN byte - ByteValues ELSE byte

Bytes == 0 .. ByteValues - 1

\* The function that Signed defines.
LEMMA SignedFunction ==
  ASSUME NEW n \in Nat \ {0}, NEW s \in Seq(Bytes), Len(s) = n
  PROVE  \E f \in [1 .. n -> Int] :
           /\ Signed(s) = f[1]
           /\ f[n] = TopByte(s[n])
           /\ \A i \in 1 .. n - 1 : f[i] = s[i] + ByteValues * f[i + 1]
<1> DEFINE D == 1 .. n
           Rule(g, i) == IF i < n THEN s[i] + ByteValues * g[i + 1] ELSE TopByte(s[i])
           From(g, d) == \A i \in D : i > n - d => g[i] = Rule(g, i)
           U == {d \in Nat : \E g \in [D -> Int] : From(g, d)}
<1>0. ByteValues \in Nat /\ \A i \in D : s[i] \in Int /\ TopByte(s[i]) \in Int
  BY ByteAssumption DEF Bytes, TopByte
<1>1. 0 \in U
  <2>1. [i \in D |-> 0] \in [D -> Int]
    OBVIOUS
  <2>2. From([i \in D |-> 0], 0)
    OBVIOUS
  <2> HIDE DEF From
  <2> QED
    BY <2>1, <2>2
<1>2. ASSUME NEW d \in U PROVE d + 1 \in U
  <2>1. PICK g \in [D -> Int] : From(g, d)
    OBVIOUS
  <2>2. \A i \in D : Rule(g, i) \in Int
    <3> SUFFICES ASSUME NEW i \in D PROVE Rule(g, i) \in Int
      OBVIOUS
    <3>1. i < n => i + 1 \in D
      OBVIOUS
    <3>2. i < n => g[i + 1] \in Int
      BY <3>1
    <3>3. i < n => ByteValues * g[i + 1] \in Int
      BY <1>0, <3>2
    <3> HIDE DEF D
    <3> QED
      BY <1>0, <3>3
  <2> DEFINE h == [i \in D |-> IF i = n - d THEN Rule(g, i) ELSE g[i]]
  <2>3. h \in [D -> Int]
    <3> HIDE DEF Rule
    <3> QED
      BY <2>2
  <2>4. From(h, d + 1)
    <3> SUFFICES ASSUME NEW i \in D, i > n - (d + 1) PROVE h[i] = Rule(h, i)
      OBVIOUS
    <3>1. d \in Nat /\ i \in Nat
      OBVIOUS
    <3>2. i < n => i + 1 \in D /\ h[i + 1] = g[i + 1]
      BY <3>1
    <3>3. Rule(h, i) = Rule(g, i)
      BY <3>2
    <3>4. h[i] = IF i = n - d THEN Rule(g, i) ELSE g[i]
      OBVIOUS
    <3>5. i # n - d => g[i] = Rule(g, i)
      <4>1. i # n - d => i > n - d
        BY <3>1
      <4> HIDE DEF D, Rule
      <4> QED
        BY <2>1, <4>1
    <3> QED
      BY <3>3, <3>4, <3>5
  <2> HIDE DEF h, From
  <2> QED
    BY <2>3, <2>4
<1>3. n \in U
  <2>1. U \subseteq Nat
    BY DEF U
  <2> HIDE DEF U
  <2>2. U = Nat
    BY <1>1, <1>2, <2>1, SetInduction
  <2> QED
    BY <2>2
<1>4. PICK g \in [D -> Int] : \A i \in D : g[i] = Rule(g, i)
  <2>1. \A i \in D : i > n - n
    OBVIOUS
  <2> HIDE DEF Rule, D
  <2> QED
    BY <1>3, <2>1
<1>5. g = [i \in D |-> Rule(g, i)]
  BY <1>4
<1> DEFINE f == CHOOSE o : o = [i \in D |-> Rule(o, i)]
<1>6. f = [i \in D |-> Rule(f, i)]
  BY <1>5, Zenon
<1>7. Signed(s) = f[1]
  BY Zenon DEF Signed, TopByte
<1> HIDE DEF f, U
<1>8. \A i \in D : f[i] = Rule(f, i)
  BY <1>6
<1> DEFINE V == {d \in Nat : \A i \in D : i > n - d => f[i] \in Int}
<1>9. ASSUME NEW d \in V PROVE d + 1 \in V
  <2> SUFFICES ASSUME NEW i \in D, i > n - (d + 1) PROVE f[i] \in Int
    OBVIOUS
  <2>1. i < n => i + 1 \in D /\ i + 1 > n - d
    OBVIOUS
  <2>2. i < n => f[i + 1] \in Int
    BY <2>1
  <2>3. i < n => ByteValues * f[i + 1] \in Int
    BY <1>0, <2>2
  <2>4. f[i] = Rule(f, i)
    BY <1>8
  <2> QED
    BY <1>0, <2>3, <2>4
<1>10. 0 \in V
  OBVIOUS
<1>11. V = Nat
  <2>1. V \subseteq Nat
    BY DEF V
  <2> HIDE DEF V
  <2> QED
    BY <1>9, <1>10, <2>1, SetInduction
<1>12. f \in [D -> Int]
  <2>1. \A i \in D : f[i] \in Int
    <3>1. n \in V
      BY <1>11
    <3>2. \A i \in D : i > n - n
      OBVIOUS
    <3> QED
      BY <3>1, <3>2
  <2>2. DOMAIN f = D
    BY <1>6
  <2> QED
    BY <1>6, <2>1
<1>13. f[n] = TopByte(s[n])
  BY <1>8
<1>14. \A i \in 1 .. n - 1 : f[i] = s[i] + ByteValues * f[i + 1]
  BY <1>8
<1> QED
  BY <1>7, <1>12, <1>13, <1>14

\* x is the n members of u with nothing but sign up to place M.
Extends(x, u, n, M) ==
  /\ \A i \in 1 .. n : x[i] = u[i]
  /\ \A i \in n + 1 .. M : x[i] = IF Negative(u[n]) THEN ByteValues - 1 ELSE 0

LEMMA SignExtensionKeeps ==
  ASSUME NEW M \in Nat, NEW n \in 1 .. M, NEW u \in [1 .. n -> Bytes],
         NEW x \in Seq(Bytes), Len(x) = M, Extends(x, u, n, M)
  PROVE  Signed(x) = Signed(u)
<1>0. /\ \A i \in 1 .. n : x[i] = u[i]
      /\ \A i \in n + 1 .. M : x[i] = IF Negative(u[n]) THEN ByteValues - 1 ELSE 0
  BY DEF Extends
<1>1. /\ ByteValues \in Nat /\ ByteValues \div 2 \in Nat /\ ByteValues \div 2 > 0
      /\ ByteValues - 1 >= ByteValues \div 2
  BY ByteAssumption
<1>2. u \in Seq(Bytes) /\ Len(u) = n /\ n \in Nat \ {0} /\ M \in Nat \ {0}
  OBVIOUS
<1>3. PICK f \in [1 .. n -> Int] :
        /\ Signed(u) = f[1]
        /\ f[n] = TopByte(u[n])
        /\ \A i \in 1 .. n - 1 : f[i] = u[i] + ByteValues * f[i + 1]
  BY <1>2, SignedFunction
<1>4. PICK g \in [1 .. M -> Int] :
        /\ Signed(x) = g[1]
        /\ g[M] = TopByte(x[M])
        /\ \A i \in 1 .. M - 1 : g[i] = x[i] + ByteValues * g[i + 1]
  BY <1>2, SignedFunction
<1> DEFINE fill == IF Negative(u[n]) THEN -1 ELSE 0
           A == {d \in Nat : \A i \in n + 1 .. M : i >= M - d => g[i] = fill}
<1>5. 0 \in A
  <2> SUFFICES ASSUME NEW i \in n + 1 .. M, i >= M - 0 PROVE g[i] = fill
    OBVIOUS
  <2>1. i = M /\ x[M] = IF Negative(u[n]) THEN ByteValues - 1 ELSE 0
    BY <1>0
  <2>2. Negative(ByteValues - 1) /\ ~Negative(0)
    BY <1>1 DEF Negative
  <2>3. TopByte(ByteValues - 1) = -1 /\ TopByte(0) = 0
    BY <1>1, <2>2 DEF TopByte
  <2> QED
    BY <1>4, <2>1, <2>3
<1>6. ASSUME NEW d \in A PROVE d + 1 \in A
  <2> SUFFICES ASSUME NEW i \in n + 1 .. M, i >= M - (d + 1) PROVE g[i] = fill
    OBVIOUS
  <2>1. CASE i = M
    BY <1>5, <2>1
  <2>2. CASE i # M
    <3>1. i \in 1 .. M - 1 /\ i + 1 \in n + 1 .. M /\ i + 1 >= M - d
      BY <2>2
    <3>2. g[i] = x[i] + ByteValues * g[i + 1] /\ g[i + 1] = fill
      BY <1>4, <3>1
    <3>3. x[i] = IF Negative(u[n]) THEN ByteValues - 1 ELSE 0
      BY <1>0
    <3> QED
      BY <1>1, <3>2, <3>3
  <2> QED
    BY <2>1, <2>2
<1>7. A = Nat
  <2>1. A \subseteq Nat
    BY DEF A
  <2> HIDE DEF A
  <2> QED
    BY <1>5, <1>6, <2>1, SetInduction
<1>8. \A i \in n + 1 .. M : g[i] = fill
  <2>1. M \in A
    BY <1>7
  <2>2. \A i \in n + 1 .. M : i >= M - M
    OBVIOUS
  <2> QED
    BY <2>1, <2>2
<1> HIDE DEF A
<1>9. u[n] \in Int /\ x[n] = u[n]
  BY <1>0, <1>1 DEF Bytes
<1>10. g[n] = f[n]
  <2>1. CASE n = M
    BY <1>3, <1>4, <1>9, <2>1
  <2>2. CASE n # M
    <3>1. n \in 1 .. M - 1 /\ n + 1 \in n + 1 .. M
      BY <2>2
    <3>2. g[n] = u[n] + ByteValues * g[n + 1] /\ g[n + 1] = fill
      BY <1>4, <1>8, <1>9, <3>1
    <3>3. TopByte(u[n]) = u[n] + ByteValues * fill
      BY <1>1, <1>9 DEF TopByte
    <3> QED
      BY <1>3, <3>2, <3>3
  <2> QED
    BY <2>1, <2>2
<1> HIDE DEF fill
<1> DEFINE B == {d \in Nat : \A i \in 1 .. n : i >= n - d => g[i] = f[i]}
<1>11. 0 \in B
  BY <1>10
<1>12. ASSUME NEW d \in B PROVE d + 1 \in B
  <2> SUFFICES ASSUME NEW i \in 1 .. n, i >= n - (d + 1) PROVE g[i] = f[i]
    OBVIOUS
  <2>1. CASE i = n
    BY <1>10, <2>1
  <2>2. CASE i # n
    <3>1. i \in 1 .. n - 1 /\ i \in 1 .. M - 1 /\ i + 1 \in 1 .. n /\ i + 1 >= n - d
      BY <2>2
    <3>2. g[i] = x[i] + ByteValues * g[i + 1] /\ f[i] = u[i] + ByteValues * f[i + 1]
      BY <1>3, <1>4, <3>1
    <3>3. x[i] = u[i] /\ g[i + 1] = f[i + 1]
      BY <1>0, <3>1
    <3> QED
      BY <3>2, <3>3
  <2> QED
    BY <2>1, <2>2
<1>13. B = Nat
  <2>1. B \subseteq Nat
    BY DEF B
  <2> HIDE DEF B
  <2> QED
    BY <1>11, <1>12, <2>1, SetInduction
<1>14. g[1] = f[1]
  <2>1. n \in Nat /\ n \in B
    BY <1>2, <1>13
  <2>2. 1 \in 1 .. n /\ 1 >= n - n
    OBVIOUS
  <2> QED
    BY <2>1, <2>2
<1> QED
  BY <1>3, <1>4, <1>14

-----------------------------------------------------------------------------
(***************************************************************************)
(* The values and the text of a packet are pieces of it: what the kernel's *)
(* words put together are, however they are cut.                           *)
(***************************************************************************)

\* The n members of u behind the first p.
Piece(u, p, n) == [i \in 1 .. n |-> u[p + i]]

LEMMA PieceIsSeq ==
  ASSUME NEW T, NEW u \in Seq(T), NEW p \in Nat, NEW n \in Nat, p + n <= Len(u)
  PROVE  Piece(u, p, n) \in Seq(T) /\ Len(Piece(u, p, n)) = n /\ n <= Len(Piece(u, p, n))
<1>1. Piece(u, p, n) \in [1 .. n -> T]
  BY DEF Piece
<1> QED
  BY <1>1

LEMMA PieceOf ==
  ASSUME NEW T, NEW u \in Seq(T), NEW p \in Nat, NEW n \in Nat, p + n <= Len(u)
  PROVE  SubSeq(u, p + 1, p + n) = Piece(u, p, n)
BY PartOf DEF Piece

LEMMA PiecesJoin ==
  ASSUME NEW T, NEW u \in Seq(T), NEW p \in Nat, NEW m \in Nat, NEW n \in Nat, p + m + n <= Len(u)
  PROVE  Piece(u, p, m) \o Piece(u, p + m, n) = Piece(u, p, m + n)
<1> DEFINE a == Piece(u, p, m)
           b == Piece(u, p + m, n)
           c == Piece(u, p, m + n)
<1>1. a \in [1 .. m -> T] /\ b \in [1 .. n -> T] /\ c \in [1 .. m + n -> T]
  BY DEF Piece
<1>2. /\ \A i \in 1 .. m : a[i] = u[p + i]
      /\ \A i \in 1 .. n : b[i] = u[p + m + i]
      /\ \A i \in 1 .. m + n : c[i] = u[p + i]
  BY DEF Piece
<1> HIDE DEF a, b, c
<1>3. a \in Seq(T) /\ b \in Seq(T) /\ c \in Seq(T)
  BY <1>1
<1>4. Len(a) = m /\ Len(b) = n /\ Len(c) = m + n
  BY <1>1
<1>5. /\ a \o b \in Seq(T) /\ Len(a \o b) = Len(a) + Len(b)
      /\ \A i \in 1 .. Len(a) + Len(b) : (a \o b)[i] = IF i <= Len(a) THEN a[i] ELSE b[i - Len(a)]
  BY <1>3, ConcatProperties, Zenon
<1>6. ASSUME NEW i \in 1 .. m + n PROVE (IF i <= m THEN a[i] ELSE b[i - m]) = c[i]
  <2>1. CASE i <= m
    BY <1>2, <2>1
  <2>2. CASE ~(i <= m)
    <3> DEFINE j == i - m
    <3>1. j \in 1 .. n /\ p + m + j = p + i
      BY <2>2
    <3> HIDE DEF j
    <3> QED
      BY <1>2, <2>2, <3>1 DEF j
  <2> QED
    BY <2>1, <2>2
<1>7. \A i \in 1 .. Len(a) + Len(b) : (a \o b)[i] = c[i]
  BY <1>4, <1>5, <1>6, Zenon
<1>8. a \o b = c
  BY <1>3, <1>4, <1>5, <1>7, SeqEqual, Zenon
<1> QED
  BY <1>8 DEF a, b, c

\* The same for numbers, which are cited without sums.
LEMMA JoinPieces ==
  ASSUME NEW T, NEW u \in Seq(T), NEW p \in Nat, NEW m \in Nat, NEW n \in Nat,
         NEW q \in Nat, NEW k \in Nat,
         q <= p + m, q >= p + m, k <= m + n, k >= m + n, p + k <= Len(u)
  PROVE  Piece(u, p, m) \o Piece(u, q, n) = Piece(u, p, k)
<1>1. q = p + m /\ k = m + n
  OBVIOUS
<1>2. p + m + n <= Len(u)
  OBVIOUS
<1>3. Piece(u, p, m) \o Piece(u, p + m, n) = Piece(u, p, m + n)
  BY <1>2, PiecesJoin, Zenon
<1> QED
  BY <1>1, <1>3, Zenon

\* The n bytes behind the first o are a value of n bytes, extended to 2 ^ bits.
LEMMA ValueIsKept ==
  ASSUME NEW N \in Nat, NEW v \in [1 .. N -> Bytes], NEW bits \in 2 .. 3, 2 ^ bits <= N,
         NEW sz \in 0 .. 2 ^ bits - 1, NEW o \in Nat, o + ToActualSize(sz, bits) <= N
  PROVE  Signed(ExtractValue(ByteShiftRight(v, o), sz, bits))
           = Signed(Piece(v, o, ToActualSize(sz, bits)))
<1> DEFINE M == 2 ^ bits
           n == ToActualSize(sz, bits)
           w == ByteShiftRight(v, o)
           t == SubSeq(w, 1, M)
           x == ExtractValue(w, sz, bits)
           u == Piece(v, o, n)
<1>1. M \in {4, 8}
  <2>1. bits = 2 \/ bits = 3
    OBVIOUS
  <2>2. 2 ^ 2 = 4 /\ 2 ^ 3 = 8
    OBVIOUS
  <2> QED
    BY <2>1, <2>2
<1>2. n = (IF sz = 0 THEN M ELSE sz) /\ n \in 1 .. M
  BY <1>1 DEF ToActualSize
<1>3. x = SignExtend(sz, t)
  BY DEF ExtractValue
<1> HIDE DEF M, n
<1>4. 0 \in Bytes /\ ByteValues - 1 \in Bytes
  BY ByteAssumption DEF Bytes
<1>5. w = [i \in 1 .. N |-> IF i + o \in 1 .. N THEN v[i + o] ELSE 0]
  BY DEF ByteShiftRight
<1>6. w \in [1 .. N -> Bytes]
  BY <1>4, <1>5
<1>7. \A i \in 1 .. n : i \in 1 .. N /\ i + o \in 1 .. N /\ i + o = o + i
  BY <1>1, <1>2 DEF n, M
<1>8. \A i \in 1 .. n : w[i] = v[o + i]
  BY <1>5, <1>7
<1> HIDE DEF w
<1>9. M \in Nat /\ M <= N
  BY <1>1 DEF M
<1>10. t = [i \in 1 .. M |-> w[i]]
  BY <1>6, <1>9
<1>11. t \in [1 .. M -> Bytes] /\ Len(t) = M
  <2> HIDE DEF t
  <2>1. \A i \in 1 .. M : w[i] \in Bytes
    BY <1>6, <1>9
  <2>2. t \in [1 .. M -> Bytes]
    BY <1>10, <2>1
  <2> QED
    BY <1>9, <2>2
<1> HIDE DEF t
<1>12. n = IF sz = 0 THEN Len(t) ELSE sz
  BY <1>2, <1>11
<1>13. x = [i \in 1 .. M |-> IF sz = 0 \/ i <= sz THEN t[i]
                              ELSE IF Negative(t[n]) THEN ByteValues - 1 ELSE 0]
  BY <1>3, <1>11, <1>12 DEF SignExtend
<1> HIDE DEF x
<1>14. \A i \in 1 .. M : (sz = 0 \/ i <= sz) <=> i <= n
  BY <1>2, <1>9
<1>15. x \in Seq(Bytes) /\ Len(x) = M
  <2>1. x \in [1 .. M -> Bytes]
    BY <1>4, <1>11, <1>13
  <2> QED
    BY <1>9, <2>1
<1>16. u \in [1 .. n -> Bytes] /\ u = [i \in 1 .. n |-> v[o + i]]
  BY <1>7 DEF Piece
<1>17. \A i \in 1 .. n : t[i] = u[i]
  BY <1>2, <1>8, <1>9, <1>10, <1>16
<1> HIDE DEF u
<1>18. \A i \in 1 .. n : x[i] = u[i]
  BY <1>2, <1>9, <1>13, <1>14, <1>17
<1>19. t[n] = u[n]
  BY <1>2, <1>9, <1>17
<1>20. \A i \in n + 1 .. M : x[i] = IF Negative(u[n]) THEN ByteValues - 1 ELSE 0
  <2> SUFFICES ASSUME NEW i \in n + 1 .. M
               PROVE  x[i] = IF Negative(u[n]) THEN ByteValues - 1 ELSE 0
    OBVIOUS
  <2>1. i \in 1 .. M /\ ~(sz = 0 \/ i <= sz)
    BY <1>2, <1>9, <1>14
  <2> QED
    BY <1>13, <1>19, <2>1
<1>21. Signed(x) = Signed(u)
  <2>1. M \in Nat /\ n \in 1 .. M
    BY <1>2, <1>9
  <2>2. u \in [1 .. n -> Bytes] /\ Extends(x, u, n, M)
    BY <1>16, <1>18, <1>20 DEF Extends
  <2>3. x \in Seq(Bytes)
    BY <1>15
  <2>4. Len(x) = M
    BY <1>15
  <2> QED
    BY <2>1, <2>2, <2>3, <2>4, SignExtensionKeeps, Zenon
<1> QED
  BY <1>21 DEF x, u, w, n

LEMMA PacketIsSeq ==
  ASSUME NEW T, NEW bytes \in [1 .. 32 -> T]
  PROVE  bytes \in Seq(T) /\ 32 <= Len(bytes)
<1> DEFINE N == 32
<1>1. N \in Nat
  OBVIOUS
<1>2. bytes \in [1 .. N -> T]
  OBVIOUS
<1> HIDE DEF N
<1>3. bytes \in Seq(T) /\ Len(bytes) = N
  BY <1>1, <1>2, SMTT(40)
<1> QED
  BY <1>3 DEF N

LEMMA WordsOfPacket ==
  ASSUME NEW T, NEW bytes \in Seq(T), 32 <= Len(bytes)
  PROVE  /\ SuperWord(<<SubSeq(bytes, 1, 8), SubSeq(bytes, 9, 16), SubSeq(bytes, 17, 24)>>)
              = Piece(bytes, 1, 20)
         /\ FourWords([w \in 1 .. 4 |-> SubSeq(bytes, 8 * w - 7, 8 * w)]) = Piece(bytes, 1, 28)
<1> DEFINE W0 == Piece(bytes, 0, 8)
           W1 == Piece(bytes, 8, 8)
           W2 == Piece(bytes, 16, 8)
           W3 == Piece(bytes, 24, 8)
<1>1. /\ SubSeq(bytes, 1, 8) = W0 /\ SubSeq(bytes, 9, 16) = W1
      /\ SubSeq(bytes, 17, 24) = W2 /\ SubSeq(bytes, 25, 32) = W3
  BY DEF Piece
<1>2. SubSeq(W0, 2, 8) = Piece(bytes, 1, 7)
  <2>1. W0 \in Seq(T) /\ 8 <= Len(W0)
    BY PieceIsSeq
  <2>2. \A i \in 1 .. 7 : W0[1 + i] = bytes[1 + i]
    BY DEF Piece
  <2> HIDE DEF W0
  <2>3. SubSeq(W0, 2, 8) = [i \in 1 .. 7 |-> W0[1 + i]]
    BY <2>1
  <2> QED
    BY <2>2, <2>3 DEF Piece
<1>3. SubSeq(W2, 1, 5) = Piece(bytes, 16, 5)
  <2>1. W2 \in Seq(T) /\ 8 <= Len(W2)
    BY PieceIsSeq
  <2>2. \A i \in 1 .. 5 : W2[i] = bytes[16 + i]
    BY DEF Piece
  <2> HIDE DEF W2
  <2>3. SubSeq(W2, 1, 5) = [i \in 1 .. 5 |-> W2[i]]
    BY <2>1
  <2> QED
    BY <2>2, <2>3 DEF Piece
<1>4. SubSeq(W3, 1, 5) = Piece(bytes, 24, 5)
  <2>1. W3 \in Seq(T) /\ 8 <= Len(W3)
    BY PieceIsSeq
  <2>2. \A i \in 1 .. 5 : W3[i] = bytes[24 + i]
    BY DEF Piece
  <2> HIDE DEF W3
  <2>3. SubSeq(W3, 1, 5) = [i \in 1 .. 5 |-> W3[i]]
    BY <2>1
  <2> QED
    BY <2>2, <2>3 DEF Piece
<1>5. Piece(bytes, 1, 7) \o W1 = Piece(bytes, 1, 15)
  <2>1. PICK p \in Nat, m \in Nat, n \in Nat : p = 1 /\ m = 7 /\ n = 8
    OBVIOUS
  <2>2. p + m + n <= Len(bytes)
    BY <2>1
  <2>3. Piece(bytes, p, m) \o Piece(bytes, p + m, n) = Piece(bytes, p, m + n)
    BY <2>2, PiecesJoin, Zenon
  <2> QED
    BY <2>1, <2>3
<1>6. Piece(bytes, 1, 15) \o Piece(bytes, 16, 5) = Piece(bytes, 1, 20)
  BY JoinPieces
<1>7. Piece(bytes, 1, 15) \o W2 = Piece(bytes, 1, 23)
  BY JoinPieces
<1>8. Piece(bytes, 1, 23) \o Piece(bytes, 24, 5) = Piece(bytes, 1, 28)
  BY JoinPieces
<1> HIDE DEF W0, W1, W2, W3
<1>9. SuperWord(<<W0, W1, W2>>) = SubSeq(W0, 2, 8) \o W1 \o SubSeq(W2, 1, 5)
  BY DEF SuperWord
<1> DEFINE F == [w \in 1 .. 4 |-> SubSeq(bytes, 8 * w - 7, 8 * w)]
<1>10. F[1] = W0 /\ F[2] = W1 /\ F[3] = W2 /\ F[4] = W3
  BY <1>1
<1> HIDE DEF F
<1>11. FourWords(F) = SubSeq(W0, 2, 8) \o W1 \o W2 \o SubSeq(W3, 1, 5)
  BY <1>10 DEF FourWords
<1>12. FourWords(F) = Piece(bytes, 1, 28)
  BY <1>2, <1>4, <1>5, <1>7, <1>8, <1>11, Zenon
<1>13. SuperWord(<<W0, W1, W2>>) = Piece(bytes, 1, 20)
  BY <1>2, <1>3, <1>5, <1>6, <1>9, Zenon
<1> QED
  BY <1>1, <1>12, <1>13, Zenon DEF F

LEMMA PacketsAreBytes == DataBytes \subseteq [1 .. 32 -> Bytes]
<1>1. DataBytes \subseteq [1 .. 32 -> 0 .. ByteValues - 1]
  BY SamplesAssumption
<1> QED
  BY <1>1 DEF Bytes

\* A packet with the string in its text is made of bytes as well.
LEMMA TextSample ==
  ASSUME ReceiveText
  PROVE  \E a \in 0 .. 7, b \in 0 .. 7, c \in 0 .. 3, all \in [1 .. 32 -> Bytes] :
           sample' =
             [of |-> "text", sizes |-> [a |-> a, b |-> b, c |-> c], bytes |-> all,
              result |-> SignExtKernel([a |-> a, b |-> b, c |-> c],
                           [w \in 1 .. 4 |-> SubSeq(all, 8 * w - 7, 8 * w)])]
<1> DEFINE All(sz, bytes, place) ==
             [k \in 1 .. 32 |->
                IF k - (1 + TextOffset(sz)) - place \in DOMAIN SearchString
                     /\ k <= 1 + TextOffset(sz) + TextSizeBytes
                THEN SearchString[k - (1 + TextOffset(sz)) - place] ELSE bytes[k]]
<1>1. PICK a \in 0 .. 7, b \in 0 .. 7, c \in 0 .. 3, bytes \in DataBytes, place \in 0 .. TextSizeBytes :
        sample' =
          [of |-> "text", sizes |-> [a |-> a, b |-> b, c |-> c],
           bytes |-> All([a |-> a, b |-> b, c |-> c], bytes, place),
           result |-> SignExtKernel([a |-> a, b |-> b, c |-> c],
                        [w \in 1 .. 4 |-> SubSeq(All([a |-> a, b |-> b, c |-> c], bytes, place), 8 * w - 7, 8 * w)])]
  BY Zenon DEF ReceiveText
<1>2. bytes \in [1 .. 32 -> Bytes]
  BY PacketsAreBytes
<1>3. \A i \in DOMAIN SearchString : SearchString[i] \in Bytes
  <2>1. SearchString \in Seq(Bytes)
    BY StringAssumption DEF Bytes
  <2> QED
    BY <2>1
<1>4. All([a |-> a, b |-> b, c |-> c], bytes, place) \in [1 .. 32 -> Bytes]
  BY <1>2, <1>3
<1> HIDE DEF All
<1> QED
  BY <1>1, <1>4, Zenon

LEMMA ValueOfPacket ==
  ASSUME NEW bytes \in Seq(Bytes), 32 <= Len(bytes), NEW N \in Nat, N <= 28,
         NEW bits \in 2 .. 3, 2 ^ bits <= N, NEW sz \in 0 .. 2 ^ bits - 1,
         NEW o \in Nat, o + ToActualSize(sz, bits) <= N, ToActualSize(sz, bits) \in Nat
  PROVE  Signed(ExtractValue(ByteShiftRight(Piece(bytes, 1, N), o), sz, bits))
           = Signed(SubSeq(bytes, 2 + o, 2 + o + ToActualSize(sz, bits) - 1))
<1> DEFINE v == Piece(bytes, 1, N)
           n == ToActualSize(sz, bits)
<1>1. v \in [1 .. N -> Bytes]
  BY DEF Piece
<1>2. \A i \in 1 .. N : v[i] = bytes[1 + i]
  BY DEF Piece
<1> HIDE DEF v
<1>3. Signed(ExtractValue(ByteShiftRight(v, o), sz, bits)) = Signed(Piece(v, o, n))
  BY <1>1, ValueIsKept, Zenon
<1> HIDE DEF n
<1>4. n \in Nat /\ o + n <= N
  BY DEF n
<1>5. Piece(v, o, n) = Piece(bytes, 1 + o, n)
  <2>1. ASSUME NEW i \in 1 .. n PROVE v[o + i] = bytes[1 + o + i]
    <3>1. o + i \in 1 .. N /\ 1 + (o + i) = 1 + o + i
      BY <1>4
    <3> QED
      BY <1>2, <3>1
  <2> QED
    BY <2>1 DEF Piece
<1>6. SubSeq(bytes, (1 + o) + 1, (1 + o) + n) = Piece(bytes, 1 + o, n)
  <2>1. 1 + o \in Nat /\ (1 + o) + n <= Len(bytes)
    BY <1>4
  <2> QED
    BY <1>4, <2>1, PieceOf
<1>7. (1 + o) + 1 = 2 + o /\ (1 + o) + n = 2 + o + n - 1
  BY <1>4
<1> QED
  BY <1>3, <1>5, <1>6, <1>7 DEF v, n

LEMMA ShiftOfNothing ==
  ASSUME NEW T, NEW N \in Nat, NEW v \in [1 .. N -> T]
  PROVE  ByteShiftRight(v, 0) = v
<1>1. \A i \in 1 .. N : i + 0 \in 1 .. N /\ i + 0 = i
  OBVIOUS
<1> QED
  BY <1>1 DEF ByteShiftRight

\* The three values follow each other, and as much as they need is there.
LEMMA ValuesOfPacket ==
  ASSUME NEW bytes \in Seq(Bytes), 32 <= Len(bytes), NEW N \in {20, 28}, NEW sz,
         sz.a \in 0 .. 7, sz.b \in 0 .. 7, sz.c \in 0 .. 3
  PROVE  AreValuesOf(IncomingDataOf(sz, Piece(bytes, 1, N)), sz, bytes)
<1> DEFINE v == Piece(bytes, 1, N)
           n1 == ToActualSize(sz.a, ASize)
           n2 == ToActualSize(sz.b, BSize)
           n3 == ToActualSize(sz.c, CSize)
           values == IncomingDataOf(sz, v)
<1>0. 2 ^ 3 = 8 /\ 2 ^ 2 = 4 /\ N \in Nat /\ N <= 28 /\ N >= 20
  OBVIOUS
<1>1. /\ n1 = (IF sz.a = 0 THEN 8 ELSE sz.a) /\ n2 = (IF sz.b = 0 THEN 8 ELSE sz.b)
      /\ n3 = (IF sz.c = 0 THEN 4 ELSE sz.c)
  BY <1>0 DEF ToActualSize, ASize, BSize, CSize
<1>2. n1 \in 1 .. 8 /\ n2 \in 1 .. 8 /\ n3 \in 1 .. 4
  BY <1>1
<1>3. SizesOf(sz) = <<n1, n2, n3>>
  BY DEF SizesOf, FullSize, ToActualSize, ASize, BSize, CSize
<1>4. /\ n1 = ToActualSize(sz.a, 3) /\ n2 = ToActualSize(sz.b, 3)
      /\ n3 = ToActualSize(sz.c, 2)
  BY DEF ASize, BSize, CSize
<1>5. /\ values.a = ExtractValue(ByteShiftRight(v, 0), sz.a, 3)
      /\ values.b = ExtractValue(ByteShiftRight(v, n1), sz.b, 3)
      /\ values.c = ExtractValue(ByteShiftRight(v, n1 + n2), sz.c, 2)
  <2>1. v \in [1 .. N -> Bytes]
    BY <1>0 DEF Piece
  <2> HIDE DEF v
  <2>2. ByteShiftRight(v, 0) = v
    BY <1>0, <2>1, ShiftOfNothing
  <2> QED
    BY <2>2 DEF IncomingDataOf, ASize, BSize, CSize
<1> HIDE DEF v, n1, n2, n3, values
<1>6. Signed(values.a) = Signed(SubSeq(bytes, 2 + 0, 2 + 0 + n1 - 1))
  <2>1. /\ 3 \in 2 .. 3 /\ 2 ^ 3 <= N /\ sz.a \in 0 .. 2 ^ 3 - 1
        /\ 0 \in Nat /\ N \in Nat /\ N <= 28
    BY <1>0, <1>2
  <2>2. 0 + n1 <= N /\ n1 \in Nat
    BY <1>0, <1>2
  <2>3. 0 + ToActualSize(sz.a, 3) <= N /\ ToActualSize(sz.a, 3) \in Nat
    BY <1>4, <2>2, Zenon
  <2>4. Signed(ExtractValue(ByteShiftRight(Piece(bytes, 1, N), 0), sz.a, 3))
          = Signed(SubSeq(bytes, 2 + 0, 2 + 0 + ToActualSize(sz.a, 3) - 1))
    BY <2>1, <2>3, ValueOfPacket, Zenon
  <2> QED
    BY <1>4, <1>5, <2>4, Zenon DEF v
<1>7. Signed(values.b) = Signed(SubSeq(bytes, 2 + n1, 2 + n1 + n2 - 1))
  <2>1. /\ 3 \in 2 .. 3 /\ 2 ^ 3 <= N /\ sz.b \in 0 .. 2 ^ 3 - 1
        /\ n1 \in Nat /\ N \in Nat /\ N <= 28
    BY <1>0, <1>2
  <2>2. n1 + n2 <= N /\ n2 \in Nat
    BY <1>0, <1>2
  <2>3. n1 + ToActualSize(sz.b, 3) <= N /\ ToActualSize(sz.b, 3) \in Nat
    BY <1>4, <2>2, Zenon
  <2>4. Signed(ExtractValue(ByteShiftRight(Piece(bytes, 1, N), n1), sz.b, 3))
          = Signed(SubSeq(bytes, 2 + n1, 2 + n1 + ToActualSize(sz.b, 3) - 1))
    BY <2>1, <2>3, ValueOfPacket, Zenon
  <2> QED
    BY <1>4, <1>5, <2>4, Zenon DEF v
<1>8. Signed(values.c) = Signed(SubSeq(bytes, 2 + (n1 + n2), 2 + (n1 + n2) + n3 - 1))
  <2>1. /\ 2 \in 2 .. 3 /\ 2 ^ 2 <= N /\ sz.c \in 0 .. 2 ^ 2 - 1
        /\ (n1 + n2) \in Nat /\ N \in Nat /\ N <= 28
    BY <1>0, <1>2
  <2>2. (n1 + n2) + n3 <= N /\ n3 \in Nat
    BY <1>0, <1>2
  <2>3. (n1 + n2) + ToActualSize(sz.c, 2) <= N /\ ToActualSize(sz.c, 2) \in Nat
    BY <1>4, <2>2, Zenon
  <2>4. Signed(ExtractValue(ByteShiftRight(Piece(bytes, 1, N), (n1 + n2)), sz.c, 2))
          = Signed(SubSeq(bytes, 2 + (n1 + n2), 2 + (n1 + n2) + ToActualSize(sz.c, 2) - 1))
    BY <2>1, <2>3, ValueOfPacket, Zenon
  <2> QED
    BY <1>4, <1>5, <2>4, Zenon DEF v
<1>9. /\ 2 + 0 = 2 /\ 2 + 0 + n1 - 1 = 2 + n1 - 1
      /\ 2 + (n1 + n2) = 2 + n1 + n2 /\ 2 + (n1 + n2) + n3 - 1 = 2 + n1 + n2 + n3 - 1
  BY <1>2
<1>10. AreValuesOf(values, sz, bytes)
  BY <1>3, <1>6, <1>7, <1>8, <1>9 DEF AreValuesOf
<1> QED
  BY <1>10 DEF values, v

LEMMA ValuesStep == ValuesKept /\ [Next]_sample => ValuesKept'
<1> SUFFICES ASSUME ValuesKept, [Next]_sample PROVE ValuesKept'
  OBVIOUS
<1>1. CASE ReceivePacket
  <2>1. PICK a \in 0 .. 7, b \in 0 .. 7, c \in 0 .. 3, bytes \in DataBytes :
          sample' =
            [of |-> "values", sizes |-> [a |-> a, b |-> b, c |-> c], bytes |-> bytes,
             values |-> IncomingData([a |-> a, b |-> b, c |-> c],
                          <<SubSeq(bytes, 1, 8), SubSeq(bytes, 9, 16), SubSeq(bytes, 17, 24)>>)]
    BY <1>1, Zenon DEF ReceivePacket
  <2> DEFINE sz == [a |-> a, b |-> b, c |-> c]
  <2>2. bytes \in Seq(Bytes) /\ 32 <= Len(bytes)
    BY PacketsAreBytes, PacketIsSeq, Zenon
  <2>3. sz.a \in 0 .. 7 /\ sz.b \in 0 .. 7 /\ sz.c \in 0 .. 3
    OBVIOUS
  <2>4. /\ sample'.of = "values" /\ sample'.sizes = sz /\ sample'.bytes = bytes
        /\ sample'.values =
             IncomingDataOf(sz, SuperWord(<<SubSeq(bytes, 1, 8), SubSeq(bytes, 9, 16), SubSeq(bytes, 17, 24)>>))
    BY <2>1, Zenon DEF IncomingData
  <2> HIDE DEF sz
  <2>5. sample'.values = IncomingDataOf(sz, Piece(bytes, 1, 20))
    BY <2>2, <2>4, WordsOfPacket, Zenon
  <2>6. AreValuesOf(sample'.values, sz, bytes)
    <3>1. 20 \in {20, 28}
      OBVIOUS
    <3> QED
      BY <2>2, <2>3, <2>5, <3>1, ValuesOfPacket, Zenon
  <2> QED
    BY <2>4, <2>6 DEF ValuesKept
<1>2. CASE ReceiveText
  <2>1. PICK a \in 0 .. 7, b \in 0 .. 7, c \in 0 .. 3, all \in [1 .. 32 -> Bytes] :
          sample' =
            [of |-> "text", sizes |-> [a |-> a, b |-> b, c |-> c], bytes |-> all,
             result |-> SignExtKernel([a |-> a, b |-> b, c |-> c],
                          [w \in 1 .. 4 |-> SubSeq(all, 8 * w - 7, 8 * w)])]
    BY <1>2, TextSample, Zenon
  <2> DEFINE sz == [a |-> a, b |-> b, c |-> c]
             words == [w \in 1 .. 4 |-> SubSeq(all, 8 * w - 7, 8 * w)]
  <2>2. all \in Seq(Bytes) /\ 32 <= Len(all)
    BY PacketIsSeq, Zenon
  <2>3. sz.a \in 0 .. 7 /\ sz.b \in 0 .. 7 /\ sz.c \in 0 .. 3
    OBVIOUS
  <2>4. /\ sample'.of = "text" /\ sample'.sizes = sz /\ sample'.bytes = all
        /\ sample'.result.values = IncomingDataOf(sz, FourWords(words))
    <3> HIDE DEF sz, words
    <3>1. SignExtKernel(sz, words).values = IncomingDataOf(sz, FourWords(words))
      BY Zenon DEF SignExtKernel
    <3> QED
      BY <2>1, <3>1, Zenon DEF sz, words
  <2>5. FourWords(words) = Piece(all, 1, 28)
    BY <2>2, WordsOfPacket, Zenon
  <2> HIDE DEF sz, words
  <2>6. AreValuesOf(sample'.result.values, sz, all)
    <3>1. 28 \in {20, 28}
      OBVIOUS
    <3> QED
      BY <2>2, <2>3, <2>4, <2>5, <3>1, ValuesOfPacket, Zenon
  <2> QED
    BY <2>4, <2>6 DEF ValuesKept
<1>3. CASE sample' = sample
  BY <1>3 DEF ValuesKept
<1>4. CASE sample'.of \notin {"values", "text"}
  BY <1>4 DEF ValuesKept
<1>5. \/ sample' = sample \/ ReceivePacket \/ ReceiveText
      \/ sample'.of \notin {"values", "text"}
  BY KindOfSample DEF Next
<1> QED
  BY <1>1, <1>2, <1>3, <1>4, <1>5

\* Whatever sizes the first byte of a packet gives, what the kernel hands on
\* for its three values are the numbers their bytes stand for, sign and all.
THEOREM ValuesStayTheSame == Spec => []ValuesKept
<1>1. Init => ValuesKept
  BY DEF Init, ValuesKept
<1> QED
  BY <1>1, ValuesStep, PTL DEF Spec

-----------------------------------------------------------------------------
(***************************************************************************)
(* The text.  What the kernel cuts out is the packet's text; the string is *)
(* looked for at all its places but the last.                              *)
(***************************************************************************)
LEMMA StringIsAt ==
  ASSUME NEW t \in Seq(Bytes), NEW k \in Nat, k + Len(SearchString) <= Len(t)
  PROVE  (SubSeq(t, k + 1, k + Len(SearchString)) = SearchString)
           <=> \A i \in DOMAIN SearchString : t[k + i] = SearchString[i]
<1> DEFINE S == SearchString
           L == Len(S)
<1>1. S \in Seq(Bytes) /\ L \in Nat
  <2>1. S \in Seq(Bytes)
    BY StringAssumption DEF Bytes
  <2> QED
    BY <2>1
<1>2. DOMAIN S = 1 .. L
  BY <1>1
<1>3. SubSeq(t, k + 1, k + L) = [i \in 1 .. L |-> t[k + i]]
  BY <1>1, PartOf
<1>4. S = [i \in 1 .. L |-> S[i]]
  BY <1>1
<1> HIDE DEF S, L
<1>5. ASSUME SubSeq(t, k + 1, k + L) = S PROVE \A i \in 1 .. L : t[k + i] = S[i]
  BY <1>3, <1>5
<1>6. ASSUME \A i \in 1 .. L : t[k + i] = S[i] PROVE SubSeq(t, k + 1, k + L) = S
  BY <1>3, <1>4, <1>6
<1> QED
  BY <1>2, <1>5, <1>6 DEF S, L

LEMMA FirstEight ==
  ASSUME NEW T, NEW N \in Nat, NEW w \in [1 .. N -> T], 8 <= N
  PROVE  SubSeq(w, 1, 8) = [i \in 1 .. 8 |-> w[i]]
<1>1. w \in Seq(T) /\ 8 <= Len(w)
  OBVIOUS
<1> QED
  BY <1>1

LEMMA TextOfPacket ==
  ASSUME NEW bytes \in Seq(Bytes), 32 <= Len(bytes), NEW sz, NEW words,
         sz.a \in 0 .. 7, sz.b \in 0 .. 7, sz.c \in 0 .. 3,
         FourWords(words) = Piece(bytes, 1, 28)
  PROVE  \E t \in Seq(Bytes) :
           /\ Len(t) = TextSizeBytes
           /\ TextField(sz, words) = t
           /\ LET n == SizesOf(sz)
              IN SubSeq(bytes, 2 + n[1] + n[2] + n[3], 9 + n[1] + n[2] + n[3]) = t
<1> DEFINE n1 == ToActualSize(sz.a, ASize)
           n2 == ToActualSize(sz.b, BSize)
           n3 == ToActualSize(sz.c, CSize)
           o == n1 + n2 + n3
           v == Piece(bytes, 1, 28)
           w == ByteShiftRight(v, o)
           t == Piece(bytes, 1 + o, 8)
<1>0. 2 ^ 3 = 8 /\ 2 ^ 2 = 4
  OBVIOUS
<1>1. /\ n1 = (IF sz.a = 0 THEN 8 ELSE sz.a) /\ n2 = (IF sz.b = 0 THEN 8 ELSE sz.b)
      /\ n3 = (IF sz.c = 0 THEN 4 ELSE sz.c)
  BY <1>0 DEF ToActualSize, ASize, BSize, CSize
<1>2. n1 \in 1 .. 8 /\ n2 \in 1 .. 8 /\ n3 \in 1 .. 4
  BY <1>1
<1>3. SizesOf(sz) = <<n1, n2, n3>>
  BY DEF SizesOf, FullSize, ToActualSize, ASize, BSize, CSize
<1>4. TextField(sz, words) = SubSeq(w, 1, TextSizeBytes)
  BY DEF TextField, TextOffset
<1> HIDE DEF n1, n2, n3
<1>5. o \in Nat /\ o + 8 <= 28 /\ 1 + o \in Nat /\ (1 + o) + 8 <= Len(bytes)
  BY <1>2
<1>6. /\ 2 + n1 + n2 + n3 = (1 + o) + 1 /\ 9 + n1 + n2 + n3 = (1 + o) + 8
  BY <1>2
<1> HIDE DEF o
<1>7. SubSeq(bytes, (1 + o) + 1, (1 + o) + 8) = t
  BY <1>5, PieceOf
<1>8. t \in Seq(Bytes) /\ Len(t) = 8
  <2>1. 8 \in Nat
    OBVIOUS
  <2> QED
    BY <1>5, <2>1, PieceIsSeq, Zenon
<1>9. SubSeq(w, 1, 8) = t
  <2>1. w = [i \in 1 .. 28 |-> IF i + o \in 1 .. 28 THEN v[i + o] ELSE 0]
    BY DEF ByteShiftRight, Piece
  <2>2. \A j \in 1 .. 28 : v[j] = bytes[1 + j]
    BY DEF Piece
  <2> HIDE DEF v
  <2>3. ASSUME NEW i \in 1 .. 8 PROVE w[i] = bytes[(1 + o) + i]
    <3>1. i \in 1 .. 28 /\ i + o \in 1 .. 28 /\ 1 + (i + o) = (1 + o) + i
      BY <1>5
    <3> HIDE DEF w
    <3> QED
      BY <2>1, <2>2, <3>1
  <2>4. w \in [1 .. 28 -> {w[i] : i \in 1 .. 28}]
    BY <2>1
  <2> HIDE DEF w
  <2>5. 28 \in Nat /\ 8 <= 28
    OBVIOUS
  <2>6. SubSeq(w, 1, 8) = [i \in 1 .. 8 |-> w[i]]
    BY <2>4, <2>5, FirstEight, Zenon
  <2> QED
    BY <2>3, <2>6 DEF Piece
<1> HIDE DEF w, t
<1>10. TextSizeBytes = 8
  BY DEF TextSizeBytes
<1>11. LET n == SizesOf(sz)
       IN SubSeq(bytes, 2 + n[1] + n[2] + n[3], 9 + n[1] + n[2] + n[3]) = t
  BY <1>3, <1>6, <1>7
<1> QED
  BY <1>4, <1>8, <1>9, <1>10, <1>11

LEMMA ForwardedForItsText ==
  ASSUME NEW bytes \in Seq(Bytes), 32 <= Len(bytes), NEW sz, NEW words,
         sz.a \in 0 .. 7, sz.b \in 0 .. 7, sz.c \in 0 .. 3,
         FourWords(words) = Piece(bytes, 1, 28)
  PROVE  LET forward == MatchFound(TextField(sz, words))
             Places == PlacesOf(sz, bytes)
         IN /\ forward => Places # {}
            /\ ~forward => Places \subseteq {8 - Len(SearchString)}
<1> DEFINE L == Len(SearchString)
           Places == PlacesOf(sz, bytes)
           At(t, k) == \A i \in DOMAIN SearchString : t[k + i] = SearchString[i]
<1>1. L \in 1 .. 8
  BY StringAssumption DEF TextSizeBytes
<1>2. PICK t \in Seq(Bytes) :
        /\ Len(t) = TextSizeBytes
        /\ TextField(sz, words) = t
        /\ LET n == SizesOf(sz)
           IN SubSeq(bytes, 2 + n[1] + n[2] + n[3], 9 + n[1] + n[2] + n[3]) = t
  BY TextOfPacket, Zenon
<1>3. Places = {k \in 0 .. 8 - L : SubSeq(t, k + 1, k + L) = SearchString}
  BY <1>2 DEF PlacesOf
<1>4. \A k \in 0 .. 8 - L : k \in Places <=> At(t, k)
  <2> SUFFICES ASSUME NEW k \in 0 .. 8 - L PROVE k \in Places <=> At(t, k)
    OBVIOUS
  <2>1. k \in Nat /\ k + L <= Len(t)
    BY <1>1, <1>2 DEF TextSizeBytes
  <2>2. (SubSeq(t, k + 1, k + L) = SearchString) <=> At(t, k)
    BY <2>1, StringIsAt, Zenon
  <2> QED
    BY <1>3, <2>2, Zenon
<1>5. MatchFound(t) <=> \E k \in 0 .. 8 - L - 1 : At(t, k)
  BY DEF MatchFound, TextSizeBytes
<1>6. Places \subseteq 0 .. 8 - L
  BY <1>3
<1> HIDE DEF Places, At, L
<1>7. MatchFound(t) => Places # {}
  <2>1. \A k \in 0 .. 8 - L - 1 : k \in 0 .. 8 - L
    BY <1>1
  <2> QED
    BY <1>4, <1>5, <2>1, Zenon
<1>8. ~MatchFound(t) => Places \subseteq {8 - L}
  <2>1. \A k \in 0 .. 8 - L : k \in 0 .. 8 - L - 1 \/ k = 8 - L
    BY <1>1
  <2> QED
    BY <1>4, <1>5, <1>6, <2>1, Zenon
<1> QED
  BY <1>2, <1>7, <1>8, Zenon DEF Places, L

LEMMA TextStep == TextForwarded /\ [Next]_sample => TextForwarded'
<1> SUFFICES ASSUME TextForwarded, [Next]_sample PROVE TextForwarded'
  OBVIOUS
<1>1. CASE ReceiveText
  <2>1. PICK a \in 0 .. 7, b \in 0 .. 7, c \in 0 .. 3, all \in [1 .. 32 -> Bytes] :
          sample' =
            [of |-> "text", sizes |-> [a |-> a, b |-> b, c |-> c], bytes |-> all,
             result |-> SignExtKernel([a |-> a, b |-> b, c |-> c],
                          [w \in 1 .. 4 |-> SubSeq(all, 8 * w - 7, 8 * w)])]
    BY <1>1, TextSample, Zenon
  <2> DEFINE sz == [a |-> a, b |-> b, c |-> c]
             words == [w \in 1 .. 4 |-> SubSeq(all, 8 * w - 7, 8 * w)]
             forward == MatchFound(TextField(sz, words))
             Places == PlacesOf(sz, all)
  <2>2. all \in Seq(Bytes) /\ 32 <= Len(all)
    BY PacketIsSeq, Zenon
  <2>3. sz.a \in 0 .. 7 /\ sz.b \in 0 .. 7 /\ sz.c \in 0 .. 3
    OBVIOUS
  <2>4. FourWords(words) = Piece(all, 1, 28)
    BY <2>2, WordsOfPacket, Zenon
  <2>5. /\ sample'.sizes = sz /\ sample'.bytes = all /\ sample'.result.forward = forward
    <3> HIDE DEF sz, words
    <3>1. SignExtKernel(sz, words).forward = MatchFound(TextField(sz, words))
      BY Zenon DEF SignExtKernel
    <3> QED
      BY <2>1, <3>1, Zenon DEF sz, words
  <2> HIDE DEF sz, words
  <2>6. (forward => Places # {}) /\ (~forward => Places \subseteq {8 - Len(SearchString)})
    BY <2>2, <2>3, <2>4, ForwardedForItsText, Zenon
  <2> HIDE DEF forward
  <2> QED
    BY <2>5, <2>6, Zenon DEF TextForwarded
<1>2. CASE sample' = sample
  BY <1>2 DEF TextForwarded
<1>3. CASE sample'.of # "text"
  BY <1>3 DEF TextForwarded
<1>4. sample' = sample \/ ReceiveText \/ sample'.of # "text"
  BY KindOfSample DEF Next
<1> QED
  BY <1>1, <1>2, <1>3, <1>4

\* A packet is only forwarded for a string in its own text, and always for one
\* there that does not end it: the place not compared is the last one.
THEOREM TextsAreForwarded == Spec => []TextForwarded
<1>1. Init => TextForwarded
  BY DEF Init, TextForwarded
<1> QED
  BY <1>1, TextStep, PTL DEF Spec

-----------------------------------------------------------------------------
(***************************************************************************)
(* The filter.  Where messages start: Offsets is a recursive function.     *)
(***************************************************************************)
Offset(f, m) == Tracked!Offsets(f)[m]

\* A function may be defined by adding up.
AddsUp(g, n, a, d) == g = [m \in 1 .. n + 1 |-> IF m = 1 THEN a ELSE g[m - 1] + d[m - 1]]

LEMMA AddingUp ==
  ASSUME NEW n \in Nat, NEW a \in Int, NEW d, \A k \in 1 .. n : d[k] \in Int
  PROVE  \E g : AddsUp(g, n, a, d)
<1> DEFINE D == 1 .. n + 1
           Rule(g, m) == IF m = 1 THEN a ELSE g[m - 1] + d[m - 1]
           Upto(g, k) == \A m \in D : m <= k => g[m] = Rule(g, m)
           T == {k \in Nat : \E g \in [D -> Int] : Upto(g, k)}
<1>1. 0 \in T
  <2>1. [m \in D |-> 0] \in [D -> Int]
    OBVIOUS
  <2>2. Upto([m \in D |-> 0], 0)
    OBVIOUS
  <2> QED
    BY <2>1, <2>2
<1>2. ASSUME NEW k \in T PROVE k + 1 \in T
  <2>1. PICK g \in [D -> Int] : Upto(g, k)
    OBVIOUS
  <2>2. \A m \in D : Rule(g, m) \in Int
    <3> SUFFICES ASSUME NEW m \in D PROVE Rule(g, m) \in Int
      OBVIOUS
    <3>1. m # 1 => m - 1 \in D /\ m - 1 \in 1 .. n
      OBVIOUS
    <3>2. m # 1 => g[m - 1] \in Int /\ d[m - 1] \in Int
      BY <3>1
    <3> QED
      BY <3>2
  <2> DEFINE h == [m \in D |-> IF m = k + 1 THEN Rule(g, m) ELSE g[m]]
  <2>3. h \in [D -> Int]
    <3> HIDE DEF Rule
    <3> QED
      BY <2>2
  <2>4. Upto(h, k + 1)
    <3> SUFFICES ASSUME NEW m \in D, m <= k + 1 PROVE h[m] = Rule(h, m)
      OBVIOUS
    <3>1. k \in Nat /\ m \in Nat
      OBVIOUS
    <3>2. m # 1 => m - 1 \in D /\ h[m - 1] = g[m - 1]
      BY <3>1
    <3>3. Rule(h, m) = Rule(g, m)
      BY <3>2
    <3>4. h[m] = IF m = k + 1 THEN Rule(g, m) ELSE g[m]
      OBVIOUS
    <3>5. m # k + 1 => g[m] = Rule(g, m)
      BY <2>1, <3>1
    <3> QED
      BY <3>3, <3>4, <3>5
  <2> HIDE DEF h, Upto
  <2> QED
    BY <2>3, <2>4
<1>3. n + 1 \in T
  <2>1. T \subseteq Nat
    BY DEF T
  <2> HIDE DEF T
  <2>2. T = Nat
    BY <1>1, <1>2, <2>1, SetInduction
  <2> QED
    BY <2>2
<1>4. PICK g \in [D -> Int] : \A m \in D : g[m] = Rule(g, m)
  BY <1>3 DEF T
<1>5. g = [m \in D |-> Rule(g, m)]
  BY <1>4
<1> QED
  BY <1>5 DEF AddsUp

LEMMA OffsetsFunction ==
  ASSUME NEW f, f.counts \in Seq(Nat)
  PROVE  Tracked!Offsets(f) =
           [m \in 1 .. Len(f.counts) + 1 |->
              IF m = 1 THEN Tracked!HeaderBytes
              ELSE Tracked!Offsets(f)[m - 1] + Tracked!MessageBytes(f.counts[m - 1])]
<1> DEFINE c == f.counts
           D == 1 .. Len(c) + 1
           Rule(g, m) == IF m = 1 THEN Tracked!HeaderBytes ELSE g[m - 1] + Tracked!MessageBytes(c[m - 1])
           size == [k \in 1 .. Len(c) |-> Tracked!MessageBytes(c[k])]
<1>1. Len(c) \in Nat /\ \A k \in 1 .. Len(c) : size[k] \in Int
  BY DEF Tracked!MessageBytes, Tracked!MsgOverhead, Tracked!EfSize
<1>2. Tracked!HeaderBytes \in Int
  BY DEF Tracked!HeaderBytes
<1>3. PICK g : AddsUp(g, Len(c), Tracked!HeaderBytes, size)
  <2> HIDE DEF c, size
  <2> QED
    BY <1>1, <1>2, AddingUp
<1>4. ASSUME NEW m \in D, m # 1 PROVE size[m - 1] = Tracked!MessageBytes(c[m - 1])
  <2>1. m - 1 \in 1 .. Len(c)
    BY <1>1, <1>4
  <2> QED
    BY <2>1
<1> HIDE DEF size
<1>5. g = [m \in D |-> Rule(g, m)]
  BY <1>3, <1>4 DEF AddsUp
<1> DEFINE offs == CHOOSE o : o = [m \in D |-> Rule(o, m)]
<1>6. offs = [m \in D |-> Rule(offs, m)]
  BY <1>5, Zenon
<1>7. Tracked!Offsets(f) = offs
  BY Zenon DEF Tracked!Offsets, c
<1> HIDE DEF offs
<1> QED
  BY <1>6, <1>7 DEF c

LEMMA OffsetsRule ==
  ASSUME NEW f \in TrackedFrames
  PROVE  /\ f.counts \in Seq(Nat) /\ Len(f.counts) \in Nat \ {0} /\ f.cut \in BOOLEAN
         /\ Offset(f, 1) = 4
         /\ \A m \in 1 .. Len(f.counts) :
              f.counts[m] \in Nat /\ Offset(f, m + 1) = Offset(f, m) + (10 + 6 * f.counts[m])
<1> DEFINE c == f.counts
           o == Tracked!Offsets(f)
<1>1. c \in Seq(Nat) /\ Len(c) \in Nat \ {0} /\ f.cut \in BOOLEAN /\ \A m \in 1 .. Len(c) : c[m] \in Nat
  <2>1. c \in Seq(Nat) /\ c # <<>> /\ f.cut \in BOOLEAN
    BY FramesAssumption
  <2> QED
    BY <2>1
<1>2. o = [m \in 1 .. Len(c) + 1 |-> IF m = 1 THEN Tracked!HeaderBytes
                                     ELSE o[m - 1] + Tracked!MessageBytes(c[m - 1])]
  BY <1>1, OffsetsFunction
<1> HIDE DEF c, o
<1>3. \A m \in 1 .. Len(c) + 1 : o[m] = IF m = 1 THEN 4 ELSE o[m - 1] + (10 + 6 * c[m - 1])
  <2>1. \A n : Tracked!MessageBytes(n) = 10 + 6 * n
    BY DEF Tracked!MessageBytes, Tracked!MsgOverhead, Tracked!EfSize
  <2>2. Tracked!HeaderBytes = 4
    BY DEF Tracked!HeaderBytes
  <2> QED
    BY <1>2, <2>1, <2>2
<1>4. o[1] = 4
  BY <1>1, <1>3
<1>5. ASSUME NEW m \in 1 .. Len(c)
      PROVE  c[m] \in Nat /\ o[m + 1] = o[m] + (10 + 6 * c[m])
  <2>1. m + 1 \in 1 .. Len(c) + 1 /\ m + 1 # 1 /\ (m + 1) - 1 = m
    BY <1>1
  <2> QED
    BY <1>1, <1>3, <2>1
<1> QED
  BY <1>1, <1>4, <1>5 DEF c, o, Offset

LEMMA OffsetsNat ==
  ASSUME NEW f \in TrackedFrames, NEW m \in 1 .. Len(f.counts) + 1
  PROVE  Offset(f, m) \in Nat
<1> DEFINE c == f.counts
           o(k) == Offset(f, k)
           T == {n \in Nat : n + 1 \in 1 .. Len(c) + 1 => o(n + 1) \in Nat}
<1>1. /\ Len(c) \in Nat /\ o(1) = 4
      /\ \A k \in 1 .. Len(c) : c[k] \in Nat /\ o(k + 1) = o(k) + (10 + 6 * c[k])
  BY OffsetsRule
<1> HIDE DEF c, o
<1>2. 0 \in T
  BY <1>1
<1>3. ASSUME NEW n \in T PROVE n + 1 \in T
  <2> SUFFICES ASSUME (n + 1) + 1 \in 1 .. Len(c) + 1 PROVE o((n + 1) + 1) \in Nat
    BY DEF T
  <2>1. n + 1 \in 1 .. Len(c) /\ o(n + 1) \in Nat
    BY <1>1
  <2>2. c[n + 1] \in Nat /\ o((n + 1) + 1) = o(n + 1) + (10 + 6 * c[n + 1])
    BY <1>1, <2>1
  <2> QED
    BY <2>1, <2>2
<1>4. T = Nat
  <2>1. T \subseteq Nat
    BY DEF T
  <2> HIDE DEF T
  <2> QED
    BY <1>2, <1>3, <2>1, SetInduction
<1>5. m - 1 \in Nat /\ (m - 1) + 1 = m /\ m \in 1 .. Len(c) + 1
  BY <1>1 DEF c
<1>6. m - 1 \in T
  <2> HIDE DEF T
  <2> QED
    BY <1>4, <1>5
<1>7. o(m) \in Nat
  BY <1>5, <1>6
<1> QED
  BY <1>7 DEF o

LEMMA OffsetsGrow ==
  ASSUME NEW f \in TrackedFrames, NEW i \in 1 .. Len(f.counts) + 1,
         NEW k \in 1 .. Len(f.counts) + 1, i < k
  PROVE  Offset(f, i) + 10 <= Offset(f, k)
<1> DEFINE c == f.counts
           o(j) == Offset(f, j)
           T == {n \in Nat : i + 1 + n \in 1 .. Len(c) + 1 => o(i) + 10 <= o(i + 1 + n)}
<1>1. /\ Len(c) \in Nat
      /\ \A j \in 1 .. Len(c) : c[j] \in Nat /\ o(j + 1) = o(j) + (10 + 6 * c[j])
      /\ \A j \in 1 .. Len(c) + 1 : o(j) \in Nat
      /\ i \in 1 .. Len(c) + 1 /\ k \in 1 .. Len(c) + 1
  BY OffsetsRule, OffsetsNat
<1> HIDE DEF c, o
<1>2. 0 \in T
  <2> SUFFICES ASSUME i + 1 + 0 \in 1 .. Len(c) + 1 PROVE o(i) + 10 <= o(i + 1 + 0)
    BY DEF T
  <2>1. i \in 1 .. Len(c) /\ i + 1 + 0 = i + 1
    BY <1>1
  <2>2. c[i] \in Nat /\ o(i + 1) = o(i) + (10 + 6 * c[i]) /\ o(i) \in Nat
    BY <1>1, <2>1
  <2>3. o(i) + 10 <= o(i + 1)
    BY <2>2
  <2> QED
    BY <2>1, <2>3
<1>3. ASSUME NEW n \in T PROVE n + 1 \in T
  <2> SUFFICES ASSUME i + 1 + (n + 1) \in 1 .. Len(c) + 1
               PROVE  o(i) + 10 <= o(i + 1 + (n + 1))
    BY DEF T
  <2> DEFINE j == i + 1 + n
  <2>1. j \in 1 .. Len(c) /\ j + 1 = i + 1 + (n + 1)
    BY <1>1
  <2>2. o(i) + 10 <= o(j)
    BY <1>1, <2>1
  <2> HIDE DEF j
  <2>3. c[j] \in Nat /\ o(j + 1) = o(j) + (10 + 6 * c[j]) /\ o(j) \in Nat /\ o(i) \in Nat
    BY <1>1, <2>1, SMTT(40)
  <2>4. o(i) + 10 <= o(j + 1)
    BY <2>2, <2>3
  <2> QED
    BY <2>1, <2>4
<1>4. T = Nat
  <2>1. T \subseteq Nat
    BY DEF T
  <2> HIDE DEF T
  <2> QED
    BY <1>2, <1>3, <2>1, SetInduction
<1>5. k - (i + 1) \in Nat /\ i + 1 + (k - (i + 1)) = k
  BY <1>1
<1>6. o(i) + 10 <= o(k)
  BY <1>1, <1>4, <1>5
<1> QED
  BY <1>6 DEF o

LEMMA DivWord ==
  ASSUME NEW a \in Int
  PROVE  a \div 8 \in Int /\ a % 8 \in 0 .. 7 /\ a = 8 * (a \div 8) + (a % 8)
OBVIOUS

\* The byte after message m, as far as it is in the frame.
MessageEnd(f, m) ==
  IF Offset(f, m + 1) < Tracked!FrameBytes(f) THEN Offset(f, m + 1) ELSE Tracked!FrameBytes(f)

\* A message lies in the frame, begins in its first word and ends in its last.
LEMMA MessageLies ==
  ASSUME NEW f \in TrackedFrames, NEW m \in 1 .. Len(f.counts)
  PROVE  /\ Offset(f, m) \in Nat /\ MessageEnd(f, m) \in Nat /\ Tracked!FrameBytes(f) \in Nat
         /\ Offset(f, m) + 10 <= MessageEnd(f, m) /\ MessageEnd(f, m) <= Tracked!FrameBytes(f)
         /\ Tracked!StartWord(f, m) \in Nat /\ Tracked!StartByte(f, m) \in 0 .. 7
         /\ Tracked!EndWord(f, m) \in Nat /\ Tracked!StartWord(f, m) < Tracked!EndWord(f, m)
         /\ Offset(f, m) = 8 * Tracked!StartWord(f, m) + Tracked!StartByte(f, m)
         /\ MessageEnd(f, m) <= 8 * Tracked!EndWord(f, m) + 8
<1> DEFINE n == Len(f.counts)
           o(k) == Offset(f, k)
           F == Tracked!FrameBytes(f)
           e == MessageEnd(f, m)
<1>1. /\ n \in Nat \ {0} /\ f.cut \in BOOLEAN
      /\ \A k \in 1 .. n + 1 : o(k) \in Nat
      /\ \A i, k \in 1 .. n + 1 : i < k => o(i) + 10 <= o(k)
  BY OffsetsRule, OffsetsNat, OffsetsGrow
<1>2. F = IF f.cut THEN o(n) + 10 ELSE o(n + 1)
  BY DEF Tracked!FrameBytes, Tracked!MsgOverhead, Offset
<1>3. e = IF o(m + 1) < F THEN o(m + 1) ELSE F
  BY DEF MessageEnd
<1>4. /\ Tracked!StartWord(f, m) = o(m) \div 8 /\ Tracked!StartByte(f, m) = o(m) % 8
      /\ Tracked!EndWord(f, m) = IF (o(m + 1) - 1) \div 8 < (F - 1) \div 8
                                 THEN (o(m + 1) - 1) \div 8 ELSE (F - 1) \div 8
  BY DEF Tracked!StartWord, Tracked!StartByte, Tracked!EndWord, Tracked!DeclaredEndWord,
         Tracked!LastWord, Tracked!WordBytes, Offset
<1>5. m \in 1 .. n
  OBVIOUS
<1> HIDE DEF n, o, F, e
<1>6. m \in 1 .. n + 1 /\ m + 1 \in 1 .. n + 1 /\ n \in 1 .. n + 1 /\ n + 1 \in 1 .. n + 1
  BY <1>1, <1>5
<1>7. F \in Nat /\ e \in Nat /\ o(m) + 10 <= e /\ e <= F /\ o(m) \in Nat /\ o(m + 1) \in Nat
  <2>1. o(m) + 10 <= o(m + 1) /\ o(m) \in Nat /\ o(m + 1) \in Nat /\ o(n) \in Nat /\ o(n + 1) \in Nat
    BY <1>1, <1>6
  <2>2. o(m) + 10 <= F
    <3>1. CASE m = n
      BY <1>2, <2>1, <3>1
    <3>2. CASE m # n
      <4>1. m < n /\ m < n + 1
        BY <1>1, <1>5, <3>2
      <4>2. o(m) + 10 <= o(n) /\ o(m) + 10 <= o(n + 1)
        BY <1>1, <1>6, <4>1
      <4> QED
        BY <1>2, <2>1, <4>2
    <3> QED
      BY <3>1, <3>2
  <2>3. F \in Nat
    BY <1>2, <2>1
  <2> QED
    BY <1>3, <2>1, <2>2, <2>3
<1>8. PICK q \in Int, r \in 0 .. 7 : o(m) = 8 * q + r /\ o(m) \div 8 = q /\ o(m) % 8 = r
  <2>1. o(m) \in Int
    BY <1>7
  <2> QED
    BY <2>1, DivWord
<1>9. PICK v \in Int, x \in 0 .. 7 : o(m + 1) - 1 = 8 * v + x /\ (o(m + 1) - 1) \div 8 = v
  <2>1. o(m + 1) - 1 \in Int
    BY <1>7
  <2> QED
    BY <2>1, DivWord
<1>10. PICK w \in Int, y \in 0 .. 7 : F - 1 = 8 * w + y /\ (F - 1) \div 8 = w
  <2>1. F - 1 \in Int
    BY <1>7
  <2> QED
    BY <2>1, DivWord
<1>11. PICK z \in Int : z = IF v < w THEN v ELSE w
  BY <1>9, <1>10
<1>12. 0 <= q /\ q < z /\ e <= 8 * z + 8
  BY <1>3, <1>7, <1>8, <1>9, <1>10, <1>11, SMTT(40)
<1>13. Tracked!StartWord(f, m) = q /\ Tracked!StartByte(f, m) = r /\ Tracked!EndWord(f, m) = z
  BY <1>4, <1>8, <1>9, <1>10, <1>11
<1>14. q \in Nat /\ r \in 0 .. 7 /\ z \in Nat /\ q < z /\ o(m) = 8 * q + r /\ e <= 8 * z + 8
  BY <1>8, <1>11, <1>12
<1> QED
  BY <1>7, <1>13, <1>14 DEF o, F, e

-----------------------------------------------------------------------------
(***************************************************************************)
(* Where the parts of a sequence end.                                      *)
(***************************************************************************)
LEMMA EndsExist ==
  ASSUME NEW T, NEW s \in Seq(Seq(T))
  PROVE  \E P : EndsOf(P, s)
<1> DEFINE n == Len(s)
           d == [k \in 1 .. n |-> Len(s[k])]
<1>1. n \in Nat /\ \A k \in 1 .. n : d[k] \in Nat /\ d[k] = Len(s[k])
  OBVIOUS
<1> HIDE DEF n, d
<1>2. PICK g : AddsUp(g, n, 0, d)
  <2>1. n \in Nat /\ 0 \in Int /\ \A k \in 1 .. n : d[k] \in Int
    BY <1>1
  <2> QED
    BY <2>1, AddingUp
<1>3. \A m \in 1 .. n + 1 : g[m] = IF m = 1 THEN 0 ELSE g[m - 1] + d[m - 1]
  BY <1>2 DEF AddsUp
<1> DEFINE U == {k \in Nat : k + 1 \in 1 .. n + 1 => g[k + 1] \in Nat}
<1>4. 0 \in U
  BY <1>1, <1>3
<1>5. ASSUME NEW k \in U PROVE k + 1 \in U
  <2> SUFFICES ASSUME (k + 1) + 1 \in 1 .. n + 1 PROVE g[(k + 1) + 1] \in Nat
    OBVIOUS
  <2>1. k + 1 \in 1 .. n + 1 /\ k + 1 \in 1 .. n /\ (k + 1) + 1 # 1 /\ ((k + 1) + 1) - 1 = k + 1
    BY <1>1
  <2>2. g[k + 1] \in Nat /\ d[k + 1] \in Nat /\ g[(k + 1) + 1] = g[k + 1] + d[k + 1]
    BY <1>1, <1>3, <2>1
  <2> QED
    BY <2>2
<1>6. U = Nat
  <2>1. U \subseteq Nat
    OBVIOUS
  <2> HIDE DEF U
  <2> QED
    BY <1>4, <1>5, <2>1, SetInduction
<1> DEFINE P == [i \in 0 .. n |-> g[i + 1]]
<1>7. \A i \in 0 .. n : i + 1 \in 1 .. n + 1 /\ i \in Nat
  BY <1>1
<1>8. P \in [0 .. n -> Nat]
  BY <1>6, <1>7
<1>9. P[0] = 0
  BY <1>1, <1>3
<1>10. ASSUME NEW i \in 1 .. n PROVE P[i] = P[i - 1] + Len(s[i])
  <2>1. i \in 0 .. n /\ i - 1 \in 0 .. n /\ (i - 1) + 1 = i /\ i + 1 \in 1 .. n + 1 /\ i + 1 # 1 /\ (i + 1) - 1 = i
    BY <1>1
  <2>2. P[i] = g[i + 1] /\ P[i - 1] = g[i]
    BY <2>1
  <2>3. g[i + 1] = g[i] + d[i]
    BY <1>3, <2>1
  <2> QED
    BY <1>1, <2>2, <2>3
<1> HIDE DEF P
<1>11. EndsOf(P, s)
  BY <1>8, <1>9, <1>10 DEF EndsOf, n
<1> QED
  BY <1>11

\* A count that goes up by d with every place.
LEMMA CountAlong ==
  ASSUME NEW Q, NEW a \in Nat, NEW b \in Nat, a <= b, NEW d \in {0, 1}, Q[a] \in Nat,
         \A t \in a + 1 .. b : Q[t] = Q[t - 1] + d
  PROVE  \A t \in a .. b : Q[t] = Q[a] + (IF d = 1 THEN t - a ELSE 0)
<1> DEFINE Good(k) == a + k <= b => Q[a + k] = Q[a] + (IF d = 1 THEN k ELSE 0)
           U == {k \in Nat : Good(k)}
<1>1. 0 \in U
  <2>1. a + 0 = a
    OBVIOUS
  <2> QED
    BY <2>1
<1>2. ASSUME NEW k \in U PROVE k + 1 \in U
  <2> SUFFICES ASSUME a + (k + 1) <= b PROVE Q[a + (k + 1)] = Q[a] + (IF d = 1 THEN k + 1 ELSE 0)
    OBVIOUS
  <2>1. a + (k + 1) \in a + 1 .. b /\ (a + (k + 1)) - 1 = a + k /\ a + k <= b /\ k \in Nat
    OBVIOUS
  <2>2. Q[a + (k + 1)] = Q[a + k] + d
    BY <2>1
  <2>3. Q[a + k] = Q[a] + (IF d = 1 THEN k ELSE 0)
    BY <2>1
  <2> QED
    BY <2>1, <2>2, <2>3
<1>3. U = Nat
  <2>1. U \subseteq Nat
    OBVIOUS
  <2> HIDE DEF U
  <2> QED
    BY <1>1, <1>2, <2>1, SetInduction
<1>4. ASSUME NEW t \in a .. b PROVE Q[t] = Q[a] + (IF d = 1 THEN t - a ELSE 0)
  <2>1. t - a \in Nat /\ a + (t - a) = t /\ t <= b
    OBVIOUS
  <2>2. Good(t - a)
    <3> HIDE DEF Good
    <3> QED
      BY <1>3, <2>1
  <2> QED
    BY <2>1, <2>2
<1> QED
  BY <1>4

\* The filter's sequences are put together in the same way.
LEMMA SameSequences ==
  /\ \A s : Tracked!FlattenSeq(s) = FlattenSeq(s)
  /\ \A s, t : Tracked!IsPrefix(s, t) <=> (Len(s) <= Len(t) /\ SubSeq(s, 1, Len(s)) = SubSeq(t, 1, Len(s)))
  /\ \A s : Tracked!Last(s) = s[Len(s)]
<1>1. ASSUME NEW s PROVE Tracked!FlattenSeq(s) = FlattenSeq(s)
  BY Zenon DEF Tracked!FlattenSeq, FlattenSeq
<1>2. \A s, t : Tracked!IsPrefix(s, t) <=> (Len(s) <= Len(t) /\ SubSeq(s, 1, Len(s)) = SubSeq(t, 1, Len(s)))
  BY Zenon DEF Tracked!IsPrefix
<1>3. \A s : Tracked!Last(s) = s[Len(s)]
  BY Zenon DEF Tracked!Last
<1> QED
  BY <1>1, <1>2, <1>3

-----------------------------------------------------------------------------
(***************************************************************************)
(* The filter's input: which cycles carry the words of a message.  The     *)
(* other cycles have no input, or padding.                                 *)
(***************************************************************************)
Span(f, m) == Tracked!EndWord(f, m) - Tracked!StartWord(f, m) + 1

Cycles(f) ==
  {Tracked!InputWord(f, m, w) : m \in 1 .. Len(f.counts), w \in Int}
    \cup {Tracked!PaddingWord(f, m) : m \in 1 .. Len(f.counts)}
    \cup {Tracked!NoInput(mark, a) : mark \in BOOLEAN, a \in Nat}

Silent(c) == (~c.valid \/ c.padding) /\ ~(c.valid /\ c.som)

Idles(f, idle) ==
  idle \in Seq(Cycles(f)) /\ \A i \in 1 .. Len(idle) : ~idle[i].valid

LEMMA Joined ==
  ASSUME NEW T, NEW s \in Seq(T), NEW t \in Seq(T)
  PROVE  /\ s \o t \in Seq(T) /\ Len(s \o t) = Len(s) + Len(t)
         /\ \A k \in 1 .. Len(s) : (s \o t)[k] = s[k]
         /\ \A k \in Len(s) + 1 .. Len(s) + Len(t) : (s \o t)[k] = t[k - Len(s)]
OBVIOUS

LEMMA CyclesOf ==
  ASSUME NEW f, NEW m \in 1 .. Len(f.counts)
  PROVE  /\ \A w \in Int : Tracked!InputWord(f, m, w) \in Cycles(f)
         /\ Tracked!PaddingWord(f, m) \in Cycles(f)
         /\ Silent(Tracked!PaddingWord(f, m))
<1>1. \A w \in Int : Tracked!InputWord(f, m, w) \in Cycles(f)
  BY DEF Cycles
<1>2. Tracked!PaddingWord(f, m) \in Cycles(f)
  BY DEF Cycles
<1>3. Silent(Tracked!PaddingWord(f, m))
  BY DEF Silent, Tracked!PaddingWord
<1> QED
  BY <1>1, <1>2, <1>3

LEMMA NoInputOf ==
  ASSUME NEW f
  PROVE  \A mark \in BOOLEAN, a \in Nat : Tracked!NoInput(mark, a) \in Cycles(f)
BY DEF Cycles

LEMMA MessageCycles ==
  ASSUME NEW f \in TrackedFrames, NEW m \in 1 .. Len(f.counts), NEW idle, Idles(f, idle)
  PROVE  /\ Tracked!MessageInput(f, m, idle) \in Seq(Cycles(f))
         /\ Len(idle) + Span(f, m) < Len(Tracked!MessageInput(f, m, idle))
         /\ \A w \in 1 .. Span(f, m) :
              Tracked!MessageInput(f, m, idle)[Len(idle) + w]
                = Tracked!InputWord(f, m, Tracked!StartWord(f, m) + w - 1)
         /\ \A k \in 1 .. Len(Tracked!MessageInput(f, m, idle)) :
              k \notin Len(idle) + 1 .. Len(idle) + Span(f, m) =>
                Silent(Tracked!MessageInput(f, m, idle)[k])
<1> DEFINE a == Tracked!StartWord(f, m)
           E == Span(f, m)
           C == Cycles(f)
           Word(i) == Tracked!InputWord(f, m, a + i - 1)
           words == [i \in 1 .. E |-> Word(i)]
           again == IF Tracked!Last(words).eom THEN idle ELSE <<>>
           pad == Tracked!PaddingWord(f, m)
           x == idle \o words
           y == x \o again
           z == y \o <<pad>>
<1>1. Tracked!MessageInput(f, m, idle) = z
  BY Zenon DEF Tracked!MessageInput, Span
<1>2. a \in Nat /\ E \in Nat \ {0}
  BY MessageLies DEF Span
<1>3. /\ \A w \in Int : Tracked!InputWord(f, m, w) \in C
      /\ pad \in C /\ Silent(pad)
  BY CyclesOf
<1>4. idle \in Seq(C) /\ \A i \in 1 .. Len(idle) : Silent(idle[i])
  BY DEF Idles, Silent
<1> HIDE DEF a, E, C, pad
<1>5. words \in Seq(C) /\ Len(words) = E /\ \A i \in 1 .. E : words[i] = Word(i)
  <2>1. \A i \in 1 .. E : a + i - 1 \in Int
    BY <1>2
  <2>2. \A i \in 1 .. E : Word(i) \in C
    BY <1>3, <2>1
  <2> HIDE DEF Word
  <2>3. words \in [1 .. E -> C]
    BY <2>2
  <2> QED
    BY <1>2, <2>3
<1> HIDE DEF words
<1>6. again \in Seq(C) /\ \A i \in 1 .. Len(again) : Silent(again[i])
  <2>1. <<>> \in Seq(C) /\ \A i \in 1 .. Len(<<>>) : Silent(<<>>[i])
    OBVIOUS
  <2> QED
    BY <1>4, <2>1
<1> HIDE DEF again
<1>7. <<pad>> \in Seq(C) /\ Len(<<pad>>) = 1 /\ <<pad>>[1] = pad
  BY <1>3
<1> DEFINE L == Len(idle)
           A == Len(again)
<1>8. L \in Nat /\ A \in Nat
  BY <1>4, <1>6
<1>9. /\ x \in Seq(C) /\ Len(x) = L + E
      /\ \A k \in 1 .. L : x[k] = idle[k]
      /\ \A k \in L + 1 .. L + E : x[k] = words[k - L]
  <2>1. /\ x \in Seq(C) /\ Len(x) = Len(idle) + Len(words)
        /\ \A k \in 1 .. Len(idle) : x[k] = idle[k]
        /\ \A k \in Len(idle) + 1 .. Len(idle) + Len(words) : x[k] = words[k - Len(idle)]
    BY <1>4, <1>5, Joined
  <2> HIDE DEF x
  <2> QED
    BY <1>5, <2>1
<1> HIDE DEF x
<1>10. /\ y \in Seq(C) /\ Len(y) = L + E + A
       /\ \A k \in 1 .. L + E : y[k] = x[k]
       /\ \A k \in L + E + 1 .. L + E + A : y[k] = again[k - (L + E)]
  <2>1. /\ y \in Seq(C) /\ Len(y) = Len(x) + Len(again)
        /\ \A k \in 1 .. Len(x) : y[k] = x[k]
        /\ \A k \in Len(x) + 1 .. Len(x) + Len(again) : y[k] = again[k - Len(x)]
    BY <1>6, <1>9, Joined
  <2> HIDE DEF y
  <2> QED
    BY <1>9, <2>1
<1> HIDE DEF y
<1>11. /\ z \in Seq(C) /\ Len(z) = L + E + A + 1
       /\ \A k \in 1 .. L + E + A : z[k] = y[k]
       /\ z[L + E + A + 1] = pad
  <2>1. /\ z \in Seq(C) /\ Len(z) = Len(y) + Len(<<pad>>)
        /\ \A k \in 1 .. Len(y) : z[k] = y[k]
        /\ \A k \in Len(y) + 1 .. Len(y) + Len(<<pad>>) : z[k] = <<pad>>[k - Len(y)]
    BY <1>7, <1>10, Joined
  <2> HIDE DEF z
  <2>2. PICK l \in Nat : l = L + E + A
    BY <1>2, <1>8
  <2>3. Len(y) = l /\ l + 1 \in l + 1 .. l + 1 /\ (l + 1) - l = 1
    BY <1>10, <2>2
  <2>4. z[l + 1] = pad
    BY <1>7, <2>1, <2>3
  <2> QED
    BY <1>7, <2>1, <2>2, <2>3, <2>4
<1> HIDE DEF z, L, A
<1>12. ASSUME NEW w \in 1 .. E PROVE z[L + w] = Word(w)
  <2>1. L + w \in L + 1 .. L + E /\ L + w \in 1 .. L + E /\ L + w \in 1 .. L + E + A /\ (L + w) - L = w
    BY <1>2, <1>8
  <2> QED
    BY <1>5, <1>9, <1>10, <1>11, <2>1
<1>13. ASSUME NEW k \in 1 .. Len(z), k \notin L + 1 .. L + E PROVE Silent(z[k])
  <2>1. \/ k \in 1 .. L
        \/ k \in L + E + 1 .. L + E + A
        \/ k = L + E + A + 1
    BY <1>2, <1>8, <1>11, <1>13
  <2>2. CASE k \in 1 .. L
    <3>1. k \in 1 .. L + E /\ k \in 1 .. L + E + A
      BY <1>2, <1>8, <2>2
    <3>2. z[k] = idle[k]
      BY <1>9, <1>10, <1>11, <2>2, <3>1
    <3> QED
      BY <1>4, <2>2, <3>2 DEF L
  <2>3. CASE k \in L + E + 1 .. L + E + A
    <3>1. k \in 1 .. L + E + A /\ k - (L + E) \in 1 .. A
      BY <1>2, <1>8, <2>3
    <3>2. z[k] = again[k - (L + E)]
      BY <1>10, <1>11, <2>3, <3>1
    <3> QED
      BY <1>6, <3>1, <3>2 DEF A
  <2>4. CASE k = L + E + A + 1
    BY <1>3, <1>11, <2>4
  <2> QED
    BY <2>1, <2>2, <2>3, <2>4
<1>14. z \in Seq(C) /\ L + E < Len(z)
  BY <1>2, <1>8, <1>11
<1> QED
  BY <1>1, <1>12, <1>13, <1>14 DEF E, C, L, a

\* The words of message m are in the cycles behind P[m - 1] and the idle ones;
\* its part of the input ends with cycle P[m].
Carried(f, input, I, P) ==
  /\ I \in Nat /\ P \in [0 .. Len(f.counts) -> Nat] /\ P[0] = 0
  /\ input \in Seq(Cycles(f)) /\ Len(input) = P[Len(f.counts)] + 1
  /\ \A m \in 1 .. Len(f.counts) :
       /\ P[m - 1] + I + Span(f, m) < P[m] /\ P[m] <= P[Len(f.counts)]
       /\ \A w \in 1 .. Span(f, m) :
            input[P[m - 1] + I + w] = Tracked!InputWord(f, m, Tracked!StartWord(f, m) + w - 1)
       /\ \A t \in P[m - 1] + 1 .. P[m] :
            t \notin P[m - 1] + I + 1 .. P[m - 1] + I + Span(f, m) => Silent(input[t])

LEMMA FrameCycles ==
  ASSUME NEW f \in TrackedFrames, NEW idle, Idles(f, idle)
  PROVE  \E P : Carried(f, Tracked!FrameInput(f, idle), Len(idle), P)
<1> DEFINE n == Len(f.counts)
           C == Cycles(f)
           Part(m) == Tracked!MessageInput(f, m, idle)
           s == [m \in 1 .. n |-> Part(m)]
           x == FlattenSeq(s)
           last == Tracked!NoInput(FALSE, 0)
           input == x \o <<last>>
           I == Len(idle)
<1>1. n \in Nat \ {0} /\ DOMAIN f.counts = 1 .. n
  BY OffsetsRule
<1>2. Tracked!FrameInput(f, idle) = input
  BY <1>1, SameSequences, Zenon DEF Tracked!FrameInput
<1>3. I \in Nat
  BY DEF Idles
<1>4. \A m \in 1 .. n :
        /\ Part(m) \in Seq(C) /\ I + Span(f, m) < Len(Part(m))
        /\ \A w \in 1 .. Span(f, m) :
             Part(m)[I + w] = Tracked!InputWord(f, m, Tracked!StartWord(f, m) + w - 1)
        /\ \A k \in 1 .. Len(Part(m)) :
             k \notin I + 1 .. I + Span(f, m) => Silent(Part(m)[k])
  BY MessageCycles
<1>5. \A m \in 1 .. n : Span(f, m) \in Nat
  BY MessageLies DEF Span
<1> HIDE DEF n, C, I, Part
<1>6. s \in Seq(Seq(C)) /\ Len(s) = n /\ \A m \in 1 .. n : s[m] = Part(m)
  <2>1. s \in [1 .. n -> Seq(C)]
    BY <1>4
  <2> QED
    BY <1>1, <2>1
<1> HIDE DEF s
<1>7. PICK P : EndsOf(P, s)
  BY <1>6, EndsExist
<1>8. /\ x \in Seq(C) /\ Len(x) = P[n]
      /\ \A m \in 1 .. n : \A k \in 1 .. Len(Part(m)) : x[P[m - 1] + k] = Part(m)[k] /\ P[m - 1] + k <= P[n]
  <2>1. /\ x \in Seq(C) /\ Len(x) = P[Len(s)]
        /\ \A m \in 1 .. Len(s) : \A k \in 1 .. Len(s[m]) : x[P[m - 1] + k] = s[m][k] /\ P[m - 1] + k <= P[Len(s)]
    BY <1>6, <1>7, FlattenPlaces
  <2> HIDE DEF x
  <2> QED
    BY <1>6, <2>1
<1> HIDE DEF x
<1>9. /\ P \in [0 .. n -> Nat] /\ P[0] = 0
      /\ \A m \in 1 .. n : P[m] = P[m - 1] + Len(Part(m)) /\ P[m - 1] \in Nat /\ P[m] \in Nat
  <2>1. /\ P \in [0 .. n -> Nat] /\ P[0] = 0
        /\ \A m \in 1 .. n : P[m] = P[m - 1] + Len(Part(m))
    BY <1>6, <1>7 DEF EndsOf
  <2>2. \A m \in 1 .. n : m \in 0 .. n /\ m - 1 \in 0 .. n
    BY <1>1
  <2> QED
    BY <2>1, <2>2
<1>10. last \in C
  <2>1. FALSE \in BOOLEAN /\ 0 \in Nat
    OBVIOUS
  <2> QED
    BY <2>1, NoInputOf DEF C
<1> HIDE DEF last
<1>11. /\ input \in Seq(C) /\ Len(input) = P[n] + 1 /\ P[n] \in Nat
       /\ \A k \in 1 .. P[n] : input[k] = x[k]
  <2>1. <<last>> \in Seq(C) /\ Len(<<last>>) = 1
    BY <1>10
  <2>2. P[n] \in Nat
    BY <1>1, <1>9
  <2> QED
    BY <1>8, <2>1, <2>2, Joined
<1> HIDE DEF input
<1>12. ASSUME NEW m \in 1 .. n
       PROVE  /\ P[m - 1] + I + Span(f, m) < P[m] /\ P[m] <= P[n]
              /\ \A w \in 1 .. Span(f, m) :
                   input[P[m - 1] + I + w] = Tracked!InputWord(f, m, Tracked!StartWord(f, m) + w - 1)
              /\ \A t \in P[m - 1] + 1 .. P[m] :
                   t \notin P[m - 1] + I + 1 .. P[m - 1] + I + Span(f, m) => Silent(input[t])
  <2>1. PICK p \in Nat, l \in Nat, E \in Nat : p = P[m - 1] /\ l = Len(Part(m)) /\ E = Span(f, m)
    <3>1. Len(Part(m)) \in Nat
      BY <1>4
    <3> QED
      BY <1>5, <1>9, <3>1
  <2>2. P[m] = p + l /\ I + E < l
    BY <1>4, <1>9, <2>1
  <2>3. \A k \in 1 .. l : x[p + k] = Part(m)[k] /\ p + k <= P[n]
    BY <1>8, <2>1
  <2>4. \A k \in 1 .. l : input[p + k] = Part(m)[k]
    <3> TAKE k \in 1 .. l
    <3>1. p + k \in 1 .. P[n]
      BY <1>11, <2>1, <2>3
    <3> QED
      BY <1>11, <2>3, <3>1
  <2>5. P[m] <= P[n] /\ p + I + E < P[m]
    <3>1. l \in 1 .. l
      BY <1>3, <2>1, <2>2
    <3> QED
      BY <1>3, <2>1, <2>2, <2>3, <3>1
  <2>6. ASSUME NEW w \in 1 .. E
        PROVE  input[p + I + w] = Tracked!InputWord(f, m, Tracked!StartWord(f, m) + w - 1)
    <3>1. I + w \in 1 .. l /\ p + (I + w) = p + I + w
      BY <1>3, <2>1, <2>2
    <3>2. Part(m)[I + w] = Tracked!InputWord(f, m, Tracked!StartWord(f, m) + w - 1)
      BY <1>4, <2>1
    <3>3. input[p + (I + w)] = Part(m)[I + w]
      BY <2>4, <3>1
    <3> QED
      BY <3>1, <3>2, <3>3
  <2>7. ASSUME NEW t \in p + 1 .. P[m], t \notin p + I + 1 .. p + I + E PROVE Silent(input[t])
    <3>1. t - p \in 1 .. l /\ p + (t - p) = t /\ t - p \notin I + 1 .. I + E
      BY <1>3, <2>1, <2>2, <2>7, SMTT(40)
    <3>2. Silent(Part(m)[t - p])
      BY <1>4, <2>1, <3>1
    <3>3. input[p + (t - p)] = Part(m)[t - p]
      BY <2>4, <3>1
    <3> QED
      BY <3>1, <3>2, <3>3
  <2> QED
    BY <2>1, <2>5, <2>6, <2>7
<1>13. Carried(f, input, I, P)
  <2>1. I \in Nat /\ P \in [0 .. Len(f.counts) -> Nat] /\ P[0] = 0
    BY <1>3, <1>9 DEF n
  <2>2. input \in Seq(Cycles(f)) /\ Len(input) = P[Len(f.counts)] + 1
    BY <1>11 DEF n, C
  <2> QED
    BY <1>12, <2>1, <2>2 DEF Carried, n
<1> QED
  BY <1>2, <1>13 DEF I

-----------------------------------------------------------------------------
(***************************************************************************)
(* The filter on the words of one message.  First is the cycle before the  *)
(* message's first word.                                                   *)
(***************************************************************************)
First(I, P, m) == P[m - 1] + I

LEMMA DataOfWord ==
  ASSUME NEW f, NEW m, NEW w
  PROVE  Tracked!InputWord(f, m, w).data = [b \in 1 .. 8 |-> Tracked!FrameByte(f, w * 8 + b - 1)]
  BY Zenon DEF Tracked!InputWord, Tracked!Carries, Tracked!WordBytes

LEMMA MarksOfWord ==
  ASSUME NEW f, NEW m, NEW w
  PROVE  LET c == Tracked!InputWord(f, m, w)
         IN /\ c.valid = TRUE /\ c.padding = FALSE
            /\ c.som = (w = Tracked!StartWord(f, m))
            /\ c.eom = (w = Tracked!DeclaredEndWord(f, m))
  BY Zenon DEF Tracked!InputWord

LEMMA FirstWordIs ==
  ASSUME NEW f, NEW m
  PROVE  LET c == Tracked!InputWord(f, m, Tracked!StartWord(f, m))
         IN /\ c.valid = TRUE /\ c.som = TRUE
            /\ c.alignment = Tracked!StartByte(f, m)
  BY DEF Tracked!InputWord

LEMMA LaterWordIs ==
  ASSUME NEW f, NEW m, NEW w, w # Tracked!StartWord(f, m)
  PROVE  Tracked!InputWord(f, m, w).som = FALSE
  BY DEF Tracked!InputWord

\* Where in the frame byte b of the w-th word of a message is, when the message
\* starts with byte r of word a.
LEMMA PlaceOfByte ==
  ASSUME NEW a \in Nat, NEW r \in 0 .. 7, NEW w \in Nat \ {0}, NEW b \in 1 .. 8,
         NEW o \in Nat, o = 8 * a + r
  PROVE  /\ o + 8 * (w - 1) + b - 1 \in Nat
         /\ o + 8 * (w - 1) + b - 1 = (a + w - 1) * 8 + (b + r) - 1
         /\ o + 8 * (w - 1) + b - 1 = (a + w) * 8 + (b - (8 - r)) - 1
         /\ \A E \in Nat, e \in Nat :
              e <= 8 * (a + E) /\ o + 8 * (w - 1) + b - 1 < e /\ b + r > 8 => w < E
OBVIOUS

LEMMA WordsCarried ==
  ASSUME NEW f \in TrackedFrames, NEW input, NEW I, NEW P, Carried(f, input, I, P),
         NEW m \in 1 .. Len(f.counts)
  PROVE  /\ First(I, P, m) \in Nat /\ Span(f, m) \in Nat /\ Span(f, m) >= 2
         /\ P[m - 1] \in Nat /\ P[m] \in Nat /\ I \in Nat
         /\ First(I, P, m) + Span(f, m) < P[m] /\ P[m] < Len(input)
         /\ \A w \in 1 .. Span(f, m) :
              input[First(I, P, m) + w] = Tracked!InputWord(f, m, Tracked!StartWord(f, m) + w - 1)
         /\ Silent(input[First(I, P, m) + Span(f, m) + 1])
<1> DEFINE n == Len(f.counts)
           E == Span(f, m)
<1>1. n \in Nat \ {0} /\ m \in 1 .. n
  BY OffsetsRule
<1>2. E \in Nat /\ E >= 2
  BY MessageLies DEF Span
<1>3. I \in Nat /\ P \in [0 .. n -> Nat] /\ Len(input) = P[n] + 1
  BY DEF Carried
<1>4. /\ P[m - 1] + I + E < P[m] /\ P[m] <= P[n]
      /\ \A w \in 1 .. E :
           input[P[m - 1] + I + w] = Tracked!InputWord(f, m, Tracked!StartWord(f, m) + w - 1)
      /\ \A t \in P[m - 1] + 1 .. P[m] :
           t \notin P[m - 1] + I + 1 .. P[m - 1] + I + E => Silent(input[t])
  BY DEF Carried
<1> HIDE DEF n, E
<1>5. P[m - 1] \in Nat /\ P[m] \in Nat /\ P[n] \in Nat
  <2>1. m - 1 \in 0 .. n /\ m \in 0 .. n /\ n \in 0 .. n
    BY <1>1
  <2> QED
    BY <1>3, <2>1
<1>6. Silent(input[P[m - 1] + I + E + 1])
  <2>1. /\ P[m - 1] + I + E + 1 \in P[m - 1] + 1 .. P[m]
        /\ P[m - 1] + I + E + 1 \notin P[m - 1] + I + 1 .. P[m - 1] + I + E
    BY <1>2, <1>3, <1>4, <1>5, SMTT(40)
  <2> QED
    BY <1>4, <2>1
<1>7. P[m - 1] + I \in Nat /\ P[m] < Len(input)
  BY <1>3, <1>4, <1>5
<1> QED
  BY <1>2, <1>3, <1>4, <1>5, <1>6, <1>7 DEF First, E

\* In all these cycles, and in the one behind them, the message's start mark
\* is the last one seen.
LEMMA HeldStart ==
  ASSUME NEW f \in TrackedFrames, NEW input, NEW I, NEW P, Carried(f, input, I, P),
         NEW m \in 1 .. Len(f.counts), NEW w \in 1 .. Span(f, m) + 1
  PROVE  /\ Tracked!Hold(input, First(I, P, m) + w) = {First(I, P, m) + 1}
         /\ Tracked!Alignment(input, First(I, P, m) + w) = Tracked!StartByte(f, m)
<1> DEFINE F == First(I, P, m)
           E == Span(f, m)
           a == Tracked!StartWord(f, m)
           t == F + w
<1>1. /\ F \in Nat /\ E \in Nat /\ E >= 2
      /\ \A k \in 1 .. E : input[F + k] = Tracked!InputWord(f, m, a + k - 1)
      /\ Silent(input[F + E + 1])
  BY WordsCarried
<1>2. a \in Nat
  BY MessageLies
<1> HIDE DEF F, E, a
<1>3. w \in 1 .. E + 1 /\ t \in Nat
  BY <1>1 DEF E
<1>4. Tracked!IsStart(input, F + 1) /\ input[F + 1].alignment = Tracked!StartByte(f, m)
  <2>1. 1 \in 1 .. E /\ a + 1 - 1 = a
    BY <1>1, <1>2
  <2>2. input[F + 1] = Tracked!InputWord(f, m, a)
    BY <1>1, <2>1
  <2>3. /\ Tracked!InputWord(f, m, a).valid = TRUE /\ Tracked!InputWord(f, m, a).som = TRUE
        /\ Tracked!InputWord(f, m, a).alignment = Tracked!StartByte(f, m)
    BY FirstWordIs, Zenon DEF a
  <2>4. /\ input[F + 1].valid = TRUE /\ input[F + 1].som = TRUE
        /\ input[F + 1].alignment = Tracked!StartByte(f, m)
    BY <2>2, <2>3, Zenon
  <2> QED
    BY <2>4 DEF Tracked!IsStart
<1>5. ASSUME NEW u \in F + 2 .. F + E + 1 PROVE ~Tracked!IsStart(input, u)
  <2>1. CASE u = F + E + 1
    BY <1>1, <2>1 DEF Silent, Tracked!IsStart
  <2>2. CASE u # F + E + 1
    <3>1. u - F \in 1 .. E /\ F + (u - F) = u /\ a + (u - F) - 1 # a
      BY <1>1, <1>2, <2>2
    <3>2. input[u] = Tracked!InputWord(f, m, a + (u - F) - 1)
      BY <1>1, <3>1
    <3>3. Tracked!InputWord(f, m, a + (u - F) - 1).som = FALSE
      BY <3>1, LaterWordIs, Zenon DEF a
    <3> QED
      BY <3>2, <3>3 DEF Tracked!IsStart
  <2> QED
    BY <2>1, <2>2
<1>6. Tracked!Hold(input, t) = {F + 1}
  <2>1. ASSUME NEW s \in Tracked!Hold(input, t) PROVE s = F + 1
    <3>1. s \in 1 .. t /\ Tracked!IsStart(input, s) /\ \A u \in s + 1 .. t : ~Tracked!IsStart(input, u)
      BY DEF Tracked!Hold
    <3>2. ~(s \in F + 2 .. F + E + 1)
      BY <1>5, <3>1
    <3>3. ~(F + 1 \in s + 1 .. t)
      BY <1>4, <3>1
    <3> QED
      BY <1>1, <1>3, <3>1, <3>2, <3>3
  <2>2. F + 1 \in Tracked!Hold(input, t)
    <3>1. F + 1 \in 1 .. t
      BY <1>1, <1>3
    <3>2. ASSUME NEW u \in (F + 1) + 1 .. t PROVE ~Tracked!IsStart(input, u)
      <4>1. u \in F + 2 .. F + E + 1
        BY <1>1, <1>3
      <4> QED
        BY <1>5, <4>1
    <3> QED
      BY <1>4, <3>1, <3>2 DEF Tracked!Hold
  <2> QED
    BY <2>1, <2>2
<1>7. Tracked!Alignment(input, t) = Tracked!StartByte(f, m)
  <2>1. (CHOOSE s \in Tracked!Hold(input, t) : TRUE) = F + 1 /\ Tracked!Hold(input, t) # {}
    BY <1>6
  <2> QED
    BY <1>4, <2>1 DEF Tracked!Alignment
<1> QED
  BY <1>6, <1>7 DEF F

\* The bytes of a message are put at the beginning of a word.
LEMMA RealignedByte ==
  ASSUME NEW f \in TrackedFrames, NEW input, NEW I, NEW P, Carried(f, input, I, P),
         NEW m \in 1 .. Len(f.counts), NEW w \in 1 .. Span(f, m)
  PROVE  /\ DOMAIN Tracked!Realign(input, First(I, P, m) + w) = 1 .. 8
         /\ Tracked!Realign(input, First(I, P, m) + w)
              = [b \in 1 .. 8 |-> Tracked!Realign(input, First(I, P, m) + w)[b]]
         /\ \A b \in 1 .. 8 :
              Offset(f, m) + 8 * (w - 1) + b - 1 < MessageEnd(f, m) =>
                Tracked!Realign(input, First(I, P, m) + w)[b] = {Offset(f, m) + 8 * (w - 1) + b - 1}
<1> DEFINE F == First(I, P, m)
           E == Span(f, m)
           a == Tracked!StartWord(f, m)
           r == Tracked!StartByte(f, m)
           o == Offset(f, m)
           e == MessageEnd(f, m)
           t == F + w
           now == input[t].data
           next == input[t + 1].data
           B == 1 .. 8
           Byte(b) == o + 8 * (w - 1) + b - 1
<1>1. /\ F \in Nat /\ E \in Nat /\ E >= 2
      /\ \A k \in 1 .. E : input[F + k] = Tracked!InputWord(f, m, a + k - 1)
  BY WordsCarried
<1>2. /\ a \in Nat /\ r \in 0 .. 7 /\ o \in Nat /\ e \in Nat /\ o = 8 * a + r
      /\ e <= 8 * (a + E) /\ e <= Tracked!FrameBytes(f) /\ Tracked!FrameBytes(f) \in Nat
  BY MessageLies DEF Span
<1>3. \A k \in 1 .. E : input[F + k].data = [b \in B |-> Tracked!FrameByte(f, (a + k - 1) * 8 + b - 1)]
  <2> TAKE k \in 1 .. E
  <2>1. Tracked!InputWord(f, m, a + k - 1).data = [b \in B |-> Tracked!FrameByte(f, (a + k - 1) * 8 + b - 1)]
    BY DataOfWord
  <2>2. input[F + k] = Tracked!InputWord(f, m, a + k - 1)
    BY <1>1
  <2> QED
    BY <2>1, <2>2, Zenon
<1>4. Tracked!Alignment(input, t) = r /\ Tracked!Alignment(input, t + 1) = r
  <2>1. w \in 1 .. E + 1 /\ w + 1 \in 1 .. E + 1 /\ F + (w + 1) = t + 1
    BY <1>1
  <2>2. Tracked!Alignment(input, F + w) = r /\ Tracked!Alignment(input, F + (w + 1)) = r
    BY <2>1, HeldStart
  <2> QED
    BY <2>1, <2>2
<1> DEFINE Right == [b \in B |-> IF b + r <= 8 THEN now[b + r] ELSE {}]
           Left == [b \in B |-> IF b - ((8 - r) % 8) >= 1 THEN next[b - ((8 - r) % 8)] ELSE {}]
           R == Tracked!Realign(input, t)
<1>5. R = IF r = 0 THEN now ELSE [b \in B |-> Left[b] \cup Right[b]]
  BY <1>4, Zenon DEF Tracked!Realign, Tracked!ShiftRight, Tracked!ShiftLeft, Tracked!WordBytes
<1>6. now = [b \in B |-> Tracked!FrameByte(f, (a + w - 1) * 8 + b - 1)]
  BY <1>1, <1>3 DEF E
<1>7. \A k \in Nat : k < e => Tracked!FrameByte(f, k) = {k}
  BY <1>2 DEF Tracked!FrameByte
<1>8. r # 0 => (8 - r) % 8 = 8 - r
  BY <1>2
<1>9. w \in Nat \ {0} /\ w \in 1 .. E
  BY <1>1 DEF E
<1>10. w < E => next = [k \in B |-> Tracked!FrameByte(f, (a + w) * 8 + k - 1)]
  <2> SUFFICES ASSUME w < E PROVE next = [k \in B |-> Tracked!FrameByte(f, (a + w) * 8 + k - 1)]
    OBVIOUS
  <2>1. w + 1 \in 1 .. E /\ F + (w + 1) = t + 1 /\ a + (w + 1) - 1 = a + w
    <3>1. w + 1 \in 1 .. E
      BY <1>1, <1>9
    <3>2. F + (w + 1) = t + 1
      BY <1>1, <1>9
    <3>3. a + (w + 1) - 1 = a + w
      BY <1>2, <1>9
    <3> QED
      BY <3>1, <3>2, <3>3
  <2>2. input[F + (w + 1)].data = [k \in B |-> Tracked!FrameByte(f, (a + (w + 1) - 1) * 8 + k - 1)]
    BY <1>3, <2>1
  <2> QED
    BY <2>1, <2>2
<1>11. \A b \in B : Right[b] = IF b + r <= 8 THEN now[b + r] ELSE {}
  OBVIOUS
<1>12. \A b \in B : Left[b] = IF b - ((8 - r) % 8) >= 1 THEN next[b - ((8 - r) % 8)] ELSE {}
  OBVIOUS
<1>13. R = [b \in B |-> R[b]] /\ DOMAIN R = B
  BY <1>5, <1>6
<1>14. r # 0 => \A b \in B : R[b] = Left[b] \cup Right[b]
  BY <1>5
<1>15. \A b \in B : b \in 1 .. 8
  OBVIOUS
<1>16. \A k : k \in 1 .. 8 => k \in B
  OBVIOUS
<1> HIDE DEF F, E, a, r, o, e, t, now, next, B, R, Left, Right
<1>17. ASSUME NEW b \in B, Byte(b) < e PROVE R[b] = {Byte(b)}
  <2> DEFINE y == Byte(b)
  <2>1. /\ y \in Nat /\ y = (a + w - 1) * 8 + (b + r) - 1 /\ y = (a + w) * 8 + (b - (8 - r)) - 1
        /\ b + r > 8 => w < E
    <3>1. b \in 1 .. 8
      BY <1>15
    <3> QED
      BY <1>1, <1>2, <1>9, <1>17, <3>1, PlaceOfByte
  <2>2. y < e
    BY <1>17
  <2>3. Tracked!FrameByte(f, y) = {y}
    BY <1>7, <2>1, <2>2
  <2> HIDE DEF y
  <2>4. CASE r = 0
    <3>1. (a + w - 1) * 8 + b - 1 = y
      BY <1>2, <1>9, <1>15, <2>1, <2>4
    <3>2. now[b] = Tracked!FrameByte(f, y)
      BY <1>6, <3>1
    <3>3. R = now
      BY <1>5, <2>4
    <3>4. R[b] = {y}
      BY <2>3, <3>2, <3>3
    <3> QED
      BY <3>4 DEF y
  <2>5. CASE r # 0 /\ b + r <= 8
    <3>1. R[b] = Left[b] \cup Right[b]
      BY <1>14, <2>5
    <3>2. b \in 1 .. 8 /\ b + r \in 1 .. 8 /\ ~(b - ((8 - r) % 8) >= 1)
      BY <1>2, <1>8, <1>15, <2>5, SMTT(40)
    <3>3. Left[b] = {}
      BY <1>12, <3>2
    <3>4. b + r \in B
      BY <1>16, <3>2
    <3>5. now[b + r] = Tracked!FrameByte(f, y)
      BY <1>6, <2>1, <3>4
    <3>6. Right[b] = now[b + r]
      BY <1>11, <2>5
    <3>7. R[b] = {y}
      BY <2>3, <3>1, <3>3, <3>5, <3>6
    <3> QED
      BY <3>7 DEF y
  <2>6. CASE r # 0 /\ ~(b + r <= 8)
    <3>1. R[b] = Left[b] \cup Right[b]
      BY <1>14, <2>6
    <3>2. Right[b] = {}
      BY <1>11, <2>6
    <3>3. b \in 1 .. 8 /\ b - (8 - r) \in 1 .. 8 /\ b + r > 8
      BY <1>2, <1>15, <2>6, SMTT(40)
    <3>4. b - (8 - r) \in B
      BY <1>16, <3>3
    <3>5. b - ((8 - r) % 8) = b - (8 - r) /\ b - (8 - r) >= 1
      BY <1>8, <2>6, <3>3
    <3>6. Left[b] = next[b - (8 - r)]
      BY <1>12, <3>5
    <3>7. next[b - (8 - r)] = Tracked!FrameByte(f, y)
      BY <1>10, <2>1, <3>3, <3>4
    <3>8. R[b] = {y}
      BY <2>3, <3>1, <3>2, <3>6, <3>7
    <3> QED
      BY <3>8 DEF y
  <2>7. r = 0 \/ (r # 0 /\ b + r <= 8) \/ (r # 0 /\ ~(b + r <= 8))
    OBVIOUS
  <2> QED
    BY <2>4, <2>5, <2>6, <2>7
<1> QED
  BY <1>13, <1>17 DEF R, B, o, e, t, F

\* So the search field is the message's field C, which no other message of the
\* frame has.
FieldAt(o) == [i \in 1 .. 3 |-> {o + 6 + i}]

LEMMA EighthAndNext ==
  ASSUME NEW x, x = [b \in 1 .. 8 |-> x[b]], NEW y, y = [b \in 1 .. 8 |-> y[b]],
         NEW o \in Nat, x[8] = {o + 7}, y[1] = {o + 8}, y[2] = {o + 9}
  PROVE  SubSeq(x, 8, 8) \o SubSeq(y, 1, 2) = FieldAt(o)
<1> DEFINE T == {x[b] : b \in 1 .. 8} \cup {y[b] : b \in 1 .. 8}
           u == SubSeq(x, 7 + 1, 7 + 1)
           v == SubSeq(y, 0 + 1, 0 + 2)
<1>1. x \in [1 .. 8 -> T] /\ y \in [1 .. 8 -> T]
  <2>1. /\ \A b \in 1 .. 8 : x[b] \in T /\ y[b] \in T
    OBVIOUS
  <2> HIDE DEF T
  <2>2. [b \in 1 .. 8 |-> x[b]] \in [1 .. 8 -> T] /\ [b \in 1 .. 8 |-> y[b]] \in [1 .. 8 -> T]
    BY <2>1
  <2> QED
    BY <2>2
<1> HIDE DEF T
<1>2. PICK N \in Nat : N = 8
  OBVIOUS
<1>3. x \in Seq(T) /\ y \in Seq(T) /\ Len(x) = N /\ Len(y) = N
  BY <1>1, <1>2
<1>4. u \in Seq(T) /\ Len(u) = 1 /\ u = [i \in 1 .. 1 |-> x[7 + i]]
  <2>1. 7 \in Nat /\ 1 \in Nat /\ 7 + 1 <= Len(x)
    BY <1>2, <1>3
  <2> QED
    BY <1>3, <2>1, PartOf
<1>5. v \in Seq(T) /\ Len(v) = 2 /\ v = [i \in 1 .. 2 |-> y[0 + i]]
  <2>1. 0 \in Nat /\ 2 \in Nat /\ 0 + 2 <= Len(y)
    BY <1>2, <1>3
  <2> QED
    BY <1>3, <2>1, PartOf
<1>6. u[1] = x[8] /\ v[1] = y[1] /\ v[2] = y[2]
  BY <1>4, <1>5
<1> HIDE DEF u, v
<1>7. /\ u \o v \in Seq(T) /\ Len(u \o v) = Len(u) + Len(v)
      /\ \A k \in 1 .. Len(u) : (u \o v)[k] = u[k]
      /\ \A k \in Len(u) + 1 .. Len(u) + Len(v) : (u \o v)[k] = v[k - Len(u)]
  BY <1>4, <1>5, Joined
<1> DEFINE z == u \o v
<1>8. z \in Seq(T) /\ Len(z) = 3 /\ z[1] = u[1] /\ z[2] = v[1] /\ z[3] = v[2]
  <2>1. /\ 1 \in 1 .. Len(u) /\ 2 \in Len(u) + 1 .. Len(u) + Len(v) /\ 2 - Len(u) = 1
        /\ 3 \in Len(u) + 1 .. Len(u) + Len(v) /\ 3 - Len(u) = 2 /\ Len(u) + Len(v) = 3
    BY <1>4, <1>5
  <2>2. z[1] = u[1] /\ z[2] = v[2 - Len(u)] /\ z[3] = v[3 - Len(u)]
    BY <1>7, <2>1
  <2> QED
    BY <1>7, <2>1, <2>2
<1> HIDE DEF z
<1>9. z[1] = {o + 7} /\ z[2] = {o + 8} /\ z[3] = {o + 9}
  BY <1>6, <1>8
<1>10. z = [i \in 1 .. 3 |-> z[i]]
  BY <1>8
<1>11. \A i \in 1 .. 3 : z[i] = {o + 6 + i}
  <2> TAKE i \in 1 .. 3
  <2>1. i = 1 \/ i = 2 \/ i = 3
    OBVIOUS
  <2> QED
    BY <1>9, <2>1
<1>12. z = FieldAt(o)
  BY <1>10, <1>11 DEF FieldAt
<1>13. SubSeq(x, 8, 8) = u /\ SubSeq(y, 1, 2) = v
  BY DEF u, v
<1> QED
  BY <1>12, <1>13 DEF z

LEMMA SearchFieldIs ==
  ASSUME NEW f \in TrackedFrames, NEW input, NEW I, NEW P, Carried(f, input, I, P),
         NEW m \in 1 .. Len(f.counts)
  PROVE  Tracked!SearchField(input, First(I, P, m) + 1) = FieldAt(Offset(f, m))
<1> DEFINE F == First(I, P, m)
           o == Offset(f, m)
           R(w) == Tracked!Realign(input, F + w)
<1>1. o \in Nat /\ o + 10 <= MessageEnd(f, m) /\ MessageEnd(f, m) \in Nat
  BY MessageLies
<1>2. Span(f, m) \in Nat /\ Span(f, m) >= 2 /\ F \in Nat
  BY WordsCarried
<1>3. \A w \in 1 .. Span(f, m) :
        /\ R(w) = [b \in 1 .. 8 |-> R(w)[b]]
        /\ \A b \in 1 .. 8 : o + 8 * (w - 1) + b - 1 < MessageEnd(f, m) =>
             R(w)[b] = {o + 8 * (w - 1) + b - 1}
  BY RealignedByte
<1>4. Tracked!SearchField(input, F + 1) = SubSeq(R(1), 8, 8) \o SubSeq(R(2), 1, 2)
  <2>1. (F + 1) + 1 = F + 2
    BY <1>2
  <2> QED
    BY <2>1 DEF Tracked!SearchField
<1> HIDE DEF F, o, R
<1>5. R(1)[8] = {o + 7} /\ R(1) = [b \in 1 .. 8 |-> R(1)[b]]
  <2>1. PICK w \in 1 .. Span(f, m), b \in 1 .. 8 : w = 1 /\ b = 8
    BY <1>2
  <2>2. o + 8 * (w - 1) + b - 1 = o + 7 /\ o + 7 < MessageEnd(f, m)
    BY <1>1, <2>1
  <2>3. R(w)[b] = {o + 7} /\ R(w) = [k \in 1 .. 8 |-> R(w)[k]]
    BY <1>3, <2>2
  <2> QED
    BY <2>1, <2>3
<1>6. R(2)[1] = {o + 8} /\ R(2) = [b \in 1 .. 8 |-> R(2)[b]]
  <2>1. PICK w \in 1 .. Span(f, m), b \in 1 .. 8 : w = 2 /\ b = 1
    BY <1>2
  <2>2. o + 8 * (w - 1) + b - 1 = o + 8 /\ o + 8 < MessageEnd(f, m)
    BY <1>1, <2>1
  <2>3. R(w)[b] = {o + 8} /\ R(w) = [k \in 1 .. 8 |-> R(w)[k]]
    BY <1>3, <2>2
  <2> QED
    BY <2>1, <2>3
<1>7. R(2)[2] = {o + 9}
  <2>1. PICK w \in 1 .. Span(f, m), b \in 1 .. 8 : w = 2 /\ b = 2
    BY <1>2
  <2>2. o + 8 * (w - 1) + b - 1 = o + 9 /\ o + 9 < MessageEnd(f, m)
    BY <1>1, <2>1
  <2>3. R(w)[b] = {o + 9}
    BY <1>3, <2>2
  <2> QED
    BY <2>1, <2>3
<1>8. SubSeq(R(1), 8, 8) \o SubSeq(R(2), 1, 2) = FieldAt(o)
  BY <1>1, <1>5, <1>6, <1>7, EighthAndNext, SMTT(40)
<1> QED
  BY <1>4, <1>8 DEF o, F

\* A message as it is in the frame, and its field C.
LEMMA MessageOf ==
  ASSUME NEW f \in TrackedFrames, NEW m \in 1 .. Len(f.counts)
  PROVE  /\ Tracked!Message(f, m) = [i \in 1 .. MessageEnd(f, m) - Offset(f, m) |-> {Offset(f, m) + i - 1}]
         /\ Tracked!FieldC(f, m) = FieldAt(Offset(f, m))
<1> DEFINE o == Offset(f, m)
           l == MessageEnd(f, m) - o
           x == Tracked!Message(f, m)
           T == {{o + i - 1} : i \in 1 .. l}
<1>1. o \in Nat /\ l \in Nat /\ l >= 10
  BY MessageLies
<1>2. x = [i \in 1 .. l |-> {o + i - 1}]
  BY Zenon DEF Tracked!Message, MessageEnd, Offset
<1>3. Tracked!FieldC(f, m) = SubSeq(x, 7 + 1, 7 + 3)
  <2>1. Tracked!MsgOverhead - Tracked!FieldCBytes + 1 = 7 + 1 /\ Tracked!MsgOverhead = 7 + 3
    BY DEF Tracked!MsgOverhead, Tracked!FieldCBytes
  <2> QED
    BY <2>1, Zenon DEF Tracked!FieldC
<1>4. \A i \in 1 .. l : {o + i - 1} \in T
  OBVIOUS
<1> HIDE DEF x, o, l, T
<1>5. x \in Seq(T) /\ Len(x) = l
  <2>1. x \in [1 .. l -> T]
    BY <1>2, <1>4
  <2> QED
    BY <1>1, <2>1
<1>6. SubSeq(x, 7 + 1, 7 + 3) = [i \in 1 .. 3 |-> x[7 + i]]
  <2>1. 7 \in Nat /\ 3 \in Nat /\ 7 + 3 <= Len(x)
    BY <1>1, <1>5
  <2> QED
    BY <1>5, <2>1, PartOf
<1>7. \A i \in 1 .. 3 : x[7 + i] = {o + 6 + i}
  <2> TAKE i \in 1 .. 3
  <2>1. 7 + i \in 1 .. l /\ o + (7 + i) - 1 = o + 6 + i
    BY <1>1
  <2>2. x[7 + i] = {o + (7 + i) - 1}
    BY <1>2, <2>1
  <2> QED
    BY <2>1, <2>2
<1>8. SubSeq(x, 7 + 1, 7 + 3) = FieldAt(o)
  BY <1>6, <1>7 DEF FieldAt
<1> QED
  BY <1>2, <1>3, <1>8 DEF x, o, l

LEMMA FieldsCDiffer ==
  ASSUME NEW f \in TrackedFrames, NEW m \in 1 .. Len(f.counts), NEW k \in 1 .. Len(f.counts),
         Tracked!FieldC(f, m) = Tracked!FieldC(f, k)
  PROVE  m = k
<1> DEFINE n == Len(f.counts)
           o(i) == Offset(f, i)
<1>1. /\ n \in Nat /\ m \in 1 .. n /\ k \in 1 .. n
      /\ \A i \in 1 .. n + 1 : o(i) \in Nat
      /\ \A i, j \in 1 .. n + 1 : i < j => o(i) + 10 <= o(j)
  BY OffsetsRule, OffsetsNat, OffsetsGrow
<1>2. {o(m) + 7} = {o(k) + 7}
  <2>1. FieldAt(o(m)) = FieldAt(o(k))
    BY MessageOf
  <2>2. o(m) \in Nat /\ o(k) \in Nat
    BY <1>1
  <2> HIDE DEF o
  <2>4. 1 \in 1 .. 3 /\ o(m) + 6 + 1 = o(m) + 7 /\ o(k) + 6 + 1 = o(k) + 7
    BY <2>2
  <2>3. FieldAt(o(m))[1] = {o(m) + 6 + 1} /\ FieldAt(o(k))[1] = {o(k) + 6 + 1}
    BY <2>4 DEF FieldAt
  <2> QED
    BY <2>1, <2>3, <2>4
<1> HIDE DEF o, n
<1>3. m \in 1 .. n + 1 /\ k \in 1 .. n + 1
  BY <1>1
<1>4. o(m) = o(k)
  <2>1. o(m) + 7 = o(k) + 7
    BY <1>2
  <2> QED
    BY <1>1, <1>3, <2>1
<1>5. ~(m < k) /\ ~(k < m)
  BY <1>1, <1>3, <1>4
<1> QED
  BY <1>1, <1>5

\* A message's words pass if the message is wanted, all of them.
LEMMA MatchIs ==
  ASSUME NEW f \in TrackedFrames, NEW input, NEW I, NEW P, Carried(f, input, I, P),
         NEW m \in 1 .. Len(f.counts), NEW w \in 1 .. Span(f, m) + 1,
         NEW wanted \in SUBSET (1 .. Len(f.counts))
  PROVE  Tracked!Match(input, First(I, P, m) + w, {Tracked!FieldC(f, k) : k \in wanted}) <=> m \in wanted
<1> DEFINE t == First(I, P, m) + w
           s == First(I, P, m) + 1
           filter == {Tracked!FieldC(f, k) : k \in wanted}
<1>1. Tracked!Hold(input, t) = {s}
  BY HeldStart
<1>2. Tracked!SearchField(input, s) = Tracked!FieldC(f, m)
  <2>1. Tracked!SearchField(input, s) = FieldAt(Offset(f, m))
    BY SearchFieldIs
  <2>2. Tracked!FieldC(f, m) = FieldAt(Offset(f, m))
    BY MessageOf
  <2> QED
    BY <2>1, <2>2, Zenon
<1>3. Tracked!FieldC(f, m) \in filter <=> m \in wanted
  <2>1. ASSUME Tracked!FieldC(f, m) \in filter PROVE m \in wanted
    <3>1. PICK k \in wanted : Tracked!FieldC(f, m) = Tracked!FieldC(f, k)
      BY <2>1
    <3>2. k \in 1 .. Len(f.counts)
      OBVIOUS
    <3> QED
      BY <3>1, <3>2, FieldsCDiffer
  <2>2. ASSUME m \in wanted PROVE Tracked!FieldC(f, m) \in filter
    BY <2>2
  <2> QED
    BY <2>1, <2>2
<1> HIDE DEF t, s, filter
<1>4. Tracked!Match(input, t, filter) <=> Tracked!SearchField(input, s) \in filter
  BY <1>1 DEF Tracked!Match
<1> QED
  BY <1>2, <1>3, <1>4 DEF t, filter

\* What the filter puts out, cycle by cycle.
OutAt(input, t) ==
  [sof |-> input[t].som, eof |-> input[t].eom, data |-> Tracked!Realign(input, t)]
Passes(input, filter, t) == input[t].valid /\ Tracked!Match(input, t, filter) /\ ~input[t].padding

LEMMA KernelOutput ==
  ASSUME NEW input, NEW filter, NEW N \in Nat, Len(input) = N + 1
  PROVE  \E Q \in [0 .. N -> Nat] :
           /\ Q[0] = 0
           /\ \A t \in 1 .. N : Passes(input, filter, t) => Q[t] = Q[t - 1] + 1
           /\ \A t \in 1 .. N : ~Passes(input, filter, t) => Q[t] = Q[t - 1]
           /\ Tracked!FilteringKernel(input, filter) \in Seq({OutAt(input, t) : t \in 1 .. N})
           /\ Len(Tracked!FilteringKernel(input, filter)) = Q[N]
           /\ \A t \in 1 .. N : Passes(input, filter, t) =>
                Tracked!FilteringKernel(input, filter)[Q[t]] = OutAt(input, t) /\ Q[t] <= Q[N]
<1> DEFINE T == {OutAt(input, t) : t \in 1 .. N}
           Pass(t) == Passes(input, filter, t)
           Out(t) == OutAt(input, t)
           G == [t \in 1 .. N |-> IF Pass(t) THEN <<Out(t)>> ELSE <<>>]
           x == Tracked!FilteringKernel(input, filter)
<1>1. x = FlattenSeq(G)
  <2>1. Len(input) - 1 = N
    OBVIOUS
  <2> QED
    BY <2>1, SameSequences, Zenon DEF Tracked!FilteringKernel, Passes, OutAt
<1>2. \A t \in 1 .. N : Out(t) \in T
  OBVIOUS
<1> HIDE DEF T, Pass, Out, x
<1>3. \A t \in 1 .. N : /\ Pass(t) => G[t] = <<Out(t)>> /\ Len(G[t]) = 1
                        /\ ~Pass(t) => G[t] = <<>> /\ Len(G[t]) = 0
  OBVIOUS
<1>4. G \in Seq(Seq(T)) /\ Len(G) = N
  <2>1. <<>> \in Seq(T) /\ \A t \in 1 .. N : <<Out(t)>> \in Seq(T)
    BY <1>2
  <2>2. G \in [1 .. N -> Seq(T)]
    BY <2>1
  <2> QED
    BY <2>2
<1> HIDE DEF G
<1>5. PICK Q : EndsOf(Q, G)
  BY <1>4, EndsExist
<1>6. Q \in [0 .. N -> Nat] /\ Q[0] = 0 /\ \A t \in 1 .. N : Q[t] = Q[t - 1] + Len(G[t])
  BY <1>4, <1>5 DEF EndsOf
<1>7. /\ x \in Seq(T) /\ Len(x) = Q[N]
      /\ \A t \in 1 .. N : \A k \in 1 .. Len(G[t]) : x[Q[t - 1] + k] = G[t][k] /\ Q[t - 1] + k <= Q[N]
  <2>1. /\ FlattenSeq(G) \in Seq(T) /\ Len(FlattenSeq(G)) = Q[Len(G)]
        /\ \A t \in 1 .. Len(G) : \A k \in 1 .. Len(G[t]) :
             FlattenSeq(G)[Q[t - 1] + k] = G[t][k] /\ Q[t - 1] + k <= Q[Len(G)]
    BY <1>4, <1>5, FlattenPlaces
  <2> QED
    BY <1>1, <1>4, <2>1
<1>8. \A t \in 1 .. N : Q[t - 1] \in Nat /\ Q[t] \in Nat
  <2>1. \A t \in 1 .. N : t \in 0 .. N /\ t - 1 \in 0 .. N
    OBVIOUS
  <2> QED
    BY <1>6, <2>1
<1>9. \A t \in 1 .. N : Pass(t) => Q[t] = Q[t - 1] + 1
  BY <1>3, <1>6, <1>8
<1>10. \A t \in 1 .. N : ~Pass(t) => Q[t] = Q[t - 1]
  <2> SUFFICES ASSUME NEW t \in 1 .. N, ~Pass(t) PROVE Q[t] = Q[t - 1]
    OBVIOUS
  <2>1. Len(G[t]) = 0
    BY <1>3
  <2> QED
    BY <1>6, <1>8, <2>1
<1>11. ASSUME NEW t \in 1 .. N, Pass(t) PROVE x[Q[t]] = Out(t) /\ Q[t] <= Q[N]
  <2>1. 1 \in 1 .. Len(G[t]) /\ G[t][1] = Out(t)
    BY <1>3, <1>11
  <2> QED
    BY <1>7, <1>9, <1>11, <2>1
<1> QED
  BY <1>6, <1>7, <1>9, <1>10, <1>11 DEF T, Pass, Out, x

-----------------------------------------------------------------------------
(***************************************************************************)
(* The filter's output.                                                    *)
(***************************************************************************)
Filter(f, wanted) == {Tracked!FieldC(f, k) : k \in wanted}

LEMMA PassesIs ==
  ASSUME NEW f \in TrackedFrames, NEW input, NEW I, NEW P, Carried(f, input, I, P),
         NEW m \in 1 .. Len(f.counts), NEW wanted \in SUBSET (1 .. Len(f.counts)),
         NEW t \in P[m - 1] + 1 .. P[m]
  PROVE  Passes(input, Filter(f, wanted), t) <=>
           m \in wanted /\ t \in First(I, P, m) + 1 .. First(I, P, m) + Span(f, m)
<1> DEFINE F == First(I, P, m)
           E == Span(f, m)
           a == Tracked!StartWord(f, m)
<1>1. /\ F \in Nat /\ E \in Nat /\ P[m - 1] \in Nat /\ P[m] \in Nat
      /\ \A k \in 1 .. E : input[F + k] = Tracked!InputWord(f, m, a + k - 1)
  BY WordsCarried
<1>2. \A u \in P[m - 1] + 1 .. P[m] : u \notin F + 1 .. F + E => Silent(input[u])
  BY DEF Carried, First
<1>3. \A w \in 1 .. E + 1 : Tracked!Match(input, F + w, Filter(f, wanted)) <=> m \in wanted
  BY MatchIs DEF Filter
<1> HIDE DEF F, E, a
<1>4. CASE t \in F + 1 .. F + E
  <2>1. t - F \in 1 .. E /\ t - F \in 1 .. E + 1 /\ F + (t - F) = t
    BY <1>1, <1>4
  <2>2. Tracked!Match(input, t, Filter(f, wanted)) <=> m \in wanted
    <3>1. Tracked!Match(input, F + (t - F), Filter(f, wanted)) <=> m \in wanted
      BY <1>3, <2>1
    <3> QED
      BY <2>1, <3>1
  <2>3. input[t] = Tracked!InputWord(f, m, a + (t - F) - 1)
    BY <1>1, <2>1
  <2>4. input[t].valid = TRUE /\ input[t].padding = FALSE
    BY <2>3 DEF Tracked!InputWord
  <2>5. Passes(input, Filter(f, wanted), t) <=> m \in wanted
    BY <2>2, <2>4, Zenon DEF Passes
  <2> QED
    BY <1>4, <2>5, Zenon DEF F, E
<1>5. CASE t \notin F + 1 .. F + E
  <2>1. Silent(input[t])
    BY <1>2, <1>5
  <2>2. ~Passes(input, Filter(f, wanted), t)
    BY <2>1, Zenon DEF Silent, Passes
  <2> QED
    BY <1>5, <2>2, Zenon DEF F, E
<1> QED
  BY <1>4, <1>5

\* Q[t] is the number of words put out up to cycle t.
Counts(Q, input, filter, N) ==
  /\ Q \in [0 .. N -> Nat] /\ Q[0] = 0
  /\ \A t \in 1 .. N : Passes(input, filter, t) => Q[t] = Q[t - 1] + 1
  /\ \A t \in 1 .. N : ~Passes(input, filter, t) => Q[t] = Q[t - 1]

LEMMA CountOfMessage ==
  ASSUME NEW f \in TrackedFrames, NEW input, NEW I, NEW P, Carried(f, input, I, P),
         NEW m \in 1 .. Len(f.counts), NEW wanted \in SUBSET (1 .. Len(f.counts)),
         NEW Q, NEW N \in Nat, Len(input) = N + 1, Counts(Q, input, Filter(f, wanted), N)
  PROVE  /\ Q[P[m]] = Q[P[m - 1]] + (IF m \in wanted THEN Span(f, m) ELSE 0)
         /\ m \in wanted =>
              \A w \in 1 .. Span(f, m) : Q[First(I, P, m) + w] = Q[P[m - 1]] + w
<1> DEFINE F == First(I, P, m)
           E == Span(f, m)
           p == P[m - 1]
           r == P[m]
           Pass(t) == Passes(input, Filter(f, wanted), t)
<1>1. /\ F \in Nat /\ E \in Nat /\ p \in Nat /\ r \in Nat
      /\ F + E < r /\ r < Len(input) /\ I \in Nat
  BY WordsCarried
<1>2. F = p + I
  BY DEF First
<1>3. \A t \in p + 1 .. r : Pass(t) <=> m \in wanted /\ t \in F + 1 .. F + E
  BY PassesIs
<1>4. /\ Q \in [0 .. N -> Nat]
      /\ \A t \in 1 .. N : Pass(t) => Q[t] = Q[t - 1] + 1
      /\ \A t \in 1 .. N : ~Pass(t) => Q[t] = Q[t - 1]
  BY DEF Counts
<1> HIDE DEF F, E, p, r, Pass
<1>5. r <= N /\ p <= F /\ F <= F + E /\ F + E <= r /\ F + E \in Nat /\ F <= r
  BY <1>1, <1>2
<1>6. \A t \in 0 .. N : Q[t] \in Nat
  BY <1>4
<1>7. Q[p] \in Nat /\ Q[F] \in Nat /\ Q[F + E] \in Nat
  <2>1. p \in 0 .. N /\ F \in 0 .. N /\ F + E \in 0 .. N
    BY <1>1, <1>5
  <2> QED
    BY <1>6, <2>1
<1>8. \A t \in p + 1 .. F : Q[t] = Q[t - 1] + 0
  <2> TAKE t \in p + 1 .. F
  <2>1. t \in 1 .. N /\ t \in p + 1 .. r /\ t \notin F + 1 .. F + E /\ t - 1 \in 0 .. N
    BY <1>1, <1>5
  <2>2. ~Pass(t)
    BY <1>3, <2>1
  <2> QED
    BY <1>4, <1>6, <2>1, <2>2
<1>9. \A t \in F + E + 1 .. r : Q[t] = Q[t - 1] + 0
  <2> TAKE t \in F + E + 1 .. r
  <2>1. t \in 1 .. N /\ t \in p + 1 .. r /\ t \notin F + 1 .. F + E /\ t - 1 \in 0 .. N
    BY <1>1, <1>5
  <2>2. ~Pass(t)
    BY <1>3, <2>1
  <2> QED
    BY <1>4, <1>6, <2>1, <2>2
<1>10. PICK d \in {0, 1} : d = IF m \in wanted THEN 1 ELSE 0
  OBVIOUS
<1>11. \A t \in F + 1 .. F + E : Q[t] = Q[t - 1] + d
  <2> TAKE t \in F + 1 .. F + E
  <2>1. t \in 1 .. N /\ t \in p + 1 .. r /\ t - 1 \in 0 .. N
    BY <1>1, <1>5
  <2>2. Pass(t) <=> m \in wanted
    BY <1>3, <2>1
  <2>3. CASE m \in wanted
    BY <1>4, <1>10, <2>1, <2>2, <2>3
  <2>4. CASE m \notin wanted
    BY <1>4, <1>6, <1>10, <2>1, <2>2, <2>4
  <2> QED
    BY <2>3, <2>4
<1>12. Q[F] = Q[p]
  <2>1. \A t \in p .. F : Q[t] = Q[p] + (IF 0 = 1 THEN t - p ELSE 0)
    BY <1>1, <1>5, <1>7, <1>8, CountAlong, ZenonT(60)
  <2>2. F \in p .. F
    BY <1>1, <1>5
  <2> QED
    BY <1>7, <2>1, <2>2
<1>13. \A t \in F .. F + E : Q[t] = Q[F] + (IF d = 1 THEN t - F ELSE 0)
  BY <1>1, <1>5, <1>7, <1>11, CountAlong, ZenonT(60)
<1>14. Q[F + E] = Q[p] + (IF m \in wanted THEN E ELSE 0)
  <2>1. F + E \in F .. F + E /\ (F + E) - F = E
    BY <1>1, <1>5
  <2> QED
    BY <1>7, <1>10, <1>12, <1>13, <2>1
<1>15. Q[r] = Q[F + E]
  <2>1. \A t \in F + E .. r : Q[t] = Q[F + E] + (IF 0 = 1 THEN t - (F + E) ELSE 0)
    BY <1>1, <1>5, <1>7, <1>9, CountAlong, ZenonT(60)
  <2>2. r \in F + E .. r
    BY <1>1, <1>5
  <2> QED
    BY <1>7, <2>1, <2>2
<1>16. ASSUME m \in wanted, NEW w \in 1 .. E PROVE Q[F + w] = Q[p] + w
  <2>1. F + w \in F .. F + E /\ (F + w) - F = w
    BY <1>1
  <2> QED
    BY <1>7, <1>10, <1>12, <1>13, <1>16, <2>1
<1> QED
  BY <1>14, <1>15, <1>16 DEF F, E, p, r

\* The number of words before those of message m: the function of FilteredRight.
BeforeOf(f, wanted) ==
  LET Size(m) == Tracked!EndWord(f, m) - Tracked!StartWord(f, m) + 1
      Before[m \in 1 .. Len(f.counts) + 1] ==
        IF m = 1 THEN 0 ELSE Before[m - 1] + IF m - 1 \in wanted THEN Size(m - 1) ELSE 0
  IN Before

LEMMA BeforeRule ==
  ASSUME NEW f \in TrackedFrames, NEW wanted
  PROVE  /\ BeforeOf(f, wanted)[1] = 0
         /\ \A m \in 1 .. Len(f.counts) :
              BeforeOf(f, wanted)[m + 1]
                = BeforeOf(f, wanted)[m] + (IF m \in wanted THEN Span(f, m) ELSE 0)
<1> DEFINE n == Len(f.counts)
           D == 1 .. n + 1
           Size(m) == Tracked!EndWord(f, m) - Tracked!StartWord(f, m) + 1
           Rule(g, m) == IF m = 1 THEN 0 ELSE g[m - 1] + IF m - 1 \in wanted THEN Size(m - 1) ELSE 0
           d == [k \in 1 .. n |-> IF k \in wanted THEN Span(f, k) ELSE 0]
<1>1. n \in Nat \ {0}
  BY OffsetsRule
<1>2. \A k \in 1 .. n : Span(f, k) \in Nat
  BY MessageLies DEF Span
<1>3. \A k \in 1 .. n : d[k] \in Int /\ d[k] = IF k \in wanted THEN Size(k) ELSE 0
  BY <1>2 DEF Span
<1>4. PICK g : AddsUp(g, n, 0, d)
  <2> HIDE DEF n, d
  <2>1. n \in Nat /\ 0 \in Int /\ \A k \in 1 .. n : d[k] \in Int
    BY <1>1, <1>3
  <2> QED
    BY <2>1, AddingUp
<1>5. ASSUME NEW m \in D, m # 1
      PROVE  d[m - 1] = IF m - 1 \in wanted THEN Size(m - 1) ELSE 0
  <2>1. m - 1 \in 1 .. n
    BY <1>1, <1>5
  <2> HIDE DEF d, n
  <2> QED
    BY <1>3, <2>1
<1>6. g = [m \in D |-> Rule(g, m)]
  <2> HIDE DEF d, Size
  <2> QED
    BY <1>4, <1>5 DEF AddsUp
<1> DEFINE B == CHOOSE g_1 : g_1 = [m \in D |-> Rule(g_1, m)]
<1>7. B = [m \in D |-> Rule(B, m)]
  BY <1>6, Zenon
<1>8. BeforeOf(f, wanted) = B
  BY Zenon DEF BeforeOf
<1> HIDE DEF B
<1>9. B[1] = 0
  <2>1. 1 \in D
    BY <1>1
  <2> QED
    BY <1>7, <2>1
<1>10. ASSUME NEW m \in 1 .. n
       PROVE  B[m + 1] = B[m] + (IF m \in wanted THEN Span(f, m) ELSE 0)
  <2>1. m + 1 \in D /\ m + 1 # 1 /\ (m + 1) - 1 = m
    BY <1>1
  <2>2. B[m + 1] = Rule(B, m + 1)
    <3> HIDE DEF Rule, D
    <3> QED
      BY <1>7, <2>1
  <2>3. Size(m) = Span(f, m)
    BY DEF Span
  <2>4. Rule(B, m + 1) = B[m] + (IF m \in wanted THEN Size(m) ELSE 0)
    <3> HIDE DEF Size
    <3> QED
      BY <2>1
  <2> QED
    BY <2>2, <2>3, <2>4
<1> QED
  BY <1>8, <1>9, <1>10

LEMMA BeforeCounts ==
  ASSUME NEW f \in TrackedFrames, NEW input, NEW I, NEW P, Carried(f, input, I, P),
         NEW wanted \in SUBSET (1 .. Len(f.counts)),
         NEW Q, NEW N \in Nat, Len(input) = N + 1, Counts(Q, input, Filter(f, wanted), N)
  PROVE  \A m \in 1 .. Len(f.counts) + 1 : BeforeOf(f, wanted)[m] = Q[P[m - 1]]
<1> DEFINE n == Len(f.counts)
           B == BeforeOf(f, wanted)
           Good(k) == k \in 0 .. n => B[k + 1] = Q[P[k]]
           U == {k \in Nat : Good(k)}
<1>1. n \in Nat \ {0}
  BY OffsetsRule
<1>2. P[0] = 0 /\ Q[0] = 0
  BY DEF Carried, Counts
<1>3. B[1] = 0 /\ \A m \in 1 .. n : B[m + 1] = B[m] + (IF m \in wanted THEN Span(f, m) ELSE 0)
  BY BeforeRule
<1>4. \A m \in 1 .. n : Q[P[m]] = Q[P[m - 1]] + (IF m \in wanted THEN Span(f, m) ELSE 0)
  BY CountOfMessage
<1> HIDE DEF n, B
<1>5. 0 \in U
  <2>1. 0 + 1 = 1
    OBVIOUS
  <2> QED
    BY <1>2, <1>3, <2>1
<1>6. ASSUME NEW k \in U PROVE k + 1 \in U
  <2> SUFFICES ASSUME k + 1 \in 0 .. n PROVE B[(k + 1) + 1] = Q[P[k + 1]]
    OBVIOUS
  <2>1. k + 1 \in 1 .. n /\ (k + 1) - 1 = k /\ k \in 0 .. n
    BY <1>1
  <2>2. B[k + 1] = Q[P[k]]
    BY <2>1
  <2>3. Q[P[k + 1]] = Q[P[k]] + (IF k + 1 \in wanted THEN Span(f, k + 1) ELSE 0)
    BY <1>4, <2>1
  <2>4. B[(k + 1) + 1] = B[k + 1] + (IF k + 1 \in wanted THEN Span(f, k + 1) ELSE 0)
    BY <1>3, <2>1
  <2> QED
    BY <2>2, <2>3, <2>4
<1>7. U = Nat
  <2>1. U \subseteq Nat
    OBVIOUS
  <2> HIDE DEF U
  <2> QED
    BY <1>5, <1>6, <2>1, SetInduction
<1>8. ASSUME NEW m \in 1 .. n + 1 PROVE B[m] = Q[P[m - 1]]
  <2>1. m - 1 \in Nat /\ m - 1 \in 0 .. n /\ (m - 1) + 1 = m
    BY <1>1
  <2>2. Good(m - 1)
    <3> HIDE DEF Good
    <3> QED
      BY <1>7, <2>1
  <2> QED
    BY <2>1, <2>2
<1> QED
  BY <1>8 DEF n, B

LEMMA IsSeqOf ==
  ASSUME NEW T, NEW N \in Nat, NEW x, x = [i \in 1 .. N |-> x[i]], \A i \in 1 .. N : x[i] \in T
  PROVE  x \in Seq(T) /\ Len(x) = N
<1>1. [i \in 1 .. N |-> x[i]] \in [1 .. N -> T]
  OBVIOUS
<1>2. x \in [1 .. N -> T]
  BY <1>1
<1> QED
  BY <1>2

\* d has the bytes of D's words, L of them in each.
HasBytesOf(d, D, L) ==
  \A k \in 1 .. Len(D) * L : \E i \in 1 .. Len(D), b \in 1 .. L :
    k = (i - 1) * L + b /\ d[k] = D[i][b]

LEMMA FlattenedBytes ==
  ASSUME NEW L \in Nat \ {0}, NEW T, NEW D \in Seq(Seq(T)),
         \A i \in 1 .. Len(D) : Len(D[i]) = L
  PROVE  /\ FlattenSeq(D) \in Seq(T) /\ Len(FlattenSeq(D)) = Len(D) * L
         /\ HasBytesOf(FlattenSeq(D), D, L)
<1> DEFINE d == FlattenSeq(D)
           E == Len(D)
<1>1. E \in Nat /\ E * L \in Nat
  OBVIOUS
<1>2. d = [k \in 1 .. E * L |-> D[(k - 1) \div L + 1][((k - 1) % L) + 1]]
  BY FlattenWords
<1>3. \A i \in 1 .. E : \A b \in 1 .. L : D[i][b] \in T
  <2>1. \A i \in 1 .. E : D[i] \in Seq(T) /\ Len(D[i]) = L
    OBVIOUS
  <2> QED
    BY <2>1
<1> HIDE DEF d, E
<1>4. ASSUME NEW k \in 1 .. E * L
      PROVE  \E i \in 1 .. E, b \in 1 .. L : k = (i - 1) * L + b /\ d[k] = D[i][b]
  <2> DEFINE q == (k - 1) \div L
             r == (k - 1) % L
  <2>1. k \in Nat \ {0} /\ k <= E * L
    BY <1>1
  <2>2. q \in Nat /\ r \in 0 .. L - 1 /\ k = q * L + r + 1 /\ q < E
    BY <1>1, <2>1, PlaceOf
  <2>3. d[k] = D[q + 1][r + 1]
    BY <1>2
  <2> HIDE DEF q, r
  <2>4. q + 1 \in 1 .. E /\ r + 1 \in 1 .. L /\ (q + 1) - 1 = q /\ q * L \in Nat
    BY <1>1, <2>2
  <2>5. k = ((q + 1) - 1) * L + (r + 1)
    BY <2>2, <2>4
  <2> QED
    BY <2>3, <2>4, <2>5
<1>5. d \in Seq(T) /\ Len(d) = E * L
  <2>1. \A k \in 1 .. E * L : d[k] \in T
    BY <1>3, <1>4
  <2>2. d = [k \in 1 .. E * L |-> d[k]]
    BY <1>2
  <2> QED
    BY <1>1, <2>1, <2>2, IsSeqOf
<1> QED
  BY <1>4, <1>5 DEF d, E, HasBytesOf

\* Words whose bytes are those of the frame from byte o on begin with them.
LEMMA BytesInOrder ==
  ASSUME NEW L \in Nat \ {0}, NEW T, NEW D \in Seq(Seq(T)),
         \A i \in 1 .. Len(D) : Len(D[i]) = L,
         NEW o \in Nat, NEW X, NEW x \in Seq(X), Len(x) <= Len(D) * L,
         \A k \in 1 .. Len(x) : x[k] = {o + k - 1},
         \A i \in 1 .. Len(D) : \A b \in 1 .. L :
           (i - 1) * L + b <= Len(x) => D[i][b] = {o + ((i - 1) * L + b) - 1}
  PROVE  Tracked!IsPrefix(x, Tracked!FlattenSeq(D))
<1> DEFINE d == FlattenSeq(D)
           l == Len(x)
           E == Len(D)
<1>1. l \in Nat /\ E \in Nat /\ E * L \in Nat /\ l <= E * L
  OBVIOUS
<1>3. /\ \A k \in 1 .. l : x[k] = {o + k - 1}
      /\ \A i \in 1 .. E : \A b \in 1 .. L :
           (i - 1) * L + b <= l => D[i][b] = {o + ((i - 1) * L + b) - 1}
  OBVIOUS
<1>4. \A k \in 1 .. E * L : \E i \in 1 .. E, b \in 1 .. L :
        k = (i - 1) * L + b /\ d[k] = D[i][b]
  <2>1. HasBytesOf(FlattenSeq(D), D, L)
    BY FlattenedBytes, Zenon
  <2> QED
    BY <2>1, Zenon DEF HasBytesOf
<1>5. d \in Seq(T) /\ Len(d) = E * L
  BY FlattenedBytes, Zenon
<1> HIDE DEF d, l, E
<1>6. \A k \in 1 .. l : x[k] = d[k]
  <2> TAKE k \in 1 .. l
  <2>1. k \in 1 .. E * L
    BY <1>1
  <2>2. PICK i \in 1 .. E, b \in 1 .. L : k = (i - 1) * L + b /\ d[k] = D[i][b]
    BY <1>4, <2>1
  <2>3. (i - 1) * L + b <= l
    BY <1>1, <2>2
  <2>4. D[i][b] = {o + ((i - 1) * L + b) - 1}
    BY <1>3, <2>3
  <2> QED
    BY <1>3, <2>2, <2>4
<1>7. SubSeq(x, 0 + 1, 0 + l) = [i \in 1 .. l |-> x[0 + i]]
  <2>1. 0 \in Nat /\ l \in Nat /\ 0 + l <= Len(x)
    BY <1>1 DEF l
  <2> QED
    BY <2>1, PartOf
<1>8. SubSeq(d, 0 + 1, 0 + l) = [i \in 1 .. l |-> d[0 + i]]
  <2>1. 0 \in Nat /\ 0 + l <= Len(d)
    BY <1>1, <1>5
  <2> QED
    BY <1>1, <1>5, <2>1, PartOf
<1>9. SubSeq(x, 1, l) = SubSeq(d, 1, l)
  <2>1. \A i \in 1 .. l : 0 + i = i
    BY <1>1
  <2>2. \A i \in 1 .. l : x[0 + i] = d[0 + i]
    BY <1>6, <2>1
  <2>3. 0 + 1 = 1 /\ 0 + l = l
    BY <1>1
  <2>4. [i \in 1 .. l |-> x[0 + i]] = [i \in 1 .. l |-> d[0 + i]]
    BY <2>2
  <2> QED
    BY <1>7, <1>8, <2>3, <2>4
<1>10. l <= Len(d)
  BY <1>1, <1>5
<1>11. Tracked!IsPrefix(x, d)
  BY <1>9, <1>10, SameSequences, Zenon DEF l
<1> QED
  BY <1>11, SameSequences, Zenon DEF d

LEMMA EndWordIs ==
  ASSUME NEW f, NEW m, NEW w, w = Tracked!DeclaredEndWord(f, m)
  PROVE  Tracked!InputWord(f, m, w).eom = TRUE
  BY DEF Tracked!InputWord

LEMMA NoEndWordIs ==
  ASSUME NEW f, NEW m, NEW w, w # Tracked!DeclaredEndWord(f, m)
  PROVE  Tracked!InputWord(f, m, w).eom = FALSE
  BY DEF Tracked!InputWord

\* What the filter puts out for a message's cycles is the message.
PutOut(words, input, F, E) ==
  /\ words \in Seq({OutAt(input, F + i) : i \in 1 .. E}) /\ Len(words) = E
  /\ \A i \in 1 .. E : words[i] = OutAt(input, F + i)

LEMMA WordsAreMessage ==
  ASSUME NEW f \in TrackedFrames, NEW input, NEW I, NEW P, Carried(f, input, I, P),
         NEW m \in 1 .. Len(f.counts),
         NEW words, PutOut(words, input, First(I, P, m), Span(f, m))
  PROVE  Tracked!IsMessage(words, f, m)
<1> DEFINE E == Span(f, m)
           F == First(I, P, m)
           a == Tracked!StartWord(f, m)
           o == Offset(f, m)
           l == MessageEnd(f, m) - o
           R(i) == Tracked!Realign(input, F + i)
           D == [i \in 1 .. E |-> R(i)]
<1>1. /\ F \in Nat /\ E \in Nat /\ a \in Nat
      /\ \A i \in 1 .. E : input[F + i] = Tracked!InputWord(f, m, a + i - 1)
  BY WordsCarried, MessageLies
<1>2. o \in Nat /\ l \in Nat /\ l <= 8 * E
  <2> DEFINE e == MessageEnd(f, m)
             z == Tracked!EndWord(f, m)
             r == Tracked!StartByte(f, m)
  <2>1. /\ o \in Nat /\ e \in Nat /\ z \in Nat /\ a \in Nat /\ r \in 0 .. 7
        /\ o + 10 <= e /\ e <= 8 * z + 8 /\ o = 8 * a + r /\ E = z - a + 1 /\ l = e - o
    BY MessageLies DEF Span
  <2> HIDE DEF e, z, r, E, a, o, l
  <2> QED
    BY <2>1
<1>3. \A i \in 1 .. E :
        /\ R(i) = [b \in 1 .. 8 |-> R(i)[b]]
        /\ \A b \in 1 .. 8 : o + 8 * (i - 1) + b - 1 < MessageEnd(f, m) =>
             R(i)[b] = {o + 8 * (i - 1) + b - 1}
  BY RealignedByte
<1>5. Tracked!Message(f, m) = [i \in 1 .. l |-> {o + i - 1}]
  BY MessageOf
<1>6. MessageEnd(f, m) = o + l
  BY MessageLies
<1>7. /\ Len(words) = E /\ DOMAIN words = 1 .. E
      /\ \A i \in 1 .. E : words[i] = OutAt(input, F + i)
  BY DEF PutOut
<1> HIDE DEF E, F, a, o, l, R
<1>8. PICK n \in Nat : n = 8
  OBVIOUS
<1>9. \A i \in 1 .. E :
        words[i].data = R(i) /\ words[i].sof = input[F + i].som /\ words[i].eof = input[F + i].eom
  <2> TAKE i \in 1 .. E
  <2>1. words[i] = OutAt(input, F + i)
    BY <1>7
  <2> QED
    BY <2>1 DEF OutAt, R
<1>10. [i \in DOMAIN words |-> words[i].data] = D
  BY <1>7, <1>9
<1>11. Tracked!IsPrefix(Tracked!Message(f, m), Tracked!FlattenSeq(D))
  <2>1. D = [i \in 1 .. E |-> D[i]] /\ \A i \in 1 .. E : D[i] = R(i)
    OBVIOUS
  <2> HIDE DEF D
  <2>2. \A i \in 1 .. E : D[i] = [b \in 1 .. 8 |-> D[i][b]]
    BY <1>3, <2>1, Zenon
  <2>3. ASSUME NEW i \in 1 .. E, NEW b \in 1 .. 8, (i - 1) * 8 + b <= l
        PROVE  D[i][b] = {o + ((i - 1) * 8 + b) - 1}
    <3>1. o + 8 * (i - 1) + b - 1 < o + l
      BY <1>1, <1>2, <2>3
    <3>2. R(i)[b] = {o + 8 * (i - 1) + b - 1}
      BY <1>3, <1>6, <3>1
    <3>3. o + 8 * (i - 1) + b - 1 = o + ((i - 1) * 8 + b) - 1
      BY <1>1, <1>2
    <3> QED
      BY <2>1, <3>2, <3>3
  <2> DEFINE x == Tracked!Message(f, m)
             T == {R(i)[b] : i \in 1 .. E, b \in 1 .. 8}
             X == {{o + k - 1} : k \in 1 .. l}
  <2>4. \A i \in 1 .. E : \A b \in 1 .. 8 : R(i)[b] \in T
    OBVIOUS
  <2>5. \A k \in 1 .. l : {o + k - 1} \in X
    OBVIOUS
  <2> HIDE DEF x, T, X
  <2>6. x \in Seq(X) /\ Len(x) = l /\ \A k \in 1 .. l : x[k] = {o + k - 1}
    <3>1. x = [k \in 1 .. l |-> {o + k - 1}]
      BY <1>5 DEF x
    <3>2. x \in [1 .. l -> X]
      BY <2>5, <3>1
    <3>3. x \in Seq(X) /\ Len(x) = l
      BY <1>2, <3>2
    <3>4. \A k \in 1 .. l : x[k] = {o + k - 1}
      BY <3>1
    <3> QED
      BY <3>3, <3>4
  <2>7. \A i \in 1 .. E : D[i] \in Seq(T) /\ Len(D[i]) = n
    <3> TAKE i \in 1 .. E
    <3>1. [b \in 1 .. 8 |-> R(i)[b]] \in [1 .. 8 -> T]
      BY <2>4
    <3>2. D[i] \in [1 .. n -> T]
      BY <1>3, <1>8, <2>1, <3>1
    <3> QED
      BY <3>2
  <2>8. D \in Seq(Seq(T)) /\ Len(D) = E
    <3>1. D \in [1 .. E -> Seq(T)]
      BY <2>1, <2>7
    <3> QED
      BY <1>1, <3>1
  <2>9. n \in Nat \ {0} /\ \A i \in 1 .. Len(D) : Len(D[i]) = n
    BY <1>8, <2>7, <2>8
  <2>10. Len(x) <= Len(D) * n
    <3>1. l <= E * n
      BY <1>1, <1>2, <1>8
    <3> QED
      BY <2>6, <2>8, <3>1
  <2>11. \A k \in 1 .. Len(x) : x[k] = {o + k - 1}
    BY <2>6
  <2>12. \A i \in 1 .. Len(D) : \A b \in 1 .. n :
           (i - 1) * n + b <= Len(x) => D[i][b] = {o + ((i - 1) * n + b) - 1}
    BY <1>8, <2>3, <2>6, <2>8, Zenon
  <2>13. o \in Nat /\ x \in Seq(X) /\ D \in Seq(Seq(T))
    BY <1>2, <2>6, <2>8
  <2>14. Tracked!IsPrefix(x, Tracked!FlattenSeq(D))
    BY <2>9, <2>10, <2>11, <2>12, <2>13, BytesInOrder, Zenon
  <2> QED
    BY <2>14 DEF x
<1> HIDE DEF D
<1>12. ASSUME NEW i \in 1 .. E PROVE words[i].sof <=> i = 1
  <2>1. words[i].sof = Tracked!InputWord(f, m, a + i - 1).som
    BY <1>1, <1>9
  <2>2. CASE i = 1
    <3>1. a + i - 1 = a
      BY <1>1, <2>2
    <3>2. Tracked!InputWord(f, m, a).som = TRUE
      BY FirstWordIs, Zenon DEF a
    <3> QED
      BY <2>1, <2>2, <3>1, <3>2
  <2>3. CASE i # 1
    <3>1. a + i - 1 # a
      BY <1>1, <2>3
    <3>2. Tracked!InputWord(f, m, a + i - 1).som = FALSE
      BY <3>1, LaterWordIs, Zenon DEF a
    <3> QED
      BY <2>1, <2>3, <3>2
  <2> QED
    BY <2>2, <2>3
<1>13. ASSUME NEW i \in 1 .. E PROVE words[i].eof <=> a + i - 1 = Tracked!DeclaredEndWord(f, m)
  <2>1. words[i].eof = Tracked!InputWord(f, m, a + i - 1).eom
    BY <1>1, <1>9
  <2>2. CASE a + i - 1 = Tracked!DeclaredEndWord(f, m)
    BY <2>1, <2>2, EndWordIs, Zenon
  <2>3. CASE a + i - 1 # Tracked!DeclaredEndWord(f, m)
    BY <2>1, <2>3, NoEndWordIs, Zenon
  <2> QED
    BY <2>2, <2>3
<1>14. Len(words) = Tracked!EndWord(f, m) - Tracked!StartWord(f, m) + 1
  BY <1>7 DEF E, Span
<1>15. \A i \in DOMAIN words :
         /\ words[i].sof <=> i = 1
         /\ words[i].eof <=> Tracked!StartWord(f, m) + i - 1 = Tracked!DeclaredEndWord(f, m)
  BY <1>7, <1>12, <1>13, Zenon DEF a
<1> QED
  BY <1>10, <1>11, <1>14, <1>15, Zenon DEF Tracked!IsMessage

\* The output has the wanted messages, each as far in as those before it are long.
LEMMA FilteredFrame ==
  ASSUME NEW f \in TrackedFrames, NEW idle, Idles(f, idle),
         NEW wanted \in SUBSET (1 .. Len(f.counts))
  PROVE  LET o == Tracked!FilteringKernel(Tracked!FrameInput(f, idle), Filter(f, wanted))
             B == BeforeOf(f, wanted)
         IN /\ Len(o) = B[Len(f.counts) + 1]
            /\ \A m \in wanted :
                 Tracked!IsMessage(SubSeq(o, B[m] + 1, B[m] + Span(f, m)), f, m)
<1> DEFINE input == Tracked!FrameInput(f, idle)
           filter == Filter(f, wanted)
           n == Len(f.counts)
           I == Len(idle)
           o == Tracked!FilteringKernel(input, filter)
           B == BeforeOf(f, wanted)
           Out(t) == OutAt(input, t)
<1>1. n \in Nat \ {0}
  BY OffsetsRule
<1>2. PICK P : Carried(f, input, I, P)
  BY FrameCycles, Zenon
<1> HIDE DEF input, I, o, B
<1> DEFINE N == P[n]
           T == {Out(t) : t \in 1 .. N}
<1>3. N \in Nat /\ Len(input) = N + 1
  BY <1>1, <1>2 DEF Carried
<1> HIDE DEF N, n
<1>4. PICK Q \in [0 .. N -> Nat] :
        /\ Q[0] = 0
        /\ \A t \in 1 .. N : Passes(input, filter, t) => Q[t] = Q[t - 1] + 1
        /\ \A t \in 1 .. N : ~Passes(input, filter, t) => Q[t] = Q[t - 1]
        /\ o \in Seq(T) /\ Len(o) = Q[N]
        /\ \A t \in 1 .. N : Passes(input, filter, t) => o[Q[t]] = Out(t) /\ Q[t] <= Q[N]
  BY <1>3, KernelOutput, Zenon DEF o
<1>5. Counts(Q, input, Filter(f, wanted), N)
  BY <1>4, Zenon DEF Counts
<1>6. \A m \in 1 .. n + 1 : B[m] = Q[P[m - 1]]
  <2>1. N \in Nat
    BY <1>3
  <2>2. \A m \in 1 .. Len(f.counts) + 1 : BeforeOf(f, wanted)[m] = Q[P[m - 1]]
    BY <1>2, <1>3, <1>5, <2>1, BeforeCounts, SMTT(60)
  <2> QED
    BY <2>2, Zenon DEF n, B
<1>7. Len(o) = B[n + 1]
  <2>1. n + 1 \in 1 .. n + 1 /\ (n + 1) - 1 = n
    BY <1>1
  <2> QED
    BY <1>4, <1>6, <2>1 DEF N
<1>8. ASSUME NEW m \in wanted
      PROVE  Tracked!IsMessage(SubSeq(o, B[m] + 1, B[m] + Span(f, m)), f, m)
  <2> DEFINE F == First(I, P, m)
             E == Span(f, m)
             b == B[m]
             words == SubSeq(o, b + 1, b + E)
  <2>1. m \in 1 .. n
    BY DEF n
  <2>2. /\ F \in Nat /\ E \in Nat /\ E >= 2 /\ P[m - 1] \in Nat /\ P[m] \in Nat /\ I \in Nat
        /\ F + E < P[m] /\ P[m] < Len(input)
    BY <1>2, <2>1, WordsCarried DEF n
  <2>3. F = P[m - 1] + I
    BY DEF First
  <2>4. \A w \in 1 .. E : Q[F + w] = Q[P[m - 1]] + w
    BY <1>2, <1>3, <1>5, <2>1, CountOfMessage, SMTT(40) DEF n
  <2>5. \A t \in P[m - 1] + 1 .. P[m] :
          Passes(input, filter, t) <=> m \in wanted /\ t \in F + 1 .. F + E
    BY <1>2, <2>1, PassesIs, Zenon DEF n
  <2>6. b = Q[P[m - 1]]
    <3>1. m \in 1 .. n + 1
      BY <1>1, <2>1
    <3> QED
      BY <1>6, <3>1
  <2> HIDE DEF F, E, b, filter, Out, T
  <2>7. b \in Nat /\ Q[N] \in Nat
    <3>1. P[m - 1] \in 0 .. N /\ N \in 0 .. N
      BY <1>3, <2>2, <2>3, SMTT(20)
    <3> QED
      BY <1>4, <2>6, <3>1
  <2>8. \A w \in 1 .. E : o[b + w] = Out(F + w) /\ b + w <= Q[N]
    <3> TAKE w \in 1 .. E
    <3>1. F + w \in 1 .. N /\ F + w \in P[m - 1] + 1 .. P[m] /\ F + w \in F + 1 .. F + E
      <4>1. F + w \in P[m - 1] + 1 .. P[m]
        BY <2>2, <2>3, SMTT(40)
      <4>2. F + w \in 1 .. N
        BY <1>3, <2>2
      <4>3. F + w \in F + 1 .. F + E
        BY <2>2
      <4> QED
        BY <4>1, <4>2, <4>3
    <3>2. Passes(input, filter, F + w)
      BY <2>5, <3>1
    <3>3. o[Q[F + w]] = Out(F + w) /\ Q[F + w] <= Q[N]
      BY <1>4, <3>1, <3>2
    <3>4. Q[F + w] = b + w
      BY <2>4, <2>6
    <3> QED
      BY <3>3, <3>4
  <2>9. b + E <= Len(o)
    <3>1. E \in 1 .. E
      BY <2>2
    <3> QED
      BY <1>4, <2>8, <3>1
  <2>10. words = [i \in 1 .. E |-> o[b + i]]
    BY <1>4, <2>2, <2>7, <2>9, PartOf
  <2> HIDE DEF words
  <2>11. PutOut(words, input, F, E)
    <3> DEFINE W == {OutAt(input, F + i) : i \in 1 .. E}
    <3>1. \A i \in 1 .. E : words[i] = OutAt(input, F + i)
      BY <2>8, <2>10 DEF Out
    <3>2. \A i \in 1 .. E : OutAt(input, F + i) \in W
      OBVIOUS
    <3> HIDE DEF W
    <3>3. words = [i \in 1 .. E |-> words[i]] /\ \A i \in 1 .. E : words[i] \in W
      BY <2>10, <3>1, <3>2
    <3>4. words \in Seq(W) /\ Len(words) = E
      BY <2>2, <3>3, IsSeqOf
    <3> QED
      BY <3>1, <3>4 DEF W, PutOut
  <2>12. Tracked!IsMessage(words, f, m)
    BY <1>2, <2>1, <2>11, WordsAreMessage, Zenon DEF F, E, n
  <2> QED
    BY <2>12 DEF words, b, E
<1> QED
  BY <1>7, <1>8, Zenon DEF n, o, B, input, filter

\* The idle cycles there may be.
LEMMA IdleCycles ==
  ASSUME NEW f, NEW marks \in Seq(BOOLEAN)
  PROVE  Idles(f, [i \in DOMAIN marks |-> Tracked!NoInput(marks[i], 2)])
<1> DEFINE C == Cycles(f)
           n == Len(marks)
           Cycle(i) == Tracked!NoInput(marks[i], 2)
           idle == [i \in DOMAIN marks |-> Cycle(i)]
<1>1. n \in Nat /\ DOMAIN marks = 1 .. n /\ \A i \in 1 .. n : marks[i] \in BOOLEAN
  OBVIOUS
<1>2. \A i \in 1 .. n : Cycle(i) \in C
  BY <1>1, NoInputOf
<1>3. \A i \in 1 .. n : ~Cycle(i).valid
  BY DEF Tracked!NoInput
<1> HIDE DEF C, n, Cycle
<1>4. \A i \in 1 .. n : idle[i] = Cycle(i)
  BY <1>1
<1>5. idle = [i \in 1 .. n |-> idle[i]]
  BY <1>1
<1> HIDE DEF idle
<1>6. idle \in Seq(C) /\ Len(idle) = n
  <2>1. \A i \in 1 .. n : idle[i] \in C
    BY <1>2, <1>4
  <2> QED
    BY <1>1, <1>5, <2>1, IsSeqOf
<1>7. \A i \in 1 .. Len(idle) : ~idle[i].valid
  BY <1>3, <1>4, <1>6
<1> QED
  BY <1>6, <1>7 DEF Idles, C, idle, Cycle

LEMMA FilterSample ==
  ASSUME FilterFrame
  PROVE  \E f \in TrackedFrames, marks \in Seq(BOOLEAN) : \E wanted \in SUBSET (1 .. Len(f.counts)) :
           sample' =
             [of |-> "filter", frame |-> f, wanted |-> wanted,
              output |-> Tracked!FilteringKernel(
                           Tracked!FrameInput(f, [i \in DOMAIN marks |-> Tracked!NoInput(marks[i], 2)]),
                           Filter(f, wanted))]
<1>1. PICK f \in TrackedFrames, marks \in {<<>>, <<TRUE>>, <<FALSE, TRUE>>} :
        \E wanted \in SUBSET DOMAIN f.counts :
          sample' =
            [of |-> "filter", frame |-> f, wanted |-> wanted,
             output |-> Tracked!FilteringKernel(
                          Tracked!FrameInput(f, [i \in DOMAIN marks |-> Tracked!NoInput(marks[i], 2)]),
                          {Tracked!FieldC(f, m) : m \in wanted})]
  BY Zenon DEF FilterFrame
<1>2. marks \in Seq(BOOLEAN)
  <2>1. <<>> \in Seq(BOOLEAN) /\ <<TRUE>> \in Seq(BOOLEAN) /\ <<FALSE, TRUE>> \in Seq(BOOLEAN)
    OBVIOUS
  <2> QED
    BY <2>1
<1>3. DOMAIN f.counts = 1 .. Len(f.counts)
  <2>1. f.counts \in Seq(Nat)
    BY FramesAssumption
  <2> QED
    BY <2>1
<1> QED
  BY <1>1, <1>2, <1>3, Zenon DEF Filter

LEMMA FilterStep == FilteredRight /\ [Next]_sample => FilteredRight'
<1> SUFFICES ASSUME FilteredRight, [Next]_sample PROVE FilteredRight'
  OBVIOUS
<1>1. CASE FilterFrame
  <2>1. PICK f \in TrackedFrames, marks \in Seq(BOOLEAN) :
          \E wanted \in SUBSET (1 .. Len(f.counts)) :
            sample' =
              [of |-> "filter", frame |-> f, wanted |-> wanted,
               output |-> Tracked!FilteringKernel(
                            Tracked!FrameInput(f, [i \in DOMAIN marks |-> Tracked!NoInput(marks[i], 2)]),
                            Filter(f, wanted))]
    BY <1>1, FilterSample, Zenon
  <2> DEFINE idle == [i \in DOMAIN marks |-> Tracked!NoInput(marks[i], 2)]
  <2>2. Idles(f, idle)
    BY IdleCycles, Zenon
  <2> HIDE DEF idle
  <2>3. PICK wanted \in SUBSET (1 .. Len(f.counts)) :
          sample' =
            [of |-> "filter", frame |-> f, wanted |-> wanted,
             output |-> Tracked!FilteringKernel(Tracked!FrameInput(f, idle), Filter(f, wanted))]
    BY <2>1, Zenon DEF idle
  <2> DEFINE o == Tracked!FilteringKernel(Tracked!FrameInput(f, idle), Filter(f, wanted))
             B == BeforeOf(f, wanted)
  <2>4. /\ Len(o) = B[Len(f.counts) + 1]
        /\ \A m \in wanted : Tracked!IsMessage(SubSeq(o, B[m] + 1, B[m] + Span(f, m)), f, m)
    BY <2>2, FilteredFrame, Zenon
  <2>5. sample'.frame = f /\ sample'.wanted = wanted /\ sample'.output = o
    <3> HIDE DEF o
    <3> QED
      BY <2>3 DEF o
  <2> HIDE DEF o
  <2> HIDE DEF B
  <2>6. B = BeforeOf(sample'.frame, sample'.wanted)
    BY <2>5, Zenon DEF B
  <2>7. /\ Len(sample'.output) = B[Len(sample'.frame.counts) + 1]
        /\ \A m \in sample'.wanted :
             Tracked!IsMessage(SubSeq(sample'.output, B[m] + 1, B[m] + Span(sample'.frame, m)),
                               sample'.frame, m)
    BY <2>4, <2>5, Zenon
  <2> QED
    BY <2>6, <2>7, Zenon DEF FilteredRight, BeforeOf, Span
<1>2. CASE sample' = sample
  BY <1>2, Zenon DEF FilteredRight
<1>3. CASE sample'.of # "filter"
  BY <1>3, Zenon DEF FilteredRight
<1>4. sample' = sample \/ FilterFrame \/ sample'.of # "filter"
  BY KindOfSample DEF Next
<1> QED
  BY <1>1, <1>2, <1>3, <1>4

\* The messages whose field C is in the filter come out whole, aligned, as one
\* frame each and in their order, and nothing else does, for every frame.
THEOREM MessagesAreFiltered == Spec => []FilteredRight
<1>1. Init => FilteredRight
  BY DEF Init, FilteredRight
<1> QED
  BY <1>1, FilterStep, PTL DEF Spec

-----------------------------------------------------------------------------
\* The test hosts.

\* The bytes of a frame, and how many of them a fragment has at most.
Byte == Int \cup Data
Frame == Seq(Byte)
Largest == FragmentWords * LinkBytes

\* Datagrams aside, requests and answers are bytes.
FramesOK ==
  /\ request \in Frame
  /\ collected \in Seq(Frame) /\ toEngine \in Seq(Frame)
  /\ pending \in Seq(Frame) /\ toHost \in Seq(Frame)
  /\ judged \in Seq([request : Frame, answer : Seq(Frame)])

HostTypeOK ==
  /\ program \in Programs /\ round \in Nat /\ faults \in Nat
  /\ pc \in {"configure", "acquire", "fill", "write", "collect", "failed", "done"}
  /\ program = "RomFrameGen" => sizes \in [0 .. NumMessageTypes - 1 -> MessageSizes]
  /\ program # "Tracker" => FramesOK
  /\ Main.ring => Len(collected) <= 1

\* Until the engine is configured nothing is asked of it.
Untouched ==
  /\ toEngine = <<>> /\ pending = <<>> /\ toHost = <<>> /\ judged = <<>>
  /\ collected = <<>>

Ready ==
  \/ /\ config = Configuration
     /\ program = "RomFrameGen" => sizes[0] # 0
     /\ pc # "configure"
  \/ Untouched /\ pc \in {"configure", "failed"}

\* The round of the newest request that may have left the program.
Newest == IF pc \in {"collect", "failed"} THEN round ELSE round - 1

Asked ==
  program # "Tracker" =>
    /\ pc \in {"write", "collect"} => request \in Requests(round)
    /\ \A i \in 1 .. Len(toEngine) :
         \E r \in 0 .. Newest :
           /\ toEngine[i] \in Requests(r)
           /\ pc = "collect" /\ r = round => toEngine[i] = request

\* Every frame that answers a request of a single byte has at most one.
Short(frames) == \A i \in 1 .. Len(frames) : Len(frames[i]) <= 1

AnswersShort ==
  program \in {"LatencyTest", "DirectLatencyTest"} =>
    Short(pending) /\ Short(toHost) /\ Short(collected)

\* What the fragmenter sends while the newest request is that of round now,
\* of n bytes.  The bytes of all requests are different, so the first byte of
\* a frame, unless it is wrong, tells from which request and from which place
\* in it the frame is; and there it is no longer than a fragment may be.
BeginsAt(f, r, j) == f[1] = (r * MaxFrameSize) + (j * Largest) + 1

Fragment(f, now, n) ==
  /\ Len(f) <= Largest
  /\ \/ f = <<>> \/ f[1] = -1
     \/ \E r, j \in Nat :
          /\ r <= now /\ BeginsAt(f, r, j) /\ (j * Largest) + 1 < MaxFrameSize
          /\ r = now => (j * Largest) + Len(f) <= n

Fragments(frames, now, n) == \A i \in 1 .. Len(frames) : Fragment(frames[i], now, n)

RequestSize == IF pc = "collect" THEN Len(request) ELSE MaxFrameSize

AnswersFragments ==
  program = "Fragmenter" =>
    /\ Fragments(pending, Newest, RequestSize)
    /\ Fragments(toHost, Newest, RequestSize)

\* What the fragmenter's test has accumulated.  Some of it may be wrong; but if
\* it agrees with the request, it is not longer, and then, if the fragments are
\* as few as its length allows, they are the first parts of the request.
Agrees(a, req) == \A k \in 1 .. Len(a) : k \in 1 .. Len(req) => a[k] = req[k]

Gathered(frames, a, req) ==
  Agrees(a, req) =>
    /\ Len(a) <= Len(req) /\ Len(a) <= Len(frames) * Largest
    /\ Len(a) > (Len(frames) - 1) * Largest =>
         \A i \in 1 .. Len(frames) :
           frames[i] = SubSeq(req, (i - 1) * Largest + 1,
                              IF i < Len(frames) THEN i * Largest ELSE Len(a))

CollectedGathered ==
  program = "Fragmenter" /\ pc = "collect" => Gathered(collected, Accumulated, request)

\* A frame that stays in its slot until it has been compared.
AnswerHeld == Main.ring /\ pc = "collect" /\ collected # <<>> => toHost # <<>>

\* The answers that were accepted so far.
JudgedRight ==
  Main.compares => \A n \in 1 .. Len(judged) : judged[n].answer = Promise(judged[n].request)

TestInv ==
  /\ HostTypeOK /\ Ready /\ Asked /\ AnswersShort /\ AnswersFragments
  /\ CollectedGathered /\ AnswerHeld /\ JudgedRight

\* How much is on its way while the engine keeps its promises: nothing, one
\* frame or the request for it, or the request or all the fragments of it, less
\* those that have been collected.
Quiet == toEngine = <<>> /\ pending = <<>> /\ toHost = <<>>

OneFrame ==
  /\ Len(toEngine) + Len(pending) + Len(toHost) <= 1
  /\ collected # <<>> => toHost # <<>>

AllFragments ==
  \/ toEngine = <<request>> /\ pending = <<>> /\ toHost = <<>> /\ collected = <<>>
  \/ /\ toEngine = <<>>
     /\ Len(collected) + Len(toHost) + Len(pending) = ExpectedFragments(Len(request))

OnItsWay ==
  faults = 0 =>
    /\ pc \in {"configure", "acquire", "fill", "write"} => Quiet
    /\ pc = "collect" /\ Main.ring => OneFrame
    /\ pc = "collect" /\ program = "Fragmenter" => AllFragments
    /\ program = "Tracker" => round = 0 \/ pc \in {"done", "failed"}

-----------------------------------------------------------------------------

\* What has been accumulated grows by what is appended.
LEMMA FlattenIsSeq ==
  ASSUME NEW T, NEW s \in Seq(Seq(T))
  PROVE  FlattenSeq(s) \in Seq(T)
<1>1. CASE Len(s) = 0
  BY <1>1 DEF FlattenSeq
<1>2. CASE Len(s) > 0
  <2>1. \E f \in [1 .. Len(s) -> Seq(T)] :
          /\ FlattenSeq(s) = f[Len(s)]
          /\ \A i \in 1 .. Len(s) : f[i] = IF i = 1 THEN s[i] ELSE f[i - 1] \o s[i]
    BY <1>2, FlattenFunction
  <2>2. Len(s) \in 1 .. Len(s)
    BY <1>2
  <2> QED
    BY <2>1, <2>2
<1> QED
  BY <1>1, <1>2

LEMMA FlattenAppend ==
  ASSUME NEW T, NEW s \in Seq(Seq(T)), NEW p \in Seq(T)
  PROVE  FlattenSeq(Append(s, p)) = FlattenSeq(s) \o p
<1> DEFINE n == Len(s)
           t == Append(s, p)
<1>1. /\ n \in Nat /\ t \in Seq(Seq(T)) /\ Len(t) = n + 1 /\ t[n + 1] = p
      /\ \A i \in 1 .. n : t[i] = s[i]
  BY AppendProperties
<1> HIDE DEF t
<1>5. t \in Seq(Seq(T)) /\ Len(t) > 0
  BY <1>1
<1>2. PICK g \in [1 .. Len(t) -> Seq(T)] :
        /\ FlattenSeq(t) = g[Len(t)]
        /\ \A i \in 1 .. Len(t) : g[i] = IF i = 1 THEN t[i] ELSE g[i - 1] \o t[i]
  BY <1>5, FlattenFunction
<1>3. CASE n = 0
  <2>1. FlattenSeq(s) = <<>> /\ s = <<>>
    BY <1>3 DEF FlattenSeq
  <2>2. FlattenSeq(t) = p
    BY <1>1, <1>2, <1>3
  <2> QED
    BY <2>1, <2>2 DEF t
<1>4. CASE n > 0
  <2>1. PICK f \in [1 .. n -> Seq(T)] :
          /\ FlattenSeq(s) = f[n]
          /\ \A i \in 1 .. n : f[i] = IF i = 1 THEN s[i] ELSE f[i - 1] \o s[i]
    BY <1>4, FlattenFunction
  <2> HIDE DEF n
  <2> DEFINE U == {i \in Nat : i + 1 \in 1 .. n => f[i + 1] = g[i + 1]}
  <2>2. 0 \in U
    <3>1. 1 \in 1 .. n /\ 1 \in 1 .. Len(t)
      BY <1>1, <1>4
    <3>2. f[1] = s[1] /\ g[1] = t[1] /\ t[1] = s[1]
      BY <1>1, <1>2, <2>1, <3>1
    <3> QED
      BY <3>2
  <2>3. \A i \in U : i + 1 \in U
    <3> SUFFICES ASSUME NEW i \in U, i + 2 \in 1 .. n PROVE f[i + 2] = g[i + 2]
      OBVIOUS
    <3>1. i \in Nat /\ i + 2 # 1 /\ (i + 2) - 1 = i + 1 /\ f[i + 1] = g[i + 1]
      BY <1>1
    <3>2. f[i + 2] = f[i + 1] \o s[i + 2]
      BY <2>1, <3>1
    <3>3. i + 2 \in 1 .. Len(t) /\ t[i + 2] = s[i + 2]
      BY <1>1, <3>1
    <3>4. g[i + 2] = g[i + 1] \o t[i + 2]
      BY <1>2, <3>1, <3>3
    <3> QED
      BY <3>1, <3>2, <3>3, <3>4
  <2>4. U = Nat
    <3> HIDE DEF U
    <3>1. U \subseteq Nat
      BY DEF U
    <3> QED
      BY <2>2, <2>3, <3>1, SetInduction
  <2>5. f[n] = g[n]
    <3> HIDE DEF U
    <3>1. n - 1 \in U /\ (n - 1) + 1 = n /\ n \in 1 .. n
      BY <1>1, <1>4, <2>4
    <3> QED
      BY <3>1 DEF U
  <2>6. g[n + 1] = g[n] \o p
    <3>1. n + 1 \in 1 .. Len(t) /\ n + 1 # 1 /\ (n + 1) - 1 = n
      BY <1>1, <1>4
    <3> QED
      BY <1>1, <1>2, <3>1
  <2>7. n \in 1 .. n
    BY <1>1, <1>4
  <2> QED
    BY <1>1, <1>2, <2>1, <2>5, <2>6, <2>7 DEF t
<1> QED
  BY <1>1, <1>3, <1>4

-----------------------------------------------------------------------------
\* What the programs do besides their steps.
LEMMA KindsOfTests ==
  ASSUME program \in Tests
  PROVE  /\ Main.ring <=> program \notin {"Fragmenter", "Tracker"}
         /\ Main.compares <=> program \notin {"Gap", "Tracker"}
         /\ program = "Tracker" => Main.rounds = 1
  BY DEF Main, Tests, LatencyTest, DirectLatencyTest, Gap, HeaderInserter, Fragmenter,
         RomFrameGen, Tracker

\* The last byte of a frame taken off, or replaced.
LEMMA FrontOf ==
  ASSUME NEW T, NEW f \in Seq(T), NEW b \in T
  PROVE  /\ Front(f) \in Seq(T) /\ Front(f) \o <<b>> \in Seq(T)
         /\ Len(Front(f)) = (IF f = <<>> THEN 0 ELSE Len(f) - 1)
         /\ \A i \in 1 .. Len(Front(f)) : Front(f)[i] = f[i]
         /\ Len(Front(f) \o <<b>>) = (IF f = <<>> THEN 1 ELSE Len(f))
         /\ (Front(f) \o <<b>>)[1] = (IF Len(f) <= 1 THEN b ELSE f[1])
<1>1. Len(f) \in Nat /\ (f = <<>> <=> Len(f) = 0)
  OBVIOUS
<1>2. /\ Front(f) \in Seq(T)
      /\ Len(Front(f)) = (IF Len(f) = 0 THEN 0 ELSE Len(f) - 1)
      /\ \A i \in 1 .. Len(Front(f)) : Front(f)[i] = f[i]
  BY <1>1 DEF Front
<1> QED
  BY <1>1, <1>2

-----------------------------------------------------------------------------
\* What configure_roms writes for a frame of size bytes, if the ROM is not
\* too large for its indices.
SectionFits(t) == MaxMessageSizeWords * (t + 1) <= 65536

InWords(size, q, mod) ==
  /\ q \in 1 .. MaxMessageSizeWords /\ mod \in 0 .. WordSizeBytes - 1
  /\ size = (q - 1) * WordSizeBytes + (IF mod = 0 THEN WordSizeBytes ELSE mod)

Entry(p, q, mod) == [startIndex |-> p, endIndex |-> p + q - 1, frameMod |-> mod]

LEMMA MetadataOf ==
  ASSUME NEW t \in Nat, SectionFits(t),
         NEW size \in 1 .. MaxMessageSizeWords * WordSizeBytes - 1
  PROVE  \E q, mod \in Nat :
           /\ InWords(size, q, mod)
           /\ Metadata(t, size) = Entry(MaxMessageSizeWords * t, q, mod)
           /\ SentBytes(Metadata(t, size)) = size
<1> USE SectionAssumption
<1> DEFINE S == MaxMessageSizeWords
           q == BytesToWords(size)
           mod == size % WordSizeBytes
<1>1. S * (t + 1) = S * t + S /\ S * t \in Nat /\ S \in Nat
  OBVIOUS
<1>2. q \in Nat /\ mod \in Nat /\ InWords(size, q, mod)
  BY WordsOf DEF BytesToWords, WordSizeBytes, InWords
<1>3. UInt16(S * t + q - 1) = S * t + q - 1
  BY <1>1, <1>2 DEF UInt16, InWords, SectionFits
<1>4. Metadata(t, size) = Entry(S * t, q, mod)
  BY <1>3 DEF Metadata, Entry
<1> HIDE DEF q, mod
<1>5. SentBytes(Metadata(t, size)) = size
  BY <1>1, <1>2, <1>4 DEF SentBytes, WordSizeBytes, InWords, Entry
<1> QED
  BY <1>2, <1>4, <1>5

\* The frame made from the ROM for a type is the beginning of what the
\* program wrote there.
LEMMA FunctionIsSeq ==
  ASSUME NEW T, NEW n \in Nat, NEW f \in [1 .. n -> T]
  PROVE  f \in Seq(T) /\ Len(f) = n
  OBVIOUS

LEMMA RomAnswer ==
  ASSUME NEW t \in Nat, SectionFits(t),
         NEW size \in 1 .. MaxMessageSizeWords * WordSizeBytes - 1
  PROVE  /\ RomFrame(Metadata(t, size)) = [k \in 1 .. size |-> FrameBuffer(t)[k]]
         /\ RomFrame(Metadata(t, size)) \in Seq(Int)
         /\ Len(RomFrame(Metadata(t, size))) = size
<1> USE SectionAssumption DEF WordSizeBytes
<1> DEFINE m == Metadata(t, size)
           p == MaxMessageSizeWords * t
<1>1. PICK q, mod \in Nat : InWords(size, q, mod) /\ m = Entry(p, q, mod) /\ SentBytes(m) = size
  BY MetadataOf
<1>2. /\ p \in Nat /\ mod \in 0 .. 3 /\ q \in Nat /\ q >= 1
      /\ size = (q - 1) * 4 + (IF mod = 0 THEN 4 ELSE mod)
  BY <1>1 DEF InWords
<1>3. m.startIndex = p /\ m.endIndex = p + q - 1 /\ m.frameMod = mod
  BY <1>1 DEF Entry
<1>4. \A k \in 1 .. size : FrameBuffer(t)[k] = p * 4 + k
  BY DEF FrameBuffer, RomByte
<1> HIDE DEF m, p
<1> DEFINE s == [i \in 1 .. q |-> FrameRom(p + i - 1, m)]
<1> DEFINE ByteOf(i, b) == IF i # q \/ mod = 0 \/ b <= mod THEN (p + i - 1) * 4 + b ELSE 0
<1>5. ASSUME NEW i \in 1 .. q
      PROVE  FrameRom(p + i - 1, m) = [b \in 1 .. 4 |-> ByteOf(i, b)]
  <2> DEFINE word == [b \in 1 .. 4 |-> (p + i - 1) * 4 + b]
  <2>1. FrameRom(p + i - 1, m) = IF i = q THEN ApplyMod(word, mod) ELSE word
    BY <1>2, <1>3 DEF FrameRom, RomByte
  <2>2. ApplyMod(word, mod)
          = [b \in 1 .. 4 |-> IF mod = 0 \/ b <= mod THEN (p + i - 1) * 4 + b ELSE 0]
    BY DEF ApplyMod
  <2> QED
    BY <2>1, <2>2
<1>6. s \in Seq(Seq(Int)) /\ Len(s) = q /\ \A i \in 1 .. Len(s) : Len(s[i]) = 4
  <2>1. ASSUME NEW i \in 1 .. q
        PROVE  FrameRom(p + i - 1, m) \in Seq(Int) /\ Len(FrameRom(p + i - 1, m)) = 4
    <3>1. \A b \in 1 .. 4 : ByteOf(i, b) \in Int
      BY <1>2
    <3> HIDE DEF ByteOf
    <3>2. FrameRom(p + i - 1, m) \in [1 .. 4 -> Int]
      BY <1>5, <3>1
    <3>3. 4 \in Nat
      OBVIOUS
    <3> QED
      BY <3>2, <3>3, FunctionIsSeq, Zenon
  <2>2. DOMAIN s = 1 .. q /\ \A i \in 1 .. q : s[i] \in Seq(Int) /\ Len(s[i]) = 4
    BY <2>1
  <2>3. s \in Seq(Seq(Int)) /\ Len(s) = q
    <3>1. s \in [1 .. q -> Seq(Int)]
      BY <2>1
    <3> HIDE DEF s
    <3> QED
      BY <1>2, <3>1, FunctionIsSeq
  <2> QED
    BY <2>2, <2>3
<1> HIDE DEF s
<1>7. FlattenSeq(s) = [k \in 1 .. q * 4 |-> s[(k - 1) \div 4 + 1][((k - 1) % 4) + 1]]
  <2>1. FlattenSeq(s) = [k \in 1 .. Len(s) * 4 |-> s[(k - 1) \div 4 + 1][((k - 1) % 4) + 1]]
    <3>1. 4 \in Nat \ {0}
      OBVIOUS
    <3> QED
      BY <1>6, <3>1, FlattenWords, ZenonT(60)
  <2> QED
    BY <1>6, <2>1
<1>8. ASSUME NEW k \in 1 .. size
      PROVE  k \in 1 .. q * 4 /\ FlattenSeq(s)[k] = p * 4 + k
  <2> DEFINE i == (k - 1) \div 4
             b == ((k - 1) % 4) + 1
  <2>1. k = i * 4 + b /\ i \in Nat /\ b \in 1 .. 4 /\ i + 1 \in 1 .. q /\ k \in 1 .. q * 4
    BY <1>1, <1>2
  <2>2. FlattenSeq(s)[k] = s[i + 1][b]
    BY <1>7, <2>1
  <2> HIDE DEF i, b
  <2>3. s[i + 1][b] = IF i + 1 # q \/ mod = 0 \/ b <= mod THEN (p + i) * 4 + b ELSE 0
    <3>1. s[i + 1] = FrameRom(p + (i + 1) - 1, m)
      BY <2>1 DEF s
    <3>2. FrameRom(p + (i + 1) - 1, m)[b]
            = IF i + 1 # q \/ mod = 0 \/ b <= mod THEN (p + (i + 1) - 1) * 4 + b ELSE 0
      BY <1>5, <2>1
    <3>3. p + (i + 1) - 1 = p + i
      BY <1>2, <2>1
    <3> QED
      BY <3>1, <3>2, <3>3
  <2>4. i + 1 # q \/ mod = 0 \/ b <= mod
    BY <1>1, <1>2, <2>1
  <2> QED
    BY <1>2, <2>1, <2>2, <2>3, <2>4
<1>9. RomFrame(m) = SubSeq(FlattenSeq(s), 1, size)
  <2>1. m.endIndex - m.startIndex + 1 = q
    BY <1>2, <1>3
  <2>2. RomFrame(m) =
          SubSeq(FlattenSeq([i \in 1 .. m.endIndex - m.startIndex + 1 |->
                               FrameRom(m.startIndex + i - 1, m)]), 1, SentBytes(m))
    BY Zenon DEF RomFrame
  <2> QED
    BY <1>1, <1>3, <2>1, <2>2, Zenon DEF s
<1>10. FlattenSeq(s) \in Seq(Int) /\ size <= Len(FlattenSeq(s))
  <2>1. FlattenSeq(s) \in Seq(Int)
    BY <1>6, FlattenIsSeq
  <2>2. Len(FlattenSeq(s)) = q * 4
    BY <1>2, <1>7, <2>1
  <2>3. size <= q * 4
    BY <1>1, <1>2
  <2> QED
    BY <2>1, <2>2, <2>3
<1>11. RomFrame(m) = [k \in 1 .. size |-> p * 4 + k]
  <2>1. SubSeq(FlattenSeq(s), 0 + 1, 0 + size) = [k \in 1 .. size |-> FlattenSeq(s)[0 + k]]
    BY <1>10, PartOf
  <2>2. RomFrame(m) = [k \in 1 .. size |-> FlattenSeq(s)[k]]
    BY <1>9, <2>1
  <2> QED
    BY <1>8, <2>2
<1>12. /\ [k \in 1 .. size |-> p * 4 + k] \in Seq(Int)
       /\ Len([k \in 1 .. size |-> p * 4 + k]) = size
  BY <1>2
<1> QED
  BY <1>4, <1>11, <1>12 DEF m

-----------------------------------------------------------------------------
\* Fragments.
LEMMA TimesGrows ==
  ASSUME NEW a \in Int, NEW b \in Int, NEW n \in Nat, a <= b
  PROVE  a * n <= b * n
<1>1. (b - a) * n = b * n - a * n /\ (b - a) * n >= 0
  OBVIOUS
<1> QED
  BY <1>1

LEMMA DivisionIs ==
  ASSUME NEW n \in Nat \ {0}, NEW N \in Nat, NEW m \in 0 .. n - 1, NEW a, a = N * n + m
  PROVE  a \div n = N
<1>1. a + 1 \in Nat \ {0} /\ N * n \in Nat
  OBVIOUS
<1>2. (N + 1) * n = N * n + n
  OBVIOUS
<1>3. a + 1 > N * n /\ a + 1 <= (N + 1) * n /\ (a + 1) - 1 = a /\ a \div n \in Nat
  BY <1>1, <1>2
<1>4. a \div n >= N
  BY <1>1, <1>3, PlaceOf
<1>5. a \div n < N + 1
  <2>1. N + 1 \in Nat
    OBVIOUS
  <2> QED
    BY <1>1, <1>3, <2>1, PlaceOf
<1> QED
  BY <1>3, <1>4, <1>5

\* As many parts as the program expects; part i + 1 begins behind byte i * n.
PartAt(frame, n, i) ==
  SubSeq(frame, (i - 1) * n + 1, IF i * n < Len(frame) THEN i * n ELSE Len(frame))

LEMMA PartsOf ==
  ASSUME NEW T, NEW frame \in Seq(T), NEW n \in Nat \ {0}
  PROVE  /\ Parts(frame, n) \in Seq(Seq(T))
         /\ Len(Parts(frame, n))
              = (Len(frame) \div n) + (IF Len(frame) % n # 0 THEN 1 ELSE 0)
         /\ \A i \in 1 .. Len(Parts(frame, n)) :
              (i - 1) * n < Len(frame) /\ Parts(frame, n)[i] = PartAt(frame, n, i)
         /\ Len(Parts(frame, n)) * n >= Len(frame)
<1> DEFINE L == Len(frame)
           whole == L \div n
           rest == L % n
           N == whole + (IF rest # 0 THEN 1 ELSE 0)
<1>1. /\ L \in Nat /\ whole \in Nat /\ rest \in 0 .. n - 1 /\ L = n * whole + rest
      /\ N \in Nat
  OBVIOUS
<1> HIDE DEF L, whole, rest
<1>2. n * whole = whole * n /\ whole * n \in Nat /\ (whole + 1) * n = whole * n + n
  BY <1>1
<1>3. (L + n - 1) \div n = N
  <2>1. CASE rest = 0
    <3>1. n - 1 \in 0 .. n - 1 /\ L + n - 1 = whole * n + (n - 1)
      BY <1>1, <1>2, <2>1
    <3> QED
      BY <1>1, <2>1, <3>1, DivisionIs
  <2>2. CASE rest # 0
    <3>1. rest - 1 \in 0 .. n - 1 /\ L + n - 1 = (whole + 1) * n + (rest - 1)
      BY <1>1, <1>2, <2>2
    <3>2. whole + 1 \in Nat /\ N = whole + 1
      BY <1>1, <2>2
    <3> QED
      BY <3>1, <3>2, DivisionIs
  <2> QED
    BY <2>1, <2>2
<1>4. (N * n >= L /\ (N - 1) * n < L) \/ N = 0
  <2>1. CASE rest = 0
    <3>1. N = whole /\ (whole - 1) * n = whole * n - n
      BY <1>1, <2>1
    <3>2. L = whole * n /\ whole * n - n < L
      BY <1>1, <1>2, <2>1
    <3> QED
      BY <3>1, <3>2
  <2>2. CASE rest # 0
    <3>1. N = whole + 1 /\ (N - 1) = whole
      BY <1>1, <2>2
    <3> QED
      BY <1>1, <1>2, <2>2, <3>1
  <2> QED
    BY <2>1, <2>2
<1>5. N * n >= L
  <2>1. N = 0 => N * n >= L
    <3>1. N = 0 => whole = 0 /\ rest = 0
      BY <1>1
    <3>2. whole = 0 /\ rest = 0 => L = 0
      BY <1>1
    <3> QED
      BY <3>1, <3>2
  <2> QED
    BY <1>4, <2>1
<1> HIDE DEF N
<1>6. ASSUME NEW i \in 1 .. N PROVE (i - 1) * n < L
  <2>1. i \in Int /\ i - 1 \in Int /\ N - 1 \in Int /\ i - 1 <= N - 1 /\ N # 0 /\ n \in Nat
    BY <1>1
  <2>2. (i - 1) * n <= (N - 1) * n /\ (i - 1) * n \in Int /\ (N - 1) * n \in Int
    BY <2>1, TimesGrows
  <2> QED
    BY <1>1, <1>4, <2>1, <2>2
<1>7. Parts(frame, n) = [i \in 1 .. N |-> PartAt(frame, n, i)]
  BY <1>3 DEF Parts, PartAt, L
<1>8. ASSUME NEW i \in 1 .. N PROVE PartAt(frame, n, i) \in Seq(T)
  <2>1. (i - 1) * n \in Nat /\ i * n \in Nat
    BY <1>1
  <2> DEFINE from == (i - 1) * n
             to == i * n
  <2> HIDE DEF from, to
  <2>2. from \in Nat /\ to \in Nat
    BY <2>1 DEF from, to
  <2>3. SubSeq(frame, from + 1, IF to < Len(frame) THEN to ELSE Len(frame)) \in Seq(T)
    BY <2>2
  <2> QED
    BY <2>3 DEF PartAt, from, to
<1>9. [i \in 1 .. N |-> PartAt(frame, n, i)] \in [1 .. N -> Seq(T)]
  BY <1>8
<1>10. Parts(frame, n) \in Seq(Seq(T)) /\ Len(Parts(frame, n)) = N
  BY <1>1, <1>7, <1>9, FunctionIsSeq
<1>11. \A i \in 1 .. N : Parts(frame, n)[i] = PartAt(frame, n, i)
  BY <1>7
<1> QED
  BY <1>5, <1>6, <1>10, <1>11 DEF N, whole, rest, L

-----------------------------------------------------------------------------
\* What the programs ask for, and what they are promised.
LEMMA HostConstants ==
  /\ Largest \in Nat \ {0} /\ Largest = FragmentWords * LinkBytes
  /\ MaxFrameSize \in Nat /\ MaxFrameSize > 1
  /\ NumMessageTypes \in Nat \ {0} /\ Slots \in Nat \ {0} /\ Rounds \in Nat \ {0}
  /\ program \in Programs => program \in Tests
<1>1. \A a, b \in Nat \ {0} : a * b \in Nat \ {0}
  OBVIOUS
<1> QED
  BY <1>1, SizeAssumption, ProgramsAssumption DEF Largest

LEMMA IntsAreBytes ==
  /\ Seq(Int) \subseteq Frame
  /\ \A f \in Frame, g \in Frame : f \o g \in Frame
  /\ \A f \in Frame : Len(f) \in Nat
  /\ <<-1>> \in Frame /\ -1 \in Byte
<1>1. Int \subseteq Byte
  BY DEF Byte
<1>2. \A f \in Seq(Int) : f \in Seq(Byte)
  BY <1>1
<1> QED
  BY <1>1, <1>2 DEF Frame

\* Bytes from the program's generator, all different.
Generated(req, r) ==
  /\ Len(req) \in 1 .. MaxFrameSize - 1
  /\ \A k \in 1 .. Len(req) : req[k] = (r * MaxFrameSize) + k

LEMMA RequestsOf ==
  ASSUME program \in Tests, program # "Tracker", NEW r \in Nat, NEW req \in Requests(r)
  PROVE  /\ req \in Frame
         /\ program \in {"LatencyTest", "DirectLatencyTest"} => Len(req) = 1
         /\ program = "HeaderInserter" => req # <<>> /\ req[1] = HeaderIndex
         /\ program = "Fragmenter" => Generated(req, r)
         /\ program = "RomFrameGen" => req = <<r % NumMessageTypes>>
<1>1. CASE program \in {"LatencyTest", "DirectLatencyTest"}
  <2>1. Requests(r) = {<<d>> : d \in Data}
    BY <1>1 DEF Requests
  <2>2. PICK d \in Data : req = <<d>>
    BY <2>1
  <2>3. <<d>> \in Frame /\ Len(<<d>>) = 1
    BY DEF Frame, Byte
  <2> QED
    BY <1>1, <2>2, <2>3
<1>2. CASE program = "Gap"
  <2>1. req = <<IF r % 2 = 1 THEN 71 ELSE 78>>
    BY <1>2 DEF Requests, GapRequest
  <2>2. req \in Seq(Int)
    BY <2>1
  <2> QED
    BY <1>2, <2>2, IntsAreBytes
<1>3. CASE program = "HeaderInserter"
  <2>1. req = <<HeaderIndex>> \o [s \in 1 .. r |-> s - 1]
    BY <1>3 DEF Requests, HeaderRequest
  <2>2. [s \in 1 .. r |-> s - 1] \in Seq(Int) /\ HeaderIndex \in Int
    BY DEF HeaderIndex
  <2> DEFINE data == [s \in 1 .. r |-> s - 1]
  <2> HIDE DEF data
  <2>3. <<HeaderIndex>> \o data \in Seq(Int) /\ (<<HeaderIndex>> \o data)[1] = HeaderIndex
        /\ <<HeaderIndex>> \o data # <<>>
    BY <2>2 DEF data
  <2> QED
    BY <1>3, <2>1, <2>3, IntsAreBytes DEF data
<1>4. CASE program = "Fragmenter"
  <2>1. PICK n \in 1 .. MaxFrameSize - 1 : req = [k \in 1 .. n |-> (r * MaxFrameSize) + k]
    BY <1>4 DEF Requests, GenFrameData
  <2>2. n \in Nat /\ r * MaxFrameSize \in Int
    BY HostConstants
  <2>3. req \in [1 .. n -> Int]
    BY <2>1, <2>2
  <2>4. req \in Seq(Int) /\ Len(req) = n
    BY <2>2, <2>3, FunctionIsSeq
  <2>5. Generated(req, r)
    BY <2>1, <2>4 DEF Generated
  <2> QED
    BY <1>4, <2>4, <2>5, IntsAreBytes
<1>5. CASE program = "RomFrameGen"
  <2>1. req = <<r % NumMessageTypes>>
    BY <1>5 DEF Requests, RomRequest
  <2>2. req \in Seq(Int)
    BY <2>1, HostConstants
  <2> QED
    BY <1>5, <2>1, <2>2, IntsAreBytes
<1> QED
  BY <1>1, <1>2, <1>3, <1>4, <1>5 DEF Tests

LEMMA HeaderIs ==
  /\ ExpectedHeader \in Seq(Int) /\ Len(ExpectedHeader) = 4 /\ HeaderSize = 4
  /\ InsertedHeader(CpuRom[HeaderIndex]) = ExpectedHeader
<1>1. InsertedHeader(CpuRom[HeaderIndex]) = ExpectedHeader
  BY DEF InsertedHeader, ExpectedHeader
<1>2. CpuRom[HeaderIndex] = [cpuData1 |-> 4096 + HeaderIndex, cpuData2 |-> 34]
  BY DEF CpuRom, RomEntries, HeaderIndex
<1>3. CpuRom[HeaderIndex].cpuData1 \in Int /\ CpuRom[HeaderIndex].cpuData2 \in Int
  BY <1>2 DEF HeaderIndex
<1>4. Hfb \in Int /\ Hfc \in Int
  BY DEF Hfb, Hfc
<1> QED
  BY <1>1, <1>3, <1>4 DEF ExpectedHeader, HeaderSize

\* The frame of a type of message.
TypeFrame(type) == [k \in 1 .. sizes[type] |-> FrameBuffer(type)[k]]

LEMMA TypeFrameOf ==
  ASSUME program = "RomFrameGen", NEW t \in 0 .. NumMessageTypes - 1,
         sizes \in [0 .. NumMessageTypes - 1 -> MessageSizes], sizes[0] # 0
  PROVE  /\ RomFrame(Metadata(t, sizes[t])) = TypeFrame(t)
         /\ TypeFrame(t) \in Seq(Int) /\ Len(TypeFrame(t)) = sizes[t]
         /\ sizes[t] \in Nat
<1>1. sizes[t] \in 0 .. MaxMessageSizeWords * WordSizeBytes - 1 /\ t \in Nat
      /\ MaxMessageSizeWords \in Nat \ {0}
  <2>1. sizes[t] \in MessageSizes /\ t \in Nat
    BY HostConstants
  <2>2. MessageSizes \subseteq 0 .. MaxMessageSizeWords * WordSizeBytes - 1
    BY SMT, SizeAssumption
  <2> QED
    BY <2>1, <2>2, SectionAssumption
<1>2. SectionFits(t)
  <2>1. MaxMessageSizeWords * (t + 1) <= MaxMessageSizeWords * NumMessageTypes
    BY <1>1, HostConstants, TimesGrows
  <2>2. MaxMessageSizeWords * (t + 1) \in Int /\ MaxMessageSizeWords * NumMessageTypes \in Int
    BY <1>1, HostConstants
  <2> QED
    BY SMT, <2>1, <2>2, SizeAssumption DEF SectionFits
<1>3. CASE sizes[t] > 0
  <2>1. sizes[t] \in 1 .. MaxMessageSizeWords * WordSizeBytes - 1
    BY <1>1, <1>3
  <2> DEFINE size == sizes[t]
  <2> HIDE DEF size
  <2>2. size \in 1 .. MaxMessageSizeWords * WordSizeBytes - 1 /\ t \in Nat
    BY <1>1, <2>1 DEF size
  <2>3. /\ RomFrame(Metadata(t, size)) = [k \in 1 .. size |-> FrameBuffer(t)[k]]
        /\ RomFrame(Metadata(t, size)) \in Seq(Int)
        /\ Len(RomFrame(Metadata(t, size))) = size
    BY <1>2, <2>2, RomAnswer
  <2>4. TypeFrame(t) = [k \in 1 .. size |-> FrameBuffer(t)[k]] /\ size \in Nat
    BY <1>1 DEF TypeFrame, size
  <2>5. RomFrame(Metadata(t, size)) = TypeFrame(t)
    BY <2>3, <2>4
  <2>6. TypeFrame(t) \in Seq(Int) /\ Len(TypeFrame(t)) = size
    BY <2>3, <2>5
  <2> QED
    BY <2>4, <2>5, <2>6 DEF size
<1>4. CASE sizes[t] = 0
  <2>1. t > 0 /\ TypeFrame(t) = <<>>
    BY <1>4, <1>1 DEF TypeFrame
  <2> DEFINE p == MaxMessageSizeWords * t
  <2>2. p \in Nat /\ p > 0 /\ p <= MaxMessageSizeWords * (t + 1)
    BY <1>1, <2>1
  <2> HIDE DEF p
  <2>3. Metadata(t, 0) = [startIndex |-> p, endIndex |-> p - 1, frameMod |-> 0]
    <3>1. BytesToWords(0) = 0 /\ 0 % WordSizeBytes = 0
      BY DEF BytesToWords, WordSizeBytes
    <3>2. UInt16(p + 0 - 1) = p - 1
      <4>1. MaxMessageSizeWords * (t + 1) \in Int /\ MaxMessageSizeWords * (t + 1) <= 65536
        BY SMT, <1>1, <1>2 DEF SectionFits
      <4>2. p <= 65536
        BY SMT, <2>2, <4>1
      <4> QED
        BY SMT, <2>2, <4>2 DEF UInt16
    <3> QED
      BY <3>1, <3>2 DEF Metadata, p
  <2> DEFINE m == Metadata(t, 0)
  <2>4. m.startIndex = p /\ m.endIndex = p - 1 /\ m.frameMod = 0
    BY <2>3
  <2> HIDE DEF m
  <2>5. SentBytes(m) = 0 /\ m.endIndex - m.startIndex + 1 = 0
    BY <2>2, <2>4 DEF SentBytes, WordSizeBytes
  <2>6. RomFrame(m) = SubSeq(FlattenSeq([i \in 1 .. 0 |-> FrameRom(m.startIndex + i - 1, m)]), 1, 0)
    BY <2>5 DEF RomFrame
  <2>7. [i \in 1 .. 0 |-> FrameRom(m.startIndex + i - 1, m)] = <<>>
    OBVIOUS
  <2>8. FlattenSeq(<<>>) = <<>>
    BY DEF FlattenSeq
  <2>9. RomFrame(m) = <<>>
    BY <2>6, <2>7, <2>8
  <2> QED
    BY <1>4, <2>1, <2>9 DEF m
<1> QED
  BY <1>1, <1>3, <1>4

\* What the engine promises, once it is configured.
LEMMA PromiseIs ==
  ASSUME HostTypeOK, config = Configuration, program # "Tracker",
         program = "RomFrameGen" => sizes[0] # 0,
         NEW r \in Nat, NEW req \in Requests(r)
  PROVE  /\ program \in {"LatencyTest", "DirectLatencyTest", "Gap"} => Promise(req) = <<req>>
         /\ program = "HeaderInserter" => Promise(req) = <<ExpectedHeader \o req>>
         /\ program = "Fragmenter" => Promise(req) = Parts(req, Largest)
         /\ program = "RomFrameGen" =>
              /\ req[1] \in 0 .. NumMessageTypes - 1
              /\ Promise(req) = <<TypeFrame(req[1])>>
<1>1. program \in Tests
  BY HostConstants DEF HostTypeOK
<1>2. CASE program \in {"LatencyTest", "DirectLatencyTest", "Gap"}
  BY <1>2 DEF Promise
<1>3. CASE program = "HeaderInserter"
  <2>1. config = CpuRom /\ req[1] = HeaderIndex
    BY <1>1, <1>3, RequestsOf DEF Configuration
  <2>2. Promise(req) = <<InsertedHeader(config[req[1]]) \o req>>
    BY <1>3 DEF Promise
  <2> QED
    BY <1>3, <2>1, <2>2, HeaderIs
<1>4. CASE program = "Fragmenter"
  <2>1. config = FragmentWords
    BY <1>4 DEF Configuration
  <2>2. Promise(req) = Parts(req, config * LinkBytes)
    BY <1>4 DEF Promise
  <2> QED
    BY <1>4, <2>1, <2>2, HostConstants
<1>5. CASE program = "RomFrameGen"
  <2> DEFINE t == r % NumMessageTypes
  <2>1. req[1] = t /\ t \in 0 .. NumMessageTypes - 1
    BY <1>1, <1>5, RequestsOf, HostConstants
  <2>2. sizes \in [0 .. NumMessageTypes - 1 -> MessageSizes]
    BY <1>5 DEF HostTypeOK
  <2>3. config = [type \in DOMAIN sizes |-> Metadata(type, sizes[type])]
    BY <1>5 DEF Configuration
  <2> HIDE DEF t
  <2>4. config[t] = Metadata(t, sizes[t])
    BY <2>1, <2>2, <2>3
  <2>5. Promise(req) = <<RomFrame(config[req[1]])>>
    BY <1>5 DEF Promise
  <2>6. RomFrame(config[t]) = TypeFrame(t)
    BY <1>5, <2>1, <2>2, <2>4, TypeFrameOf
  <2> QED
    BY <1>5, <2>1, <2>5, <2>6
<1> QED
  BY <1>1, <1>2, <1>3, <1>4, <1>5 DEF Tests

\* Promised frames are frames, and one at a time but for the fragmenter's.
LEMMA PromiseTyped ==
  ASSUME HostTypeOK, config = Configuration, program # "Tracker",
         program = "RomFrameGen" => sizes[0] # 0,
         NEW r \in Nat, NEW req \in Requests(r)
  PROVE  /\ Promise(req) \in Seq(Frame)
         /\ program # "Fragmenter" => Len(Promise(req)) = 1
         /\ program \in {"LatencyTest", "DirectLatencyTest"} => Short(Promise(req))
         /\ program = "Fragmenter" => Len(Promise(req)) = ExpectedFragments(Len(req))
<1>1. program \in Tests /\ req \in Frame
  BY HostConstants, RequestsOf DEF HostTypeOK
<1>2. CASE program \in {"LatencyTest", "DirectLatencyTest", "Gap"}
  <2>1. Promise(req) = <<req>>
    BY <1>2, PromiseIs
  <2>2. program # "Gap" => Len(req) = 1
    BY <1>1, <1>2, RequestsOf
  <2>3. <<req>> \in Seq(Frame) /\ Len(<<req>>) = 1
    BY <1>1
  <2>4. ASSUME Len(req) <= 1 PROVE Short(<<req>>)
    <3> DEFINE s == <<req>>
    <3>1. \A i \in 1 .. Len(s) : s[i] = req
      OBVIOUS
    <3> HIDE DEF s
    <3>2. \A i \in 1 .. Len(s) : Len(s[i]) <= 1
      BY <2>4, <3>1
    <3> QED
      BY <3>2 DEF Short, s
  <2>5. program # "Gap" => Short(<<req>>)
    <3>1. 1 <= 1
      OBVIOUS
    <3>2. program # "Gap" => Len(req) <= 1
      BY <2>2, <3>1, Zenon
    <3> QED
      BY <2>4, <3>2
  <2> QED
    BY <1>2, <2>1, <2>3, <2>5
<1>3. CASE program = "HeaderInserter"
  <2>1. Promise(req) = <<ExpectedHeader \o req>>
    BY <1>3, PromiseIs
  <2>2. ExpectedHeader \o req \in Frame
    BY <1>1, HeaderIs, IntsAreBytes
  <2> QED
    BY <1>3, <2>1, <2>2
<1>4. CASE program = "Fragmenter"
  <2>1. Promise(req) = Parts(req, Largest)
    BY <1>4, PromiseIs
  <2>2. /\ Parts(req, Largest) \in Seq(Seq(Byte))
        /\ Len(Parts(req, Largest))
             = (Len(req) \div Largest) + (IF Len(req) % Largest # 0 THEN 1 ELSE 0)
    BY <1>1, HostConstants, PartsOf DEF Frame
  <2>3. ExpectedFragments(Len(req))
          = (Len(req) \div Largest) + (IF Len(req) % Largest # 0 THEN 1 ELSE 0)
    BY DEF ExpectedFragments, Largest
  <2> QED
    BY <1>4, <2>1, <2>2, <2>3 DEF Frame
<1>5. CASE program = "RomFrameGen"
  <2>1. req[1] \in 0 .. NumMessageTypes - 1 /\ Promise(req) = <<TypeFrame(req[1])>>
    BY <1>5, PromiseIs
  <2>2. TypeFrame(req[1]) \in Frame
    BY <1>5, <2>1, TypeFrameOf, IntsAreBytes DEF HostTypeOK
  <2> QED
    BY <1>5, <2>1, <2>2
<1> QED
  BY <1>1, <1>2, <1>3, <1>4, <1>5 DEF Tests

-----------------------------------------------------------------------------
\* What the engine makes of a frame when it breaks its promise.
LEMMA BrokenOf ==
  ASSUME NEW f \in Frame, NEW frames \in Broken(f)
  PROVE  /\ frames \in Seq(Frame)
         /\ \A i \in 1 .. Len(frames) :
              \/ frames[i] = f \/ frames[i] = Front(f) \/ frames[i] = Front(f) \o <<-1>>
<1>1. /\ f \in Frame /\ Front(f) \in Frame /\ Front(f) \o <<-1>> \in Frame
  BY FrontOf, IntsAreBytes DEF Frame
<1> DEFINE a == Front(f)
           b == Front(f) \o <<-1>>
<1> HIDE DEF a, b
<1>2. a \in Frame /\ b \in Frame
  BY <1>1 DEF a, b
<1>3. frames \in {<<>>, <<a>>, <<b>>, <<f, f>>}
  BY DEF Broken, a, b
<1>4. frames \in Seq(Frame) /\ \A i \in 1 .. Len(frames) : frames[i] \in {f, a, b}
  <2>1. ASSUME NEW g \in Frame
        PROVE  /\ <<g>> \in Seq(Frame) /\ Len(<<g>>) = 1
               /\ <<g, g>> \in Seq(Frame) /\ Len(<<g, g>>) = 2
               /\ \A i \in 1 .. Len(<<g>>) : <<g>>[i] = g
               /\ \A i \in 1 .. Len(<<g, g>>) : <<g, g>>[i] = g
    OBVIOUS
  <2>2. CASE frames = <<>>
    BY <2>2
  <2>3. CASE frames = <<a>>
    BY <1>2, <2>1, <2>3, Zenon
  <2>4. CASE frames = <<b>>
    BY <1>2, <2>1, <2>4, Zenon
  <2>5. CASE frames = <<f, f>>
    BY <2>1, <2>5, Zenon
  <2> QED
    BY <1>3, <2>2, <2>3, <2>4, <2>5
<1> QED
  BY <1>4 DEF a, b

LEMMA BrokenShort ==
  ASSUME NEW f \in Frame, Len(f) <= 1, NEW frames \in Broken(f)
  PROVE  Short(frames)
<1>1. /\ Len(Front(f)) = (IF f = <<>> THEN 0 ELSE Len(f) - 1)
      /\ Len(Front(f) \o <<-1>>) = (IF f = <<>> THEN 1 ELSE Len(f))
  BY FrontOf, IntsAreBytes DEF Frame
<1>2. Len(Front(f)) <= 1 /\ Len(Front(f) \o <<-1>>) <= 1
  BY <1>1, IntsAreBytes
<1> QED
  BY <1>2, BrokenOf DEF Short

\* A fragment of an earlier request is one whatever the newest request is.
LEMMA FragmentStays ==
  ASSUME NEW f, NEW now \in Int, NEW n \in Int, NEW later \in Int, NEW m \in Int,
         Fragment(f, now, n), now < later \/ (now = later /\ n <= m),
         Len(f) \in Nat
  PROVE  Fragment(f, later, m)
<1>1. CASE f = <<>> \/ f[1] = -1
  BY <1>1 DEF Fragment
<1>2. CASE ~(f = <<>> \/ f[1] = -1)
  <2>1. PICK r, j \in Nat :
          /\ r <= now /\ BeginsAt(f, r, j) /\ (j * Largest) + 1 < MaxFrameSize
          /\ r = now => (j * Largest) + Len(f) <= n
    BY <1>2 DEF Fragment
  <2>2. j * Largest \in Int
    BY HostConstants
  <2>3. r <= later /\ (r = later => (j * Largest) + Len(f) <= m)
    BY <2>1, <2>2
  <2> QED
    BY <2>1, <2>3 DEF Fragment
<1> QED
  BY <1>1, <1>2

LEMMA FragmentsStay ==
  ASSUME NEW frames \in Seq(Frame), NEW now \in Int, NEW n \in Int, NEW later \in Int,
         NEW m \in Int, Fragments(frames, now, n), now < later \/ (now = later /\ n <= m)
  PROVE  Fragments(frames, later, m)
<1> SUFFICES ASSUME NEW i \in 1 .. Len(frames) PROVE Fragment(frames[i], later, m)
  BY DEF Fragments
<1>1. Fragment(frames[i], now, n) /\ Len(frames[i]) \in Nat
  BY IntsAreBytes DEF Fragments
<1> QED
  BY <1>1, FragmentStays

\* The parts of a request are its fragments.
LEMMA PartsAreFragments ==
  ASSUME NEW r \in Nat, NEW req \in Frame, Generated(req, r)
  PROVE  Fragments(Parts(req, Largest), r, Len(req))
<1> SUFFICES ASSUME NEW i \in 1 .. Len(Parts(req, Largest))
             PROVE  Fragment(Parts(req, Largest)[i], r, Len(req))
  BY DEF Fragments
<1> DEFINE f == Parts(req, Largest)[i]
           j == i - 1
           from == j * Largest
           to == IF i * Largest < Len(req) THEN i * Largest ELSE Len(req)
<1>1. Len(Parts(req, Largest)) \in Nat /\ from < Len(req) /\ f = PartAt(req, Largest, i)
  <2>1. req \in Seq(Byte) /\ Largest \in Nat \ {0}
    BY HostConstants DEF Frame
  <2>2. Parts(req, Largest) \in Seq(Seq(Byte))
    BY <2>1, PartsOf
  <2>3. \A k \in 1 .. Len(Parts(req, Largest)) :
          (k - 1) * Largest < Len(req) /\ Parts(req, Largest)[k] = PartAt(req, Largest, k)
    BY <2>1, PartsOf
  <2>4. Len(Parts(req, Largest)) \in Nat
    BY <2>2
  <2>5. /\ (i - 1) * Largest < Len(req)
        /\ Parts(req, Largest)[i] = PartAt(req, Largest, i)
    BY <2>3, Zenon
  <2> QED
    BY <2>4, <2>5, Zenon
<1>2. /\ j \in Nat /\ from \in Nat /\ i * Largest = from + Largest
      /\ Len(req) \in Nat /\ Len(req) < MaxFrameSize
  <2>1. Len(req) \in Nat /\ Len(req) < MaxFrameSize
    BY HostConstants, IntsAreBytes DEF Generated
  <2>2. i \in Nat /\ i >= 1
    BY <1>1
  <2>3. (i - 1) * Largest \in Nat /\ i * Largest = ((i - 1) * Largest) + Largest
    BY <2>2, HostConstants
  <2> QED
    BY <2>1, <2>2, <2>3
<1>3. to \in Nat /\ from < to /\ to <= from + Largest /\ to <= Len(req)
  BY <1>1, <1>2, HostConstants
<1>4. f = SubSeq(req, from + 1, to)
  BY <1>1 DEF PartAt
<1> HIDE DEF f, j, from, to
<1>5. Len(f) = to - from /\ f[1] = req[from + 1]
  BY <1>2, <1>3, <1>4 DEF Frame
<1>6. from + 1 \in 1 .. Len(req)
  BY <1>1, <1>2
<1>7. req[from + 1] = (r * MaxFrameSize) + (from + 1)
  BY <1>6 DEF Generated
<1>8. BeginsAt(f, r, j)
  <2>1. r * MaxFrameSize \in Int
    BY HostConstants
  <2> QED
    BY <1>2, <1>5, <1>7, <2>1 DEF BeginsAt, from
<1>9. from + 1 < MaxFrameSize /\ from + Len(f) <= Len(req) /\ Len(f) <= Largest
  BY <1>1, <1>2, <1>3, <1>5, HostConstants
<1> QED
  BY <1>2, <1>8, <1>9 DEF Fragment, f, from

\* A broken fragment is none, shorter, or begins the same.
LEMMA BrokenFragments ==
  ASSUME NEW f \in Frame, NEW now \in Int, NEW n \in Int, Fragment(f, now, n),
         NEW frames \in Broken(f)
  PROVE  Fragments(frames, now, n)
<1> DEFINE a == Front(f)
           b == Front(f) \o <<-1>>
<1>1. /\ a \in Frame /\ b \in Frame
      /\ Len(a) = (IF f = <<>> THEN 0 ELSE Len(f) - 1)
      /\ \A i \in 1 .. Len(a) : a[i] = f[i]
      /\ Len(b) = (IF f = <<>> THEN 1 ELSE Len(f))
      /\ b[1] = (IF Len(f) <= 1 THEN -1 ELSE f[1])
  BY FrontOf, IntsAreBytes DEF Frame
<1>2. \A i \in 1 .. Len(frames) : frames[i] \in {f, a, b}
  BY BrokenOf
<1> HIDE DEF a, b
<1>3. /\ Len(f) \in Nat /\ Len(a) \in Nat /\ Len(b) \in Nat
      /\ f = <<>> <=> Len(f) = 0
      /\ a = <<>> <=> Len(a) = 0
  <2>1. \A g \in Frame : Len(g) \in Nat /\ (g = <<>> <=> Len(g) = 0)
    BY DEF Frame
  <2> QED
    BY <1>1, <2>1, Zenon
<1>4. Len(f) <= Largest /\ Len(a) <= Largest /\ Len(b) <= Largest
  BY <1>1, <1>3, HostConstants DEF Fragment
<1>5. ASSUME NEW g \in Frame, Len(g) <= Len(f), Len(g) <= Largest, Len(g) > 0, g[1] = f[1],
             f # <<>>
      PROVE  Fragment(g, now, n)
  <2>1. CASE f[1] = -1
    BY <1>5, <2>1 DEF Fragment
  <2>2. CASE f[1] # -1
    <3>1. PICK r, j \in Nat :
            /\ r <= now /\ BeginsAt(f, r, j) /\ (j * Largest) + 1 < MaxFrameSize
            /\ r = now => (j * Largest) + Len(f) <= n
      BY <1>5, <2>2 DEF Fragment
    <3>2. j * Largest \in Int /\ Len(g) \in Nat
      BY HostConstants, IntsAreBytes
    <3>3. BeginsAt(g, r, j) /\ (r = now => (j * Largest) + Len(g) <= n)
      BY <1>3, <1>5, <3>1, <3>2 DEF BeginsAt
    <3> QED
      BY <1>5, <3>1, <3>3 DEF Fragment
  <2> QED
    BY <2>1, <2>2
<1>6. Fragment(a, now, n)
  <2>1. CASE a = <<>>
    BY <1>4, <2>1 DEF Fragment
  <2>2. CASE a # <<>>
    <3>1. Len(a) > 0 /\ Len(a) <= Len(f) /\ f # <<>> /\ a[1] = f[1]
      BY <1>1, <1>3, <2>2
    <3> QED
      BY <1>1, <1>4, <1>5, <3>1
  <2> QED
    BY <2>1, <2>2
<1>7. Fragment(b, now, n)
  <2>1. CASE Len(f) <= 1
    BY <1>1, <1>4, <2>1 DEF Fragment
  <2>2. CASE Len(f) > 1
    <3>1. Len(b) = Len(f) /\ Len(b) > 0 /\ b[1] = f[1] /\ f # <<>>
      BY <1>1, <1>3, <2>2
    <3>2. Len(b) <= Len(f)
      BY <1>3, <3>1
    <3> QED
      BY <1>1, <1>4, <1>5, <3>1, <3>2
  <2> QED
    BY <1>3, <2>1, <2>2
<1> QED
  BY <1>2, <1>6, <1>7 DEF Fragments

-----------------------------------------------------------------------------
\* What has been accumulated of a request that agrees with it is made of the
\* request's first parts, whatever else the engine sent.
LEMMA TimesLess ==
  ASSUME NEW a \in Int, NEW b \in Int, NEW n \in Nat, a * n < b * n
  PROVE  a < b
<1>1. a * n \in Int /\ b * n \in Int
  OBVIOUS
<1>2. b <= a => b * n <= a * n
  BY TimesGrows
<1> QED
  BY <1>1, <1>2

\* A byte has one place in one request.
LEMMA RequestOfByte ==
  ASSUME NEW r \in Nat, NEW q \in Nat, NEW M \in Nat, NEW x \in 1 .. M - 1,
         NEW y \in 1 .. M - 1, q <= r, (r * M) + x = (q * M) + y
  PROVE  q = r /\ x = y
<1>1. r * M \in Int /\ q * M \in Int
  OBVIOUS
<1>2. q < r => (q * M) + M <= r * M
  <2>1. (q + 1) * M = (q * M) + M
    OBVIOUS
  <2>2. q < r => (q + 1) * M <= r * M
    BY TimesGrows
  <2> QED
    BY <2>1, <2>2
<1>3. ~(q < r)
  BY <1>1, <1>2
<1> QED
  BY <1>1, <1>3

LEMMA NextFragment ==
  ASSUME NEW r \in Nat, NEW req \in Frame, Generated(req, r),
         NEW p \in Frame, p # <<>>, Fragment(p, r, Len(req)),
         NEW l \in Nat, l < Len(req), p[1] = req[l + 1]
  PROVE  \E j \in Nat : l = j * Largest /\ (j * Largest) + Len(p) <= Len(req)
<1> DEFINE M == MaxFrameSize
           n == Len(req)
<1>1. M \in Nat /\ n \in Nat /\ n <= M - 1 /\ l + 1 \in 1 .. n /\ l + 1 \in 1 .. M - 1
  BY HostConstants DEF Generated
<1>2. p[1] = (r * M) + (l + 1)
  BY <1>1 DEF Generated
<1>3. p[1] # -1
  BY <1>1, <1>2
<1>4. PICK q, j \in Nat :
        /\ q <= r /\ BeginsAt(p, q, j) /\ (j * Largest) + 1 < M
        /\ q = r => (j * Largest) + Len(p) <= n
  BY <1>3 DEF Fragment
<1> DEFINE y == (j * Largest) + 1
<1>5. j * Largest \in Nat
  BY HostConstants
<1>6. y \in 1 .. M - 1 /\ p[1] = (q * M) + y
  <2>1. q * M \in Int
    BY <1>1
  <2> QED
    BY <1>1, <1>4, <1>5, <2>1 DEF BeginsAt
<1>7. q = r /\ l + 1 = y
  <2> HIDE DEF y, M, n
  <2>1. (r * M) + (l + 1) = (q * M) + y
    BY <1>2, <1>6
  <2> QED
    BY <1>1, <1>4, <1>6, <2>1, RequestOfByte
<1>8. l = j * Largest
  BY <1>5, <1>7
<1> QED
  BY <1>4, <1>7, <1>8

\* Another piece that agrees begins where the last one ended, so it is at a
\* multiple of the largest size.
LEMMA GatheredGrows ==
  ASSUME NEW r \in Nat, NEW req \in Frame, Generated(req, r),
         NEW c \in Seq(Frame), NEW a \in Frame, Gathered(c, a, req), Len(a) < Len(req),
         NEW p \in Frame, Fragment(p, r, Len(req))
  PROVE  Gathered(Append(c, p), a \o p, req)
<1> DEFINE b == a \o p
           d == Append(c, p)
           n == Len(req)
           L == Largest
           m == Len(c)
<1>1. /\ b \in Frame /\ d \in Seq(Frame) /\ Len(d) = m + 1 /\ Len(b) = Len(a) + Len(p)
      /\ m \in Nat /\ n \in Nat /\ Len(a) \in Nat /\ Len(p) \in Nat
  BY DEF Frame
<1>2. /\ \A k \in 1 .. Len(a) : b[k] = a[k]
      /\ \A k \in 1 .. Len(p) : b[Len(a) + k] = p[k]
  BY DEF Frame
<1>3. /\ d[m + 1] = p /\ \A i \in 1 .. m : d[i] = c[i]
  BY AppendProperties
<1>4. L \in Nat \ {0} /\ m * L \in Nat /\ (m + 1) * L = (m * L) + L
  BY <1>1, HostConstants
<1> HIDE DEF b, d, n, L, m
<1> SUFFICES ASSUME Agrees(b, req) PROVE Gathered(d, b, req)
  BY DEF Gathered, b, d
<1>5. Agrees(a, req)
  BY <1>1, <1>2 DEF Agrees
<1>6. Len(a) <= n /\ Len(a) <= m * L
  BY <1>5 DEF Gathered, n, m, L
<1>7. Len(p) <= L
  BY DEF Fragment, L
<1>8. CASE p = <<>>
  <2>1. Len(p) = 0
    BY <1>8
  <2>2. Len(b) <= n /\ Len(b) <= m * L /\ Len(b) <= (m + 1) * L
    BY <1>1, <1>4, <1>6, <2>1
  <2>3. Len(d) - 1 = m
    BY <1>1
  <2>4. ~(Len(b) > m * L)
    BY <1>1, <1>4, <2>2
  <2> QED
    BY <1>1, <2>2, <2>3, <2>4 DEF Gathered, n, L
<1>9. CASE p # <<>>
  <2>1. Len(p) >= 1 /\ b[Len(a) + 1] = p[1]
    <3>1. Len(p) # 0
      BY <1>9 DEF Frame
    <3> QED
      BY <1>1, <1>2, <3>1
  <2>2. Len(a) < n
    BY DEF n
  <2>3. p[1] = req[Len(a) + 1]
    <3>1. Len(a) + 1 \in 1 .. Len(b) /\ Len(a) + 1 \in 1 .. Len(req)
      BY <1>1, <2>1, <2>2 DEF n
    <3> QED
      BY <2>1, <3>1 DEF Agrees
  <2>4. PICK j \in Nat : Len(a) = j * L /\ (j * L) + Len(p) <= n
    BY <1>1, <1>9, <2>2, <2>3, NextFragment DEF n, L
  <2>5. j * L \in Nat /\ (j + 1) * L = (j * L) + L
    BY <1>4
  <2>6. j <= m
    <3>1. j * L < (m + 1) * L
      BY <1>4, <1>6, <2>4, <2>5
    <3>2. j < m + 1
      BY <1>1, <1>4, <3>1, TimesLess
    <3> QED
      BY <1>1, <3>2
  <2>7. Len(b) <= n /\ Len(b) <= (m + 1) * L
    BY <1>1, <1>4, <1>6, <1>7, <2>4, <2>5
  <2>8. ASSUME Len(b) > m * L
        PROVE  \A i \in 1 .. m + 1 :
                 d[i] = SubSeq(req, (i - 1) * L + 1, IF i < m + 1 THEN i * L ELSE Len(b))
    <3>1. j = m
      <4>1. m * L < (j + 1) * L
        <5>1. Len(b) <= (j + 1) * L
          BY <1>1, <1>4, <1>7, <2>4, <2>5
        <5>2. (j + 1) * L \in Int
          BY <1>4
        <5>3. Len(b) > m * L
          BY <2>8
        <5> QED
          BY <1>1, <1>4, <5>1, <5>2, <5>3
      <4>2. m < j + 1
        BY <1>1, <1>4, <4>1, TimesLess
      <4> QED
        BY <1>1, <2>6, <4>2
    <3>2. Len(a) = m * L
      BY <2>4, <3>1
    <3>3. Len(a) > (m - 1) * L
      <4>1. (m - 1) * L = (m * L) - L
        BY <1>1, <1>4
      <4> QED
        BY <1>4, <3>2, <4>1
    <3>4. \A i \in 1 .. m :
            c[i] = SubSeq(req, (i - 1) * L + 1, IF i < m THEN i * L ELSE Len(a))
      BY <1>5, <3>3 DEF Gathered, m, L
    <3>5. ASSUME NEW i \in 1 .. m PROVE d[i] = SubSeq(req, (i - 1) * L + 1, i * L)
      <4>1. d[i] = SubSeq(req, (i - 1) * L + 1, IF i < m THEN i * L ELSE Len(a))
        BY <1>3, <3>4
      <4>2. i < m \/ i = m
        BY <1>1
      <4>3. (IF i < m THEN i * L ELSE Len(a)) = i * L
        BY <3>2, <4>2
      <4> QED
        BY <4>1, <4>3
    <3>6. p = SubSeq(req, (m * L) + 1, Len(b))
      <4> DEFINE from == m * L
      <4>1. from \in Nat /\ from = Len(a) /\ Len(b) = from + Len(p) /\ Len(b) <= Len(req)
        BY <1>1, <1>4, <2>7, <3>2 DEF n
      <4> HIDE DEF from
      <4>2. SubSeq(req, from + 1, from + Len(p)) = [k \in 1 .. Len(p) |-> req[from + k]]
        BY <1>1, <4>1, PartOf DEF Frame
      <4>3. ASSUME NEW k \in 1 .. Len(p) PROVE req[from + k] = p[k]
        <5>1. from + k \in 1 .. Len(b) /\ from + k \in 1 .. Len(req)
          BY <1>1, <4>1
        <5>2. b[from + k] = req[from + k]
          BY <5>1 DEF Agrees
        <5>3. b[from + k] = p[k]
          BY <1>2, <4>1
        <5> QED
          BY <5>2, <5>3
      <4>4. p = [k \in 1 .. Len(p) |-> req[from + k]]
        BY <4>3 DEF Frame
      <4> QED
        BY <4>1, <4>2, <4>4 DEF from
    <3> SUFFICES ASSUME NEW i \in 1 .. m + 1
                 PROVE  d[i] = SubSeq(req, (i - 1) * L + 1,
                                      IF i < m + 1 THEN i * L ELSE Len(b))
      OBVIOUS
    <3>7. CASE i = m + 1
      <4>1. i - 1 = m /\ ~(i < m + 1)
        BY <1>1, <3>7
      <4> QED
        BY <1>3, <3>6, <3>7, <4>1
    <3>8. CASE i # m + 1
      <4>1. i \in 1 .. m /\ i < m + 1
        BY <1>1, <3>8
      <4> QED
        BY <3>5, <4>1
    <3> QED
      BY <3>7, <3>8
  <2> QED
    <3>1. (m + 1) - 1 = m
      BY <1>1
    <3> QED
      BY <1>1, <2>7, <2>8, <3>1 DEF Gathered, n, L
<1> QED
  BY <1>8, <1>9

\* When all the bytes are there in as many fragments as expected, these are
\* the parts of the request.
LEMMA AllGathered ==
  ASSUME NEW req \in Frame, Len(req) >= 1, NEW c \in Seq(Frame), NEW a \in Frame,
         Gathered(c, a, req), Agrees(a, req), Len(a) >= Len(req),
         Len(c) = ExpectedFragments(Len(req))
  PROVE  c = Parts(req, Largest)
<1> DEFINE L == Largest
           n == Len(req)
           m == Len(c)
           s == Parts(req, L)
<1>1. L \in Nat \ {0} /\ n \in Nat /\ m \in Nat /\ n >= 1
  BY HostConstants, IntsAreBytes
<1>2. s \in Seq(Frame) /\ Len(s) = m
  <2>1. m = (n \div L) + (IF n % L # 0 THEN 1 ELSE 0)
    BY DEF ExpectedFragments, Largest
  <2>2. s \in Seq(Seq(Byte)) /\ Len(s) = (n \div L) + (IF n % L # 0 THEN 1 ELSE 0)
    BY <1>1, PartsOf DEF Frame
  <2> QED
    BY <2>1, <2>2 DEF Frame
<1>3. \A i \in 1 .. m : (i - 1) * L < n /\ s[i] = PartAt(req, L, i)
  <2>1. \A i \in 1 .. Len(s) : (i - 1) * L < n /\ s[i] = PartAt(req, L, i)
    BY <1>1, PartsOf DEF Frame
  <2> QED
    BY <1>2, <2>1, Zenon
<1>4. m * L >= n
  <2>1. Len(s) * L >= n
    BY <1>1, PartsOf DEF Frame
  <2> QED
    BY <1>2, <2>1, Zenon
<1>5. Len(a) = n
  BY <1>1, IntsAreBytes DEF Gathered
<1> HIDE DEF L, n, m, s
<1>6. m >= 1
  <2>1. m = 0 => m * L = 0
    BY <1>1
  <2> QED
    BY <1>1, <1>4, <2>1
<1>7. (m - 1) * L < n
  <2>1. m \in 1 .. m
    BY <1>1, <1>6
  <2> QED
    BY <1>3, <2>1
<1>8. \A i \in 1 .. m : c[i] = SubSeq(req, (i - 1) * L + 1, IF i < m THEN i * L ELSE n)
  BY <1>5, <1>7 DEF Gathered, L, n, m
<1>9. ASSUME NEW i \in 1 .. m PROVE c[i] = s[i]
  <2>1. (IF i < m THEN i * L ELSE n) = (IF i * L < n THEN i * L ELSE n)
    <3>1. CASE i < m
      <4>1. i \in Int /\ m - 1 \in Int /\ i <= m - 1
        BY <1>1, <3>1
      <4>2. i * L <= (m - 1) * L /\ i * L \in Int /\ (m - 1) * L \in Int
        BY <1>1, <4>1, TimesGrows
      <4>3. i * L < n
        BY <1>1, <1>7, <4>2
      <4> QED
        BY <3>1, <4>3
    <3>2. CASE i = m
      <4>1. ~(i * L < n)
        BY <1>1, <1>4, <3>2
      <4>2. ~(i < m)
        BY <1>1, <3>2
      <4> QED
        BY <4>1, <4>2
    <3> QED
      BY <1>1, <3>1, <3>2
  <2>2. c[i] = SubSeq(req, (i - 1) * L + 1, IF i * L < n THEN i * L ELSE n)
    BY <1>8, <2>1
  <2>3. s[i] = SubSeq(req, (i - 1) * L + 1, IF i * L < n THEN i * L ELSE n)
    BY <1>3 DEF PartAt, n
  <2> QED
    BY <2>2, <2>3
<1>10. c = s
  BY <1>2, <1>9, SeqEqual DEF m
<1> QED
  BY <1>10 DEF s, L

-----------------------------------------------------------------------------
\* What the comparisons leave is the answer that was promised.
LEMMA OnlyFrame ==
  ASSUME NEW c \in Seq(Frame), c # <<>>, Len(c) <= 1
  PROVE  c[1] \in Frame /\ c = <<c[1]>>
<1>1. Len(c) \in Nat /\ Len(c) # 0
  OBVIOUS
<1>2. Len(c) = 1
  <2>1. \A n \in Nat : n # 0 /\ n <= 1 => n = 1
    OBVIOUS
  <2> QED
    BY <1>1, <2>1, Zenon
<1> QED
  BY <1>2

LEMMA SameBytes ==
  ASSUME NEW f \in Frame, NEW g \in Frame, Len(f) = Len(g), ~Differs(f, g)
  PROVE  f = g
<1>1. \A k \in 1 .. Len(f) : g[k] = f[k]
  BY DEF Differs, Frame
<1>2. f \in Seq(Byte) /\ g \in Seq(Byte)
  BY DEF Frame
<1> QED
  BY <1>1, <1>2, SeqEqual

LEMMA LatencyRight ==
  ASSUME NEW req \in Frame, Len(req) = 1, NEW f \in Frame, Len(f) <= 1, ~Differs(req, f)
  PROVE  f = req
<1>1. 1 \in DOMAIN req
  BY DEF Frame
<1>2. 1 \in DOMAIN f /\ Len(f) \in Nat
  BY <1>1 DEF Differs, Frame
<1>3. 1 \in 1 .. Len(f)
  BY <1>2 DEF Frame
<1>4. Len(f) = Len(req)
  <2>1. \A n \in Nat : 1 \in 1 .. n /\ n <= 1 => n = 1
    OBVIOUS
  <2>2. Len(f) = 1
    BY <1>2, <1>3, <2>1, Zenon
  <2> QED
    BY <2>2
<1> QED
  BY <1>4, SameBytes

LEMMA HeaderRight ==
  ASSUME NEW h \in Frame, NEW req \in Frame, NEW f \in Frame,
         Len(f) = Len(h) + Len(req), ~Differs(h, f),
         ~Differs(req, SubSeq(f, Len(h) + 1, Len(f)))
  PROVE  f = h \o req
<1> DEFINE m == Len(h)
           n == Len(req)
<1>1. /\ m \in Nat /\ n \in Nat /\ h \o req \in Frame /\ Len(h \o req) = m + n
      /\ \A k \in 1 .. m : (h \o req)[k] = h[k]
      /\ \A k \in 1 .. n : (h \o req)[m + k] = req[k]
  BY DEF Frame
<1>2. \A k \in 1 .. m : f[k] = h[k]
  BY DEF Differs, Frame
<1>3. SubSeq(f, m + 1, m + n) = [k \in 1 .. n |-> f[m + k]]
  BY <1>1, PartOf DEF Frame
<1>4. \A k \in 1 .. n : f[m + k] = req[k]
  <2>1. ~Differs(req, [k \in 1 .. n |-> f[m + k]])
    BY <1>3
  <2>2. DOMAIN req = 1 .. n
    BY DEF Frame
  <2>3. ASSUME NEW k \in 1 .. n PROVE [i \in 1 .. n |-> f[m + i]][k] = req[k]
    BY <2>1, <2>2 DEF Differs
  <2> QED
    BY <2>3
<1> HIDE DEF m, n
<1>5. ASSUME NEW k \in 1 .. m + n PROVE f[k] = (h \o req)[k]
  <2>1. CASE k <= m
    BY <1>1, <1>2, <2>1
  <2>2. CASE k > m
    <3>1. k - m \in 1 .. n /\ k = m + (k - m)
      BY <1>1, <2>2
    <3> DEFINE i == k - m
    <3> HIDE DEF i
    <3>2. f[m + i] = req[i] /\ (h \o req)[m + i] = req[i]
      BY <1>1, <1>4, <3>1 DEF i
    <3> QED
      BY <3>1, <3>2 DEF i
  <2> QED
    BY <1>1, <2>1, <2>2
<1>6. f \in Seq(Byte) /\ h \o req \in Seq(Byte) /\ Len(f) = m + n
  BY <1>1 DEF Frame, m, n
<1> QED
  BY <1>1, <1>5, <1>6, SeqEqual

LEMMA RomRight ==
  ASSUME NEW t, NEW f \in Frame, Len(f) = sizes[t], ~Differs(f, FrameBuffer(t))
  PROVE  f = TypeFrame(t)
<1>1. f = [k \in 1 .. Len(f) |-> f[k]] /\ DOMAIN f = 1 .. Len(f)
  BY DEF Frame
<1>2. \A k \in 1 .. Len(f) : f[k] = FrameBuffer(t)[k]
  BY <1>1 DEF Differs
<1> QED
  BY <1>1, <1>2 DEF TypeFrame

\* Each program's comparison, on what that program has collected.
LEMMA RightAnswer ==
  ASSUME HostTypeOK, config = Configuration, Main.compares,
         program = "RomFrameGen" => sizes[0] # 0,
         NEW r \in Nat, request \in Requests(r),
         AnswersShort, CollectedGathered, pc = "collect", Enough, ~Fails
  PROVE  collected = Promise(request)
<1>1. /\ program \in Tests /\ program \notin {"Gap", "Tracker"}
      /\ Main.ring <=> program # "Fragmenter"
  BY HostConstants, KindsOfTests DEF HostTypeOK
<1>2. request \in Frame /\ collected \in Seq(Frame)
  BY <1>1 DEF HostTypeOK, FramesOK
<1>3. program # "Fragmenter" => collected[1] \in Frame /\ collected = <<collected[1]>>
  <2>1. program # "Fragmenter" => collected # <<>> /\ Len(collected) <= 1
    BY <1>1 DEF Enough, HostTypeOK
  <2> QED
    BY <1>2, <2>1, OnlyFrame
<1> DEFINE f == collected[1]
<1>4. CASE program \in {"LatencyTest", "DirectLatencyTest"}
  <2>1. Len(request) = 1 /\ Promise(request) = <<request>>
    BY <1>1, <1>4, RequestsOf, PromiseIs
  <2>2. ~Differs(request, f)
    BY <1>4 DEF Fails, LatencyFails
  <2>3. Len(f) <= 1
    <3>1. Short(collected)
      BY <1>4 DEF AnswersShort
    <3>2. collected # <<>> /\ 1 \in 1 .. Len(collected)
      <4>1. Len(collected) \in Nat /\ (Len(collected) = 0 <=> collected = <<>>)
        BY <1>2
      <4>2. collected # <<>>
        BY <1>4 DEF Enough
      <4> QED
        BY <4>1, <4>2
    <3> QED
      BY <3>1, <3>2 DEF Short
  <2>4. f = request
    <3> HIDE DEF f
    <3> QED
      BY <1>2, <1>3, <1>4, <2>1, <2>2, <2>3, LatencyRight DEF f
  <2> QED
    BY <1>3, <1>4, <2>1, <2>4
<1>5. CASE program = "HeaderInserter"
  <2>1. Promise(request) = <<ExpectedHeader \o request>>
    BY <1>5, PromiseIs
  <2>2. ~HeaderFails(f)
    BY <1>5 DEF Fails
  <2> HIDE DEF f
  <2>3. /\ Len(f) = HeaderSize + Len(request) /\ ~Differs(ExpectedHeader, f)
        /\ ~Differs(request, SubSeq(f, HeaderSize + 1, Len(f)))
    BY <2>2 DEF HeaderFails
  <2>4. ExpectedHeader \in Frame /\ HeaderSize = Len(ExpectedHeader)
    BY HeaderIs, IntsAreBytes DEF HeaderSize
  <2>5. f \in Frame
    BY <1>3, <1>5 DEF f
  <2>6. f = ExpectedHeader \o request
    <3> DEFINE h == ExpectedHeader
    <3>1. /\ Len(f) = Len(h) + Len(request) /\ ~Differs(h, f) /\ h \in Frame
          /\ ~Differs(request, SubSeq(f, Len(h) + 1, Len(f)))
      BY <2>3, <2>4, Zenon
    <3> HIDE DEF h
    <3>2. f = h \o request
      BY <1>2, <2>5, <3>1, HeaderRight, Zenon
    <3> QED
      BY <3>2 DEF h
  <2> QED
    BY <1>3, <1>5, <2>1, <2>6 DEF f
<1>6. CASE program = "Fragmenter"
  <2>1. Promise(request) = Parts(request, Largest) /\ Generated(request, r)
    BY <1>1, <1>6, PromiseIs, RequestsOf
  <2>2. ~FragmentsFail /\ Len(Accumulated) >= Len(request)
    BY <1>6 DEF Fails, Enough
  <2>3. Gathered(collected, Accumulated, request)
    BY <1>6 DEF CollectedGathered
  <2>4. Accumulated \in Frame
    BY <1>2, FlattenIsSeq DEF Accumulated, Frame
  <2>5. Len(request) >= 1
    BY <2>1, HostConstants DEF Generated
  <2>6. Len(collected) = ExpectedFragments(Len(request)) /\ Agrees(Accumulated, request)
    <3> DEFINE a == Accumulated
    <3>1. Len(collected) = ExpectedFragments(Len(request)) /\ ~Differs(request, a)
      BY <2>2 DEF FragmentsFail
    <3>2. DOMAIN request = 1 .. Len(request)
      BY <1>2 DEF Frame
    <3> HIDE DEF a
    <3>3. \A k \in 1 .. Len(request) : a[k] = request[k]
      BY <3>1, <3>2 DEF Differs
    <3>4. Agrees(a, request)
      BY <3>3 DEF Agrees
    <3> QED
      BY <3>1, <3>4 DEF a
  <2>7. collected = Parts(request, Largest)
    BY <1>2, <2>2, <2>3, <2>4, <2>5, <2>6, AllGathered
  <2> QED
    BY <2>1, <2>7
<1>7. CASE program = "RomFrameGen"
  <2>1. Promise(request) = <<TypeFrame(request[1])>>
    BY <1>7, PromiseIs
  <2>2. ~RomFails(f)
    BY <1>7 DEF Fails
  <2> HIDE DEF f
  <2>3. Len(f) = sizes[request[1]] /\ ~Differs(f, FrameBuffer(request[1]))
    BY <2>2 DEF RomFails
  <2>4. f = TypeFrame(request[1])
    BY <1>3, <1>7, <2>3, RomRight DEF f
  <2> QED
    BY <1>3, <1>7, <2>1, <2>4 DEF f
<1> QED
  BY <1>1, <1>4, <1>5, <1>6, <1>7 DEF Tests

-----------------------------------------------------------------------------
\* Sequences of frames that grow and shrink.
LEMMA HeadAndTail ==
  ASSUME NEW S, NEW s \in Seq(S), s # <<>>
  PROVE  /\ Head(s) \in S /\ Head(s) = s[1] /\ 1 \in 1 .. Len(s)
         /\ Tail(s) \in Seq(S) /\ Len(Tail(s)) = Len(s) - 1
         /\ \A i \in 1 .. Len(Tail(s)) : i + 1 \in 1 .. Len(s) /\ Tail(s)[i] = s[i + 1]
OBVIOUS

LEMMA JoinedFrames ==
  ASSUME NEW S, NEW s \in Seq(S), NEW t \in Seq(S)
  PROVE  /\ s \o t \in Seq(S)
         /\ \A i \in 1 .. Len(s \o t) :
              \/ i \in 1 .. Len(s) /\ (s \o t)[i] = s[i]
              \/ \E k \in 1 .. Len(t) : (s \o t)[i] = t[k]
<1>1. s \o t \in Seq(S) /\ Len(s \o t) = Len(s) + Len(t) /\ Len(s) \in Nat /\ Len(t) \in Nat
  OBVIOUS
<1>2. /\ \A i \in 1 .. Len(s) : (s \o t)[i] = s[i]
      /\ \A k \in 1 .. Len(t) : (s \o t)[Len(s) + k] = t[k]
  OBVIOUS
<1> DEFINE u == s \o t
           m == Len(s)
           n == Len(t)
<1> HIDE DEF u, m, n
<1>3. ASSUME NEW i \in 1 .. m + n PROVE i \in 1 .. m \/ (i - m \in 1 .. n /\ i = m + (i - m))
  BY <1>1 DEF m, n
<1>4. ASSUME NEW i \in 1 .. m + n
      PROVE  (i \in 1 .. m /\ u[i] = s[i]) \/ \E k \in 1 .. n : u[i] = t[k]
  <2>1. CASE i \in 1 .. m
    BY <1>2, <2>1 DEF u, m
  <2>2. CASE i \notin 1 .. m
    <3>1. PICK k \in 1 .. n : i = m + k
      BY <1>3, <2>2
    <3>2. u[m + k] = t[k]
      BY <1>2 DEF u, m, n
    <3> QED
      BY <3>1, <3>2
  <2> QED
    BY <2>1, <2>2
<1> QED
  BY <1>1, <1>4 DEF u, m, n

LEMMA ShortKept ==
  /\ \A s \in Seq(Frame) : s # <<>> /\ Short(s) => Len(Head(s)) <= 1 /\ Short(Tail(s))
  /\ \A s, t \in Seq(Frame) : Short(s) /\ Short(t) => Short(s \o t)
  /\ Short(<<>>)
<1>1. ASSUME NEW s \in Seq(Frame), s # <<>>, Short(s)
      PROVE  Len(Head(s)) <= 1 /\ Short(Tail(s))
  <2>1. Head(s) = s[1] /\ 1 \in 1 .. Len(s)
    BY <1>1, HeadAndTail
  <2>2. \A i \in 1 .. Len(Tail(s)) : i + 1 \in 1 .. Len(s) /\ Tail(s)[i] = s[i + 1]
    BY <1>1, HeadAndTail
  <2>3. \A i \in 1 .. Len(s) : Len(s[i]) <= 1
    BY <1>1 DEF Short
  <2>4. \A i \in 1 .. Len(Tail(s)) : Len(Tail(s)[i]) <= 1
    BY <2>2, <2>3, Zenon
  <2> QED
    BY <2>1, <2>3, <2>4, Zenon DEF Short
<1>2. ASSUME NEW s \in Seq(Frame), NEW t \in Seq(Frame), Short(s), Short(t)
      PROVE  Short(s \o t)
  <2>1. \A i \in 1 .. Len(s \o t) :
          \/ i \in 1 .. Len(s) /\ (s \o t)[i] = s[i]
          \/ \E k \in 1 .. Len(t) : (s \o t)[i] = t[k]
    BY JoinedFrames
  <2> QED
    BY <1>2, <2>1, Zenon DEF Short
<1>3. Short(<<>>)
  BY DEF Short
<1> QED
  BY <1>1, <1>2, <1>3

LEMMA FragmentsKept ==
  ASSUME NEW now, NEW n
  PROVE  /\ \A s \in Seq(Frame) :
              s # <<>> /\ Fragments(s, now, n) =>
                Fragment(Head(s), now, n) /\ Fragments(Tail(s), now, n)
         /\ \A s, t \in Seq(Frame) :
              Fragments(s, now, n) /\ Fragments(t, now, n) => Fragments(s \o t, now, n)
         /\ Fragments(<<>>, now, n)
<1>1. ASSUME NEW s \in Seq(Frame), s # <<>>, Fragments(s, now, n)
      PROVE  Fragment(Head(s), now, n) /\ Fragments(Tail(s), now, n)
  <2>1. Head(s) = s[1] /\ 1 \in 1 .. Len(s)
    BY <1>1, HeadAndTail
  <2>2. \A i \in 1 .. Len(Tail(s)) : i + 1 \in 1 .. Len(s) /\ Tail(s)[i] = s[i + 1]
    BY <1>1, HeadAndTail
  <2> QED
    BY <1>1, <2>1, <2>2, Zenon DEF Fragments
<1>2. ASSUME NEW s \in Seq(Frame), NEW t \in Seq(Frame), Fragments(s, now, n),
             Fragments(t, now, n)
      PROVE  Fragments(s \o t, now, n)
  <2>1. \A i \in 1 .. Len(s \o t) :
          \/ i \in 1 .. Len(s) /\ (s \o t)[i] = s[i]
          \/ \E k \in 1 .. Len(t) : (s \o t)[i] = t[k]
    BY JoinedFrames
  <2> QED
    BY <1>2, <2>1, Zenon DEF Fragments
<1>3. Fragments(<<>>, now, n)
  BY DEF Fragments
<1> QED
  BY <1>1, <1>2, <1>3

LEMMA OneOf ==
  ASSUME NEW f \in Frame
  PROVE  /\ <<f>> \in Seq(Frame) /\ \A s \in Seq(Frame) : Append(s, f) = s \o <<f>>
         /\ Len(f) <= 1 => Short(<<f>>)
         /\ \A now, n : Fragment(f, now, n) => Fragments(<<f>>, now, n)
<1> DEFINE s == <<f>>
<1>1. s \in Seq(Frame) /\ \A i \in 1 .. Len(s) : s[i] = f
  OBVIOUS
<1>2. \A t \in Seq(Frame) : Append(t, f) = t \o <<f>>
  OBVIOUS
<1> HIDE DEF s
<1>3. Len(f) <= 1 => Short(s)
  BY <1>1, Zenon DEF Short
<1>4. \A now, n : Fragment(f, now, n) => Fragments(s, now, n)
  BY <1>1, Zenon DEF Fragments
<1> QED
  BY <1>1, <1>2, <1>3, <1>4 DEF s

\* A program stays what it is, and so do its messages.
LEMMA SameProgram ==
  ASSUME UNCHANGED <<program, sizes>>
  PROVE  /\ Main' = Main /\ Configuration' = Configuration
         /\ \A r : Requests(r)' = Requests(r)
<1>1. Main' = Main
  BY DEF Main
<1>2. Configuration' = Configuration
  BY DEF Configuration
<1>3. ASSUME NEW r PROVE Requests(r)' = Requests(r)
  BY DEF Requests
<1> QED
  BY <1>1, <1>2, <1>3

LEMMA SamePromise ==
  ASSUME UNCHANGED host, NEW req
  PROVE  Promise(req)' = Promise(req)
BY DEF Promise, host

-----------------------------------------------------------------------------
\* Each step keeps the invariant of the tests.
LEMMA TestsBegin == HostsInit => TestInv
<1> SUFFICES ASSUME HostsInit PROVE TestInv
  OBVIOUS
<1>1. /\ program \in Programs /\ pc = "configure" /\ round = 0 /\ faults = 0
      /\ program = "RomFrameGen" => sizes \in [0 .. NumMessageTypes - 1 -> MessageSizes]
      /\ request = <<>> /\ collected = <<>> /\ toEngine = <<>> /\ pending = <<>>
      /\ toHost = <<>> /\ judged = <<>>
  BY DEF HostsInit
<1>2. FramesOK
  BY <1>1 DEF FramesOK, Frame
<1>3. HostTypeOK
  BY <1>1, <1>2 DEF HostTypeOK
<1>4. Ready
  BY <1>1 DEF Ready, Untouched
<1>5. Asked /\ CollectedGathered /\ AnswerHeld /\ JudgedRight
  BY <1>1 DEF Asked, CollectedGathered, AnswerHeld, JudgedRight
<1>6. AnswersShort /\ AnswersFragments
  BY <1>1, ShortKept, FragmentsKept DEF AnswersShort, AnswersFragments
<1> QED
  BY <1>3, <1>4, <1>5, <1>6 DEF TestInv

LEMMA TestsStutter == TestInv /\ UNCHANGED vars => TestInv'
<1> SUFFICES ASSUME TestInv, UNCHANGED vars PROVE TestInv'
  OBVIOUS
<1> USE DEF vars
<1>1. HostTypeOK'
  BY SameProgram DEF TestInv, HostTypeOK, FramesOK
<1>2. Ready' /\ AnswersShort' /\ AnswerHeld'
  BY SameProgram DEF TestInv, Ready, Untouched, AnswersShort, AnswerHeld
<1>3. Asked'
  BY SameProgram DEF TestInv, Asked, Newest
<1>4. AnswersFragments' /\ CollectedGathered'
  BY DEF TestInv, AnswersFragments, CollectedGathered, Newest, RequestSize, Accumulated
<1>5. JudgedRight'
  BY SameProgram, SamePromise DEF TestInv, JudgedRight, host
<1> QED
  BY <1>1, <1>2, <1>3, <1>4, <1>5 DEF TestInv

LEMMA FirstStepIs == FirstStep \in {"acquire", "fill"} /\ NextStep \in {"acquire", "fill", "done"}
BY DEF FirstStep, NextStep

LEMMA ConfigureTests == TestInv /\ Configure => TestInv'
<1> SUFFICES ASSUME TestInv, Configure PROVE TestInv'
  OBVIOUS
<1>1. /\ pc = "configure" /\ pc' \in {"failed", "acquire", "fill"}
      /\ UNCHANGED <<program, sizes, round, request, collected, toEngine, pending,
                     toHost, faults, judged>>
  BY FirstStepIs DEF Configure
<1>2. Untouched /\ Untouched'
  BY <1>1 DEF TestInv, Ready, Untouched
<1>3. HostTypeOK'
  BY <1>1, SameProgram DEF TestInv, HostTypeOK, FramesOK
<1>4. Ready'
  <2>1. CASE program = "RomFrameGen" /\ sizes[0] = 0
    BY <1>2, <2>1 DEF Configure, Ready
  <2>2. CASE ~(program = "RomFrameGen" /\ sizes[0] = 0)
    <3>1. config' = Configuration' /\ pc' # "configure"
      BY <1>1, <2>2, SameProgram DEF Configure
    <3> QED
      BY <1>1, <2>2, <3>1 DEF Ready
  <2> QED
    BY <2>1, <2>2
<1>5. Asked' /\ CollectedGathered' /\ AnswerHeld' /\ JudgedRight'
  BY <1>1, <1>2 DEF Asked, CollectedGathered, AnswerHeld, JudgedRight, Untouched
<1>6. AnswersShort' /\ AnswersFragments'
  BY <1>2, ShortKept, FragmentsKept DEF AnswersShort, AnswersFragments, Untouched
<1> QED
  BY <1>3, <1>4, <1>5, <1>6 DEF TestInv

LEMMA PrepareTests == TestInv /\ (Acquire \/ Fill) => TestInv'
<1> SUFFICES ASSUME TestInv, Acquire \/ Fill PROVE TestInv'
  OBVIOUS
<1>1. /\ pc \in {"acquire", "fill"} /\ pc' \in {"fill", "write"}
      /\ UNCHANGED <<host, round, collected, toEngine, pending, toHost, faults, judged>>
      /\ request' \in Requests(round) \/ (request' = request /\ pc' = "fill")
  BY DEF Acquire, Fill
<1>2. /\ Main' = Main /\ Configuration' = Configuration
      /\ \A r : Requests(r)' = Requests(r)
      /\ program' = program /\ sizes' = sizes /\ config' = config
  BY <1>1, SameProgram DEF host
<1>3. FramesOK' \/ program' = "Tracker"
  <2>1. CASE request' = request
    BY <1>1, <1>2, <2>1 DEF TestInv, HostTypeOK, FramesOK
  <2>2. CASE request' # request /\ program # "Tracker"
    <3>1. request' \in Frame
      BY <1>1, <2>2, RequestsOf, HostConstants DEF TestInv, HostTypeOK
    <3> QED
      BY <1>1, <1>2, <2>2, <3>1 DEF TestInv, HostTypeOK, FramesOK
  <2> QED
    BY <1>2, <2>1, <2>2
<1>4. HostTypeOK'
  BY <1>1, <1>2, <1>3 DEF TestInv, HostTypeOK
<1>5. Ready'
  BY <1>1, <1>2 DEF TestInv, Ready
<1>6. Asked'
  <2>1. Newest' = Newest
    BY <1>1 DEF Newest
  <2> HIDE DEF Newest
  <2>2. program # "Tracker" =>
          \A i \in 1 .. Len(toEngine) : \E r \in 0 .. Newest : toEngine[i] \in Requests(r)
    BY DEF TestInv, Asked
  <2> QED
    BY <1>1, <1>2, <2>1, <2>2 DEF Asked
<1>7. Newest' = Newest /\ RequestSize' = RequestSize
  BY <1>1 DEF Newest, RequestSize
<1>8. AnswersShort' /\ AnswersFragments'
  BY <1>1, <1>2, <1>7 DEF TestInv, AnswersShort, AnswersFragments
<1>9. CollectedGathered' /\ AnswerHeld'
  BY <1>1 DEF CollectedGathered, AnswerHeld
<1>10. JudgedRight'
  BY <1>1, <1>2, SamePromise DEF TestInv, JudgedRight
<1> QED
  BY <1>4, <1>5, <1>6, <1>8, <1>9, <1>10 DEF TestInv

\* What has been asked, when it is an engine that has been configured.
LEMMA Prepared ==
  ASSUME TestInv,
         \/ toEngine # <<>> \/ pending # <<>> \/ toHost # <<>>
         \/ pc \notin {"configure", "failed"}
  PROVE  /\ config = Configuration /\ pc # "configure"
         /\ program = "RomFrameGen" => sizes[0] # 0
BY DEF TestInv, Ready, Untouched

\* Frames of a test that is not the tracker's.
LEMMA TypedFrames ==
  ASSUME TestInv
  PROVE  /\ program \in Tests /\ round \in Nat /\ faults \in Nat
         /\ program # "Tracker" => FramesOK
BY HostConstants DEF TestInv, HostTypeOK

LEMMA WriteTests == TestInv /\ Write => TestInv'
<1> SUFFICES ASSUME TestInv, Write PROVE TestInv'
  OBVIOUS
<1>1. /\ pc = "write" /\ program # "Tracker" /\ pc' = "collect"
      /\ toEngine' = Append(toEngine, request) /\ collected' = <<>>
      /\ UNCHANGED <<host, round, request, pending, toHost, faults, judged>>
  BY DEF Write
<1>2. /\ Main' = Main /\ Configuration' = Configuration
      /\ \A r : Requests(r)' = Requests(r)
      /\ program' = program /\ sizes' = sizes /\ config' = config
  BY <1>1, SameProgram DEF host
<1>3. /\ program \in Tests /\ round \in Nat /\ FramesOK
      /\ request \in Requests(round) /\ request \in Frame
  BY <1>1, TypedFrames DEF TestInv, Asked, FramesOK
<1>4. HostTypeOK'
  <2>1. Append(toEngine, request) \in Seq(Frame) /\ <<>> \in Seq(Frame)
    BY <1>3 DEF FramesOK
  <2>2. FramesOK'
    BY <1>1, <1>3, <2>1 DEF FramesOK
  <2>3. Len(<<>>) <= 1
    OBVIOUS
  <2> QED
    BY <1>1, <1>2, <2>2, <2>3 DEF TestInv, HostTypeOK
<1>5. Ready'
  BY <1>1, <1>2, Prepared DEF Ready
<1>6. Newest = round - 1 /\ Newest' = round /\ RequestSize' = Len(request)
      /\ RequestSize = MaxFrameSize
  BY <1>1 DEF Newest, RequestSize
<1>7. Asked'
  <2> DEFINE t == Append(toEngine, request)
  <2>1. /\ Len(t) = Len(toEngine) + 1 /\ t[Len(toEngine) + 1] = request
        /\ \A i \in 1 .. Len(toEngine) : t[i] = toEngine[i]
        /\ Len(toEngine) \in Nat
    BY <1>3, AppendProperties DEF FramesOK
  <2> HIDE DEF t
  <2>2. \A i \in 1 .. Len(toEngine) : \E r \in 0 .. round - 1 : toEngine[i] \in Requests(r)
    BY <1>1, <1>6 DEF TestInv, Asked
  <2>3. ASSUME NEW i \in 1 .. Len(t)
        PROVE  \E r \in 0 .. round : t[i] \in Requests(r) /\ (r = round => t[i] = request)
    <3>1. CASE i = Len(toEngine) + 1
      <4>1. round \in 0 .. round /\ t[i] = request
        BY <1>3, <2>1, <3>1
      <4> QED
        BY <1>3, <4>1
    <3>2. CASE i # Len(toEngine) + 1
      <4>1. i \in 1 .. Len(toEngine)
        BY <2>1, <3>2
      <4>2. PICK r \in 0 .. round - 1 : toEngine[i] \in Requests(r)
        BY <2>2, <4>1
      <4>3. r \in 0 .. round /\ r # round
        BY <1>3
      <4> QED
        BY <2>1, <4>1, <4>2, <4>3
    <3> QED
      BY <3>1, <3>2
  <2>4. /\ toEngine' = t /\ Newest' = round /\ request' = request /\ round' = round
    BY <1>1, <1>6 DEF t
  <2> QED
    BY <1>1, <1>2, <1>3, <2>3, <2>4 DEF Asked
<1>8. AnswersShort'
  BY <1>1, <1>2, ShortKept DEF TestInv, AnswersShort
<1>9. AnswersFragments'
  <2> SUFFICES ASSUME program = "Fragmenter"
               PROVE  /\ Fragments(pending, round, Len(request))
                      /\ Fragments(toHost, round, Len(request))
    BY <1>1, <1>2, <1>6 DEF AnswersFragments
  <2>1. /\ Fragments(pending, round - 1, MaxFrameSize)
        /\ Fragments(toHost, round - 1, MaxFrameSize)
    BY <1>6 DEF TestInv, AnswersFragments
  <2>2. /\ round - 1 \in Int /\ round \in Int /\ MaxFrameSize \in Int
        /\ Len(request) \in Int /\ round - 1 < round
    BY <1>3, HostConstants, IntsAreBytes
  <2> QED
    BY <1>3, <2>1, <2>2, FragmentsStay DEF FramesOK
<1>10. CollectedGathered' /\ AnswerHeld'
  <2>1. FlattenSeq(<<>>) = <<>>
    BY DEF FlattenSeq
  <2>2. ASSUME program = "Fragmenter" PROVE Gathered(<<>>, <<>>, request)
    <3>1. Len(request) \in Nat /\ Largest \in Nat
      BY <1>3, HostConstants, IntsAreBytes
    <3> QED
      BY <3>1 DEF Gathered
  <2>3. Accumulated' = <<>>
    BY <1>1, <2>1 DEF Accumulated
  <2> QED
    BY <1>1, <1>2, <2>2, <2>3 DEF CollectedGathered, AnswerHeld
<1>11. JudgedRight'
  BY <1>1, <1>2, SamePromise DEF TestInv, JudgedRight
<1> QED
  BY <1>4, <1>5, <1>7, <1>8, <1>9, <1>10, <1>11 DEF TestInv

LEMMA SendTests == TestInv /\ SendTestFrame => TestInv'
<1> SUFFICES ASSUME TestInv, SendTestFrame PROVE TestInv'
  OBVIOUS
<1>1. /\ pc = "write" /\ program = "Tracker" /\ pc' = "collect"
      /\ UNCHANGED <<host, round, request, collected, pending, toHost, faults, judged>>
  BY DEF SendTestFrame
<1>2. Main' = Main /\ Configuration' = Configuration /\ program' = program
      /\ sizes' = sizes /\ config' = config
  BY <1>1, SameProgram DEF host
<1>3. HostTypeOK'
  BY <1>1, <1>2 DEF TestInv, HostTypeOK
<1>4. Ready'
  BY <1>1, <1>2, Prepared DEF Ready
<1>5. /\ Asked' /\ AnswersShort' /\ AnswersFragments' /\ CollectedGathered'
      /\ AnswerHeld'
  <2>1. ~Main.ring
    BY <1>1, TypedFrames, KindsOfTests
  <2> QED
    BY <1>1, <1>2, <2>1 DEF Asked, AnswersShort, AnswersFragments, CollectedGathered,
                           AnswerHeld
<1>6. JudgedRight'
  BY <1>1, <1>2, SamePromise DEF TestInv, JudgedRight
<1> QED
  BY <1>3, <1>4, <1>5, <1>6 DEF TestInv

\* What the engine promises for the request it has before it.
LEMMA PromisedNow ==
  ASSUME TestInv, Process, program # "Tracker"
  PROVE  /\ pending' \in Seq(Frame)
         /\ program # "Fragmenter" => Len(pending') <= 1
         /\ program \in {"LatencyTest", "DirectLatencyTest"} => Short(pending')
         /\ program = "Fragmenter" => Fragments(pending', Newest, RequestSize)
<1>1. /\ program \in Tests /\ round \in Nat /\ toEngine \in Seq(Frame) /\ toEngine # <<>>
      /\ HostTypeOK
  BY TypedFrames DEF TestInv, FramesOK, Process
<1>2. config = Configuration /\ (program = "RomFrameGen" => sizes[0] # 0)
  BY <1>1, Prepared
<1> DEFINE req == Head(toEngine)
<1>3. req = toEngine[1] /\ 1 \in 1 .. Len(toEngine) /\ req \in Frame
  BY <1>1, HeadAndTail
<1> HIDE DEF req
<1>4. PICK r \in 0 .. Newest : req \in Requests(r) /\ (pc = "collect" /\ r = round => req = request)
  BY <1>3 DEF TestInv, Asked
<1>5. Newest \in Int /\ r \in Nat /\ r <= Newest
  BY <1>1 DEF Newest
<1>6. CASE PromisesNothing(req)
  <2>1. program = "RomFrameGen" /\ pending' \in {<<>>, <<FrameBuffer(0)>>}
    BY <1>6 DEF PromisesNothing, Process, req
  <2>2. FrameBuffer(0) \in Frame
    <3> DEFINE n == MaxMessageSizeWords * WordSizeBytes
    <3>1. n \in Nat /\ MaxMessageSizeWords * 0 \in Int
      BY SectionAssumption DEF WordSizeBytes
    <3>2. FrameBuffer(0) \in [1 .. n -> Int]
      BY <3>1 DEF FrameBuffer, RomByte, WordSizeBytes
    <3> HIDE DEF n
    <3>3. FrameBuffer(0) \in Seq(Int)
      BY <3>1, <3>2, FunctionIsSeq
    <3> QED
      BY <3>3, IntsAreBytes
  <2>3. <<FrameBuffer(0)>> \in Seq(Frame) /\ Len(<<FrameBuffer(0)>>) <= 1
    <3> DEFINE f == FrameBuffer(0)
    <3> HIDE DEF f
    <3>1. f \in Frame
      BY <2>2 DEF f
    <3>2. <<f>> \in Seq(Frame) /\ Len(<<f>>) <= 1
      BY <3>1
    <3> QED
      BY <3>2 DEF f
  <2>4. <<>> \in Seq(Frame) /\ Len(<<>>) <= 1
    OBVIOUS
  <2> QED
    BY <2>1, <2>3, <2>4, Zenon
<1>7. CASE ~PromisesNothing(req)
  <2>1. pending' = Promise(req)
    BY <1>7 DEF Process, req
  <2>2. /\ Promise(req) \in Seq(Frame)
        /\ program # "Fragmenter" => Len(Promise(req)) = 1
        /\ program \in {"LatencyTest", "DirectLatencyTest"} => Short(Promise(req))
    BY <1>1, <1>2, <1>4, <1>5, PromiseTyped
  <2>3. program # "Fragmenter" => Len(pending') <= 1
    <3>1. 1 <= 1
      OBVIOUS
    <3> QED
      BY <2>1, <2>2, <3>1, Zenon
  <2>4. ASSUME program = "Fragmenter" PROVE Fragments(Promise(req), Newest, RequestSize)
    <3>1. Promise(req) = Parts(req, Largest) /\ Generated(req, r)
      BY <1>1, <1>2, <1>4, <1>5, <2>4, PromiseIs, RequestsOf
    <3>2. Fragments(Promise(req), r, Len(req))
      BY <1>3, <1>5, <3>1, PartsAreFragments
    <3>3. request \in Frame
      BY <1>1, <2>4 DEF HostTypeOK, FramesOK
    <3>4. Len(req) \in Int /\ RequestSize \in Int /\ MaxFrameSize \in Int
      BY <1>3, <3>3, IntsAreBytes, HostConstants DEF RequestSize
    <3>5. Len(req) <= MaxFrameSize
      BY <3>1, <3>4 DEF Generated
    <3>6. r < Newest \/ (r = Newest /\ Len(req) <= RequestSize)
      <4>1. CASE pc = "collect"
        <5>1. Newest = round /\ RequestSize = Len(request)
          BY <4>1 DEF Newest, RequestSize
        <5>2. r = round => Len(req) = Len(request)
          BY <1>4, <4>1
        <5> QED
          BY <1>5, <3>4, <5>1, <5>2
      <4>2. CASE pc # "collect"
        <5>1. RequestSize = MaxFrameSize
          BY <4>2 DEF RequestSize
        <5> QED
          BY <1>5, <3>5, <5>1
      <4> QED
        BY <4>1, <4>2
    <3> QED
      BY <1>5, <2>2, <3>2, <3>4, <3>6, FragmentsStay
  <2> QED
    BY <2>1, <2>2, <2>3, <2>4
<1> QED
  BY <1>6, <1>7

LEMMA ProcessTests == TestInv /\ Process => TestInv'
<1> SUFFICES ASSUME TestInv, Process PROVE TestInv'
  OBVIOUS
<1>1. /\ toEngine # <<>> /\ toEngine' = Tail(toEngine)
      /\ UNCHANGED <<host, pc, round, request, collected, toHost, faults, judged>>
  BY DEF Process
<1>2. /\ Main' = Main /\ Configuration' = Configuration
      /\ \A r : Requests(r)' = Requests(r)
      /\ program' = program /\ sizes' = sizes /\ config' = config
      /\ Newest' = Newest /\ RequestSize' = RequestSize /\ Accumulated' = Accumulated
  BY <1>1, SameProgram DEF host, Newest, RequestSize, Accumulated
<1>3. program # "Tracker" =>
        /\ toEngine' \in Seq(Frame) /\ pending' \in Seq(Frame)
        /\ \A i \in 1 .. Len(toEngine') :
             i + 1 \in 1 .. Len(toEngine) /\ toEngine'[i] = toEngine[i + 1]
  BY <1>1, TypedFrames, PromisedNow, HeadAndTail DEF FramesOK
<1>4. HostTypeOK'
  <2>1. program # "Tracker" => FramesOK'
    BY <1>1, <1>3, TypedFrames DEF FramesOK
  <2> QED
    BY <1>1, <1>2, <2>1 DEF TestInv, HostTypeOK
<1>5. Ready'
  BY <1>1, <1>2, Prepared DEF Ready
<1>6. Asked'
  BY <1>1, <1>2, <1>3 DEF TestInv, Asked
<1>7. AnswersShort' /\ AnswersFragments'
  BY <1>1, <1>2, PromisedNow DEF TestInv, AnswersShort, AnswersFragments
<1>8. CollectedGathered' /\ AnswerHeld'
  BY <1>1, <1>2 DEF TestInv, CollectedGathered, AnswerHeld
<1>9. JudgedRight'
  BY <1>1, <1>2, SamePromise DEF TestInv, JudgedRight
<1> QED
  BY <1>4, <1>5, <1>6, <1>7, <1>8, <1>9 DEF TestInv

\* A promised frame is sent on, as it is or not.
LEMMA SentTests ==
  ASSUME TestInv, pending # <<>>, pending' = Tail(pending), faults' \in Nat,
         UNCHANGED <<host, pc, round, request, collected, toEngine, judged>>,
         program # "Tracker" =>
           \E frames \in Seq(Frame) :
             /\ toHost' = toHost \o frames
             /\ program \in {"LatencyTest", "DirectLatencyTest"} => Short(frames)
             /\ program = "Fragmenter" => Fragments(frames, Newest, RequestSize)
  PROVE  TestInv'
<1>1. /\ Main' = Main /\ Configuration' = Configuration
      /\ \A r : Requests(r)' = Requests(r)
      /\ program' = program /\ sizes' = sizes /\ config' = config
      /\ Newest' = Newest /\ RequestSize' = RequestSize /\ Accumulated' = Accumulated
  BY SameProgram DEF host, Newest, RequestSize, Accumulated
<1>2. ASSUME program # "Tracker"
      PROVE  FramesOK' /\ AnswersShort' /\ AnswersFragments' /\ AnswerHeld'
  <2>1. PICK frames \in Seq(Frame) :
          /\ toHost' = toHost \o frames
          /\ program \in {"LatencyTest", "DirectLatencyTest"} => Short(frames)
          /\ program = "Fragmenter" => Fragments(frames, Newest, RequestSize)
    BY <1>2
  <2>2. FramesOK /\ pending \in Seq(Frame) /\ toHost \in Seq(Frame)
    BY <1>2, TypedFrames DEF FramesOK
  <2>3. Tail(pending) \in Seq(Frame) /\ toHost \o frames \in Seq(Frame)
    BY <2>2, HeadAndTail
  <2>4. FramesOK'
    BY <2>1, <2>2, <2>3 DEF FramesOK
  <2>5. program \in {"LatencyTest", "DirectLatencyTest"} =>
          Short(Tail(pending)) /\ Short(toHost \o frames)
    BY <2>1, <2>2, ShortKept DEF TestInv, AnswersShort
  <2>6. program = "Fragmenter" =>
          /\ Fragments(Tail(pending), Newest, RequestSize)
          /\ Fragments(toHost \o frames, Newest, RequestSize)
    BY <2>1, <2>2, FragmentsKept DEF TestInv, AnswersFragments
  <2>7. AnswersShort'
    BY <1>1, <2>1, <2>5 DEF TestInv, AnswersShort
  <2>8. AnswersFragments'
    BY <1>1, <2>1, <2>6 DEF AnswersFragments
  <2>9. AnswerHeld'
    <3>1. toHost # <<>> => toHost \o frames # <<>>
      BY <2>2
    <3> QED
      BY <1>1, <2>1, <3>1 DEF TestInv, AnswerHeld
  <2> QED
    BY <2>4, <2>7, <2>8, <2>9
<1>3. AnswersShort' /\ AnswersFragments' /\ AnswerHeld'
  <2>1. CASE program = "Tracker"
    <3>1. ~Main.ring
      BY <2>1, TypedFrames, KindsOfTests
    <3> QED
      BY <1>1, <2>1, <3>1 DEF AnswersShort, AnswersFragments, AnswerHeld
  <2> QED
    BY <1>2, <2>1
<1>4. HostTypeOK'
  BY <1>1, <1>2 DEF TestInv, HostTypeOK
<1>5. Ready'
  BY <1>1, Prepared DEF Ready
<1>6. Asked'
  BY <1>1 DEF TestInv, Asked
<1>7. CollectedGathered'
  BY <1>1 DEF TestInv, CollectedGathered
<1>8. JudgedRight'
  BY <1>1, SamePromise DEF TestInv, JudgedRight
<1> QED
  BY <1>3, <1>4, <1>5, <1>6, <1>7, <1>8 DEF TestInv

\* The next promised frame, when it is not the tracker's.
LEMMA NextPromised ==
  ASSUME TestInv, pending # <<>>, program # "Tracker"
  PROVE  /\ Head(pending) \in Frame /\ toHost \in Seq(Frame) /\ pending \in Seq(Frame)
         /\ program \in {"LatencyTest", "DirectLatencyTest"} => Len(Head(pending)) <= 1
         /\ program = "Fragmenter" => Fragment(Head(pending), Newest, RequestSize)
<1>1. pending \in Seq(Frame) /\ toHost \in Seq(Frame)
  BY TypedFrames DEF FramesOK
<1>2. Head(pending) \in Frame
  BY <1>1, HeadAndTail
<1> QED
  BY <1>1, <1>2, ShortKept, FragmentsKept DEF TestInv, AnswersShort, AnswersFragments

LEMMA EmitTests == TestInv /\ Emit => TestInv'
<1> SUFFICES ASSUME TestInv, Emit PROVE TestInv'
  OBVIOUS
<1>1. /\ pending # <<>> /\ pending' = Tail(pending) /\ toHost' = Append(toHost, Head(pending))
      /\ UNCHANGED <<host, pc, round, request, collected, toEngine, faults, judged>>
  BY DEF Emit
<1> DEFINE f == Head(pending)
<1>2. ASSUME program # "Tracker"
      PROVE  /\ <<f>> \in Seq(Frame) /\ toHost' = toHost \o <<f>>
             /\ program \in {"LatencyTest", "DirectLatencyTest"} => Short(<<f>>)
             /\ program = "Fragmenter" => Fragments(<<f>>, Newest, RequestSize)
  <2>1. /\ f \in Frame /\ toHost \in Seq(Frame)
        /\ program \in {"LatencyTest", "DirectLatencyTest"} => Len(f) <= 1
        /\ program = "Fragmenter" => Fragment(f, Newest, RequestSize)
    BY <1>1, <1>2, NextPromised
  <2>2. toHost' = Append(toHost, f)
    BY <1>1
  <2> HIDE DEF f
  <2> QED
    BY <2>1, <2>2, OneOf, Zenon
<1>3. faults' \in Nat
  BY <1>1, TypedFrames
<1> HIDE DEF f
<1> QED
  BY <1>1, <1>2, <1>3, SentTests

LEMMA EmitBrokenTests == TestInv /\ EmitBroken => TestInv'
<1> SUFFICES ASSUME TestInv, EmitBroken PROVE TestInv'
  OBVIOUS
<1>1. /\ pending # <<>> /\ pending' = Tail(pending) /\ program # "Tracker"
      /\ faults' = faults + 1
      /\ UNCHANGED <<host, pc, round, request, collected, toEngine, judged>>
  BY DEF EmitBroken
<1>2. PICK frames \in Broken(Head(pending)) : toHost' = toHost \o frames
  BY DEF EmitBroken
<1> DEFINE f == Head(pending)
<1>3. /\ f \in Frame
      /\ program \in {"LatencyTest", "DirectLatencyTest"} => Len(f) <= 1
      /\ program = "Fragmenter" => Fragment(f, Newest, RequestSize)
  BY <1>1, NextPromised
<1>4. frames \in Broken(f)
  BY <1>2
<1> HIDE DEF f
<1>5. frames \in Seq(Frame)
  BY <1>3, <1>4, BrokenOf
<1>6. program \in {"LatencyTest", "DirectLatencyTest"} => Short(frames)
  BY <1>3, <1>4, BrokenShort
<1>7. program = "Fragmenter" => Fragments(frames, Newest, RequestSize)
  <2>1. round \in Nat /\ request \in Frame
    BY <1>1, TypedFrames DEF FramesOK
  <2>2. Newest \in Int /\ RequestSize \in Int
    BY <2>1, HostConstants, IntsAreBytes DEF Newest, RequestSize
  <2> QED
    BY <1>3, <1>4, <2>2, BrokenFragments
<1>8. faults' \in Nat
  BY <1>1, TypedFrames
<1> QED
  BY <1>1, <1>2, <1>5, <1>6, <1>7, <1>8, SentTests

\* A frame is read: the next fragment fits what has been accumulated, or shows
\* that it is wrong.
LEMMA CollectTests == TestInv /\ Collect => TestInv'
<1> SUFFICES ASSUME TestInv, Collect PROVE TestInv'
  OBVIOUS
<1>1. /\ pc = "collect" /\ ~Enough /\ toHost # <<>>
      /\ collected' = Append(collected, Head(toHost))
      /\ toHost' = toHost \/ toHost' = Tail(toHost)
      /\ UNCHANGED <<host, pc, round, request, toEngine, pending, faults, judged>>
  BY DEF Collect
<1>2. /\ Main' = Main /\ Configuration' = Configuration
      /\ \A r : Requests(r)' = Requests(r)
      /\ program' = program /\ sizes' = sizes /\ config' = config
      /\ Newest' = Newest /\ RequestSize' = RequestSize
  BY <1>1, SameProgram DEF host, Newest, RequestSize
<1> DEFINE p == Head(toHost)
<1>3. ASSUME program # "Tracker"
      PROVE  /\ FramesOK /\ toHost \in Seq(Frame) /\ collected \in Seq(Frame)
             /\ request \in Frame /\ p \in Frame /\ toHost' \in Seq(Frame)
             /\ collected' = collected \o <<p>>
             /\ <<p>> \in Seq(Frame) /\ collected' \in Seq(Frame)
  <2>1. FramesOK /\ toHost \in Seq(Frame) /\ collected \in Seq(Frame) /\ request \in Frame
    BY <1>3, TypedFrames DEF FramesOK
  <2>2. p \in Frame /\ toHost' \in Seq(Frame)
    BY <1>1, <2>1, HeadAndTail
  <2> HIDE DEF p
  <2>3. collected' = Append(collected, p)
    BY <1>1 DEF p
  <2>4. collected' = collected \o <<p>> /\ <<p>> \in Seq(Frame)
    BY <2>1, <2>2, <2>3, OneOf
  <2>5. collected' \in Seq(Frame)
    BY <2>1, <2>2, <2>3
  <2> QED
    BY <2>1, <2>2, <2>4, <2>5
<1> HIDE DEF p
<1>4. HostTypeOK'
  <2>1. program # "Tracker" => FramesOK'
    BY <1>1, <1>3 DEF FramesOK
  <2>2. ASSUME Main.ring PROVE Len(collected') <= 1
    <3>1. program \notin {"Fragmenter", "Tracker"}
      BY <2>2, TypedFrames, KindsOfTests
    <3>2. collected = <<>>
      BY <1>1, <3>1 DEF Enough
    <3>3. \A f : Len(Append(<<>>, f)) <= 1
      OBVIOUS
    <3> QED
      BY <1>1, <3>2, <3>3, Zenon
  <2> QED
    BY <1>1, <1>2, <2>1, <2>2 DEF TestInv, HostTypeOK
<1>5. Ready'
  BY <1>1, <1>2, Prepared DEF Ready
<1>6. Asked'
  BY <1>1, <1>2 DEF TestInv, Asked
<1>7. AnswersShort'
  <2> SUFFICES ASSUME program \in {"LatencyTest", "DirectLatencyTest"}
               PROVE  Short(pending) /\ Short(toHost') /\ Short(collected')
    BY <1>1, <1>2 DEF AnswersShort
  <2>1. Short(pending) /\ Short(toHost) /\ Short(collected)
    BY DEF TestInv, AnswersShort
  <2>2. Len(p) <= 1 /\ Short(Tail(toHost))
    BY <1>1, <1>3, <2>1, ShortKept DEF p
  <2>3. Short(<<p>>)
    BY <1>3, <2>2, OneOf
  <2>4. Short(collected \o <<p>>)
    BY <1>3, <2>1, <2>3, ShortKept
  <2> QED
    BY <1>1, <1>3, <2>1, <2>2, <2>4
<1>8. AnswersFragments'
  <2> SUFFICES ASSUME program = "Fragmenter"
               PROVE  /\ Fragments(pending, Newest, RequestSize)
                      /\ Fragments(toHost', Newest, RequestSize)
    BY <1>1, <1>2 DEF AnswersFragments
  <2>1. /\ Fragments(pending, Newest, RequestSize) /\ Fragments(toHost, Newest, RequestSize)
    BY DEF TestInv, AnswersFragments
  <2>2. Fragments(Tail(toHost), Newest, RequestSize)
    BY <1>1, <1>3, <2>1, FragmentsKept
  <2> QED
    BY <1>1, <2>1, <2>2
<1>9. AnswerHeld'
  BY <1>1, <1>2 DEF Collect, AnswerHeld
<1>11. CollectedGathered'
  <2> SUFFICES ASSUME program = "Fragmenter"
               PROVE  Gathered(collected', Accumulated', request)
    BY <1>1, <1>2 DEF CollectedGathered
  <2>1. Newest = round /\ RequestSize = Len(request) /\ round \in Nat /\ program \in Tests
    BY <1>1, TypedFrames DEF Newest, RequestSize
  <2>2. Fragment(p, round, Len(request))
    <3>1. Fragments(toHost, round, Len(request))
      BY <2>1 DEF TestInv, AnswersFragments
    <3> QED
      BY <1>1, <1>3, <3>1, FragmentsKept DEF p
  <2>3. Generated(request, round)
    <3>1. request \in Requests(round)
      BY <1>1 DEF TestInv, Asked
    <3> QED
      BY <2>1, <3>1, RequestsOf
  <2>4. Gathered(collected, Accumulated, request) /\ Len(Accumulated) < Len(request)
    <3>1. ~(Len(Accumulated) >= Len(request))
      BY <1>1 DEF Enough
    <3>2. Accumulated \in Frame
      BY <1>3, FlattenIsSeq DEF Accumulated, Frame
    <3>3. Len(Accumulated) < Len(request)
      BY <1>3, <3>1, <3>2, IntsAreBytes
    <3> QED
      BY <1>1, <3>3 DEF TestInv, CollectedGathered
  <2>5. Accumulated \in Frame /\ Accumulated' = Accumulated \o p
    <3>1. Accumulated \in Frame
      BY <1>3, FlattenIsSeq DEF Accumulated, Frame
    <3>2. FlattenSeq(Append(collected, p)) = FlattenSeq(collected) \o p
      BY <1>3, FlattenAppend DEF Frame
    <3>3. collected' = Append(collected, p)
      BY <1>1 DEF p
    <3> QED
      BY <3>1, <3>2, <3>3 DEF Accumulated
  <2>6. Gathered(Append(collected, p), Accumulated \o p, request)
    BY <1>3, <2>1, <2>2, <2>3, <2>4, <2>5, GatheredGrows
  <2> QED
    BY <1>1, <2>5, <2>6 DEF p
<1>10. JudgedRight'
  BY <1>1, <1>2, SamePromise DEF TestInv, JudgedRight
<1> QED
  BY <1>4, <1>5, <1>6, <1>7, <1>8, <1>9, <1>10, <1>11 DEF TestInv

\* What is accepted is right; what is left of the request's fragments belongs
\* to an earlier request from here on.
LEMMA JudgeTests == TestInv /\ Judge => TestInv'
<1> SUFFICES ASSUME TestInv, Judge PROVE TestInv'
  OBVIOUS
<1> DEFINE verdict == [request |-> request, answer |-> collected]
<1>1. /\ pc = "collect" /\ Enough
      /\ \/ pc' = "failed" /\ round' = round /\ judged' = judged
         \/ /\ ~Fails /\ pc' \in {"acquire", "fill", "done"} /\ round' = round + 1
            /\ judged' = Append(judged, verdict)
      /\ toHost' = IF Main.ring THEN Tail(toHost) ELSE toHost
      /\ UNCHANGED <<host, request, collected, toEngine, pending, faults>>
  BY FirstStepIs DEF Judge
<1>2. /\ Main' = Main /\ Configuration' = Configuration
      /\ \A r : Requests(r)' = Requests(r)
      /\ program' = program /\ sizes' = sizes /\ config' = config
  BY <1>1, SameProgram DEF host
<1>3. /\ program \in Tests /\ round \in Nat /\ HostTypeOK
      /\ program # "Tracker" => FramesOK
  BY TypedFrames DEF TestInv
<1>4. Newest = round /\ Newest' = round /\ RequestSize' = MaxFrameSize
      /\ RequestSize = Len(request)
  BY <1>1, <1>3 DEF Newest, RequestSize
<1>5. program # "Tracker" => toHost' \in Seq(Frame)
  <2>1. CASE Main.ring /\ program # "Tracker"
    <3>1. toHost \in Seq(Frame) /\ toHost # <<>>
      <4>1. program # "Fragmenter"
        BY <1>3, <2>1, KindsOfTests
      <4>2. collected # <<>>
        BY <1>1, <2>1, <4>1 DEF Enough
      <4> QED
        BY <1>1, <1>3, <2>1, <4>2 DEF TestInv, AnswerHeld, FramesOK
    <3> QED
      BY <1>1, <2>1, <3>1, HeadAndTail
  <2>2. CASE ~Main.ring /\ program # "Tracker"
    BY <1>1, <1>3, <2>2 DEF FramesOK
  <2> QED
    BY <2>1, <2>2
<1>6. program # "Tracker" => judged' \in Seq([request : Frame, answer : Seq(Frame)])
  <2> SUFFICES ASSUME program # "Tracker"
               PROVE  judged' \in Seq([request : Frame, answer : Seq(Frame)])
    OBVIOUS
  <2>1. verdict \in [request : Frame, answer : Seq(Frame)]
    BY <1>3 DEF FramesOK
  <2>2. judged \in Seq([request : Frame, answer : Seq(Frame)])
    BY <1>3 DEF FramesOK
  <2> HIDE DEF verdict
  <2>3. Append(judged, verdict) \in Seq([request : Frame, answer : Seq(Frame)])
    BY <2>1, <2>2
  <2> QED
    BY <1>1, <2>2, <2>3
<1>7. HostTypeOK'
  <2>1. program # "Tracker" => FramesOK'
    BY <1>1, <1>3, <1>5, <1>6 DEF FramesOK
  <2>2. round' \in Nat
    BY <1>1, <1>3
  <2> HIDE DEF verdict
  <2> QED
    BY <1>1, <1>2, <1>3, <2>1, <2>2 DEF HostTypeOK
<1>8. Ready'
  BY <1>1, <1>2, Prepared DEF Ready
<1>9. Asked'
  BY <1>1, <1>2, <1>4 DEF TestInv, Asked
<1>10. toHost' = toHost \/ (toHost # <<>> /\ toHost' = Tail(toHost)) \/ program = "Tracker"
  <2>1. ASSUME Main.ring, program # "Tracker" PROVE toHost # <<>>
    <3>1. program # "Fragmenter"
      BY <1>3, <2>1, KindsOfTests
    <3>2. collected # <<>>
      BY <1>1, <2>1, <3>1 DEF Enough
    <3> QED
      BY <1>1, <2>1, <3>2 DEF TestInv, AnswerHeld
  <2> QED
    BY <1>1, <2>1
<1>11. AnswersShort'
  <2> SUFFICES ASSUME program \in {"LatencyTest", "DirectLatencyTest"}
               PROVE  Short(pending) /\ Short(toHost') /\ Short(collected)
    BY <1>1, <1>2 DEF AnswersShort
  <2>1. Short(pending) /\ Short(toHost) /\ Short(collected) /\ toHost \in Seq(Frame)
    BY <1>3 DEF TestInv, AnswersShort, FramesOK
  <2> QED
    BY <1>10, <2>1, ShortKept
<1>12. AnswersFragments'
  <2> SUFFICES ASSUME program = "Fragmenter"
               PROVE  /\ Fragments(pending, round, MaxFrameSize)
                      /\ Fragments(toHost, round, MaxFrameSize)
    <3>1. program = "Fragmenter" => toHost' = toHost
      BY <1>1, <1>3, KindsOfTests
    <3> QED
      BY <1>1, <1>2, <1>4, <3>1 DEF AnswersFragments
  <2>1. /\ Fragments(pending, round, Len(request)) /\ Fragments(toHost, round, Len(request))
        /\ pending \in Seq(Frame) /\ toHost \in Seq(Frame) /\ request \in Frame
    BY <1>3, <1>4 DEF TestInv, AnswersFragments, FramesOK
  <2>2. Generated(request, round)
    <3>1. request \in Requests(round)
      BY <1>1 DEF TestInv, Asked
    <3> QED
      BY <1>3, <3>1, RequestsOf
  <2>3. Len(request) \in Int /\ Len(request) <= MaxFrameSize /\ MaxFrameSize \in Int
    BY <2>1, <2>2, IntsAreBytes, HostConstants DEF Generated
  <2> QED
    BY <1>3, <2>1, <2>3, FragmentsStay
<1>13. CollectedGathered' /\ AnswerHeld'
  BY <1>1 DEF CollectedGathered, AnswerHeld
<1>14. JudgedRight'
  <2>1. CASE judged' = judged
    BY <1>1, <1>2, <2>1, SamePromise DEF TestInv, JudgedRight
  <2>2. CASE ~Fails /\ judged' = Append(judged, verdict)
    <3> SUFFICES ASSUME Main.compares
                 PROVE  \A n \in 1 .. Len(judged') :
                          judged'[n].answer = Promise(judged'[n].request)
      BY <1>1, <1>2, SamePromise DEF JudgedRight
    <3>1. collected = Promise(request)
      <4>1. request \in Requests(round)
        BY <1>1, <1>3, KindsOfTests DEF TestInv, Asked
      <4> QED
        BY <1>1, <1>3, <2>2, <4>1, Prepared, RightAnswer DEF TestInv
    <3>2. program # "Tracker"
      BY <1>3, KindsOfTests
    <3>3. judged \in Seq([request : Frame, answer : Seq(Frame)])
      BY <1>3, <3>2 DEF FramesOK
    <3>4. verdict.answer = Promise(verdict.request)
      BY <3>1
    <3>5. \A n \in 1 .. Len(judged) : judged[n].answer = Promise(judged[n].request)
      BY DEF TestInv, JudgedRight
    <3> HIDE DEF verdict
    <3>6. /\ Len(judged') = Len(judged) + 1 /\ judged'[Len(judged) + 1] = verdict
          /\ \A n \in 1 .. Len(judged) : judged'[n] = judged[n]
          /\ Len(judged) \in Nat
      BY <2>2, <3>3, AppendProperties
    <3>7. \A n \in 1 .. Len(judged') : n = Len(judged) + 1 \/ n \in 1 .. Len(judged)
      BY <3>6
    <3> QED
      BY <3>4, <3>5, <3>6, <3>7, Zenon
  <2> QED
    BY <1>1, <2>1, <2>2
<1> QED
  BY <1>7, <1>8, <1>9, <1>11, <1>12, <1>13, <1>14 DEF TestInv

LEMMA TestStep == TestInv /\ [HostsNext]_vars => TestInv'
BY ConfigureTests, PrepareTests, WriteTests, SendTests, CollectTests, JudgeTests,
   ProcessTests, EmitTests, EmitBrokenTests, TestsStutter DEF HostsNext, Host

\* A test that ends well has compared each answer with what its request was
\* promised, and let nothing pass that differs from it: not a frame that is
\* missing, cut short, wrong at its end or sent twice (the comparisons of
\* latencytest.c, headerinserter.c, fragmenter.c and romframegen.c).
THEOREM PassesAreRight == HostsSpec => []PassMeansRight
<1>1. ASSUME TestInv PROVE PassMeansRight
  <2> SUFFICES ASSUME Main.compares
               PROVE  \A n \in DOMAIN judged : judged[n].answer = Promise(judged[n].request)
    BY DEF PassMeansRight
  <2>1. program # "Tracker"
    BY <1>1, TypedFrames, KindsOfTests
  <2>2. DOMAIN judged = 1 .. Len(judged)
    BY <1>1, <2>1, TypedFrames DEF FramesOK
  <2> QED
    BY <1>1, <2>2 DEF TestInv, JudgedRight
<1> QED
  BY <1>1, TestsBegin, TestStep, PTL DEF HostsSpec

-----------------------------------------------------------------------------
\* Nothing is left of a request when the next one is made.
LEMMA WayBegins == HostsInit => OnItsWay
BY DEF HostsInit, OnItsWay, Quiet

LEMMA PrepareOnItsWay ==
  TestInv /\ OnItsWay /\ (Configure \/ Acquire \/ Fill) => OnItsWay'
<1> SUFFICES ASSUME OnItsWay, Configure \/ Acquire \/ Fill PROVE OnItsWay'
  OBVIOUS
<1>1. /\ pc \in {"configure", "acquire", "fill"} /\ pc' \in {"failed", "acquire", "fill", "write"}
      /\ UNCHANGED <<program, round, toEngine, pending, toHost, faults>>
  BY FirstStepIs DEF Configure, Acquire, Fill, host
<1> QED
  BY <1>1 DEF OnItsWay, Quiet

LEMMA WriteOnItsWay == TestInv /\ OnItsWay /\ Write => OnItsWay'
<1> SUFFICES ASSUME TestInv, OnItsWay, Write, faults = 0 PROVE OnItsWay'
  BY DEF OnItsWay, Write
<1>1. /\ pc = "write" /\ program # "Tracker" /\ pc' = "collect"
      /\ toEngine' = Append(toEngine, request) /\ collected' = <<>>
      /\ UNCHANGED <<host, round, request, pending, toHost, faults>>
  BY DEF Write
<1>2. program' = program
  BY <1>1 DEF host
<1>3. toEngine = <<>> /\ pending = <<>> /\ toHost = <<>>
  BY <1>1 DEF OnItsWay, Quiet
<1>4. Append(<<>>, request) = <<request>> /\ Len(<<request>>) + Len(<<>>) + Len(<<>>) <= 1
  OBVIOUS
<1>5. OneFrame'
  BY <1>1, <1>3, <1>4, Zenon DEF OneFrame
<1>6. AllFragments'
  BY <1>1, <1>3, <1>4, Zenon DEF AllFragments
<1> QED
  BY <1>1, <1>2, <1>5, <1>6 DEF OnItsWay

LEMMA SendOnItsWay == TestInv /\ OnItsWay /\ SendTestFrame => OnItsWay'
<1> SUFFICES ASSUME TestInv, OnItsWay, SendTestFrame PROVE OnItsWay'
  OBVIOUS
<1>1. /\ pc = "write" /\ program = "Tracker" /\ pc' = "collect"
      /\ UNCHANGED <<host, round, faults>>
  BY DEF SendTestFrame
<1>2. program' = program /\ Main' = Main
  BY <1>1, SameProgram DEF host
<1>3. ~Main.ring
  BY <1>1, TypedFrames, KindsOfTests
<1> QED
  BY <1>1, <1>2, <1>3 DEF OnItsWay

LEMMA CollectOnItsWay == TestInv /\ OnItsWay /\ Collect => OnItsWay'
<1> SUFFICES ASSUME TestInv, OnItsWay, Collect, faults = 0 PROVE OnItsWay'
  BY DEF OnItsWay, Collect
<1>1. /\ pc = "collect" /\ toHost # <<>>
      /\ collected' = Append(collected, Head(toHost))
      /\ toHost' = IF Main.ring THEN toHost ELSE Tail(toHost)
      /\ UNCHANGED <<host, pc, round, request, toEngine, pending, faults>>
  BY DEF Collect
<1>2. program' = program /\ Main' = Main
  BY <1>1, SameProgram DEF host
<1>3. program \in Tests /\ (program # "Tracker" => FramesOK)
  BY TypedFrames
<1>4. Main.ring => OneFrame'
  BY <1>1 DEF OnItsWay, OneFrame
<1>5. program = "Fragmenter" => AllFragments'
  <2> SUFFICES ASSUME program = "Fragmenter" PROVE AllFragments'
    OBVIOUS
  <2>1. /\ toEngine = <<>>
        /\ Len(collected) + Len(toHost) + Len(pending) = ExpectedFragments(Len(request))
    BY <1>1 DEF OnItsWay, AllFragments
  <2>2. collected \in Seq(Frame) /\ toHost \in Seq(Frame) /\ pending \in Seq(Frame)
    BY <1>3 DEF FramesOK
  <2>3. Len(collected') = Len(collected) + 1
    BY <1>1, <2>2
  <2>4. Len(toHost') = Len(toHost) - 1
    <3>1. toHost' = Tail(toHost)
      BY <1>1, <1>3, KindsOfTests
    <3> QED
      BY <1>1, <2>2, <3>1, HeadAndTail
  <2>5. Len(collected) \in Nat /\ Len(toHost) \in Nat /\ Len(pending) \in Nat
    BY <2>2
  <2>6. Len(collected') + Len(toHost') + Len(pending') = Len(collected) + Len(toHost) + Len(pending)
    <3> DEFINE a == Len(collected)
               b == Len(toHost)
               c == Len(pending)
               x == Len(collected')
               y == Len(toHost')
    <3> HIDE DEF a, b, c, x, y
    <3>1. a \in Nat /\ b \in Nat /\ c \in Nat /\ x = a + 1 /\ y = b - 1
      BY <2>3, <2>4, <2>5, Zenon DEF a, b, c, x, y
    <3>2. x + y + c = a + b + c
      BY <3>1
    <3>3. pending' = pending
      BY <1>1
    <3> QED
      BY <3>2, <3>3, Zenon DEF a, b, c, x, y
  <2> QED
    BY <1>1, <2>1, <2>6 DEF AllFragments
<1> QED
  BY <1>1, <1>2, <1>4, <1>5 DEF OnItsWay

LEMMA JudgeOnItsWay == TestInv /\ OnItsWay /\ Judge => OnItsWay'
<1> SUFFICES ASSUME TestInv, OnItsWay, Judge, faults = 0 PROVE OnItsWay'
  BY DEF OnItsWay, Judge
<1>1. /\ pc = "collect" /\ Enough
      /\ toHost' = IF Main.ring THEN Tail(toHost) ELSE toHost
      /\ UNCHANGED <<host, toEngine, pending, faults>>
      /\ \/ pc' = "failed" /\ round' = round
         \/ ~Fails /\ pc' = NextStep /\ round' = round + 1
  BY DEF Judge
<1>2. program' = program /\ program \in Tests /\ (program # "Tracker" => FramesOK)
  BY <1>1, TypedFrames DEF host
<1>3. CASE pc' = "failed"
  BY <1>1, <1>2, <1>3 DEF OnItsWay
<1>4. CASE ~Fails /\ pc' = NextStep /\ round' = round + 1
  <2>1. pc' \in {"acquire", "fill", "done"}
    BY <1>4, FirstStepIs
  <2>2. CASE program = "Tracker"
    <3>1. round = 0
      BY <1>1, <2>2 DEF OnItsWay
    <3>2. pc' = "done"
      <4>1. Main.rounds = 1 /\ round + 1 = 1
        BY <1>2, <2>2, <3>1, KindsOfTests
      <4> QED
        BY <1>4, <4>1 DEF NextStep
    <3> QED
      BY <1>2, <2>2, <3>2 DEF OnItsWay
  <2>3. CASE program = "Fragmenter"
    <3>1. toHost' = toHost
      BY <1>1, <1>2, <2>3, KindsOfTests
    <3>2. Len(collected) = ExpectedFragments(Len(request))
      BY <1>4, <2>3 DEF Fails, FragmentsFail
    <3>3. collected \in Seq(Frame) /\ toHost \in Seq(Frame) /\ pending \in Seq(Frame)
      BY <1>2, <2>3 DEF FramesOK
    <3>4. collected # <<>>
      <4>1. Len(Accumulated) >= Len(request)
        BY <1>1, <2>3 DEF Enough
      <4>2. Generated(request, round)
        <5>1. request \in Requests(round) /\ round \in Nat
          BY <1>1, <2>3, TypedFrames DEF TestInv, Asked
        <5> QED
          BY <1>2, <2>3, <5>1, RequestsOf
      <4>3. Len(request) >= 1 /\ Len(request) \in Nat
        BY <4>2, HostConstants DEF Generated
      <4>4. collected = <<>> => Len(Accumulated) = 0
        BY DEF Accumulated, FlattenSeq
      <4> QED
        BY <4>1, <4>3, <4>4
    <3>5. /\ toEngine = <<>>
          /\ Len(collected) + Len(toHost) + Len(pending) = ExpectedFragments(Len(request))
      BY <1>1, <2>3, <3>4 DEF OnItsWay, AllFragments
    <3>6. toHost = <<>> /\ pending = <<>>
      <4>1. \A a, b, c \in Nat : a + b + c = a => b = 0 /\ c = 0
        OBVIOUS
      <4>2. Len(collected) \in Nat /\ Len(toHost) \in Nat /\ Len(pending) \in Nat
        BY <3>3
      <4>3. Len(toHost) = 0 /\ Len(pending) = 0
        BY <3>2, <3>5, <4>1, <4>2, Zenon
      <4> QED
        BY <3>3, <4>3
    <3>7. Quiet'
      BY <1>1, <3>1, <3>5, <3>6 DEF Quiet
    <3> QED
      BY <1>2, <2>1, <2>3, <3>7 DEF OnItsWay
  <2>4. CASE program \notin {"Tracker", "Fragmenter"}
    <3>1. Main.ring
      BY <1>2, <2>4, KindsOfTests
    <3>2. OneFrame /\ collected # <<>>
      BY <1>1, <2>4, <3>1 DEF OnItsWay, Enough
    <3>3. /\ Len(toEngine) + Len(pending) + Len(toHost) <= 1 /\ toHost # <<>>
          /\ toEngine \in Seq(Frame) /\ pending \in Seq(Frame) /\ toHost \in Seq(Frame)
      BY <1>2, <2>4, <3>2 DEF OneFrame, FramesOK
    <3>4. toEngine = <<>> /\ pending = <<>> /\ Tail(toHost) = <<>>
      <4>1. \A s \in Seq(Frame) : Len(s) \in Nat /\ (s = <<>> <=> Len(s) = 0)
        OBVIOUS
      <4>2. \A a, b, c \in Nat : a + b + c <= 1 /\ c # 0 => a = 0 /\ b = 0 /\ c - 1 = 0
        OBVIOUS
      <4>3. Len(toEngine) = 0 /\ Len(pending) = 0 /\ Len(toHost) - 1 = 0
        BY <3>3, <4>1, <4>2, Zenon
      <4>4. Tail(toHost) \in Seq(Frame) /\ Len(Tail(toHost)) = Len(toHost) - 1
        BY <3>3, HeadAndTail
      <4> QED
        BY <3>3, <4>1, <4>3, <4>4, Zenon
    <3>5. Quiet'
      BY <1>1, <3>1, <3>4 DEF Quiet
    <3> QED
      BY <1>2, <2>1, <2>4, <3>5 DEF OnItsWay
  <2> QED
    BY <2>2, <2>3, <2>4
<1> QED
  BY <1>1, <1>3, <1>4

LEMMA ProcessOnItsWay == TestInv /\ OnItsWay /\ Process => OnItsWay'
<1> SUFFICES ASSUME TestInv, OnItsWay, Process, faults = 0 PROVE OnItsWay'
  BY DEF OnItsWay, Process
<1>1. /\ toEngine # <<>> /\ pending = <<>> /\ toEngine' = Tail(toEngine)
      /\ UNCHANGED <<host, pc, round, request, collected, toHost, faults>>
  BY DEF Process
<1>2. program' = program /\ sizes' = sizes /\ Main' = Main
  BY <1>1, SameProgram DEF host
<1>3. program \in Tests /\ (program # "Tracker" => FramesOK)
  BY TypedFrames
<1>4. pc \notin {"configure", "acquire", "fill", "write"}
  BY <1>1 DEF OnItsWay, Quiet
<1>5. ASSUME pc = "collect", Main.ring PROVE OneFrame'
  <2>1. program \notin {"Fragmenter", "Tracker"}
    BY <1>3, <1>5, KindsOfTests
  <2>2. Len(pending') <= 1 /\ pending' \in Seq(Frame)
    BY <2>1, PromisedNow
  <2>3. /\ Len(toEngine) + Len(pending) + Len(toHost) <= 1
        /\ collected # <<>> => toHost # <<>>
    BY <1>5 DEF OnItsWay, OneFrame
  <2>4. toEngine \in Seq(Frame) /\ toHost \in Seq(Frame) /\ pending \in Seq(Frame)
    BY <1>3, <2>1 DEF FramesOK
  <2>5. Len(toEngine') = Len(toEngine) - 1 /\ Len(toEngine) # 0
    BY <1>1, <2>4, HeadAndTail
  <2>6. /\ Len(toEngine) \in Nat /\ Len(toHost) \in Nat /\ Len(pending) \in Nat
        /\ Len(pending') \in Nat
    BY <2>2, <2>4
  <2>7. Len(toEngine') + Len(pending') + Len(toHost) <= 1
    <3>1. \A a, b, c, d \in Nat : a + b + c <= 1 /\ a # 0 /\ d <= 1 => (a - 1) + d + c <= 1
      OBVIOUS
    <3> QED
      BY <2>2, <2>3, <2>5, <2>6, <3>1, Zenon
  <2> QED
    BY <1>1, <2>3, <2>7 DEF OneFrame
<1>6. ASSUME pc = "collect", program = "Fragmenter" PROVE AllFragments'
  <2>1. toEngine = <<request>> /\ toHost = <<>> /\ collected = <<>>
    BY <1>1, <1>6 DEF OnItsWay, AllFragments
  <2>2. Head(toEngine) = request /\ Tail(toEngine) = <<>>
    BY <2>1
  <2>3. pending' = Promise(request)
    BY <1>6, <2>2 DEF Process, PromisesNothing
  <2>4. request \in Requests(round) /\ round \in Nat /\ HostTypeOK
    BY <1>6, TypedFrames DEF TestInv, Asked
  <2>5. Len(pending') = ExpectedFragments(Len(request)) /\ pending' \in Seq(Frame)
    BY <1>1, <1>6, <2>3, <2>4, Prepared, PromiseTyped
  <2>6. toEngine' = <<>> /\ toHost' = <<>> /\ collected' = <<>> /\ request' = request
    BY <1>1, <2>1, <2>2
  <2>7. Len(<<>>) = 0 /\ \A n \in Nat : 0 + 0 + n = n
    OBVIOUS
  <2>8. Len(pending') \in Nat
    BY <2>5
  <2> QED
    BY <2>5, <2>6, <2>7, <2>8, Zenon DEF AllFragments
<1> QED
  BY <1>1, <1>2, <1>4, <1>5, <1>6 DEF OnItsWay

LEMMA EmitOnItsWay == TestInv /\ OnItsWay /\ Emit => OnItsWay'
<1> SUFFICES ASSUME TestInv, OnItsWay, Emit, faults = 0 PROVE OnItsWay'
  BY DEF OnItsWay, Emit
<1>1. /\ pending # <<>> /\ pending' = Tail(pending) /\ toHost' = Append(toHost, Head(pending))
      /\ UNCHANGED <<host, pc, round, request, collected, toEngine, faults>>
  BY DEF Emit
<1>2. program' = program /\ sizes' = sizes /\ Main' = Main
  BY <1>1, SameProgram DEF host
<1>3. program \in Tests /\ (program # "Tracker" => FramesOK)
  BY TypedFrames
<1>4. pc \notin {"configure", "acquire", "fill", "write"}
  BY <1>1 DEF OnItsWay, Quiet
<1>5. ASSUME program # "Tracker"
      PROVE  /\ Len(toHost') = Len(toHost) + 1 /\ Len(pending') = Len(pending) - 1
             /\ Len(toHost) \in Nat /\ Len(pending) \in Nat /\ Len(toEngine) \in Nat
             /\ Len(collected) \in Nat /\ toHost' # <<>>
  <2>1. /\ toHost \in Seq(Frame) /\ pending \in Seq(Frame) /\ toEngine \in Seq(Frame)
        /\ collected \in Seq(Frame)
    BY <1>3, <1>5 DEF FramesOK
  <2>2. Len(pending') = Len(pending) - 1 /\ Head(pending) \in Frame
    BY <1>1, <2>1, HeadAndTail
  <2>3. Len(toHost') = Len(toHost) + 1 /\ toHost' # <<>>
    BY <1>1, <2>1, <2>2
  <2> QED
    BY <2>1, <2>2, <2>3
<1>6. ASSUME pc = "collect", Main.ring PROVE OneFrame'
  <2>1. program # "Tracker"
    BY <1>3, <1>6, KindsOfTests
  <2>2. Len(toEngine) + Len(pending) + Len(toHost) <= 1
    BY <1>6 DEF OnItsWay, OneFrame
  <2>3. Len(toEngine) + Len(pending') + Len(toHost') <= 1
    BY <1>5, <2>1, <2>2
  <2> QED
    BY <1>1, <1>5, <2>1, <2>3 DEF OneFrame
<1>7. ASSUME pc = "collect", program = "Fragmenter" PROVE AllFragments'
  <2>1. /\ toEngine = <<>>
        /\ Len(collected) + Len(toHost) + Len(pending) = ExpectedFragments(Len(request))
    BY <1>1, <1>7 DEF OnItsWay, AllFragments
  <2>2. Len(collected) + Len(toHost') + Len(pending') = Len(collected) + Len(toHost) + Len(pending)
    BY <1>5, <1>7
  <2> QED
    BY <1>1, <2>1, <2>2 DEF AllFragments
<1> QED
  BY <1>1, <1>2, <1>4, <1>6, <1>7 DEF OnItsWay

LEMMA WayStep == TestInv /\ OnItsWay /\ [HostsNext]_vars => OnItsWay'
<1> SUFFICES ASSUME TestInv, OnItsWay, [HostsNext]_vars PROVE OnItsWay'
  OBVIOUS
<1>1. CASE EmitBroken
  <2>1. faults' # 0
    BY <1>1, TypedFrames DEF EmitBroken
  <2> QED
    BY <2>1 DEF OnItsWay
<1>2. CASE UNCHANGED vars
  <2>1. Main' = Main
    BY <1>2, SameProgram DEF vars
  <2> QED
    BY <1>2, <2>1 DEF OnItsWay, Quiet, OneFrame, AllFragments, vars
<1> QED
  BY <1>1, <1>2, PrepareOnItsWay, WriteOnItsWay, SendOnItsWay, CollectOnItsWay,
     JudgeOnItsWay, ProcessOnItsWay, EmitOnItsWay DEF HostsNext, Host

\* While the engine keeps its promises no request is made before everything
\* that belongs to the one before has come and gone: the frame of a program
\* that gives it back after the comparison, all fragments of the fragmenter's,
\* and the tracker makes one request only.
THEOREM TestsStayInStep == HostsSpec => []InStep
<1>1. OnItsWay => InStep
  BY DEF OnItsWay, Quiet, InStep
<1> QED
  BY <1>1, TestsBegin, TestStep, WayBegins, WayStep, PTL DEF HostsSpec
=============================================================================
