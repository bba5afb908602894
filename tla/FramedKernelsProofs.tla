------------------------- MODULE FramedKernelsProofs -------------------------
(***************************************************************************)
(* Theorems about FramedKernels for frames of any length, any sockets and  *)
(* any traffic that leaves the kernels that handle two words of metadata   *)
(* room enough.                                                            *)
(***************************************************************************)
EXTENDS FramedKernels, SequenceTheorems, TLAPS

\* Two words of metadata need two idle cycles in front of a frame, and the
\* kernel that inserts them looks at the frame's second word for the second
\* one.  The other kernels take what their own gap lets through.
RoomForMetadata ==
  \A k \in Kernels :
    /\ HeaderWords(k) = 2 => Spacing[k] >= 2
    /\ k = "OneToManyRx" => Shortest[k] >= 2

-----------------------------------------------------------------------------
(***************************************************************************)
(* The input.                                                              *)
(***************************************************************************)
InputCycle == [valid : BOOLEAN, sof : BOOLEAN, eof : BOOLEAN, socket : Sockets,
               nr : Nat \ {0}]

WellFormed(c) ==
  /\ c.sof => c.valid
  /\ c.valid => (c.sof <=> c.nr = 1)
  /\ c.valid /\ c.eof => c.nr >= Shortest[kernel]

\* c comes in the cycle after p: a frame goes on without a hole until its end.
Follows(p, c) ==
  /\ (c.valid /\ ~c.sof) <=> (p.valid /\ ~p.eof)
  /\ c.valid /\ ~c.sof => c.socket = p.socket /\ c.nr = p.nr + 1

Quiet(n) == n <= Gap(kernel) \/ n <= Spacing[kernel]

WindowInv ==
  /\ kernel \in Kernels
  /\ window \in Seq(InputCycle) /\ Len(window) = 5
  /\ \A i \in 1 .. 5 : WellFormed(window[i])
  /\ \A i \in 1 .. 4 : Follows(window[i], window[i + 1])
  /\ \A i, j \in 1 .. 5 : i < j /\ window[j].sof /\ Quiet(j - i) => ~window[i].valid

LEMMA KernelCases ==
  ASSUME WindowInv
  PROVE  /\ kernel \in {"Inbound", "OffloadRx", "OneToOneRx", "OneToManyRx",
                        "Outbound", "OffloadTx", "OneToOneTx", "OneToManyTx"}
         /\ Gap(kernel) \in Nat /\ Spacing[kernel] \in Nat /\ Shortest[kernel] \in Nat \ {0}
<1>1. kernel \in Kernels
  BY DEF WindowInv
<1>2. kernel \in {"Inbound", "OffloadRx", "OneToOneRx", "OneToManyRx",
                  "Outbound", "OffloadTx", "OneToOneTx", "OneToManyTx"}
  BY <1>1, KernelAssumption DEF RxKernels, TxKernels
<1>3. Gap(kernel) \in Nat
  BY <1>2 DEF Gap
<1>4. Spacing[kernel] \in Nat /\ Shortest[kernel] \in Nat \ {0}
  BY <1>1, SpacingAssumption, LengthAssumption
<1> QED
  BY <1>2, <1>3, <1>4

\* The window moves on by one cycle.
LEMMA WindowMoves ==
  ASSUME WindowInv, NEW c \in InputCycle, Cycle(c), WellFormed(c),
         Follows(Latest, c),
         c.sof => \A i \in 0 .. 3 : Quiet(i + 1) => ~At(Reach - i).valid
  PROVE  /\ WindowInv' /\ window'[5] = c
         /\ \A i \in 1 .. 4 : window'[i] = window[i + 1]
<1>1. window' = Append(Tail(window), c) /\ kernel' = kernel
  BY DEF Cycle
<1>2. window \in Seq(InputCycle) /\ Len(window) = 5
  BY DEF WindowInv
<1>3. /\ window' \in Seq(InputCycle) /\ Len(window') = 5 /\ window'[5] = c
      /\ \A i \in 1 .. 4 : window'[i] = window[i + 1]
  <2>1. PICK t : t = Tail(window)
    OBVIOUS
  <2>2. t \in Seq(InputCycle) /\ Len(t) = 4 /\ \A i \in 1 .. 4 : t[i] = window[i + 1]
    <3>1. window # <<>>
      BY <1>2
    <3>2. /\ t \in Seq(InputCycle) /\ Len(t) = Len(window) - 1
          /\ \A i \in 1 .. Len(t) : t[i] = window[i + 1]
      BY <1>2, <2>1, <3>1, HeadTailProperties
    <3> QED
      BY <1>2, <3>2
  <2>3. /\ Append(t, c) \in Seq(InputCycle) /\ Len(Append(t, c)) = 5
        /\ Append(t, c)[5] = c /\ \A i \in 1 .. 4 : Append(t, c)[i] = t[i]
    <3>1. /\ Append(t, c) \in Seq(InputCycle) /\ Len(Append(t, c)) = Len(t) + 1
          /\ \A i \in 1 .. Len(t) : Append(t, c)[i] = t[i]
          /\ Append(t, c)[Len(t) + 1] = c
      <4>1. c \in InputCycle /\ t \in Seq(InputCycle)
        BY <2>2
      <4>2. Append(t, c) \in Seq(InputCycle)
        BY <4>1, AppendProperties
      <4>3. Len(Append(t, c)) = Len(t) + 1
        BY <4>1, AppendProperties
      <4>4. Append(t, c)[Len(t) + 1] = c
        BY <4>1, AppendProperties
      <4>5. \A i \in 1 .. Len(t) : Append(t, c)[i] = t[i]
        BY <4>1, AppendProperties
      <4> QED
        BY <4>2, <4>3, <4>4, <4>5
    <3> QED
      BY <2>2, <3>1
  <2> QED
    BY <1>1, <2>1, <2>2, <2>3
<1>4. \A x : WellFormed(x)' <=> WellFormed(x)
  BY <1>1 DEF WellFormed
<1>5. \A i \in 1 .. 5 : WellFormed(window[i])'
  <2> TAKE i \in 1 .. 5
  <2>1. CASE i = 5
    <3>1. window'[i] = c
      BY <1>3, <2>1
    <3> QED
      BY <1>1, <3>1 DEF WellFormed
  <2>2. CASE i # 5
    <3>1. i \in 1 .. 4 /\ i + 1 \in 1 .. 5
      BY <2>2
    <3>2. window'[i] = window[i + 1] /\ WellFormed(window[i + 1])
      BY <1>3, <3>1 DEF WindowInv
    <3> QED
      BY <1>1, <3>2 DEF WellFormed
  <2> QED
    BY <2>1, <2>2
<1>6. \A i \in 1 .. 4 : Follows(window'[i], window'[i + 1])
  <2> TAKE i \in 1 .. 4
  <2>1. CASE i = 4
    <3>1. window'[4] = Latest
      BY <1>3 DEF Latest, At, Reach
    <3> QED
      BY <1>3, <2>1, <3>1
  <2>2. CASE i # 4
    <3>1. i + 1 \in 1 .. 4
      BY <2>2
    <3>2. window'[i] = window[i + 1] /\ window'[i + 1] = window[(i + 1) + 1]
      BY <1>3, <3>1
    <3> QED
      BY <3>1, <3>2 DEF WindowInv
  <2> QED
    BY <2>1, <2>2
<1>7. ASSUME NEW i \in 1 .. 5, NEW j \in 1 .. 5, i < j, window'[j].sof, Quiet(j - i)'
      PROVE  ~window'[i].valid
  <2>1. Quiet(j - i) /\ i \in 1 .. 4 /\ window'[i] = window[i + 1]
    <3>1. i \in 1 .. 4
      BY <1>7
    <3>2. Quiet(j - i)
      BY <1>1, <1>7 DEF Quiet, Gap
    <3> QED
      BY <1>3, <3>1, <3>2
  <2>2. CASE j = 5
    <3>1. 4 - i \in 0 .. 3 /\ (4 - i) + 1 = j - i /\ 3 + (2 - (4 - i)) = i + 1
      BY <2>1, <2>2
    <3>2. ~At(Reach - (4 - i)).valid
      BY <1>3, <1>7, <2>1, <2>2, <3>1
    <3>3. At(Reach - (4 - i)) = window[i + 1]
      BY <3>1 DEF At, Reach
    <3> QED
      BY <2>1, <3>2, <3>3
  <2>3. CASE j # 5
    <3>1. i + 1 \in 1 .. 5 /\ j + 1 \in 1 .. 5 /\ (j + 1) - (i + 1) = j - i /\ j \in 1 .. 4
      BY <1>7, <2>1, <2>3
    <3>2. window'[j] = window[j + 1]
      BY <1>3, <3>1
    <3> QED
      BY <1>7, <2>1, <3>1, <3>2 DEF WindowInv
  <2> QED
    BY <2>2, <2>3
<1>8. WindowInv'
  <2>1. kernel' \in Kernels
    BY <1>1 DEF WindowInv
  <2> QED
    BY <1>3, <1>5, <1>6, <1>7, <2>1 DEF WindowInv, Follows
<1> QED
  BY <1>3, <1>8

\* Every step of the system takes one more cycle of input that fits.
Fits(c) ==
  /\ c \in InputCycle /\ Cycle(c) /\ WellFormed(c) /\ Follows(Latest, c)
  /\ c.sof => \A i \in 0 .. 3 : Quiet(i + 1) => ~At(Reach - i).valid

LEMMA NextFits ==
  ASSUME WindowInv, Next
  PROVE  \E c : Fits(c)
<1>1. PICK p : p = Latest
  OBVIOUS
<1>2. p \in InputCycle /\ p.valid \in BOOLEAN /\ p.eof \in BOOLEAN /\ p.nr \in Nat \ {0}
      /\ p.socket \in Sockets
  <2>1. p = window[5]
    BY <1>1 DEF Latest, At, Reach
  <2>2. p \in InputCycle
    BY <2>1 DEF WindowInv
  <2> QED
    BY <2>2 DEF InputCycle
<1>3. InFrame <=> p.valid /\ ~p.eof
  BY <1>1 DEF InFrame
<1>4. Shortest[kernel] \in Nat \ {0}
  BY KernelCases
<1>5. CASE NextWord
  <2>1. PICK eof \in Eofs(p.nr + 1) : Cycle(FrameCycle(p.socket, p.nr + 1, eof))
    BY <1>1, <1>5 DEF NextWord
  <2>2. PICK n : n = p.nr + 1
    OBVIOUS
  <2>3. n \in Nat \ {0} /\ (n = 1) = FALSE
    BY <1>2, <2>2
  <2>4. PICK c : c = FrameCycle(p.socket, n, eof)
    OBVIOUS
  <2>5. c = [valid |-> TRUE, sof |-> FALSE, eof |-> eof, socket |-> p.socket, nr |-> n]
    BY <2>3, <2>4, Zenon DEF FrameCycle
  <2>6. eof \in BOOLEAN /\ (eof => p.nr + 1 >= Shortest[kernel])
    BY <2>1 DEF Eofs
  <2>7. c \in InputCycle /\ WellFormed(c) /\ ~c.sof
    BY <1>2, <2>2, <2>3, <2>5, <2>6 DEF InputCycle, WellFormed
  <2>8. Follows(p, c)
    BY <1>2, <1>3, <1>5, <2>2, <2>5 DEF Follows, NextWord
  <2> QED
    BY <1>1, <2>1, <2>2, <2>4, <2>7, <2>8 DEF Fits
<1>6. CASE FirstWord
  <2>1. PICK s \in Sockets, eof \in Eofs(1) : Cycle(FrameCycle(s, 1, eof))
    BY <1>6 DEF FirstWord
  <2>2. PICK c : c = FrameCycle(s, 1, eof)
    OBVIOUS
  <2>3. c = [valid |-> TRUE, sof |-> TRUE, eof |-> eof, socket |-> s, nr |-> 1]
    <3>1. (1 = 1) = TRUE
      OBVIOUS
    <3> QED
      BY <2>2, <3>1, Zenon DEF FrameCycle
  <2>4. eof \in BOOLEAN /\ (eof => 1 >= Shortest[kernel])
    BY <2>1 DEF Eofs
  <2>5. c \in InputCycle /\ WellFormed(c) /\ c.sof
    BY <2>1, <2>3, <2>4 DEF InputCycle, WellFormed
  <2>6. Follows(p, c)
    BY <1>3, <1>6, <2>3 DEF Follows, FirstWord
  <2>7. ASSUME NEW i \in 0 .. 3, Quiet(i + 1) PROVE ~At(Reach - i).valid
    <3>1. Gap(kernel) \in Nat /\ Spacing[kernel] \in Nat
      BY KernelCases
    <3>2. GapOver
      BY <1>6 DEF FirstWord
    <3> QED
      BY <2>7, <3>1, <3>2 DEF Quiet, GapOver
  <2> QED
    BY <1>1, <2>1, <2>2, <2>5, <2>6, <2>7 DEF Fits
<1>7. CASE Idle
  <2>1. PICK s \in Sockets, eof \in IdleEofs : Cycle(IdleCycle(s, eof))
    BY <1>7 DEF Idle
  <2>2. PICK c : c = IdleCycle(s, eof)
    OBVIOUS
  <2>3. c = [valid |-> FALSE, sof |-> FALSE, eof |-> eof, socket |-> s, nr |-> 1]
    BY <2>2 DEF IdleCycle
  <2>4. eof \in BOOLEAN
    BY <2>1, IdleAssumption
  <2>5. c \in InputCycle /\ WellFormed(c) /\ ~c.sof
    BY <2>1, <2>3, <2>4 DEF InputCycle, WellFormed
  <2>6. Follows(p, c)
    BY <1>3, <1>7, <2>3 DEF Follows, Idle
  <2> QED
    BY <1>1, <2>1, <2>2, <2>5, <2>6 DEF Fits
<1> QED
  BY <1>5, <1>6, <1>7 DEF Next

-----------------------------------------------------------------------------
(***************************************************************************)
(* The output.  What is owed for a cycle of input is made of single words  *)
(* that are there or not.                                                  *)
(***************************************************************************)
Labels == {"data", "header"} \X Sockets \X Nat
OutWord == [valid : BOOLEAN, sof : BOOLEAN, eof : BOOLEAN, data : Labels,
            meta : Seq(Labels)]

Maybe(there, word) == IF there THEN <<word>> ELSE <<>>

DataWord(c) == Maybe(c.valid, RxWord(TRUE, FALSE, c.eof, Data(c)))
FirstHeader(c) == Maybe(c.sof, RxWord(TRUE, TRUE, FALSE, Header(c, 1)))
SecondHeader(c) == Maybe(c.sof, RxWord(TRUE, FALSE, FALSE, Header(c, 2)))
TxWord(c) ==
  [valid |-> TRUE, sof |-> c.nr = HeaderWords(kernel) + 1, eof |-> c.eof,
   data |-> Data(c), meta |-> TxHeader(c)]

LEMMA RxWordTyped ==
  ASSUME NEW sof \in BOOLEAN, NEW eof \in BOOLEAN, NEW data \in Labels
  PROVE  RxWord(TRUE, sof, eof, data) \in OutWord
<1>1. <<>> \in Seq(Labels)
  BY EmptySeq
<1> QED
  BY <1>1 DEF RxWord, OutWord

LEMMA CycleTyped ==
  ASSUME NEW c \in InputCycle
  PROVE  /\ c.valid \in BOOLEAN /\ c.sof \in BOOLEAN /\ c.eof \in BOOLEAN
         /\ c.socket \in Sockets /\ c.nr \in Nat \ {0}
         /\ Data(c) \in Labels /\ Header(c, 1) \in Labels /\ Header(c, 2) \in Labels
<1>1. c.valid \in BOOLEAN /\ c.sof \in BOOLEAN /\ c.eof \in BOOLEAN
      /\ c.socket \in Sockets /\ c.nr \in Nat \ {0}
  BY DEF InputCycle
<1> QED
  BY <1>1 DEF Data, Header, Labels

LEMMA WordsTyped ==
  ASSUME NEW c \in InputCycle
  PROVE  /\ DataWord(c) \in Seq(OutWord) /\ FirstHeader(c) \in Seq(OutWord)
         /\ SecondHeader(c) \in Seq(OutWord)
<1>1. ASSUME NEW there \in BOOLEAN, NEW w \in OutWord PROVE Maybe(there, w) \in Seq(OutWord)
  BY DEF Maybe
<1>2. /\ RxWord(TRUE, FALSE, c.eof, Data(c)) \in OutWord
      /\ RxWord(TRUE, TRUE, FALSE, Header(c, 1)) \in OutWord
      /\ RxWord(TRUE, FALSE, FALSE, Header(c, 2)) \in OutWord
  BY CycleTyped, RxWordTyped
<1> QED
  BY <1>1, <1>2, CycleTyped DEF DataWord, FirstHeader, SecondHeader

LEMMA RxOwes ==
  ASSUME NEW c \in InputCycle, WellFormed(c), kernel \in RxKernels
  PROVE  /\ HeaderWords(kernel) = 1 => Owes(c) = FirstHeader(c) \o DataWord(c)
         /\ HeaderWords(kernel) = 2 =>
              Owes(c) = FirstHeader(c) \o (SecondHeader(c) \o DataWord(c))
<1> DEFINE h(i) == RxWord(TRUE, i = 1, FALSE, Header(c, i))
           H == [i \in 1 .. HeaderWords(kernel) |-> h(i)]
           D == RxWord(TRUE, FALSE, c.eof, Data(c))
           h1 == RxWord(TRUE, TRUE, FALSE, Header(c, 1))
           h2 == RxWord(TRUE, FALSE, FALSE, Header(c, 2))
<1>1. Owes(c) = IF ~c.valid THEN <<>> ELSE (IF c.sof THEN H ELSE <<>>) \o <<D>>
  BY DEF Owes
<1>2. D \in OutWord /\ h1 \in OutWord /\ h2 \in OutWord
  BY CycleTyped, RxWordTyped
<1>3. h(1) = h1 /\ h(2) = h2
  <2>1. (1 = 1) = TRUE /\ (2 = 1) = FALSE
    OBVIOUS
  <2> QED
    BY <2>1, Zenon
<1> HIDE DEF h, D, h1, h2
<1>4. /\ HeaderWords(kernel) = 1 => H = <<h1>>
      /\ HeaderWords(kernel) = 2 => H = <<h1, h2>>
  BY <1>3
<1> HIDE DEF H
<1>5. /\ DataWord(c) = IF c.valid THEN <<D>> ELSE <<>>
      /\ FirstHeader(c) = IF c.sof THEN <<h1>> ELSE <<>>
      /\ SecondHeader(c) = IF c.sof THEN <<h2>> ELSE <<>>
  BY DEF DataWord, FirstHeader, SecondHeader, Maybe, D, h1, h2
<1>6. c.sof => c.valid
  BY DEF WellFormed
<1>7. <<h1, h2>> \o <<D>> = <<h1>> \o (<<h2>> \o <<D>>) /\ <<>> \o (<<>> \o <<D>>) = <<D>>
      /\ <<>> \o <<D>> = <<D>> /\ <<>> \o (<<>> \o <<>>) = <<>> /\ <<>> \o <<>> = <<>>
  <2>1. /\ <<>> \in Seq(OutWord) /\ <<D>> \in Seq(OutWord) /\ <<h1>> \in Seq(OutWord)
        /\ <<h2>> \in Seq(OutWord)
    BY <1>2, EmptySeq
  <2>2. <<h1, h2>> = <<h1>> \o <<h2>>
    <3>1. <<h1, h2>> \in Seq(OutWord) /\ Len(<<h1, h2>>) = 2
      BY <1>2
    <3>2. /\ <<h1>> \o <<h2>> \in Seq(OutWord) /\ Len(<<h1>> \o <<h2>>) = 2
          /\ (<<h1>> \o <<h2>>)[1] = h1 /\ (<<h1>> \o <<h2>>)[2] = h2
      BY <2>1, ConcatProperties
    <3>3. \A i \in 1 .. 2 : <<h1, h2>>[i] = (<<h1>> \o <<h2>>)[i]
      BY <3>2
    <3> QED
      BY <3>1, <3>2, <3>3, SeqEqual
  <2>3. (<<h1>> \o <<h2>>) \o <<D>> = <<h1>> \o (<<h2>> \o <<D>>)
    BY <2>1, ConcatAssociative
  <2>4. <<>> \o <<D>> = <<D>> /\ <<>> \o <<>> = <<>>
    BY <2>1, ConcatEmptySeq
  <2> QED
    BY <2>2, <2>3, <2>4
<1> QED
  BY <1>1, <1>4, <1>5, <1>6, <1>7

\* The five cycles that a kernel sees.
Seen(a, b, c, d, e) ==
  /\ a = At(-2) /\ b = At(-1) /\ c = At(0) /\ d = At(1) /\ e = At(2)
  /\ a \in InputCycle /\ b \in InputCycle /\ c \in InputCycle
  /\ d \in InputCycle /\ e \in InputCycle
  /\ WellFormed(a) /\ WellFormed(b) /\ WellFormed(c) /\ WellFormed(d) /\ WellFormed(e)
  /\ Follows(a, b) /\ Follows(b, c) /\ Follows(c, d) /\ Follows(d, e)
  /\ Quiet(1) => /\ b.sof => ~a.valid
                 /\ c.sof => ~b.valid
                 /\ d.sof => ~c.valid
                 /\ e.sof => ~d.valid
  /\ Quiet(2) => /\ c.sof => ~a.valid
                 /\ d.sof => ~b.valid
                 /\ e.sof => ~c.valid

LEMMA SeeCycles ==
  ASSUME WindowInv
  PROVE  \E a, b, c, d, e : Seen(a, b, c, d, e)
<1>1. PICK a, b, c, d, e : a = window[1] /\ b = window[2] /\ c = window[3]
                           /\ d = window[4] /\ e = window[5]
  OBVIOUS
<1>2. a = At(-2) /\ b = At(-1) /\ c = At(0) /\ d = At(1) /\ e = At(2)
  BY <1>1 DEF At, Reach
<1>3. /\ a \in InputCycle /\ b \in InputCycle /\ c \in InputCycle
      /\ d \in InputCycle /\ e \in InputCycle
  <2>1. window \in Seq(InputCycle) /\ 1 .. Len(window) = 1 .. 5
    BY DEF WindowInv
  <2>2. \A i \in 1 .. 5 : window[i] \in InputCycle
    BY <2>1, ElementOfSeq
  <2> QED
    BY <1>1, <2>2
<1>4. WellFormed(a) /\ WellFormed(b) /\ WellFormed(c) /\ WellFormed(d) /\ WellFormed(e)
  BY <1>1 DEF WindowInv
<1>5. Follows(a, b) /\ Follows(b, c) /\ Follows(c, d) /\ Follows(d, e)
  <2>1. \A i \in 1 .. 4 : Follows(window[i], window[i + 1])
    BY DEF WindowInv
  <2>2. /\ Follows(window[1], window[1 + 1]) /\ Follows(window[2], window[2 + 1])
        /\ Follows(window[3], window[3 + 1]) /\ Follows(window[4], window[4 + 1])
    BY <2>1
  <2> QED
    BY <1>1, <2>2
<1>6. ASSUME NEW i \in 1 .. 4, Quiet(1), window[i + 1].sof
      PROVE  ~window[i].valid
  <2>1. i < i + 1 /\ (i + 1) - i = 1 /\ i \in 1 .. 5 /\ i + 1 \in 1 .. 5
    OBVIOUS
  <2> QED
    BY <1>6, <2>1 DEF WindowInv
<1>7. ASSUME NEW i \in 1 .. 3, Quiet(2), window[i + 2].sof
      PROVE  ~window[i].valid
  <2>1. i < i + 2 /\ (i + 2) - i = 2 /\ i \in 1 .. 5 /\ i + 2 \in 1 .. 5
    OBVIOUS
  <2> QED
    BY <1>7, <2>1 DEF WindowInv
<1>8. Quiet(1) => /\ b.sof => ~a.valid
                  /\ c.sof => ~b.valid
                  /\ d.sof => ~c.valid
                  /\ e.sof => ~d.valid
  <2>1. Quiet(1) => /\ window[1 + 1].sof => ~window[1].valid
                    /\ window[2 + 1].sof => ~window[2].valid
                    /\ window[3 + 1].sof => ~window[3].valid
                    /\ window[4 + 1].sof => ~window[4].valid
    BY <1>6
  <2> QED
    BY <1>1, <2>1
<1>9. Quiet(2) => /\ c.sof => ~a.valid
                  /\ d.sof => ~b.valid
                  /\ e.sof => ~c.valid
  <2>1. Quiet(2) => /\ window[1 + 2].sof => ~window[1].valid
                    /\ window[2 + 2].sof => ~window[2].valid
                    /\ window[3 + 2].sof => ~window[3].valid
    BY <1>7
  <2> QED
    BY <1>1, <2>1
<1> QED
  BY <1>2, <1>3, <1>4, <1>5, <1>8, <1>9 DEF Seen

-----------------------------------------------------------------------------
(***************************************************************************)
(* What a kernel puts out in this cycle, word for word.                    *)
(***************************************************************************)
Emitted == Maybe(Out.valid, Out)

LEMMA InboundEmits ==
  ASSUME NEW a, NEW b, NEW c, NEW d, NEW e, Seen(a, b, c, d, e),
         kernel \in {"Inbound", "OffloadRx"}
  PROVE  Emitted = DataWord(c) \o FirstHeader(d)
<1>1. /\ c = At(0) /\ d = At(1) /\ c \in InputCycle /\ d \in InputCycle
      /\ WellFormed(d) /\ (d.sof => ~c.valid)
  <2>1. Quiet(1)
    BY DEF Quiet, Gap
  <2> QED
    BY <2>1 DEF Seen
<1>2. /\ c.valid \in BOOLEAN /\ c.eof \in BOOLEAN /\ d.valid \in BOOLEAN
      /\ d.sof \in BOOLEAN /\ (d.sof => d.valid)
  BY <1>1, CycleTyped DEF WellFormed
<1>3. Out = IF kernel = "Inbound" THEN Inbound ELSE OffloadRx
  BY DEF Out
<1>4. DataWord(c) \in Seq(OutWord) /\ FirstHeader(d) \in Seq(OutWord)
  BY <1>1, WordsTyped
<1>5. CASE d.sof
  <2>1. Out = RxWord(TRUE, TRUE, FALSE, Header(d, 1))
    <3>1. IsStart(1) = TRUE
      BY <1>1, <1>2, <1>5 DEF IsStart
    <3>2. /\ (IsStart(1) \/ At(0).valid) = TRUE /\ (At(0).valid \/ IsStart(1)) = TRUE
          /\ (~IsStart(1) /\ At(0).eof) = FALSE /\ (At(0).valid /\ At(0).eof) = FALSE
      BY <1>1, <1>2, <1>5, <3>1
    <3>3. Inbound = RxWord(TRUE, TRUE, FALSE, Header(d, 1))
      BY <1>1, <3>1, <3>2, Zenon DEF Inbound
    <3>4. OffloadRx = RxWord(TRUE, TRUE, FALSE, Header(d, 1))
      BY <1>1, <3>1, <3>2, Zenon DEF OffloadRx
    <3> QED
      BY <1>3, <3>3, <3>4
  <2>2. Out.valid
    BY <2>1 DEF RxWord
  <2>3. DataWord(c) = <<>> /\ FirstHeader(d) = <<Out>> /\ Emitted = <<Out>>
    BY <1>1, <1>5, <2>1, <2>2 DEF DataWord, FirstHeader, Maybe, Emitted
  <2> QED
    BY <1>4, <2>3, ConcatEmptySeq
<1>6. CASE ~d.sof
  <2>1. IsStart(1) = FALSE
    BY <1>1, <1>2, <1>6 DEF IsStart
  <2>2. FirstHeader(d) = <<>>
    BY <1>6 DEF FirstHeader, Maybe
  <2>3. CASE c.valid
    <3>1. /\ (IsStart(1) \/ At(0).valid) = TRUE /\ (At(0).valid \/ IsStart(1)) = TRUE
          /\ (~IsStart(1) /\ At(0).eof) = c.eof /\ (At(0).valid /\ At(0).eof) = c.eof
      BY <1>1, <1>2, <2>1, <2>3
    <3>2. Inbound = RxWord(TRUE, FALSE, c.eof, Data(c))
      BY <1>1, <2>1, <3>1, Zenon DEF Inbound
    <3>3. OffloadRx = RxWord(TRUE, FALSE, c.eof, Data(c))
      BY <1>1, <2>1, <3>1, Zenon DEF OffloadRx
    <3>4. Out = RxWord(TRUE, FALSE, c.eof, Data(c))
      BY <1>3, <3>2, <3>3
    <3>5. Out.valid
      BY <3>4 DEF RxWord
    <3>6. DataWord(c) = <<Out>> /\ Emitted = <<Out>>
      BY <2>3, <3>4, <3>5 DEF DataWord, Maybe, Emitted
    <3> QED
      BY <1>4, <2>2, <3>6, ConcatEmptySeq
  <2>4. CASE ~c.valid
    <3>1. ~Out.valid
      BY <1>1, <1>3, <2>1, <2>4 DEF Inbound, OffloadRx, RxWord
    <3>2. DataWord(c) = <<>> /\ Emitted = <<>>
      BY <2>4, <3>1 DEF DataWord, Maybe, Emitted
    <3> QED
      BY <1>4, <2>2, <3>2, ConcatEmptySeq
  <2> QED
    BY <1>2, <2>3, <2>4
<1> QED
  BY <1>2, <1>5, <1>6

LEMMA OneToOneRxEmits ==
  ASSUME NEW a, NEW b, NEW c, NEW d, NEW e, Seen(a, b, c, d, e),
         kernel = "OneToOneRx"
  PROVE  Emitted = DataWord(b) \o FirstHeader(c)
<1>1. /\ b = At(-1) /\ c = At(0) /\ b \in InputCycle /\ c \in InputCycle
      /\ WellFormed(c) /\ Follows(b, c) /\ (c.sof => ~b.valid)
  <2>1. Quiet(1)
    BY DEF Quiet, Gap
  <2> QED
    BY <2>1 DEF Seen
<1>2. /\ b.valid \in BOOLEAN /\ b.eof \in BOOLEAN /\ c.valid \in BOOLEAN
      /\ c.sof \in BOOLEAN /\ (c.sof => c.valid) /\ (c.valid /\ ~c.sof => b.valid)
  BY <1>1, CycleTyped DEF WellFormed, Follows
<1>3. Out = OneToOneRx
  BY DEF Out
<1>4. DataWord(b) \in Seq(OutWord) /\ FirstHeader(c) \in Seq(OutWord)
  BY <1>1, WordsTyped
<1>5. CASE c.sof
  <2>1. /\ (At(0).valid \/ At(-1).valid) = TRUE /\ At(0).sof = TRUE
        /\ (At(-1).valid /\ At(-1).eof) = FALSE
    BY <1>1, <1>2, <1>5
  <2>2. Out = RxWord(TRUE, TRUE, FALSE, Header(c, 1))
    BY <1>1, <1>3, <2>1, Zenon DEF OneToOneRx
  <2>3. Out.valid
    BY <2>2 DEF RxWord
  <2>4. DataWord(b) = <<>> /\ FirstHeader(c) = <<Out>> /\ Emitted = <<Out>>
    BY <1>1, <1>5, <2>2, <2>3 DEF DataWord, FirstHeader, Maybe, Emitted
  <2> QED
    BY <1>4, <2>4, ConcatEmptySeq
<1>6. CASE ~c.sof
  <2>1. FirstHeader(c) = <<>>
    BY <1>6 DEF FirstHeader, Maybe
  <2>2. CASE b.valid
    <3>1. /\ (At(0).valid \/ At(-1).valid) = TRUE /\ At(0).sof = FALSE
          /\ (At(-1).valid /\ At(-1).eof) = b.eof
      BY <1>1, <1>2, <1>6, <2>2
    <3>2. Out = RxWord(TRUE, FALSE, b.eof, Data(b))
      BY <1>1, <1>3, <3>1, Zenon DEF OneToOneRx
    <3>3. Out.valid
      BY <3>2 DEF RxWord
    <3>4. DataWord(b) = <<Out>> /\ Emitted = <<Out>>
      BY <2>2, <3>2, <3>3 DEF DataWord, Maybe, Emitted
    <3> QED
      BY <1>4, <2>1, <3>4, ConcatEmptySeq
  <2>3. CASE ~b.valid
    <3>1. ~Out.valid
      BY <1>1, <1>2, <1>3, <1>6, <2>3 DEF OneToOneRx, RxWord
    <3>2. DataWord(b) = <<>> /\ Emitted = <<>>
      BY <2>3, <3>1 DEF DataWord, Maybe, Emitted
    <3> QED
      BY <1>4, <2>1, <3>2, ConcatEmptySeq
  <2> QED
    BY <1>2, <2>2, <2>3
<1> QED
  BY <1>2, <1>5, <1>6

\* Its second word of metadata goes out under the frame's second word.
LEMMA OneToManyRxEmits ==
  ASSUME NEW a, NEW b, NEW c, NEW d, NEW e, Seen(a, b, c, d, e),
         kernel = "OneToManyRx", Quiet(2), Shortest[kernel] >= 2,
         Shortest[kernel] \in Nat
  PROVE  /\ Emitted = DataWord(a) \o (SecondHeader(b) \o FirstHeader(c))
         /\ FirstHeader(c) # <<>> => DataWord(b) = <<>>
<1>1. /\ a = At(-2) /\ b = At(-1) /\ c = At(0) /\ a \in InputCycle
      /\ b \in InputCycle /\ c \in InputCycle
      /\ WellFormed(b) /\ WellFormed(c) /\ Follows(a, b) /\ Follows(b, c)
      /\ (c.sof => ~a.valid)
      /\ (b.sof => ~a.valid) /\ (c.sof => ~b.valid)
  <2>1. Quiet(1)
    BY DEF Quiet, Gap
  <2> QED
    BY <2>1 DEF Seen
<1>2. /\ a.valid \in BOOLEAN /\ a.eof \in BOOLEAN /\ b.valid \in BOOLEAN
      /\ b.sof \in BOOLEAN /\ c.valid \in BOOLEAN /\ c.sof \in BOOLEAN
      /\ (b.sof => b.valid) /\ (c.sof => c.valid)
  BY <1>1, CycleTyped DEF WellFormed
<1>3. /\ b.sof => c.valid /\ ~c.sof
      /\ ~c.sof /\ ~b.sof /\ c.valid => a.valid
  <2>1. b.sof => ~b.eof
    BY <1>1, <1>2, CycleTyped DEF WellFormed
  <2> QED
    BY <1>1, <1>2, <2>1 DEF Follows
<1>4. Out = OneToManyRx
  BY DEF Out
<1>5. /\ DataWord(a) \in Seq(OutWord) /\ SecondHeader(b) \in Seq(OutWord)
      /\ FirstHeader(c) \in Seq(OutWord) /\ <<>> \in Seq(OutWord)
  BY <1>1, WordsTyped, EmptySeq
<1>6. FirstHeader(c) # <<>> => DataWord(b) = <<>>
  BY <1>1 DEF FirstHeader, DataWord, Maybe
<1>7. CASE c.sof
  <2>1. /\ (At(0).valid \/ At(-2).valid) = TRUE /\ At(0).sof = TRUE
        /\ (At(-2).valid /\ At(-2).eof) = FALSE /\ (At(0).sof \/ At(-1).sof) = TRUE
    BY <1>1, <1>2, <1>7
  <2>2. Out = RxWord(TRUE, TRUE, FALSE, Header(c, 1))
    BY <1>1, <1>4, <2>1, Zenon DEF OneToManyRx
  <2>3. Out.valid
    BY <2>2 DEF RxWord
  <2>4. FirstHeader(c) = <<Out>> /\ Emitted = <<Out>>
    BY <1>7, <2>2, <2>3 DEF FirstHeader, Maybe, Emitted
  <2>5. DataWord(a) = <<>> /\ SecondHeader(b) = <<>>
    BY <1>1, <1>2, <1>7 DEF DataWord, SecondHeader, Maybe
  <2> QED
    BY <1>5, <1>6, <2>4, <2>5, ConcatEmptySeq
<1>8. CASE ~c.sof /\ b.sof
  <2>1. /\ (At(0).valid \/ At(-2).valid) = TRUE /\ At(0).sof = FALSE
        /\ (At(-2).valid /\ At(-2).eof) = FALSE /\ (At(0).sof \/ At(-1).sof) = TRUE
    BY <1>1, <1>2, <1>3, <1>8
  <2>2. Out = RxWord(TRUE, FALSE, FALSE, Header(b, 2))
    BY <1>1, <1>4, <2>1, Zenon DEF OneToManyRx
  <2>3. Out.valid
    BY <2>2 DEF RxWord
  <2>4. SecondHeader(b) = <<Out>> /\ Emitted = <<Out>>
    BY <1>8, <2>2, <2>3 DEF SecondHeader, Maybe, Emitted
  <2>5. DataWord(a) = <<>> /\ FirstHeader(c) = <<>>
    BY <1>1, <1>2, <1>8 DEF DataWord, FirstHeader, Maybe
  <2> QED
    BY <1>5, <1>6, <2>4, <2>5, ConcatEmptySeq
<1>9. CASE ~c.sof /\ ~b.sof
  <2>1. SecondHeader(b) = <<>> /\ FirstHeader(c) = <<>>
    BY <1>9 DEF SecondHeader, FirstHeader, Maybe
  <2>2. DataWord(a) \o (SecondHeader(b) \o FirstHeader(c)) = DataWord(a)
    BY <1>5, <2>1, ConcatEmptySeq
  <2>3. CASE a.valid
    <3>1. /\ (At(0).valid \/ At(-2).valid) = TRUE /\ At(0).sof = FALSE
          /\ (At(-2).valid /\ At(-2).eof) = a.eof /\ (At(0).sof \/ At(-1).sof) = FALSE
      BY <1>1, <1>2, <1>9, <2>3
    <3>2. Out = RxWord(TRUE, FALSE, a.eof, Data(a))
      BY <1>1, <1>4, <3>1, Zenon DEF OneToManyRx
    <3>3. Out.valid
      BY <3>2 DEF RxWord
    <3>4. DataWord(a) = <<Out>> /\ Emitted = <<Out>>
      BY <2>3, <3>2, <3>3 DEF DataWord, Maybe, Emitted
    <3> QED
      BY <1>6, <2>2, <3>4
  <2>4. CASE ~a.valid
    <3>1. ~Out.valid
      BY <1>1, <1>2, <1>3, <1>4, <1>9, <2>4 DEF OneToManyRx, RxWord
    <3>2. DataWord(a) = <<>> /\ Emitted = <<>>
      BY <2>4, <3>1 DEF DataWord, Maybe, Emitted
    <3> QED
      BY <1>6, <2>2, <3>2
  <2> QED
    BY <1>2, <2>3, <2>4
<1> QED
  BY <1>2, <1>7, <1>8, <1>9

\* A kernel that takes metadata out holds that of the frame it is in.
HeldInv ==
  kernel \in TxKernels /\ At(-1).valid /\ At(0).valid /\ ~At(0).sof =>
    held = TxHeader(At(0))

LEMMA TxHeaders ==
  ASSUME NEW c
  PROVE  /\ kernel \in {"Outbound", "OffloadTx", "OneToOneTx"} =>
              HeaderWords(kernel) = 1 /\ TxHeader(c) = << <<"data", c.socket, 1>> >>
         /\ kernel = "OneToManyTx" =>
              /\ HeaderWords(kernel) = 2
              /\ TxHeader(c) = << <<"data", c.socket, 1>>, <<"data", c.socket, 2>> >>
<1> DEFINE f(i) == <<"data", c.socket, i>>
<1>1. TxHeader(c) = [i \in 1 .. HeaderWords(kernel) |-> f(i)]
  BY DEF TxHeader
<1> HIDE DEF f
<1>2. HeaderWords(kernel) = 1 => TxHeader(c) = <<f(1)>>
  BY <1>1
<1>3. HeaderWords(kernel) = 2 => TxHeader(c) = <<f(1), f(2)>>
  BY <1>1
<1> QED
  BY <1>2, <1>3 DEF HeaderWords, f

LEMMA TxOwes ==
  ASSUME NEW c \in InputCycle, kernel \in TxKernels
  PROVE  /\ Owes(c) = Maybe(c.valid /\ c.nr > HeaderWords(kernel), TxWord(c))
         /\ Owes(c) \in Seq(OutWord)
<1>1. kernel \notin RxKernels
  BY DEF RxKernels, TxKernels
<1>2. /\ c.valid \in BOOLEAN /\ c.eof \in BOOLEAN /\ c.nr \in Nat /\ c.socket \in Sockets
      /\ Data(c) \in Labels /\ HeaderWords(kernel) \in Nat
  BY CycleTyped DEF HeaderWords
<1>3. Owes(c) = IF c.valid /\ c.nr > HeaderWords(kernel) THEN <<TxWord(c)>> ELSE <<>>
  <2>1. c.nr <= HeaderWords(kernel) <=> ~(c.nr > HeaderWords(kernel))
    BY <1>2
  <2> QED
    BY <1>1, <2>1, Zenon DEF Owes, TxWord
<1>4. TxWord(c) \in OutWord
  <2>1. TxHeader(c) \in Seq(Labels)
    <3>1. \A i \in 1 .. HeaderWords(kernel) : <<"data", c.socket, i>> \in Labels
      BY <1>2 DEF Labels
    <3>2. TxHeader(c) \in [1 .. HeaderWords(kernel) -> Labels]
      BY <3>1 DEF TxHeader
    <3> QED
      BY <1>2, <3>2
  <2>2. PICK first \in BOOLEAN : first = (c.nr = HeaderWords(kernel) + 1)
    OBVIOUS
  <2>3. TxWord(c) = [valid |-> TRUE, sof |-> first, eof |-> c.eof, data |-> Data(c),
                     meta |-> TxHeader(c)]
    BY <2>2, Zenon DEF TxWord
  <2> QED
    BY <1>2, <2>1, <2>3 DEF OutWord
<1> QED
  BY <1>3, <1>4, EmptySeq DEF Maybe

\* What is held, or taken over in this cycle, is the metadata of the frame
\* that goes on in the next one.
LEMMA TxMeta ==
  ASSUME NEW a, NEW b, NEW c, NEW d, NEW e, Seen(a, b, c, d, e), HeldInv,
         kernel \in TxKernels, c.valid, d.valid, ~d.sof
  PROVE  Out.meta = TxHeader(d)
<1>1. /\ b = At(-1) /\ c = At(0) /\ d = At(1) /\ c \in InputCycle /\ d \in InputCycle
      /\ WellFormed(c) /\ WellFormed(d) /\ Follows(b, c) /\ Follows(c, d)
  BY DEF Seen
<1>2. d.socket = c.socket /\ d.nr = c.nr + 1 /\ c.sof \in BOOLEAN
  BY <1>1, CycleTyped DEF Follows
<1>3. TxHeader(d) = TxHeader(c)
  BY <1>2 DEF TxHeader
<1>4. ~c.sof => held = TxHeader(d)
  BY <1>1, <1>3 DEF HeldInv, Follows
<1>5. c.sof => c.nr = 1 /\ d.nr = 2
  BY <1>1, <1>2 DEF WellFormed
<1>6. IsStart(0) <=> c.sof
  BY <1>1 DEF IsStart
<1>7. CASE kernel \in {"Outbound", "OffloadTx", "OneToOneTx"}
  <2>1. Out.meta = IF c.sof THEN <<Data(c)>> ELSE held
    BY <1>1, <1>2, <1>6, <1>7 DEF Out, Outbound, OffloadTx, OneToOneTx, StreamHold
  <2>2. TxHeader(d) = << <<"data", d.socket, 1>> >>
    BY <1>7, TxHeaders
  <2> QED
    BY <1>2, <1>4, <1>5, <2>1, <2>2 DEF Data
<1>8. CASE kernel = "OneToManyTx"
  <2>1. Out.meta = IF c.sof THEN <<Data(c), Data(d)>> ELSE held
    BY <1>1, <1>2, <1>8 DEF Out, OneToManyTx, StreamHold
  <2>2. TxHeader(d) = << <<"data", d.socket, 1>>, <<"data", d.socket, 2>> >>
    BY <1>8, TxHeaders
  <2> QED
    BY <1>2, <1>4, <1>5, <2>1, <2>2 DEF Data
<1> QED
  BY <1>7, <1>8 DEF TxKernels

LEMMA OutboundEmits ==
  ASSUME NEW a, NEW b, NEW c, NEW d, NEW e, Seen(a, b, c, d, e), HeldInv,
         kernel \in {"Outbound", "OffloadTx"}
  PROVE  Emitted = Owes(c)
<1>1. /\ b = At(-1) /\ c = At(0) /\ b \in InputCycle /\ c \in InputCycle
      /\ WellFormed(b) /\ WellFormed(c) /\ Follows(b, c)
  BY DEF Seen
<1>2. /\ b.valid \in BOOLEAN /\ b.sof \in BOOLEAN /\ c.sof \in BOOLEAN /\ c.valid \in BOOLEAN
      /\ b.nr \in Nat /\ c.nr \in Nat \ {0}
  BY <1>1, CycleTyped
<1>3. kernel \in TxKernels /\ HeaderWords(kernel) = 1
  BY TxHeaders DEF TxKernels
<1>4. Out = IF kernel = "Outbound" THEN Outbound ELSE OffloadTx
  BY DEF Out
<1>5. Owes(c) = Maybe(c.valid /\ c.nr > 1, TxWord(c))
  BY <1>1, <1>3, TxOwes
<1>6. c.valid /\ c.nr > 1 <=> c.valid /\ ~c.sof
  BY <1>1, <1>2 DEF WellFormed
<1>7. Out.valid <=> c.valid /\ ~c.sof
  BY <1>1, <1>2, <1>4 DEF Outbound, OffloadTx
<1>8. ASSUME c.valid, ~c.sof PROVE Out = TxWord(c)
  <2>1. held = TxHeader(c) /\ b.valid /\ c.nr = b.nr + 1
    BY <1>1, <1>3, <1>8 DEF HeldInv, Follows
  <2>2. /\ (At(0).valid /\ ~At(0).sof) = TRUE /\ IsStart(0) = FALSE
        /\ At(-1).sof = (c.nr = HeaderWords(kernel) + 1) /\ IsStart(-1) = At(-1).sof
    <3>1. b.sof <=> c.nr = 1 + 1
      BY <1>1, <1>2, <2>1 DEF WellFormed
    <3> QED
      BY <1>1, <1>2, <1>3, <1>8, <2>1, <3>1 DEF IsStart
  <2>3. StreamHold(<<Data(At(0))>>, IsStart(0)) = TxHeader(c)
    BY <2>1, <2>2 DEF StreamHold
  <2>4. Outbound = TxWord(c)
    BY <1>1, <2>2, <2>3, Zenon DEF Outbound, TxWord
  <2>5. OffloadTx = TxWord(c)
    BY <1>1, <2>2, <2>3, Zenon DEF OffloadTx, TxWord
  <2> QED
    BY <1>4, <2>4, <2>5
<1> QED
  BY <1>5, <1>6, <1>7, <1>8 DEF Emitted, Maybe

LEMMA OneToOneTxEmits ==
  ASSUME NEW a, NEW b, NEW c, NEW d, NEW e, Seen(a, b, c, d, e), HeldInv,
         kernel = "OneToOneTx"
  PROVE  Emitted = Owes(d)
<1>1. /\ c = At(0) /\ d = At(1) /\ c \in InputCycle /\ d \in InputCycle
      /\ WellFormed(c) /\ WellFormed(d) /\ Follows(c, d) /\ (d.sof => ~c.valid)
  <2>1. Quiet(1)
    BY DEF Quiet, Gap
  <2> QED
    BY <2>1 DEF Seen
<1>2. /\ c.valid \in BOOLEAN /\ c.sof \in BOOLEAN /\ d.valid \in BOOLEAN /\ d.sof \in BOOLEAN
      /\ c.nr \in Nat /\ d.nr \in Nat \ {0}
  BY <1>1, CycleTyped
<1>3. kernel \in TxKernels /\ HeaderWords(kernel) = 1
  BY TxHeaders DEF TxKernels
<1>4. Out = OneToOneTx
  BY DEF Out
<1>5. Owes(d) = Maybe(d.valid /\ d.nr > 1, TxWord(d))
  BY <1>1, <1>3, TxOwes
<1>6. d.valid /\ d.nr > 1 <=> c.valid /\ d.valid
  BY <1>1, <1>2 DEF WellFormed, Follows
<1>7. Out.valid <=> c.valid /\ d.valid
  BY <1>1, <1>2, <1>4 DEF OneToOneTx
<1>8. ASSUME c.valid, d.valid PROVE Out = TxWord(d)
  <2>1. ~d.sof /\ d.nr = c.nr + 1
    BY <1>1, <1>8 DEF Follows
  <2>2. Out.meta = TxHeader(d)
    BY <1>3, <1>8, <2>1, TxMeta
  <2>3. StreamHold(<<Data(At(0))>>, At(0).sof) = TxHeader(d)
    BY <1>4, <2>2 DEF OneToOneTx
  <2>4. (At(0).valid /\ At(1).valid) = TRUE /\ At(0).sof = (d.nr = HeaderWords(kernel) + 1)
    <3>1. c.sof <=> d.nr = 1 + 1
      BY <1>1, <1>2, <1>8, <2>1 DEF WellFormed
    <3> QED
      BY <1>1, <1>2, <1>3, <1>8, <3>1
  <2> QED
    BY <1>1, <1>4, <2>3, <2>4, Zenon DEF OneToOneTx, TxWord
<1> QED
  BY <1>5, <1>6, <1>7, <1>8 DEF Emitted, Maybe

LEMMA OneToManyTxEmits ==
  ASSUME NEW a, NEW b, NEW c, NEW d, NEW e, Seen(a, b, c, d, e), HeldInv,
         kernel = "OneToManyTx", Quiet(2)
  PROVE  Emitted = Owes(e)
<1>1. /\ c = At(0) /\ d = At(1) /\ e = At(2)
      /\ c \in InputCycle /\ d \in InputCycle /\ e \in InputCycle
      /\ WellFormed(c) /\ WellFormed(d) /\ WellFormed(e) /\ Follows(c, d) /\ Follows(d, e)
      /\ (d.sof => ~c.valid) /\ (e.sof => ~c.valid)
  <2>1. Quiet(1)
    BY DEF Quiet, Gap
  <2> QED
    BY <2>1 DEF Seen
<1>2. /\ c.valid \in BOOLEAN /\ c.sof \in BOOLEAN /\ d.valid \in BOOLEAN /\ d.sof \in BOOLEAN
      /\ e.valid \in BOOLEAN /\ e.sof \in BOOLEAN
      /\ c.nr \in Nat \ {0} /\ d.nr \in Nat \ {0} /\ e.nr \in Nat \ {0}
  BY <1>1, CycleTyped
<1>3. kernel \in TxKernels /\ HeaderWords(kernel) = 2
  BY TxHeaders DEF TxKernels
<1>4. Out = OneToManyTx
  BY DEF Out
<1>5. Owes(e) = Maybe(e.valid /\ e.nr > 2, TxWord(e))
  BY <1>1, <1>3, TxOwes
<1>6. ASSUME c.valid, e.valid
      PROVE  /\ d.valid /\ ~d.sof /\ ~e.sof /\ d.nr = c.nr + 1 /\ e.nr = d.nr + 1
             /\ e.socket = d.socket
  BY <1>1, <1>2, <1>6 DEF Follows
<1>7. e.valid /\ e.nr > 2 <=> c.valid /\ e.valid
  <2>1. ASSUME e.valid, e.nr > 2 PROVE c.valid
    <3>1. d.valid /\ e.nr = d.nr + 1
      BY <1>1, <1>2, <2>1 DEF WellFormed, Follows
    <3> QED
      BY <1>1, <1>2, <2>1, <3>1 DEF WellFormed, Follows
  <2> QED
    BY <1>2, <1>6, <2>1
<1>8. Out.valid <=> c.valid /\ e.valid
  BY <1>1, <1>2, <1>4 DEF OneToManyTx
<1>9. ASSUME c.valid, e.valid PROVE Out = TxWord(e)
  <2>1. Out.meta = TxHeader(d)
    BY <1>3, <1>6, <1>9, TxMeta
  <2>2. TxHeader(e) = TxHeader(d)
    BY <1>6, <1>9 DEF TxHeader
  <2>3. StreamHold(<<Data(At(0)), Data(At(1))>>, At(0).sof) = TxHeader(e)
    BY <1>4, <2>1, <2>2 DEF OneToManyTx
  <2>4. (At(0).valid /\ At(2).valid) = TRUE /\ At(0).sof = (e.nr = HeaderWords(kernel) + 1)
    <3>1. c.sof <=> e.nr = 2 + 1
      BY <1>1, <1>2, <1>6, <1>9 DEF WellFormed
    <3> QED
      BY <1>1, <1>2, <1>3, <1>9, <3>1
  <2> QED
    BY <1>1, <1>4, <2>3, <2>4, Zenon DEF OneToManyTx, TxWord
<1> QED
  BY <1>5, <1>7, <1>8, <1>9 DEF Emitted, Maybe

-----------------------------------------------------------------------------
(***************************************************************************)
(* What is owed.  Pending says it from the cycles in the window alone, and *)
(* Rest what is left of it once the kernel has put out its word.           *)
(***************************************************************************)
AfterFirst(c) == SecondHeader(c) \o DataWord(c)

Pending ==
  CASE kernel \in {"Inbound", "OffloadRx"} ->
         (DataWord(At(0)) \o Owes(At(1))) \o Owes(At(2))
    [] kernel = "OneToOneRx" ->
         ((DataWord(At(-1)) \o Owes(At(0))) \o Owes(At(1))) \o Owes(At(2))
    [] kernel = "OneToManyRx" ->
         (((DataWord(At(-2)) \o AfterFirst(At(-1))) \o Owes(At(0))) \o Owes(At(1)))
           \o Owes(At(2))
    [] kernel \in {"Outbound", "OffloadTx"} ->
         (Owes(At(0)) \o Owes(At(1))) \o Owes(At(2))
    [] kernel = "OneToOneTx" -> Owes(At(1)) \o Owes(At(2))
    [] kernel = "OneToManyTx" -> <<>> \o Owes(At(2))

Rest ==
  CASE kernel \in {"Inbound", "OffloadRx"} -> DataWord(At(1)) \o Owes(At(2))
    [] kernel = "OneToOneRx" -> (DataWord(At(0)) \o Owes(At(1))) \o Owes(At(2))
    [] kernel = "OneToManyRx" ->
         ((DataWord(At(-1)) \o AfterFirst(At(0))) \o Owes(At(1))) \o Owes(At(2))
    [] kernel \in {"Outbound", "OffloadTx"} -> Owes(At(1)) \o Owes(At(2))
    [] kernel = "OneToOneTx" -> Owes(At(2))
    [] kernel = "OneToManyTx" -> <<>>

AllKernels == RxKernels \cup TxKernels

Roomy ==
  HeaderWords(kernel) = 2 => /\ Quiet(2)
                             /\ kernel = "OneToManyRx" => Shortest[kernel] >= 2

LEMMA OwesTyped ==
  ASSUME NEW c \in InputCycle, WellFormed(c), kernel \in AllKernels
  PROVE  Owes(c) \in Seq(OutWord)
<1>1. CASE kernel \in RxKernels
  <2>1. /\ DataWord(c) \in Seq(OutWord) /\ FirstHeader(c) \in Seq(OutWord)
        /\ SecondHeader(c) \in Seq(OutWord)
    BY WordsTyped
  <2>2. /\ SecondHeader(c) \o DataWord(c) \in Seq(OutWord)
        /\ FirstHeader(c) \o DataWord(c) \in Seq(OutWord)
    BY <2>1, ConcatProperties
  <2>3. FirstHeader(c) \o (SecondHeader(c) \o DataWord(c)) \in Seq(OutWord)
    BY <2>1, <2>2, ConcatProperties
  <2>4. HeaderWords(kernel) \in {1, 2}
    BY DEF HeaderWords
  <2>5. \/ Owes(c) = FirstHeader(c) \o DataWord(c)
        \/ Owes(c) = FirstHeader(c) \o (SecondHeader(c) \o DataWord(c))
    BY <1>1, <2>4, RxOwes
  <2> QED
    BY <2>2, <2>3, <2>5
<1>2. CASE kernel \in TxKernels
  BY <1>2, TxOwes
<1> QED
  BY <1>1, <1>2 DEF AllKernels

LEMMA SeenTyped ==
  ASSUME NEW a, NEW b, NEW c, NEW d, NEW e, Seen(a, b, c, d, e), kernel \in AllKernels
  PROVE  /\ Owes(c) \in Seq(OutWord) /\ Owes(d) \in Seq(OutWord) /\ Owes(e) \in Seq(OutWord)
         /\ DataWord(a) \in Seq(OutWord) /\ DataWord(b) \in Seq(OutWord)
         /\ DataWord(c) \in Seq(OutWord) /\ DataWord(d) \in Seq(OutWord)
         /\ FirstHeader(c) \in Seq(OutWord) /\ FirstHeader(d) \in Seq(OutWord)
         /\ SecondHeader(b) \in Seq(OutWord) /\ SecondHeader(c) \in Seq(OutWord)
         /\ AfterFirst(b) \in Seq(OutWord) /\ AfterFirst(c) \in Seq(OutWord)
<1>1. /\ a \in InputCycle /\ b \in InputCycle /\ c \in InputCycle /\ d \in InputCycle
      /\ e \in InputCycle /\ WellFormed(c) /\ WellFormed(d) /\ WellFormed(e)
  BY DEF Seen
<1>2. /\ DataWord(a) \in Seq(OutWord) /\ DataWord(b) \in Seq(OutWord)
      /\ DataWord(c) \in Seq(OutWord) /\ DataWord(d) \in Seq(OutWord)
      /\ FirstHeader(c) \in Seq(OutWord) /\ FirstHeader(d) \in Seq(OutWord)
      /\ SecondHeader(b) \in Seq(OutWord) /\ SecondHeader(c) \in Seq(OutWord)
  BY <1>1, WordsTyped
<1>3. Owes(c) \in Seq(OutWord) /\ Owes(d) \in Seq(OutWord) /\ Owes(e) \in Seq(OutWord)
  BY <1>1, OwesTyped
<1>4. AfterFirst(b) \in Seq(OutWord) /\ AfterFirst(c) \in Seq(OutWord)
  BY <1>2 DEF AfterFirst
<1> QED
  BY <1>2, <1>3, <1>4

\* Concatenation, of sequences of words only.
Words == Seq(OutWord)
Then(p, q) == p \o q

LEMMA ThenFacts ==
  /\ <<>> \in Words
  /\ \A p \in Words : Then(p, <<>>) = p /\ Then(<<>>, p) = p
  /\ \A p, q \in Words : Then(p, q) \in Words
  /\ \A p, q, r \in Words : Then(Then(p, q), r) = Then(p, Then(q, r))
<1>1. \A p, q \in Seq(OutWord) : p \o q \in Seq(OutWord)
  BY ConcatProperties
<1>2. \A p, q, r \in Seq(OutWord) : (p \o q) \o r = p \o (q \o r)
  BY ConcatAssociative
<1>3. \A p \in Seq(OutWord) : p \o <<>> = p /\ <<>> \o p = p
  BY ConcatEmptySeq
<1> QED
  BY <1>1, <1>2, <1>3, EmptySeq DEF Words, Then

\* Words that are put out are taken off the front.
LEMMA Splice ==
  ASSUME NEW d \in Words, NEW f \in Words, NEW n \in Words, NEW r \in Words
  PROVE  /\ Then(Then(d, Then(f, n)), r) = Then(Then(d, f), Then(n, r))
         /\ Then(n, r) \in Words
BY ThenFacts

LEMMA SpliceMore ==
  ASSUME NEW d \in Words, NEW f \in Words, NEW n \in Words, NEW r \in Words,
         NEW s \in Words
  PROVE  /\ Then(Then(Then(d, Then(f, n)), r), s) = Then(Then(d, f), Then(Then(n, r), s))
         /\ Then(Then(n, r), s) \in Words
<1>1. /\ Then(Then(d, Then(f, n)), r) = Then(Then(d, f), Then(n, r))
      /\ Then(n, r) \in Words /\ Then(d, f) \in Words
  BY Splice, ThenFacts
<1> QED
  BY <1>1, ThenFacts

LEMMA SpliceTwo ==
  ASSUME NEW d \in Words, NEW h \in Words, NEW b \in Words, NEW f \in Words,
         NEW n \in Words, f # <<>> => b = <<>>
  PROVE  /\ Then(Then(d, Then(h, b)), Then(f, n)) = Then(Then(d, Then(h, f)), Then(b, n))
         /\ Then(d, Then(h, f)) \in Words /\ Then(b, n) \in Words
<1>1. Then(b, f) = Then(f, b)
  BY ThenFacts
<1>2. /\ Then(b, n) \in Words /\ Then(h, f) \in Words /\ Then(d, h) \in Words
      /\ Then(f, n) \in Words /\ Then(d, Then(h, f)) \in Words
  BY ThenFacts
<1>3. Then(Then(d, Then(h, b)), Then(f, n)) = Then(Then(d, Then(h, f)), Then(b, n))
  <2>1. Then(d, Then(h, b)) = Then(Then(d, h), b)
    BY ThenFacts
  <2>2. Then(Then(Then(d, h), b), Then(f, n)) = Then(Then(d, h), Then(b, Then(f, n)))
    BY <1>2, ThenFacts
  <2>3. Then(b, Then(f, n)) = Then(f, Then(b, n))
    BY <1>1, ThenFacts
  <2>4. Then(Then(d, h), Then(f, Then(b, n))) = Then(Then(Then(d, h), f), Then(b, n))
    BY <1>2, ThenFacts
  <2>5. Then(Then(d, h), f) = Then(d, Then(h, f))
    BY ThenFacts
  <2> QED
    BY <2>1, <2>2, <2>3, <2>4, <2>5
<1> QED
  BY <1>2, <1>3

\* The kernel puts out the first word of what is pending, or nothing.
LEMMA PutsOutPending ==
  ASSUME NEW a, NEW b, NEW c, NEW d, NEW e, Seen(a, b, c, d, e), HeldInv,
         kernel \in AllKernels, Roomy, Shortest[kernel] \in Nat
  PROVE  Pending = Then(Emitted, Rest) /\ Rest \in Words /\ Emitted \in Words
<1>1. /\ a = At(-2) /\ b = At(-1) /\ c = At(0) /\ d = At(1) /\ e = At(2)
      /\ a \in InputCycle /\ b \in InputCycle /\ c \in InputCycle /\ d \in InputCycle
      /\ WellFormed(c) /\ WellFormed(d)
  BY DEF Seen
<1>2. /\ Owes(c) \in Seq(OutWord) /\ Owes(d) \in Seq(OutWord) /\ Owes(e) \in Seq(OutWord)
      /\ DataWord(a) \in Seq(OutWord) /\ DataWord(b) \in Seq(OutWord)
      /\ DataWord(c) \in Seq(OutWord) /\ DataWord(d) \in Seq(OutWord)
      /\ FirstHeader(c) \in Seq(OutWord) /\ FirstHeader(d) \in Seq(OutWord)
      /\ SecondHeader(b) \in Seq(OutWord) /\ SecondHeader(c) \in Seq(OutWord)
      /\ AfterFirst(b) \in Seq(OutWord) /\ AfterFirst(c) \in Seq(OutWord)
      /\ <<>> \in Seq(OutWord)
  BY SeenTyped, EmptySeq
<1>3. CASE kernel \in {"Inbound", "OffloadRx"}
  <2>1. /\ Emitted = Then(DataWord(c), FirstHeader(d))
        /\ Owes(d) = Then(FirstHeader(d), DataWord(d))
    BY <1>1, <1>3, InboundEmits, RxOwes, ZenonT(60) DEF HeaderWords, RxKernels, Then
  <2>2. /\ Pending = Then(Then(DataWord(c), Owes(d)), Owes(e))
        /\ Rest = Then(DataWord(d), Owes(e))
    BY <1>1, <1>3 DEF Pending, Rest, Then
  <2>3. /\ DataWord(c) \in Words /\ FirstHeader(d) \in Words
        /\ DataWord(d) \in Words /\ Owes(e) \in Words
    BY <1>2 DEF Words
  <2> QED
    BY <2>1, <2>2, <2>3, Splice, ThenFacts
<1>4. CASE kernel = "OneToOneRx"
  <2>1. /\ Emitted = Then(DataWord(b), FirstHeader(c))
        /\ Owes(c) = Then(FirstHeader(c), DataWord(c))
    BY <1>1, <1>4, OneToOneRxEmits, RxOwes DEF HeaderWords, RxKernels, Then
  <2>2. /\ Pending = Then(Then(Then(DataWord(b), Owes(c)), Owes(d)), Owes(e))
        /\ Rest = Then(Then(DataWord(c), Owes(d)), Owes(e))
    BY <1>1, <1>4 DEF Pending, Rest, Then
  <2>3. /\ DataWord(b) \in Words /\ FirstHeader(c) \in Words
        /\ DataWord(c) \in Words /\ Owes(d) \in Words /\ Owes(e) \in Words
    BY <1>2 DEF Words
  <2>4. Emitted \in Words
    BY <2>1, <2>3, ThenFacts
  <2> QED
    BY <2>1, <2>2, <2>3, <2>4, SpliceMore
<1>5. CASE kernel = "OneToManyRx"
  <2>1. /\ Emitted = Then(DataWord(a), Then(SecondHeader(b), FirstHeader(c)))
        /\ FirstHeader(c) # <<>> => DataWord(b) = <<>>
    BY <1>5, OneToManyRxEmits DEF Roomy, HeaderWords, Then
  <2>2. Owes(c) = Then(FirstHeader(c), AfterFirst(c))
    BY <1>1, <1>5, RxOwes DEF HeaderWords, RxKernels, AfterFirst, Then
  <2>3. /\ Pending = Then(Then(Then(Then(DataWord(a), AfterFirst(b)), Owes(c)), Owes(d)), Owes(e))
        /\ Rest = Then(Then(Then(DataWord(b), AfterFirst(c)), Owes(d)), Owes(e))
        /\ AfterFirst(b) = Then(SecondHeader(b), DataWord(b))
    BY <1>1, <1>5 DEF Pending, Rest, AfterFirst, Then
  <2>4. /\ DataWord(a) \in Words /\ SecondHeader(b) \in Words
        /\ DataWord(b) \in Words /\ FirstHeader(c) \in Words
        /\ AfterFirst(c) \in Words /\ Owes(d) \in Words /\ Owes(e) \in Words
    BY <1>2 DEF Words
  <2>5. PICK g \in Words, m \in Words :
          /\ g = Then(DataWord(a), Then(SecondHeader(b), FirstHeader(c)))
          /\ m = Then(DataWord(b), AfterFirst(c))
          /\ Then(Then(DataWord(a), Then(SecondHeader(b), DataWord(b))),
                  Then(FirstHeader(c), AfterFirst(c))) = Then(g, m)
    <3>1. PICK o, p, q, r, s :
            /\ o = DataWord(a) /\ p = SecondHeader(b) /\ q = DataWord(b)
            /\ r = FirstHeader(c) /\ s = AfterFirst(c)
      OBVIOUS
    <3>2. /\ o \in Words /\ p \in Words /\ q \in Words /\ r \in Words
          /\ s \in Words /\ (r # <<>> => q = <<>>)
      BY <2>1, <2>4, <3>1
    <3>3. /\ Then(Then(o, Then(p, q)), Then(r, s)) = Then(Then(o, Then(p, r)), Then(q, s))
          /\ Then(o, Then(p, r)) \in Words /\ Then(q, s) \in Words
      BY <3>2, SpliceTwo
    <3> QED
      BY <3>1, <3>3
  <2>6. /\ Then(Then(Then(g, m), Owes(d)), Owes(e)) = Then(g, Then(Then(m, Owes(d)), Owes(e)))
        /\ Then(Then(m, Owes(d)), Owes(e)) \in Words
    <3>1. Then(Then(g, m), Owes(d)) = Then(g, Then(m, Owes(d))) /\ Then(m, Owes(d)) \in Words
      BY <2>4, ThenFacts
    <3> QED
      BY <2>4, <3>1, ThenFacts
  <2> QED
    BY <2>1, <2>2, <2>3, <2>5, <2>6
<1>6. CASE kernel \in {"Outbound", "OffloadTx"}
  <2>1. Emitted = Owes(c)
    BY <1>6, OutboundEmits
  <2>2. /\ Pending = Then(Then(Owes(c), Owes(d)), Owes(e))
        /\ Rest = Then(Owes(d), Owes(e))
    BY <1>1, <1>6 DEF Pending, Rest, Then
  <2>3. Owes(c) \in Words /\ Owes(d) \in Words /\ Owes(e) \in Words
    BY <1>2 DEF Words
  <2> QED
    BY <2>1, <2>2, <2>3, ThenFacts
<1>7. CASE kernel = "OneToOneTx"
  <2>1. Emitted = Owes(d)
    BY <1>7, OneToOneTxEmits
  <2> QED
    BY <1>1, <1>2, <1>7, <2>1 DEF Pending, Rest, Then, Words
<1>8. CASE kernel = "OneToManyTx"
  <2>1. Emitted = Owes(e)
    BY <1>8, OneToManyTxEmits DEF Roomy, HeaderWords
  <2>2. Pending = Then(<<>>, Owes(e)) /\ Rest = <<>> /\ Owes(e) \in Words
    BY <1>1, <1>2, <1>8 DEF Pending, Rest, Then, Words
  <2> QED
    BY <2>1, <2>2, ThenFacts
<1> QED
  BY <1>3, <1>4, <1>5, <1>6, <1>7, <1>8 DEF AllKernels, RxKernels, TxKernels

\* A kernel that puts out nothing has nothing to go on with.
StartsAnew(p) == p = <<>> \/ Head(p).sof

LEMMA StartsAnewTwo ==
  ASSUME NEW p \in Words, NEW q \in Words, StartsAnew(p), p = <<>> => StartsAnew(q)
  PROVE  StartsAnew(p \o q)
<1>1. CASE p = <<>>
  <2>1. p \o q = q
    BY <1>1, ThenFacts DEF Then
  <2> QED
    BY <1>1, <2>1
<1>2. CASE p # <<>>
  <2>1. Head(p \o q) = Head(p)
    BY <1>2 DEF Words
  <2> QED
    BY <1>2, <2>1 DEF StartsAnew
<1> QED
  BY <1>1, <1>2

LEMMA RxStartsAnew ==
  ASSUME NEW c \in InputCycle, WellFormed(c), kernel \in RxKernels, c.valid => c.sof
  PROVE  StartsAnew(Owes(c)) /\ (Owes(c) = <<>> => ~c.valid)
<1>1. /\ DataWord(c) \in Seq(OutWord) /\ SecondHeader(c) \in Seq(OutWord)
      /\ c.sof \in BOOLEAN
  BY WordsTyped, CycleTyped
<1>2. CASE c.sof
  <2>1. PICK rest \in Seq(OutWord) : Owes(c) = FirstHeader(c) \o rest
    <3>1. SecondHeader(c) \o DataWord(c) \in Seq(OutWord)
      BY <1>1, ConcatProperties
    <3>2. HeaderWords(kernel) \in {1, 2}
      BY DEF HeaderWords
    <3> QED
      BY <1>1, <3>1, <3>2, RxOwes
  <2>2. PICK h \in OutWord : h = RxWord(TRUE, TRUE, FALSE, Header(c, 1)) /\ h.sof
    <3>1. RxWord(TRUE, TRUE, FALSE, Header(c, 1)) \in OutWord
      BY CycleTyped, RxWordTyped
    <3> QED
      BY <3>1 DEF RxWord
  <2>3. Owes(c) = <<h>> \o rest
    BY <1>2, <2>1, <2>2 DEF FirstHeader, Maybe
  <2>4. Owes(c) # <<>> /\ Head(Owes(c)) = h
    BY <2>3
  <2> QED
    BY <2>2, <2>4 DEF StartsAnew
<1>3. CASE ~c.sof
  BY <1>3 DEF Owes, StartsAnew
<1> QED
  BY <1>1, <1>2, <1>3

LEMMA TxStartsAnew ==
  ASSUME NEW c \in InputCycle, NEW d \in InputCycle, WellFormed(c), WellFormed(d),
         Follows(c, d), kernel \in TxKernels, Owes(c) = <<>>
  PROVE  StartsAnew(Owes(d))
<1>1. c.nr \in Nat /\ d.nr \in Nat \ {0} /\ HeaderWords(kernel) \in {1, 2}
  BY CycleTyped DEF HeaderWords
<1>2. /\ Owes(c) = Maybe(c.valid /\ c.nr > HeaderWords(kernel), TxWord(c))
      /\ Owes(d) = Maybe(d.valid /\ d.nr > HeaderWords(kernel), TxWord(d))
  BY TxOwes
<1>3. ASSUME d.valid, d.nr > HeaderWords(kernel)
      PROVE  Head(Owes(d)).sof
  <2>1. c.valid /\ d.nr = c.nr + 1
    BY <1>1, <1>3 DEF Follows, WellFormed
  <2>2. ~(c.nr > HeaderWords(kernel))
    BY <1>2, <2>1 DEF Maybe
  <2>3. d.nr = HeaderWords(kernel) + 1
    BY <1>1, <1>3, <2>1, <2>2
  <2>4. Owes(d) = <<TxWord(d)>>
    BY <1>2, <1>3 DEF Maybe
  <2>5. TxWord(d).sof
    BY <2>3 DEF TxWord
  <2> QED
    BY <2>4, <2>5
<1>4. ASSUME ~(d.valid /\ d.nr > HeaderWords(kernel)) PROVE Owes(d) = <<>>
  BY <1>2, <1>4 DEF Maybe
<1> QED
  BY <1>3, <1>4 DEF StartsAnew

LEMMA NothingGoesOn ==
  ASSUME NEW a, NEW b, NEW c, NEW d, NEW e, Seen(a, b, c, d, e), HeldInv,
         kernel \in AllKernels, Roomy, Shortest[kernel] \in Nat, ~Out.valid
  PROVE  StartsAnew(Rest)
<1>1. /\ a = At(-2) /\ b = At(-1) /\ c = At(0) /\ d = At(1) /\ e = At(2)
      /\ a \in InputCycle /\ b \in InputCycle /\ c \in InputCycle /\ d \in InputCycle
      /\ e \in InputCycle
      /\ WellFormed(a) /\ WellFormed(b) /\ WellFormed(c) /\ WellFormed(d) /\ WellFormed(e)
      /\ Follows(a, b) /\ Follows(b, c) /\ Follows(c, d) /\ Follows(d, e)
  BY DEF Seen
<1>2. Emitted = <<>>
  BY DEF Emitted, Maybe
<1>3. /\ Owes(c) \in Words /\ Owes(d) \in Words /\ Owes(e) \in Words
      /\ DataWord(a) \in Words /\ DataWord(b) \in Words /\ DataWord(c) \in Words
      /\ FirstHeader(c) \in Words /\ FirstHeader(d) \in Words /\ SecondHeader(b) \in Words
  BY SeenTyped DEF Words
<1>4. /\ a.valid \in BOOLEAN /\ b.valid \in BOOLEAN /\ c.valid \in BOOLEAN /\ d.valid \in BOOLEAN
      /\ b.sof \in BOOLEAN /\ c.sof \in BOOLEAN /\ d.sof \in BOOLEAN /\ e.sof \in BOOLEAN
  BY <1>1, CycleTyped
<1>5. \A p, q \in Words : p \o q = <<>> => p = <<>> /\ q = <<>>
  BY ConcatEqualIffEmpty DEF Words
<1>6. \A x : /\ DataWord(x) = <<>> => ~x.valid
             /\ FirstHeader(x) = <<>> => ~x.sof
             /\ SecondHeader(x) = <<>> => ~x.sof
             /\ ~x.valid => DataWord(x) = <<>>
             /\ ~x.sof => SecondHeader(x) = <<>>
  BY DEF DataWord, FirstHeader, SecondHeader, Maybe
<1>7. <<>> \in Words /\ \A p \in Words : <<>> \o p = p
  BY ThenFacts DEF Then
<1>8. ASSUME ~c.valid, kernel \in RxKernels
      PROVE  StartsAnew(Owes(d)) /\ StartsAnew(Owes(d) \o Owes(e))
  <2>1. d.valid => d.sof
    BY <1>1, <1>8 DEF Follows
  <2>2. StartsAnew(Owes(d)) /\ (Owes(d) = <<>> => ~d.valid)
    BY <1>1, <1>8, <2>1, RxStartsAnew
  <2>3. Owes(d) = <<>> => (e.valid => e.sof)
    BY <1>1, <2>2 DEF Follows
  <2>4. Owes(d) = <<>> => StartsAnew(Owes(e))
    BY <1>1, <1>8, <2>3, RxStartsAnew
  <2> QED
    BY <1>3, <2>2, <2>4, StartsAnewTwo
<1>9. CASE kernel \in {"Inbound", "OffloadRx"}
  <2>1. DataWord(c) = <<>> /\ FirstHeader(d) = <<>>
    <3>1. DataWord(c) \o FirstHeader(d) = <<>>
      BY <1>2, <1>9, InboundEmits
    <3> QED
      BY <1>3, <1>5, <3>1
  <2>2. ~c.valid /\ ~d.sof
    BY <1>6, <2>1
  <2>3. ~d.valid
    BY <1>1, <2>2 DEF Follows
  <2>4. Rest = Owes(e)
    BY <1>1, <1>3, <1>6, <1>7, <1>9, <2>3 DEF Rest
  <2>5. e.valid => e.sof
    BY <1>1, <2>3 DEF Follows
  <2> QED
    BY <1>1, <1>9, <2>4, <2>5, RxStartsAnew DEF RxKernels
<1>10. CASE kernel = "OneToOneRx"
  <2>1. DataWord(b) = <<>> /\ FirstHeader(c) = <<>>
    <3>1. DataWord(b) \o FirstHeader(c) = <<>>
      BY <1>2, <1>10, OneToOneRxEmits
    <3> QED
      BY <1>3, <1>5, <3>1
  <2>2. ~b.valid /\ ~c.sof
    BY <1>6, <2>1
  <2>3. ~c.valid
    BY <1>1, <2>2 DEF Follows
  <2>4. Rest = Owes(d) \o Owes(e)
    BY <1>1, <1>3, <1>6, <1>7, <1>10, <2>3 DEF Rest
  <2> QED
    BY <1>8, <1>10, <2>3, <2>4 DEF RxKernels
<1>11. CASE kernel = "OneToManyRx"
  <2>1. DataWord(a) = <<>> /\ SecondHeader(b) = <<>> /\ FirstHeader(c) = <<>>
    <3>1. Emitted = DataWord(a) \o (SecondHeader(b) \o FirstHeader(c))
      BY <1>11, OneToManyRxEmits DEF Roomy, HeaderWords
    <3>2. SecondHeader(b) \o FirstHeader(c) \in Words
      BY <1>3, ThenFacts DEF Then
    <3> QED
      BY <1>2, <1>3, <1>5, <3>1, <3>2
  <2>2. ~a.valid /\ ~b.sof /\ ~c.sof
    BY <1>6, <2>1
  <2>3. ~b.valid /\ ~c.valid
    BY <1>1, <2>2 DEF Follows
  <2>4. DataWord(b) = <<>> /\ SecondHeader(c) = <<>> /\ DataWord(c) = <<>>
    BY <1>6, <2>2, <2>3
  <2>5. Rest = ((<<>> \o (<<>> \o <<>>)) \o Owes(d)) \o Owes(e)
    BY <1>1, <1>11, <2>4 DEF Rest, AfterFirst
  <2>6. Rest = Owes(d) \o Owes(e)
    BY <1>3, <1>7, <2>5
  <2> QED
    BY <1>8, <1>11, <2>3, <2>6 DEF RxKernels
<1>12. CASE kernel \in {"Outbound", "OffloadTx"}
  <2>1. Owes(c) = <<>>
    BY <1>2, <1>12, OutboundEmits
  <2>2. StartsAnew(Owes(d)) /\ (Owes(d) = <<>> => StartsAnew(Owes(e)))
    BY <1>1, <1>12, <2>1, TxStartsAnew DEF TxKernels
  <2> QED
    BY <1>1, <1>3, <1>12, <2>2, StartsAnewTwo DEF Rest
<1>13. CASE kernel = "OneToOneTx"
  <2>1. Owes(d) = <<>>
    BY <1>2, <1>13, OneToOneTxEmits
  <2>2. StartsAnew(Owes(e))
    BY <1>1, <1>13, <2>1, TxStartsAnew DEF TxKernels
  <2> QED
    BY <1>1, <1>13, <2>2 DEF Rest
<1>14. CASE kernel = "OneToManyTx"
  BY <1>14 DEF Rest, StartsAnew
<1> QED
  BY <1>9, <1>10, <1>11, <1>12, <1>13, <1>14 DEF AllKernels, RxKernels, TxKernels

-----------------------------------------------------------------------------
(***************************************************************************)
(* The invariant.  Everything that is owed can be told from the cycles in  *)
(* the window, and what a Tx kernel holds from the frame it is in.         *)
(***************************************************************************)
IInv == WindowInv /\ HeldInv /\ owed = Pending

LEMMA KernelRoomy ==
  ASSUME RoomForMetadata, WindowInv
  PROVE  kernel \in AllKernels /\ Roomy /\ Shortest[kernel] \in Nat
<1>1. kernel \in Kernels
  BY DEF WindowInv
<1>2. Spacing[kernel] \in Nat /\ Shortest[kernel] \in Nat
  BY KernelCases
<1>3. Roomy
  BY <1>1, <1>2 DEF RoomForMetadata, Roomy, Quiet
<1> QED
  BY <1>1, <1>2, <1>3, KernelAssumption DEF AllKernels

\* What is owed in front of the rest is the word that is put out.
LEMMA OwedSplits ==
  ASSUME RoomForMetadata, IInv
  PROVE  /\ Rest \in Words
         /\ Out.valid => owed # <<>> /\ Out = Head(owed) /\ Rest = Tail(owed)
         /\ ~Out.valid => owed = Rest /\ StartsAnew(Rest)
<1>1. PICK a, b, c, d, e : Seen(a, b, c, d, e)
  BY SeeCycles DEF IInv
<1>2. kernel \in AllKernels /\ Roomy /\ Shortest[kernel] \in Nat
  BY KernelRoomy DEF IInv
<1>3. owed = Then(Emitted, Rest) /\ Rest \in Words /\ Emitted \in Words
  BY <1>1, <1>2, PutsOutPending DEF IInv
<1>4. ASSUME Out.valid PROVE owed # <<>> /\ Out = Head(owed) /\ Rest = Tail(owed)
  <2>1. PICK w, r : w = Out /\ r = Rest
    OBVIOUS
  <2>2. <<w>> \in Seq(OutWord) /\ owed = <<w>> \o r /\ r \in Seq(OutWord)
    BY <1>3, <1>4, <2>1 DEF Emitted, Maybe, Then, Words
  <2>3. w \in OutWord
    <3>1. Len(<<w>>) = 1 /\ <<w>>[1] = w
      OBVIOUS
    <3> QED
      BY <2>2, <3>1, ElementOfSeq
  <2>4. <<w>> \o r # <<>> /\ Head(<<w>> \o r) = w /\ Tail(<<w>> \o r) = r
    BY <2>2, <2>3
  <2> QED
    BY <2>1, <2>2, <2>4
<1>5. ASSUME ~Out.valid PROVE owed = Rest /\ StartsAnew(Rest)
  <2>1. Emitted = <<>>
    BY <1>5 DEF Emitted, Maybe
  <2>2. StartsAnew(Rest)
    BY <1>1, <1>2, <1>5, NothingGoesOn DEF IInv
  <2> QED
    BY <1>3, <2>1, <2>2, ThenFacts
<1> QED
  BY <1>3, <1>4, <1>5

LEMMA InitInv == Init => IInv
<1> SUFFICES ASSUME Init PROVE IInv
  OBVIOUS
<1>1. PICK s \in Sockets, eof \in IdleEofs :
        window = [i \in 1 .. 2 * Reach + 1 |-> IdleCycle(s, eof)]
  BY DEF Init
<1>2. PICK c : c = IdleCycle(s, eof)
  OBVIOUS
<1>3. /\ c = [valid |-> FALSE, sof |-> FALSE, eof |-> eof, socket |-> s, nr |-> 1]
      /\ eof \in BOOLEAN
  BY <1>1, <1>2, IdleAssumption DEF IdleCycle
<1>4. c \in InputCycle /\ ~c.valid /\ ~c.sof
  BY <1>1, <1>3 DEF InputCycle
<1>5. window = [i \in 1 .. 5 |-> c]
  BY <1>1, <1>2 DEF Reach
<1>6. window \in Seq(InputCycle) /\ Len(window) = 5 /\ \A i \in 1 .. 5 : window[i] = c
  BY <1>4, <1>5
<1>7. WindowInv
  <2>1. \A i \in 1 .. 5 : WellFormed(window[i])
    BY <1>4, <1>6 DEF WellFormed
  <2>2. \A i \in 1 .. 4 : Follows(window[i], window[i + 1])
    <3>1. \A i \in 1 .. 4 : window[i] = c /\ window[i + 1] = c
      BY <1>6
    <3>2. Follows(c, c)
      BY <1>4 DEF Follows
    <3> QED
      BY <3>1, <3>2
  <2>3. \A i \in 1 .. 5 : ~window[i].valid
    BY <1>4, <1>6
  <2>4. kernel \in Kernels
    BY DEF Init
  <2> QED
    BY <1>6, <2>1, <2>2, <2>3, <2>4 DEF WindowInv
<1>8. At(-2) = c /\ At(-1) = c /\ At(0) = c /\ At(1) = c /\ At(2) = c
  BY <1>6 DEF At, Reach
<1>9. HeldInv
  BY <1>4, <1>8 DEF HeldInv
<1>10. Pending = <<>>
  <2>1. DataWord(c) = <<>> /\ AfterFirst(c) = <<>> \o <<>> /\ Owes(c) = <<>>
    BY <1>4 DEF DataWord, AfterFirst, SecondHeader, Maybe, Owes
  <2>2. <<>> \o <<>> = <<>>
    BY ThenFacts DEF Then
  <2>3. kernel \in AllKernels
    BY KernelAssumption DEF Init, AllKernels
  <2> QED
    BY <1>8, <2>1, <2>2, <2>3 DEF Pending, AllKernels, RxKernels, TxKernels
<1> QED
  BY <1>7, <1>9, <1>10 DEF IInv, Init

\* One more cycle: what is owed now is the rest and what the new cycle calls
\* for, and that is what is pending in the window moved on.
LEMMA CycleInv ==
  ASSUME RoomForMetadata, IInv, NEW n, Fits(n)
  PROVE  IInv'
<1>1. PICK a, b, c, d, e : Seen(a, b, c, d, e)
  BY SeeCycles DEF IInv
<1>2. /\ WindowInv' /\ window'[5] = n /\ \A i \in 1 .. 4 : window'[i] = window[i + 1]
      /\ kernel' = kernel
  BY WindowMoves DEF IInv, Fits, Cycle
<1>3. At(-2)' = b /\ At(-1)' = c /\ At(0)' = d /\ At(1)' = e /\ At(2)' = n
  BY <1>1, <1>2 DEF Seen, At, Reach
<1>4. /\ b = At(-1) /\ c = At(0) /\ d = At(1) /\ e = At(2)
      /\ Follows(c, d) /\ d \in InputCycle
  BY <1>1 DEF Seen
<1>5. kernel \in AllKernels
  BY KernelRoomy DEF IInv
<1>6. owed' = Rest \o Owes(n)
  <2>1. owed' = (IF Out.valid /\ owed # <<>> THEN Tail(owed) ELSE owed) \o Owes(n)
    BY DEF Fits, Cycle
  <2>2. (IF Out.valid /\ owed # <<>> THEN Tail(owed) ELSE owed) = Rest
    BY OwedSplits
  <2> QED
    BY <2>1, <2>2
<1>7. Pending' = Rest \o Owes(n)
  <2>1. /\ Owes(At(0))' = Owes(d) /\ Owes(At(1))' = Owes(e) /\ Owes(At(2))' = Owes(n)
    BY <1>2, <1>3 DEF Owes, TxHeader, HeaderWords
  <2> QED
    BY <1>2, <1>3, <1>4, <1>5, <2>1 DEF Pending, Rest, AllKernels, RxKernels, TxKernels
<1>8. HeldInv'
  <2>1. ASSUME kernel' \in TxKernels, c.valid, d.valid, ~d.sof PROVE held' = TxHeader(At(0))'
    <3>1. held' = TxHeader(d)
      BY <1>1, <1>2, <2>1, TxMeta DEF Fits, Cycle, IInv
    <3>2. TxHeader(At(0))' = TxHeader(d)
      BY <1>2, <1>3 DEF TxHeader, HeaderWords
    <3> QED
      BY <3>1, <3>2
  <2> QED
    BY <1>3, <2>1 DEF HeldInv
<1> QED
  BY <1>2, <1>6, <1>7, <1>8 DEF IInv

LEMMA NextInv ==
  ASSUME RoomForMetadata, IInv, [Next]_vars
  PROVE  IInv'
<1>1. CASE Next
  <2>1. PICK n : Fits(n)
    BY <1>1, NextFits DEF IInv
  <2> QED
    BY <2>1, CycleInv
<1>2. CASE UNCHANGED vars
  <2>1. kernel' = kernel /\ window' = window /\ held' = held /\ owed' = owed
    BY <1>2 DEF vars
  <2>2. WindowInv'
    BY <2>1 DEF IInv, WindowInv, WellFormed, Follows, Quiet, Gap
  <2>3. HeldInv'
    BY <2>1 DEF IInv, HeldInv, At, TxHeader, HeaderWords
  <2>4. Pending' = Pending
    BY <2>1 DEF Pending, At, Owes, TxHeader, HeaderWords
  <2> QED
    BY <2>1, <2>2, <2>3, <2>4 DEF IInv
<1> QED
  BY <1>1, <1>2

LEMMA InvImplies ==
  ASSUME RoomForMetadata, IInv
  PROVE  OutputIsFrames /\ NoHoleInFrame /\ NothingLeftBehind
<1>1. OutputIsFrames
  BY OwedSplits DEF OutputIsFrames
<1>2. NoHoleInFrame
  BY OwedSplits DEF NoHoleInFrame, StartsAnew
<1>3. ASSUME \A i \in 1 .. Len(window) : ~window[i].valid PROVE owed = <<>>
  <2>1. /\ ~At(-2).valid /\ ~At(-1).valid /\ ~At(0).valid /\ ~At(1).valid /\ ~At(2).valid
    BY <1>3 DEF IInv, WindowInv, At, Reach
  <2>2. ~At(-1).sof
    <3>1. PICK a, b, c, d, e : Seen(a, b, c, d, e)
      BY SeeCycles DEF IInv
    <3> QED
      BY <2>1, <3>1 DEF Seen, WellFormed
  <2>3. /\ DataWord(At(-2)) = <<>> /\ DataWord(At(-1)) = <<>> /\ DataWord(At(0)) = <<>>
        /\ AfterFirst(At(-1)) = <<>> \o <<>>
        /\ Owes(At(0)) = <<>> /\ Owes(At(1)) = <<>> /\ Owes(At(2)) = <<>>
    BY <2>1, <2>2 DEF DataWord, AfterFirst, SecondHeader, Maybe, Owes
  <2>4. <<>> \o <<>> = <<>>
    BY ThenFacts DEF Then
  <2>5. kernel \in AllKernels
    BY KernelRoomy DEF IInv
  <2> QED
    BY <2>3, <2>4, <2>5 DEF IInv, Pending, AllKernels, RxKernels, TxKernels
<1> QED
  BY <1>1, <1>2, <1>3 DEF NothingLeftBehind

-----------------------------------------------------------------------------
\* Whatever the frames' lengths, sockets and distances, each of the eight
\* kernels puts out the words that the frames call for, in order, with their
\* metadata, and nothing else, as long as there is room for the metadata.
THEOREM KernelsPutOutFrames ==
  ASSUME RoomForMetadata
  PROVE  Spec => []OutputIsFrames
<1>1. Spec => []IInv
  BY InitInv, NextInv, PTL DEF Spec
<1>2. IInv => OutputIsFrames
  BY InvImplies
<1> QED
  BY <1>1, <1>2, PTL

\* Under the same condition a frame that has been started is put out in
\* consecutive cycles.
THEOREM KernelsLeaveNoHole ==
  ASSUME RoomForMetadata
  PROVE  Spec => []NoHoleInFrame
<1>1. Spec => []IInv
  BY InitInv, NextInv, PTL DEF Spec
<1>2. IInv => NoHoleInFrame
  BY InvImplies
<1> QED
  BY <1>1, <1>2, PTL

\* And the last word of a frame does not wait for the next frame.
THEOREM KernelsFinishFrames ==
  ASSUME RoomForMetadata
  PROVE  Spec => []NothingLeftBehind
<1>1. Spec => []IInv
  BY InitInv, NextInv, PTL DEF Spec
<1>2. IInv => NothingLeftBehind
  BY InvImplies
<1> QED
  BY <1>1, <1>2, PTL
===============================================================================
