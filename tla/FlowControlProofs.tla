-------------------------- MODULE FlowControlProofs --------------------------
(***************************************************************************)
(* Proofs about the flow control kernels, for every length of the          *)
(* pipeline and of the stall path.                                         *)
(*                                                                         *)
(* The argument.  The occupancy grows by at most one a cycle, so if the    *)
(* output was not stalled j cycles ago the buffer is at most j words above *)
(* its level (RoomInv).  A word that is put out cannot be too long after   *)
(* such a cycle: it entered the pipeline when the source still saw no      *)
(* stall, and the pipeline has moved ever since (FlowInv) -- unless it was *)
(* frozen, and a frozen pipeline only moves when a word comes in.          *)
(***************************************************************************)
EXTENDS FlowControl, TLAPS

Line == Delay + Stages

\* A cycle without stall is not long ago, for what is in the pipeline.
Recent(n) == \E j \in 0 .. n : ~Stalled(j)

RoomInv == \A j \in 0 .. Line : ~Stalled(j) => occupancy < ProgFull + j
FullInv == occupancy <= ProgFull + Line
FreeRunning == kernel = "StallLatency" \/ Finished
FlowInv ==
  FreeRunning => \A i \in 1 .. Stages : stage[i] => Recent(Delay + i)
FrozenInv == kernel = "PipeStall" /\ ~Finished => occupancy <= ProgFull + Delay

IInv == TypeOK /\ RoomInv /\ FullInv /\ FlowInv /\ FrozenInv

USE KernelAssumption, LatencyAssumption, BufferAssumption

LEMMA DelayNat == Delay \in Nat /\ Line \in Nat /\ Delay < Line
  BY DEF Delay, Line

LEMMA TypeInit == Init => TypeOK
  BY DelayNat DEF Init, TypeOK, Line

\* The types are kept by every cycle.
LEMMA TypeStep == TypeOK /\ [Next]_vars => TypeOK'
<1> SUFFICES ASSUME TypeOK, [Next]_vars PROVE TypeOK'
  OBVIOUS
<1> USE DelayNat DEF Line
<1>1. CASE UNCHANGED vars
  BY <1>1 DEF TypeOK, vars
<1>2. ASSUME NEW valid \in BOOLEAN, NEW read \in BOOLEAN, Cycle(valid, read)
      PROVE  TypeOK'
  <2>1. stage' \in [1 .. Stages -> BOOLEAN]
    BY <1>2 DEF Cycle, TypeOK
  <2>2. items' \in Nat /\ items' <= NumItems
    BY <1>2 DEF Cycle, Count, Finished, TypeOK
  <2>3. occupancy' \in Nat
    BY <1>2 DEF Cycle, TypeOK
  <2>4. stalls' \in [1 .. Delay + Stages -> BOOLEAN]
    <3>1. ASSUME NEW j \in 1 .. Delay + Stages PROVE Stalled(j - 1) \in BOOLEAN
      <4>1. (occupancy >= ProgFull) \in BOOLEAN
        OBVIOUS
      <4>2. CASE j - 1 = 0
        BY <4>1, <4>2, Zenon DEF Stalled
      <4>3. CASE j - 1 # 0
        <5>1. j - 1 \in 1 .. Delay + Stages
          BY <4>3
        <5>2. stalls[j - 1] \in BOOLEAN
          BY <5>1, Zenon DEF TypeOK
        <5> QED BY <4>3, <5>2, Zenon DEF Stalled
      <4> QED BY <4>2, <4>3
    <3>2. StallLine \in [1 .. Delay + Stages -> BOOLEAN]
      BY <3>1, Zenon DEF StallLine
    <3> QED BY <1>2, <3>2, Zenon DEF Cycle
  <2> QED BY <1>2, <2>1, <2>2, <2>3, <2>4 DEF Cycle, TypeOK
<1> QED BY <1>1, <1>2 DEF Next

\* The stall line moves by one place a cycle.
LEMMA LineMoves ==
  ASSUME TypeOK, NEW valid \in BOOLEAN, NEW read \in BOOLEAN, Cycle(valid, read),
         NEW j \in 1 .. Line
  PROVE  Stalled(j)' = Stalled(j - 1)
BY DelayNat DEF Cycle, StallLine, Stalled, TypeOK, Line

LEMMA RecentMoves ==
  ASSUME TypeOK, NEW valid \in BOOLEAN, NEW read \in BOOLEAN, Cycle(valid, read),
         NEW n \in Nat, n < Line, Recent(n)
  PROVE  Recent(n + 1)'
<1>1. PICK j \in 0 .. n : ~Stalled(j)
  BY DEF Recent
<1>2. j + 1 \in 1 .. Line /\ (j + 1) - 1 = j /\ j + 1 \in 0 .. n + 1
  BY DelayNat
<1>3. ~Stalled(j + 1)'
  BY <1>1, <1>2, LineMoves
<1> QED BY <1>2, <1>3 DEF Recent

\* A recent cycle without stall bounds the occupancy.
LEMMA RecentRoom ==
  ASSUME TypeOK, RoomInv, NEW n \in 0 .. Line, Recent(n)
  PROVE  occupancy < ProgFull + n
<1>1. PICK j \in 0 .. n : ~Stalled(j)
  BY DEF Recent
<1>2. j \in 0 .. Line /\ occupancy < ProgFull + j
  BY <1>1, DelayNat DEF RoomInv
<1> QED BY <1>1, <1>2, DelayNat DEF TypeOK

\* A word is only put out soon after a cycle without stall.
LEMMA OutputRecent ==
  ASSUME TypeOK, FlowInv, NEW valid \in BOOLEAN, valid => MayPush,
         OutputValid(valid)
  PROVE  /\ Recent(Line)
         /\ kernel = "PipeStall" /\ ~Finished => Recent(Delay)
<1>1. CASE FreeRunning
  <2>1. Recent(Delay + Stages)
    BY <1>1 DEF FlowInv, OutputValid
  <2> QED BY <1>1, <2>1 DEF Line, FreeRunning
<1>2. CASE ~FreeRunning
  <2>1. valid
    BY <1>2 DEF OutputValid, StallNow, FreeRunning, TypeOK
  <2>2. ~Stalled(Delay)
    BY <2>1 DEF MayPush
  <2> QED BY <2>2, DelayNat DEF Recent
<1> QED BY <1>1, <1>2

LEMMA InvInit == Init => IInv
<1> SUFFICES ASSUME Init PROVE IInv
  OBVIOUS
<1>1. TypeOK
  BY TypeInit
<1>2. RoomInv /\ FullInv /\ FlowInv /\ FrozenInv
  BY DelayNat DEF Init, RoomInv, FullInv, FlowInv, FrozenInv, Stalled, Line
<1> QED BY <1>1, <1>2 DEF IInv

\* Every cycle keeps the invariant.
LEMMA InvStep == IInv /\ [Next]_vars => IInv'
<1> SUFFICES ASSUME IInv, [Next]_vars PROVE IInv'
  OBVIOUS
<1> USE DelayNat
<1>t. TypeOK'
  BY TypeStep DEF IInv
<1>1. CASE UNCHANGED vars
  BY <1>1, <1>t DEF IInv, RoomInv, FullInv, FlowInv, FrozenInv, Recent, Stalled,
                    FreeRunning, Finished, vars
<1>2. ASSUME NEW valid \in BOOLEAN, NEW read \in BOOLEAN, Cycle(valid, read)
      PROVE  IInv'
  <2>i. TypeOK /\ RoomInv /\ FullInv /\ FlowInv /\ FrozenInv
    BY DEF IInv
  <2>v. valid => MayPush
    BY <1>2 DEF Cycle
  <2>g. occupancy' <= occupancy + 1 /\ occupancy' \in Nat /\ occupancy \in Nat
    BY <1>2, <2>i, <1>t DEF Cycle, TypeOK
  <2>n. ~OutputValid(valid) => occupancy' <= occupancy
    BY <1>2, <2>i DEF Cycle, TypeOK
  <2>1. RoomInv'
    <3> SUFFICES ASSUME NEW j \in 0 .. Line, ~Stalled(j)'
                 PROVE  occupancy' < ProgFull + j
      BY DEF RoomInv, Line, Delay
    <3>1. CASE j = 0
      BY <3>1, <2>g DEF Stalled
    <3>2. CASE j # 0
      <4>1. j \in 1 .. Line /\ j - 1 \in 0 .. Line
        BY <3>2
      <4>2. ~Stalled(j - 1)
        BY <4>1, <1>2, <2>i, LineMoves
      <4>3. occupancy < ProgFull + (j - 1)
        BY <4>1, <4>2, <2>i DEF RoomInv
      <4> QED BY <4>1, <4>3, <2>g
    <3> QED BY <3>1, <3>2
  <2>2. FullInv'
    <3>1. CASE ~OutputValid(valid)
      BY <3>1, <2>n, <2>g, <2>i DEF FullInv, Line, Delay
    <3>2. CASE OutputValid(valid)
      <4>1. Recent(Line)
        BY <3>2, <2>i, <2>v, OutputRecent
      <4>2. occupancy < ProgFull + Line
        BY <4>1, <2>i, RecentRoom
      <4> QED BY <4>2, <2>g DEF FullInv, Line, Delay
    <3> QED BY <3>1, <3>2
  <2>3. FlowInv'
    <3> SUFFICES ASSUME FreeRunning', NEW i \in 1 .. Stages, stage'[i]
                 PROVE  Recent(Delay + i)'
      BY DEF FlowInv, Delay
    <3>0. Delay + i \in Nat /\ (Delay + i) - 1 \in Nat /\ Delay + i <= Line
          /\ (Delay + i) - 1 < Line /\ Delay <= (Delay + i) - 1
      BY DEF Line
    <3>1. CASE ~FreeRunning
      <4>1. valid
        BY <3>1, <1>2, <2>i DEF FreeRunning, Finished, Cycle, Count, TypeOK
      <4>2. Recent((Delay + i) - 1)
        BY <4>1, <2>v, <3>0 DEF Recent, MayPush
      <4> QED BY <4>2, <3>0, <1>2, <2>i, RecentMoves
    <3>2. CASE FreeRunning
      <4>1. ~StallNow(valid)
        BY <3>2 DEF FreeRunning, StallNow
      <4>2. stage'[i] = IF i = 1 THEN valid ELSE stage[i - 1]
        BY <4>1, <1>2 DEF Cycle
      <4>3. Recent((Delay + i) - 1)
        <5>1. CASE i = 1
          BY <5>1, <4>2, <2>v, <3>0 DEF Recent, MayPush
        <5>2. CASE i # 1
          <6>1. i - 1 \in 1 .. Stages /\ stage[i - 1]
            BY <5>2, <4>2
          <6>2. Recent(Delay + (i - 1))
            BY <6>1, <3>2, <2>i DEF FlowInv
          <6>3. Delay + (i - 1) = (Delay + i) - 1
            OBVIOUS
          <6> QED BY <6>2, <6>3
        <5> QED BY <5>1, <5>2
      <4> QED BY <4>3, <3>0, <1>2, <2>i, RecentMoves
    <3> QED BY <3>1, <3>2
  <2>4. FrozenInv'
    <3> SUFFICES ASSUME kernel = "PipeStall", ~Finished'
                 PROVE  occupancy' <= ProgFull + Delay
      BY <1>2 DEF FrozenInv, Cycle, Delay
    <3>1. ~Finished
      BY <1>2, <2>i DEF Cycle, Count, Finished
    <3>2. CASE ~OutputValid(valid)
      BY <3>1, <3>2, <2>n, <2>g, <2>i DEF FrozenInv
    <3>3. CASE OutputValid(valid)
      <4>1. Recent(Delay)
        BY <3>1, <3>3, <2>i, <2>v, OutputRecent
      <4>2. occupancy < ProgFull + Delay
        BY <4>1, <2>i, RecentRoom
      <4> QED BY <4>2, <2>g
    <3> QED BY <3>2, <3>3
  <2> QED BY <1>t, <2>1, <2>2, <2>3, <2>4 DEF IInv
<1> QED BY <1>1, <1>2 DEF Next

LEMMA Invariant == Spec => []IInv
  BY InvInit, InvStep, PTL DEF Spec

\* The state keeps its types, for every length of the paths.
THEOREM FlowTypes == Spec => []TypeOK
<1>1. IInv => TypeOK
  BY DEF IInv
<1> QED BY <1>1, Invariant, PTL

\* The buffer behind either kernel never overflows, whatever the lengths of
\* its pipeline and stall path: StallLatency with the latency it declares,
\* PipeStall with its pipeline on top.
THEOREM FlowNeverOverflows == Spec => []NoOverflow
<1>1. IInv => NoOverflow
  BY DelayNat DEF IInv, FullInv, NoOverflow, OutputStallLatency, Undeclared, Line,
                  TypeOK, Delay
<1> QED BY <1>1, Invariant, PTL

\* PipeStall keeps to the latency it declares until it has seen all its items.
THEOREM PipeStallKeepsLatencyBeforeEnd == Spec => []NoOverflowBeforeEnd
<1>1. IInv => NoOverflowBeforeEnd
  BY DEF IInv, FrozenInv, NoOverflowBeforeEnd
<1> QED BY <1>1, Invariant, PTL

\* Once the output has been stalled for longer than the latency, no cycle adds
\* a word to the buffer.
THEOREM FlowStallStopsOutput == Spec => StallStopsOutput
<1> DEFINE Long == \A j \in 0 .. OutputStallLatency(kernel) + Undeclared(kernel) :
                     Stalled(j)
           Stops == [Long => occupancy' <= occupancy]_vars
<1>1. IInv /\ [Next]_vars => Stops
  <2> SUFFICES ASSUME IInv, Next, Long PROVE occupancy' <= occupancy
    BY DEF Stops
  <2>1. PICK valid \in BOOLEAN, read \in BOOLEAN : Cycle(valid, read)
    BY DEF Next
  <2>2. OutputStallLatency(kernel) + Undeclared(kernel) = Line
    BY DelayNat DEF OutputStallLatency, Undeclared, Line, Delay, IInv, TypeOK
  <2>3. ~Recent(Line)
    BY <2>2 DEF Recent, Long
  <2>4. ~OutputValid(valid)
    BY <2>1, <2>3, OutputRecent DEF IInv, Cycle
  <2> QED BY <2>1, <2>4 DEF Cycle, IInv, TypeOK
<1> QED BY <1>1, Invariant, PTL DEF Spec, StallStopsOutput, Stops, Long
=============================================================================
