---------------------------- MODULE EchoHostProofs ----------------------------
(***************************************************************************)
(* Proofs about the echo hosts, for every number of slots and of sockets.  *)
(*                                                                         *)
(* The argument.  At most Slots frames are in a ring, so a new frame goes  *)
(* to a slot that none of them is in (SlotsDiffer); between the copy and   *)
(* the end of the turn the frame at hand is the first of the rx ring and   *)
(* there is room in the tx ring (Turn).  The TCP programs copy a frame     *)
(* within one buffer: what is written is what the slot holds, because as   *)
(* many frames have been echoed as have been discarded (InStep).           *)
(***************************************************************************)
EXTENDS EchoHost, SequenceTheorems, TLAPS

Frame == Nat \X Nat
SlotNumbers == 0 .. Slots - 1
Labels == {"unirx_init", "unitx_init", "unirx_open", "unitx_open", "bind",
           "init_sockets", "connect", "await", "setup", "top", "acquire", "read",
           "copy", "write", "discard", "check", "done", "exited"}

TypeOK ==
  /\ program \in UdpPrograms \cup TcpPrograms /\ pc \in Labels
  /\ rx \in Seq(Frame) /\ tx \in Seq(Frame)
  /\ received \in Nat /\ written \in Nat
  /\ memory \in [Buffers -> [SlotNumbers -> Frame \cup {NoFrame}]]

Room ==
  /\ Len(rx) <= Slots /\ Len(rx) <= received
  /\ Len(tx) <= Slots /\ Len(tx) <= written

\* Where the host is in its turn, as long as the program is in its loop.
Turn ==
  /\ pc \in {"copy", "write", "discard"} \/ (IsTcp /\ pc = "acquire") => rx # <<>>
  /\ pc \in {"read", "copy", "write"} => Len(tx) < Slots
  /\ pc = "read" => ~IsTcp

InStep == written = FirstRx + (IF pc = "discard" THEN 1 ELSE 0)

\* What the host has copied is in the slot that it gives to the tx stream.
Copied ==
  program \in UdpPrograms /\ pc = "write" =>
    memory["tx_buffer"][Slot(written)] = Head(rx)

IInv == /\ TypeOK /\ Room /\ Turn /\ InStep /\ Copied
        /\ ReceivedIntact /\ UdpEchoIntact

USE ProgramAssumption, RemoteAssumption, SlotAssumption

-----------------------------------------------------------------------------
\* The slots of frames that are in a ring at the same time are different.

LEMMA Division ==
  ASSUME NEW a \in Nat
  PROVE  /\ a = (Slots * (a \div Slots)) + (a % Slots)
         /\ a \div Slots \in Int /\ a % Slots \in SlotNumbers
  BY DEF SlotNumbers

LEMMA NoMultipleBetween ==
  ASSUME NEW q \in Int, NEW r \in Int, Slots * r - Slots * q > 0, Slots * r - Slots * q < Slots
  PROVE  FALSE
<1>1. Slots * (r - q) = Slots * r - Slots * q
  OBVIOUS
<1>2. CASE r - q > 0
  <2>1. r - q >= 1
    BY <1>2
  <2>2. Slots * (r - q) >= Slots * 1
    BY <2>1
  <2> QED BY <1>1, <2>2
<1>3. CASE r - q <= 0
  <2>1. Slots * (r - q) <= Slots * 0
    BY <1>3
  <2> QED BY <1>1, <2>1
<1> QED BY <1>2, <1>3

LEMMA SlotsDiffer ==
  ASSUME NEW a \in Nat, NEW b \in Nat, a < b, b < a + Slots
  PROVE  Slot(a) # Slot(b)
<1> SUFFICES ASSUME a % Slots = b % Slots PROVE FALSE
  BY DEF Slot
<1> DEFINE q == a \div Slots
           r == b \div Slots
           x == a % Slots
<1>1. a = (Slots * q) + x /\ b = (Slots * r) + x /\ q \in Int /\ r \in Int /\ x \in Int
  BY Division DEF SlotNumbers
<1>2. Slots * r \in Int /\ Slots * q \in Int
  BY <1>1
<1> HIDE DEF q, r, x
<1>3. Slots * r - Slots * q > 0 /\ Slots * r - Slots * q < Slots
  BY <1>1, <1>2
<1> QED BY <1>1, <1>3, NoMultipleBetween

LEMMA SlotInRange == \A n \in Nat : Slot(n) \in SlotNumbers
  BY Division DEF Slot

\* What a store changes, and what it does not.
LEMMA Store ==
  ASSUME TypeOK, NEW b \in Buffers, NEW n \in SlotNumbers, NEW f \in Frame \cup {NoFrame},
         memory' = [memory EXCEPT ![b][n] = f]
  PROVE  /\ memory' \in [Buffers -> [SlotNumbers -> Frame \cup {NoFrame}]]
         /\ memory'[b][n] = f
         /\ \A c \in Buffers, m \in SlotNumbers :
              c # b \/ m # n => memory'[c][m] = memory[c][m]
  BY DEF TypeOK

LEMMA FirstFrame ==
  ASSUME NEW S, NEW s \in Seq(S), s # <<>>
  PROVE  /\ Head(s) = s[1] /\ Head(s) \in S /\ Tail(s) \in Seq(S)
         /\ Len(s) \in Nat \ {0} /\ Len(Tail(s)) = Len(s) - 1
         /\ \A i \in 1 .. Len(Tail(s)) : Tail(s)[i] = s[i + 1]
  OBVIOUS

LEMMA LastFrame ==
  ASSUME NEW S, NEW s \in Seq(S), NEW e \in S
  PROVE  /\ Append(s, e) \in Seq(S) /\ Append(s, e) # <<>>
         /\ Len(s) \in Nat /\ Len(Append(s, e)) = Len(s) + 1
         /\ \A i \in 1 .. Len(s) : Append(s, e)[i] = s[i]
         /\ Append(s, e)[Len(s) + 1] = e
         /\ s # <<>> => Head(Append(s, e)) = Head(s)
<1>1. Append(s, e) # <<>>
  <2>1. Len(Append(s, e)) = Len(s) + 1 /\ Len(s) \in Nat /\ Len(<<>>) = 0
    OBVIOUS
  <2> QED BY <2>1
<1> QED BY <1>1

-----------------------------------------------------------------------------
\* Where nothing happens to the rings.

Still == Start \/ Poll \/ Acquire \/ Read \/ Check

LEMMA StillStep ==
  ASSUME IInv, Still
  PROVE  IInv'
<1> USE DEF IInv
<1>1. UNCHANGED <<program, rings>>
  BY Zenon DEF Still, Start, OpenStreams, Bind, InitSockets, Connect, Await, Setup, Goto,
               Poll, Acquire, Read, Check, Look
<1>2. pc' \in Labels /\ pc' \notin {"write", "discard"} /\ pc # "discard"
  BY DEF Still, Start, OpenStreams, Bind, InitSockets, Connect, Await, Setup, Goto, NextCall,
         Poll, Acquire, Read, Check, Look, Labels, TypeOK
<1>3. TypeOK'
  BY <1>1, <1>2, Zenon DEF TypeOK, rings
<1>4. Room' /\ ReceivedIntact' /\ UdpEchoIntact'
  BY <1>1, Zenon DEF Room, ReceivedIntact, UdpEchoIntact, EchoIntact, rings, FirstRx, FirstTx
<1>5. InStep' /\ Copied'
  BY <1>1, <1>2 DEF InStep, Copied, rings, FirstRx
<1>6. Turn'
  BY <1>1 DEF Still, Start, OpenStreams, Bind, InitSockets, Connect, Await, Setup, Goto, NextCall,
         Poll, Acquire, Read, Check, Look, Turn, rings, IsTcp, TypeOK
<1> QED BY <1>3, <1>4, <1>5, <1>6

LEMMA NoStep ==
  ASSUME IInv, UNCHANGED <<program, pc, rings>>
  PROVE  IInv'
  BY Zenon DEF IInv, TypeOK, Room, Turn, InStep, Copied, ReceivedIntact, UdpEchoIntact,
        EchoIntact, rings, FirstRx, FirstTx, IsTcp

LEMMA InStepBeforeDiscard ==
  ASSUME TypeOK, InStep, pc # "discard"
  PROVE  written = FirstRx
<1>1. FirstRx \in Int
  BY DEF FirstRx, TypeOK
<1> QED BY <1>1 DEF InStep

-----------------------------------------------------------------------------
\* The host copies a frame, hands it over and gives its slot back.

LEMMA CopyStep ==
  ASSUME IInv, Copy
  PROVE  IInv'
<1> USE DEF IInv
<1>1. pc = "copy" /\ pc' = "write" /\ UNCHANGED <<program, rx, tx, received, written>>
  BY DEF Copy
<1>2. rx # <<>> /\ Len(tx) < Slots /\ written = FirstRx
  BY <1>1, InStepBeforeDiscard DEF Turn
<1>3. /\ Head(rx) = rx[1] /\ Head(rx) \in Frame /\ Len(rx) \in Nat \ {0}
      /\ Len(tx) \in Nat /\ written \in Nat
  BY <1>2, FirstFrame DEF TypeOK
<1>4. RxFrame = Head(rx)
  <2>1. FirstRx + 1 - 1 = FirstRx
    BY <1>2, <1>3
  <2>2. 1 \in 1 .. Len(rx)
    BY <1>3
  <2> QED BY <1>3, <2>1, <2>2, Zenon DEF ReceivedIntact, RxFrame
<1> DEFINE b == TxBuffer(program)
           n == Slot(written)
<1>5. n \in SlotNumbers /\ b \in Buffers
  BY <1>3, SlotInRange DEF TxBuffer, Buffers
<1>6. memory' = [memory EXCEPT ![b][n] = Head(rx)]
  BY <1>4, Zenon DEF Copy
<1> HIDE DEF b, n
<1>7. /\ memory' \in [Buffers -> [SlotNumbers -> Frame \cup {NoFrame}]]
      /\ memory'[b][n] = Head(rx)
      /\ \A c \in Buffers, m \in SlotNumbers : c # b \/ m # n => memory'[c][m] = memory[c][m]
  <2>1. Head(rx) \in Frame \cup {NoFrame}
    BY <1>3
  <2>2. TypeOK
    OBVIOUS
  <2> HIDE DEF IInv
  <2> QED BY <1>5, <1>6, <2>1, <2>2, Store, ZenonT(60)
<1>8. TypeOK'
  BY <1>1, <1>7, Zenon DEF TypeOK, Labels
<1>9. Room' /\ Turn' /\ InStep'
  <2>1. Room'
    BY <1>1, Zenon DEF Room
  <2>2. Turn'
    BY <1>1, <1>2 DEF Turn
  <2>3. InStep'
    BY <1>1, <1>2, <1>3 DEF InStep, FirstRx
  <2> QED BY <2>1, <2>2, <2>3
<1>10. Copied'
  <2>1. program \in UdpPrograms => b = "tx_buffer"
    BY DEF b, TxBuffer, UdpPrograms, TcpPrograms
  <2> QED BY <1>1, <1>7, <2>1, Zenon DEF Copied, n
<1>11. ReceivedIntact'
  <2> SUFFICES ASSUME NEW i \in 1 .. Len(rx)
               PROVE  memory'["rx_buffer"][Slot(FirstRx + i - 1)] = rx[i]
    BY <1>1, Zenon DEF ReceivedIntact, FirstRx
  <2>1. FirstRx + i - 1 \in Nat
    BY <1>2, <1>3
  <2>2. Slot(FirstRx + i - 1) \in SlotNumbers /\ "rx_buffer" \in Buffers
    BY <2>1, SlotInRange DEF Buffers
  <2>3. memory["rx_buffer"][Slot(FirstRx + i - 1)] = rx[i]
    BY Zenon DEF ReceivedIntact
  <2>4. CASE Slot(FirstRx + i - 1) = n /\ b = "rx_buffer"
    <3>1. memory["rx_buffer"][n] = Head(rx)
      BY <1>2, <1>4, Zenon DEF n, RxFrame
    <3> QED BY <1>7, <2>3, <2>4, <3>1, Zenon
  <2>5. CASE ~(Slot(FirstRx + i - 1) = n /\ b = "rx_buffer")
    BY <1>7, <2>2, <2>3, <2>5, Zenon
  <2> QED BY <2>4, <2>5
<1>12. UdpEchoIntact'
  <2> SUFFICES ASSUME program \in UdpPrograms, NEW i \in 1 .. Len(tx)
               PROVE  memory'[b][Slot(FirstTx + i - 1)] = tx[i]
    BY <1>1, Zenon DEF UdpEchoIntact, EchoIntact, FirstTx, b
  <2>1. memory[b][Slot(FirstTx + i - 1)] = tx[i]
    BY Zenon DEF UdpEchoIntact, EchoIntact, b
  <2>2. /\ FirstTx + i - 1 \in Nat /\ FirstTx + i - 1 < written
        /\ written < FirstTx + i - 1 + Slots
    BY <1>2, <1>3 DEF FirstTx, Room
  <2>3. Slot(FirstTx + i - 1) # n /\ Slot(FirstTx + i - 1) \in SlotNumbers
    BY <1>3, <2>2, SlotsDiffer, SlotInRange DEF n
  <2> QED BY <1>5, <1>7, <2>1, <2>3, Zenon
<1> QED BY <1>8, <1>9, <1>10, <1>11, <1>12

LEMMA WriteStep ==
  ASSUME IInv, Write
  PROVE  IInv'
<1> USE DEF IInv
<1>1. /\ pc = "write" /\ pc' = "discard" /\ UNCHANGED <<program, rx, received, memory>>
      /\ written' = written + 1 /\ tx' = Append(tx, Head(rx))
  BY DEF Write
<1>2. rx # <<>> /\ Len(tx) < Slots /\ written = FirstRx
  BY <1>1, InStepBeforeDiscard DEF Turn
<1>3. /\ Head(rx) \in Frame /\ rx \in Seq(Frame) /\ Len(rx) \in Nat
      /\ tx \in Seq(Frame) /\ written \in Nat /\ received \in Nat
  BY <1>2, FirstFrame DEF TypeOK
<1>4. /\ tx' \in Seq(Frame) /\ Len(tx) \in Nat /\ Len(tx') = Len(tx) + 1
      /\ \A i \in 1 .. Len(tx) : tx'[i] = tx[i]
      /\ tx'[Len(tx) + 1] = Head(rx)
  BY <1>1, <1>3, LastFrame
<1>5. TypeOK'
  <2>1. written' \in Nat /\ pc' \in Labels
    BY <1>1, <1>3 DEF Labels
  <2> QED BY <1>1, <1>4, <2>1, Zenon DEF TypeOK
<1>6. Room' /\ Turn' /\ InStep' /\ Copied'
  <2>1. Room'
    BY <1>1, <1>2, <1>3, <1>4 DEF Room
  <2>2. Turn'
    BY <1>1, <1>2 DEF Turn
  <2>3. InStep'
    BY <1>1, <1>2, <1>3 DEF InStep, FirstRx
  <2>4. Copied'
    BY <1>1 DEF Copied
  <2> QED BY <2>1, <2>2, <2>3, <2>4
<1>7. ReceivedIntact'
  BY <1>1, Zenon DEF ReceivedIntact, FirstRx
<1>8. UdpEchoIntact'
  <2> SUFFICES ASSUME program \in UdpPrograms, NEW i \in 1 .. Len(tx) + 1
               PROVE  memory[TxBuffer(program)][Slot(FirstTx + i - 1)] = tx'[i]
    <3>1. FirstTx' = FirstTx
      BY <1>1, <1>3, <1>4 DEF FirstTx
    <3> QED BY <1>1, <1>4, <3>1, Zenon DEF UdpEchoIntact, EchoIntact
  <2>1. CASE i \in 1 .. Len(tx)
    BY <1>4, <2>1, Zenon DEF UdpEchoIntact, EchoIntact
  <2>2. CASE i = Len(tx) + 1
    <3>1. FirstTx + i - 1 = written
      BY <1>3, <1>4, <2>2 DEF FirstTx
    <3>2. TxBuffer(program) = "tx_buffer"
      BY DEF TxBuffer, UdpPrograms, TcpPrograms
    <3> QED BY <1>1, <1>4, <2>2, <3>1, <3>2, Zenon DEF Copied
  <2> QED BY <1>4, <2>1, <2>2
<1> QED BY <1>5, <1>6, <1>7, <1>8

LEMMA DiscardStep ==
  ASSUME IInv, Discard
  PROVE  IInv'
<1> USE DEF IInv
<1>1. /\ pc = "discard" /\ pc' \in {"check", "top"} /\ rx' = Tail(rx)
      /\ UNCHANGED <<program, tx, received, written, memory>>
  BY DEF Discard
<1>2. rx # <<>> /\ rx \in Seq(Frame) /\ received \in Nat /\ written \in Nat
  BY <1>1 DEF Turn, TypeOK
<1>3. /\ rx' \in Seq(Frame) /\ Len(rx) \in Nat \ {0} /\ Len(rx') = Len(rx) - 1
      /\ \A i \in 1 .. Len(rx') : rx'[i] = rx[i + 1]
  BY <1>1, <1>2, FirstFrame
<1>4. FirstRx' = FirstRx + 1 /\ FirstRx \in Int
  BY <1>1, <1>2, <1>3 DEF FirstRx
<1>5. TypeOK'
  <2>1. pc' \in Labels
    BY <1>1 DEF Labels
  <2> QED BY <1>1, <1>3, <2>1, Zenon DEF TypeOK
<1>6. Room' /\ Turn' /\ InStep' /\ Copied'
  <2>1. Room'
    BY <1>1, <1>2, <1>3 DEF Room
  <2>2. Turn' /\ Copied'
    BY <1>1 DEF Turn, Copied
  <2>3. InStep'
    BY <1>1, <1>2, <1>4 DEF InStep
  <2> QED BY <2>1, <2>2, <2>3
<1>7. ReceivedIntact'
  <2> SUFFICES ASSUME NEW i \in 1 .. Len(rx')
               PROVE  memory["rx_buffer"][Slot(FirstRx' + i - 1)] = rx'[i]
    BY <1>1, Zenon DEF ReceivedIntact
  <2>1. i + 1 \in 1 .. Len(rx) /\ FirstRx' + i - 1 = FirstRx + (i + 1) - 1
    BY <1>3, <1>4
  <2> QED BY <1>3, <2>1, Zenon DEF ReceivedIntact
<1>8. UdpEchoIntact'
  BY <1>1, Zenon DEF UdpEchoIntact, EchoIntact, FirstTx
<1> QED BY <1>5, <1>6, <1>7, <1>8

-----------------------------------------------------------------------------
\* The engine.

LEMMA ReceiveStep ==
  ASSUME IInv, NEW s \in Sockets, Receive(s)
  PROVE  IInv'
<1> USE DEF IInv
<1> DEFINE f == <<s, received>>
<1>1. /\ Len(rx) < Slots /\ rx' = Append(rx, f) /\ received' = received + 1
      /\ memory' = [memory EXCEPT !["rx_buffer"][Slot(received)] = f]
      /\ UNCHANGED <<program, pc, tx, written>>
  BY Zenon DEF Receive
<1>2. f \in Frame /\ rx \in Seq(Frame) /\ received \in Nat /\ written \in Nat /\ Len(tx) \in Nat
  <2>1. s \in Nat
    BY DEF Sockets
  <2> QED BY <2>1 DEF Frame, TypeOK
<1> HIDE DEF f
<1>3. /\ rx' \in Seq(Frame) /\ rx' # <<>> /\ Len(rx) \in Nat /\ Len(rx') = Len(rx) + 1
      /\ \A i \in 1 .. Len(rx) : rx'[i] = rx[i]
      /\ rx'[Len(rx) + 1] = f
      /\ rx # <<>> => Head(rx') = Head(rx)
  BY <1>1, <1>2, LastFrame
<1>4. Slot(received) \in SlotNumbers /\ "rx_buffer" \in Buffers /\ "tx_buffer" \in Buffers
  BY <1>2, SlotInRange DEF Buffers
<1>5. /\ memory' \in [Buffers -> [SlotNumbers -> Frame \cup {NoFrame}]]
      /\ memory'["rx_buffer"][Slot(received)] = f
      /\ \A m \in SlotNumbers : m # Slot(received) =>
           memory'["rx_buffer"][m] = memory["rx_buffer"][m]
      /\ \A m \in SlotNumbers : memory'["tx_buffer"][m] = memory["tx_buffer"][m]
  <2>1. "rx_buffer" # "tx_buffer"
    OBVIOUS
  <2> DEFINE n == Slot(received)
  <2>2. n \in SlotNumbers /\ memory' = [memory EXCEPT !["rx_buffer"][n] = f]
    BY <1>1, <1>4, Zenon
  <2>3. f \in Frame \cup {NoFrame}
    BY <1>2
  <2>5. TypeOK
    OBVIOUS
  <2> HIDE DEF n, IInv
  <2>4. /\ memory' \in [Buffers -> [SlotNumbers -> Frame \cup {NoFrame}]]
        /\ memory'["rx_buffer"][n] = f
        /\ \A c \in Buffers, m \in SlotNumbers :
             c # "rx_buffer" \/ m # n => memory'[c][m] = memory[c][m]
    BY <1>4, <2>2, <2>3, <2>5, Store, ZenonT(60)
  <2> QED BY <1>4, <2>1, <2>4, Zenon DEF n
<1>6. FirstRx' = FirstRx /\ FirstRx \in Nat
  BY <1>1, <1>2, <1>3 DEF FirstRx, Room
<1>7. TypeOK'
  <2>1. received' \in Nat
    BY <1>1, <1>2
  <2> QED BY <1>1, <1>3, <1>5, <2>1, Zenon DEF TypeOK
<1>8. Room' /\ Turn' /\ InStep'
  <2>1. Room'
    BY <1>1, <1>2, <1>3 DEF Room
  <2>2. Turn'
    BY <1>1, <1>3, Zenon DEF Turn, IsTcp
  <2>3. InStep'
    BY <1>1, <1>6, Zenon DEF InStep
  <2> QED BY <2>1, <2>2, <2>3
<1>9. Copied'
  <2> SUFFICES ASSUME program \in UdpPrograms, pc = "write"
               PROVE  memory'["tx_buffer"][Slot(written)] = Head(rx')
    BY <1>1, Zenon DEF Copied
  <2>1. rx # <<>>
    BY DEF Turn
  <2> QED BY <1>2, <1>3, <1>5, <2>1, SlotInRange, Zenon DEF Copied
<1>10. ReceivedIntact'
  <2> SUFFICES ASSUME NEW i \in 1 .. Len(rx) + 1
               PROVE  memory'["rx_buffer"][Slot(FirstRx + i - 1)] = rx'[i]
    BY <1>3, <1>6, Zenon DEF ReceivedIntact
  <2>1. CASE i \in 1 .. Len(rx)
    <3>1. /\ FirstRx + i - 1 \in Nat /\ FirstRx + i - 1 < received
          /\ received < FirstRx + i - 1 + Slots
      BY <1>1, <1>2, <1>3, <1>6, <2>1, SMTT(40) DEF FirstRx
    <3>2. Slot(FirstRx + i - 1) # Slot(received) /\ Slot(FirstRx + i - 1) \in SlotNumbers
      BY <1>2, <3>1, SlotsDiffer, SlotInRange
    <3> QED BY <1>3, <1>5, <2>1, <3>2, Zenon DEF ReceivedIntact
  <2>2. CASE i = Len(rx) + 1
    <3>1. FirstRx + i - 1 = received
      BY <1>2, <1>3, <2>2 DEF FirstRx
    <3> QED BY <1>3, <1>5, <2>2, <3>1, Zenon
  <2> QED BY <1>3, <2>1, <2>2
<1>11. UdpEchoIntact'
  <2> SUFFICES ASSUME program \in UdpPrograms, NEW i \in 1 .. Len(tx)
               PROVE  memory'["tx_buffer"][Slot(FirstTx + i - 1)] = tx[i]
    <3>1. program \in UdpPrograms => TxBuffer(program) = "tx_buffer"
      BY DEF TxBuffer, UdpPrograms, TcpPrograms
    <3> QED BY <1>1, <3>1, Zenon DEF UdpEchoIntact, EchoIntact, FirstTx
  <2>1. memory["tx_buffer"][Slot(FirstTx + i - 1)] = tx[i]
    <3>1. TxBuffer(program) = "tx_buffer"
      BY DEF TxBuffer, UdpPrograms, TcpPrograms
    <3> QED BY <3>1, Zenon DEF UdpEchoIntact, EchoIntact
  <2>2. FirstTx + i - 1 \in Nat
    BY <1>2 DEF FirstTx, Room
  <2> QED BY <1>5, <2>1, <2>2, SlotInRange, Zenon
<1> QED BY <1>7, <1>8, <1>9, <1>10, <1>11

LEMMA TransmitStep ==
  ASSUME IInv, Transmit
  PROVE  IInv'
<1> USE DEF IInv
<1>1. /\ tx # <<>> /\ tx' = Tail(tx)
      /\ UNCHANGED <<program, pc, rx, received, written, memory>>
  BY DEF Transmit
<1>2. tx \in Seq(Frame) /\ written \in Nat
  BY DEF TypeOK
<1>3. /\ tx' \in Seq(Frame) /\ Len(tx) \in Nat \ {0} /\ Len(tx') = Len(tx) - 1
      /\ \A i \in 1 .. Len(tx') : tx'[i] = tx[i + 1]
  BY <1>1, <1>2, FirstFrame
<1>4. TypeOK'
  BY <1>1, <1>3, Zenon DEF TypeOK
<1>5. Room' /\ Turn' /\ InStep' /\ Copied' /\ ReceivedIntact'
  <2>1. Room'
    BY <1>1, <1>2, <1>3 DEF Room
  <2>2. Turn'
    BY <1>1, <1>3 DEF Turn, IsTcp
  <2>3. InStep' /\ Copied' /\ ReceivedIntact'
    BY <1>1, Zenon DEF InStep, Copied, ReceivedIntact, FirstRx
  <2> QED BY <2>1, <2>2, <2>3
<1>6. UdpEchoIntact'
  <2> SUFFICES ASSUME program \in UdpPrograms, NEW i \in 1 .. Len(tx')
               PROVE  memory[TxBuffer(program)][Slot(FirstTx' + i - 1)] = tx'[i]
    BY <1>1, Zenon DEF UdpEchoIntact, EchoIntact
  <2>1. i + 1 \in 1 .. Len(tx) /\ FirstTx' + i - 1 = FirstTx + (i + 1) - 1
    BY <1>1, <1>2, <1>3 DEF FirstTx
  <2> QED BY <1>3, <2>1, Zenon DEF UdpEchoIntact, EchoIntact
<1> QED BY <1>4, <1>5, <1>6

-----------------------------------------------------------------------------
\* The inductive invariant.

LEMMA InitIInv == Init => IInv
<1> SUFFICES ASSUME Init PROVE IInv
  OBVIOUS
<1>1. /\ program \in UdpPrograms \cup TcpPrograms
      /\ pc \in {"unirx_init", "bind", "init_sockets"}
  BY DEF Init, FirstCall, UdpPrograms, TcpPrograms
<1>2. rx = <<>> /\ tx = <<>> /\ received = 0 /\ written = 0
  BY DEF Init
<1>3. memory \in [Buffers -> [SlotNumbers -> Frame \cup {NoFrame}]]
  BY DEF Init, SlotNumbers
<1>4. TypeOK
  BY <1>1, <1>2, <1>3 DEF TypeOK, Labels
<1>5. Room /\ Turn /\ InStep /\ Copied
  BY <1>1, <1>2 DEF Room, Turn, InStep, Copied, FirstRx
<1>6. ReceivedIntact /\ UdpEchoIntact
  BY <1>2 DEF ReceivedIntact, UdpEchoIntact, EchoIntact
<1> QED BY <1>4, <1>5, <1>6 DEF IInv

LEMMA StepIInv == IInv /\ [Next]_vars => IInv'
<1> SUFFICES ASSUME IInv, [Next]_vars PROVE IInv'
  OBVIOUS
<1>1. CASE Host
  BY <1>1, StillStep, CopyStep, WriteStep, DiscardStep, Zenon DEF Host, Still
<1>2. CASE Transmit
  BY <1>2, TransmitStep
<1>3. CASE \E s \in Sockets : Receive(s)
  BY <1>3, ReceiveStep, Zenon
<1>4. CASE \E s \in Sockets : ComesUp(s) \/ Drops(s)
  BY <1>4, NoStep, Zenon DEF ComesUp, Drops, Becomes
<1>5. CASE UNCHANGED vars
  BY <1>5, NoStep, Zenon DEF vars
<1> QED BY <1>1, <1>2, <1>3, <1>4, <1>5, Zenon DEF Next

LEMMA Inductive == Spec => []IInv
<1>1. IInv /\ [Next]_vars => IInv'
  BY StepIInv
<1> QED BY <1>1, InitIInv, PTL DEF Spec

-----------------------------------------------------------------------------
\* No frame is overwritten, by the engine or by an echo, before it has been
\* echoed: in the programs with one buffer (tcpoffload.c:153) as in those with
\* two.
THEOREM ReceivedSafe == Spec => []ReceivedIntact
<1>1. IInv => ReceivedIntact
  BY DEF IInv
<1> QED BY <1>1, Inductive, PTL

\* What the UDP programs send is what they received: a slot that still waits
\* to be sent is never written again.
THEOREM UdpEchoSafe == Spec => []UdpEchoIntact
<1>1. IInv => UdpEchoIntact
  BY DEF IInv
<1> QED BY <1>1, Inductive, PTL
=============================================================================
