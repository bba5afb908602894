--------------------------- MODULE FifoGatewayProofs ---------------------------
(***************************************************************************)
(* Proofs about the hosts of the FIFO gateways, for every number of        *)
(* sockets the engine has and the program is asked for, and every size of  *)
(* the rings.                                                              *)
(*                                                                         *)
(* The argument is about the reports of one socket that the host has not   *)
(* followed yet (Pending, Event).  A connection's first report is of its   *)
(* making and its last of its end (Ordered), because the engine makes no   *)
(* new one before the host has heard of the end of the last and listened   *)
(* again (Listening, Fresh).  So the latest report says where the engine   *)
(* is, but for a close that the host has asked for meanwhile (Latest), and *)
(* the host knows it when no report is pending (Follows).                  *)
(***************************************************************************)
EXTENDS FifoGateway, SequenceTheorems, TLAPS

Labels == {"ReadConstants", "InitTcp", "Listen", "Run", "Exited"}
Messages == [conn : Nat, nr : Nat, parts : Nat]
InboundFrame == [socket : EngineSockets, state : Reports \cup {None},
                 data : Messages \cup {None}]

TypeOK ==
  /\ args \in Arguments /\ pc \in Labels
  /\ numSockets \in 0 .. MAX_SOCKETS /\ opened \in 0 .. numSockets
  /\ tcp \in [EngineSockets -> States] /\ sockets \in [EngineSockets -> Reports]
  /\ conns \in [EngineSockets -> Nat] /\ sent \in [EngineSockets -> Nat]
  /\ toCPU \in Seq(InboundFrame)
  /\ pos \in Nat \cup {None}
  /\ pos # None => toCPU # <<>>

\* The frames whose states the host has not followed yet.
Pending == IF pos = None THEN toCPU ELSE Tail(toCPU)

\* The i-th of them reports a state of s.
Event(i, s) ==
  i \in 1 .. Len(Pending) /\ Pending[i].socket = s /\ Pending[i].state # None

Quiet(s) == \A i \in 1 .. Len(Pending) : ~Event(i, s)

Follows(s) ==
  \/ sockets[s] = tcp[s]
  \/ sockets[s] = "Closed" /\ tcp[s] = "Listen"
  \/ sockets[s] \in {"CloseWait", "ClosedDataPending"} /\ tcp[s] = "LastAck"

\* Where the engine may be after its last report.
After(state) == {state} \cup (IF state \in {"CloseWait", "ClosedDataPending"}
                              THEN {"LastAck"} ELSE {})

Latest(s) ==
  \A i \in 1 .. Len(Pending) :
    Event(i, s) /\ (\A j \in 1 .. Len(Pending) : Event(j, s) => j <= i)
      => tcp[s] \in After(Pending[i].state)

Ordered(s) ==
  \A i, j \in 1 .. Len(Pending) :
    Event(i, s) /\ Event(j, s) /\ i < j =>
      Pending[i].state # "Closed" /\ Pending[j].state # "Established"

Listening(s) == tcp[s] = "Listen" => sockets[s] = "Closed" /\ Quiet(s)

Fresh(s) ==
  tcp[s] = "Established" =>
    \A i \in 1 .. Len(Pending) : Event(i, s) => Pending[i].state = "Established"

Linked(s) == /\ Quiet(s) => Follows(s)
             /\ Latest(s) /\ Ordered(s) /\ Listening(s) /\ Fresh(s)

Unused(s) == sockets[s] = "Closed" /\ tcp[s] = "Closed" /\ Quiet(s)

\* Before the loop a socket that has not been opened yet has done nothing, and
\* before init_tcp none has.
StartInv ==
  /\ pc \in {"ReadConstants", "InitTcp"} =>
       numSockets = 0 /\ opened = 0 /\ toCPU = <<>>
  /\ pc \in {"ReadConstants", "InitTcp", "Listen"} =>
       \A s \in EngineSockets : s >= opened => Unused(s)

\* FixFIFO's host follows every report it gets.
FixInv ==
  args.program = "Fix" =>
    \A i \in 1 .. Len(Pending) : Pending[i].socket \in ValidSockets

LinkInv == \A s \in ValidSockets : Linked(s)

IInv == TypeOK /\ StartInv /\ FixInv /\ LinkInv /\ OutsideUntouched

\* What CallsFitState asks of a step.
CallsFit ==
  \A s \in EngineSockets :
    tcp'[s] # tcp[s] =>
      /\ tcp'[s] = "Listen" => tcp[s] = "Closed"
      /\ tcp'[s] = "LastAck" => tcp[s] \in {"CloseWait", "ClosedDataPending"}

USE SocketAssumption, SizeAssumption, NoneAssumption

-----------------------------------------------------------------------------
\* Facts about sequences and types.

LEMMA FirstFrame ==
  ASSUME NEW S, NEW q \in Seq(S), q # <<>>
  PROVE  /\ Head(q) = q[1] /\ Head(q) \in S /\ Tail(q) \in Seq(S)
         /\ Len(q) \in Nat \ {0} /\ Len(Tail(q)) = Len(q) - 1
         /\ \A i \in 1 .. Len(Tail(q)) : Tail(q)[i] = q[i + 1]
  OBVIOUS

LEMMA LastFrame ==
  ASSUME NEW S, NEW q \in Seq(S), NEW e \in S
  PROVE  /\ Append(q, e) \in Seq(S) /\ Append(q, e) # <<>>
         /\ Len(q) \in Nat /\ Len(Append(q, e)) = Len(q) + 1
         /\ \A i \in 1 .. Len(q) : Append(q, e)[i] = q[i]
         /\ Append(q, e)[Len(q) + 1] = e
         /\ q # <<>> => Tail(Append(q, e)) = Append(Tail(q), e)
<1>1. Append(q, e) # <<>>
  <2>1. Len(Append(q, e)) = Len(q) + 1 /\ Len(q) \in Nat /\ Len(<<>>) = 0
    OBVIOUS
  <2> QED BY <2>1, SMTT(40)
<1> QED BY <1>1

LEMMA PendingType == TypeOK => Pending \in Seq(InboundFrame) /\ Len(Pending) \in Nat
<1> SUFFICES ASSUME TypeOK PROVE Pending \in Seq(InboundFrame)
  OBVIOUS
<1>1. CASE pos = None
  BY <1>1 DEF TypeOK, Pending
<1>2. CASE pos # None
  <2>1. toCPU # <<>> /\ toCPU \in Seq(InboundFrame)
    BY <1>2 DEF TypeOK
  <2> QED BY <1>2, <2>1, FirstFrame DEF Pending
<1> QED BY <1>1, <1>2

LEMMA PendingState ==
  ASSUME TypeOK, NEW i \in 1 .. Len(Pending)
  PROVE  /\ Pending[i].socket \in EngineSockets
         /\ Pending[i].state # None => Pending[i].state \in Reports
<1>1. Pending[i] \in InboundFrame
  BY PendingType
<1> QED BY <1>1 DEF InboundFrame

-----------------------------------------------------------------------------
\* What happens to a socket when something happens to another one.

LEMMA Nothing ==
  ASSUME Pending' = Pending, NEW t, tcp'[t] = tcp[t], sockets'[t] = sockets[t]
  PROVE  (Linked(t) => Linked(t)') /\ (Unused(t) => Unused(t)')
  BY Zenon DEF Linked, Unused, Quiet, Follows, Latest, Ordered, Listening, Fresh, Event

LEMMA OtherReports ==
  ASSUME TypeOK, NEW f \in InboundFrame, Pending' = Append(Pending, f),
         NEW t, f.socket # t \/ f.state = None,
         tcp'[t] = tcp[t], sockets'[t] = sockets[t]
  PROVE  (Linked(t) => Linked(t)') /\ (Unused(t) => Unused(t)')
<1>1. /\ Len(Pending) \in Nat /\ Len(Pending') = Len(Pending) + 1
      /\ \A i \in 1 .. Len(Pending) : Pending'[i] = Pending[i]
      /\ Pending'[Len(Pending) + 1] = f
  BY PendingType, LastFrame
<1> DEFINE n == Len(Pending)
<1>2. \A i \in 1 .. n + 1 : Event(i, t)' <=> i \in 1 .. n /\ Event(i, t)
  <2> SUFFICES ASSUME NEW i \in 1 .. n + 1 PROVE Event(i, t)' <=> i \in 1 .. n /\ Event(i, t)
    OBVIOUS
  <2>1. CASE i \in 1 .. n
    BY <1>1, <2>1 DEF Event
  <2>2. CASE i = n + 1
    BY <1>1, <2>2 DEF Event
  <2> QED BY <1>1, <2>1, <2>2
<1>3. 1 .. n \subseteq 1 .. n + 1 /\ Len(Pending') = n + 1
  BY <1>1
<1>4. \A i \in 1 .. n : Pending'[i] = Pending[i]
  BY <1>1
<1> HIDE DEF n
<1>5. n = Len(Pending)
  BY DEF n
<1>6. Quiet(t)' <=> Quiet(t)
  BY <1>2, <1>3, <1>5, Zenon DEF Quiet
<1>7. /\ Follows(t)' <=> Follows(t)
      /\ Listening(t)' <=> Listening(t)
  BY <1>6, Zenon DEF Follows, Listening
<1>8. Latest(t) => Latest(t)'
  BY <1>2, <1>3, <1>4, <1>5, Zenon DEF Latest
<1>9. Ordered(t) => Ordered(t)'
  BY <1>2, <1>3, <1>4, <1>5, Zenon DEF Ordered
<1>10. Fresh(t) => Fresh(t)'
  BY <1>2, <1>3, <1>4, <1>5, Zenon DEF Fresh
<1> QED BY <1>6, <1>7, <1>8, <1>9, <1>10, Zenon DEF Linked, Unused

\* The first report is followed: the others move up.
LEMMA MoveUp ==
  ASSUME TypeOK, Pending # <<>>, Pending' = Tail(Pending), NEW t
  PROVE  /\ Len(Pending) \in Nat \ {0} /\ Len(Pending') = Len(Pending) - 1
         /\ \A i \in 1 .. Len(Pending') :
              /\ i + 1 \in 1 .. Len(Pending) /\ Pending'[i] = Pending[i + 1]
              /\ Event(i, t)' <=> Event(i + 1, t)
         /\ \A k \in 1 .. Len(Pending) :
              k = 1 \/ \E i \in 1 .. Len(Pending') : k = i + 1
<1>1. /\ Len(Pending) \in Nat \ {0} /\ Len(Pending') = Len(Pending) - 1
      /\ \A i \in 1 .. Len(Pending') : Pending'[i] = Pending[i + 1]
  BY PendingType, FirstFrame
<1>2. \A i \in 1 .. Len(Pending') : i + 1 \in 1 .. Len(Pending)
  BY <1>1
<1>3. \A k \in 1 .. Len(Pending) : k = 1 \/ \E i \in 1 .. Len(Pending') : k = i + 1
  <2> SUFFICES ASSUME NEW k \in 1 .. Len(Pending), k # 1
               PROVE  \E i \in 1 .. Len(Pending') : k = i + 1
    OBVIOUS
  <2>1. k - 1 \in 1 .. Len(Pending') /\ k = (k - 1) + 1
    BY <1>1
  <2> QED BY <2>1
<1> QED BY <1>1, <1>2, <1>3 DEF Event

LEMMA OtherFollowed ==
  ASSUME TypeOK, Pending # <<>>, Pending' = Tail(Pending),
         NEW t, Pending[1].socket # t \/ Pending[1].state = None,
         tcp'[t] = tcp[t], sockets'[t] = sockets[t], Linked(t)
  PROVE  Linked(t)'
<1> DEFINE n == Len(Pending)
           m == Len(Pending')
<1>1. n \in Nat \ {0} /\ m = n - 1
  BY MoveUp
<1>2. \A i \in 1 .. m : /\ i + 1 \in 1 .. n /\ Pending'[i] = Pending[i + 1]
                        /\ Event(i, t)' <=> Event(i + 1, t)
  BY MoveUp
<1>3. ~Event(1, t)
  BY DEF Event
<1>4. \A k \in 1 .. n : Event(k, t) => \E i \in 1 .. m : k = i + 1 /\ Event(i, t)'
  <2> SUFFICES ASSUME NEW k \in 1 .. n, Event(k, t)
               PROVE  \E i \in 1 .. m : k = i + 1 /\ Event(i, t)'
    OBVIOUS
  <2>1. k # 1
    BY <1>3
  <2>2. PICK i \in 1 .. m : k = i + 1
    BY <2>1, MoveUp
  <2> QED BY <1>2, <2>2
<1> HIDE DEF n, m
<1>5. n = Len(Pending) /\ m = Len(Pending')
  BY DEF n, m
<1>6. Quiet(t)' <=> Quiet(t)
  BY <1>2, <1>4, <1>5, Zenon DEF Quiet
<1>7. (Quiet(t)' => Follows(t)') /\ Listening(t)'
  BY <1>6, Zenon DEF Linked, Follows, Listening
<1>8. Latest(t)'
  <2> SUFFICES ASSUME NEW i \in 1 .. m, Event(i, t)',
                      \A j \in 1 .. m : Event(j, t)' => j <= i
               PROVE  tcp[t] \in After(Pending[i + 1].state)
    BY <1>2, <1>5, Zenon DEF Latest
  <2>1. ASSUME NEW k \in 1 .. n, Event(k, t) PROVE k <= i + 1
    <3>1. PICK j \in 1 .. m : k = j + 1 /\ Event(j, t)'
      BY <1>4, <2>1, Zenon
    <3>2. j <= i
      BY <3>1, Zenon
    <3> QED BY <1>1, <3>1, <3>2
  <2> QED BY <1>2, <1>5, <2>1, Zenon DEF Linked, Latest
<1>9. Ordered(t)'
  <2> SUFFICES ASSUME NEW i \in 1 .. m, NEW j \in 1 .. m, Event(i, t)', Event(j, t)', i < j
               PROVE  Pending[i + 1].state # "Closed" /\ Pending[j + 1].state # "Established"
    BY <1>2, <1>5, Zenon DEF Ordered
  <2>1. i + 1 < j + 1
    BY <1>1
  <2> QED BY <1>2, <1>5, <2>1, Zenon DEF Linked, Ordered
<1>10. Fresh(t)'
  BY <1>2, <1>5, ZenonT(60) DEF Linked, Fresh
<1> QED BY <1>7, <1>8, <1>9, <1>10 DEF Linked

-----------------------------------------------------------------------------
\* The engine reports.

LEMMA ReportStep ==
  ASSUME TypeOK, NEW s \in EngineSockets, NEW state \in Reports \cup {None},
         NEW data \in Messages \cup {None}, Report(s, state, data)
  PROVE  /\ toCPU' \in Seq(InboundFrame)
         /\ \E f \in InboundFrame : /\ f.socket = s /\ f.state = state
                                    /\ Pending' = Append(Pending, f)
         /\ UNCHANGED <<args, pc, numSockets, opened, sockets, pos>>
         /\ toCPU' # <<>>
<1> DEFINE f == InboundHeader(s, state, data)
<1>1. f \in InboundFrame /\ f.socket = s /\ f.state = state
  BY DEF InboundHeader, InboundFrame
<1>2. toCPU' = Append(toCPU, f) /\ UNCHANGED <<args, pc, numSockets, opened, sockets, pos>>
  BY Zenon DEF Report, host, config
<1> HIDE DEF f
<1>3. /\ Append(toCPU, f) \in Seq(InboundFrame) /\ Append(toCPU, f) # <<>>
      /\ toCPU # <<>> => Tail(Append(toCPU, f)) = Append(Tail(toCPU), f)
  <2>1. toCPU \in Seq(InboundFrame)
    BY DEF TypeOK
  <2>2. f \in InboundFrame
    BY <1>1
  <2> QED BY <2>1, <2>2, LastFrame
<1>4. Pending' = Append(Pending, f)
  <2>1. CASE pos = None
    BY <1>2, <2>1, Zenon DEF Pending
  <2>2. CASE pos # None
    <3>1. toCPU # <<>>
      BY <2>2 DEF TypeOK
    <3> QED BY <1>2, <1>3, <2>2, <3>1, Zenon DEF Pending
  <2> QED BY <2>1, <2>2
<1> QED BY <1>1, <1>2, <1>3, <1>4, Zenon

\* What the engine does to a socket that is open, and what it reports of it.
LEMMA EngineReports ==
  ASSUME TypeOK, NEW s \in EngineSockets, Engine(s)
  PROVE  /\ \E state \in Reports \cup {None}, data \in Messages \cup {None} :
              /\ Report(s, state, data)
              /\ state = None => tcp' = tcp
              /\ state # None => tcp' = [tcp EXCEPT ![s] = state]
              /\ state = "Established" => tcp[s] = "Listen"
         /\ tcp[s] # "Closed"
         /\ conns' \in [EngineSockets -> Nat] /\ sent' \in [EngineSockets -> Nat]
<1> USE DEF TypeOK
<1>1. None \in Messages \cup {None} /\ NextMessages(s) \subseteq Messages
  BY DEF NextMessages, Messages
<1>2. /\ {"Established", "CloseWait", "ClosedDataPending", "Closed"} \subseteq Reports
      /\ None \notin {"Established", "CloseWait", "ClosedDataPending", "Closed"}
  BY DEF Reports
<1>3. CASE Connect(s)
  <2>1. /\ tcp[s] = "Listen" /\ tcp' = [tcp EXCEPT ![s] = "Established"]
        /\ Report(s, "Established", None)
        /\ conns' = [conns EXCEPT ![s] = @ + 1] /\ sent' = [sent EXCEPT ![s] = 0]
    BY <1>3, Zenon DEF Connect, Becomes
  <2>2. conns' \in [EngineSockets -> Nat] /\ sent' \in [EngineSockets -> Nat]
    BY <2>1
  <2>3. /\ "Established" \in Reports \cup {None} /\ "Established" # None
        /\ tcp[s] # "Closed"
    BY <1>2, <2>1
  <2> QED BY <1>1, <2>1, <2>2, <2>3, Zenon
<1>4. CASE Message(s)
  <2>1. PICK m \in Messages : Report(s, None, m)
    BY <1>1, <1>4 DEF Message
  <2>2. /\ tcp[s] = "Established" /\ tcp' = tcp
        /\ conns' \in [EngineSockets -> Nat] /\ sent' \in [EngineSockets -> Nat]
    BY <1>4 DEF Message
  <2>3. None # "Established"
    BY <1>2
  <2>4. m \in Messages \cup {None} /\ None \in Reports \cup {None}
    OBVIOUS
  <2>5. tcp[s] # "Closed"
    BY <2>2
  <2> QED BY <2>1, <2>2, <2>3, <2>4, <2>5, Zenon
<1>5. CASE ClientCloses(s)
  <2>1. /\ tcp[s] = "Established" /\ tcp' = [tcp EXCEPT ![s] = "CloseWait"]
        /\ \E data \in Messages \cup {None} : Report(s, "CloseWait", data)
        /\ conns' = conns /\ (sent' = sent \/ sent' = [sent EXCEPT ![s] = @ + 1])
    BY <1>1, <1>5 DEF ClientCloses, Becomes
  <2>2. conns' \in [EngineSockets -> Nat] /\ sent' \in [EngineSockets -> Nat]
    <3>1. [sent EXCEPT ![s] = @ + 1] \in [EngineSockets -> Nat]
      OBVIOUS
    <3> QED BY <2>1, <3>1, Zenon
  <2>3. /\ "CloseWait" \in Reports \cup {None} /\ "CloseWait" # None
        /\ "CloseWait" # "Established" /\ tcp[s] # "Closed"
    BY <1>2, <2>1
  <2> QED BY <2>1, <2>2, <2>3, Zenon
<1>6. CASE ClientResets(s)
  BY <1>1, <1>2, <1>6 DEF ClientResets, Becomes
<1>7. CASE CloseCompletes(s)
  BY <1>1, <1>2, <1>7 DEF CloseCompletes, Becomes
<1> QED BY <1>3, <1>4, <1>5, <1>6, <1>7 DEF Engine

\* A report of s is the latest there is.
LEMMA Reporting ==
  ASSUME TypeOK, NEW s \in EngineSockets, NEW f \in InboundFrame, NEW state \in Reports,
         f.socket = s, f.state = state, Pending' = Append(Pending, f),
         tcp' = [tcp EXCEPT ![s] = state], sockets' = sockets,
         state = "Established" => tcp[s] = "Listen",
         tcp[s] # "Closed", Linked(s)
  PROVE  Linked(s)'
<1>n. PICK n : n = Len(Pending)
  OBVIOUS
<1>1. /\ n \in Nat /\ Len(Pending') = n + 1
      /\ \A i \in 1 .. n : Pending'[i] = Pending[i]
      /\ Pending'[n + 1] = f
  BY <1>n, PendingType, LastFrame
<1>2. tcp'[s] = state /\ state # "Listen" /\ state # None
  BY DEF TypeOK, Reports
<1>3. Event(n + 1, s)'
  BY <1>1, <1>2 DEF Event
<1>4. \A i \in 1 .. n : Event(i, s)' <=> Event(i, s)
  BY <1>1, <1>n DEF Event
<1>5. ~Quiet(s)'
  BY <1>1, <1>3 DEF Quiet
<1>6. Latest(s)'
  <2> SUFFICES ASSUME NEW i \in 1 .. n + 1, \A j \in 1 .. n + 1 : Event(j, s)' => j <= i
               PROVE  state \in After(Pending'[i].state)
    BY <1>1, <1>2 DEF Latest
  <2>1. i = n + 1
    BY <1>1, <1>3
  <2> QED BY <1>1, <2>1 DEF After
<1>7. Ordered(s)'
  <2>1. ASSUME NEW i \in 1 .. n, Event(i, s), Pending[i].state = "Closed"
        PROVE  FALSE
    <3>1. \A j \in 1 .. n : Event(j, s) => ~(i < j)
      BY <2>1, <1>n, Zenon DEF Linked, Ordered
    <3>2. \A j \in 1 .. n : Event(j, s) => j <= i
      BY <1>1, <3>1
    <3>3. tcp[s] \in After("Closed")
      BY <1>n, <2>1, <3>2, Zenon DEF Linked, Latest
    <3> QED BY <3>3 DEF After
  <2>2. ASSUME NEW i \in 1 .. n, Event(i, s) PROVE state # "Established"
    BY <1>n, <2>2, Zenon DEF Linked, Listening, Quiet
  <2> SUFFICES ASSUME NEW i \in 1 .. n + 1, NEW j \in 1 .. n + 1,
                      Event(i, s)', Event(j, s)', i < j
               PROVE  Pending'[i].state # "Closed" /\ Pending'[j].state # "Established"
    BY <1>1 DEF Ordered
  <2>3. i \in 1 .. n
    BY <1>1
  <2>4. Pending'[i].state # "Closed"
    BY <1>1, <1>4, <2>1, <2>3, Zenon
  <2>5. CASE j \in 1 .. n
    BY <1>1, <1>4, <1>n, <2>3, <2>4, <2>5, Zenon DEF Linked, Ordered
  <2>6. CASE j = n + 1
    <3>1. state # "Established"
      BY <1>4, <2>2, <2>3, Zenon
    <3> QED BY <1>1, <2>4, <2>6, <3>1
  <2>7. j \in 1 .. n \/ j = n + 1
    BY <1>1
  <2> QED BY <2>5, <2>6, <2>7, Zenon
<1>8. Listening(s)'
  BY <1>2 DEF Listening
<1>9. Fresh(s)'
  <2> SUFFICES ASSUME state = "Established", NEW i \in 1 .. n + 1, Event(i, s)'
               PROVE  Pending'[i].state = "Established"
    BY <1>1, <1>2 DEF Fresh
  <2>1. Quiet(s)
    BY DEF Linked, Listening
  <2>2. i \notin 1 .. n
    BY <1>4, <1>n, <2>1, Zenon DEF Quiet
  <2>3. i = n + 1
    BY <1>1, <2>2
  <2> QED BY <1>1, <2>3
<1> QED BY <1>5, <1>6, <1>7, <1>8, <1>9 DEF Linked

LEMMA EngineStep ==
  ASSUME IInv, NEW s \in EngineSockets, Engine(s)
  PROVE  IInv' /\ CallsFit
<1> USE DEF IInv
<1>1. PICK state \in Reports \cup {None}, data \in Messages \cup {None} :
        /\ Report(s, state, data)
        /\ state = None => tcp' = tcp
        /\ state # None => tcp' = [tcp EXCEPT ![s] = state]
        /\ state = "Established" => tcp[s] = "Listen"
  BY EngineReports
<1>2. tcp[s] # "Closed" /\ conns' \in [EngineSockets -> Nat] /\ sent' \in [EngineSockets -> Nat]
  BY EngineReports
<1>3. /\ toCPU' \in Seq(InboundFrame) /\ toCPU' # <<>>
      /\ UNCHANGED <<args, pc, numSockets, opened, sockets, pos>>
  BY <1>1, ReportStep
<1>4. PICK f \in InboundFrame : f.socket = s /\ f.state = state /\ Pending' = Append(Pending, f)
  BY <1>1, ReportStep
<1>5. s \in ValidSockets
  BY <1>2 DEF OutsideUntouched
<1>6. /\ tcp' \in [EngineSockets -> States]
      /\ \A t \in EngineSockets : t # s => tcp'[t] = tcp[t]
      /\ tcp'[s] # tcp[s] => tcp'[s] \in Reports
  BY <1>1 DEF TypeOK, States
<1>7. TypeOK'
  BY <1>2, <1>3, <1>6, Zenon DEF TypeOK
<1>8. ASSUME NEW t \in EngineSockets, t # s \/ state = None
      PROVE  (Linked(t) => Linked(t)') /\ (Unused(t) => Unused(t)')
  <2>1. tcp'[t] = tcp[t] /\ sockets'[t] = sockets[t]
    BY <1>1, <1>3, <1>6, <1>8
  <2> QED BY <1>4, <1>8, <2>1, OtherReports
<1>9. StartInv'
  <2>1. ~Unused(s)
    BY <1>2 DEF Unused
  <2>2. pc \notin {"ReadConstants", "InitTcp"}
    <3>1. pc \in {"ReadConstants", "InitTcp"} => s >= opened
      BY DEF StartInv, EngineSockets
    <3> QED BY <2>1, <3>1, Zenon DEF StartInv
  <2>3. pc = "Listen" => \A t \in EngineSockets : t >= opened => Unused(t)'
    BY <1>8, <2>1, Zenon DEF StartInv
  <2> QED BY <1>3, <2>2, <2>3 DEF StartInv
<1>10. FixInv'
  <2>1. Len(Pending) \in Nat /\ Len(Pending') = Len(Pending) + 1
    BY <1>4, PendingType, LastFrame
  <2>2. \A i \in 1 .. Len(Pending) : Pending'[i] = Pending[i]
    BY <1>4, PendingType, LastFrame
  <2>3. Pending'[Len(Pending) + 1].socket = s
    BY <1>4, PendingType, LastFrame
  <2>4. ValidSockets' = ValidSockets /\ args' = args
    BY <1>3 DEF ValidSockets
  <2> SUFFICES ASSUME args.program = "Fix", NEW i \in 1 .. Len(Pending) + 1
               PROVE  Pending'[i].socket \in ValidSockets
    BY <2>1, <2>4 DEF FixInv
  <2>5. CASE i \in 1 .. Len(Pending)
    BY <2>2, <2>5 DEF FixInv
  <2>6. CASE i = Len(Pending) + 1
    BY <1>5, <2>3, <2>6
  <2> QED BY <2>1, <2>5, <2>6
<1>11. LinkInv'
  <2> SUFFICES ASSUME NEW t \in ValidSockets PROVE Linked(t)'
    BY <1>3 DEF LinkInv, ValidSockets
  <2>1. t \in EngineSockets /\ Linked(t)
    BY DEF LinkInv, ValidSockets, EngineSockets, TypeOK
  <2>2. CASE t # s \/ state = None
    BY <1>8, <2>1, <2>2
  <2>3. CASE t = s /\ state # None
    BY <1>1, <1>2, <1>3, <1>4, <2>1, <2>3, Reporting
  <2> QED BY <2>2, <2>3
<1>12. OutsideUntouched'
  <2> SUFFICES ASSUME NEW t \in EngineSockets \ ValidSockets
               PROVE  sockets'[t] = "Closed" /\ tcp'[t] = "Closed"
    BY <1>3 DEF OutsideUntouched, ValidSockets
  <2> QED BY <1>3, <1>5, <1>6 DEF OutsideUntouched
<1>13. CallsFit
  BY <1>6 DEF CallsFit, Reports
<1> QED BY <1>7, <1>9, <1>10, <1>11, <1>12, <1>13

LEMMA ForeignStep ==
  ASSUME IInv, NEW s \in EngineSockets, ForeignEvent(s)
  PROVE  IInv' /\ CallsFit
<1> USE DEF IInv
<1>1. /\ args.program = "Bin" /\ pc = "Run" /\ s \notin ValidSockets
      /\ UNCHANGED <<tcp, conns, sent>>
  BY DEF ForeignEvent, engine
<1>2. PICK state \in Reports : Report(s, state, None)
  BY DEF ForeignEvent, Reports
<1>3. /\ toCPU' \in Seq(InboundFrame) /\ toCPU' # <<>>
      /\ UNCHANGED <<args, pc, numSockets, opened, sockets, pos>>
  BY <1>2, ReportStep
<1>4. PICK f \in InboundFrame : f.socket = s /\ Pending' = Append(Pending, f)
  BY <1>2, ReportStep
<1>5. TypeOK'
  BY <1>1, <1>3, Zenon DEF TypeOK
<1>6. LinkInv'
  <2> SUFFICES ASSUME NEW t \in ValidSockets PROVE Linked(t)'
    BY <1>3 DEF LinkInv, ValidSockets
  <2>1. Linked(t) /\ f.socket # t /\ tcp'[t] = tcp[t] /\ sockets'[t] = sockets[t]
    BY <1>1, <1>3, <1>4 DEF LinkInv
  <2> QED BY <1>4, <2>1, OtherReports
<1>7. StartInv' /\ FixInv' /\ OutsideUntouched' /\ CallsFit
  BY <1>1, <1>3 DEF StartInv, FixInv, OutsideUntouched, ValidSockets, CallsFit
<1> QED BY <1>5, <1>6, <1>7

-----------------------------------------------------------------------------
\* The host follows a report.

LEMMA TransitionStep ==
  ASSUME TypeOK, pc = "Run", NEW s \in EngineSockets, NEW state \in Reports,
         Transition(s, state)
  PROVE  /\ pc' = pc /\ sockets' = [sockets EXCEPT ![s] = state]
         /\ state = "Established" => tcp' = tcp
         /\ state = "Closed" => tcp' = [tcp EXCEPT ![s] = "Listen"]
         /\ state \in {"CloseWait", "ClosedDataPending"} => TcpClose(s)
<1>1. CASE state = "Closed"
  BY <1>1 DEF Transition, Listen, TcpListen
<1>2. CASE state \in {"CloseWait", "ClosedDataPending"}
  BY <1>2 DEF Transition, CloseGraceful
<1>3. CASE state = "Established"
  BY <1>3 DEF Transition
<1> QED BY <1>1, <1>2, <1>3 DEF Reports

LEMMA TransitionTypes ==
  ASSUME TypeOK, pc = "Run", NEW s \in EngineSockets, NEW state \in Reports,
         Transition(s, state)
  PROVE  /\ tcp' \in [EngineSockets -> States] /\ sockets' \in [EngineSockets -> Reports]
         /\ sockets'[s] = state
         /\ \A t \in EngineSockets : t # s => tcp'[t] = tcp[t] /\ sockets'[t] = sockets[t]
<1> USE DEF TypeOK
<1>1. /\ sockets' = [sockets EXCEPT ![s] = state]
      /\ \E v \in States : tcp' = [tcp EXCEPT ![s] = v]
  <2>1. /\ sockets' = [sockets EXCEPT ![s] = state]
        /\ state = "Established" => tcp' = tcp
        /\ state = "Closed" => tcp' = [tcp EXCEPT ![s] = "Listen"]
        /\ state \in {"CloseWait", "ClosedDataPending"} => TcpClose(s)
    BY TransitionStep
  <2>2. TcpClose(s) => tcp' = [tcp EXCEPT ![s] = "LastAck"] \/ tcp' = [tcp EXCEPT ![s] = tcp[s]]
    BY DEF TcpClose
  <2>3. tcp = [tcp EXCEPT ![s] = tcp[s]]
    OBVIOUS
  <2>4. "LastAck" \in States /\ "Listen" \in States /\ tcp[s] \in States
    BY DEF States
  <2>5. state \in {"Established", "Closed", "CloseWait", "ClosedDataPending"}
    BY DEF Reports
  <2> QED BY <2>1, <2>2, <2>3, <2>4, <2>5
<1>2. PICK v \in States : tcp' = [tcp EXCEPT ![s] = v]
  BY <1>1
<1> QED BY <1>1, <1>2

\* The first pending report is of s: the host does what it calls for.
LEMMA Following ==
  ASSUME TypeOK, pc = "Run", NEW s \in EngineSockets, Linked(s),
         Pending # <<>>, Pending' = Tail(Pending),
         Pending[1].socket = s, Pending[1].state # None,
         Transition(s, Pending[1].state)
  PROVE  /\ Linked(s)'
         /\ tcp'[s] # tcp[s] =>
              /\ tcp'[s] = "Listen" => tcp[s] = "Closed"
              /\ tcp'[s] = "LastAck" => tcp[s] \in {"CloseWait", "ClosedDataPending"}
<1>n. PICK n : n = Len(Pending)
  OBVIOUS
<1>m. PICK m : m = Len(Pending')
  OBVIOUS
<1>st. PICK state : state = Pending[1].state
  OBVIOUS
<1>1. n \in Nat \ {0} /\ m = n - 1 /\ 1 \in 1 .. n
  <2>1. Len(Pending) \in Nat \ {0} /\ Len(Pending') = Len(Pending) - 1
    BY MoveUp
  <2> QED BY <1>n, <1>m, <2>1
<1>2. \A i \in 1 .. m : /\ i + 1 \in 1 .. n /\ Pending'[i] = Pending[i + 1]
                        /\ Event(i, s)' <=> Event(i + 1, s)
  BY <1>n, <1>m, MoveUp
<1>3. \A k \in 1 .. n : k # 1 => \E i \in 1 .. m : k = i + 1
  BY <1>n, <1>m, MoveUp
<1>4. Event(1, s) /\ state \in Reports
  BY <1>1, <1>n, <1>st, PendingState DEF Event
<1>5. /\ sockets' = [sockets EXCEPT ![s] = state]
      /\ state = "Established" => tcp' = tcp
      /\ state = "Closed" => tcp' = [tcp EXCEPT ![s] = "Listen"]
      /\ state \in {"CloseWait", "ClosedDataPending"} => TcpClose(s)
  BY <1>4, <1>st, TransitionStep
<1>6. sockets'[s] = state /\ tcp[s] \in States
  BY <1>5 DEF TypeOK
\* What was known of s.
<1>7. tcp[s] # "Listen"
  BY <1>1, <1>4, <1>n, Zenon DEF Linked, Listening, Quiet
<1>8. ASSUME NEW k \in 1 .. n, Event(k, s), k # 1
      PROVE  state # "Closed" /\ Pending[k].state # "Established"
  <2>1. 1 < k
    BY <1>1, <1>8
  <2> QED BY <1>1, <1>4, <1>8, <1>n, <1>st, <2>1, Zenon DEF Linked, Ordered
<1>9. ASSUME \A k \in 1 .. n : Event(k, s) => k = 1
      PROVE  tcp[s] \in After(state)
  <2>1. \A k \in 1 .. n : Event(k, s) => k <= 1
    BY <1>9
  <2> QED BY <1>1, <1>4, <1>n, <1>st, <2>1, Zenon DEF Linked, Latest
<1>10. Quiet(s)' => tcp[s] \in After(state)
  <2> SUFFICES ASSUME Quiet(s)' PROVE \A k \in 1 .. n : Event(k, s) => k = 1
    BY <1>9
  <2>1. \A i \in 1 .. m : ~Event(i, s)'
    BY <1>m, Zenon DEF Quiet
  <2> SUFFICES ASSUME NEW k \in 1 .. n, Event(k, s), k # 1 PROVE FALSE
    OBVIOUS
  <2>2. PICK i \in 1 .. m : k = i + 1
    BY <1>3
  <2> QED BY <1>2, <2>1, <2>2
<1>11. ASSUME NEW i \in 1 .. m, Event(i, s)', \A j \in 1 .. m : Event(j, s)' => j <= i
       PROVE  tcp[s] \in After(Pending'[i].state)
  <2>1. ASSUME NEW k \in 1 .. n, Event(k, s) PROVE k <= i + 1
    <3>1. CASE k = 1
      BY <1>1, <3>1
    <3>2. CASE k # 1
      <4>1. PICK j \in 1 .. m : k = j + 1
        BY <1>3, <3>2
      <4>2. j <= i
        BY <1>2, <1>11, <2>1, <4>1, Zenon
      <4> QED BY <1>1, <4>1, <4>2
    <3> QED BY <3>1, <3>2
  <2> QED BY <1>2, <1>11, <1>n, <2>1, Zenon DEF Linked, Latest
<1>12. \A i \in 1 .. m : Event(i, s)' =>
         state # "Closed" /\ Pending'[i].state # "Established" /\ i + 1 # 1
  <2> SUFFICES ASSUME NEW i \in 1 .. m, Event(i, s)'
               PROVE  state # "Closed" /\ Pending'[i].state # "Established" /\ i + 1 # 1
    OBVIOUS
  <2>1. i + 1 # 1
    BY <1>1
  <2> QED BY <1>2, <1>8, <2>1, Zenon
\* The order does not depend on what the report says.
<1>13. Ordered(s)'
  <2> SUFFICES ASSUME NEW i \in 1 .. m, NEW j \in 1 .. m, Event(i, s)', Event(j, s)', i < j
               PROVE  Pending'[i].state # "Closed" /\ Pending'[j].state # "Established"
    BY <1>m, Zenon DEF Ordered
  <2>1. i + 1 < j + 1
    BY <1>1
  <2> QED BY <1>2, <1>n, <2>1, Zenon DEF Linked, Ordered
<1>14. CASE state = "Closed"
  <2>1. tcp'[s] = "Listen"
    BY <1>5, <1>14 DEF TypeOK
  <2>2. \A i \in 1 .. m : ~Event(i, s)'
    BY <1>12, <1>14
  <2>3. Quiet(s)' /\ tcp[s] = "Closed"
    <3>1. Quiet(s)'
      BY <1>m, <2>2, Zenon DEF Quiet
    <3> QED BY <1>10, <1>14, <3>1 DEF After
  <2>4. Latest(s)' /\ Fresh(s)'
    BY <1>m, <2>2, Zenon DEF Latest, Fresh
  <2>5. Follows(s)' /\ Listening(s)'
    BY <1>6, <1>14, <2>1, <2>3, Zenon DEF Follows, Listening
  <2> QED BY <1>13, <2>1, <2>3, <2>4, <2>5 DEF Linked
<1>15. CASE state = "Established"
  <2>1. tcp' = tcp
    BY <1>5, <1>15
  <2>2. Quiet(s)' => Follows(s)'
    BY <1>6, <1>10, <1>15, <2>1 DEF Follows, After
  <2>3. Latest(s)'
    BY <1>11, <1>m, <2>1, Zenon DEF Latest
  <2>4. Listening(s)'
    BY <1>7, <2>1, Zenon DEF Listening
  <2>5. Fresh(s)'
    BY <1>2, <1>m, <1>n, <2>1, Zenon DEF Linked, Fresh
  <2> QED BY <1>13, <2>1, <2>2, <2>3, <2>4, <2>5 DEF Linked
<1>16. CASE state \in {"CloseWait", "ClosedDataPending"}
  <2>1. tcp[s] # "Established"
    <3>1. state # "Established"
      BY <1>16
    <3> QED BY <1>1, <1>4, <1>n, <1>st, <3>1, Zenon DEF Linked, Fresh
  <2>2. tcp'[s] = IF tcp[s] \in {"CloseWait", "ClosedDataPending"} THEN "LastAck" ELSE tcp[s]
    BY <1>5, <1>16, <2>1 DEF TcpClose, TypeOK
  <2>3. Quiet(s)' => Follows(s)'
    BY <1>6, <1>10, <1>16, <2>2 DEF Follows, After
  <2>4. Latest(s)'
    <3> SUFFICES ASSUME NEW i \in 1 .. m, Event(i, s)',
                        \A j \in 1 .. m : Event(j, s)' => j <= i
                 PROVE  tcp'[s] \in After(Pending'[i].state)
      BY <1>m, Zenon DEF Latest
    <3>1. tcp[s] \in After(Pending'[i].state) /\ Pending'[i].state # "Established"
      BY <1>11, <1>12
    <3>2. Pending'[i].state \in Reports
      BY <1>2, <1>n, PendingState DEF Event
    <3> QED BY <2>2, <3>1, <3>2 DEF After, Reports
  <2>5. Listening(s)' /\ Fresh(s)'
    BY <1>7, <2>1, <2>2 DEF Listening, Fresh
  <2> QED BY <1>13, <2>2, <2>3, <2>4, <2>5 DEF Linked
<1> QED BY <1>4, <1>14, <1>15, <1>16 DEF Reports

LEMMA FollowStep ==
  ASSUME IInv, pc = "Run", pos = None, toCPU # <<>>, Follow(Frame),
         Pending' = Tail(Pending), UNCHANGED config
  PROVE  /\ pc' = pc
         /\ tcp' \in [EngineSockets -> States] /\ sockets' \in [EngineSockets -> Reports]
         /\ FixInv' /\ LinkInv' /\ OutsideUntouched' /\ CallsFit
<1> USE DEF IInv
<1>1. Pending = toCPU /\ Pending # <<>> /\ Frame = Pending[1] /\ Frame \in InboundFrame
  <2>1. toCPU \in Seq(InboundFrame) /\ Pending = toCPU
    BY DEF TypeOK, Pending
  <2> QED BY <2>1, FirstFrame DEF Frame
<1>2. args' = args /\ ValidSockets' = ValidSockets /\ ValidSockets \subseteq EngineSockets
  BY DEF config, ValidSockets, EngineSockets, TypeOK
<1>3. FixInv'
  <2>1. \A i \in 1 .. Len(Pending') :
          i + 1 \in 1 .. Len(Pending) /\ Pending'[i] = Pending[i + 1]
    BY <1>1, MoveUp
  <2> QED BY <1>2, <2>1, Zenon DEF FixInv
<1>4. Known(Frame.socket) => Frame.socket \in ValidSockets
  <2>1. 1 \in 1 .. Len(Pending)
    BY <1>1, MoveUp
  <2> QED BY <1>1, <2>1 DEF FixInv, Known
<1>5. ASSUME ~(Known(Frame.socket) /\ Frame.state # None)
      PROVE  /\ pc' = pc
             /\ tcp' \in [EngineSockets -> States] /\ sockets' \in [EngineSockets -> Reports]
             /\ LinkInv' /\ OutsideUntouched' /\ CallsFit
  <2>1. UNCHANGED <<sockets, tcp, pc>>
    BY <1>5, Zenon DEF Follow
  <2>2. LinkInv'
    <3> SUFFICES ASSUME NEW t \in ValidSockets PROVE Linked(t)'
      BY <1>2 DEF LinkInv
    <3>1. Frame.socket # t \/ Frame.state = None
      BY <1>5 DEF Known
    <3> QED BY <1>1, <2>1, <3>1, OtherFollowed DEF LinkInv
  <2>3. OutsideUntouched' /\ CallsFit
    BY <1>2, <2>1, Zenon DEF OutsideUntouched, CallsFit
  <2> QED BY <2>1, <2>2, <2>3 DEF TypeOK
<1>6. ASSUME Known(Frame.socket), Frame.state # None
      PROVE  /\ pc' = pc
             /\ tcp' \in [EngineSockets -> States] /\ sockets' \in [EngineSockets -> Reports]
             /\ LinkInv' /\ OutsideUntouched' /\ CallsFit
  <2>s. PICK s \in ValidSockets : s = Frame.socket
    BY <1>4, <1>6
  <2>1. s \in EngineSockets /\ Linked(s) /\ Frame.state \in Reports /\ Transition(s, Frame.state)
    <3>1. Frame.state \in Reports /\ Linked(s) /\ s \in EngineSockets
      BY <1>1, <1>2, <1>6 DEF InboundFrame, LinkInv
    <3> QED BY <1>6, <2>s, <3>1, Zenon DEF Follow
  <2>2. /\ pc' = pc
        /\ tcp' \in [EngineSockets -> States] /\ sockets' \in [EngineSockets -> Reports]
        /\ \A t \in EngineSockets : t # s => tcp'[t] = tcp[t] /\ sockets'[t] = sockets[t]
    BY <2>1, TransitionStep, TransitionTypes
  <2>3. /\ Linked(s)'
        /\ tcp'[s] # tcp[s] =>
             /\ tcp'[s] = "Listen" => tcp[s] = "Closed"
             /\ tcp'[s] = "LastAck" => tcp[s] \in {"CloseWait", "ClosedDataPending"}
    BY <1>1, <1>6, <2>1, <2>s, Following
  <2>4. LinkInv'
    <3> SUFFICES ASSUME NEW t \in ValidSockets, t # s PROVE Linked(t)'
      BY <1>2, <2>3 DEF LinkInv
    <3>1. /\ Pending[1].socket # t /\ tcp'[t] = tcp[t] /\ sockets'[t] = sockets[t]
          /\ Linked(t)
      BY <1>1, <1>2, <2>2, <2>s DEF LinkInv
    <3> QED BY <1>1, <3>1, OtherFollowed
  <2>5. OutsideUntouched'
    BY <1>2, <2>2, Zenon DEF OutsideUntouched
  <2>6. CallsFit
    BY <2>2, <2>3, Zenon DEF CallsFit
  <2> QED BY <2>2, <2>4, <2>5, <2>6
<1> QED BY <1>3, <1>5, <1>6

LEMMA ProcessStep ==
  ASSUME IInv, ProcessEvent \/ ProcessData
  PROVE  IInv' /\ CallsFit
<1> USE DEF IInv
<1>1. /\ pc = "Run" /\ pos = None /\ toCPU # <<>> /\ Follow(Frame)
      /\ UNCHANGED <<args, numSockets, opened, conns, sent>>
      /\ \/ pos' = None /\ toCPU' = Tail(toCPU)
         \/ pos' = 0 /\ toCPU' = toCPU
  BY Zenon DEF ProcessEvent, ProcessData, config
<1>2. 0 # None /\ Tail(toCPU) \in Seq(InboundFrame)
  BY <1>1 DEF TypeOK
<1>3. Pending' = Tail(Pending)
  BY <1>1, <1>2, Zenon DEF Pending
<1>4. /\ pc' = pc
      /\ tcp' \in [EngineSockets -> States] /\ sockets' \in [EngineSockets -> Reports]
      /\ FixInv' /\ LinkInv' /\ OutsideUntouched' /\ CallsFit
  BY <1>1, <1>3, FollowStep DEF config
<1>5. TypeOK'
  <2>1. toCPU' \in Seq(InboundFrame)
    BY <1>1, <1>2, Zenon DEF TypeOK
  <2>2. pos' \in Nat \cup {None} /\ (pos' # None => toCPU' # <<>>)
    BY <1>1
  <2> QED BY <1>1, <1>4, <2>1, <2>2, Zenon DEF TypeOK
<1>6. StartInv'
  BY <1>1, <1>4 DEF StartInv
<1> QED BY <1>4, <1>5, <1>6

LEMMA SendStep ==
  ASSUME IInv, SendFrame
  PROVE  IInv' /\ CallsFit
<1> USE DEF IInv
<1>1. /\ pos # None /\ UNCHANGED <<args, numSockets, pc, opened, sockets, tcp, conns, sent>>
      /\ \/ pos' = None /\ toCPU' = Tail(toCPU)
         \/ pos' = pos + 1 /\ toCPU' = toCPU
  BY Zenon DEF SendFrame, config, engine
<1>2. pos + 1 \in Nat /\ pos + 1 # None /\ toCPU # <<>> /\ toCPU \in Seq(InboundFrame)
  BY <1>1 DEF TypeOK
<1>3. Tail(toCPU) \in Seq(InboundFrame)
  BY <1>2
<1>4. Pending' = Pending
  BY <1>1, <1>2, Zenon DEF Pending
<1>5. TypeOK'
  <2>1. toCPU' \in Seq(InboundFrame)
    BY <1>1, <1>2, <1>3, Zenon
  <2>2. pos' \in Nat \cup {None} /\ (pos' # None => toCPU' # <<>>)
    BY <1>1, <1>2
  <2> QED BY <1>1, <2>1, <2>2, Zenon DEF TypeOK
<1>6. LinkInv'
  BY <1>1, <1>4, Nothing, Zenon DEF LinkInv, ValidSockets
<1>7. StartInv'
  <2>1. pc \notin {"ReadConstants", "InitTcp"}
    BY <1>2 DEF StartInv
  <2>2. \A s \in EngineSockets : Unused(s) => Unused(s)'
    BY <1>1, <1>4, Nothing, Zenon
  <2> QED BY <1>1, <2>1, <2>2 DEF StartInv
<1>8. FixInv' /\ OutsideUntouched' /\ CallsFit
  BY <1>1, <1>4, Zenon DEF FixInv, OutsideUntouched, CallsFit, ValidSockets
<1> QED BY <1>5, <1>6, <1>7, <1>8

-----------------------------------------------------------------------------
\* The host starts.

LEMMA UnusedLinked == \A s : Unused(s) => Linked(s)
<1> SUFFICES ASSUME NEW s, Unused(s) PROVE Linked(s)
  OBVIOUS
<1>1. Latest(s) /\ Ordered(s) /\ Fresh(s)
  BY Zenon DEF Unused, Quiet, Latest, Ordered, Fresh
<1> QED BY <1>1 DEF Linked, Unused, Follows, Listening

LEMMA InitTcpStep ==
  ASSUME IInv, ReadConstants \/ InitTcp
  PROVE  IInv' /\ CallsFit
<1> USE DEF IInv
<1>1. /\ pc \in {"ReadConstants", "InitTcp"} /\ pc' \in Labels
      /\ UNCHANGED <<args, opened, sockets, pos, tcp, conns, sent, toCPU>>
      /\ numSockets' # numSockets => pc' \in {"Listen", "Run"}
      /\ pc' = "InitTcp" => numSockets' = numSockets
      /\ pc' # "ReadConstants"
  BY DEF ReadConstants, InitTcp, Labels, config, engine
<1>2. numSockets' \in 0 .. MAX_SOCKETS
  <2>1. CASE ReadConstants
    BY <2>1 DEF ReadConstants, config, TypeOK
  <2>2. CASE InitTcp
    <3>1. args.sockets \in Nat
      BY DEF TypeOK
    <3>2. args.sockets % Modulus \in Nat
      BY <3>1
    <3> QED BY <2>2, <3>2 DEF InitTcp, TypeOK
  <2> QED BY <2>1, <2>2
<1>3. numSockets = 0 /\ opened = 0 /\ toCPU = <<>>
  BY <1>1 DEF StartInv
<1>4. \A s \in EngineSockets : Unused(s)
  BY <1>1, <1>3 DEF StartInv, EngineSockets
<1>5. Pending' = Pending
  BY <1>1, Zenon DEF Pending
<1>6. Len(Pending) = 0
  BY <1>3 DEF Pending, TypeOK
<1>7. \A s \in EngineSockets : Unused(s)'
  BY <1>1, <1>4, <1>5, Nothing, Zenon
<1>8. TypeOK'
  <2>1. opened' \in 0 .. numSockets'
    BY <1>1, <1>2, <1>3
  <2> QED BY <1>1, <1>2, <2>1, Zenon DEF TypeOK
<1>9. StartInv'
  BY <1>1, <1>3, <1>7 DEF StartInv
<1>10. FixInv'
  BY <1>5, <1>6 DEF FixInv
<1>11. ValidSockets' \subseteq EngineSockets
  <2>1. \A n \in 0 .. MAX_SOCKETS : 0 .. n - 1 \subseteq 0 .. MAX_SOCKETS - 1
    OBVIOUS
  <2> QED BY <1>2, <2>1, Zenon DEF ValidSockets, EngineSockets
<1>12. LinkInv'
  <2>1. (\A s : Unused(s) => Linked(s))'
    BY UnusedLinked, PTL
  <2>2. \A s : Unused(s)' => Linked(s)'
    BY <2>1
  <2> QED BY <1>7, <1>11, <2>2, Zenon DEF LinkInv
<1>13. OutsideUntouched' /\ CallsFit
  BY <1>1, <1>7 DEF OutsideUntouched, Unused, CallsFit
<1> QED BY <1>8, <1>9, <1>10, <1>12, <1>13

LEMMA ListenStep ==
  ASSUME IInv, ListenAll
  PROVE  IInv' /\ CallsFit
<1> USE DEF IInv
<1>1. /\ pc = "Listen"
      /\ UNCHANGED <<args, numSockets, sockets, pos, conns, sent, toCPU>>
  BY DEF ListenAll, config
<1>2. Pending' = Pending
  BY <1>1, Zenon DEF Pending
<1>3. CASE opened < numSockets
  <2>s. PICK s : s = opened
    OBVIOUS
  <2>1. s \in EngineSockets /\ s \in ValidSockets
    BY <1>3, <2>s DEF TypeOK, EngineSockets, ValidSockets
  <2>2. Unused(s)
    BY <1>1, <2>1, <2>s DEF StartInv, EngineSockets
  <2>3. /\ tcp' = [tcp EXCEPT ![s] = "Listen"] /\ pc' = pc /\ opened' = opened + 1
    BY <1>3, <2>2, <2>s DEF ListenAll, Listen, TcpListen, Unused
  <2>4. /\ tcp' \in [EngineSockets -> States] /\ tcp'[s] = "Listen"
        /\ \A t \in EngineSockets : t # s => tcp'[t] = tcp[t]
    BY <2>1, <2>3 DEF TypeOK, States
  <2>5. \A t \in EngineSockets :
          t # s => (Linked(t) => Linked(t)') /\ (Unused(t) => Unused(t)')
    BY <1>1, <1>2, <2>4, Nothing, Zenon
  <2>6. Linked(s)'
    <3>1. Quiet(s)' /\ sockets'[s] = "Closed"
      BY <1>1, <1>2, <2>2, Zenon DEF Unused, Quiet, Event
    <3>2. Latest(s)' /\ Ordered(s)'
      BY <3>1, Zenon DEF Quiet, Latest, Ordered
    <3> QED BY <2>4, <3>1, <3>2 DEF Linked, Follows, Listening, Fresh
  <2>7. TypeOK'
    <3>1. opened' \in 0 .. numSockets
      BY <1>3, <2>3 DEF TypeOK
    <3> QED BY <1>1, <2>3, <2>4, <3>1, Zenon DEF TypeOK
  <2>8. StartInv'
    <3>1. \A t \in EngineSockets : t >= opened + 1 => t >= opened /\ t # s
      BY <2>s DEF TypeOK, EngineSockets
    <3>2. \A t \in EngineSockets : t >= opened' => Unused(t)'
      BY <1>1, <2>3, <2>5, <3>1 DEF StartInv
    <3> QED BY <1>1, <2>3, <3>2 DEF StartInv
  <2>9. FixInv' /\ LinkInv'
    <3>1. ValidSockets' = ValidSockets /\ ValidSockets \subseteq EngineSockets
      BY <1>1 DEF ValidSockets, EngineSockets, TypeOK
    <3>2. LinkInv'
      BY <2>5, <2>6, <3>1, Zenon DEF LinkInv
    <3> QED BY <1>1, <1>2, <3>1, <3>2, Zenon DEF FixInv
  <2>10. OutsideUntouched' /\ CallsFit
    <3>1. ValidSockets' = ValidSockets
      BY <1>1 DEF ValidSockets
    <3>2. OutsideUntouched'
      BY <1>1, <2>1, <2>4, <3>1 DEF OutsideUntouched
    <3> QED BY <2>2, <2>4, <3>2 DEF CallsFit, Unused
  <2> QED BY <2>7, <2>8, <2>9, <2>10
<1>4. CASE ~(opened < numSockets)
  <2>1. pc' = "Run" /\ UNCHANGED <<tcp, opened>>
    BY <1>4, Zenon DEF ListenAll
  <2>2. "Run" \in Labels
    BY DEF Labels
  <2>3. TypeOK'
    BY <1>1, <2>1, <2>2, Zenon DEF TypeOK
  <2>4. LinkInv'
    BY <1>1, <1>2, <2>1, Nothing, Zenon DEF LinkInv, ValidSockets
  <2>5. StartInv'
    BY <2>1 DEF StartInv
  <2>6. FixInv' /\ OutsideUntouched' /\ CallsFit
    BY <1>1, <1>2, <2>1, Zenon DEF FixInv, OutsideUntouched, CallsFit, ValidSockets
  <2> QED BY <2>3, <2>4, <2>5, <2>6
<1> QED BY <1>3, <1>4

-----------------------------------------------------------------------------
\* The inductive invariant and what it says.

LEMMA InitIInv == Init => IInv
<1> SUFFICES ASSUME Init PROVE IInv
  OBVIOUS
<1>1. TypeOK
  BY DEF Init, TypeOK, Labels, States, Reports, NothingYet
<1>2. Pending = <<>> /\ Len(Pending) = 0
  BY DEF Init, Pending
<1>3. \A s \in EngineSockets : Unused(s)
  BY <1>2 DEF Init, Unused, Quiet
<1>4. StartInv /\ FixInv
  BY <1>2, <1>3 DEF Init, StartInv, FixInv
<1>5. ValidSockets = {}
  BY DEF Init, ValidSockets
<1>6. LinkInv /\ OutsideUntouched
  BY <1>5 DEF Init, LinkInv, OutsideUntouched
<1> QED BY <1>1, <1>4, <1>6 DEF IInv

LEMMA StillStep ==
  ASSUME IInv, UNCHANGED <<engine, toCPU, host>>
  PROVE  IInv' /\ CallsFit
<1>1. UNCHANGED <<args, numSockets, pc, opened, sockets, pos, tcp, conns, sent, toCPU>>
  BY DEF engine, host, config
<1>2. Pending' = Pending /\ ValidSockets' = ValidSockets
  BY <1>1, Zenon DEF Pending, ValidSockets
<1>3. TypeOK' /\ FixInv' /\ OutsideUntouched' /\ CallsFit
  BY <1>1, <1>2, Zenon DEF IInv, TypeOK, FixInv, OutsideUntouched, CallsFit
<1>4. StartInv' /\ LinkInv'
  BY <1>1, <1>2, Nothing, Zenon DEF IInv, StartInv, LinkInv
<1> QED BY <1>3, <1>4 DEF IInv

LEMMA StepIInv == IInv /\ [Next]_vars => IInv' /\ CallsFit
<1> SUFFICES ASSUME IInv, [Next]_vars PROVE IInv' /\ CallsFit
  OBVIOUS
<1>1. CASE Host
  BY <1>1, InitTcpStep, ListenStep, ProcessStep, SendStep, Zenon DEF Host, Start
<1>2. CASE Transmit \/ UNCHANGED vars
  BY <1>2, StillStep, Zenon DEF Transmit, vars
<1>3. CASE \E s \in EngineSockets : Engine(s) \/ ForeignEvent(s)
  BY <1>3, EngineStep, ForeignStep, Zenon
<1> QED BY <1>1, <1>2, <1>3, Zenon DEF Next

LEMMA Inductive == Spec => []IInv
<1>1. IInv /\ [Next]_vars => IInv'
  BY StepIInv
<1> QED BY <1>1, InitIInv, PTL DEF Spec

-----------------------------------------------------------------------------
\* Neither the table nor a socket of the engine is touched beyond the sockets
\* that were set up: by BinFIFO's host because it looks, by FixFIFO's because
\* no other socket reports.
THEOREM OutsideSafe == Spec => []OutsideUntouched
<1>1. IInv => OutsideUntouched
  BY DEF IInv
<1> QED BY <1>1, Inductive, PTL

\* When no report is on its way the host's table says where the engine is, but
\* for what the host asked for itself.
THEOREM TableFollows == Spec => []HostFollowsEngine
<1>1. IInv => HostFollowsEngine
  <2> SUFFICES ASSUME IInv, NEW s \in ValidSockets, ~Reported(s) PROVE Follows(s)
    BY DEF HostFollowsEngine, Follows
  <2>1. toCPU \in Seq(InboundFrame) /\ (pos # None => toCPU # <<>>)
    BY DEF IInv, TypeOK
  <2>2. Quiet(s)
    <3> SUFFICES ASSUME NEW i \in 1 .. Len(Pending), Event(i, s) PROVE FALSE
      BY DEF Quiet
    <3>1. CASE pos = None
      BY <3>1 DEF Pending, Event, Reported
    <3>2. CASE pos # None
      <4>1. /\ Len(toCPU) \in Nat /\ Len(Tail(toCPU)) = Len(toCPU) - 1
            /\ Tail(toCPU)[i] = toCPU[i + 1]
        BY <2>1, <3>2, FirstFrame DEF Pending
      <4>2. i + 1 \in 1 .. Len(toCPU) /\ i + 1 > 1
        BY <3>2, <4>1 DEF Pending
      <4> QED BY <3>2, <4>1, <4>2 DEF Pending, Event, Reported
    <3> QED BY <3>1, <3>2
  <2> QED BY <2>2 DEF IInv, LinkInv, Linked
<1> QED BY <1>1, Inductive, PTL

\* A socket is opened only after the engine has closed it, and closed only when
\* its client has closed the connection it has now (transition, fifo.c:163).
THEOREM CallsSafe == Spec => CallsFitState
<1>1. IInv /\ [Next]_vars => [CallsFit]_vars
  BY StepIInv
<1> QED BY <1>1, Inductive, PTL DEF Spec, CallsFitState, CallsFit

-----------------------------------------------------------------------------
(***************************************************************************)
(* The echoes of a message reach its client in order.  All that is on its  *)
(* way to the client of s stands in one line: the frame it was given last, *)
(* those of s in fromCPU, the messages of s in toCPU, the first of which   *)
(* may be written in part, and the message the client would send next.     *)
(* Each fits what is before it in the line (InLine), so the one that is    *)
(* handed on fits what was.  A new connection finds only things of earlier *)
(* ones in the line (Bounded).                                             *)
(***************************************************************************)
Given == [data : Messages, part : Nat]
OutboundFrame == [socket : EngineSockets, data : Messages, part : Nat]

\* A frame of s in fromCPU, and a message of s in toCPU.
IsFrame(i, s) == fromCPU[i].socket = s
IsMessage(i, s) == toCPU[i].socket = s /\ toCPU[i].data # None

\* What the client of s is given before place j of fromCPU, and what will be
\* before it gets to the message at place j of toCPU.
PrevFrame(j, s, e) ==
  \/ \E i \in 1 .. j - 1 :
       /\ IsFrame(i, s) /\ e = [data |-> fromCPU[i].data, part |-> fromCPU[i].part]
       /\ \A k \in i + 1 .. j - 1 : ~IsFrame(k, s)
  \/ /\ \A k \in 1 .. j - 1 : ~IsFrame(k, s)
     /\ e = echoed[s]

LastOut(s, e) == PrevFrame(Len(fromCPU) + 1, s, e)

PrevMessage(j, s, e) ==
  \/ \E i \in 1 .. j - 1 :
       /\ IsMessage(i, s) /\ e = [data |-> toCPU[i].data, part |-> toCPU[i].data.parts]
       /\ \A k \in i + 1 .. j - 1 : ~IsMessage(k, s)
  \/ /\ \A k \in 1 .. j - 1 : ~IsMessage(k, s)
     /\ LastOut(s, e)

LastIn(s, e) == PrevMessage(Len(toCPU) + 1, s, e)

\* What EchoInOrder asks of a frame that comes after e, when the socket has
\* its connection c.
Fits(c, e, f) ==
  IF f.data.conn = c THEN NextEcho(e, f) ELSE e.data.conn < c

\* Frames of the message at place j of toCPU that have been written.
Written(j) == IF j = 1 /\ pos # None THEN pos ELSE 0

OutLine(s) ==
  \A j \in 1 .. Len(fromCPU) : IsFrame(j, s) =>
    \A e \in Given : PrevFrame(j, s, e) => Fits(conns[s], e, fromCPU[j])

MessageLine(s) ==
  \A j \in 1 .. Len(toCPU) : IsMessage(j, s) =>
    \A e \in Given : PrevMessage(j, s, e) =>
      Fits(conns[s], e, [data |-> toCPU[j].data, part |-> Written(j) + 1])

\* The message the client would send next.
NewLine(s) ==
  tcp[s] = "Established" =>
    \A e \in Given : LastIn(s, e) =>
      Fits(conns[s], e, [data |-> [conn |-> conns[s], nr |-> sent[s] + 1, parts |-> 1],
                         part |-> 1])

InLine(s) == OutLine(s) /\ MessageLine(s) /\ NewLine(s)

Bounded(s) ==
  /\ echoed[s].data.conn <= conns[s]
  /\ \A i \in 1 .. Len(fromCPU) : IsFrame(i, s) => fromCPU[i].data.conn <= conns[s]
  /\ \A i \in 1 .. Len(toCPU) : IsMessage(i, s) => toCPU[i].data.conn <= conns[s]

WayType ==
  /\ fromCPU \in Seq(OutboundFrame) /\ echoed \in [EngineSockets -> Given]
  /\ \A i \in 1 .. Len(toCPU) : toCPU[i].data # None => Written(i) < toCPU[i].data.parts
  /\ pos # None => toCPU[1].data # None

WayInv ==
  /\ WayType
  /\ \A s \in EngineSockets : Bounded(s) /\ (HasClient(s) => InLine(s))

\* What is before a place of fromCPU, and of toCPU, when frames come and go.

LEMMA FrameAppended ==
  ASSUME fromCPU \in Seq(OutboundFrame), NEW f \in OutboundFrame, fromCPU' = Append(fromCPU, f),
         echoed' = echoed, NEW s, NEW e
  PROVE  /\ \A j \in 1 .. Len(fromCPU) + 1 : PrevFrame(j, s, e)' => PrevFrame(j, s, e)
         /\ f.socket = s /\ LastOut(s, e)'
              => e = [data |-> f.data, part |-> f.part]
         /\ f.socket # s /\ LastOut(s, e)'
              => LastOut(s, e)
<1>n. PICK n \in Nat : n = Len(fromCPU)
  OBVIOUS
<1>1. /\ \A i \in 1 .. n : fromCPU'[i] = fromCPU[i]
      /\ fromCPU'[n + 1] = f
  BY <1>n
<1>2. \A i \in 1 .. n : IsFrame(i, s)' <=> IsFrame(i, s)
  BY <1>1 DEF IsFrame
<1>3. IsFrame(n + 1, s)' <=> f.socket = s
  BY <1>1 DEF IsFrame
<1>4. ASSUME NEW j \in 1 .. n + 1, PrevFrame(j, s, e)' PROVE PrevFrame(j, s, e)
  <2>1. \A i \in 1 .. j - 1 : i \in 1 .. n /\ \A k \in i + 1 .. j - 1 : k \in 1 .. n
    OBVIOUS
  <2>2. CASE \E i \in 1 .. j - 1 :
               /\ IsFrame(i, s)' /\ e = [data |-> fromCPU'[i].data, part |-> fromCPU'[i].part]
               /\ \A k \in i + 1 .. j - 1 : ~IsFrame(k, s)'
    BY <1>1, <1>2, <2>1, <2>2, Zenon DEF PrevFrame
  <2>3. CASE (\A k \in 1 .. j - 1 : ~IsFrame(k, s)') /\ e = echoed'[s]
    BY <1>2, <2>1, <2>3, Zenon DEF PrevFrame
  <2> QED
    BY <1>4, <2>2, <2>3, Zenon DEF PrevFrame
<1>5. ASSUME f.socket = s, PrevFrame(n + 2, s, e)'
      PROVE  e = [data |-> f.data, part |-> f.part]
  <2>1. n + 1 \in 1 .. (n + 2) - 1
    OBVIOUS
  <2>2. PICK i \in 1 .. (n + 2) - 1 :
          /\ IsFrame(i, s)' /\ e = [data |-> fromCPU'[i].data, part |-> fromCPU'[i].part]
          /\ \A k \in i + 1 .. (n + 2) - 1 : ~IsFrame(k, s)'
    BY <1>3, <1>5, <2>1, Zenon DEF PrevFrame
  <2>3. i = n + 1
    <3>1. n + 1 \in i + 1 .. (n + 2) - 1 \/ i = n + 1
      OBVIOUS
    <3> QED
      BY <1>3, <1>5, <2>2, <3>1, Zenon
  <2> QED
    BY <1>1, <2>2, <2>3, Zenon
<1>6. ASSUME f.socket # s, PrevFrame(n + 2, s, e)'
      PROVE  PrevFrame(n + 1, s, e)
  <2>0. \A i \in 1 .. (n + 2) - 1 : i \in 1 .. n \/ i = n + 1
    OBVIOUS
  <2>1. CASE \E i \in 1 .. (n + 2) - 1 :
               /\ IsFrame(i, s)' /\ e = [data |-> fromCPU'[i].data, part |-> fromCPU'[i].part]
               /\ \A k \in i + 1 .. (n + 2) - 1 : ~IsFrame(k, s)'
    <3>1. PICK i \in 1 .. (n + 2) - 1 :
               /\ IsFrame(i, s)' /\ e = [data |-> fromCPU'[i].data, part |-> fromCPU'[i].part]
               /\ \A k \in i + 1 .. (n + 2) - 1 : ~IsFrame(k, s)'
      BY <2>1
    <3>2. i \in 1 .. n
      BY <1>3, <1>6, <2>0, <3>1, Zenon
    <3>3. i \in 1 .. (n + 1) - 1 /\ \A k \in i + 1 .. (n + 1) - 1 : k \in i + 1 .. (n + 2) - 1 /\ k \in 1 .. n
      BY <3>2
    <3> QED
      BY <1>1, <1>2, <3>1, <3>2, <3>3, Zenon DEF PrevFrame
  <2>2. CASE (\A k \in 1 .. (n + 2) - 1 : ~IsFrame(k, s)') /\ e = echoed'[s]
    <3>1. \A k \in 1 .. (n + 1) - 1 : k \in 1 .. (n + 2) - 1 /\ k \in 1 .. n
      OBVIOUS
    <3> QED
      BY <1>2, <2>2, <3>1, Zenon DEF PrevFrame
  <2> QED
    BY <1>6, <2>1, <2>2, Zenon DEF PrevFrame
<1>7. LastOut(s, e)' <=> PrevFrame(n + 2, s, e)'
  <2>1. Len(fromCPU') + 1 = n + 2
    BY <1>n
  <2> QED
    BY <2>1 DEF LastOut
<1> QED
  BY <1>n, <1>4, <1>5, <1>6, <1>7 DEF LastOut

LEMMA FrameGone ==
  ASSUME fromCPU \in Seq(OutboundFrame), fromCPU # <<>>, fromCPU' = Tail(fromCPU), NEW s, NEW e,
         echoed'[s] = IF Echo.socket = s THEN [data |-> Echo.data, part |-> Echo.part] ELSE echoed[s]
  PROVE  \A j \in 1 .. Len(fromCPU) : PrevFrame(j, s, e)' => PrevFrame(j + 1, s, e)
<1>n. PICK n \in Nat : n = Len(fromCPU)
  OBVIOUS
<1>1. /\ \A i \in 1 .. n - 1 : fromCPU'[i] = fromCPU[i + 1]
      /\ Echo = fromCPU[1]
  BY <1>n DEF Echo
<1>2. \A i \in 1 .. n - 1 : IsFrame(i, s)' <=> IsFrame(i + 1, s)
  BY <1>1, Zenon DEF IsFrame
<1>3. IsFrame(1, s) <=> Echo.socket = s
  BY <1>1 DEF IsFrame
<1> SUFFICES ASSUME NEW j \in 1 .. n, PrevFrame(j, s, e)' PROVE PrevFrame(j + 1, s, e)
  BY <1>n
<1>4. CASE \E i \in 1 .. j - 1 :
             /\ IsFrame(i, s)' /\ e = [data |-> fromCPU'[i].data, part |-> fromCPU'[i].part]
             /\ \A k \in i + 1 .. j - 1 : ~IsFrame(k, s)'
  <2>1. PICK i \in 1 .. j - 1 :
             /\ IsFrame(i, s)' /\ e = [data |-> fromCPU'[i].data, part |-> fromCPU'[i].part]
             /\ \A k \in i + 1 .. j - 1 : ~IsFrame(k, s)'
    BY <1>4
  <2>2. i \in 1 .. n - 1 /\ i + 1 \in 1 .. (j + 1) - 1
    OBVIOUS
  <2>3. ASSUME NEW k \in (i + 1) + 1 .. (j + 1) - 1 PROVE ~IsFrame(k, s)
    <3>1. PICK l \in i + 1 .. j - 1 : k = l + 1 /\ l \in 1 .. n - 1
      <4>1. k - 1 \in i + 1 .. j - 1 /\ k = (k - 1) + 1 /\ k - 1 \in 1 .. n - 1
        OBVIOUS
      <4> QED
        BY <4>1
    <3> QED
      BY <1>2, <2>1, <3>1, Zenon
  <2> QED
    BY <1>1, <1>2, <2>1, <2>2, <2>3, Zenon DEF PrevFrame
<1>5. CASE (\A k \in 1 .. j - 1 : ~IsFrame(k, s)') /\ e = echoed'[s]
  <2>1. ASSUME NEW k \in 2 .. (j + 1) - 1 PROVE ~IsFrame(k, s)
    <3>1. PICK l \in 1 .. j - 1 : k = l + 1 /\ l \in 1 .. n - 1
      <4>1. k - 1 \in 1 .. j - 1 /\ k = (k - 1) + 1 /\ k - 1 \in 1 .. n - 1
        OBVIOUS
      <4> QED
        BY <4>1
    <3> QED
      BY <1>2, <1>5, <3>1, Zenon
  <2>2. /\ 1 \in 1 .. (j + 1) - 1 /\ 1 + 1 = 2
        /\ \A k \in 1 .. (j + 1) - 1 : k = 1 \/ k \in 2 .. (j + 1) - 1
    OBVIOUS
  <2>3. CASE Echo.socket = s
    <3>1. e = [data |-> fromCPU[1].data, part |-> fromCPU[1].part]
      BY <1>1, <1>5, <2>3
    <3>2. \A k \in 1 + 1 .. (j + 1) - 1 : ~IsFrame(k, s)
      BY <2>1, <2>2, Zenon
    <3> QED
      BY <1>3, <2>2, <2>3, <3>1, <3>2, Zenon DEF PrevFrame
  <2>4. CASE Echo.socket # s
    BY <1>3, <1>5, <2>1, <2>2, <2>4, Zenon DEF PrevFrame
  <2> QED
    BY <2>3, <2>4
<1> QED
  BY <1>4, <1>5, Zenon DEF PrevFrame

LEMMA ReportAppended ==
  ASSUME TypeOK, NEW f \in InboundFrame, toCPU' = Append(toCPU, f), NEW s, NEW e,
         LastOut(s, e)' => LastOut(s, e)
  PROVE  /\ \A j \in 1 .. Len(toCPU) : IsMessage(j, s)' <=> IsMessage(j, s)
         /\ \A j \in 1 .. Len(toCPU) + 1 : PrevMessage(j, s, e)' => PrevMessage(j, s, e)
         /\ f.socket = s /\ f.data # None /\ LastIn(s, e)'
              => e = [data |-> f.data, part |-> f.data.parts]
         /\ ~(f.socket = s /\ f.data # None) /\ LastIn(s, e)'
              => LastIn(s, e)
<1>n. PICK n \in Nat : n = Len(toCPU)
  BY DEF TypeOK
<1>1. /\ \A i \in 1 .. n : toCPU'[i] = toCPU[i]
      /\ toCPU'[n + 1] = f
  BY <1>n DEF TypeOK
<1>2. \A i \in 1 .. n : IsMessage(i, s)' <=> IsMessage(i, s)
  BY <1>1, Zenon DEF IsMessage
<1>3. IsMessage(n + 1, s)' <=> f.socket = s /\ f.data # None
  BY <1>1, Zenon DEF IsMessage
<1>4. ASSUME NEW j \in 1 .. n + 1, PrevMessage(j, s, e)' PROVE PrevMessage(j, s, e)
  <2>1. \A i \in 1 .. j - 1 : i \in 1 .. n /\ \A k \in i + 1 .. j - 1 : k \in 1 .. n
    OBVIOUS
  <2>2. CASE \E i \in 1 .. j - 1 :
               /\ IsMessage(i, s)' /\ e = [data |-> toCPU'[i].data, part |-> toCPU'[i].data.parts]
               /\ \A k \in i + 1 .. j - 1 : ~IsMessage(k, s)'
    BY <1>1, <1>2, <2>1, <2>2, Zenon DEF PrevMessage
  <2>3. CASE (\A k \in 1 .. j - 1 : ~IsMessage(k, s)') /\ LastOut(s, e)'
    BY <1>2, <2>1, <2>3, Zenon DEF PrevMessage
  <2> QED
    BY <1>4, <2>2, <2>3, Zenon DEF PrevMessage
<1>5. ASSUME f.socket = s /\ f.data # None, PrevMessage(n + 2, s, e)'
      PROVE  e = [data |-> f.data, part |-> f.data.parts]
  <2>1. n + 1 \in 1 .. (n + 2) - 1
    OBVIOUS
  <2>2. PICK i \in 1 .. (n + 2) - 1 :
          /\ IsMessage(i, s)' /\ e = [data |-> toCPU'[i].data, part |-> toCPU'[i].data.parts]
          /\ \A k \in i + 1 .. (n + 2) - 1 : ~IsMessage(k, s)'
    BY <1>3, <1>5, <2>1, Zenon DEF PrevMessage
  <2>3. i = n + 1
    <3>1. n + 1 \in i + 1 .. (n + 2) - 1 \/ i = n + 1
      OBVIOUS
    <3> QED
      BY <1>3, <1>5, <2>2, <3>1, Zenon
  <2> QED
    BY <1>1, <2>2, <2>3, Zenon
<1>6. ASSUME ~(f.socket = s /\ f.data # None), PrevMessage(n + 2, s, e)'
      PROVE  PrevMessage(n + 1, s, e)
  <2>0. \A i \in 1 .. (n + 2) - 1 : i \in 1 .. n \/ i = n + 1
    OBVIOUS
  <2>1. CASE \E i \in 1 .. (n + 2) - 1 :
               /\ IsMessage(i, s)' /\ e = [data |-> toCPU'[i].data, part |-> toCPU'[i].data.parts]
               /\ \A k \in i + 1 .. (n + 2) - 1 : ~IsMessage(k, s)'
    <3>1. PICK i \in 1 .. (n + 2) - 1 :
               /\ IsMessage(i, s)' /\ e = [data |-> toCPU'[i].data, part |-> toCPU'[i].data.parts]
               /\ \A k \in i + 1 .. (n + 2) - 1 : ~IsMessage(k, s)'
      BY <2>1
    <3>2. i \in 1 .. n
      BY <1>3, <1>6, <2>0, <3>1, Zenon
    <3>3. i \in 1 .. (n + 1) - 1 /\ \A k \in i + 1 .. (n + 1) - 1 : k \in i + 1 .. (n + 2) - 1 /\ k \in 1 .. n
      BY <3>2
    <3> QED
      BY <1>1, <1>2, <3>1, <3>2, <3>3, Zenon DEF PrevMessage
  <2>2. CASE (\A k \in 1 .. (n + 2) - 1 : ~IsMessage(k, s)') /\ LastOut(s, e)'
    <3>1. \A k \in 1 .. (n + 1) - 1 : k \in 1 .. (n + 2) - 1 /\ k \in 1 .. n
      OBVIOUS
    <3> QED
      BY <1>2, <2>2, <3>1, Zenon DEF PrevMessage
  <2> QED
    BY <1>6, <2>1, <2>2, Zenon DEF PrevMessage
<1>7. LastIn(s, e)' <=> PrevMessage(n + 2, s, e)'
  <2>1. Len(toCPU') + 1 = n + 2
    BY <1>n DEF TypeOK
  <2> QED
    BY <2>1 DEF LastIn
<1> QED
  BY <1>n, <1>2, <1>3, <1>4, <1>5, <1>6, <1>7 DEF LastIn

LEMMA ReportGone ==
  ASSUME TypeOK, toCPU # <<>>, toCPU' = Tail(toCPU), NEW s, NEW e,
         IsMessage(1, s) /\ LastOut(s, e)'
           => e = [data |-> toCPU[1].data, part |-> toCPU[1].data.parts],
         ~IsMessage(1, s) /\ LastOut(s, e)'
           => LastOut(s, e)
  PROVE  /\ \A j \in 1 .. Len(toCPU) : PrevMessage(j, s, e)' => PrevMessage(j + 1, s, e)
         /\ \A j \in 1 .. Len(toCPU) - 1 : IsMessage(j, s)' <=> IsMessage(j + 1, s)
<1>n. PICK n \in Nat : n = Len(toCPU)
  BY DEF TypeOK
<1>1. \A i \in 1 .. n - 1 : toCPU'[i] = toCPU[i + 1]
  BY <1>n DEF TypeOK
<1>2. \A i \in 1 .. n - 1 : IsMessage(i, s)' <=> IsMessage(i + 1, s)
  BY <1>1, Zenon DEF IsMessage
<1>3. ASSUME NEW j \in 1 .. n, PrevMessage(j, s, e)' PROVE PrevMessage(j + 1, s, e)
  <2>4. CASE \E i \in 1 .. j - 1 :
             /\ IsMessage(i, s)' /\ e = [data |-> toCPU'[i].data, part |-> toCPU'[i].data.parts]
             /\ \A k \in i + 1 .. j - 1 : ~IsMessage(k, s)'
    <3>1. PICK i \in 1 .. j - 1 :
             /\ IsMessage(i, s)' /\ e = [data |-> toCPU'[i].data, part |-> toCPU'[i].data.parts]
             /\ \A k \in i + 1 .. j - 1 : ~IsMessage(k, s)'
      BY <2>4
    <3>2. i \in 1 .. n - 1 /\ i + 1 \in 1 .. (j + 1) - 1
      OBVIOUS
    <3>3. ASSUME NEW k \in (i + 1) + 1 .. (j + 1) - 1 PROVE ~IsMessage(k, s)
      <4>1. PICK l \in i + 1 .. j - 1 : k = l + 1 /\ l \in 1 .. n - 1
        <5>1. k - 1 \in i + 1 .. j - 1 /\ k = (k - 1) + 1 /\ k - 1 \in 1 .. n - 1
          OBVIOUS
        <5> QED
          BY <5>1
      <4> QED
        BY <1>2, <3>1, <4>1, Zenon
    <3> QED
      BY <1>1, <1>2, <3>1, <3>2, <3>3, Zenon DEF PrevMessage
  <2>5. CASE (\A k \in 1 .. j - 1 : ~IsMessage(k, s)') /\ LastOut(s, e)'
    <3>1. ASSUME NEW k \in 2 .. (j + 1) - 1 PROVE ~IsMessage(k, s)
      <4>1. PICK l \in 1 .. j - 1 : k = l + 1 /\ l \in 1 .. n - 1
        <5>1. k - 1 \in 1 .. j - 1 /\ k = (k - 1) + 1 /\ k - 1 \in 1 .. n - 1
          OBVIOUS
        <5> QED
          BY <5>1
      <4> QED
        BY <1>2, <2>5, <4>1, Zenon
    <3>2. /\ 1 \in 1 .. (j + 1) - 1 /\ 1 + 1 = 2
          /\ \A k \in 1 .. (j + 1) - 1 : k = 1 \/ k \in 2 .. (j + 1) - 1
      OBVIOUS
    <3>3. CASE IsMessage(1, s)
      <4>1. e = [data |-> toCPU[1].data, part |-> toCPU[1].data.parts]
        BY <2>5, <3>3
      <4>2. \A k \in 1 + 1 .. (j + 1) - 1 : ~IsMessage(k, s)
        BY <3>1, <3>2, Zenon
      <4> QED
        BY <3>2, <3>3, <4>1, <4>2, Zenon DEF PrevMessage
    <3>4. CASE ~IsMessage(1, s)
      BY <2>5, <3>1, <3>2, <3>4, Zenon DEF PrevMessage
    <3> QED
      BY <3>3, <3>4
  <2> QED
    BY <1>3, <2>4, <2>5, Zenon DEF PrevMessage
<1> QED
  BY <1>n, <1>2, <1>3, Zenon

LEMMA ReportStays ==
  ASSUME toCPU' = toCPU, NEW s, NEW e, NEW j \in Nat,
         (IsMessage(1, s) /\ 1 < j)
           \/ (LastOut(s, e)' => LastOut(s, e))
  PROVE  PrevMessage(j, s, e)' => PrevMessage(j, s, e)
<1>1. \A i : IsMessage(i, s)' <=> IsMessage(i, s)
  BY Zenon DEF IsMessage
<1>2. 1 < j => 1 \in 1 .. j - 1
  OBVIOUS
<1> QED
  BY <1>1, <1>2, Zenon DEF PrevMessage

\* The number of frames of a message does not matter for its first one.
LEMMA FitsFirst ==
  ASSUME NEW c, NEW e, NEW m, NEW l, m.conn = l.conn, m.nr = l.nr
  PROVE  Fits(c, e, [data |-> m, part |-> 1]) <=> Fits(c, e, [data |-> l, part |-> 1])
BY DEF Fits, NextEcho

LEMMA FitsFrame ==
  ASSUME NEW c, NEW e, NEW f, NEW g, f.data = g.data, f.part = g.part
  PROVE  Fits(c, e, f) <=> Fits(c, e, g)
BY Zenon DEF Fits, NextEcho

\* Nothing of a frame matters when its socket has got a new connection.
LEMMA FitsOld ==
  ASSUME NEW c \in Nat, NEW e, NEW f, f.data.conn \in Nat, f.data.conn < c, e.data.conn < c
  PROVE  Fits(c, e, f)
BY DEF Fits

\* Who is before a place has had a connection no later than the latest.
LEMMA BoundedBefore ==
  ASSUME TypeOK, WayType, NEW s \in EngineSockets, Bounded(s), NEW e
  PROVE  /\ \A j \in 1 .. Len(fromCPU) + 1 : PrevFrame(j, s, e) => e.data.conn <= conns[s]
         /\ \A j \in 1 .. Len(toCPU) + 1 : PrevMessage(j, s, e) => e.data.conn <= conns[s]
<1>n. PICK n \in Nat, m \in Nat : n = Len(fromCPU) /\ m = Len(toCPU)
  BY DEF WayType, TypeOK
<1>1. ASSUME NEW j \in 1 .. n + 1, PrevFrame(j, s, e) PROVE e.data.conn <= conns[s]
  <2>1. \A i \in 1 .. j - 1 : i \in 1 .. Len(fromCPU)
    BY <1>n
  <2>2. CASE e = echoed[s]
    BY <2>2 DEF Bounded
  <2>3. ASSUME NEW i \in 1 .. j - 1, IsFrame(i, s), e = [data |-> fromCPU[i].data, part |-> fromCPU[i].part]
        PROVE  e.data.conn <= conns[s]
    <3>1. e.data = fromCPU[i].data
      BY <2>3
    <3> QED
      BY <2>1, <2>3, <3>1, Zenon DEF Bounded
  <2> QED
    BY <1>1, <2>2, <2>3, Zenon DEF PrevFrame
<1>2. ASSUME LastOut(s, e) PROVE e.data.conn <= conns[s]
  <2>1. n + 1 \in 1 .. n + 1 /\ Len(fromCPU) + 1 = n + 1
    BY <1>n
  <2> QED
    BY <1>1, <1>2, <2>1 DEF LastOut
<1>3. ASSUME NEW j \in 1 .. m + 1, PrevMessage(j, s, e) PROVE e.data.conn <= conns[s]
  <2>1. \A i \in 1 .. j - 1 : i \in 1 .. Len(toCPU)
    BY <1>n
  <2>3. ASSUME NEW i \in 1 .. j - 1, IsMessage(i, s),
               e = [data |-> toCPU[i].data, part |-> toCPU[i].data.parts]
        PROVE  e.data.conn <= conns[s]
    <3>1. e.data = toCPU[i].data
      BY <2>3
    <3> QED
      BY <2>1, <2>3, <3>1, Zenon DEF Bounded
  <2> QED
    BY <1>2, <1>3, <2>3, Zenon DEF PrevMessage
<1> QED
  BY <1>n, <1>1, <1>3

\* Something is reported: a socket it is not about, or that only changes its
\* state, keeps its place in the line.
LEMMA LineKept ==
  ASSUME TypeOK, WayType, NEW f \in InboundFrame, toCPU' = Append(toCPU, f),
         UNCHANGED <<fromCPU, echoed, pos>>,
         NEW t \in EngineSockets, f.socket # t \/ f.data = None,
         conns'[t] = conns[t], sent'[t] = sent[t],
         tcp'[t] = "Established" => tcp[t] = "Established"
  PROVE  /\ Bounded(t) => Bounded(t)'
         /\ InLine(t) => InLine(t)'
<1>n. PICK m \in Nat : m = Len(toCPU) /\ Len(toCPU') = m + 1
  BY DEF TypeOK
<1>0. \A e : LastOut(t, e)' => LastOut(t, e)
  BY Zenon DEF LastOut, PrevFrame, IsFrame
<1>1. /\ \A j \in 1 .. m : toCPU'[j] = toCPU[j] /\ (IsMessage(j, t)' <=> IsMessage(j, t))
      /\ toCPU'[m + 1] = f
  <2>1. \A j \in 1 .. m : toCPU'[j] = toCPU[j]
    BY <1>n DEF TypeOK
  <2>2. toCPU'[m + 1] = f
    BY <1>n DEF TypeOK
  <2> QED
    BY <2>1, <2>2, Zenon DEF IsMessage
<1>2. ~IsMessage(m + 1, t)'
  BY <1>1 DEF IsMessage
<1>3. \A e : /\ \A j \in 1 .. m : PrevMessage(j, t, e)' => PrevMessage(j, t, e)
             /\ LastIn(t, e)' => LastIn(t, e)
  <2> SUFFICES ASSUME NEW e
               PROVE  /\ \A j \in 1 .. m : PrevMessage(j, t, e)' => PrevMessage(j, t, e)
                      /\ LastIn(t, e)' => LastIn(t, e)
    OBVIOUS
  <2>1. \A j \in 1 .. Len(toCPU) + 1 : PrevMessage(j, t, e)' => PrevMessage(j, t, e)
    BY <1>0, ReportAppended
  <2>2. LastIn(t, e)' => LastIn(t, e)
    BY <1>0, ReportAppended
  <2> QED
    BY <1>n, <2>1, <2>2
<1>4. \A j \in 1 .. m + 1 : j \in 1 .. m \/ j = m + 1
  OBVIOUS
<1>5. ASSUME Bounded(t) PROVE Bounded(t)'
  <2>1. ASSUME NEW i \in 1 .. m + 1, IsMessage(i, t)' PROVE toCPU'[i].data.conn <= conns[t]
    BY <1>n, <1>1, <1>2, <1>4, <1>5, <2>1, Zenon DEF Bounded
  <2> QED
    BY <1>n, <1>5, <2>1, Zenon DEF Bounded, IsFrame
<1>6. ASSUME OutLine(t) PROVE OutLine(t)'
  BY <1>6, Zenon DEF OutLine, IsFrame, PrevFrame
<1>7. ASSUME MessageLine(t) PROVE MessageLine(t)'
  <2> SUFFICES ASSUME NEW j \in 1 .. Len(toCPU'), IsMessage(j, t)', NEW e \in Given, PrevMessage(j, t, e)'
               PROVE  Fits(conns[t], e, [data |-> toCPU'[j].data, part |-> Written(j) + 1])
    BY Zenon DEF MessageLine, Written
  <2>1. j \in 1 .. m
    BY <1>n, <1>2, <1>4, Zenon
  <2> QED
    BY <1>n, <1>1, <1>3, <1>7, <2>1, Zenon DEF MessageLine
<1>8. ASSUME NewLine(t) PROVE NewLine(t)'
  BY <1>3, <1>8, Zenon DEF NewLine
<1> QED
  BY <1>5, <1>6, <1>7, <1>8, Zenon DEF InLine

\* A new connection: everything in the line is of earlier ones.
LEMMA LineOfConnection ==
  ASSUME TypeOK, WayType, NEW f \in InboundFrame, toCPU' = Append(toCPU, f),
         UNCHANGED <<fromCPU, echoed, pos>>,
         NEW s \in EngineSockets, f.data = None,
         conns'[s] = conns[s] + 1, sent'[s] = 0, Bounded(s)
  PROVE  Bounded(s)' /\ InLine(s)'
<1>n. PICK n \in Nat, m \in Nat : n = Len(fromCPU) /\ m = Len(toCPU) /\ Len(toCPU') = m + 1
  BY DEF TypeOK, WayType
<1>c. /\ conns[s] \in Nat /\ conns'[s] \in Nat /\ conns[s] < conns'[s]
      /\ \A x \in Nat : x <= conns[s] => x <= conns'[s] /\ x < conns'[s]
  BY DEF TypeOK
<1>1. /\ \A j \in 1 .. m : toCPU'[j] = toCPU[j] /\ (IsMessage(j, s)' <=> IsMessage(j, s))
      /\ toCPU'[m + 1] = f /\ ~IsMessage(m + 1, s)'
  <2>1. \A j \in 1 .. m : toCPU'[j] = toCPU[j]
    BY <1>n DEF TypeOK
  <2>2. toCPU'[m + 1] = f
    BY <1>n DEF TypeOK
  <2> QED
    BY <2>1, <2>2, Zenon DEF IsMessage
<1>2. \A j \in 1 .. m + 1 : IsMessage(j, s)' => j \in 1 .. m /\ IsMessage(j, s)
  <2>1. \A j \in 1 .. m + 1 : j \in 1 .. m \/ j = m + 1
    OBVIOUS
  <2> QED
    BY <1>1, <2>1, Zenon
<1>3. /\ \A i \in 1 .. n : IsFrame(i, s) => fromCPU[i].data.conn \in Nat /\ fromCPU[i].data.conn <= conns[s]
      /\ \A i \in 1 .. m : IsMessage(i, s) => toCPU[i].data.conn \in Nat /\ toCPU[i].data.conn <= conns[s]
      /\ echoed[s].data.conn \in Nat /\ echoed[s].data.conn <= conns[s]
  <2>1. \A i \in 1 .. n : fromCPU[i].data.conn \in Nat
    <3> SUFFICES ASSUME NEW i \in 1 .. n PROVE fromCPU[i].data.conn \in Nat
      OBVIOUS
    <3>1. fromCPU[i] \in OutboundFrame
      BY <1>n DEF WayType
    <3>2. fromCPU[i].data \in Messages
      BY <3>1 DEF OutboundFrame
    <3> QED
      BY <3>2 DEF Messages
  <2>2. \A i \in 1 .. m : toCPU[i].data # None => toCPU[i].data.conn \in Nat
    <3> SUFFICES ASSUME NEW i \in 1 .. m, toCPU[i].data # None PROVE toCPU[i].data.conn \in Nat
      OBVIOUS
    <3>1. toCPU[i] \in InboundFrame
      BY <1>n DEF TypeOK
    <3>2. toCPU[i].data \in Messages
      BY <3>1 DEF InboundFrame
    <3> QED
      BY <3>2 DEF Messages
  <2>3. echoed[s].data.conn \in Nat
    BY DEF WayType, Given, Messages
  <2> QED
    BY <1>n, <2>1, <2>2, <2>3, Zenon DEF Bounded, IsMessage
<1>4. Bounded(s)'
  <2>1. \A i \in 1 .. n : IsFrame(i, s)' => fromCPU'[i].data.conn <= conns'[s]
    BY <1>3, <1>c, Zenon DEF IsFrame
  <2>2. \A i \in 1 .. m + 1 : IsMessage(i, s)' => toCPU'[i].data.conn <= conns'[s]
    BY <1>1, <1>2, <1>3, <1>c, Zenon
  <2>3. echoed'[s].data.conn <= conns'[s]
    BY <1>3, <1>c, Zenon
  <2> QED
    BY <1>n, <2>1, <2>2, <2>3, Zenon DEF Bounded
<1>5. \A e \in Given : e.data.conn \in Nat
  BY DEF Given, Messages
<1>6. ASSUME NEW e \in Given
      PROVE  /\ \A j \in 1 .. n : PrevFrame(j, s, e)' => e.data.conn < conns'[s]
             /\ \A j \in 1 .. m : PrevMessage(j, s, e)' => e.data.conn < conns'[s]
             /\ LastIn(s, e)' => e.data.conn < conns'[s]
  <2>0. LastOut(s, e)' => LastOut(s, e)
    BY Zenon DEF LastOut, PrevFrame, IsFrame
  <2>1. /\ \A j \in 1 .. Len(toCPU) + 1 : PrevMessage(j, s, e)' => PrevMessage(j, s, e)
        /\ LastIn(s, e)' => LastIn(s, e)
    BY <2>0, ReportAppended
  <2>2. /\ \A j \in 1 .. n + 1 : PrevFrame(j, s, e) => e.data.conn <= conns[s]
        /\ \A j \in 1 .. m + 1 : PrevMessage(j, s, e) => e.data.conn <= conns[s]
    BY <1>n, BoundedBefore
  <2>3. LastIn(s, e) => e.data.conn <= conns[s]
    <3>1. m + 1 \in 1 .. m + 1 /\ Len(toCPU) + 1 = m + 1
      BY <1>n
    <3> QED
      BY <2>2, <3>1 DEF LastIn
  <2>4. /\ \A j \in 1 .. n : j \in 1 .. n + 1
        /\ \A j \in 1 .. m : j \in 1 .. m + 1 /\ j \in 1 .. Len(toCPU) + 1
    BY <1>n
  <2>5. \A j : PrevFrame(j, s, e)' => PrevFrame(j, s, e)
    BY Zenon DEF PrevFrame, IsFrame
  <2>6. e.data.conn <= conns[s] => e.data.conn < conns'[s]
    BY <1>5, <1>c, Zenon
  <2> QED
    BY <2>1, <2>2, <2>3, <2>4, <2>5, <2>6, Zenon
<1>7. OutLine(s)'
  <2> SUFFICES ASSUME NEW j \in 1 .. Len(fromCPU'), IsFrame(j, s)', NEW e \in Given, PrevFrame(j, s, e)'
               PROVE  Fits(conns'[s], e, fromCPU'[j])
    BY Zenon DEF OutLine
  <2>1. j \in 1 .. n /\ IsFrame(j, s) /\ fromCPU'[j] = fromCPU[j]
    BY <1>n, Zenon DEF IsFrame
  <2>2. fromCPU'[j].data.conn \in Nat /\ fromCPU'[j].data.conn < conns'[s] /\ e.data.conn < conns'[s]
    BY <1>3, <1>6, <1>c, <2>1, Zenon
  <2> QED
    BY <1>c, <2>2, FitsOld, Zenon
<1>8. MessageLine(s)'
  <2> SUFFICES ASSUME NEW j \in 1 .. Len(toCPU'), IsMessage(j, s)', NEW e \in Given, PrevMessage(j, s, e)'
               PROVE  Fits(conns'[s], e, [data |-> toCPU'[j].data, part |-> Written(j)' + 1])
    BY Zenon DEF MessageLine, Written
  <2>1. j \in 1 .. m /\ IsMessage(j, s) /\ toCPU'[j] = toCPU[j]
    BY <1>n, <1>1, <1>2, Zenon
  <2>2. toCPU'[j].data.conn \in Nat /\ toCPU'[j].data.conn < conns'[s] /\ e.data.conn < conns'[s]
    BY <1>3, <1>6, <1>c, <2>1, Zenon
  <2> HIDE DEF Written
  <2>3. [data |-> toCPU'[j].data, part |-> Written(j)' + 1].data = toCPU'[j].data
    OBVIOUS
  <2> QED
    BY <1>c, <2>2, <2>3, FitsOld
<1>9. NewLine(s)'
  <2> SUFFICES ASSUME NEW e \in Given, LastIn(s, e)'
               PROVE  Fits(conns'[s], e, [data |-> [conn |-> conns'[s], nr |-> sent'[s] + 1, parts |-> 1], part |-> 1])
    BY Zenon DEF NewLine
  <2>1. e.data.conn < conns'[s] /\ sent'[s] + 1 = 1
    BY <1>6
  <2> QED
    BY <2>1 DEF Fits, NextEcho
<1> QED
  BY <1>4, <1>7, <1>8, <1>9, Zenon DEF InLine

\* A message comes after those of its connection.
LEMMA LineOfMessage ==
  ASSUME TypeOK, WayType, NEW f \in InboundFrame, toCPU' = Append(toCPU, f),
         UNCHANGED <<fromCPU, echoed, pos>>,
         NEW s \in EngineSockets, f.socket = s, f.data # None, pos # None => toCPU # <<>>,
         f.data.conn = conns[s], f.data.nr = sent[s] + 1,
         conns'[s] = conns[s], sent'[s] = sent[s] + 1, tcp[s] = "Established", Bounded(s), InLine(s)
  PROVE  Bounded(s)' /\ InLine(s)'
<1>n. PICK m \in Nat : m = Len(toCPU) /\ Len(toCPU') = m + 1
  BY DEF TypeOK
<1>c. conns[s] \in Nat /\ sent[s] \in Nat /\ f.data \in Messages /\ f.data.parts \in Nat
  BY DEF TypeOK, InboundFrame, Messages
<1>0. \A e : LastOut(s, e)' => LastOut(s, e)
  BY Zenon DEF LastOut, PrevFrame, IsFrame
<1>1. /\ \A j \in 1 .. m : toCPU'[j] = toCPU[j] /\ (IsMessage(j, s)' <=> IsMessage(j, s))
      /\ toCPU'[m + 1] = f
  <2>1. \A j \in 1 .. m : toCPU'[j] = toCPU[j]
    BY <1>n DEF TypeOK
  <2>2. toCPU'[m + 1] = f
    BY <1>n DEF TypeOK
  <2> QED
    BY <2>1, <2>2, Zenon DEF IsMessage
<1>3. ASSUME NEW e
      PROVE  /\ \A j \in 1 .. m : PrevMessage(j, s, e)' => PrevMessage(j, s, e)
             /\ PrevMessage(m + 1, s, e)' => LastIn(s, e)
             /\ LastIn(s, e)' => e = [data |-> f.data, part |-> f.data.parts]
  <2>1. \A j \in 1 .. Len(toCPU) + 1 : PrevMessage(j, s, e)' => PrevMessage(j, s, e)
    BY <1>0, ReportAppended
  <2>2. LastIn(s, e)' => e = [data |-> f.data, part |-> f.data.parts]
    BY <1>0, ReportAppended
  <2>3. PrevMessage(m + 1, s, e) => LastIn(s, e)
    BY <1>n DEF LastIn
  <2>4. m + 1 \in 1 .. Len(toCPU) + 1 /\ \A j \in 1 .. m : j \in 1 .. Len(toCPU) + 1
    BY <1>n
  <2>5. \A j \in 1 .. m : PrevMessage(j, s, e)' => PrevMessage(j, s, e)
    BY <2>1, <2>4, Zenon
  <2>6. PrevMessage(m + 1, s, e)' => PrevMessage(m + 1, s, e)
    BY <2>1, <2>4, Zenon
  <2> QED
    BY <2>2, <2>3, <2>5, <2>6, Zenon
<1>4. \A j \in 1 .. m + 1 : j \in 1 .. m \/ j = m + 1
  OBVIOUS
<1>5. Bounded(s)'
  <2>1. ASSUME NEW i \in 1 .. m + 1, IsMessage(i, s)' PROVE toCPU'[i].data.conn <= conns[s]
    <3>1. CASE i \in 1 .. m
      BY <1>n, <1>1, <2>1, <3>1, Zenon DEF Bounded
    <3>2. CASE i = m + 1
      <4>1. toCPU'[i].data.conn = conns[s]
        BY <1>1, <3>2
      <4> QED
        BY <1>c, <4>1
    <3> QED
      BY <1>4, <3>1, <3>2
  <2> QED
    BY <1>n, <2>1, Zenon DEF Bounded, IsFrame
<1>6. OutLine(s)'
  BY Zenon DEF InLine, OutLine, IsFrame, PrevFrame
<1>7. MessageLine(s)'
  <2> SUFFICES ASSUME NEW j \in 1 .. Len(toCPU'), IsMessage(j, s)', NEW e \in Given, PrevMessage(j, s, e)'
               PROVE  Fits(conns[s], e, [data |-> toCPU'[j].data, part |-> Written(j) + 1])
    BY Zenon DEF MessageLine, Written
  <2>1. CASE j \in 1 .. m
    BY <1>n, <1>1, <1>3, <2>1, Zenon DEF InLine, MessageLine
  <2>2. CASE j = m + 1
    <3>1. Fits(conns[s], e, [data |-> [conn |-> conns[s], nr |-> sent[s] + 1, parts |-> 1], part |-> 1])
      BY <1>3, <2>2, Zenon DEF InLine, NewLine
    <3>2. Fits(conns[s], e, [data |-> f.data, part |-> 1])
      <4> DEFINE l == [conn |-> conns[s], nr |-> sent[s] + 1, parts |-> 1]
      <4>1. f.data.conn = l.conn /\ f.data.nr = l.nr
        OBVIOUS
      <4> HIDE DEF l
      <4>2. Fits(conns[s], e, [data |-> f.data, part |-> 1]) <=> Fits(conns[s], e, [data |-> l, part |-> 1])
        BY <4>1, FitsFirst, Zenon
      <4> QED
        BY <3>1, <4>2 DEF l
    <3>3. Written(j) + 1 = 1
      <4>1. pos # None => m >= 1
        BY <1>n DEF TypeOK
      <4> QED
        BY <2>2, <4>1 DEF Written
    <3>4. toCPU'[j].data = f.data
      BY <1>1, <2>2
    <3> QED
      BY <3>2, <3>3, <3>4
  <2> QED
    BY <1>n, <1>4, <2>1, <2>2
<1>8. NewLine(s)'
  <2> SUFFICES ASSUME NEW e \in Given, LastIn(s, e)'
               PROVE  Fits(conns[s], e, [data |-> [conn |-> conns[s], nr |-> sent'[s] + 1, parts |-> 1], part |-> 1])
    BY Zenon DEF NewLine
  <2>1. e = [data |-> f.data, part |-> f.data.parts]
    BY <1>3
  <2>2. e.data.conn = conns[s] /\ e.data.nr = sent[s] + 1 /\ e.part = e.data.parts /\ sent'[s] + 1 > 1
        /\ e.data.nr = (sent'[s] + 1) - 1
    BY <1>c, <2>1
  <2> QED
    BY <2>2 DEF Fits, NextEcho
<1> QED
  BY <1>5, <1>6, <1>7, <1>8, Zenon DEF InLine

LEMMA ReportType ==
  ASSUME TypeOK, WayType, NEW f \in InboundFrame, toCPU' = Append(toCPU, f),
         UNCHANGED <<fromCPU, echoed, pos>>, f.data # None => 0 < f.data.parts
  PROVE  WayType'
<1>p. pos # None => Len(toCPU) # 0
  BY DEF TypeOK
<1>n. PICK m \in Nat : m = Len(toCPU) /\ Len(toCPU') = m + 1 /\ (pos # None => 1 <= m)
  BY <1>p DEF TypeOK
<1>1. \A j \in 1 .. m : toCPU'[j] = toCPU[j]
  BY <1>n DEF TypeOK
<1>2. toCPU'[m + 1] = f
  BY <1>n DEF TypeOK
<1>3. ASSUME NEW i \in 1 .. m + 1, toCPU'[i].data # None
      PROVE  Written(i)' < toCPU'[i].data.parts
  <2>0. PICK g : g = toCPU'[i]
    OBVIOUS
  <2>u. Written(i)' = Written(i)
    BY DEF Written
  <2>1. PICK w : w = Written(i)
    OBVIOUS
  <2>2. ASSUME i \in 1 .. m PROVE w < g.data.parts
    <3>1. g = toCPU[i] /\ g.data # None /\ i \in 1 .. Len(toCPU)
      BY <1>n, <1>1, <1>3, <2>0, <2>2, Zenon
    <3> QED
      BY <2>1, <3>1, Zenon DEF WayType
  <2>3. ASSUME i = m + 1 PROVE w < g.data.parts
    <3>1. g = f /\ g.data # None
      BY <1>2, <1>3, <2>0, <2>3, Zenon
    <3>2. 0 < g.data.parts
      BY <3>1
    <3>3. Written(i) = 0
      BY <1>n, <2>3 DEF Written
    <3>4. w = 0
      BY <2>1, <3>3, Zenon
    <3> QED
      BY <3>2, <3>4, Zenon
  <2>4. w < g.data.parts
    BY <2>2, <2>3
  <2> QED
    BY <2>0, <2>u, <2>1, <2>4, Zenon
<1>4. pos' # None => toCPU'[1].data # None
  <2>1. pos # None => 1 \in 1 .. m
    BY <1>n
  <2> QED
    BY <1>1, <2>1, Zenon DEF WayType
<1>5. fromCPU' \in Seq(OutboundFrame) /\ echoed' \in [EngineSockets -> Given]
  BY DEF WayType
<1> QED
  BY <1>n, <1>3, <1>4, <1>5, Zenon DEF WayType

\* A report leaves all sockets in line when it leaves its own.
LEMMA ReportWay ==
  ASSUME TypeOK, WayInv, NEW s \in EngineSockets, NEW f \in InboundFrame, f.socket = s,
         toCPU' = Append(toCPU, f), UNCHANGED <<fromCPU, echoed, pos>>,
         f.data # None => 0 < f.data.parts,
         \A t \in EngineSockets : t # s =>
           tcp'[t] = tcp[t] /\ conns'[t] = conns[t] /\ sent'[t] = sent[t],
         Bounded(s)' /\ (HasClient(s)' => InLine(s)')
  PROVE  WayInv'
<1>1. WayType'
  BY ReportType, Zenon DEF WayInv
<1>2. ASSUME NEW t \in EngineSockets, t # s
      PROVE  Bounded(t)' /\ (HasClient(t)' => InLine(t)')
  <2>1. Bounded(t) /\ (HasClient(t) => InLine(t)) /\ WayType
    BY Zenon DEF WayInv
  <2>2. HasClient(t)' => HasClient(t)
    BY <1>2, Zenon DEF HasClient
  <2>3. conns'[t] = conns[t] /\ sent'[t] = sent[t] /\ tcp'[t] = tcp[t]
    BY <1>2, Zenon
  <2>4. f.socket # t
    BY <1>2
  <2>5. Bounded(t)' /\ (InLine(t) => InLine(t)')
    BY <2>1, <2>3, <2>4, LineKept
  <2> QED
    BY <2>1, <2>2, <2>5, Zenon
<1> QED
  BY <1>1, <1>2, Zenon DEF WayInv

LEMMA EngineWay ==
  ASSUME IInv, WayInv, NEW s \in EngineSockets, Engine(s)
  PROVE  WayInv'
<1>t. TypeOK /\ WayType /\ Bounded(s) /\ (HasClient(s) => InLine(s))
  BY Zenon DEF IInv, WayInv
<1>p. pos # None => toCPU # <<>>
  BY <1>t DEF TypeOK
<1>r. ASSUME NEW state \in Reports \cup {None}, NEW data \in Messages \cup {None}, Report(s, state, data)
      PROVE  /\ InboundHeader(s, state, data) \in InboundFrame
             /\ InboundHeader(s, state, data).socket = s
             /\ InboundHeader(s, state, data).data = data
             /\ toCPU' = Append(toCPU, InboundHeader(s, state, data))
             /\ UNCHANGED <<fromCPU, echoed, pos>>
  BY <1>r DEF Report, InboundHeader, InboundFrame, host
<1>n. None \in Messages \cup {None} /\ Reports \subseteq Reports \cup {None} /\ None \in Reports \cup {None}
  OBVIOUS
<1>f. tcp \in [EngineSockets -> States] /\ conns \in [EngineSockets -> Nat] /\ sent \in [EngineSockets -> Nat]
  BY <1>t DEF TypeOK
<1>o. ASSUME NEW data \in Messages \cup {None}, NEW state \in Reports \cup {None}, Report(s, state, data),
             data # None => 0 < data.parts,
             \A t \in EngineSockets : t # s =>
               tcp'[t] = tcp[t] /\ conns'[t] = conns[t] /\ sent'[t] = sent[t],
             Bounded(s)' /\ (HasClient(s)' => InLine(s)')
      PROVE  WayInv'
  <2> DEFINE f == InboundHeader(s, state, data)
  <2>1. /\ f \in InboundFrame /\ f.socket = s /\ f.data = data
        /\ toCPU' = Append(toCPU, f) /\ UNCHANGED <<fromCPU, echoed, pos>>
    BY <1>o, <1>r, Zenon
  <2> HIDE DEF f
  <2>2. f.data # None => 0 < f.data.parts
    BY <1>o, <2>1
  <2> QED
    BY <1>o, <1>t, <2>1, <2>2, ReportWay
<1>k. ASSUME NEW state \in Reports, Report(s, state, None), conns' = conns, sent' = sent,
             tcp' = [tcp EXCEPT ![s] = state], HasClient(s)' => HasClient(s),
             state # "Established"
      PROVE  WayInv'
  <2> DEFINE f == InboundHeader(s, state, None)
  <2>1. /\ f \in InboundFrame /\ f.data = None
        /\ toCPU' = Append(toCPU, f) /\ UNCHANGED <<fromCPU, echoed, pos>>
    BY <1>k, <1>r, <1>n, Zenon
  <2> HIDE DEF f
  <2>2. tcp'[s] # "Established" /\ \A t \in EngineSockets : t # s => tcp'[t] = tcp[t]
    BY <1>f, <1>k
  <2>3. Bounded(s)' /\ (InLine(s) => InLine(s)')
    BY <1>t, <1>k, <2>1, <2>2, LineKept
  <2> QED
    BY <1>t, <1>k, <1>n, <1>o, <2>2, <2>3, Zenon
<1>m. ASSUME NEW state \in Reports \cup {None}, NEW m \in NextMessages(s), Report(s, state, m),
             tcp[s] = "Established", sent' = [sent EXCEPT ![s] = @ + 1], conns' = conns,
             \A t \in EngineSockets : t # s => tcp'[t] = tcp[t]
      PROVE  WayInv'
  <2> DEFINE f == InboundHeader(s, state, m)
  <2>0. m \in Messages /\ m.conn = conns[s] /\ m.nr = sent[s] + 1 /\ 0 < m.parts
    <3>1. PICK n \in 1 .. MaxFrames : m = [conn |-> conns[s], nr |-> sent[s] + 1, parts |-> n]
      BY <1>m DEF NextMessages
    <3>2. conns[s] \in Nat /\ sent[s] + 1 \in Nat /\ n \in Nat /\ 0 < n
      BY <1>f
    <3> QED
      BY <3>1, <3>2 DEF Messages
  <2>1. /\ f \in InboundFrame /\ f.socket = s /\ f.data = m
        /\ toCPU' = Append(toCPU, f) /\ UNCHANGED <<fromCPU, echoed, pos>>
    BY <1>m, <1>r, <2>0, Zenon
  <2> HIDE DEF f
  <2>2. m # None
    BY <2>0, NoMessageAssumption DEF Messages
  <2>3. /\ conns'[s] = conns[s] /\ sent'[s] = sent[s] + 1
        /\ \A t \in EngineSockets : t # s => conns'[t] = conns[t] /\ sent'[t] = sent[t]
    BY <1>f, <1>m
  <2>4. InLine(s)
    BY <1>m, <1>t DEF HasClient
  <2>5. f.data # None /\ f.data.conn = conns[s] /\ f.data.nr = sent[s] + 1
    BY <2>0, <2>1, <2>2
  <2>6. Bounded(s)' /\ InLine(s)'
    BY <1>m, <1>p, <1>t, <2>1, <2>3, <2>4, <2>5, LineOfMessage
  <2> QED
    BY <1>m, <1>o, <2>0, <2>3, <2>6, Zenon
<1>1. CASE Connect(s)
  <2>1. /\ Report(s, "Established", None) /\ tcp' = [tcp EXCEPT ![s] = "Established"]
        /\ conns' = [conns EXCEPT ![s] = @ + 1] /\ sent' = [sent EXCEPT ![s] = 0]
    BY <1>1 DEF Connect, Becomes
  <2>2. /\ conns'[s] = conns[s] + 1 /\ sent'[s] = 0
        /\ \A t \in EngineSockets : t # s =>
             tcp'[t] = tcp[t] /\ conns'[t] = conns[t] /\ sent'[t] = sent[t]
    BY <1>f, <2>1
  <2> DEFINE f == InboundHeader(s, "Established", None)
  <2>3. "Established" \in Reports
    BY DEF Reports
  <2>4. /\ f \in InboundFrame /\ f.data = None
        /\ toCPU' = Append(toCPU, f) /\ UNCHANGED <<fromCPU, echoed, pos>>
    BY <1>n, <1>r, <2>1, <2>3, Zenon
  <2> HIDE DEF f
  <2>5. Bounded(s)' /\ InLine(s)'
    BY <1>t, <2>2, <2>4, LineOfConnection
  <2> QED
    BY <1>n, <1>o, <2>1, <2>2, <2>3, <2>5, Zenon
<1>2. CASE Message(s)
  <2>1. PICK m \in NextMessages(s) : Report(s, None, m)
    BY <1>2 DEF Message
  <2>2. /\ tcp[s] = "Established" /\ sent' = [sent EXCEPT ![s] = @ + 1] /\ conns' = conns
        /\ \A t \in EngineSockets : t # s => tcp'[t] = tcp[t]
    BY <1>2 DEF Message
  <2> QED
    BY <1>m, <1>n, <2>1, <2>2
<1>3. CASE ClientCloses(s)
  <2>1. /\ tcp[s] = "Established" /\ tcp' = [tcp EXCEPT ![s] = "CloseWait"] /\ conns' = conns
        /\ "CloseWait" \in Reports /\ "CloseWait" # "Established" /\ HasClient(s)
    BY <1>3 DEF ClientCloses, Becomes, Reports, HasClient
  <2>2. CASE Report(s, "CloseWait", None) /\ UNCHANGED sent
    BY <1>k, <2>1, <2>2
  <2>3. CASE (\E m \in NextMessages(s) : Report(s, "CloseWait", m)) /\ sent' = [sent EXCEPT ![s] = @ + 1]
    <3>1. PICK m \in NextMessages(s) : Report(s, "CloseWait", m)
      BY <2>3
    <3>2. \A t \in EngineSockets : t # s => tcp'[t] = tcp[t]
      BY <2>1
    <3>3. "CloseWait" \in Reports \cup {None}
      BY <2>1
    <3> QED
      BY <1>m, <2>1, <2>3, <3>1, <3>2, <3>3
  <2> QED
    BY <1>3, <2>2, <2>3 DEF ClientCloses
<1>4. CASE ClientResets(s)
  <2>1. PICK state \in {"Closed", "ClosedDataPending"} : Becomes(s, state) /\ Report(s, state, None)
    BY <1>4 DEF ClientResets
  <2>2. conns' = conns /\ sent' = sent /\ tcp' = [tcp EXCEPT ![s] = state]
        /\ state \in Reports /\ state # "Established"
    BY <1>4, <2>1 DEF ClientResets, Becomes, Reports
  <2>3. HasClient(s)' => HasClient(s)
    BY <1>f, <2>1, <2>2 DEF HasClient
  <2> QED
    BY <1>k, <2>1, <2>2, <2>3
<1>5. CASE CloseCompletes(s)
  <2>2. conns' = conns /\ sent' = sent /\ tcp' = [tcp EXCEPT ![s] = "Closed"]
        /\ "Closed" \in Reports /\ "Closed" # "Established" /\ Report(s, "Closed", None)
    BY <1>5 DEF CloseCompletes, Becomes, Reports
  <2>3. HasClient(s)' => HasClient(s)
    BY <1>f, <2>2 DEF HasClient
  <2> QED
    BY <1>k, <2>2, <2>3
<1> QED
  BY <1>1, <1>2, <1>3, <1>4, <1>5 DEF Engine

\* Who is before the first message has been handed on in fromCPU.
LEMMA BeforeHead ==
  ASSUME NEW s, NEW e
  PROVE  PrevMessage(1, s, e) <=> LastOut(s, e)
<1>1. \A i : i \notin 1 .. 1 - 1
  OBVIOUS
<1> QED
  BY <1>1, Zenon DEF PrevMessage

\* The reports stay, and nothing new is before them.
LEMMA ReportsStay ==
  ASSUME TypeOK, toCPU' = toCPU, NEW s, conns'[s] = conns[s], sent'[s] = sent[s],
         tcp'[s] = "Established" => tcp[s] = "Established",
         \A j : Written(j)' = Written(j),
         \A e : LastOut(s, e)' => LastOut(s, e),
         MessageLine(s), NewLine(s)
  PROVE  MessageLine(s)' /\ NewLine(s)'
<1>n. PICK m \in Nat : m = Len(toCPU)
  BY DEF TypeOK
<1>1. \A e : \A j \in Nat : PrevMessage(j, s, e)' => PrevMessage(j, s, e)
  BY ReportStays
<1>2. MessageLine(s)'
  <2>1. \A j \in 1 .. m : j \in Nat
    OBVIOUS
  <2> QED
    BY <1>n, <1>1, <2>1, Zenon DEF MessageLine, IsMessage
<1>3. NewLine(s)'
  <2>1. \A e : LastIn(s, e)' => LastIn(s, e)
    <3>1. m + 1 \in Nat /\ m + 1 = Len(toCPU) + 1
      BY <1>n
    <3> QED
      BY <1>1, <3>1, Zenon DEF LastIn
  <2> QED
    BY <2>1, Zenon DEF NewLine
<1> QED
  BY <1>2, <1>3

\* The first report is done with.
LEMMA HeadGone ==
  ASSUME TypeOK, toCPU # <<>>, toCPU' = Tail(toCPU), pos' = None,
         NEW s, conns'[s] = conns[s], sent'[s] = sent[s],
         tcp'[s] = "Established" => tcp[s] = "Established",
         \A e : IsMessage(1, s) /\ LastOut(s, e)'
                  => e = [data |-> toCPU[1].data, part |-> toCPU[1].data.parts],
         \A e : ~IsMessage(1, s) /\ LastOut(s, e)' => LastOut(s, e),
         MessageLine(s), NewLine(s)
  PROVE  MessageLine(s)' /\ NewLine(s)'
<1>n. PICK m \in Nat : m = Len(toCPU) /\ Len(toCPU') + 1 = m /\ 1 .. Len(toCPU') = 1 .. m - 1 /\ m # 0
  BY DEF TypeOK
<1>1. ASSUME NEW e
      PROVE  /\ \A j \in 1 .. m : PrevMessage(j, s, e)' => PrevMessage(j + 1, s, e)
             /\ \A j \in 1 .. m - 1 : IsMessage(j, s)' <=> IsMessage(j + 1, s)
  <2>1. \A j \in 1 .. Len(toCPU) : PrevMessage(j, s, e)' => PrevMessage(j + 1, s, e)
    BY ReportGone
  <2>2. \A j \in 1 .. Len(toCPU) - 1 : IsMessage(j, s)' <=> IsMessage(j + 1, s)
    BY ReportGone
  <2> QED
    BY <1>n, <2>1, <2>2
<1>2. \A j \in 1 .. m - 1 : j \in 1 .. m /\ j + 1 \in 1 .. m /\ j + 1 # 1
  OBVIOUS
<1>3. \A j \in 1 .. m - 1 : toCPU'[j] = toCPU[j + 1]
  BY <1>n DEF TypeOK
<1>4. \A j \in 1 .. m - 1 : Written(j)' = 0 /\ Written(j + 1) = 0
  BY <1>2, Zenon DEF Written
<1>5. MessageLine(s)'
  <2> SUFFICES ASSUME NEW j \in 1 .. m - 1, IsMessage(j, s)', NEW e \in Given, PrevMessage(j, s, e)'
               PROVE  Fits(conns[s], e, [data |-> toCPU'[j].data, part |-> Written(j)' + 1])
    BY <1>n, Zenon DEF MessageLine
  <2>1. j + 1 \in 1 .. Len(toCPU) /\ IsMessage(j + 1, s) /\ PrevMessage(j + 1, s, e)
    BY <1>n, <1>1, <1>2, Zenon
  <2>2. Fits(conns[s], e, [data |-> toCPU[j + 1].data, part |-> Written(j + 1) + 1])
    BY <2>1, Zenon DEF MessageLine
  <2>3. toCPU[j + 1] = toCPU'[j] /\ Written(j + 1) = Written(j)'
    BY <1>3, <1>4, Zenon
  <2> QED
    BY <2>2, <2>3, Zenon
<1>6. NewLine(s)'
  <2>1. ASSUME NEW e, LastIn(s, e)' PROVE LastIn(s, e)
    <3>1. m \in 1 .. m /\ m = Len(toCPU') + 1 /\ m + 1 = Len(toCPU) + 1
      BY <1>n
    <3> QED
      BY <1>1, <2>1, <3>1, Zenon DEF LastIn
  <2> QED
    BY <2>1, Zenon DEF NewLine
<1> QED
  BY <1>5, <1>6

\* One more frame of the first message has been written, not its last.
LEMMA HeadWritten ==
  ASSUME TypeOK, WayType, pos # None, toCPU' = toCPU, pos' = pos + 1,
         NEW s \in EngineSockets, conns'[s] = conns[s], sent'[s] = sent[s],
         tcp'[s] = "Established" => tcp[s] = "Established", Bounded(s), IsMessage(1, s),
         \A e : LastOut(s, e)' => e = [data |-> toCPU[1].data, part |-> pos + 1],
         MessageLine(s), NewLine(s)
  PROVE  MessageLine(s)' /\ NewLine(s)'
<1>n. PICK m \in Nat : m = Len(toCPU) /\ m # 0
  BY DEF TypeOK
<1>1. \A e : \A j \in Nat : 1 < j /\ PrevMessage(j, s, e)' => PrevMessage(j, s, e)
  BY ReportStays
<1>p. pos \in Nat /\ pos + 1 # None
  BY DEF TypeOK
<1>2. MessageLine(s)'
  <2> SUFFICES ASSUME NEW j \in 1 .. m, IsMessage(j, s)', NEW e \in Given, PrevMessage(j, s, e)'
               PROVE  Fits(conns[s], e, [data |-> toCPU[j].data, part |-> Written(j)' + 1])
    BY <1>n, Zenon DEF MessageLine
  <2>1. CASE j = 1
    <3>1. LastOut(s, e)'
      <4>1. \A i : i \notin 1 .. 1 - 1
        OBVIOUS
      <4> QED
        BY <2>1, <4>1, Zenon DEF PrevMessage
    <3>2. e = [data |-> toCPU[1].data, part |-> pos + 1]
      BY <3>1, Zenon
    <3>3. Written(1)' + 1 = pos + 2
      BY <1>p DEF Written
    <3>4. toCPU[1].data.conn \in Nat /\ conns[s] \in Nat /\ toCPU[1].data.conn <= conns[s]
      <4>1. 1 \in 1 .. Len(toCPU)
        BY <1>n
      <4>2. toCPU[1] \in InboundFrame
        BY <4>1 DEF TypeOK
      <4>5. toCPU[1].data # None
        BY Zenon DEF WayType
      <4>3. toCPU[1].data \in Messages
        BY <4>2, <4>5 DEF InboundFrame
      <4>4. toCPU[1].data.conn \in Nat /\ conns[s] \in Nat
        BY <4>3 DEF Messages, TypeOK
      <4> QED
        BY <4>1, <4>4, Zenon DEF Bounded
    <3>5. PICK d : d = toCPU[1].data
      OBVIOUS
    <3>6. Fits(conns[s], [data |-> d, part |-> pos + 1], [data |-> d, part |-> pos + 2])
      <4>1. d.conn = conns[s] \/ d.conn < conns[s]
        BY <3>4, <3>5
      <4>2. pos + 2 > 1 /\ (pos + 2) - 1 = pos + 1
        BY <1>p
      <4> QED
        BY <4>1, <4>2 DEF Fits, NextEcho
    <3> QED
      BY <2>1, <3>2, <3>3, <3>5, <3>6, Zenon
  <2>2. CASE 1 < j
    <3>1. PrevMessage(j, s, e) /\ IsMessage(j, s)
      <4>1. j \in Nat
        OBVIOUS
      <4> QED
        BY <1>1, <2>2, <4>1, Zenon DEF IsMessage
    <3>2. Written(j)' = Written(j)
      <4>1. j # 1
        BY <2>2
      <4> QED
        BY <4>1, Zenon DEF Written
    <3> QED
      BY <1>n, <3>1, <3>2, Zenon DEF MessageLine
  <2> QED
    BY <2>1, <2>2
<1>3. NewLine(s)'
  <2>1. ASSUME NEW e, LastIn(s, e)' PROVE LastIn(s, e)
    <3>1. m + 1 \in Nat /\ 1 < m + 1 /\ m + 1 = Len(toCPU) + 1
      BY <1>n
    <3> QED
      BY <1>1, <2>1, <3>1, Zenon DEF LastIn
  <2> QED
    BY <2>1, Zenon DEF NewLine
<1> QED
  BY <1>2, <1>3

\* The first message is of another socket: the reports stay as they are.
LEMMA OtherWritten ==
  ASSUME TypeOK, toCPU' = toCPU, NEW s, conns'[s] = conns[s], sent'[s] = sent[s],
         tcp'[s] = "Established" => tcp[s] = "Established", ~IsMessage(1, s),
         \A e : LastOut(s, e)' => LastOut(s, e),
         MessageLine(s), NewLine(s)
  PROVE  MessageLine(s)' /\ NewLine(s)'
<1>n. PICK m \in Nat : m = Len(toCPU)
  BY DEF TypeOK
<1>1. \A e : \A j \in Nat : PrevMessage(j, s, e)' => PrevMessage(j, s, e)
  BY ReportStays
<1>2. MessageLine(s)'
  <2>1. \A j \in 1 .. m : j \in Nat
    OBVIOUS
  <2>2. \A j : j # 1 => Written(j)' = Written(j)
    BY Zenon DEF Written
  <2>3. \A j : IsMessage(j, s)' => IsMessage(j, s) /\ j # 1
    BY Zenon DEF IsMessage
  <2> QED
    BY <1>n, <1>1, <2>1, <2>2, <2>3, Zenon DEF MessageLine
<1>3. NewLine(s)'
  <2>1. \A e : LastIn(s, e)' => LastIn(s, e)
    <3>1. m + 1 \in Nat /\ m + 1 = Len(toCPU) + 1
      BY <1>n
    <3> QED
      BY <1>1, <3>1, Zenon DEF LastIn
  <2> QED
    BY <2>1, Zenon DEF NewLine
<1> QED
  BY <1>2, <1>3

\* What stays of the reports when the first is done with.
LEMMA TailType ==
  ASSUME TypeOK, WayType, toCPU # <<>>, toCPU' = Tail(toCPU), pos' = None
  PROVE  /\ \A i \in 1 .. Len(toCPU') : toCPU'[i].data # None => Written(i)' < toCPU'[i].data.parts
         /\ \A s, c : (\A i \in 1 .. Len(toCPU) : IsMessage(i, s) => toCPU[i].data.conn <= c)
              => \A i \in 1 .. Len(toCPU') : IsMessage(i, s)' => toCPU'[i].data.conn <= c
<1>n. PICK m \in Nat : m = Len(toCPU) /\ Len(toCPU') + 1 = m /\ 1 .. Len(toCPU') = 1 .. m - 1
  BY DEF TypeOK
<1>1. \A j \in 1 .. m - 1 : toCPU'[j] = toCPU[j + 1]
  BY <1>n DEF TypeOK
<1>2. \A j \in 1 .. m - 1 : j + 1 \in 1 .. m /\ j + 1 # 1
  OBVIOUS
<1>3. \A j : Written(j)' = 0
  BY Zenon DEF Written
<1>4. \A j \in 1 .. m - 1 : Written(j + 1) = 0
  BY <1>2, Zenon DEF Written
<1>5. ASSUME NEW i \in 1 .. m - 1, toCPU'[i].data # None PROVE Written(i)' < toCPU'[i].data.parts
  <2>1. Written(i + 1) < toCPU[i + 1].data.parts
    BY <1>n, <1>1, <1>2, <1>5, Zenon DEF WayType
  <2>2. toCPU[i + 1] = toCPU'[i] /\ Written(i + 1) = Written(i)'
    BY <1>1, <1>3, <1>4, Zenon
  <2> QED
    BY <2>1, <2>2, Zenon
<1>6. ASSUME NEW s, NEW c, NEW i \in 1 .. m - 1, IsMessage(i, s)',
             \A k \in 1 .. m : IsMessage(k, s) => toCPU[k].data.conn <= c
      PROVE  toCPU'[i].data.conn <= c
  <2>1. toCPU[i + 1] = toCPU'[i] /\ i + 1 \in 1 .. m
    BY <1>1, <1>2, Zenon
  <2>2. IsMessage(i + 1, s)
    BY <1>6, <2>1, Zenon DEF IsMessage
  <2> QED
    BY <1>6, <2>1, <2>2, Zenon
<1> QED
  BY <1>n, <1>5, <1>6, Zenon

\* A frame of the message that waits longest is written.
LEMMA SendWay ==
  ASSUME IInv, WayInv, SendFrame
  PROVE  WayInv'
<1>t. TypeOK /\ WayType
  BY Zenon DEF IInv, WayInv
<1>1. /\ pos # None /\ fromCPU' = Append(fromCPU, OutboundHeader(Frame, pos + 1))
      /\ UNCHANGED <<tcp, conns, sent, echoed>>
      /\ \/ pos + 1 = Frame.data.parts /\ pos' = None /\ toCPU' = Tail(toCPU)
         \/ pos + 1 # Frame.data.parts /\ pos' = pos + 1 /\ toCPU' = toCPU
  BY Zenon DEF SendFrame, engine
<1>h. toCPU # <<>> /\ Frame = toCPU[1] /\ 1 \in 1 .. Len(toCPU)
  <2>1. toCPU # <<>> /\ Len(toCPU) # 0 /\ toCPU \in Seq(InboundFrame)
    BY <1>1, <1>t DEF TypeOK
  <2> QED
    BY <2>1 DEF Frame
<1>2. toCPU[1].socket \in EngineSockets /\ toCPU[1].data \in Messages /\ toCPU[1].data # None
  <2>1. toCPU[1] \in InboundFrame
    BY <1>h, <1>t DEF TypeOK
  <2>2. toCPU[1].data # None
    BY <1>1, <1>t, Zenon DEF WayType
  <2> QED
    BY <2>1, <2>2 DEF InboundFrame
<1>p. pos \in Nat /\ pos + 1 \in Nat
  BY <1>1, <1>t DEF TypeOK
<1>f. PICK f \in OutboundFrame : /\ fromCPU' = Append(fromCPU, f)
                                /\ f.socket = toCPU[1].socket /\ f.data = toCPU[1].data /\ f.part = pos + 1
  <2>1. OutboundHeader(Frame, pos + 1) \in OutboundFrame
    BY <1>2, <1>h, <1>p DEF OutboundHeader, OutboundFrame
  <2>2. /\ OutboundHeader(Frame, pos + 1).socket = toCPU[1].socket
        /\ OutboundHeader(Frame, pos + 1).data = toCPU[1].data
        /\ OutboundHeader(Frame, pos + 1).part = pos + 1
    BY <1>h DEF OutboundHeader
  <2> QED
    BY <1>1, <2>1, <2>2, Zenon
<1>n. PICK n \in Nat : n = Len(fromCPU) /\ 1 .. Len(fromCPU') = 1 .. n + 1
  BY <1>f, <1>t DEF WayType
<1>3. \A j \in 1 .. n : fromCPU'[j] = fromCPU[j]
  BY <1>f, <1>n, <1>t DEF WayType
<1>4. fromCPU'[n + 1] = f
  BY <1>f, <1>n, <1>t DEF WayType
<1>5. \A j \in 1 .. n + 1 : j \in 1 .. n \/ j = n + 1
  OBVIOUS
<1>w. WayType'
  <2>1. fromCPU' \in Seq(OutboundFrame) /\ echoed' \in [EngineSockets -> Given]
    BY <1>1, <1>f, <1>t DEF WayType
  <2>2. CASE pos' = None /\ toCPU' = Tail(toCPU)
    <3>1. \A i \in 1 .. Len(toCPU') : toCPU'[i].data # None => Written(i)' < toCPU'[i].data.parts
      BY <1>h, <1>t, <2>2, TailType
    <3> QED
      BY <2>1, <2>2, <3>1, Zenon DEF WayType
  <2>3. CASE pos + 1 # Frame.data.parts /\ pos' = pos + 1 /\ toCPU' = toCPU
    <3>1. pos < toCPU[1].data.parts /\ toCPU[1].data.parts \in Nat
      <4>1. Written(1) = pos
        BY <1>1 DEF Written
      <4>2. Written(1) < toCPU[1].data.parts
        BY <1>2, <1>h, <1>t, Zenon DEF WayType
      <4>3. toCPU[1].data.parts \in Nat
        BY <1>2 DEF Messages
      <4> QED
        BY <4>1, <4>2, <4>3
    <3>2. pos + 1 < toCPU[1].data.parts
      BY <1>h, <1>p, <2>3, <3>1
    <3>3. ASSUME NEW i \in 1 .. Len(toCPU), toCPU[i].data # None PROVE Written(i)' < toCPU[i].data.parts
      <4>1. CASE i = 1
        <5>1. Written(1)' = pos + 1
          BY <1>p, <2>3 DEF Written
        <5> QED
          BY <3>2, <4>1, <5>1, Zenon
      <4>2. CASE i # 1
        <5>1. Written(i)' = Written(i)
          BY <4>2, Zenon DEF Written
        <5>2. Written(i) < toCPU[i].data.parts
          BY <1>t, <3>3, Zenon DEF WayType
        <5> QED
          BY <5>1, <5>2, Zenon
      <4> QED
        BY <4>1, <4>2
    <3> QED
      BY <1>2, <2>1, <2>3, <3>3, Zenon DEF WayType
  <2> QED
    BY <1>1, <2>2, <2>3
<1>6. ASSUME NEW s \in EngineSockets PROVE Bounded(s)'
  <2>b. Bounded(s)
    BY Zenon DEF WayInv
  <2>1. ASSUME NEW i \in 1 .. n + 1, IsFrame(i, s)' PROVE fromCPU'[i].data.conn <= conns[s]
    <3>1. CASE i \in 1 .. n
      BY <1>3, <1>n, <2>1, <2>b, <3>1, Zenon DEF Bounded, IsFrame
    <3>2. CASE i = n + 1
      <4>1. f.socket = s
        BY <1>4, <2>1, <3>2, Zenon DEF IsFrame
      <4>2. toCPU[1].data.conn <= conns[s]
        BY <1>2, <1>f, <1>h, <2>b, <4>1, Zenon DEF Bounded, IsMessage
      <4> QED
        BY <1>4, <1>f, <3>2, <4>2, Zenon
    <3> QED
      BY <1>5, <3>1, <3>2
  <2>2. \A i \in 1 .. Len(toCPU') : IsMessage(i, s)' => toCPU'[i].data.conn <= conns[s]
    <3>1. CASE pos' = None /\ toCPU' = Tail(toCPU)
      <4>1. \A i \in 1 .. Len(toCPU) : IsMessage(i, s) => toCPU[i].data.conn <= conns[s]
        BY <2>b, Zenon DEF Bounded
      <4> QED
        BY <1>h, <1>t, <3>1, <4>1, TailType
    <3>2. CASE toCPU' = toCPU
      BY <2>b, <3>2, Zenon DEF Bounded, IsMessage
    <3> QED
      BY <1>1, <3>1, <3>2
  <2>3. conns' = conns /\ echoed' = echoed
    BY <1>1
  <2> QED
    BY <1>n, <2>1, <2>2, <2>3, <2>b, Zenon DEF Bounded
<1>7. ASSUME NEW s \in EngineSockets, HasClient(s)' PROVE InLine(s)'
  <2>l. /\ Bounded(s) /\ OutLine(s) /\ MessageLine(s) /\ NewLine(s)
        /\ conns'[s] = conns[s] /\ sent'[s] = sent[s] /\ tcp'[s] = tcp[s]
    BY <1>1, <1>7, Zenon DEF WayInv, InLine, HasClient
  <2>1. ASSUME NEW e
        PROVE  /\ \A j \in 1 .. n + 1 : PrevFrame(j, s, e)' => PrevFrame(j, s, e)
               /\ f.socket = s /\ LastOut(s, e)' => e = [data |-> f.data, part |-> f.part]
               /\ f.socket # s /\ LastOut(s, e)' => LastOut(s, e)
    <3>1. \A j \in 1 .. Len(fromCPU) + 1 : PrevFrame(j, s, e)' => PrevFrame(j, s, e)
      BY <1>1, <1>f, <1>t, FrameAppended DEF WayType
    <3>2. f.socket = s /\ LastOut(s, e)' => e = [data |-> f.data, part |-> f.part]
      BY <1>1, <1>f, <1>t, FrameAppended DEF WayType
    <3>3. f.socket # s /\ LastOut(s, e)' => LastOut(s, e)
      BY <1>1, <1>f, <1>t, FrameAppended DEF WayType
    <3> QED
      BY <1>n, <3>1, <3>2, <3>3
  <2>i. IsMessage(1, s) <=> f.socket = s
    BY <1>2, <1>f DEF IsMessage
  <2>2. OutLine(s)'
    <3> SUFFICES ASSUME NEW j \in 1 .. n + 1, IsFrame(j, s)', NEW e \in Given, PrevFrame(j, s, e)'
                 PROVE  Fits(conns[s], e, fromCPU'[j])
      BY <1>n, <2>l, Zenon DEF OutLine
    <3>0. PrevFrame(j, s, e)
      BY <2>1, Zenon
    <3>1. CASE j \in 1 .. n
      BY <1>3, <1>n, <2>l, <3>0, <3>1, Zenon DEF OutLine, IsFrame
    <3>2. CASE j = n + 1
      <4>1. IsMessage(1, s)
        BY <1>4, <2>i, <3>2, Zenon DEF IsFrame
      <4>2. PrevMessage(1, s, e)
        <5>1. n + 1 = Len(fromCPU) + 1
          BY <1>n
        <5> QED
          BY <3>0, <3>2, <5>1, BeforeHead, Zenon DEF LastOut
      <4>3. Fits(conns[s], e, [data |-> toCPU[1].data, part |-> Written(1) + 1])
        BY <1>h, <2>l, <4>1, <4>2, Zenon DEF MessageLine
      <4>4. Written(1) = pos
        BY <1>1 DEF Written
      <4>5. Fits(conns[s], e, [data |-> toCPU[1].data, part |-> pos + 1])
        BY <4>3, <4>4, Zenon
      <4>6. Fits(conns[s], e, [data |-> f.data, part |-> f.part]) <=> Fits(conns[s], e, f)
        BY FitsFrame
      <4>7. Fits(conns[s], e, f)
        BY <1>f, <4>5, <4>6, Zenon
      <4> QED
        BY <1>4, <3>2, <4>7, Zenon
    <3> QED
      BY <1>5, <3>1, <3>2
  <2>3. MessageLine(s)' /\ NewLine(s)'
    <3>1. CASE pos + 1 = Frame.data.parts /\ pos' = None /\ toCPU' = Tail(toCPU)
      <4>1. \A e : IsMessage(1, s) /\ LastOut(s, e)'
                     => e = [data |-> toCPU[1].data, part |-> toCPU[1].data.parts]
        BY <1>f, <1>h, <2>1, <2>i, <3>1, Zenon
      <4>2. \A e : ~IsMessage(1, s) /\ LastOut(s, e)' => LastOut(s, e)
        BY <2>1, <2>i, Zenon
      <4> QED
        BY <1>h, <1>t, <2>l, <3>1, <4>1, <4>2, HeadGone
    <3>2. CASE pos' = pos + 1 /\ toCPU' = toCPU /\ IsMessage(1, s)
      <4>1. \A e : LastOut(s, e)' => e = [data |-> toCPU[1].data, part |-> pos + 1]
        BY <1>f, <2>1, <2>i, <3>2, Zenon
      <4> QED
        BY <1>1, <1>t, <2>l, <3>2, <4>1, HeadWritten
    <3>3. CASE pos' = pos + 1 /\ toCPU' = toCPU /\ ~IsMessage(1, s)
      <4>1. \A e : LastOut(s, e)' => LastOut(s, e)
        BY <2>1, <2>i, <3>3, Zenon
      <4> QED
        BY <1>t, <2>l, <3>3, <4>1, OtherWritten
    <3> QED
      BY <1>1, <3>1, <3>2, <3>3
  <2> QED
    BY <2>2, <2>3 DEF InLine
<1> QED
  BY <1>6, <1>7, <1>w, Zenon DEF WayInv

\* A frame reaches the engine.
LEMMA TransmitWay ==
  ASSUME IInv, WayInv, Transmit
  PROVE  WayInv'
<1>t. TypeOK /\ WayType
  BY Zenon DEF IInv, WayInv
<1>1. /\ fromCPU # <<>> /\ fromCPU' = Tail(fromCPU)
      /\ echoed' = IF HasClient(Echo.socket)
                   THEN [echoed EXCEPT ![Echo.socket] = [data |-> Echo.data, part |-> Echo.part]]
                   ELSE echoed
      /\ UNCHANGED <<tcp, conns, sent, toCPU, pos>>
  BY Zenon DEF Transmit, engine, host
<1>n. PICK n \in Nat : n = Len(fromCPU) /\ Len(fromCPU') + 1 = n /\ 1 .. Len(fromCPU') = 1 .. n - 1
                       /\ 1 \in 1 .. n
  <2>1. Len(fromCPU) # 0
    BY <1>1, <1>t DEF WayType
  <2> QED
    BY <1>1, <1>t, <2>1 DEF WayType
<1>2. \A j \in 1 .. n - 1 : fromCPU'[j] = fromCPU[j + 1]
  BY <1>1, <1>n, <1>t DEF WayType
<1>3. \A j \in 1 .. n - 1 : j \in 1 .. n /\ j + 1 \in 1 .. n
  OBVIOUS
<1>4. Echo = fromCPU[1] /\ Echo \in OutboundFrame
  BY <1>1, <1>n, <1>t DEF WayType, Echo
<1>5. /\ echoed' \in [EngineSockets -> Given]
      /\ \A s \in EngineSockets :
           /\ echoed'[s] # echoed[s] =>
                Echo.socket = s /\ echoed'[s] = [data |-> Echo.data, part |-> Echo.part]
           /\ HasClient(s) => echoed'[s] = IF Echo.socket = s THEN [data |-> Echo.data, part |-> Echo.part]
                                                              ELSE echoed[s]
  <2>1. Echo.socket \in EngineSockets /\ [data |-> Echo.data, part |-> Echo.part] \in Given
    BY <1>4 DEF OutboundFrame, Given
  <2>2. PICK g \in Given : g = [data |-> Echo.data, part |-> Echo.part]
    BY <2>1
  <2>3. PICK t \in EngineSockets : t = Echo.socket
    BY <2>1
  <2>4. CASE HasClient(t)
    <3>1. echoed' = [echoed EXCEPT ![t] = g]
      BY <1>1, <2>2, <2>3, <2>4, Zenon
    <3>2. /\ echoed' \in [EngineSockets -> Given]
          /\ \A s \in EngineSockets : echoed'[s] = IF t = s THEN g ELSE echoed[s]
      BY <1>t, <3>1 DEF WayType
    <3> QED
      BY <2>2, <2>3, <3>2, Zenon
  <2>5. CASE ~HasClient(t)
    <3>1. echoed' = echoed
      BY <1>1, <2>3, <2>5, Zenon
    <3>2. \A s \in EngineSockets : HasClient(s) => t # s
      BY <2>5, Zenon
    <3> QED
      BY <1>t, <2>3, <3>1, <3>2, Zenon DEF WayType
  <2> QED
    BY <2>4, <2>5
<1>w. WayType'
  <2>1. fromCPU' \in Seq(OutboundFrame)
    BY <1>1, <1>t DEF WayType
  <2> QED
    BY <1>1, <1>5, <1>t, <2>1, Zenon DEF WayType, Written
<1>6. ASSUME NEW s \in EngineSockets PROVE Bounded(s)'
  <2>b. Bounded(s)
    BY Zenon DEF WayInv
  <2>1. ASSUME NEW i \in 1 .. n - 1, IsFrame(i, s)' PROVE fromCPU'[i].data.conn <= conns[s]
    BY <1>2, <1>3, <1>n, <2>1, <2>b, Zenon DEF Bounded, IsFrame
  <2>2. echoed'[s].data.conn <= conns[s]
    <3>1. CASE echoed'[s] = echoed[s]
      BY <2>b, <3>1, Zenon DEF Bounded
    <3>2. CASE Echo.socket = s /\ echoed'[s] = [data |-> Echo.data, part |-> Echo.part]
      <4>1. echoed'[s].data = Echo.data
        BY <3>2
      <4>2. Echo.data.conn <= conns[s]
        BY <1>4, <1>n, <2>b, <3>2, Zenon DEF Bounded, IsFrame
      <4> QED
        BY <4>1, <4>2, Zenon
    <3> QED
      BY <1>5, <3>1, <3>2, Zenon
  <2> QED
    BY <1>1, <1>n, <2>1, <2>2, <2>b, Zenon DEF Bounded, IsMessage
<1>7. ASSUME NEW s \in EngineSockets, HasClient(s)' PROVE InLine(s)'
  <2>l. /\ HasClient(s) /\ OutLine(s) /\ MessageLine(s) /\ NewLine(s)
        /\ conns'[s] = conns[s] /\ sent'[s] = sent[s] /\ tcp'[s] = tcp[s]
    BY <1>1, <1>7, Zenon DEF WayInv, InLine, HasClient
  <2>1. ASSUME NEW e
        PROVE  /\ \A j \in 1 .. n : PrevFrame(j, s, e)' => PrevFrame(j + 1, s, e)
               /\ LastOut(s, e)' => LastOut(s, e)
    <3>0. echoed'[s] = IF Echo.socket = s THEN [data |-> Echo.data, part |-> Echo.part] ELSE echoed[s]
      BY <1>5, <2>l, Zenon
    <3>1. \A j \in 1 .. Len(fromCPU) : PrevFrame(j, s, e)' => PrevFrame(j + 1, s, e)
      BY <1>1, <1>t, <3>0, FrameGone DEF WayType
    <3>2. Len(fromCPU) \in 1 .. Len(fromCPU) /\ Len(fromCPU') + 1 = Len(fromCPU)
      BY <1>n
    <3>3. LastOut(s, e)' => LastOut(s, e)
      BY <3>1, <3>2, Zenon DEF LastOut
    <3> QED
      BY <1>n, <3>1, <3>3, Zenon
  <2>2. OutLine(s)'
    <3> SUFFICES ASSUME NEW j \in 1 .. n - 1, IsFrame(j, s)', NEW e \in Given, PrevFrame(j, s, e)'
                 PROVE  Fits(conns[s], e, fromCPU'[j])
      BY <1>n, <2>l, Zenon DEF OutLine
    <3>1. PrevFrame(j + 1, s, e) /\ j + 1 \in 1 .. n
      BY <1>3, <2>1, Zenon
    <3>2. IsFrame(j + 1, s)
      BY <1>2, Zenon DEF IsFrame
    <3>3. Fits(conns[s], e, fromCPU[j + 1])
      BY <1>n, <2>l, <3>1, <3>2, Zenon DEF OutLine
    <3> QED
      BY <1>2, <3>3, Zenon
  <2>3. MessageLine(s)' /\ NewLine(s)'
    <3>1. \A j : Written(j)' = Written(j)
      BY <1>1, Zenon DEF Written
    <3>2. \A e : LastOut(s, e)' => LastOut(s, e)
      BY <2>1, Zenon
    <3> QED
      BY <1>1, <1>t, <2>l, <3>1, <3>2, ReportsStay
  <2> QED
    BY <2>2, <2>3 DEF InLine
<1> QED
  BY <1>6, <1>7, <1>w, Zenon DEF WayInv

\* What the host does leaves no socket with a client it did not have.
LEMMA HostClients ==
  ASSUME IInv, Follow(Frame), pc = "Run", toCPU # <<>>
  PROVE  \A t \in EngineSockets : /\ HasClient(t)' => HasClient(t)
                                  /\ tcp'[t] = "Established" => tcp[t] = "Established"
<1>t. TypeOK /\ tcp \in [EngineSockets -> States]
  BY Zenon DEF IInv, TypeOK
<1>1. Frame \in InboundFrame
  BY <1>t DEF TypeOK, Frame
<1>2. CASE UNCHANGED <<sockets, tcp, pc>>
  BY <1>2, Zenon DEF HasClient
<1>3. CASE Frame.state # None /\ Transition(Frame.socket, Frame.state)
  <2>1. PICK s \in EngineSockets, state \in Reports : s = Frame.socket /\ state = Frame.state
    BY <1>1, <1>3 DEF InboundFrame
  <2>2. Transition(s, state)
    BY <1>3, <2>1, Zenon
  <2>3. /\ state = "Established" => tcp' = tcp
        /\ state = "Closed" => tcp' = [tcp EXCEPT ![s] = "Listen"]
        /\ state \in {"CloseWait", "ClosedDataPending"} => TcpClose(s)
    BY <1>t, <2>2, TransitionStep
  <2>4. CASE state = "Established"
    BY <2>3, <2>4, Zenon DEF HasClient
  <2>5. CASE state = "Closed"
    BY <1>t, <2>3, <2>5 DEF HasClient
  <2>6. CASE state \in {"CloseWait", "ClosedDataPending"}
    BY <1>t, <2>3, <2>6 DEF HasClient, TcpClose
  <2> QED
    BY <2>4, <2>5, <2>6 DEF Reports
<1> QED
  BY <1>2, <1>3, Zenon DEF Follow

\* A frame that is not echoed is of a socket that has no client, or has no data.
LEMMA EventWay ==
  ASSUME IInv, WayInv, ProcessEvent
  PROVE  WayInv'
<1>t. TypeOK /\ WayType
  BY Zenon DEF IInv, WayInv
<1>1. /\ pc = "Run" /\ pos = None /\ pos' = None /\ toCPU # <<>> /\ toCPU' = Tail(toCPU) /\ Follow(Frame)
      /\ UNCHANGED <<conns, sent, fromCPU, echoed>> /\ ~Echoes(Frame)
  BY Zenon DEF ProcessEvent
<1>2. \A t \in EngineSockets : /\ HasClient(t)' => HasClient(t)
                               /\ tcp'[t] = "Established" => tcp[t] = "Established"
  BY <1>1, HostClients
<1>3. ASSUME NEW s \in EngineSockets, HasClient(s) PROVE ~IsMessage(1, s)
  <2>1. s \in ValidSockets
    BY <1>3 DEF IInv, OutsideUntouched, HasClient
  <2>2. Known(s)
    BY <2>1, Zenon DEF Known
  <2>3. Frame = toCPU[1]
    BY <1>1, <1>t DEF Frame, TypeOK
  <2> QED
    BY <1>1, <2>2, <2>3, Zenon DEF Echoes, IsMessage
<1>w. WayType'
  <2>1. \A i \in 1 .. Len(toCPU') : toCPU'[i].data # None => Written(i)' < toCPU'[i].data.parts
    BY <1>1, <1>t, TailType
  <2> QED
    BY <1>1, <1>t, <2>1, Zenon DEF WayType
<1>4. ASSUME NEW s \in EngineSockets PROVE Bounded(s)'
  <2>b. Bounded(s)
    BY Zenon DEF WayInv
  <2>1. \A i \in 1 .. Len(toCPU) : IsMessage(i, s) => toCPU[i].data.conn <= conns[s]
    BY <2>b, Zenon DEF Bounded
  <2>2. \A i \in 1 .. Len(toCPU') : IsMessage(i, s)' => toCPU'[i].data.conn <= conns[s]
    BY <1>1, <1>t, <2>1, TailType
  <2> QED
    BY <1>1, <2>2, <2>b, Zenon DEF Bounded, IsFrame
<1>5. ASSUME NEW s \in EngineSockets, HasClient(s)' PROVE InLine(s)'
  <2>l. /\ HasClient(s) /\ OutLine(s) /\ MessageLine(s) /\ NewLine(s)
        /\ conns'[s] = conns[s] /\ sent'[s] = sent[s] /\ (tcp'[s] = "Established" => tcp[s] = "Established")
    BY <1>1, <1>2, <1>5, Zenon DEF WayInv, InLine
  <2>1. OutLine(s)'
    BY <1>1, <2>l, Zenon DEF OutLine, IsFrame, PrevFrame
  <2>2. \A e : LastOut(s, e)' => LastOut(s, e)
    BY <1>1, Zenon DEF LastOut, PrevFrame, IsFrame
  <2>3. ~IsMessage(1, s)
    BY <1>3, <2>l, Zenon
  <2>4. MessageLine(s)' /\ NewLine(s)'
    <3>1. \A e : IsMessage(1, s) /\ LastOut(s, e)'
                   => e = [data |-> toCPU[1].data, part |-> toCPU[1].data.parts]
      BY <2>3, Zenon
    <3>2. \A e : ~IsMessage(1, s) /\ LastOut(s, e)' => LastOut(s, e)
      BY <2>2, Zenon
    <3> QED
      BY <1>1, <1>t, <2>l, <3>1, <3>2, HeadGone
  <2> QED
    BY <2>1, <2>4 DEF InLine
<1> QED
  BY <1>4, <1>5, <1>w, Zenon DEF WayInv

\* A step that writes nothing and leaves the reports.
LEMMA SameWay ==
  ASSUME IInv, WayInv, UNCHANGED <<toCPU, conns, sent, fromCPU, echoed>>,
         \A j : Written(j)' = Written(j), pos' # None => toCPU # <<>> /\ toCPU[1].data # None,
         \A t \in EngineSockets : /\ HasClient(t)' => HasClient(t)
                                  /\ tcp'[t] = "Established" => tcp[t] = "Established"
  PROVE  WayInv'
<1>t. TypeOK /\ WayType
  BY Zenon DEF IInv, WayInv
<1>w. WayType'
  BY <1>t, Zenon DEF WayType
<1>4. ASSUME NEW s \in EngineSockets PROVE Bounded(s)'
  BY Zenon DEF WayInv, Bounded, IsFrame, IsMessage
<1>5. ASSUME NEW s \in EngineSockets, HasClient(s)' PROVE InLine(s)'
  <2>l. /\ HasClient(s) /\ OutLine(s) /\ MessageLine(s) /\ NewLine(s)
        /\ conns'[s] = conns[s] /\ sent'[s] = sent[s] /\ (tcp'[s] = "Established" => tcp[s] = "Established")
    BY <1>5, Zenon DEF WayInv, InLine
  <2>1. OutLine(s)'
    BY <2>l, Zenon DEF OutLine, IsFrame, PrevFrame
  <2>2. \A e : LastOut(s, e)' => LastOut(s, e)
    BY Zenon DEF LastOut, PrevFrame, IsFrame
  <2>4. MessageLine(s)' /\ NewLine(s)'
    BY <1>t, <2>2, <2>l, ReportsStay
  <2> QED
    BY <2>1, <2>4 DEF InLine
<1> QED
  BY <1>4, <1>5, <1>w, Zenon DEF WayInv

LEMMA DataWay ==
  ASSUME IInv, WayInv, ProcessData
  PROVE  WayInv'
<1>1. /\ pc = "Run" /\ pos = None /\ pos' = 0 /\ toCPU # <<>> /\ Follow(Frame) /\ Frame.data # None
      /\ UNCHANGED <<toCPU, conns, sent, fromCPU, echoed>>
  BY Zenon DEF ProcessData, Echoes
<1>2. \A t \in EngineSockets : /\ HasClient(t)' => HasClient(t)
                               /\ tcp'[t] = "Established" => tcp[t] = "Established"
  BY <1>1, HostClients
<1>3. \A j : Written(j)' = Written(j)
  BY <1>1, Zenon DEF Written
<1>4. toCPU[1].data # None
  BY <1>1 DEF Frame, IInv, TypeOK
<1> QED
  BY <1>1, <1>2, <1>3, <1>4, SameWay

LEMMA StartWay ==
  ASSUME IInv, WayInv, Start
  PROVE  WayInv'
<1>1. UNCHANGED <<toCPU, conns, sent, fromCPU, echoed, pos>>
  BY Zenon DEF Start, ReadConstants, InitTcp, ListenAll, engine
<1>2. \A t \in EngineSockets : /\ HasClient(t)' => HasClient(t)
                               /\ tcp'[t] = "Established" => tcp[t] = "Established"
  <2>1. tcp \in [EngineSockets -> States]
    BY DEF IInv, TypeOK
  <2>2. CASE tcp' = tcp
    BY <2>2, Zenon DEF HasClient
  <2>3. CASE ListenAll /\ TcpListen(opened)
    BY <2>1, <2>3 DEF TcpListen, HasClient
  <2> QED
    BY <2>2, <2>3, Zenon DEF Start, ReadConstants, InitTcp, ListenAll, Listen, engine
<1>3. \A j : Written(j)' = Written(j)
  BY <1>1, Zenon DEF Written
<1>4. pos' # None => toCPU # <<>> /\ toCPU[1].data # None
  BY <1>1, Zenon DEF IInv, TypeOK, WayInv, WayType
<1> QED
  BY <1>1, <1>2, <1>3, <1>4, SameWay

LEMMA ForeignWay ==
  ASSUME IInv, WayInv, NEW s \in EngineSockets, ForeignEvent(s)
  PROVE  WayInv'
<1>1. PICK state \in Reports : Report(s, state, None)
  BY DEF ForeignEvent, Reports
<1>2. UNCHANGED <<tcp, conns, sent>>
  BY DEF ForeignEvent, engine
<1> DEFINE f == InboundHeader(s, state, None)
<1>3. /\ f \in InboundFrame /\ f.socket = s /\ f.data = None
      /\ toCPU' = Append(toCPU, f) /\ UNCHANGED <<fromCPU, echoed, pos>>
  BY <1>1 DEF Report, InboundHeader, InboundFrame, host
<1> HIDE DEF f
<1>t. TypeOK /\ WayType /\ Bounded(s) /\ (HasClient(s) => InLine(s))
  BY Zenon DEF IInv, WayInv
<1>4. HasClient(s)' => HasClient(s)
  BY <1>2, Zenon DEF HasClient
<1>5. Bounded(s)' /\ (InLine(s) => InLine(s)')
  BY <1>2, <1>3, <1>t, LineKept
<1>6. Bounded(s)' /\ (HasClient(s)' => InLine(s)')
  BY <1>4, <1>5, <1>t, Zenon
<1> QED
  BY <1>2, <1>3, <1>6, <1>t, ReportWay

LEMMA StutterWay ==
  ASSUME IInv, WayInv, UNCHANGED vars
  PROVE  WayInv'
<1>1. UNCHANGED <<toCPU, conns, sent, fromCPU, echoed, pos, tcp>>
  BY Zenon DEF vars, engine, host
<1>2. \A t \in EngineSockets : /\ HasClient(t)' => HasClient(t)
                               /\ tcp'[t] = "Established" => tcp[t] = "Established"
  BY <1>1, Zenon DEF HasClient
<1>3. \A j : Written(j)' = Written(j)
  BY <1>1, Zenon DEF Written
<1>4. pos' # None => toCPU # <<>> /\ toCPU[1].data # None
  BY <1>1, Zenon DEF IInv, TypeOK, WayInv, WayType
<1> QED
  BY <1>1, <1>2, <1>3, <1>4, SameWay

LEMMA InitWay == Init => WayInv
<1> SUFFICES ASSUME Init PROVE WayInv
  OBVIOUS
<1>1. /\ fromCPU = <<>> /\ toCPU = <<>> /\ pos = None
      /\ conns = [s \in EngineSockets |-> 0] /\ echoed = [s \in EngineSockets |-> NothingYet]
      /\ tcp = [s \in EngineSockets |-> "Closed"]
  BY Zenon DEF Init
<1>2. Len(fromCPU) = 0 /\ Len(toCPU) = 0
  BY <1>1
<1>3. \A i : i \notin 1 .. Len(fromCPU) /\ i \notin 1 .. Len(toCPU)
  BY <1>2
<1>4. WayType
  <2>1. NothingYet \in Given
    BY DEF NothingYet, Given, Messages
  <2>2. echoed \in [EngineSockets -> Given]
    BY <1>1, <2>1, Zenon
  <2>3. fromCPU \in Seq(OutboundFrame)
    BY <1>1
  <2> QED
    BY <1>1, <1>3, <2>2, <2>3, Zenon DEF WayType
<1>5. ASSUME NEW s \in EngineSockets PROVE Bounded(s) /\ ~HasClient(s)
  <2>1. echoed[s].data.conn <= conns[s]
    BY <1>1 DEF NothingYet
  <2>2. ~HasClient(s)
    BY <1>1 DEF HasClient
  <2> QED
    BY <1>3, <2>1, <2>2, Zenon DEF Bounded
<1> QED
  BY <1>4, <1>5, Zenon DEF WayInv

LEMMA StepWay == IInv /\ WayInv /\ [Next]_vars => WayInv'
<1> SUFFICES ASSUME IInv, WayInv, [Next]_vars PROVE WayInv'
  OBVIOUS
<1>1. CASE Host
  BY <1>1, StartWay, EventWay, DataWay, SendWay, Zenon DEF Host
<1>2. CASE Transmit
  BY <1>2, TransmitWay
<1>3. CASE \E s \in EngineSockets : Engine(s)
  BY <1>3, EngineWay, Zenon
<1>4. CASE \E s \in EngineSockets : ForeignEvent(s)
  BY <1>4, ForeignWay, Zenon
<1>5. CASE UNCHANGED vars
  BY <1>5, StutterWay
<1> QED
  BY <1>1, <1>2, <1>3, <1>4, <1>5, Zenon DEF Next

\* What EchoInOrder asks of a step.
EchoStep ==
  Len(fromCPU') < Len(fromCPU) /\ HasClient(Echo.socket) =>
    LET s == Echo.socket
    IN IF Echo.data.conn = conns[s] THEN NextEcho(echoed[s], Echo)
       ELSE echoed[s].data.conn < conns[s]

\* Only Transmit takes a frame out of fromCPU.
LEMMA Shorter ==
  ASSUME IInv, WayInv, [Next]_vars, Len(fromCPU') < Len(fromCPU)
  PROVE  Transmit
<1>1. Len(fromCPU) \in Nat
  BY DEF WayInv, WayType
<1>2. fromCPU' # fromCPU
  BY <1>1
<1>3. ~SendFrame
  <2>1. SendFrame => fromCPU' = Append(fromCPU, OutboundHeader(Frame, pos + 1))
    BY Zenon DEF SendFrame
  <2>2. fromCPU \in Seq(OutboundFrame)
    BY Zenon DEF WayInv, WayType
  <2>3. SendFrame => Len(fromCPU') = Len(fromCPU) + 1
    BY <2>1, <2>2
  <2> QED
    BY <1>1, <2>3
<1>4. ~(Start \/ ProcessEvent \/ ProcessData) /\ ~UNCHANGED vars
  BY <1>2, Zenon DEF Start, ReadConstants, InitTcp, ListenAll, ProcessEvent, ProcessData, vars
<1>5. ASSUME NEW s \in EngineSockets PROVE ~Engine(s) /\ ~ForeignEvent(s)
  <2>1. \A state, data : ~Report(s, state, data)
    BY <1>2, Zenon DEF Report
  <2> QED
    BY <2>1, Zenon DEF Engine, Connect, Message, ClientCloses, ClientResets, CloseCompletes, ForeignEvent
<1> QED
  BY <1>3, <1>4, <1>5, Zenon DEF Next, Host

\* What a client is given of the echoes of its own connection is a prefix of
\* its messages, frame by frame, each once, and an echo meant for an earlier
\* connection of the socket never comes after one of its own (process, Send,
\* fifo.c:268 and 291).
THEOREM EchoesInOrder == Spec => EchoInOrder
<1>1. IInv /\ WayInv /\ [Next]_vars => [EchoStep]_vars
  <2> SUFFICES ASSUME IInv, WayInv, [Next]_vars,
                      Len(fromCPU') < Len(fromCPU), HasClient(Echo.socket)
               PROVE  IF Echo.data.conn = conns[Echo.socket] THEN NextEcho(echoed[Echo.socket], Echo)
                      ELSE echoed[Echo.socket].data.conn < conns[Echo.socket]
    BY Zenon DEF EchoStep
  <2>1. fromCPU # <<>>
    BY Shorter, Zenon DEF Transmit
  <2>2. Echo = fromCPU[1] /\ 1 \in 1 .. Len(fromCPU) /\ Echo \in OutboundFrame
    <3>1. fromCPU \in Seq(OutboundFrame) /\ Len(fromCPU) # 0
      BY <2>1 DEF WayInv, WayType
    <3> QED
      BY <3>1 DEF Echo
  <2>3. PICK s \in EngineSockets : s = Echo.socket
    BY <2>2 DEF OutboundFrame
  <2>4. OutLine(s) /\ IsFrame(1, s)
    BY <2>2, <2>3, Zenon DEF WayInv, InLine, IsFrame
  <2>5. PrevFrame(1, s, echoed[s])
    <3>1. \A i : i \notin 1 .. 1 - 1
      OBVIOUS
    <3> QED
      BY <3>1, Zenon DEF PrevFrame
  <2>6. echoed[s] \in Given
    BY DEF WayInv, WayType
  <2>7. Fits(conns[s], echoed[s], Echo)
    BY <2>2, <2>4, <2>5, <2>6, Zenon DEF OutLine
  <2> QED
    BY <2>3, <2>7, Zenon DEF Fits
<1>2. Spec => []WayInv
  <2>1. IInv /\ WayInv /\ [Next]_vars => WayInv'
    BY StepWay
  <2> QED
    BY <2>1, InitWay, Inductive, PTL DEF Spec
<1>3. [][EchoStep]_vars => EchoInOrder
  BY PTL DEF EchoInOrder, EchoStep
<1> QED
  BY <1>1, <1>2, <1>3, Inductive, PTL DEF Spec
=============================================================================
