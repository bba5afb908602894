------------------------ MODULE TradingStrategyProofs ------------------------
(***************************************************************************)
(* Proofs about the trading strategy example, for every market data file,  *)
(* every size of the rings and every latency within what is declared.      *)
(*                                                                         *)
(* The argument.  Orders: the kernel counts the updates that get through   *)
(* while orderEntry is stalled (late), and the ring with the room behind   *)
(* it holds at most so many more orders than it has slots (RoomInv); an    *)
(* update that gets through still finds a place.  Statuses: what the       *)
(* kernel has put out is what was printed and what waits (LogInv), where   *)
(* the status that is being printed counts as printed; the numbers only    *)
(* rise (NumbersInv).                                                      *)
(***************************************************************************)
EXTENDS TradingStrategy, SequenceTheorems, TLAPS

Order == [securityId : Securities, of : Nat, signals : {"BUY", "SELL"}]
Status == [securityId : Securities, updateNum : Nat]

MainLabels == {"configure", "create", "open", "next", "push", "sleep",
               "joinOrders", "joinStatuses", "exited", "done"}
ThreadLabels == {"none", "check", "poll", "discard", "ended"}

Labels ==
  /\ main \in MainLabels /\ orderThread \in ThreadLabels
  /\ statusThread \in ThreadLabels
  /\ running \in BOOLEAN /\ configured \in BOOLEAN

Streams ==
  /\ main = "push" => update \in Updates
  /\ mdRing \in Seq(Updates) /\ orders \in Seq(Order) /\ statuses \in Seq(Status)
  /\ statusThread = "discard" => statuses # <<>>

Histories ==
  /\ updateNum \in Nat /\ late \in Nat
  /\ ordersRead \in Seq(Order) /\ decided \in Seq(Order)
  /\ log \in Seq(Status) /\ reported \in Seq(Status)

TypeOK == Labels /\ Streams /\ Histories

RoomInv == Len(orders) <= Slots + late

OrdersInv == OrdersInOrder

\* The statuses that wait, but for one that has been printed already.
Unprinted == IF statusThread = "discard" THEN Tail(statuses) ELSE statuses

LogInv == Len(statuses) <= Slots /\ reported = log \o Unprinted

NumbersInv ==
  /\ \A i \in DOMAIN reported : reported[i].updateNum < updateNum
  /\ \A i, j \in DOMAIN reported :
       i < j => reported[i].updateNum < reported[j].updateNum

\* The threads are there when they are created, and have ended when they are
\* joined.
ThreadsInv ==
  /\ main \in {"configure", "create"} => orderThread = "none" /\ statusThread = "none"
  /\ main = "joinStatuses" => orderThread = "ended"
  /\ main = "done" => orderThread = "ended" /\ statusThread = "ended"

IInv == TypeOK /\ RoomInv /\ OrdersInv /\ LogInv /\ NumbersInv /\ ThreadsInv

USE UpdateAssumption, RingAssumption, LatencyAssumption

-----------------------------------------------------------------------------
\* Facts about sequences.

LEMMA HeadTail ==
  ASSUME NEW S, NEW s \in Seq(S), s # <<>>
  PROVE  /\ Head(s) \in S /\ Tail(s) \in Seq(S)
         /\ Len(Tail(s)) = Len(s) - 1 /\ Len(s) \in Nat \ {0}
         /\ s = <<Head(s)>> \o Tail(s)
  OBVIOUS

LEMMA ConcatAppend ==
  ASSUME NEW S, NEW s \in Seq(S), NEW t \in Seq(S), NEW e \in S
  PROVE  s \o Append(t, e) = Append(s \o t, e)
  OBVIOUS

LEMMA AppendConcat ==
  ASSUME NEW S, NEW s \in Seq(S), NEW t \in Seq(S), t # <<>>
  PROVE  Append(s, Head(t)) \o Tail(t) = s \o t
  OBVIOUS

LEMMA AppendNotEmpty ==
  ASSUME NEW S, NEW s \in Seq(S), NEW e \in S
  PROVE  Append(s, e) # <<>>
<1>1. Len(Append(s, e)) = Len(s) + 1 /\ Len(s) \in Nat
  OBVIOUS
<1>2. Len(<<>>) = 0
  OBVIOUS
<1> QED BY <1>1, <1>2

LEMMA TailAppend ==
  ASSUME NEW S, NEW s \in Seq(S), s # <<>>, NEW e \in S
  PROVE  Tail(Append(s, e)) = Append(Tail(s), e)
  OBVIOUS
-----------------------------------------------------------------------------
\* The types are kept by every step.

LEMMA TypeInit == Init => TypeOK
<1> SUFFICES ASSUME Init PROVE TypeOK
  OBVIOUS
<1>1. running \in BOOLEAN /\ configured \in BOOLEAN
  BY Zenon DEF Init
<1>2. main \in MainLabels /\ orderThread \in ThreadLabels /\ statusThread \in ThreadLabels
  BY DEF Init, MainLabels, ThreadLabels
<1>3. Labels
  BY <1>1, <1>2, Zenon DEF Labels
<1>4. Streams
  BY DEF Init, Streams
<1>5. Histories
  BY DEF Init, Histories
<1> QED BY <1>3, <1>4, <1>5 DEF TypeOK

LEMMA MainTypes == TypeOK /\ Main => TypeOK'
<1> SUFFICES ASSUME TypeOK, Main PROVE TypeOK'
  OBVIOUS
<1> USE DEF kernel, Goto
<1>1. Labels'
  <2> USE DEF TypeOK, Labels, Main, ConfigureParams, CreateThreads, OpenFile,
              GetNextMarketUpdate, PushUpdate, Stop, JoinOrderThread, JoinStatusThread
  <2>1. running' \in BOOLEAN /\ configured' \in BOOLEAN
    BY Zenon
  <2>2. /\ main' \in MainLabels /\ orderThread' \in ThreadLabels
        /\ statusThread' \in ThreadLabels
    BY DEF MainLabels, ThreadLabels
  <2> QED BY <2>1, <2>2, Zenon
<1>2. Streams'
  <2>1. CASE PushUpdate
    <3>1. Append(mdRing, update) \in Seq(Updates)
      BY <2>1 DEF PushUpdate, TypeOK, Streams
    <3> QED BY <2>1, <3>1 DEF PushUpdate, TypeOK, Streams
  <2>2. CASE ~PushUpdate
    BY <2>2 DEF TypeOK, Streams, Main, ConfigureParams, CreateThreads, OpenFile,
                GetNextMarketUpdate, Stop, JoinOrderThread, JoinStatusThread
  <2> QED BY <2>1, <2>2
<1>3. Histories'
  BY DEF TypeOK, Histories, Main, ConfigureParams, CreateThreads, OpenFile,
         GetNextMarketUpdate, PushUpdate, Stop, JoinOrderThread, JoinStatusThread
<1> QED BY <1>1, <1>2, <1>3 DEF TypeOK

LEMMA ThreadTypes == TypeOK /\ (OrderEntryThread \/ StatusThread) => TypeOK'
<1> SUFFICES ASSUME TypeOK, OrderEntryThread \/ StatusThread PROVE TypeOK'
  OBVIOUS
<1> USE DEF kernel, Loop, TypeOK
<1>1. Labels'
  BY DEF Labels, MainLabels, ThreadLabels, OrderEntryThread, StatusThread, OrderCheck,
         PollOrderEntry, StatusCheck, StatusRead, StatusDiscard
<1>2. CASE OrderCheck \/ StatusCheck
  BY <1>1, <1>2 DEF OrderCheck, StatusCheck, Streams, Histories
<1>3. CASE PollOrderEntry
  <2>1. orders # <<>> => Head(orders) \in Order /\ Tail(orders) \in Seq(Order)
    BY DEF Streams
  <2>2. orders' \in Seq(Order) /\ ordersRead' \in Seq(Order)
    <3>1. CASE orders # <<>>
      <4>1. Append(ordersRead, Head(orders)) \in Seq(Order)
        BY <2>1, <3>1 DEF Histories
      <4> QED BY <1>3, <2>1, <3>1, <4>1, Zenon DEF PollOrderEntry
    <3>2. CASE orders = <<>>
      BY <1>3, <3>2, Zenon DEF PollOrderEntry, Streams, Histories
    <3> QED BY <3>1, <3>2
  <2> QED BY <1>1, <1>3, <2>2 DEF PollOrderEntry, Streams, Histories
<1>4. CASE StatusRead
  <2>1. statuses # <<>> => Head(statuses) \in Status
    BY DEF Streams
  <2>2. log' \in Seq(Status)
    <3>1. CASE statuses # <<>>
      <4>1. Append(log, Head(statuses)) \in Seq(Status)
        BY <2>1, <3>1 DEF Histories
      <4> QED BY <1>4, <3>1, <4>1, Zenon DEF StatusRead
    <3>2. CASE statuses = <<>>
      BY <1>4, <3>2, Zenon DEF StatusRead, Histories
    <3> QED BY <3>1, <3>2
  <2> QED BY <1>1, <1>4, <2>2 DEF StatusRead, Streams, Histories
<1>5. CASE StatusDiscard
  <2>1. statuses' \in Seq(Status) /\ statusThread' = "check"
    BY <1>5 DEF StatusDiscard, Streams
  <2> QED BY <1>1, <1>5, <2>1 DEF StatusDiscard, Streams, Histories
<1> QED BY <1>2, <1>3, <1>4, <1>5 DEF OrderEntryThread, StatusThread

LEMMA ProcessTypes == TypeOK /\ Process => TypeOK'
<1> SUFFICES ASSUME TypeOK, Process PROVE TypeOK'
  OBVIOUS
<1> DEFINE u == Head(mdRing)
<1> USE DEF TypeOK
<1>1. mdRing' \in Seq(Updates) /\ u \in Updates
  BY DEF Process, Streams
<1>2. SecValid(u) => TheOrder(u) \in Order /\ TheStatus(u) \in Status
  BY DEF SecValid, TheOrder, TheStatus, Order, Status, Histories
<1>3. orders' \in Seq(Order) /\ decided' \in Seq(Order)
  <2>1. CASE SendOrderNow(u)
    <3>1. Append(orders, TheOrder(u)) \in Seq(Order)
      BY <1>2, <2>1 DEF SendOrderNow, Streams
    <3>2. Append(decided, TheOrder(u)) \in Seq(Order)
      BY <1>2, <2>1 DEF SendOrderNow, Histories
    <3> QED BY <3>1, <3>2, Zenon DEF Process, Streams, Histories
  <2>2. CASE ~SendOrderNow(u)
    BY <2>2, Zenon DEF Process, Streams, Histories
  <2> QED BY <2>1, <2>2
<1>4. statuses' \in Seq(Status) /\ reported' \in Seq(Status)
  <2>1. CASE SecValid(u)
    <3>1. Append(statuses, TheStatus(u)) \in Seq(Status)
      BY <1>2, <2>1 DEF Streams
    <3>2. Append(reported, TheStatus(u)) \in Seq(Status)
      BY <1>2, <2>1 DEF Histories
    <3> QED BY <3>1, <3>2, Zenon DEF Process, Streams, Histories
  <2>2. CASE ~SecValid(u)
    BY <2>2, Zenon DEF Process, Streams, Histories
  <2> QED BY <2>1, <2>2
<1>5. statuses # <<>> => statuses' # <<>>
  <2>1. SecValid(u) => Append(statuses, TheStatus(u)) # <<>>
    BY <1>2, AppendNotEmpty DEF Streams
  <2> QED BY <2>1, Zenon DEF Process
<1>6. updateNum' \in Nat /\ late' \in Nat
  BY DEF Process, Histories
<1>7. Labels'
  BY Zenon DEF Process, threads, Labels
<1>8. Streams'
  BY <1>1, <1>3, <1>4, <1>5, Zenon DEF Process, threads, Streams
<1>9. Histories'
  BY <1>3, <1>4, <1>6, Zenon DEF Process, Histories
<1> QED BY <1>7, <1>8, <1>9

\* The actions keep the types, and so does a step in which nothing changes.
LEMMA TypeStep == TypeOK /\ [Next]_vars => TypeOK'
<1>1. TypeOK /\ UNCHANGED vars => TypeOK'
  BY Zenon DEF TypeOK, Labels, Streams, Histories, vars, threads, kernel
<1> QED BY <1>1, MainTypes, ThreadTypes, ProcessTypes DEF Next

-----------------------------------------------------------------------------
\* Where the threads are.

LEMMA ThreadsStep == TypeOK /\ ThreadsInv /\ [Next]_vars => ThreadsInv'
<1> SUFFICES ASSUME TypeOK, ThreadsInv, [Next]_vars PROVE ThreadsInv'
  OBVIOUS
<1> USE DEF ThreadsInv
<1>1. CASE Main
  BY <1>1 DEF Main, Goto, ConfigureParams, CreateThreads, OpenFile, GetNextMarketUpdate,
              PushUpdate, Stop, JoinOrderThread, JoinStatusThread
<1>2. CASE OrderEntryThread \/ StatusThread
  BY <1>2 DEF OrderEntryThread, StatusThread, OrderCheck, PollOrderEntry, StatusCheck,
              StatusRead, StatusDiscard, Alive
<1>3. CASE Process \/ UNCHANGED vars
  BY <1>3 DEF Process, vars, threads
<1> QED BY <1>1, <1>2, <1>3 DEF Next

-----------------------------------------------------------------------------
\* Orders.

\* An order that the kernel decides on finds a place.
LEMMA PlaceForOrder == TypeOK /\ RoomInv /\ Process => Len(orders) < Slots + OrderStallLatency
<1> SUFFICES ASSUME TypeOK, RoomInv, Process PROVE Len(orders) < Slots + OrderStallLatency
  OBVIOUS
<1>1. Len(orders) \in Nat /\ late \in Nat
  BY DEF TypeOK, Streams, Histories
<1>2. Stalled => late < LateUpdates
  BY DEF Process
<1> QED BY <1>1, <1>2 DEF RoomInv, Stalled

LEMMA OrdersStep == TypeOK /\ RoomInv /\ OrdersInv /\ [Next]_vars => RoomInv' /\ OrdersInv'
<1> SUFFICES ASSUME TypeOK, RoomInv, OrdersInv, [Next]_vars PROVE RoomInv' /\ OrdersInv'
  OBVIOUS
<1> USE DEF OrdersInv, OrdersInOrder, RoomInv
<1>o. orders \in Seq(Order) /\ ordersRead \in Seq(Order) /\ late \in Nat
  BY DEF TypeOK, Streams, Histories
<1>1. CASE UNCHANGED <<orders, ordersRead, late, decided>>
  BY <1>1, Zenon
<1>2. CASE PollOrderEntry /\ orders # <<>>
  <2>1. orders' = Tail(orders) /\ ordersRead' = Append(ordersRead, Head(orders))
    BY <1>2, Zenon DEF PollOrderEntry
  <2>2. late' = late /\ decided' = decided
    BY <1>2, Zenon DEF PollOrderEntry, kernel
  <2>3. Append(ordersRead, Head(orders)) \o Tail(orders) = ordersRead \o orders
    BY <1>2, <1>o, AppendConcat
  <2>4. Len(Tail(orders)) = Len(orders) - 1 /\ Len(orders) \in Nat
    BY <1>2, <1>o
  <2>5. OrdersInv'
    BY <2>1, <2>2, <2>3, Zenon
  <2>6. Len(Tail(orders)) <= Slots + late
    BY <1>o, <2>4
  <2> QED BY <2>1, <2>2, <2>5, <2>6, Zenon
<1>3. CASE Process
  <2> DEFINE u == Head(mdRing)
  <2>1. Len(orders) < Slots + OrderStallLatency
    BY <1>3, PlaceForOrder
  <2>2. ordersRead' = ordersRead
    BY <1>3, Zenon DEF Process
  <2>3. CASE SendOrderNow(u)
    <3>1. orders' = Append(orders, TheOrder(u)) /\ decided' = Append(decided, TheOrder(u))
      BY <1>3, <2>1, <2>3, Zenon DEF Process
    <3>2. TheOrder(u) \in Order
      BY <1>3, <2>3 DEF Process, SendOrderNow, SecValid, TheOrder, Order, TypeOK, Streams,
                       Histories
    <3>3. OrdersInv'
      BY <1>o, <2>2, <3>1, <3>2, ConcatAppend
    <3>4. Len(orders') = Len(orders) + 1
      BY <1>o, <3>1, <3>2
    <3>5. late' = IF Stalled THEN late + 1 ELSE 0
      BY <1>3, Zenon DEF Process
    <3>6. Len(orders) \in Nat
      BY <1>o
    <3>7. Len(orders) + 1 <= Slots + IF Stalled THEN late + 1 ELSE 0
      BY <1>o, <3>6 DEF Stalled
    <3>8. Len(orders') <= Slots + late'
      BY <3>4, <3>5, <3>7
    <3> QED BY <3>3, <3>8, Zenon
  <2>4. CASE ~SendOrderNow(u)
    <3>1. orders' = orders /\ decided' = decided /\ late' = IF Stalled THEN late + 1 ELSE 0
      BY <1>3, <2>4, Zenon DEF Process
    <3>2. Len(orders) \in Nat
      BY <1>o
    <3> QED BY <1>o, <2>2, <3>1, <3>2 DEF Stalled
  <2> QED BY <2>3, <2>4, Zenon
<1>4. CASE Main \/ OrderCheck \/ StatusThread \/ (PollOrderEntry /\ orders = <<>>)
  BY <1>1, <1>4, Zenon DEF Main, ConfigureParams, CreateThreads, OpenFile, GetNextMarketUpdate,
         PushUpdate, Stop, JoinOrderThread, JoinStatusThread, OrderCheck, PollOrderEntry,
         StatusThread, StatusCheck, StatusRead, StatusDiscard, kernel
<1> QED BY <1>1, <1>2, <1>3, <1>4, Zenon DEF Next, OrderEntryThread, vars, kernel

-----------------------------------------------------------------------------
\* Statuses.

LEMMA UnprintedType == TypeOK => Unprinted \in Seq(Status)
  BY DEF TypeOK, Streams, Unprinted

\* A status that the kernel puts out has a place in the ring and comes last.
LEMMA StatusSent ==
  ASSUME TypeOK, LogInv, Process
  PROVE  /\ LogInv'
         /\ \/ reported' = reported
            \/ \E s \in Status : s.updateNum = updateNum /\ reported' = Append(reported, s)
<1> DEFINE u == Head(mdRing)
<1>1. statuses \in Seq(Status) /\ log \in Seq(Status) /\ Unprinted \in Seq(Status)
  BY UnprintedType DEF TypeOK, Streams, Histories
<1>2. log' = log /\ statusThread' = statusThread
  BY Zenon DEF Process, threads
<1>3. CASE SecValid(u) /\ ~StatusStalled
  <2>1. /\ statuses' = Append(statuses, TheStatus(u))
        /\ reported' = Append(reported, TheStatus(u))
    BY <1>3, Zenon DEF Process
  <2>2. TheStatus(u) \in Status /\ TheStatus(u).updateNum = updateNum
    BY <1>3 DEF Process, SecValid, TheStatus, Status, TypeOK, Streams, Histories
  <2>3. Unprinted' = Append(Unprinted, TheStatus(u))
    <3>1. CASE statusThread = "discard"
      <4>1. statuses # <<>>
        BY <3>1 DEF TypeOK, Streams
      <4>2. Tail(Append(statuses, TheStatus(u))) = Append(Tail(statuses), TheStatus(u))
        BY <1>1, <2>2, <4>1, TailAppend
      <4> QED BY <1>2, <2>1, <3>1, <4>2, Zenon DEF Unprinted
    <3>2. CASE statusThread # "discard"
      BY <1>2, <2>1, <3>2, Zenon DEF Unprinted
    <3> QED BY <3>1, <3>2
  <2>4. reported' = log' \o Unprinted'
    <3>1. log \o Append(Unprinted, TheStatus(u)) = Append(log \o Unprinted, TheStatus(u))
      BY <1>1, <2>2, ConcatAppend
    <3> QED BY <1>2, <2>1, <2>3, <3>1, Zenon DEF LogInv
  <2>5. Len(statuses') <= Slots
    BY <1>1, <1>3, <2>1, <2>2 DEF StatusStalled
  <2> QED BY <2>1, <2>2, <2>4, <2>5, Zenon DEF LogInv
<1>4. CASE ~(SecValid(u) /\ ~StatusStalled)
  <2>1. statuses' = statuses /\ reported' = reported
    BY <1>4, Zenon DEF Process
  <2> QED BY <1>2, <2>1, Zenon DEF LogInv, Unprinted
<1> QED BY <1>3, <1>4, Zenon

LEMMA LogStep == TypeOK /\ ThreadsInv /\ LogInv /\ [Next]_vars => LogInv'
<1> SUFFICES ASSUME TypeOK, ThreadsInv, LogInv, [Next]_vars PROVE LogInv'
  OBVIOUS
<1>1. statuses \in Seq(Status) /\ log \in Seq(Status)
  BY DEF TypeOK, Streams, Histories
<1>2. CASE Process
  BY <1>2, StatusSent
<1>3. CASE StatusRead /\ statuses # <<>>
  <2>1. /\ statusThread = "poll" /\ statusThread' = "discard"
        /\ log' = Append(log, Head(statuses))
    BY <1>3, Zenon DEF StatusRead
  <2>2. statuses' = statuses /\ reported' = reported
    BY <1>3, Zenon DEF StatusRead, kernel
  <2>3. Append(log, Head(statuses)) \o Tail(statuses) = log \o statuses
    BY <1>1, <1>3, AppendConcat
  <2>4. Unprinted = statuses /\ Unprinted' = Tail(statuses)
    BY <2>1, <2>2 DEF Unprinted
  <2> QED BY <2>1, <2>2, <2>3, <2>4, Zenon DEF LogInv
<1>4. CASE StatusDiscard
  <2>1. /\ statusThread = "discard" /\ statusThread' = "check"
        /\ statuses' = Tail(statuses)
    BY <1>4, Zenon DEF StatusDiscard
  <2>2. log' = log /\ reported' = reported
    BY <1>4, Zenon DEF StatusDiscard, kernel
  <2>3. Unprinted' = Unprinted
    BY <2>1 DEF Unprinted
  <2>4. Len(statuses') <= Slots
    <3>1. statuses # <<>>
      BY <2>1 DEF TypeOK, Streams
    <3>2. Len(Tail(statuses)) = Len(statuses) - 1 /\ Len(statuses) \in Nat
      BY <1>1, <3>1, HeadTail
    <3>3. Len(statuses) <= Slots
      BY DEF LogInv
    <3>4. Len(Tail(statuses)) <= Slots
      BY <3>2, <3>3
    <3> QED BY <2>1, <3>4, Zenon
  <2> QED BY <2>2, <2>3, <2>4, Zenon DEF LogInv
<1>5. ASSUME /\ UNCHANGED <<statuses, log, reported>>
             /\ statusThread # "discard" <=> statusThread' # "discard"
      PROVE  LogInv'
  BY <1>5 DEF LogInv, Unprinted
<1>6. CASE CreateThreads
  BY <1>5, <1>6 DEF CreateThreads, Goto, ThreadsInv, kernel
<1>7. CASE StatusCheck \/ (StatusRead /\ statuses = <<>>)
  BY <1>5, <1>7 DEF StatusCheck, StatusRead, Loop, kernel
<1>8. CASE (Main /\ ~CreateThreads) \/ OrderEntryThread \/ UNCHANGED vars
  BY <1>5, <1>8, Zenon DEF Main, ConfigureParams, OpenFile, GetNextMarketUpdate, PushUpdate,
         Stop, JoinOrderThread, JoinStatusThread, OrderEntryThread, OrderCheck, PollOrderEntry,
         vars, threads, kernel
<1> QED BY <1>2, <1>3, <1>4, <1>6, <1>7, <1>8, Zenon DEF Next, StatusThread

\* The numbers of the statuses rise, because the kernel counts every update.
LEMMA NumbersStep ==
  TypeOK /\ LogInv /\ NumbersInv /\ [Next]_vars => NumbersInv'
<1> SUFFICES ASSUME TypeOK, LogInv, NumbersInv, [Next]_vars PROVE NumbersInv'
  OBVIOUS
<1>1. reported \in Seq(Status) /\ updateNum \in Nat
  BY DEF TypeOK, Histories
<1>2. CASE Process
  <2>1. updateNum' = updateNum + 1
    BY <1>2, Zenon DEF Process
  <2>2. CASE reported' = reported
    <3>1. \A i \in DOMAIN reported : reported[i].updateNum \in Nat
      <4>1. \A i \in DOMAIN reported : reported[i] \in Status
        BY <1>1
      <4> QED BY <4>1 DEF Status
    <3>2. \A i \in DOMAIN reported : reported[i].updateNum < updateNum + 1
      BY <1>1, <3>1 DEF NumbersInv
    <3> QED BY <2>1, <2>2, <3>2, Zenon DEF NumbersInv
  <2>3. ASSUME NEW s \in Status, s.updateNum = updateNum, reported' = Append(reported, s)
        PROVE  NumbersInv'
    <3> DEFINE R == Append(reported, s)
    <3>1. /\ DOMAIN R = 1 .. Len(reported) + 1 /\ DOMAIN reported = 1 .. Len(reported)
          /\ Len(reported) \in Nat
      BY <1>1
    <3>2. \A i \in 1 .. Len(reported) : R[i] = reported[i] /\ reported[i].updateNum \in Nat
      <4>1. \A i \in 1 .. Len(reported) : R[i] = reported[i] /\ reported[i] \in Status
        BY <1>1
      <4> QED BY <4>1 DEF Status
    <3>3. R[Len(reported) + 1] = s
      BY <1>1
    <3>4. \A i \in 1 .. Len(reported) : R[i].updateNum \in Nat /\ R[i].updateNum < updateNum
      BY <3>1, <3>2 DEF NumbersInv
    <3>5. \A i, j \in 1 .. Len(reported) : i < j => R[i].updateNum < R[j].updateNum
      BY <3>1, <3>2 DEF NumbersInv
    <3> HIDE DEF R
    <3>6. \A i \in DOMAIN R : R[i].updateNum < updateNum + 1
      BY <1>1, <2>3, <3>1, <3>3, <3>4
    <3>7. \A i, j \in DOMAIN R : i < j => R[i].updateNum < R[j].updateNum
      BY <1>1, <2>3, <3>1, <3>3, <3>4, <3>5
    <3>8. reported' = R
      BY <2>3 DEF R
    <3> QED BY <2>1, <3>6, <3>7, <3>8, Zenon DEF NumbersInv
  <2> QED BY <1>2, <2>2, <2>3, StatusSent
<1>3. CASE UNCHANGED kernel
  BY <1>3, Zenon DEF NumbersInv, kernel
<1>4. CASE Main \/ OrderEntryThread \/ StatusThread \/ UNCHANGED vars
  BY <1>3, <1>4, Zenon DEF Main, ConfigureParams, CreateThreads, OpenFile, GetNextMarketUpdate,
         PushUpdate, Stop, JoinOrderThread, JoinStatusThread, OrderEntryThread, OrderCheck,
         PollOrderEntry, StatusThread, StatusCheck, StatusRead, StatusDiscard, vars
<1> QED BY <1>2, <1>4, Zenon DEF Next

-----------------------------------------------------------------------------
\* The inductive invariant and what it says.

LEMMA InitIInv == Init => IInv
<1> SUFFICES ASSUME Init PROVE IInv
  OBVIOUS
<1>1. RoomInv /\ OrdersInv
  BY DEF Init, RoomInv, OrdersInv, OrdersInOrder
<1>2. LogInv
  BY DEF Init, LogInv, Unprinted
<1>3. NumbersInv
  BY DEF Init, NumbersInv
<1>4. ThreadsInv
  BY DEF Init, ThreadsInv
<1> QED BY <1>1, <1>2, <1>3, <1>4, TypeInit DEF IInv

LEMMA StepIInv == IInv /\ [Next]_vars => IInv'
  BY TypeStep, OrdersStep, LogStep, NumbersStep, ThreadsStep, Zenon DEF IInv

LEMMA Inductive == Spec => []IInv
<1>1. IInv /\ [Next]_vars => IInv'
  BY StepIInv
<1> QED BY <1>1, InitIInv, PTL DEF Spec

\* What was printed is the first part of what was put out.
LEMMA LogFromInv == IInv => LogInOrder
<1> SUFFICES ASSUME IInv PROVE LogInOrder
  OBVIOUS
<1>1. log \in Seq(Status) /\ reported \in Seq(Status) /\ Unprinted \in Seq(Status)
  BY UnprintedType DEF IInv, TypeOK, Histories
<1>2. reported = log \o Unprinted
  BY DEF IInv, LogInv
<1>3. Len(Unprinted) <= Slots
  <2>1. CASE statuses # <<>>
    BY <2>1 DEF IInv, TypeOK, Streams, LogInv, Unprinted
  <2>2. CASE statuses = <<>>
    BY <2>2 DEF IInv, TypeOK, Streams, LogInv, Unprinted
  <2> QED BY <2>1, <2>2
<1>4. /\ Len(log) \in Nat /\ Len(Unprinted) \in Nat
      /\ Len(reported) = Len(log) + Len(Unprinted)
      /\ \A i \in 1 .. Len(log) : reported[i] = log[i]
  BY <1>1, <1>2
<1>5. IsPrefix(log, reported)
  <2>1. SubSeq(log, 1, Len(log)) = SubSeq(reported, 1, Len(log))
    BY <1>1, <1>4
  <2> QED BY <1>4, <2>1 DEF IsPrefix
<1>6. Len(reported) <= Len(log) + Slots
  BY <1>3, <1>4
<1>7. \A i, j \in DOMAIN log : i < j => log[i].updateNum < log[j].updateNum
  <2>1. DOMAIN log = 1 .. Len(log) /\ DOMAIN reported = 1 .. Len(reported)
    BY <1>1
  <2>2. 1 .. Len(log) \subseteq 1 .. Len(reported)
    BY <1>4
  <2> QED BY <1>4, <2>1, <2>2, Zenon DEF IInv, NumbersInv
<1> QED BY <1>5, <1>6, <1>7 DEF LogInOrder

-----------------------------------------------------------------------------
\* No order of the kernel (line 138 on) is lost or overtaken in the stalled
\* output, for any file, ring and latency within the declared one: the ones
\* read and the ones that wait are all that were decided, in their order.
THEOREM OrdersSafe == Spec => []OrdersInOrder
<1>1. IInv => OrdersInOrder
  BY DEF IInv, OrdersInv
<1> QED BY <1>1, Inductive, PTL

\* The status thread prints what the kernel put out, in order, with rising
\* update numbers and never more than a ring behind.
THEOREM LogSafe == Spec => []LogInOrder
  BY LogFromInv, Inductive, PTL

\* The engine is unloaded only after both reading threads have ended.
THEOREM ThreadsSafe == Spec => []EngineOutlivesThreads
<1>1. IInv => EngineOutlivesThreads
  BY DEF IInv, ThreadsInv, EngineOutlivesThreads
<1> QED BY <1>1, Inductive, PTL
=============================================================================
