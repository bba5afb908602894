--------------------------- MODULE TradingStrategy ---------------------------
(***************************************************************************)
(* The trading strategy example: tradingstartegyexample.c streams market   *)
(* updates from a file into the Strategy kernel; two threads read the      *)
(* orders and the statuses it answers with until the main thread tells     *)
(* them to stop.                                                           *)
(*                                                                         *)
(* What the signals say about an update is part of the update: buy and     *)
(* sell are the comparisons with the thresholds of the two sides.  A queue *)
(* stands for a ring with the buffers on the way to it; it stalls the      *)
(* kernel when as many entries wait as the ring has slots.                 *)
(***************************************************************************)
EXTENDS Integers, Sequences, SequencesExt

CONSTANTS
  Updates,              \* records a market data file may hold
  MaxUpdates,           \* bound: records of the file
  Securities,           \* secId0 .. secId3
  Slots,                \* slots of a ring (512)
  OrderStallLatency,    \* orders that still fit once orderEntry stalls (16)
  LateUpdates           \* updates that get through once it does

ASSUME UpdateAssumption ==
  \A u \in Updates : u.buy \in BOOLEAN /\ u.sell \in BOOLEAN
ASSUME RingAssumption == Slots \in Nat \ {0} /\ MaxUpdates \in Nat
\* The declared latency covers the way from the stall back to the input and
\* the pipeline in between.
ASSUME LatencyAssumption ==
  LateUpdates \in Nat /\ OrderStallLatency \in Nat /\ LateUpdates <= OrderStallLatency

VARIABLES
  main, orderThread, statusThread,      \* where the threads are
  running, update,
  configured,                           \* are the security ids set
  mdRing, orders, statuses,             \* the three streams
  updateNum, late,                      \* the kernel
  entry, ordersRead, log,               \* what the threads have read
  decided, reported                     \* history: orders and statuses sent

threads == <<main, orderThread, statusThread, running, update, configured>>
kernel == <<updateNum, late, decided, reported>>
vars == <<threads, mdRing, orders, statuses, kernel, entry, ordersRead, log>>

NoEntry == <<>>

\* Not exited, and the engine not unloaded.
Alive == main \notin {"exited", "done"}

-----------------------------------------------------------------------------
\* The kernel, for one valid update.

\* Mutant: the stall of orderEntry is not passed on to the input.
StalledNever == FALSE

Stalled == Len(orders) >= Slots
\* Mutant: a status is put out whether the output is stalled or not.
StatusStalledNever == FALSE

StatusStalled == Len(statuses) >= Slots

SecValid(u) == configured /\ u.securityId \in Securities

SendOrderNow(u) == SecValid(u) /\ (u.buy \/ u.sell)

\* The order that the signals of the buy side call for has priority.
TheOrder(u) ==
  [securityId |-> u.securityId, of |-> updateNum,
   signals |-> IF u.buy THEN "BUY" ELSE "SELL"]

TheStatus(u) == [securityId |-> u.securityId, updateNum |-> updateNum]

\* An order that finds no place is lost.
Process ==
  /\ Alive /\ mdRing # <<>>
  /\ Stalled => late < LateUpdates
  /\ LET u == Head(mdRing)
         Sends == SendOrderNow(u)
         Reports == SecValid(u) /\ ~StatusStalled
     IN /\ orders' = IF Sends /\ Len(orders) < Slots + OrderStallLatency
                       THEN Append(orders, TheOrder(u)) ELSE orders
        /\ decided' = IF Sends THEN Append(decided, TheOrder(u)) ELSE decided
        /\ statuses' = IF Reports THEN Append(statuses, TheStatus(u)) ELSE statuses
        /\ reported' = IF Reports THEN Append(reported, TheStatus(u)) ELSE reported
  /\ mdRing' = Tail(mdRing)
  /\ updateNum' = updateNum + 1
  /\ late' = IF Stalled THEN late + 1 ELSE 0
  /\ UNCHANGED <<threads, entry, ordersRead, log>>

-----------------------------------------------------------------------------
\* The main thread.

Goto(here, there) == main = here /\ main' = there

ConfigureParams ==
  /\ Goto("configure", "create")
  /\ configured' = TRUE
  /\ UNCHANGED <<orderThread, statusThread, running, update, mdRing, orders,
                 statuses, kernel, entry, ordersRead, log>>

\* The streams are set up before either thread reads one.
CreateThreads ==
  /\ Goto("create", "open")
  /\ orderThread' = "check" /\ statusThread' = "check"
  /\ UNCHANGED <<running, update, configured, mdRing, orders, statuses, kernel,
                 entry, ordersRead, log>>

\* The first call opens the file.
OpenFile ==
  /\ Goto("open", "next") \/ Goto("open", "exited")
  /\ UNCHANGED <<orderThread, statusThread, running, update, configured, mdRing,
                 orders, statuses, kernel, entry, ordersRead, log>>

\* One more record, or none.
GetNextMarketUpdate ==
  /\ \/ /\ Goto("next", "push") /\ updateNum + Len(mdRing) < MaxUpdates
        /\ update' \in Updates
     \/ Goto("next", "sleep") /\ UNCHANGED update
  /\ UNCHANGED <<orderThread, statusThread, running, configured, mdRing, orders,
                 statuses, kernel, entry, ordersRead, log>>

PushUpdate ==
  /\ Goto("push", "next") /\ Len(mdRing) < Slots
  /\ mdRing' = Append(mdRing, update)
  /\ UNCHANGED <<orderThread, statusThread, running, update, configured, orders,
                 statuses, kernel, entry, ordersRead, log>>

\* Mutant: the threads are waited for before they are told to stop.
StopLate ==
  /\ Goto("sleep", "joinOrders")
  /\ UNCHANGED <<orderThread, statusThread, running, update, configured, mdRing,
                 orders, statuses, kernel, entry, ordersRead, log>>

\* One second after the last update, whatever is left in the rings.
Stop ==
  /\ Goto("sleep", "joinOrders")
  /\ running' = FALSE
  /\ UNCHANGED <<orderThread, statusThread, update, configured, mdRing, orders,
                 statuses, kernel, entry, ordersRead, log>>

JoinOrderThread ==
  /\ Goto("joinOrders", "joinStatuses") /\ orderThread = "ended"
  /\ UNCHANGED <<orderThread, statusThread, running, update, configured, mdRing,
                 orders, statuses, kernel, entry, ordersRead, log>>

\* Mutant: the status thread is not waited for.
JoinNone ==
  /\ Goto("joinStatuses", "done")
  /\ UNCHANGED <<orderThread, statusThread, running, update, configured, mdRing,
                 orders, statuses, kernel, entry, ordersRead, log>>

\* Then the engine is unloaded.
JoinStatusThread ==
  /\ Goto("joinStatuses", "done") /\ statusThread = "ended"
  /\ UNCHANGED <<orderThread, statusThread, running, update, configured, mdRing,
                 orders, statuses, kernel, entry, ordersRead, log>>

Main == \/ ConfigureParams \/ CreateThreads \/ OpenFile \/ GetNextMarketUpdate
        \/ PushUpdate \/ Stop \/ JoinOrderThread \/ JoinStatusThread

-----------------------------------------------------------------------------
\* The reading threads look at running before every read.

Loop(thread) == IF running THEN thread = "poll" ELSE thread = "ended"

OrderCheck ==
  /\ Alive /\ orderThread = "check"
  /\ Loop(orderThread')
  /\ UNCHANGED <<main, statusThread, running, update, configured, mdRing, orders,
                 statuses, kernel, entry, ordersRead, log>>

\* An order is copied and its slot given back; or there is none.
PollOrderEntry ==
  /\ Alive /\ orderThread = "poll"
  /\ \/ /\ orders # <<>>
        /\ entry' = Head(orders)
        /\ orders' = Tail(orders)
        /\ ordersRead' = Append(ordersRead, Head(orders))
     \/ orders = <<>> /\ UNCHANGED <<entry, orders, ordersRead>>
  /\ orderThread' = "check"
  /\ UNCHANGED <<main, statusThread, running, update, configured, mdRing,
                 statuses, kernel, log>>

StatusCheck ==
  /\ Alive /\ statusThread = "check"
  /\ Loop(statusThread')
  /\ UNCHANGED <<main, orderThread, running, update, configured, mdRing, orders,
                 statuses, kernel, entry, ordersRead, log>>

\* The status stays in its slot while it is printed.
StatusRead ==
  /\ Alive /\ statusThread = "poll"
  /\ IF statuses = <<>> THEN statusThread' = "check" /\ UNCHANGED log
     ELSE statusThread' = "discard" /\ log' = Append(log, Head(statuses))
  /\ UNCHANGED <<main, orderThread, running, update, configured, mdRing, orders,
                 statuses, kernel, entry, ordersRead>>

StatusDiscard ==
  /\ Alive /\ statusThread = "discard"
  /\ statuses' = Tail(statuses)
  /\ statusThread' = "check"
  /\ UNCHANGED <<main, orderThread, running, update, configured, mdRing, orders,
                 kernel, entry, ordersRead, log>>

OrderEntryThread == OrderCheck \/ PollOrderEntry
StatusThread == StatusCheck \/ StatusRead \/ StatusDiscard

-----------------------------------------------------------------------------
Init ==
  /\ main = "configure" /\ orderThread = "none" /\ statusThread = "none"
  /\ running = TRUE /\ configured = FALSE /\ update = NoEntry
  /\ mdRing = <<>> /\ orders = <<>> /\ statuses = <<>>
  /\ updateNum = 0 /\ late = 0
  /\ entry = NoEntry /\ ordersRead = <<>> /\ log = <<>>
  /\ decided = <<>> /\ reported = <<>>

Next == Main \/ OrderEntryThread \/ StatusThread \/ Process

Spec == Init /\ [][Next]_vars

\* The threads are scheduled, and the engine takes updates.
Fairness == /\ WF_vars(Main) /\ WF_vars(Process)
            /\ WF_vars(OrderEntryThread) /\ WF_vars(StatusThread)
FairSpec == Spec /\ Fairness

-----------------------------------------------------------------------------
\* Every order of the strategy is read once, in order, or still waits: none is
\* lost to a stalled stream, and the last ones only when the program ends
\* before they were read.
OrdersInOrder == ordersRead \o orders = decided

\* The statuses printed are those the kernel put out, in its order, and the
\* thread is never more than a ring behind: the kernel drops what does not fit.
LogInOrder ==
  /\ IsPrefix(log, reported)
  /\ Len(reported) <= Len(log) + Slots
  /\ \A i, j \in DOMAIN log : i < j => log[i].updateNum < log[j].updateNum

\* The engine is there while a thread may read from it.
EngineOutlivesThreads ==
  main = "done" => orderThread = "ended" /\ statusThread = "ended"

\* The program ends after the last update: an update is only held up by orders
\* that a thread still reads.
ProgramEnds == <>~Alive
=============================================================================
