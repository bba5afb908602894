----------------------------- MODULE Forwarding -----------------------------
(***************************************************************************)
(* The forwarding examples, TcpForwarding ("Tcp") and UdpForwarding        *)
(* ("Udp").  The kernel takes messages from a multicast feed, looks their  *)
(* type up in a ROM and passes them on to a consumer or drops them.  For   *)
(* each it also tells the host.  The host writes the ROM, opens the feed,  *)
(* connects the consumers and only then listens for the kernel's events.   *)
(*                                                                         *)
(* A word of a message stands for its byte 7, which gives the type in the  *)
(* first word and is data in the others.                                   *)
(***************************************************************************)
EXTENDS Integers, Sequences, FiniteSetsExt

CONSTANTS
  Programs,       \* {"Tcp", "Udp"}
  Bytes,
  Messages,       \* what the feed may carry: sequences of bytes
  NumConsumers,
  FeedDepth,      \* words that wait for the kernel
  EventDepth,     \* events on their way to the host
  Slots,          \* slots of the ring in the host's memory
  MaxMessages     \* bound: messages taken off the feed

ASSUME ProgramAssumption == Programs \subseteq {"Tcp", "Udp"}
ASSUME MessageAssumption ==
  Bytes \subseteq 0 .. 255 /\ Messages \subseteq Seq(Bytes) \ {<<>>}
ASSUME SizeAssumption ==
  /\ NumConsumers \in Nat \ {0} /\ MaxMessages \in Nat
  /\ FeedDepth \in Nat /\ EventDepth \in Nat \ {0} /\ Slots \in Nat \ {0}

VARIABLES
  program,
  pc,
  rom,           \* decisionRom
  feed,          \* words that wait for the kernel
  messageCount,
  messageType,   \* what the stream holds keep since the last message began
  decision,
  events,        \* events the kernel has output
  ring,          \* events in the host's memory
  log,           \* events the host has printed
  taken,         \* every word the kernel has taken
  toConsumers    \* every word it has passed on, with its socket

vars == <<program, pc, rom, feed, messageCount, messageType, decision, events,
          ring, log, taken, toConsumers>>

Word == [byte : Bytes, sof : BOOLEAN, eof : BOOLEAN]
Decision == [shouldForward : BOOLEAN, consumerId : 0 .. NumConsumers - 1]

\* What init_decision writes for a type.
DecisionFor(type) ==
  [shouldForward |-> IF program = "Tcp" THEN type % 7 # 0 ELSE type % 2 = 0,
   consumerId |-> type % NumConsumers]

\* The words of a message.
Frame(message) ==
  [i \in DOMAIN message |->
     [byte |-> message[i], sof |-> i = 1, eof |-> i = Len(message)]]

-----------------------------------------------------------------------------
\* The feed and the kernel.

FeedOpen == pc \in {"consumers", "setup", "read", "discard"}

\* A message for which there is no room is lost before it gets here.
Arrive ==
  /\ FeedOpen /\ messageCount < MaxMessages
  /\ \E m \in Messages :
       /\ Len(feed) + Len(m) <= FeedDepth
       /\ feed' = feed \o Frame(m)
  /\ UNCHANGED <<program, pc, rom, messageCount, messageType, decision, events,
                 ring, log, taken, toConsumers>>

\* Mutant: what the input shows while it is not valid counts as well.
SofStarts(valid, word) == word.sof

\* Mutant: every word is looked up.
ValidStarts(valid, word) == valid

IsMessageStart(valid, word) == valid /\ word.sof

\* streamHold
Hold(value, held, store) == IF store THEN value ELSE held

Event(type, d) == [eventCount |-> messageCount, messageType |-> type,
                   forwardDecision |-> d.shouldForward, consumerId |-> d.consumerId]

\* One cycle.  The kernel does not run while an output has no room.
Cycle(valid, word) ==
  LET start == IsMessageStart(valid, word)
      type  == Hold(word.byte, messageType, start)
      d     == Hold(rom[type], decision, start)
  IN /\ Len(events) < EventDepth
     /\ messageType' = type
     /\ decision' = d
     /\ messageCount' = IF start THEN messageCount + 1 ELSE messageCount
     /\ events' = IF start THEN Append(events, Event(type, d)) ELSE events
     /\ toConsumers' = IF valid /\ d.shouldForward
                         THEN Append(toConsumers, [word |-> word, socket |-> d.consumerId])
                         ELSE toConsumers

\* The next word may be there or not, and without one the input shows anything.
Kernel ==
  /\ FeedOpen
  /\ \/ /\ feed # <<>>
        /\ Cycle(TRUE, Head(feed))
        /\ feed' = Tail(feed) /\ taken' = Append(taken, Head(feed))
     \/ /\ \E word \in Word : Cycle(FALSE, word)
        /\ UNCHANGED <<feed, taken>>
  /\ UNCHANGED <<program, pc, rom, ring, log>>

-----------------------------------------------------------------------------
\* The host.

Go(from, to) == pc = from /\ pc' = to

InitDecision ==
  /\ Go("decision", "feed")
  /\ rom' = [type \in Bytes |-> DecisionFor(type)]
  /\ UNCHANGED <<program, feed, messageCount, messageType, decision, events,
                 ring, log, taken, toConsumers>>

InitMulticastFeed ==
  /\ Go("feed", "consumers")
  /\ UNCHANGED <<program, rom, feed, messageCount, messageType, decision,
                 events, ring, log, taken, toConsumers>>

InitConsumers ==
  /\ Go("consumers", "setup")
  /\ UNCHANGED <<program, rom, feed, messageCount, messageType, decision,
                 events, ring, log, taken, toConsumers>>

\* A consumer cannot be opened.  Only the Udp program looks at whether the
\* feed can.
InitFails ==
  /\ \/ Go("consumers", "exit")
     \/ program = "Udp" /\ Go("feed", "exit")
  /\ UNCHANGED <<program, rom, feed, messageCount, messageType, decision,
                 events, ring, log, taken, toConsumers>>

SetupEvents ==
  /\ Go("setup", "read")
  /\ UNCHANGED <<program, rom, feed, messageCount, messageType, decision,
                 events, ring, log, taken, toConsumers>>

Read ==
  /\ Go("read", "discard") /\ ring # <<>>
  /\ log' = Append(log, Head(ring))
  /\ UNCHANGED <<program, rom, feed, messageCount, messageType, decision,
                 events, ring, taken, toConsumers>>

\* Mutant: every event that is there is discarded.
DiscardAll ==
  /\ Go("discard", "read")
  /\ ring' = <<>>
  /\ UNCHANGED <<program, rom, feed, messageCount, messageType, decision,
                 events, log, taken, toConsumers>>

Discard ==
  /\ Go("discard", "read")
  /\ ring' = Tail(ring)
  /\ UNCHANGED <<program, rom, feed, messageCount, messageType, decision,
                 events, log, taken, toConsumers>>

Host == \/ InitDecision \/ InitMulticastFeed \/ InitConsumers \/ InitFails
        \/ SetupEvents \/ Read \/ Discard

\* The engine writes into a free slot, once the ring is set up.
Deliver ==
  /\ pc \in {"read", "discard"} /\ events # <<>> /\ Len(ring) < Slots
  /\ ring' = Append(ring, Head(events)) /\ events' = Tail(events)
  /\ UNCHANGED <<program, pc, rom, feed, messageCount, messageType, decision,
                 log, taken, toConsumers>>

\* The ROM holds anything before it is written.
Init ==
  /\ program \in Programs
  /\ pc = "decision"
  /\ \E d \in Decision : rom = [type \in Bytes |-> d]
  /\ feed = <<>> /\ messageCount = 0
  /\ messageType = CHOOSE b \in Bytes : TRUE
  /\ decision = [shouldForward |-> FALSE, consumerId |-> 0]
  /\ events = <<>> /\ ring = <<>> /\ log = <<>>
  /\ taken = <<>> /\ toConsumers = <<>>

Next == Arrive \/ Kernel \/ Host \/ Deliver

Spec == Init /\ [][Next]_vars

\* The host runs, the engine delivers events, and the consumers' links take
\* what the kernel outputs.
Fairness == WF_vars(Host) /\ WF_vars(Deliver) /\ WF_vars(Kernel)
FairSpec == Spec /\ Fairness

-----------------------------------------------------------------------------
\* The place of i in S, counted from one.
Rank(S, i) == Cardinality({j \in S : j <= i})

\* Where a message began among the words taken.
Starts == {i \in DOMAIN taken : taken[i].sof}

\* The events the host has printed, and will if it goes on.
AllEvents ==
  log \o (IF pc = "discard" THEN Tail(ring) ELSE ring) \o events

\* The host is told of every message once and in order, with its number, its
\* type and what the host itself laid down for that type.
EventsDescribeMessages ==
  /\ Len(AllEvents) = Cardinality(Starts)
  /\ \A i \in Starts :
       LET d == DecisionFor(taken[i].byte)
           n == Rank(Starts, i)
       IN AllEvents[n] = [eventCount |-> n - 1, messageType |-> taken[i].byte,
                          forwardDecision |-> d.shouldForward,
                          consumerId |-> d.consumerId]

\* The type of the message that the i-th word taken belongs to.
TypeAt(i) == taken[Max({j \in 1 .. i : taken[j].sof})].byte

\* The words that a consumer is to have.
Wanted == {i \in DOMAIN taken : DecisionFor(TypeAt(i)).shouldForward}

\* Every word of a message goes to the consumer its first word decides on, or
\* none does: no consumer is sent a part of a message, or of another's.
ForwardsWhole ==
  /\ Len(toConsumers) = Cardinality(Wanted)
  /\ \A i \in Wanted :
       toConsumers[Rank(Wanted, i)] =
         [word |-> taken[i], socket |-> DecisionFor(TypeAt(i)).consumerId]

\* Every message the feed delivers is printed in the end, also one that
\* arrives before the host listens, unless the host gave up.
EveryMessagePrinted ==
  \A n \in 1 .. MaxMessages : messageCount >= n ~> Len(log) >= n \/ pc = "exit"
=============================================================================
