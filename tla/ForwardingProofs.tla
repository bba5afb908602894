--------------------------- MODULE ForwardingProofs ---------------------------
(***************************************************************************)
(* Theorems about Forwarding for every set of messages, any number of      *)
(* consumers and any room for words and events.                            *)
(***************************************************************************)
EXTENDS Forwarding, FiniteSetTheorems, SequenceTheorems, WellFoundedInduction,
        TLAPS

-----------------------------------------------------------------------------
(***************************************************************************)
(* Places in a list.  A sequence lists the values v[i] of the members of S *)
(* in their order; one more member above all others is listed by appending *)
(* its value.                                                              *)
(***************************************************************************)
Lists(seq, S, v) ==
  /\ Len(seq) = Cardinality(S)
  /\ \A i \in S : seq[Rank(S, i)] = v[i]

LEMMA RankOfNewest ==
  ASSUME NEW n \in Nat, NEW S \in SUBSET (1 .. n)
  PROVE  /\ Cardinality(S) \in Nat
         /\ Cardinality(S \cup {n + 1}) = Cardinality(S) + 1
         /\ Rank(S \cup {n + 1}, n + 1) = Cardinality(S) + 1
         /\ \A i \in S : /\ Rank(S \cup {n + 1}, i) = Rank(S, i)
                         /\ Rank(S, i) \in 1 .. Cardinality(S)
<1>1. IsFiniteSet(S)
  <2>1. IsFiniteSet(1 .. n)
    BY FS_Interval
  <2> QED
    BY <2>1, FS_Subset
<1>2. Cardinality(S) \in Nat
  BY <1>1, FS_CardinalityType
<1>3. Cardinality(S \cup {n + 1}) = Cardinality(S) + 1
  <2>1. n + 1 \notin S
    OBVIOUS
  <2> QED
    BY <1>1, <2>1, FS_AddElement
<1>4. Rank(S \cup {n + 1}, n + 1) = Cardinality(S) + 1
  <2>1. \A j \in S \cup {n + 1} : j <= n + 1
    OBVIOUS
  <2>2. {j \in S \cup {n + 1} : j <= n + 1} = S \cup {n + 1}
    BY <2>1
  <2> QED
    BY <1>3, <2>2 DEF Rank
<1>5. ASSUME NEW i \in S
      PROVE  /\ Rank(S \cup {n + 1}, i) = Rank(S, i)
             /\ Rank(S, i) \in 1 .. Cardinality(S)
  <2> DEFINE below == {j \in S : j <= i}
  <2>1. {j \in S \cup {n + 1} : j <= i} = below
    <3>1. i \in Nat /\ i <= n /\ ~(n + 1 <= i)
      OBVIOUS
    <3> QED
      BY <3>1
  <2>2. below \subseteq S /\ i \in below
    OBVIOUS
  <2> HIDE DEF below
  <2>3. IsFiniteSet(below) /\ Cardinality(below) <= Cardinality(S)
    BY <1>1, <2>2, FS_Subset
  <2>4. Cardinality(below) \in Nat /\ Cardinality(below) # 0
    BY <2>2, <2>3, FS_CardinalityType, FS_EmptySet
  <2> QED
    BY <1>2, <2>1, <2>3, <2>4 DEF Rank, below
<1> QED
  BY <1>2, <1>3, <1>4, <1>5

LEMMA ListsOneMore ==
  ASSUME NEW n \in Nat, NEW S \in SUBSET (1 .. n), NEW V, NEW seq \in Seq(V),
         NEW v, NEW longer, Lists(seq, S, v), \A i \in S : longer[i] = v[i],
         longer[n + 1] \in V
  PROVE  Lists(Append(seq, longer[n + 1]), S \cup {n + 1}, longer)
<1> DEFINE x == longer[n + 1]
           all == S \cup {n + 1}
<1>1. /\ Cardinality(S) \in Nat /\ Cardinality(all) = Cardinality(S) + 1
      /\ Rank(all, n + 1) = Cardinality(S) + 1
      /\ \A i \in S : Rank(all, i) = Rank(S, i) /\ Rank(S, i) \in 1 .. Cardinality(S)
  BY RankOfNewest
<1>2. Len(seq) = Cardinality(S)
  BY DEF Lists
<1> HIDE DEF x
<1>3. /\ Len(Append(seq, x)) = Len(seq) + 1 /\ Append(seq, x)[Len(seq) + 1] = x
      /\ \A k \in 1 .. Len(seq) : Append(seq, x)[k] = seq[k]
  BY AppendProperties DEF x
<1>4. ASSUME NEW i \in all PROVE Append(seq, x)[Rank(all, i)] = longer[i]
  <2>1. CASE i = n + 1
    BY <1>1, <1>2, <1>3, <2>1 DEF x
  <2>2. CASE i \in S
    <3>1. Append(seq, x)[Rank(all, i)] = seq[Rank(S, i)]
      BY <1>1, <1>2, <1>3, <2>2
    <3> QED
      BY <2>2, <3>1 DEF Lists
  <2> QED
    BY <2>1, <2>2
<1> QED
  BY <1>1, <1>2, <1>3, <1>4 DEF Lists, x

-----------------------------------------------------------------------------
\* What the host and the kernel hold.
Reports == [eventCount : Nat, messageType : Bytes, forwardDecision : BOOLEAN,
            consumerId : 0 .. NumConsumers - 1]
Passed == [word : Word, socket : 0 .. NumConsumers - 1]

TypeInv ==
  /\ pc \in {"decision", "feed", "consumers", "setup", "read", "discard", "exit"}
  /\ rom \in [Bytes -> Decision] /\ decision \in Decision
  /\ feed \in Seq(Word) /\ taken \in Seq(Word)
  /\ messageCount \in Nat
  /\ events \in Seq(Reports) /\ ring \in Seq(Reports) /\ log \in Seq(Reports)
  /\ toConsumers \in Seq(Passed)

\* The decisions are laid down before the feed opens, a slot that is being
\* read is there, and no word comes before the first of a message.
HostInv ==
  /\ pc \in {"decision", "feed"} => feed = <<>> /\ taken = <<>>
  /\ pc # "decision" => rom = [type \in Bytes |-> DecisionFor(type)]
  /\ pc = "discard" => ring # <<>>
  /\ taken = <<>> /\ feed # <<>> => feed[1].sof
  /\ taken # <<>> => taken[1].sof

\* The kernel has counted the messages, and the decision it holds is that of
\* the message it is in.
KernelInv ==
  /\ messageCount = Cardinality(Starts)
  /\ taken # <<>> => decision = DecisionFor(TypeAt(Len(taken)))

IInv == TypeInv /\ HostInv /\ KernelInv /\ EventsDescribeMessages /\ ForwardsWhole

LEMMA DecisionTyped ==
  ASSUME NEW type \in Bytes
  PROVE  DecisionFor(type) \in Decision
<1>1. type \in Nat /\ NumConsumers \in Nat /\ NumConsumers > 0
  BY MessageAssumption, SizeAssumption
<1>2. type % NumConsumers \in 0 .. NumConsumers - 1
  BY <1>1
<1>3. (IF program = "Tcp" THEN type % 7 # 0 ELSE type % 2 = 0) \in BOOLEAN
  OBVIOUS
<1> QED
  BY <1>2, <1>3 DEF DecisionFor, Decision

LEMMA FrameTyped ==
  ASSUME NEW m \in Messages
  PROVE  Frame(m) \in Seq(Word) /\ Frame(m) # <<>> /\ Frame(m)[1].sof
<1>1. m \in Seq(Bytes) /\ m # <<>>
  BY MessageAssumption
<1>2. /\ Len(m) \in Nat /\ Len(m) >= 1 /\ DOMAIN m = 1 .. Len(m)
      /\ \A i \in 1 .. Len(m) : m[i] \in Bytes
  BY <1>1
<1>3. \A i \in 1 .. Len(m) : [byte |-> m[i], sof |-> i = 1, eof |-> i = Len(m)] \in Word
  BY <1>2 DEF Word
<1>4. Frame(m) = [i \in 1 .. Len(m) |->
                    [byte |-> m[i], sof |-> i = 1, eof |-> i = Len(m)]]
  BY <1>2 DEF Frame
<1>5. Frame(m) \in [1 .. Len(m) -> Word]
  BY <1>3, <1>4
<1>6. Frame(m) \in Seq(Word) /\ Len(Frame(m)) = Len(m)
  BY <1>2, <1>5, SeqDef
<1>7. Frame(m)[1].sof
  <2>1. \A i \in 1 .. Len(m) :
          Frame(m)[i] = [byte |-> m[i], sof |-> i = 1, eof |-> i = Len(m)]
    BY <1>4, Zenon
  <2>2. 1 \in 1 .. Len(m)
    BY <1>2
  <2>3. Frame(m)[1] = [byte |-> m[1], sof |-> 1 = 1, eof |-> 1 = Len(m)]
    BY <2>1, <2>2, Zenon
  <2> DEFINE first == 1 = 1
             last == 1 = Len(m)
  <2>4. first
    OBVIOUS
  <2> HIDE DEF first, last
  <2>5. Frame(m)[1] = [byte |-> m[1], sof |-> first, eof |-> last]
    BY <2>3 DEF first, last
  <2> QED
    BY <2>4, <2>5
<1> QED
  BY <1>2, <1>6, <1>7

-----------------------------------------------------------------------------
(***************************************************************************)
(* One word more.  The type a word belongs to depends only on the words    *)
(* before it; a word that starts no message has the type of the one before *)
(* it.                                                                     *)
(***************************************************************************)
LEMMA MaxOfSome ==
  ASSUME NEW n \in Nat, NEW S \in SUBSET (1 .. n), S # {}
  PROVE  Max(S) \in S /\ \A y \in S : y <= Max(S)
<1> DEFINE T == {n - x : x \in S}
           R == {p \in Nat \X Nat : p[1] < p[2]}
<1>1. IsWellFoundedOn(R, Nat)
  BY NatLessThanWellFounded DEF OpToRel
<1>2. T \subseteq Nat /\ T # {}
  <2>1. \A x \in S : n - x \in Nat
    OBVIOUS
  <2> QED
    BY <2>1
<1>3. PICK t \in T : \A u \in T : <<u, t>> \notin R
  <2> HIDE DEF T, R
  <2> QED
    BY <1>1, <1>2, WFMin, Zenon
<1>4. PICK x \in S : t = n - x
  OBVIOUS
<1>5. ASSUME NEW y \in S PROVE x >= y
  <2>1. n - y \in T /\ <<n - y, t>> \notin R
    BY <1>3
  <2>2. n - y \in Nat /\ t \in Nat
    BY <1>2, <2>1
  <2>3. ~(n - y < t)
    BY <2>1, <2>2
  <2> QED
    BY <1>4, <2>3
<1>6. Max(S) \in S /\ \A y \in S : Max(S) >= y
  BY <1>5, Zenon DEF Max
<1> QED
  BY <1>6

LEMMA TypesKept ==
  ASSUME TypeInv, HostInv, NEW w \in Word, taken' = Append(taken, w)
  PROVE  /\ Len(taken') = Len(taken) + 1 /\ taken'[Len(taken) + 1] = w
         /\ Len(taken) \in Nat /\ taken' # <<>> /\ taken' \in Seq(Word)
         /\ DOMAIN taken = 1 .. Len(taken) /\ DOMAIN taken' = 1 .. Len(taken) + 1
         /\ \A i \in 1 .. Len(taken) : taken'[i] = taken[i] /\ TypeAt(i)' = TypeAt(i)
<1>1. /\ Len(taken') = Len(taken) + 1 /\ taken'[Len(taken) + 1] = w
      /\ Len(taken) \in Nat /\ taken' # <<>> /\ taken' \in Seq(Word)
      /\ DOMAIN taken = 1 .. Len(taken) /\ DOMAIN taken' = 1 .. Len(taken) + 1
      /\ \A i \in 1 .. Len(taken) : taken'[i] = taken[i]
  BY SMTT(40) DEF TypeInv
<1>2. ASSUME NEW i \in 1 .. Len(taken)
      PROVE  TypeAt(i)' = TypeAt(i)
  <2> DEFINE old == {j \in 1 .. i : taken[j].sof}
             new == {j \in 1 .. i : taken'[j].sof}
  <2>1. \A j \in 1 .. i : taken'[j] = taken[j]
    BY <1>1
  <2>2. new = old /\ old \in SUBSET (1 .. Len(taken)) /\ old \in SUBSET (1 .. i)
    BY <1>1, <2>1
  <2>3. 1 \in old
    BY <1>1 DEF HostInv, TypeInv
  <2>4. Max(old) \in old
    BY <1>1, <2>2, <2>3, MaxOfSome
  <2>5. taken'[Max(old)] = taken[Max(old)]
    BY <1>1, <2>2, <2>4
  <2> HIDE DEF old, new
  <2>6. TypeAt(i) = taken[Max(old)].byte /\ TypeAt(i)' = taken'[Max(new)].byte
    BY Zenon DEF TypeAt, old, new
  <2> QED
    BY <2>2, <2>5, <2>6
<1> QED
  BY <1>1, <1>2

LEMMA TypeOfNewest ==
  ASSUME TypeInv, HostInv, NEW w \in Word, taken' = Append(taken, w),
         taken = <<>> => w.sof, NEW n \in Nat, n = Len(taken)
  PROVE  /\ TypeAt(n + 1)' = IF w.sof THEN w.byte ELSE TypeAt(n)
         /\ Starts \in SUBSET (1 .. n)
         /\ Starts' = IF w.sof THEN Starts \cup {n + 1} ELSE Starts
         /\ w.sof \in BOOLEAN /\ (~w.sof => taken # <<>>)
<1> DEFINE old == {j \in 1 .. n : taken[j].sof}
           new == {j \in 1 .. n + 1 : taken'[j].sof}
<1>1. /\ Len(taken') = n + 1 /\ taken'[n + 1] = w /\ n \in Nat
      /\ DOMAIN taken = 1 .. n /\ DOMAIN taken' = 1 .. n + 1
      /\ \A i \in 1 .. n : taken'[i] = taken[i]
  BY TypesKept
<1>2. w.sof \in BOOLEAN
  BY DEF Word
<1>3. Starts = old /\ Starts' = new
  BY <1>1 DEF Starts
<1>4. TypeAt(n + 1)' = taken'[Max(new)].byte /\ TypeAt(n) = taken[Max(old)].byte
  BY Zenon DEF TypeAt
<1>5. CASE w.sof
  <2>1. new = old \cup {n + 1}
    BY <1>1, <1>5
  <2>2. new \in SUBSET (1 .. n + 1) /\ n + 1 \in new /\ n + 1 \in Nat
    BY <1>1, <1>5
  <2>3. Max(new) = n + 1
    <3> HIDE DEF new
    <3>1. Max(new) \in new /\ n + 1 <= Max(new)
      BY <2>2, MaxOfSome
    <3>2. Max(new) \in 1 .. n + 1
      BY <2>2, <3>1
    <3> QED
      BY <3>1, <3>2
  <2> QED
    BY <1>1, <1>3, <1>4, <1>5, <2>1, <2>3
<1>6. CASE ~w.sof
  <2>1. new = old
    BY <1>1, <1>6
  <2>2. taken # <<>> /\ 1 \in old
    BY <1>1, <1>6 DEF HostInv, TypeInv
  <2>3. Max(old) \in 1 .. n
    <3>1. old \in SUBSET (1 .. n) /\ old # {}
      BY <2>2
    <3> HIDE DEF old
    <3> QED
      BY <1>1, <3>1, MaxOfSome
  <2>4. taken'[Max(new)] = taken[Max(old)]
    BY <1>1, <2>1, <2>3
  <2> QED
    BY <1>2, <1>3, <1>4, <1>6, <2>1, <2>2, <2>4
<1> QED
  BY <1>2, <1>5, <1>6

\* The two properties as lists.
EventAt(i) ==
  LET d == DecisionFor(taken[i].byte)
      n == Rank(Starts, i)
  IN [eventCount |-> n - 1, messageType |-> taken[i].byte,
      forwardDecision |-> d.shouldForward, consumerId |-> d.consumerId]

PassedAt(i) == [word |-> taken[i], socket |-> DecisionFor(TypeAt(i)).consumerId]

LEMMA PropertiesAreLists ==
  /\ EventsDescribeMessages <=> Lists(AllEvents, Starts, [i \in Starts |-> EventAt(i)])
  /\ ForwardsWhole <=> Lists(toConsumers, Wanted, [i \in Wanted |-> PassedAt(i)])
BY DEF EventsDescribeMessages, ForwardsWhole, Lists, EventAt, PassedAt

LEMMA MoreEvents ==
  ASSUME TypeInv, HostInv, NEW e \in Reports, events' = Append(events, e),
         UNCHANGED <<pc, ring, log>>
  PROVE  AllEvents \in Seq(Reports) /\ AllEvents' = Append(AllEvents, e)
<1> DEFINE r == IF pc = "discard" THEN Tail(ring) ELSE ring
           s == log \o r
<1>1. r \in Seq(Reports)
  BY DEF TypeInv, HostInv
<1>2. s \in Seq(Reports)
  BY <1>1 DEF TypeInv
<1>3. AllEvents = s \o events /\ AllEvents' = s \o Append(events, e)
  BY DEF AllEvents
<1> HIDE DEF s
<1>4. events \in Seq(Reports)
  BY DEF TypeInv
<1>5. s \o Append(events, e) = Append(s \o events, e)
  <2>1. Append(events, e) = events \o <<e>> /\ <<e>> \in Seq(Reports)
    BY <1>4, AppendIsConcat
  <2>2. s \o (events \o <<e>>) = (s \o events) \o <<e>>
    BY <1>2, <1>4, <2>1, ConcatAssociative
  <2>3. s \o events \in Seq(Reports)
    BY <1>2, <1>4
  <2>4. Append(s \o events, e) = (s \o events) \o <<e>>
    BY <2>3, AppendIsConcat
  <2> QED
    BY <2>1, <2>2, <2>4
<1>6. s \o events \in Seq(Reports)
  BY <1>2, <1>4
<1> QED
  BY <1>3, <1>5, <1>6

-----------------------------------------------------------------------------
(***************************************************************************)
(* The kernel takes a word.  Its decision is the one for the message that  *)
(* the word belongs to, so a first word is reported as it has to be, and   *)
(* a word is passed on exactly if it is wanted.                            *)
(***************************************************************************)
TakesWord(w) ==
  /\ FeedOpen /\ feed # <<>> /\ w = Head(feed) /\ Cycle(TRUE, w)
  /\ feed' = Tail(feed) /\ taken' = Append(taken, w)
  /\ UNCHANGED <<program, pc, rom, ring, log>>

LEMMA DecisionOfWord ==
  ASSUME IInv, NEW w, TakesWord(w), NEW n, n = Len(taken)
  PROVE  /\ w \in Word /\ w.byte \in Bytes /\ (taken = <<>> => w.sof)
         /\ decision' \in Decision
         /\ w.sof => decision' = DecisionFor(w.byte)
         /\ decision' = DecisionFor(TypeAt(n + 1)')
<1>1. /\ w \in Word /\ w.byte \in Bytes /\ (taken = <<>> => w.sof)
  <2>1. feed \in Seq(Word) /\ feed # <<>> /\ w = Head(feed)
    BY DEF TakesWord, IInv, TypeInv
  <2>2. w = feed[1] /\ w \in Word
    BY <2>1
  <2>3. w.byte \in Bytes
    BY <2>2 DEF Word
  <2> QED
    BY <2>1, <2>2, <2>3 DEF IInv, HostInv
<1>2. rom = [type \in Bytes |-> DecisionFor(type)] /\ taken' = Append(taken, w)
  BY DEF TakesWord, IInv, HostInv, FeedOpen
<1>3. decision' = IF w.sof THEN DecisionFor(w.byte) ELSE decision
  <2>1. w.sof \in BOOLEAN
    BY <1>1 DEF Word
  <2>2. decision' = IF w.sof THEN rom[w.byte] ELSE decision
    BY <2>1 DEF TakesWord, Cycle, IsMessageStart, Hold
  <2>3. rom[w.byte] = DecisionFor(w.byte)
    BY <1>1, <1>2
  <2> QED
    BY <2>2, <2>3
<1>4. decision' \in Decision
  BY <1>1, <1>3, DecisionTyped DEF IInv, TypeInv
<1>5. /\ TypeAt(n + 1)' = IF w.sof THEN w.byte ELSE TypeAt(n)
      /\ (~w.sof => taken # <<>>)
  BY <1>1, <1>2, TypeOfNewest DEF IInv
<1>6. ~w.sof => decision = DecisionFor(TypeAt(n))
  BY <1>5 DEF IInv, KernelInv
<1> QED
  BY <1>1, <1>3, <1>4, <1>5, <1>6

LEMMA WordReported ==
  ASSUME IInv, NEW w, TakesWord(w)
  PROVE  /\ EventsDescribeMessages' /\ messageCount' = Cardinality(Starts')
         /\ messageCount' \in Nat /\ events' \in Seq(Reports)
<1>1. PICK n : n = Len(taken)
  OBVIOUS
<1>2. /\ w \in Word /\ w.byte \in Bytes /\ (taken = <<>> => w.sof)
      /\ decision' \in Decision /\ (w.sof => decision' = DecisionFor(w.byte))
  BY <1>1, DecisionOfWord
<1>3. taken' = Append(taken, w) /\ program' = program /\ n \in Nat
  BY <1>1 DEF TakesWord, IInv, TypeInv
<1>4. /\ Starts \in SUBSET (1 .. n)
      /\ Starts' = (IF w.sof THEN Starts \cup {n + 1} ELSE Starts)
      /\ w.sof \in BOOLEAN
  BY <1>1, <1>2, <1>3, TypeOfNewest DEF IInv
<1>5. taken'[n + 1] = w /\ \A i \in 1 .. n : taken'[i] = taken[i]
  BY <1>1, <1>2, <1>3, TypesKept DEF IInv
<1>6. /\ Cardinality(Starts) \in Nat
      /\ Cardinality(Starts \cup {n + 1}) = Cardinality(Starts) + 1
      /\ Rank(Starts \cup {n + 1}, n + 1) = Cardinality(Starts) + 1
      /\ \A i \in Starts : Rank(Starts \cup {n + 1}, i) = Rank(Starts, i)
  BY <1>3, <1>4, RankOfNewest
<1>7. messageCount = Cardinality(Starts)
  BY DEF IInv, KernelInv
<1>8. \A i \in Starts : EventAt(i)' = EventAt(i)
  <2> TAKE i \in Starts
  <2>1. taken'[i] = taken[i] /\ Rank(Starts', i) = Rank(Starts, i)
    BY <1>4, <1>5, <1>6
  <2>2. DecisionFor(taken[i].byte)' = DecisionFor(taken[i].byte)
    BY <1>3, <2>1 DEF DecisionFor
  <2> QED
    BY <2>1, <2>2 DEF EventAt
<1>9. Lists(AllEvents, Starts, [i \in Starts |-> EventAt(i)])
  BY PropertiesAreLists DEF IInv
<1>10. EventsDescribeMessages' <=> Lists(AllEvents', Starts', [i \in Starts' |-> EventAt(i)'])
  BY DEF EventsDescribeMessages, Lists, EventAt
<1>11. ASSUME w.sof PROVE /\ EventsDescribeMessages' /\ messageCount' = Cardinality(Starts')
                          /\ messageCount' \in Nat /\ events' \in Seq(Reports)
  <2>1. PICK e : e = [eventCount |-> messageCount, messageType |-> w.byte,
                      forwardDecision |-> decision'.shouldForward,
                      consumerId |-> decision'.consumerId]
    OBVIOUS
  <2>2. e \in Reports
    BY <1>2, <1>6, <1>7, <2>1 DEF Reports, Decision
  <2>3. events' = Append(events, e) /\ messageCount' = messageCount + 1
    BY <1>11, <2>1 DEF TakesWord, Cycle, IsMessageStart, Hold, Event
  <2>4. AllEvents \in Seq(Reports) /\ AllEvents' = Append(AllEvents, e)
    BY <2>2, <2>3, MoreEvents DEF IInv, TakesWord
  <2>5. EventAt(n + 1)' = e
    <3>1. Rank(Starts', n + 1) - 1 = messageCount
      BY <1>4, <1>6, <1>7, <1>11
    <3>2. DecisionFor(w.byte)' = decision'
      BY <1>2, <1>3, <1>11 DEF DecisionFor
    <3> QED
      BY <1>2, <1>3, <1>5, <1>11, <2>1, <3>1 DEF EventAt, DecisionFor
  <2>6. PICK v, longer : /\ v = [i \in Starts |-> EventAt(i)]
                         /\ longer = [i \in Starts' |-> EventAt(i)']
    OBVIOUS
  <2>7. longer[n + 1] = e /\ \A i \in Starts : longer[i] = v[i]
    BY <1>4, <1>8, <1>11, <2>5, <2>6
  <2>8. Lists(Append(AllEvents, longer[n + 1]), Starts \cup {n + 1}, longer)
    <3>1. n \in Nat /\ Starts \in SUBSET (1 .. n) /\ AllEvents \in Seq(Reports)
      BY <1>3, <1>4, <2>4
    <3>2. Lists(AllEvents, Starts, v)
      BY <1>9, <2>6, Zenon
    <3>3. longer[n + 1] \in Reports /\ \A i \in Starts : longer[i] = v[i]
      BY <2>2, <2>7, Zenon
    <3> QED
      BY <3>1, <3>2, <3>3, ListsOneMore, Zenon
  <2>9. EventsDescribeMessages'
    BY <1>4, <1>10, <1>11, <2>4, <2>6, <2>7, <2>8
  <2> QED
    BY <1>4, <1>6, <1>7, <1>11, <2>2, <2>3, <2>9 DEF IInv, TypeInv
<1>12. ASSUME ~w.sof PROVE /\ EventsDescribeMessages' /\ messageCount' = Cardinality(Starts')
                           /\ messageCount' \in Nat /\ events' \in Seq(Reports)
  <2>1. events' = events /\ messageCount' = messageCount
    BY <1>12 DEF TakesWord, Cycle, IsMessageStart
  <2>2. AllEvents' = AllEvents /\ Starts' = Starts
    BY <1>4, <1>12, <2>1 DEF AllEvents, TakesWord
  <2>3. [i \in Starts' |-> EventAt(i)'] = [i \in Starts |-> EventAt(i)]
    BY <1>8, <2>2
  <2> QED
    BY <1>6, <1>7, <1>9, <1>10, <2>1, <2>2, <2>3 DEF IInv, TypeInv
<1> QED
  BY <1>4, <1>11, <1>12

LEMMA WordPassedOn ==
  ASSUME IInv, NEW w, TakesWord(w)
  PROVE  ForwardsWhole' /\ toConsumers' \in Seq(Passed)
<1>1. PICK n : n = Len(taken)
  OBVIOUS
<1>2. /\ w \in Word /\ (taken = <<>> => w.sof) /\ decision' \in Decision
      /\ decision' = DecisionFor(TypeAt(n + 1)')
  BY <1>1, DecisionOfWord
<1>3. /\ taken' = Append(taken, w) /\ program' = program /\ n \in Nat
      /\ toConsumers \in Seq(Passed)
  BY <1>1 DEF TakesWord, IInv, TypeInv
<1>4. /\ taken'[n + 1] = w /\ DOMAIN taken = 1 .. n /\ DOMAIN taken' = 1 .. n + 1
      /\ \A i \in 1 .. n : taken'[i] = taken[i] /\ TypeAt(i)' = TypeAt(i)
  BY <1>1, <1>2, <1>3, TypesKept DEF IInv
<1>5. \A t : DecisionFor(t)' = DecisionFor(t)
  BY <1>3 DEF DecisionFor
<1>6. /\ \A i \in 1 .. n : DecisionFor(TypeAt(i))' = DecisionFor(TypeAt(i))
      /\ DecisionFor(TypeAt(n + 1))' = decision'
  BY <1>2, <1>3, <1>4 DEF DecisionFor
<1>7. decision'.shouldForward \in BOOLEAN
  BY <1>2 DEF Decision
<1>8. Wanted \in SUBSET (1 .. n)
  BY <1>4 DEF Wanted
<1>9. Wanted' = IF decision'.shouldForward THEN Wanted \cup {n + 1} ELSE Wanted
  <2>1. \A i : i \in Wanted' <=> /\ i \in 1 .. n + 1
                                 /\ DecisionFor(TypeAt(i))'.shouldForward
    BY <1>4 DEF Wanted
  <2>2. \A i : i \in Wanted <=> /\ i \in 1 .. n
                                /\ DecisionFor(TypeAt(i)).shouldForward
    BY <1>4 DEF Wanted
  <2>3. \A i : i \in 1 .. n + 1 <=> i \in 1 .. n \/ i = n + 1
    BY <1>3
  <2>4. n + 1 \notin 1 .. n
    BY <1>3
  <2>5. \A i \in 1 .. n : i \in Wanted' <=> i \in Wanted
    BY <1>6, <2>1, <2>2, <2>3
  <2>6. n + 1 \in Wanted' <=> decision'.shouldForward
    BY <1>6, <2>1, <2>3
  <2>7. \A i : i \in Wanted' => i \in 1 .. n \/ i = n + 1
    BY <2>1, <2>3
  <2>8. ASSUME decision'.shouldForward PROVE Wanted' = Wanted \cup {n + 1}
    <3>1. \A i : i \in Wanted' <=> i \in Wanted \/ i = n + 1
      BY <1>8, <2>5, <2>6, <2>7, <2>8
    <3> QED
      BY <3>1
  <2>9. ASSUME ~decision'.shouldForward PROVE Wanted' = Wanted
    <3>1. \A i : i \in Wanted' <=> i \in Wanted
      BY <1>8, <2>5, <2>6, <2>7, <2>9
    <3> QED
      BY <3>1
  <2> QED
    BY <2>8, <2>9
<1>10. /\ Rank(Wanted \cup {n + 1}, n + 1) = Cardinality(Wanted) + 1
       /\ \A i \in Wanted : Rank(Wanted \cup {n + 1}, i) = Rank(Wanted, i)
  BY <1>3, <1>8, RankOfNewest
<1>11. \A i \in Wanted : PassedAt(i)' = PassedAt(i)
  BY <1>4, <1>6, <1>8 DEF PassedAt
<1>12. Lists(toConsumers, Wanted, [i \in Wanted |-> PassedAt(i)])
  BY PropertiesAreLists DEF IInv
<1>13. ForwardsWhole' <=> Lists(toConsumers', Wanted', [i \in Wanted' |-> PassedAt(i)'])
  BY DEF ForwardsWhole, Lists, PassedAt
<1>14. ASSUME decision'.shouldForward
       PROVE  ForwardsWhole' /\ toConsumers' \in Seq(Passed)
  <2>1. PICK e : e = [word |-> w, socket |-> decision'.consumerId]
    OBVIOUS
  <2>2. e \in Passed
    BY <1>2, <2>1 DEF Passed, Decision
  <2>3. toConsumers' = Append(toConsumers, e)
    BY <1>14, <2>1 DEF TakesWord, Cycle, IsMessageStart, Hold
  <2>4. PassedAt(n + 1)' = e
    BY <1>4, <1>6, <2>1 DEF PassedAt
  <2>5. PICK v, longer : /\ v = [i \in Wanted |-> PassedAt(i)]
                         /\ longer = [i \in Wanted' |-> PassedAt(i)']
    OBVIOUS
  <2>6. longer[n + 1] = e /\ \A i \in Wanted : longer[i] = v[i]
    BY <1>9, <1>11, <1>14, <2>4, <2>5
  <2>7. Lists(Append(toConsumers, longer[n + 1]), Wanted \cup {n + 1}, longer)
    <3>1. n \in Nat /\ Wanted \in SUBSET (1 .. n) /\ toConsumers \in Seq(Passed)
      BY <1>3, <1>8
    <3>2. Lists(toConsumers, Wanted, v)
      BY <1>12, <2>5, Zenon
    <3>3. longer[n + 1] \in Passed /\ \A i \in Wanted : longer[i] = v[i]
      BY <2>2, <2>6, Zenon
    <3> QED
      BY <3>1, <3>2, <3>3, ListsOneMore, Zenon
  <2> QED
    BY <1>3, <1>9, <1>13, <1>14, <2>2, <2>3, <2>5, <2>6, <2>7
<1>15. ASSUME ~decision'.shouldForward
       PROVE  ForwardsWhole' /\ toConsumers' \in Seq(Passed)
  <2>1. toConsumers' = toConsumers
    BY <1>15 DEF TakesWord, Cycle, IsMessageStart, Hold
  <2>2. [i \in Wanted' |-> PassedAt(i)'] = [i \in Wanted |-> PassedAt(i)]
    BY <1>9, <1>11, <1>15
  <2> QED
    BY <1>3, <1>9, <1>12, <1>13, <1>15, <2>1, <2>2
<1> QED
  BY <1>7, <1>14, <1>15

LEMMA WordStep ==
  ASSUME IInv, NEW w, TakesWord(w)
  PROVE  IInv'
<1>1. PICK n : n = Len(taken)
  OBVIOUS
<1>2. /\ w \in Word /\ (taken = <<>> => w.sof) /\ decision' \in Decision
      /\ decision' = DecisionFor(TypeAt(n + 1)')
  BY <1>1, DecisionOfWord
<1>3. /\ Len(taken') = n + 1 /\ taken' # <<>> /\ taken' \in Seq(Word)
      /\ taken'[n + 1] = w /\ \A i \in 1 .. n : taken'[i] = taken[i]
  BY <1>1, <1>2, TypesKept DEF IInv, TakesWord
<1>4. TypeInv'
  <2>1. feed' \in Seq(Word)
    BY DEF IInv, TypeInv, TakesWord
  <2> QED
    BY <1>2, <1>3, <2>1, WordReported, WordPassedOn DEF IInv, TypeInv, TakesWord
<1>5. HostInv'
  <2>1. taken'[1].sof
    <3>1. n \in Nat /\ (taken = <<>> <=> n = 0)
      BY <1>1 DEF IInv, TypeInv
    <3>2. CASE taken = <<>>
      BY <1>2, <1>3, <3>1, <3>2
    <3>3. CASE taken # <<>>
      BY <1>3, <3>1, <3>3 DEF IInv, HostInv
    <3> QED
      BY <3>2, <3>3
  <2>2. pc' = pc /\ rom' = rom /\ program' = program /\ ring' = ring
        /\ pc \notin {"decision", "feed"}
    BY DEF TakesWord, FeedOpen
  <2>3. [type \in Bytes |-> DecisionFor(type)]' = [type \in Bytes |-> DecisionFor(type)]
    BY <2>2 DEF DecisionFor
  <2> QED
    BY <1>3, <2>1, <2>2, <2>3 DEF IInv, HostInv
<1>6. KernelInv'
  <2>1. DecisionFor(TypeAt(Len(taken)))' = DecisionFor(TypeAt(n + 1)')
    <3>1. Len(taken') = n + 1 /\ program' = program
      BY <1>3 DEF TakesWord
    <3>2. TypeAt(Len(taken))' = TypeAt(n + 1)'
      BY <3>1 DEF TypeAt
    <3> QED
      BY <3>1, <3>2 DEF DecisionFor
  <2> QED
    BY <1>2, <2>1, WordReported DEF KernelInv
<1> QED
  BY <1>4, <1>5, <1>6, WordReported, WordPassedOn DEF IInv

-----------------------------------------------------------------------------
(***************************************************************************)
(* The other steps.  What the host is told of and what it has to be told   *)
(* of stay as they are unless the kernel takes a word.                     *)
(***************************************************************************)
LEMMA SameWords ==
  ASSUME IInv, UNCHANGED <<program, messageCount, decision, taken, toConsumers>>
  PROVE  /\ KernelInv' /\ ForwardsWhole'
         /\ AllEvents' = AllEvents => EventsDescribeMessages'
<1>1. Starts' = Starts /\ \A i : TypeAt(i)' = TypeAt(i)
  BY DEF Starts, TypeAt
<1>2. \A t : DecisionFor(t)' = DecisionFor(t)
  BY DEF DecisionFor
<1>3. \A i : DecisionFor(TypeAt(i))' = DecisionFor(TypeAt(i))
  BY <1>1 DEF DecisionFor
<1>4. KernelInv'
  <2>1. DecisionFor(TypeAt(Len(taken)))' = DecisionFor(TypeAt(Len(taken)))
    BY <1>1 DEF DecisionFor, TypeAt
  <2> QED
    BY <1>1, <2>1 DEF IInv, KernelInv
<1>5. Wanted' = Wanted
  BY <1>3 DEF Wanted
<1>6. ForwardsWhole'
  BY <1>3, <1>5 DEF IInv, ForwardsWhole
<1>7. ASSUME AllEvents' = AllEvents PROVE EventsDescribeMessages'
  <2>1. \A i : EventAt(i)' = EventAt(i)
    BY <1>1, <1>2 DEF EventAt, DecisionFor
  <2>2. EventsDescribeMessages' <=>
          Lists(AllEvents', Starts', [i \in Starts' |-> EventAt(i)'])
    BY DEF EventsDescribeMessages, Lists, EventAt
  <2> QED
    BY <1>1, <1>7, <2>1, <2>2, PropertiesAreLists DEF IInv
<1> QED
  BY <1>4, <1>6, <1>7

\* The decisions in the ROM stay the ones of the program.
LEMMA SameRom ==
  ASSUME HostInv, UNCHANGED <<program, rom>>, pc # "decision"
  PROVE  rom' = [type \in Bytes |-> DecisionFor(type)]'
<1>1. [type \in Bytes |-> DecisionFor(type)]' = [type \in Bytes |-> DecisionFor(type)]
  BY DEF DecisionFor
<1> QED
  BY <1>1 DEF HostInv

LEMMA ArriveStep == ASSUME IInv, Arrive PROVE IInv'
<1>1. PICK m \in Messages : feed' = feed \o Frame(m)
  BY DEF Arrive
<1>2. PICK f : f = Frame(m)
  OBVIOUS
<1>3. f \in Seq(Word) /\ f # <<>> /\ f[1].sof /\ feed \in Seq(Word) /\ feed' = feed \o f
  BY <1>1, <1>2, FrameTyped DEF IInv, TypeInv
<1>4. feed' \in Seq(Word) /\ feed'[1] = IF feed = <<>> THEN f[1] ELSE feed[1]
  BY <1>3
<1>5. TypeInv'
  BY <1>4 DEF IInv, TypeInv, Arrive
<1>6. HostInv'
  <2>1. rom' = [type \in Bytes |-> DecisionFor(type)]'
    BY SameRom DEF IInv, Arrive, FeedOpen
  <2> QED
    BY <1>3, <1>4, <2>1 DEF IInv, HostInv, Arrive, FeedOpen
<1>7. AllEvents' = AllEvents
  BY DEF AllEvents, Arrive
<1> QED
  BY <1>5, <1>6, <1>7, SameWords DEF IInv, Arrive

\* A cycle without a word.
LEMMA IdleStep ==
  ASSUME IInv, FeedOpen, NEW word \in Word, Cycle(FALSE, word),
         UNCHANGED <<feed, taken, program, pc, rom, ring, log>>
  PROVE  IInv'
<1>1. UNCHANGED <<messageCount, decision, events, toConsumers>>
  BY DEF Cycle, IsMessageStart, Hold
<1>2. TypeInv'
  BY <1>1 DEF IInv, TypeInv
<1>3. HostInv'
  <2>1. rom' = [type \in Bytes |-> DecisionFor(type)]'
    BY SameRom DEF IInv, FeedOpen
  <2> QED
    BY <2>1 DEF IInv, HostInv, FeedOpen
<1>4. AllEvents' = AllEvents
  BY <1>1 DEF AllEvents
<1> QED
  BY <1>1, <1>2, <1>3, <1>4, SameWords DEF IInv

LEMMA KernelStep == ASSUME IInv, Kernel PROVE IInv'
<1>1. CASE feed # <<>> /\ Cycle(TRUE, Head(feed)) /\ feed' = Tail(feed)
           /\ taken' = Append(taken, Head(feed))
  <2>1. PICK w : w = Head(feed)
    OBVIOUS
  <2>2. TakesWord(w)
    BY <1>1, <2>1 DEF Kernel, TakesWord
  <2> QED
    BY <2>2, WordStep
<1>2. CASE (\E word \in Word : Cycle(FALSE, word)) /\ UNCHANGED <<feed, taken>>
  BY <1>2, IdleStep DEF Kernel
<1> QED
  BY <1>1, <1>2 DEF Kernel

\* The host lays the decisions down before there is any word.
LEMMA InitDecisionStep == ASSUME IInv, InitDecision PROVE IInv'
<1>1. /\ pc' = "feed" /\ rom' = [type \in Bytes |-> DecisionFor(type)]
      /\ UNCHANGED <<program, feed, messageCount, decision, events, ring, log,
                     taken, toConsumers>>
  BY DEF InitDecision, Go
<1>2. rom' \in [Bytes -> Decision]
  BY <1>1, DecisionTyped
<1>3. TypeInv'
  BY <1>1, <1>2 DEF IInv, TypeInv
<1>4. HostInv'
  <2>1. pc = "decision"
    BY DEF InitDecision, Go
  <2>2. rom' = [type \in Bytes |-> DecisionFor(type)]'
    BY <1>1 DEF DecisionFor
  <2> QED
    BY <1>1, <2>1, <2>2 DEF IInv, HostInv
<1>5. AllEvents' = AllEvents
  BY <1>1 DEF AllEvents, InitDecision, Go
<1> QED
  BY <1>1, <1>3, <1>4, <1>5, SameWords DEF IInv

\* The steps in which only the host's place changes.
LEMMA StartUpStep ==
  ASSUME IInv, InitMulticastFeed \/ InitConsumers \/ InitFails \/ SetupEvents
  PROVE  IInv'
<1>1. /\ pc \in {"feed", "consumers", "setup"} /\ pc' \in {"consumers", "setup", "read", "exit"}
      /\ UNCHANGED <<program, rom, feed, messageCount, decision, events, ring, log,
                     taken, toConsumers>>
  BY DEF InitMulticastFeed, InitConsumers, InitFails, SetupEvents, Go
<1>2. TypeInv'
  BY <1>1 DEF IInv, TypeInv
<1>3. HostInv'
  <2>1. rom' = [type \in Bytes |-> DecisionFor(type)]'
    BY <1>1, SameRom DEF IInv
  <2> QED
    BY <1>1, <2>1 DEF IInv, HostInv
<1>4. AllEvents' = AllEvents
  BY <1>1 DEF AllEvents
<1> QED
  BY <1>1, <1>2, <1>3, <1>4, SameWords DEF IInv

LEMMA ReadStep == ASSUME IInv, Read PROVE IInv'
<1>1. /\ pc = "read" /\ pc' = "discard" /\ ring # <<>> /\ log' = Append(log, Head(ring))
      /\ UNCHANGED <<program, rom, feed, messageCount, decision, events, ring,
                     taken, toConsumers>>
  BY DEF Read, Go
<1>2. ring \in Seq(Reports) /\ log \in Seq(Reports) /\ events \in Seq(Reports)
  BY DEF IInv, TypeInv
<1>3. TypeInv'
  <2>1. Head(ring) \in Reports
    BY <1>1, <1>2
  <2>2. log' \in Seq(Reports)
    BY <1>1, <1>2, <2>1
  <2> QED
    BY <1>1, <2>2 DEF IInv, TypeInv
<1>4. HostInv'
  <2>1. rom' = [type \in Bytes |-> DecisionFor(type)]'
    BY <1>1, SameRom DEF IInv
  <2> QED
    BY <1>1, <2>1 DEF IInv, HostInv
<1>5. AllEvents' = AllEvents
  <2>1. Append(log, Head(ring)) \o Tail(ring) = log \o ring
    <3>1. PICK e, r : e = Head(ring) /\ r = Tail(ring)
      OBVIOUS
    <3>2. e \in Reports /\ r \in Seq(Reports) /\ ring = <<e>> \o r
      BY <1>1, <1>2, <3>1
    <3>3. <<e>> \in Seq(Reports) /\ Append(log, e) = log \o <<e>>
      BY <1>2, <3>2, AppendIsConcat
    <3>4. (log \o <<e>>) \o r = log \o (<<e>> \o r)
      BY <1>2, <3>2, <3>3, ConcatAssociative
    <3> QED
      BY <3>1, <3>2, <3>3, <3>4
  <2>2. AllEvents = (log \o ring) \o events
    <3>1. AllEvents = log \o ring \o events
      BY <1>1 DEF AllEvents
    <3> QED
      BY <3>1
  <2>3. AllEvents' = (Append(log, Head(ring)) \o Tail(ring)) \o events
    BY <1>1 DEF AllEvents
  <2> QED
    BY <2>1, <2>2, <2>3
<1> QED
  BY <1>1, <1>3, <1>4, <1>5, SameWords DEF IInv

LEMMA DiscardStep == ASSUME IInv, Discard PROVE IInv'
<1>1. /\ pc = "discard" /\ pc' = "read" /\ ring # <<>> /\ ring' = Tail(ring)
      /\ UNCHANGED <<program, rom, feed, messageCount, decision, events, log,
                     taken, toConsumers>>
  BY DEF Discard, Go, IInv, HostInv
<1>2. TypeInv'
  <2>1. ring' \in Seq(Reports)
    BY <1>1 DEF IInv, TypeInv
  <2> QED
    BY <1>1, <2>1 DEF IInv, TypeInv
<1>3. HostInv'
  <2>1. rom' = [type \in Bytes |-> DecisionFor(type)]'
    BY <1>1, SameRom DEF IInv
  <2> QED
    BY <1>1, <2>1 DEF IInv, HostInv
<1>4. AllEvents' = AllEvents
  BY <1>1 DEF AllEvents
<1> QED
  BY <1>1, <1>2, <1>3, <1>4, SameWords DEF IInv

\* An event that moves into the ring keeps its place among all.
LEMMA DeliverStep == ASSUME IInv, Deliver PROVE IInv'
<1>1. /\ pc \in {"read", "discard"} /\ events # <<>>
      /\ ring' = Append(ring, Head(events)) /\ events' = Tail(events)
      /\ UNCHANGED <<program, pc, rom, feed, messageCount, decision, log, taken,
                     toConsumers>>
  BY DEF Deliver
<1>2. PICK e, rest : e = Head(events) /\ rest = Tail(events)
  OBVIOUS
<1>3. /\ ring \in Seq(Reports) /\ log \in Seq(Reports) /\ events \in Seq(Reports)
      /\ e \in Reports /\ rest \in Seq(Reports) /\ events = <<e>> \o rest
      /\ ring' = Append(ring, e) /\ events' = rest
  BY <1>1, <1>2 DEF IInv, TypeInv
<1>4. ring' \in Seq(Reports) /\ ring' # <<>>
  <2>1. Append(ring, e) \in Seq(Reports) /\ Append(ring, e) # <<>>
    BY <1>3, AppendProperties
  <2> QED
    BY <1>3, <2>1
<1>5. TypeInv'
  BY <1>1, <1>3, <1>4 DEF IInv, TypeInv
<1>6. HostInv'
  <2>1. rom' = [type \in Bytes |-> DecisionFor(type)]'
    BY <1>1, SameRom DEF IInv
  <2> QED
    BY <1>1, <1>4, <2>1 DEF IInv, HostInv
<1>7. AllEvents' = AllEvents
  <2> DEFINE unread == IF pc = "discard" THEN Tail(ring) ELSE ring
  <2>1. PICK u : u = unread
    OBVIOUS
  <2>2. u \in Seq(Reports) /\ (IF pc = "discard" THEN Tail(ring') ELSE ring') = Append(u, e)
    <3>1. CASE pc = "discard"
      <4>1. ring # <<>> /\ u = Tail(ring)
        BY <2>1, <3>1 DEF IInv, HostInv
      <4>2. Tail(Append(ring, e)) = Append(Tail(ring), e)
        BY <1>3, <4>1
      <4> QED
        BY <1>3, <3>1, <4>1, <4>2
    <3>2. CASE pc # "discard"
      BY <1>3, <2>1, <3>2
    <3> QED
      BY <3>1, <3>2
  <2>3. AllEvents = (log \o u) \o (<<e>> \o rest)
    BY <1>3, <2>1 DEF AllEvents
  <2>4. AllEvents' = (log \o (u \o <<e>>)) \o rest
    <3>1. Append(u, e) = u \o <<e>>
      BY <1>3, <2>2, AppendIsConcat
    <3> QED
      BY <1>1, <1>3, <2>2, <3>1 DEF AllEvents
  <2>5. <<e>> \in Seq(Reports) /\ log \o u \in Seq(Reports)
    BY <1>3, <2>2
  <2>6. (log \o u) \o (<<e>> \o rest) = ((log \o u) \o <<e>>) \o rest
    <3>1. PICK before : before = log \o u
      OBVIOUS
    <3>2. before \o (<<e>> \o rest) = (before \o <<e>>) \o rest
      BY <1>3, <2>5, <3>1, ConcatAssociative, SMTT(40)
    <3> QED
      BY <3>1, <3>2
  <2>7. (log \o u) \o <<e>> = log \o (u \o <<e>>)
    BY <1>3, <2>2, <2>5, ConcatAssociative, SMTT(40)
  <2> QED
    BY <2>3, <2>4, <2>6, <2>7
<1> QED
  BY <1>1, <1>5, <1>6, <1>7, SameWords DEF IInv

-----------------------------------------------------------------------------
LEMMA InitStep == Init => IInv
<1> SUFFICES ASSUME Init PROVE IInv
  OBVIOUS
<1>1. /\ feed = <<>> /\ messageCount = 0 /\ events = <<>> /\ ring = <<>>
      /\ log = <<>> /\ taken = <<>> /\ toConsumers = <<>> /\ pc = "decision"
      /\ decision = [shouldForward |-> FALSE, consumerId |-> 0]
  BY DEF Init
<1>2. rom \in [Bytes -> Decision]
  BY DEF Init
<1>3. decision \in Decision
  BY <1>1, SizeAssumption DEF Decision
<1>4. Starts = {} /\ Wanted = {}
  <2>1. DOMAIN taken = {}
    BY <1>1
  <2> QED
    BY <2>1 DEF Starts, Wanted
<1>5. Cardinality(Starts) = 0 /\ Cardinality(Wanted) = 0
  BY <1>4, FS_EmptySet
<1>6. AllEvents = <<>>
  BY <1>1 DEF AllEvents
<1>7. EventsDescribeMessages /\ ForwardsWhole
  BY <1>1, <1>4, <1>5, <1>6 DEF EventsDescribeMessages, ForwardsWhole
<1>8. TypeInv
  BY <1>1, <1>2, <1>3 DEF TypeInv
<1>9. HostInv /\ KernelInv
  BY <1>1, <1>5 DEF HostInv, KernelInv
<1> QED
  BY <1>7, <1>8, <1>9 DEF IInv

LEMMA NextStep == IInv /\ [Next]_vars => IInv'
<1> SUFFICES ASSUME IInv, [Next]_vars PROVE IInv'
  OBVIOUS
<1>1. CASE Arrive
  BY <1>1, ArriveStep
<1>2. CASE Kernel
  BY <1>2, KernelStep
<1>3. CASE InitDecision
  BY <1>3, InitDecisionStep
<1>4. CASE InitMulticastFeed \/ InitConsumers \/ InitFails \/ SetupEvents
  BY <1>4, StartUpStep
<1>5. CASE Read
  BY <1>5, ReadStep
<1>6. CASE Discard
  BY <1>6, DiscardStep
<1>7. CASE Deliver
  BY <1>7, DeliverStep
<1>8. CASE UNCHANGED vars
  <2>1. UNCHANGED <<program, pc, rom, feed, messageCount, decision, events, ring,
                    log, taken, toConsumers>>
    BY <1>8 DEF vars
  <2>2. AllEvents' = AllEvents
    BY <2>1 DEF AllEvents
  <2>3. TypeInv'
    BY <2>1 DEF IInv, TypeInv
  <2>4. HostInv'
    <3>1. pc # "decision" => rom' = [type \in Bytes |-> DecisionFor(type)]'
      BY <2>1, SameRom DEF IInv
    <3> QED
      BY <2>1, <3>1 DEF IInv, HostInv
  <2> QED
    BY <2>1, <2>2, <2>3, <2>4, SameWords DEF IInv
<1> QED
  BY <1>1, <1>2, <1>3, <1>4, <1>5, <1>6, <1>7, <1>8 DEF Next, Host

\* The events that the host has printed, that lie in its ring and that are on
\* their way are those of the messages the kernel has begun, each once, in
\* order and right, however the kernel, the engine and the host take turns.
THEOREM ForwardingTellsTheHost == Spec => []EventsDescribeMessages
<1>1. Spec => []IInv
  BY InitStep, NextStep, PTL DEF Spec
<1>2. IInv => EventsDescribeMessages
  BY DEF IInv
<1> QED
  BY <1>1, <1>2, PTL

\* A consumer is sent whole messages only, and every message goes where the
\* host's decision for its type sends it, with idle cycles between any words.
THEOREM ForwardingKeepsMessagesWhole == Spec => []ForwardsWhole
<1>1. Spec => []IInv
  BY InitStep, NextStep, PTL DEF Spec
<1>2. IInv => ForwardsWhole
  BY DEF IInv
<1> QED
  BY <1>1, <1>2, PTL
===============================================================================
