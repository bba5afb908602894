---------------------------- MODULE FramedKernels ----------------------------
(***************************************************************************)
(* The dataflow kernels between the network and the CPU streams.  An Rx    *)
(* kernel puts metadata words in front of every frame for the CPU; a Tx    *)
(* kernel takes them off the CPU's frames and sends them alongside.        *)
(*                                                                         *)
(* A kernel is a function of its input around the current cycle, so the    *)
(* state is the input of the cycles around now (window), what streamHold   *)
(* remembers (held) and, as history, the output that the frames seen so    *)
(* far still call for (owed).  Next is one clock cycle: the kernel has put *)
(* out Out, and the input moves on by one cycle.                           *)
(*                                                                         *)
(* A frame arrives without holes (NO_TRICKLING) and the input leaves at    *)
(* least the gap the kernel asked for between two frames.  MOD goes with   *)
(* EOF and is not shown.                                                   *)
(***************************************************************************)
EXTENDS Integers, Sequences

CONSTANTS
  Kernels,     \* the kernels looked at
  Sockets,     \* where a frame comes from or goes to
  MaxWords,    \* the longest input frame
  Shortest,    \* the shortest frame a kernel is given
  Spacing,     \* idle cycles the traffic of a kernel itself leaves
  IdleEofs     \* what EOF may show in a cycle that is not valid

RxKernels == {"Inbound", "OffloadRx", "OneToOneRx", "OneToManyRx"}
TxKernels == {"Outbound", "OffloadTx", "OneToOneTx", "OneToManyTx"}

ASSUME KernelAssumption == Kernels \subseteq RxKernels \cup TxKernels
ASSUME LengthAssumption ==
  MaxWords \in Nat /\ Shortest \in [Kernels -> 1 .. MaxWords]
ASSUME SpacingAssumption == Spacing \in [Kernels -> Nat]
ASSUME IdleAssumption == IdleEofs \subseteq BOOLEAN /\ IdleEofs # {}

VARIABLES kernel, window, held, owed

vars == <<kernel, window, held, owed>>

Reach == 2

\* The input o cycles from now.
At(o) == window[Reach + 1 + o]
IsStart(o) == At(o).valid /\ At(o).sof

Data(c) == <<"data", c.socket, c.nr>>
Header(c, i) == <<"header", c.socket, i>>

\* Words of metadata in a frame on the CPU's side.
HeaderWords(k) == IF k \in {"OneToManyRx", "OneToManyTx"} THEN 2 ELSE 1

\* The minimum gap the kernel asks nonBlockingInput for.
Gap(k) == CASE k = "Inbound" -> 2
            [] k \in {"Outbound", "OffloadTx"} -> 0
            [] OTHER -> 1

-----------------------------------------------------------------------------
\* What a kernel puts out in this cycle.  meta goes alongside a Tx word.

RxWord(valid, sof, eof, data) ==
  [valid |-> valid, sof |-> sof, eof |-> eof, data |-> data, meta |-> <<>>]

Inbound ==
  LET inject == IsStart(1)
  IN RxWord(inject \/ At(0).valid, inject, ~inject /\ At(0).eof,
            IF inject THEN Header(At(1), 1) ELSE Data(At(0)))

\* Mutant: EOF is not gated by valid.
OffloadRxUngated ==
  LET insertNow == IsStart(1)
  IN RxWord(At(0).valid \/ insertNow, insertNow, At(0).eof,
            IF insertNow THEN Header(At(1), 1) ELSE Data(At(0)))

OffloadRx ==
  LET insertNow == IsStart(1)
  IN RxWord(At(0).valid \/ insertNow, insertNow, At(0).valid /\ At(0).eof,
            IF insertNow THEN Header(At(1), 1) ELSE Data(At(0)))

\* Mutant: valid is not extended to the word that was moved back.
OneToOneRxShort ==
  RxWord(At(0).valid, At(0).sof, At(-1).valid /\ At(-1).eof,
         IF At(0).sof THEN Header(At(0), 1) ELSE Data(At(-1)))

OneToOneRx ==
  RxWord(At(0).valid \/ At(-1).valid, At(0).sof, At(-1).valid /\ At(-1).eof,
         IF At(0).sof THEN Header(At(0), 1) ELSE Data(At(-1)))

OneToManyRx ==
  LET insertMetadata == At(0).sof \/ At(-1).sof
      metadata == IF At(0).sof THEN Header(At(0), 1) ELSE Header(At(-1), 2)
  IN RxWord(At(0).valid \/ At(-2).valid, At(0).sof, At(-2).valid /\ At(-2).eof,
            IF insertMetadata THEN metadata ELSE Data(At(-2)))

StreamHold(metadata, enable) == IF enable THEN metadata ELSE held

\* Mutant: the word after the metadata is taken out instead of it.
OutboundLate ==
  [valid |-> At(0).valid /\ ~At(-1).sof, sof |-> At(-1).sof, eof |-> At(0).eof,
   data |-> Data(At(0)), meta |-> StreamHold(<<Data(At(0))>>, IsStart(0))]

Outbound ==
  [valid |-> At(0).valid /\ ~At(0).sof, sof |-> At(-1).sof, eof |-> At(0).eof,
   data |-> Data(At(0)), meta |-> StreamHold(<<Data(At(0))>>, IsStart(0))]

OffloadTx ==
  [valid |-> At(0).valid /\ ~At(0).sof, sof |-> IsStart(-1), eof |-> At(0).eof,
   data |-> Data(At(0)), meta |-> StreamHold(<<Data(At(0))>>, IsStart(0))]

OneToOneTx ==
  [valid |-> At(0).valid /\ At(1).valid, sof |-> At(0).sof, eof |-> At(1).eof,
   data |-> Data(At(1)), meta |-> StreamHold(<<Data(At(0))>>, At(0).sof)]

OneToManyTx ==
  [valid |-> At(0).valid /\ At(2).valid, sof |-> At(0).sof, eof |-> At(2).eof,
   data |-> Data(At(2)),
   meta |-> StreamHold(<<Data(At(0)), Data(At(1))>>, At(0).sof)]

Out == CASE kernel = "Inbound" -> Inbound
         [] kernel = "OffloadRx" -> OffloadRx
         [] kernel = "OneToOneRx" -> OneToOneRx
         [] kernel = "OneToManyRx" -> OneToManyRx
         [] kernel = "Outbound" -> Outbound
         [] kernel = "OffloadTx" -> OffloadTx
         [] kernel = "OneToOneTx" -> OneToOneTx
         [] kernel = "OneToManyTx" -> OneToManyTx

-----------------------------------------------------------------------------
\* The output the comments promise for one more word of an input frame.

TxHeader(c) ==
  [i \in 1 .. HeaderWords(kernel) |-> <<"data", c.socket, i>>]

Owes(c) ==
  IF ~c.valid THEN <<>>
  ELSE IF kernel \in RxKernels
  THEN (IF c.sof THEN [i \in 1 .. HeaderWords(kernel) |->
                         RxWord(TRUE, i = 1, FALSE, Header(c, i))]
                 ELSE <<>>)
       \o <<RxWord(TRUE, FALSE, c.eof, Data(c))>>
  ELSE IF c.nr <= HeaderWords(kernel) THEN <<>>
  ELSE <<[valid |-> TRUE, sof |-> c.nr = HeaderWords(kernel) + 1,
          eof |-> c.eof, data |-> Data(c), meta |-> TxHeader(c)]>>

-----------------------------------------------------------------------------
\* The input: a word of a frame, or a cycle that is not valid.

FrameCycle(s, n, eof) ==
  [valid |-> TRUE, sof |-> n = 1, eof |-> eof, socket |-> s, nr |-> n]
IdleCycle(s, eof) ==
  [valid |-> FALSE, sof |-> FALSE, eof |-> eof, socket |-> s, nr |-> 1]

Latest == At(Reach)
InFrame == Latest.valid /\ ~Latest.eof
GapOver ==
  /\ \A i \in 0 .. Gap(kernel) - 1 : ~At(Reach - i).valid
  /\ \A i \in 0 .. Spacing[kernel] - 1 : ~At(Reach - i).valid

Eofs(n) == {eof \in BOOLEAN : /\ eof => n >= Shortest[kernel]
                              /\ ~eof => n < MaxWords}

\* One clock cycle, in which the input at the far end of the window is c.
Cycle(c) ==
  /\ window' = Append(Tail(window), c)
  /\ held' = Out.meta
  /\ owed' = (IF Out.valid /\ owed # <<>> THEN Tail(owed) ELSE owed) \o Owes(c)
  /\ UNCHANGED kernel

NextWord ==
  /\ InFrame
  /\ \E eof \in Eofs(Latest.nr + 1) :
       Cycle(FrameCycle(Latest.socket, Latest.nr + 1, eof))

FirstWord ==
  /\ ~InFrame /\ GapOver
  /\ \E s \in Sockets, eof \in Eofs(1) : Cycle(FrameCycle(s, 1, eof))

Idle ==
  /\ ~InFrame
  /\ \E s \in Sockets, eof \in IdleEofs : Cycle(IdleCycle(s, eof))

Init ==
  /\ kernel \in Kernels
  /\ \E s \in Sockets, eof \in IdleEofs :
       window = [i \in 1 .. 2 * Reach + 1 |-> IdleCycle(s, eof)]
  /\ held = <<>>
  /\ owed = <<>>

Next == NextWord \/ FirstWord \/ Idle

Spec == Init /\ [][Next]_vars

-----------------------------------------------------------------------------
\* Every word put out is the next one owed: the metadata comes first, no word
\* is lost, repeated, overwritten or given the wrong SOF, EOF or socket, and
\* nothing is put out that belongs to no frame.
OutputIsFrames == Out.valid => owed # <<>> /\ Out = Head(owed)

\* A frame that has been started is put out without a hole (the network side
\* and the PCIe side both take a frame in consecutive cycles).
NoHoleInFrame == owed # <<>> /\ ~Head(owed).sof => Out.valid

\* Once the input around now is idle nothing is left behind: the last word of
\* a frame does not wait for the next frame to push it out.
NothingLeftBehind ==
  (\A i \in 1 .. Len(window) : ~window[i].valid) => owed = <<>>
=============================================================================
