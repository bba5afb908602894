----------------------------- MODULE FlowControl -----------------------------
(***************************************************************************)
(* The flow control examples.  Neither kernel can stop at once: a stall of *)
(* the output travels to the input and to the source behind it, and what   *)
(* is under way still has to go somewhere.  The kernel says how much that  *)
(* is (its output stall latency) and the buffer behind the output keeps as *)
(* much room above the level at which it stalls.                           *)
(*                                                                         *)
(* "StallLatency" lets its pipeline run freely.  "PipeStall" freezes it in *)
(* the cycles without input until it has seen NumItems words, and declares *)
(* no latency for the pipeline.                                            *)
(*                                                                         *)
(* Next is one clock cycle.  Words are not told apart: a pipeline stage    *)
(* holds a word or not, the buffer has an occupancy.                       *)
(***************************************************************************)
EXTENDS Integers

CONSTANTS
  Kernels,
  Stages,               \* computePath
  StallPath,            \* from the output's stall to the input's
  InputStallLatency,    \* cycles the source goes on after the input is stalled
  ProgFull,             \* occupancy at which the buffer stalls the output
  NumItems

ASSUME KernelAssumption == Kernels \subseteq {"StallLatency", "PipeStall"}
ASSUME LatencyAssumption ==
  StallPath \in Nat /\ InputStallLatency \in Nat /\ Stages \in Nat \ {0}
ASSUME BufferAssumption == ProgFull \in Nat \ {0} /\ NumItems \in Nat

VARIABLES
  kernel,
  stage,       \* stage[i]: is there a word in stage i of the pipeline
  items,       \* words the kernel has seen, up to NumItems
  occupancy,   \* words in the buffer
  stalls       \* stalls[j]: was the output stalled j cycles ago

vars == <<kernel, stage, items, occupancy, stalls>>

Delay == StallPath + InputStallLatency

\* The output was stalled j cycles ago.
Stalled(j) == IF j = 0 THEN occupancy >= ProgFull ELSE stalls[j]

\* The source still pushes: it saw no stall yet.
MayPush == ~Stalled(Delay)

\* Mutant: the compute path is not part of the latency.
OutputStallLatencyNoCompute(k) == Delay

OutputStallLatency(k) == IF k = "PipeStall" THEN Delay ELSE Delay + Stages

Finished == items = NumItems

\* STOP_AT_MAX
Count(valid) == IF valid /\ ~Finished THEN items + 1 ELSE items

\* Mutant: the pipeline runs freely.
StallNowNever(valid) == FALSE

StallNow(valid) == kernel = "PipeStall" /\ ~(Finished \/ valid)

OutputValid(valid) == stage[Stages] /\ ~StallNow(valid)

\* Mutant: a stall stays on the stall line.
StallLineLatched ==
  [j \in 1 .. Delay + Stages |-> stalls[j] \/ Stalled(j - 1)]

StallLine == [j \in 1 .. Delay + Stages |-> Stalled(j - 1)]

\* One clock cycle: a word comes in or not, the buffer is read or not.
Cycle(valid, read) ==
  /\ valid => MayPush
  /\ read => occupancy > 0
  /\ stage' = IF StallNow(valid) THEN stage
              ELSE [i \in 1 .. Stages |-> IF i = 1 THEN valid ELSE stage[i - 1]]
  /\ items' = Count(valid)
  /\ occupancy' = occupancy + (IF OutputValid(valid) THEN 1 ELSE 0)
                            - (IF read THEN 1 ELSE 0)
  /\ stalls' = StallLine
  /\ UNCHANGED kernel

Init ==
  /\ kernel \in Kernels
  /\ stage = [i \in 1 .. Stages |-> FALSE]
  /\ items = 0
  /\ occupancy = 0
  /\ stalls = [j \in 1 .. Delay + Stages |-> FALSE]

Next == \E valid, read \in BOOLEAN : Cycle(valid, read)

Spec == Init /\ [][Next]_vars

\* The clock runs, and the reader of the buffer does not stop for ever.
Fairness ==
  /\ WF_vars(Next)
  /\ WF_vars(\E valid \in BOOLEAN : Cycle(valid, TRUE))
FairSpec == Spec /\ Fairness

-----------------------------------------------------------------------------
TypeOK ==
  /\ kernel \in Kernels
  /\ stage \in [1 .. Stages -> BOOLEAN]
  /\ items \in Nat /\ items <= NumItems
  /\ occupancy \in Nat
  /\ stalls \in [1 .. Delay + Stages -> BOOLEAN]

\* The room the pipeline of PipeStall needs beyond the latency it declares,
\* once it has seen all its items and runs freely.
Undeclared(k) == IF k = "PipeStall" THEN Stages ELSE 0

\* The buffer never holds more than the level at which it stalls and the room
\* above it: whatever the reader does, no word is lost.  (StallLatency needs
\* no more than it declares, PipeStall also its whole pipeline.)
NoOverflow ==
  occupancy <= ProgFull + OutputStallLatency(kernel) + Undeclared(kernel)

\* Until PipeStall has seen all its items, what it declares is enough.
NoOverflowBeforeEnd ==
  kernel = "PipeStall" /\ ~Finished => occupancy <= ProgFull + Delay

\* An output stalled for longer than the latency gets no further word.
StallStopsOutput ==
  [][(\A j \in 0 .. OutputStallLatency(kernel) + Undeclared(kernel) : Stalled(j))
       => occupancy' <= occupancy]_vars

\* The stall loop never locks up: a source that is held gets going again.
SourceResumes == []<>MayPush

\* PipeStall's README: the compute path stalls when the output has stalled.
\* After the latency the kernel declares there is no room for another word.
DeclaredLatencySuffices == occupancy <= ProgFull + OutputStallLatency(kernel)
=============================================================================
