--------------------------- MODULE MCFramedKernels ---------------------------
EXTENDS FramedKernels

AllKernels == RxKernels \cup TxKernels

\* The gap the kernels that handle two metadata words should have asked for.
TwoWordSpacing == [k \in Kernels |-> IF HeaderWords(k) = 2 THEN 2 ELSE 0]

\* The gap they ask for: with it OutputIsFrames is violated.
NoSpacing == [k \in Kernels |-> 0]

\* Metadata only (Tx); as many words of data as there are of metadata (Rx).
ShortestWithData ==
  [k \in Kernels |-> IF k \in TxKernels THEN HeaderWords(k)
                     ELSE IF k = "OneToManyRx" THEN 2 ELSE 1]
=============================================================================
