SPECIFICATION Spec
CONSTANTS
  Kernels <- AllKernels
  Sockets = {1, 2}
  MaxWords = 4
  Shortest <- ShortestWithData
  Spacing <- TwoWordSpacing
  IdleEofs = {FALSE, TRUE}
INVARIANTS  NoHoleInFrame NothingLeftBehind
