SPECIFICATION FairSpec
CONSTANTS
  Kernels <- Both
  Stages = 2
  StallPath = 1
  InputStallLatency = 2
  ProgFull = 2
  NumItems = 9
INVARIANTS NoOverflow NoOverflowBeforeEnd
PROPERTIES StallStopsOutput SourceResumes
