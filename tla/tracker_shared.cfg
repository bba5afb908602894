SPECIFICATION Spec
CONSTANTS
  Frames <- MCFrames
  Counts <- MCCounts
  ProgFull = 2
  InputStallLatency = 1
  OutputStallLatency = 3
  FifoDepth = 4
  NoWord = NoWord
PROPERTY SharedWordStartsMessage
