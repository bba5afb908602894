SPECIFICATION FairSpec
CONSTANTS
  Programs = {"LatencyTest", "DirectLatencyTest", "Gap", "HeaderInserter",
              "Fragmenter", "RomFrameGen", "Tracker"}
  Rounds = 3
  ArraySize = 3
  MaxFrameSize = 11
  FragmentWords = 2
  LinkBytes = 2
  MaxMessageSizeWords = 2
  NumMessageTypes = 2
  MessageSizes = {0, 1, 4, 6, 7}
  NumMessages = 3
  Slots = 3
  Data = {1, 2}
  MaxFaults = 2
INVARIANTS PassMeansRight InStep
PROPERTY TestsEnd
CHECK_DEADLOCK FALSE
