SPECIFICATION Spec
CONSTANTS
  Radix = 16
  LinkWordBytes = 4
  ByteValues = 4
  SearchString <- YES
  MaxMessageSizeWords = 16
  Addresses <- SomeAddresses
  FrameWords = 3
  DataBytes <- SomePackets
  MessageTypes = {0, 1, 19}
  TrackedFrames <- SomeFrames
INVARIANTS ChecksumsRight FieldsInPlace ValuesKept FramesFromRom  
CHECK_DEADLOCK FALSE
