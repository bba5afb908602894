SPECIFICATION FairSpec
CONSTANTS
  Programs <- BothPrograms
  Bytes <- SomeBytes
  Messages <- SomeMessages
  NumConsumers = 2
  FeedDepth = 3
  EventDepth = 1
  Slots = 2
  MaxMessages = 4
INVARIANTS EventsDescribeMessages ForwardsWhole
PROPERTIES EveryMessagePrinted
CHECK_DEADLOCK FALSE
