SPECIFICATION FairSpec
CONSTANTS
  Programs <- AllPrograms
  num_remotes = 2
  Slots = 2
  MaxFrames = 5
INVARIANTS  UdpEchoIntact
PROPERTIES EchoesAll TerminatesOnDrop
CHECK_DEADLOCK FALSE
