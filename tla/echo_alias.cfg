SPECIFICATION Spec
CONSTANTS
  Programs <- TcpPrograms
  num_remotes = 2
  Slots = 2
  MaxFrames = 5
INVARIANTS EchoIntact
CHECK_DEADLOCK FALSE
