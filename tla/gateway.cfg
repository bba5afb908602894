SPECIFICATION FairSpec
CONSTANTS
  MAX_SOCKETS = 3
  MaxSimSockets = 2
  Modulus = 8
  Arguments <- MCArguments
  MaxFrames = 2
  InRing = 2
  OutRing = 1
  MaxConns <- MCMaxConns
  MaxMessages <- MCMaxMessages
  None = None
INVARIANTS  HostFollowsEngine
PROPERTIES CallsFitState EchoInOrder Reopens
CHECK_DEADLOCK FALSE
