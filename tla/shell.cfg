SPECIFICATION FairSpec
CONSTANTS
  Kinds = {"raw", "pty", "none"}
  Capacity = 1
  Pipe = 1
  Room = 1
  MaxPacket = 2
  MaxIn = 2
  MaxOut = 2
CHECK_DEADLOCK FALSE
INVARIANTS
  OutputBeforeExit
  InputConserved
PROPERTIES
  ExitReported
