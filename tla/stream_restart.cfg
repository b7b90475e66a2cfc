SPECIFICATION FairSpec
CONSTANTS
  Openers = {"host"}
  Notify = {TRUE}
  Writers = {"host","device"}
  Hangups = {"full"}
  MaxSock = 2
  MaxOpen = 1
  MaxRead = 1
  MaxDown = 0
  MaxRestart = 2
  MaxResend = 1
CHECK_DEADLOCK FALSE
INVARIANTS
  RunsApart
PROPERTIES
  OldStreamsClosed
