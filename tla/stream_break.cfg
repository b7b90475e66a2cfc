SPECIFICATION FairSpec
CONSTANTS
  Openers = {"host","device"}
  Notify = {TRUE}
  Writers = {"host","device"}
  Hangups = {"half","full"}
  MaxSock = 1
  MaxOpen = 1
  MaxRead = 1
  MaxDown = 1
  MaxRestart = 0
  MaxResend = 1
CHECK_DEADLOCK FALSE
INVARIANTS
  NoHalfOpen
  StatusFirst
PROPERTIES
  OpenAnswered
  CloseReaches
