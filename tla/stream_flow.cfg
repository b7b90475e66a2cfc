SPECIFICATION Spec
CONSTANTS
  Openers = {"host"}
  Notify = {TRUE,FALSE}
  Writers = {"host","device"}
  Hangups = {"half","full"}
  MaxSock = 1
  MaxOpen = 1
  MaxRead = 2
  MaxDown = 0
  MaxRestart = 0
  MaxResend = 0
CHECK_DEADLOCK FALSE
INVARIANTS
  QueueInv
  OneCredit
PROPERTIES
  PipeSpec
