SPECIFICATION FairSpec
CONSTANTS
  d1 = d1
  Devices = {d1}
  MaxPlug = 2
  MaxPackets = 1
  MaxKick = 1
CHECK_DEADLOCK FALSE
INVARIANTS
  HandleAlive
  UrbFree
  WriteHonest
  WholePackets
PROPERTIES
  ListFollowsDevice
