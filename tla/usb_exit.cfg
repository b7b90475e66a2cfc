SPECIFICATION FairSpec
CONSTANTS
  d1 = d1
  Devices = {d1}
  MaxPlug = 1
  MaxPackets = 0
  MaxKick = 0
CHECK_DEADLOCK FALSE
PROPERTIES
  ExitCompletes
