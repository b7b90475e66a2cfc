SPECIFICATION FairSpec
CONSTANTS
  Clients = {c1, c2}
  c1 = c1
  c2 = c2
  Old = old
  None = None
  Versions = {1, 2}
CHECK_DEADLOCK FALSE
INVARIANTS
  RightVersion
  AloneSucceeds
PROPERTIES
  Settles
