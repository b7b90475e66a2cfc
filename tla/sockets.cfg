SPECIFICATION FairSpec
CONSTANTS
  c1 = c1
  c2 = c2
  c3 = c3
  t2 = t2
  t1 = t1
  l1 = l1
  Clients = {c1}
  Transports = {t1}
  NoTransport = NoTransport
  Names = {l1}
  Requests <- MCServices
  MaxUnits = 3
  MaxUpdates = 2
CHECK_DEADLOCK FALSE
INVARIANTS
  PendingInv
  PeersAgree
  LocalCredit
  TrackersTold
PROPERTIES
  HangupCloses
  RequestsAnswered
