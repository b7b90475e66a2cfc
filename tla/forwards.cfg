SPECIFICATION Spec
CONSTANTS
  c1 = c1
  c2 = c2
  c3 = c3
  t2 = t2
  t1 = t1
  l1 = l1
  Clients = {c1, c2, c3}
  Transports = {t1, t2}
  NoTransport = NoTransport
  Names = {l1}
  Requests <- MCForwards
  MaxUnits = 1
  MaxUpdates = 4
CHECK_DEADLOCK FALSE
INVARIANTS
  FdeOwned
  
