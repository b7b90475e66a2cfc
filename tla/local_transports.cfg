SPECIFICATION Spec
CONSTANTS
  t1 = t1
  t2 = t2
  t3 = t3
  NoTransport = NoTransport
  Transports = {t1, t2, t3}
  Slots = 2
  Polled <- MCPolled
  Client = client
  Services = {service}
  Requests <- MCRequests
  Retries = 2
  MaxRequest = 3
  MaxKick = 2
SYMMETRY Symmetry
CHECK_DEADLOCK FALSE
INVARIANTS
  UniqueSerial
  OnePerPort
  NoLostPort
