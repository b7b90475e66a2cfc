SPECIFICATION FairSpec
CONSTANTS
  Host = TRUE
  MaxIn = 3
  MaxOut = 2
INVARIANTS
  ThreadsPinTransport
  ClosedLast
  OfflineBeforeDelete
PROPERTIES
  EndsDeleted
  MainGoesOn
