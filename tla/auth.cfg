SPECIFICATION FairSpec
CONSTANTS
  NKeys = 2
  MaxBreak = 1
  MaxRestart = 1
  MaxResend = 1
  MaxFramework = 2
CHECK_DEADLOCK FALSE
INVARIANTS
  
  OneExchange
  NoSpuriousDrop
PROPERTIES
  BothOnline
