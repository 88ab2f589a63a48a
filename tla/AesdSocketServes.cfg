SPECIFICATION FairSpec
CONSTANTS
  Clients = {c1, c2}
  Main = main
  NL = nl
  Malformed = malformed
  Regular = FALSE
  UseTimestamp = FALSE
  BUFFSIZE = 3
  Depth = 1
  SeekArgs <- NoSeeks
  MayFail = {"open", "read", "recv", "send"}
  ClientsLeave = FALSE
  SignalThreads = {}
  MaxAlarms = 0
  SpuriousWakeups = TRUE
INVARIANTS
  NoLineTwice

  
CHECK_DEADLOCK FALSE
