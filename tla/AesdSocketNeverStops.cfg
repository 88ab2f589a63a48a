SPECIFICATION FairSpec
CONSTANTS
  Clients = {c1}
  Main = main
  NL = nl
  Malformed = malformed
  Regular = FALSE
  UseTimestamp = FALSE
  BUFFSIZE = 3
  Depth = 2
  SeekArgs <- NoSeeks
  MayFail = {}
  ClientsLeave = FALSE
  SignalThreads = {main}
  MaxAlarms = 0
  SpuriousWakeups = FALSE
PROPERTIES
  StopsOnSignal
CHECK_DEADLOCK FALSE
