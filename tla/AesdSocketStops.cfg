SPECIFICATION FairSpec
CONSTANTS
  Clients = {c1}
  Main = main
  NL = nl
  Malformed = malformed
  Regular = TRUE
  UseTimestamp = TRUE
  BUFFSIZE = 3
  Depth = 2
  SeekArgs <- NoSeeks
  MayFail = {"open", "read", "write", "queue"}
  ClientsLeave = TRUE
  SignalThreads = {main, c1}
  MaxAlarms = 2
  SpuriousWakeups = FALSE
INVARIANTS
  LinesStayWhole
PROPERTIES
  StopsOnSignal
  StampTaken
CHECK_DEADLOCK FALSE
