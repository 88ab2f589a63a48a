SPECIFICATION Spec
CONSTANTS
  Clients = {c1, c2}
  Main = main
  NL = nl
  Malformed = malformed
  Regular = FALSE
  UseTimestamp = FALSE
  BUFFSIZE = 3
  Depth = 2
  SeekArgs <- SomeSeeks
  MayFail = {"open", "write", "read", "recv", "send", "spawn", "queue"}
  ClientsLeave = TRUE
  SignalThreads = {main, c1, c2}
  MaxAlarms = 0
  SpuriousWakeups = FALSE
INVARIANTS
  TypeOK
  LinesStayWhole
  AnswerIsText
  OwnLineAnswered
  JoinedBeforeExit
SYMMETRY ClientSymmetry
CHECK_DEADLOCK FALSE
