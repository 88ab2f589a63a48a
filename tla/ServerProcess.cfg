SPECIFICATION Spec
CONSTANTS
  Servers = {s1, s2}
  Nobody = nobody
  MaxFd = 4
  Regular = TRUE
  UseTimestamp = TRUE
  MayFail = {"fork", "detach", "null", "dup1", "dup2", "sigterm", "sigint",
             "socket", "bind", "listen", "prepare", "sigalrm", "settime",
             "serving"}
INVARIANTS
  OneServes
  LogStaysOut
  NothingLeft
  SuccessIsAStop
PROPERTY
  SignalsCaught
CHECK_DEADLOCK FALSE
