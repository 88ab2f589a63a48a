SPECIFICATION PartsSpec
CONSTANTS
  Threads = {t1, t2, t3}
  Nobody = nobody
  Caller = caller
  Nodes = {n1, n2, n3, n4, n5}
  NULL = NULL
  Ids = {i1, i2}
  NoId = NoId
  MaxCalls = 2
INVARIANTS
  TypeOK
  HoldersExclude
  WellLinked
  SuccessIsOwn
  OutputRedirected
  OutputIsCommands
PROPERTIES
  ThreadsEnd
  EndsImplementIdList
  CallsReturn
CHECK_DEADLOCK FALSE
