SPECIFICATION FairSpec
CONSTANTS
  Threads = {t1, t2, t3, t4}
  MaxInside = 4
  SpuriousWakeups = TRUE
INVARIANTS
  TypeOK
  CountersMatch
  NoLostWakeup
PROPERTY NoReaderStarvation
