SPECIFICATION Spec
CONSTANTS
  Threads = {t1, t2, t3}
  MaxInside = 3
  SpuriousWakeups = FALSE
INVARIANT WriterExclusion
