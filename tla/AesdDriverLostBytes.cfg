SPECIFICATION Spec
CONSTANTS
  Capacity = 2
  NULL = NULL
  Free = Free
  Terminator = nl
  Garbage = garbage
  Files = {f1}
  Blocks = {b1, b2, b3, b4}
  SeekCommands = {0, 1, 2, 3}
  SeekOffsets <- SmallOffsets
  MaxRequest = 2
  MaxUnterminated = 1
  MaxPos = 6
  KreallocMayFail = TRUE
  CopyMayFault = TRUE
  Interruptible = TRUE
INVARIANT EntriesWritten
