SPECIFICATION Spec
CONSTANTS
  Capacity = 2
  NULL = NULL
  Free = Free
  Terminator = nl
  Garbage = garbage
  Files = {f1, f2}
  Blocks = {b1, b2, b3}
  SeekCommands = {1}
  SeekOffsets = {0}
  MaxRequest = 2
  MaxUnterminated = 1
  MaxPos = 2
  KreallocMayFail = FALSE
  CopyMayFault = TRUE
  Interruptible = FALSE
SYMMETRY FileSymmetry
INVARIANTS
  TypeOK
  BlocksOwned
  NoLeak
  OneCommandPerEntry
PROPERTIES
  ImplementsDevice
