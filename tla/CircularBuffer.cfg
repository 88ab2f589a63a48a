SPECIFICATION Spec
CONSTANTS
  Capacity = 4
  NULL = NULL
  Blocks = {b1, b2}
  MaxSize = 3
  Entries <- BlockEntries
INVARIANTS
  BufferOK
  FindsEveryCharacter
  SeeksEveryCommand
  SizeIsTotal
PROPERTY ImplementsLog
