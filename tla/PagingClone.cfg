SPECIFICATION Spec
CONSTANTS
  PageSize = 4096
  WordBits = 4
  NumFrames = 8
  Entries = 2
  Slots = 4
  IdentityPages = 2
  HeapSlot = 1
  BootHeap = 1
  HeapArea <- MCHeapArea
  StackArea <- MCStackArea
  MaxTables = 5
  MaxDirs = 4
CHECK_DEADLOCK FALSE
INVARIANT ClonedAll
