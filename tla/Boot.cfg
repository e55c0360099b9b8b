SPECIFICATION BootSpec
CONSTANTS
  PageSize = 4096
  Entries = 1024
  WordBits = 32
  NumFrames = 4096
  HeapFirst = 786432
  HeapPages = 256
  DirectoryBytes = 8196
  TableBytes = 4096
  HeapBytes = 32
  Images <- MCImages
  Buses = 2
  Devices = 2
  Functions = 8
  Machines <- MCMachines
  PageWords = 1024
  StackPointer = 939524096
  StackWords = 2048
  stack_esp = 7106
  Stacks <- MCStacks
INVARIANTS BootTypeOK IdentityMapped HeapBacked BitsetDisjoint ScanComplete StackMoved StackBacked
PROPERTY Boots
CHECK_DEADLOCK FALSE
