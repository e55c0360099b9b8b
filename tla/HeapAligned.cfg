SPECIFICATION Spec
CONSTANTS
  PageSize = 4096
  InitialSize = 20480
  MinSize = 8192
  MaxAddress = 32768
  Workloads <- JustOdd
PROPERTY IsAllocator
CHECK_DEADLOCK FALSE
