SPECIFICATION Spec
CONSTANTS
  PageSize = 4096
  InitialSize = 32768
  MinSize = 28672
  MaxAddress = 49152
  Workloads <- JustAny
PROPERTY IsAllocator
CHECK_DEADLOCK FALSE
