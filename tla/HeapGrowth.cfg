SPECIFICATION Spec
CONSTANTS
  PageSize = 4096
  InitialSize = 20480
  MinSize = 8192
  MaxAddress = 49152
  Workloads <- JustFull
INVARIANT GrowthIsBacked
CHECK_DEADLOCK FALSE
