SPECIFICATION Spec
CONSTANTS
  PageSize = 4096
  InitialSize = 32768
  MinSize = 28672
  MaxAddress = 45056
  Workloads <- Used
INVARIANTS TypeOK BlocksDisjoint  BlocksIntact HolesSound Tiled  RequestFits
PROPERTIES EnoughAfterGrow IsAllocator
CHECK_DEADLOCK FALSE
