SPECIFICATION Spec
CONSTANTS
  MaxUID = 2
  MaxRebuiltUID = 2
  MaxUint32 = 2
  MaxValidity = 1
  MaxFailures = 1
  MaxExpunges = 1
  SearchLimit = 2
  StaleUIDNext = TRUE
  LateExposure = FALSE
  EarlyReconcile = TRUE
INVARIANTS
  RecentMailNotSkipped
PROPERTIES
  LiveRowsKept
CHECK_DEADLOCK FALSE
