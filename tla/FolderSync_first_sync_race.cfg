SPECIFICATION Spec
CONSTANTS
  MaxUID = 2
  MaxRebuiltUID = 2
  MaxUint32 = 3
  MaxValidity = 1
  MaxFailures = 0
  MaxExpunges = 1
  SearchLimit = 2
  StaleUIDNext = FALSE
  LateExposure = FALSE
  EarlyReconcile = TRUE
INVARIANTS
  HistoryNotForgotten
CHECK_DEADLOCK FALSE
