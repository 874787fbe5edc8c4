SPECIFICATION FairSpec
CONSTANTS
  MaxUID = 2
  MaxRebuiltUID = 1
  MaxUint32 = 3
  MaxValidity = 2
  MaxFailures = 1
  MaxExpunges = 1
  SearchLimit = 1
  StaleUIDNext = FALSE
  LateExposure = TRUE
  EarlyReconcile = FALSE
PROPERTIES
  DeadRowsPurged
  CheckpointIsSound
CHECK_DEADLOCK FALSE
