SPECIFICATION FairSpec
CONSTANTS
  MaxUID = 2
  MaxRebuiltUID = 2
  MaxUint32 = 3
  MaxValidity = 1
  MaxFailures = 1
  MaxExpunges = 0
  SearchLimit = 2
  StaleUIDNext = FALSE
  LateExposure = FALSE
  EarlyReconcile = FALSE
INVARIANTS
  TypeOK
  HistoryNotForgotten
PROPERTIES
  MailEventuallyStored
CHECK_DEADLOCK FALSE
