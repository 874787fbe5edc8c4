SPECIFICATION Spec
CONSTANTS
  Mails = {m1, m2}
  Kinds = {"flag", "archive", "trash", "delete"}
  Strategies = {"move", "copy"}
  Gmail = FALSE
  MaxOps = 1
  MaxValidity = 2
  MaxPasses = 1
  MaxEvents = 1
  MaxFaults = 1
INVARIANTS
  TypeOK
  OnlyTargetsTouched
  UnappliedIsUntouched
  MailIsNeverLost
  RowsNameTheirMail
PROPERTIES
  SucceededIsComplete
  FollowsLifecycle
CHECK_DEADLOCK FALSE
