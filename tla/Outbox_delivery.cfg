SPECIFICATION FairSpec
CONSTANTS
  Drafts = {d1, d2}
  Accounts = {a1, a2}
  Blobs = {b1}
  Clients = {c1}
  Nobody = Nobody
  Movable = {d1}
  MaxRows = 2
  MaxFaults = 1
INVARIANTS
  TypeOK
  NeverDeliveredTwice
  OutcomesAreTrue
  DraftsAreWhole
  UnmovedDraftsAreGone
PROPERTIES
  FollowsLifecycle
  QueuedIsDecided
CHECK_DEADLOCK FALSE
