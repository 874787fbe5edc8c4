SPECIFICATION Spec
CONSTANTS
  Drafts = {d1}
  Accounts = {a1, a2}
  Blobs = {b1}
  Clients = {c1}
  Nobody = Nobody
  Movable = {d1}
  MaxRows = 1
  MaxFaults = 0
INVARIANTS
  SentDraftsAreGone
CHECK_DEADLOCK FALSE
