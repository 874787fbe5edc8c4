SPECIFICATION Spec
CONSTANTS
  inbox = inbox
  archive = archive
  history = history
  w1 = w1
  w2 = w2
  c1 = c1
  c2 = c2
  Jobs = {inbox, archive}
  Background = {}
  Gone = {}
  Workers = {w1}
  Callers = {c1, c2}
  Impatient = {c1}
  Capacity = 1
  NoJob = NoJob
  MaxRequests = 5
  MaxFailures = 1
  AccountOf <- OneAccount
INVARIANTS
  FailingJobsComeBack
CHECK_DEADLOCK FALSE
