SPECIFICATION FairSpec
CONSTANTS
  inbox = inbox
  archive = archive
  history = history
  w1 = w1
  w2 = w2
  c1 = c1
  c2 = c2
  Jobs = {inbox, archive, history}
  Background = {history}
  Gone = {archive}
  Workers = {w1, w2}
  Callers = {c1, c2}
  Impatient = {c1}
  Capacity = 1
  NoJob = NoJob
  MaxRequests = 3
  MaxFailures = 1
  AccountOf <- OneAccount
INVARIANTS
  TypeOK
  OneTokenPerPendingJob
  SlotsAreExclusive
  ParkedJobsAreWoken
  AcceptedRequestsAreHeld
  FailingJobsAreRetried
PROPERTIES
  RequestsAreServed
CHECK_DEADLOCK FALSE
