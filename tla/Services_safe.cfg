SPECIFICATION ServicesSpec
CONSTANTS
  Browsers = {b1}
  Topics = {accounts, mail}
  RingCapacity = 1
  ChannelCapacity = 1
  MaxChanges = 3
  MaxDrops = 2
  MaxBoots = 2
  Attachments = {a, b, c}
  Big = {b}
  Quota = 2
  Requests = {r1, r2}
  MaxDownloads = 3
  MaxCacheFaults = 1
  MaxRestores = 0
  Slots = {foreground, background}
  MaxDials = 4
  MaxConfigs = 2
  MaxJobs = 4
  Callers = {c1, c2}
  Callbacks = {k1}
  MaxGrants = 2
  MaxRotations = 2
  MaxCalls = 2
  MaxCredFaults = 1
  MaxVersion = 4
  Bad = {3}
  Admins = {a1, a2}
  MaxFaults = 2
  MaxKills = 2
  Visitors = {v1, v2}
  Tools = {p1, p2}
  Codes = {k1}
  MaxAttempts = 1
  MaxFailures = 1
  MaxTokens = 2
  MaxEnrolments = 2
  MaxChallenges = 1
  MaxTries = 4
  MaxRestarts = 1
INVARIANTS
  ServicesTypeOK
  QuietPagesAreCurrent
  CacheIsSound
  SessionsAreAccounted
  CredentialsAreSound
  RollbackIsPossible
  StatusIsTrue
  SetupIsSound
  GuessesAreBounded
PROPERTIES
  PagesCatchUp
  RequestsAreHonoured
  SecretsWorkOnce
CHECK_DEADLOCK FALSE
