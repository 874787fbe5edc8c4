SPECIFICATION CacheRestoreSpec
CONSTANTS
  Attachments = {a, b, c}
  Big = {b}
  Quota = 2
  Requests = {r1, r2}
  MaxDownloads = 3
  MaxCacheFaults = 0
  MaxRestores = 1
INVARIANTS
  DownloadsFindTheirFile
CHECK_DEADLOCK FALSE
