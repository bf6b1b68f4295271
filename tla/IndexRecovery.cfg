\* Uploads and metadata updates of two documents over restarts.
CONSTANTS
  d1 = d1  d2 = d2  kbs = kbs  t1 = t1  t2 = t2  file1 = file1
  None = None
  Docs = {d1, d2}
  Collections = {kbs}
  CollectionOf <- OneCollection
  Payloads = {file1}
  Threads = {t1}
  Operations = {"collections", "upload", "update"}
  BackendErrors = {"fail"}
  MaxRecoveryAttempts = 3
  MaxJobs = 6
  MaxGeneration = 2
  MaxCrashes = 3
SPECIFICATION FairSpec
CHECK_DEADLOCK FALSE
INVARIANTS
  RecoveryGivesUp
  StatusHasJob
  ReadyIsIndexed
  OriginalMatchesDigest
  WorkerSurvives
PROPERTIES
  FollowsLifecycle
  QueuedIsSettled
