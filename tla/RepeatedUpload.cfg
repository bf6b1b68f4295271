\* One upload sent twice at once.
CONSTANTS
  d1 = d1  d2 = d2  kbs = kbs  t1 = t1  t2 = t2  file1 = file1
  None = None
  Docs = {d1}
  Collections = {kbs}
  CollectionOf <- OneCollection
  Payloads = {file1}
  Threads = {t1, t2}
  Operations = {"collections", "upload"}
  BackendErrors = {"fail"}
  MaxRecoveryAttempts = 3
  MaxJobs = 3
  MaxGeneration = 1
  MaxCrashes = 0
SPECIFICATION Spec
CHECK_DEADLOCK FALSE
INVARIANT
  OriginalMatchesDigest
