\* Every operation, two handlers and the worker on one document, one crash.
CONSTANTS
  d1 = d1  d2 = d2  kbs = kbs  t1 = t1  t2 = t2  file1 = file1
  None = None
  Docs = {d1}
  Collections = {kbs}
  CollectionOf <- OneCollection
  Payloads = {file1}
  Threads = {t1, t2}
  Operations = {"collections", "upload", "update", "retry", "start", "stop", "delete"}
  BackendErrors = {"fail", "blank"}
  MaxRecoveryAttempts = 2
  MaxJobs = 3
  MaxGeneration = 2
  MaxCrashes = 1
SPECIFICATION Spec
SYMMETRY HandlerThreads
CHECK_DEADLOCK FALSE
INVARIANTS
  TypeOK
  JobsFitDocuments
  RunningJobIsHeld
  ReadyIsCurrent
