\* A delete beside a metadata update and the worker.
CONSTANTS
  d1 = d1  d2 = d2  kbs = kbs  t1 = t1  t2 = t2  file1 = file1
  None = None
  Docs = {d1}
  Collections = {kbs}
  CollectionOf <- OneCollection
  Payloads = {file1}
  Threads = {t1}
  Operations = {"collections", "upload", "update", "delete"}
  BackendErrors = {"fail"}
  MaxRecoveryAttempts = 3
  MaxJobs = 3
  MaxGeneration = 2
  MaxCrashes = 0
SPECIFICATION Spec
CHECK_DEADLOCK FALSE
INVARIANT
  WorkerSurvives
