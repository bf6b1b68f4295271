\* Two sessions, two calls of runCommand or resolveHITL, one tool call and one approval
\* per job, and a walk to another session and back.
CONSTANTS
  s1 = s1  s2 = s2
  None = None
  Sessions = {s1, s2}
  MaxRuns = 2
  MaxTools = 1
  MaxInterrupts = 1
  MaxBusyRetries = 1
  Anew = FALSE
  LateCanvas = FALSE
  MaxMoves = 2
SPECIFICATION FairSpec
CHECK_DEADLOCK FALSE
INVARIANTS
  TypeOK
  StoppedIsConfirmed
  SpinnerHasRun
  FailureIsOffered
PROPERTIES
  SupersededRunsAreSilent
  AnswersSettle
