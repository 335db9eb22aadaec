\* One run of two tasks; any write may fail, crashes anywhere.
CONSTANTS
  t1 = t1
  t2 = t2
  t3 = t3
  r1 = r1
  r2 = r2
  Tasks = {t1, t2}
  Runs = {r1}
  RunOf <- MCRunOf
  NoTask = NoTask
  NoRun = NoRun
  MaxAttempts = 3
  WritesMayFail = TRUE
  LogMayFail = TRUE
SPECIFICATION Spec
INVARIANTS AwaitingHasItem AttemptsBelowLimit OneWorkerPerTask
PROPERTIES FinishedIsFinal OpensReconciled
CHECK_DEADLOCK FALSE
