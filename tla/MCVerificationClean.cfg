\* No write fails: what the threads achieve.
CONSTANTS
  t1 = t1
  t2 = t2
  t3 = t3
  r1 = r1
  r2 = r2
  Tasks = {t1, t2}
  Runs = {r1}
  RunOf <- MCRunOf
  NoTask = NoTask
  NoRun = NoRun
  MaxAttempts = 2
  WritesMayFail = FALSE
  LogMayFail = TRUE
SPECIFICATION FairSpec
INVARIANTS OutcomesAgree
PROPERTIES BatchSettlesAll VerificationEnds
CHECK_DEADLOCK FALSE
