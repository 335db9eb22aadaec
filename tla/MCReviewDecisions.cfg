\* The user decides, cancels and sets the budget while the worker runs.
CONSTANTS
  s1 = s1
  s2 = s2
  p1 = p1
  Schools = {s1, s2}
  People = {p1}
  SchoolOf <- MCSchoolOf
  Linked = {p1}
  Redirected = {}
  Fingerprints = {1}
  AttemptLimit = 1
  UserActs = {"cancel", "budget", "decide", "reprocess", "access"}
  NoSchool = NoSchool
  NoPerson = NoPerson
SPECIFICATION Spec
INVARIANTS ReviewRunStaysInScope
PROPERTIES DecidedIsKept
CHECK_DEADLOCK FALSE
