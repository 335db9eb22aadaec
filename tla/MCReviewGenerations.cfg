\* Generations to the limit, with cancellation and crashes.
CONSTANTS
  s1 = s1
  s2 = s2
  p1 = p1
  Schools = {s1, s2}
  People = {p1}
  SchoolOf <- MCSchoolOf
  Linked = {p1}
  Redirected = {p1}
  Fingerprints = {1, 2}
  AttemptLimit = 2
  UserActs = {"cancel"}
  NoSchool = NoSchool
  NoPerson = NoPerson
SPECIFICATION FairSpec
INVARIANTS RetryLimit CompletedIsSettled
PROPERTIES UnchangedIsClosed CommandEnds
CHECK_DEADLOCK FALSE
