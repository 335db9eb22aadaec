\* A busy site and a site that is only swept; damage, failures and crashes.
CONSTANTS
  h1 = h1
  h2 = h2
  d1 = d1
  d2 = d2
  Hosts = {h1, h2}
  Rare = {h2}
  Data = {d1, d2}
  MaxTime = 2
  Lifetime = 2
  None = None
  Broken = Broken
  Error = Error
SPECIFICATION SessionSpec
SYMMETRY Symmetric
PROPERTIES SessionsAreAtomic SweepLeavesNoRest
CHECK_DEADLOCK FALSE
