\* A directory of two pages, units behind it, one profile; crashes anywhere.
CONSTANTS
  r1 = r1
  r2 = r2
  u = u
  v = v
  f = f
  x = x
  ann = ann
  bob = bob
  Pages = {r1, r2, u, v, f, x}
  Root = r1
  Official = {r1, r2, u, v, f}
  People = {ann, bob}
  Sites <- MCSites
  MaxDepth = 2
  MaxPages = 3
  MaxTurns = 2
  NoPage = NoPage
SPECIFICATION WalkSpec
INVARIANTS IncompleteIsExplained
PROPERTIES SuccessIsKept WalkEnds
CHECK_DEADLOCK FALSE
