\* Two people with profile links and two without; two pages that lead to each other.
CONSTANTS
  a = a
  b = b
  c = c
  d = d
  People = {a, b, c, d}
  Linked = {a, b}
  Views <- MCViews
  MaxRounds = 3
  Pages = {p, q}
  MaxPages = 2
  MaxRetries = 1
  MaxPolls = 1
  NoLink = NoLink
SPECIFICATION CrawlSpec
INVARIANTS LoadsBounded SeenIsParsed LinkedAreSorted
CHECK_DEADLOCK FALSE
PROPERTY CrawlEnds
