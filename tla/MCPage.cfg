\* Every page of two nodes, every heading with two entries, five links, and three people
\* under a heading whose own names are headings.
CONSTANTS
  ann = ann
  bob = bob
  ea = ea
  eb = eb
  ua = ua
  ub = ub
  Names = {ann, bob}
  Emails = {ea, eb}
  Urls = {ua, ub}
  Width <- MCWidth
  Many = 2
  Few = 2
  Pages <- MCPages
  NoEmail = NoEmail
  NoUrl = NoUrl
SPECIFICATION Spec
INVARIANTS  ExcludedStayOut ReadableIsRead
PROPERTIES NobodyIsLost
CHECK_DEADLOCK FALSE
