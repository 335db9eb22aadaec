\* Every pair of cards and a card of a linked page; with and without a model.
CONSTANTS
  ann = ann
  bob = bob
  chi = chi
  dov = dov
  qlab = qlab
  ea = ea
  es = es
  ef = ef
  info = info
  dir = dir
  ua = ua
  ub = ub
  ubnew = ubnew
  doc = doc
  off = off
  ug = ug
  Names = {ann, bob, chi, dov, qlab}
  Unkeyed = {chi, dov}
  Labs = {qlab}
  Emails = {ea, es, ef, info}
  Local = {ea, es, ef}
  Matches <- MCMatches
  Foreign = {chi, dov}
  Urls = {dir, ua, ub, ubnew, doc, off, ug}
  Official = {dir, ua, ub, ubnew, doc, ug}
  PageAt <- MCPageAt
  Visits <- MCVisits
  Answers <- MCAnswers
  Budget = 2
  Estimate = 1
  MaxCost = 2
  NoName = NoName
  NoEmail = NoEmail
  NoUrl = NoUrl
SPECIFICATION Spec
INVARIANTS OneSeedPerPerson AcceptedIsPrinted AddressIsTheirs AcceptedAreDistinct EveryoneIsAccounted SpendIsBounded
CHECK_DEADLOCK FALSE
