\* The same people and pages; two people whose cards link one document.
CONSTANTS
  ann = ann
  bob = bob
  chi = chi
  dov = dov
  qlab = qlab
  ea = ea
  es = es
  ef = ef
  info = info
  dir = dir
  ua = ua
  ub = ub
  ubnew = ubnew
  doc = doc
  off = off
  ug = ug
  Names = {ann, bob, chi, dov, qlab}
  Unkeyed = {chi, dov}
  Labs = {qlab}
  Emails = {ea, es, ef, info}
  Local = {ea, es, ef}
  Matches <- MCMatches
  Foreign = {chi, dov}
  Urls = {dir, ua, ub, ubnew, doc, off, ug}
  Official = {dir, ua, ub, ubnew, doc, ug}
  PageAt <- MCPageAt
  Visits <- MCShared
  Answers <- MCAnswers
  Budget = 2
  Estimate = 1
  MaxCost = 2
  NoName = NoName
  NoEmail = NoEmail
  NoUrl = NoUrl
SPECIFICATION Spec
INVARIANT EveryoneIsKept
CHECK_DEADLOCK FALSE
