SPECIFICATION FairSpec
CONSTANTS
  i1 = i1
  i2 = i2
  m1 = m1
  m2 = m2
  h1 = h1
  h2 = h2
  w1 = w1
  w2 = w2
  None = None
  Invoices = {i1, i2}
  Merchants = {m1, m2}
  Hosts = {h1, h2}
  Addresses = {"a", "b"}
  Owner <- Own
  Rows = {1, 2}
  Emitters = {"e1"}
  Clicks = {"c1"}
  Workers = {w1, w2}
  Casts <- Scenes
  Place <- InOrder
  HookAttempts = 2
  HookDelay <- Twice
  LongestDelay = 2
  HookLease = 1
  Spacing <- Minute
  MailAttempts = 3
  MailDelay <- Thrice
  MailLease = 1
  GiveUpAfter = 1
  KeyTTL = 3
  MaxSlow = 1
CHECK_DEADLOCK FALSE
INVARIANTS
  OneMail
  MailIsWanted
PROPERTIES
  MailEnds
  EventEnds
