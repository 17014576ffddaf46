SPECIFICATION FairSpec
CONSTANTS
  t1 = t1
  t2 = t2
  b1 = b1
  b2 = b2
  m1 = m1
    None = None
  Kinds = {"plain", "private", "luma"}
  Tiers = {t1, t2}
  Listings = {{t1}}
  Caps = {1}
  Unlimited = 3
  MaxInvoices = 2
  Buyers = {b1, b2}
  Managers = {m1}
  MaxRetries = 1
  MaxEdits <- MCEdits
  MaxRequotes <- MCRequotes
  Callers <- MCCallers
  MaxRestarts = 1
  MaxFaults = 1
CHECK_DEADLOCK FALSE
INVARIANTS
  AdmittedOnce
  WithinCap
  PaidIsServed
PROPERTIES
  RetryEnds
