SPECIFICATION Spec
CONSTANTS
  t1 = t1
  t2 = t2
  b1 = b1
  b2 = b2
  m1 = m1
  None = None
  Kinds = {"private"}
  Tiers = {t1}
  Listings = {{t1}}
  Caps = {1}
  Unlimited = 3
  MaxInvoices = 2
  Buyers = {b1, b2}
  Managers = {m1}
  MaxRetries = 1
  MaxEdits <- MCEdits
  MaxRequotes <- MCRequotes
  Callers <- MCCallers
  MaxRestarts = 0
  MaxFaults = 0
CHECK_DEADLOCK FALSE
INVARIANTS
  NeverOversold
