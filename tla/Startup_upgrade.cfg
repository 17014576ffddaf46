SPECIFICATION Spec
CONSTANTS
  m1 = m1
  m2 = m2
  None = None
  Merchants = {m1, m2}
  OldMerchants = {m1}
  Levels = {"fresh", "released", "grown", "shipped"}
  MaxCrashes = 1
  MaxFaults = 1
CHECK_DEADLOCK FALSE
INVARIANTS
  RowsKept
  Ready
  KeyedIsSealed
