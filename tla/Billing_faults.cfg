SPECIFICATION FairSpec
CONSTANTS
  p1 = p1
  p2 = p2
  Payments = {p1, p2}
  Fee <- TwoFees
  Direct <- OneDirect
  MinSettlement = 2
  CycleTTL <- Weeks
  Grace <- Weeks
  SuspendAfter <- Weeks
  BillTTL = 1
  MaxCycles = 2
  MaxBills = 1
  Faults = {"crash", "error"}
  NoPayment = NoPayment
INVARIANTS
  LedgerBacked
  NothingForgotten
PROPERTIES
  KeepsPromise
  PaidBillsSettle
