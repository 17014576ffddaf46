SPECIFICATION FairSpec
CONSTANTS
  QuoteTTL = 1
  TopUpTTL = 1
  DetectTTL = 1
  DustFloor = 0
  Period = 2
  Notice = 1
  PassTTL = 1
  MaxLate = 1
  MaxInvoices = 1
  MaxCrashes = 1
  MaxRequests = 2
CHECK_DEADLOCK FALSE
INVARIANTS
  RenewedOnce
PROPERTIES
  PeriodsAddUp
  OverdueOnlyWhenEnded
  PaidRenews
