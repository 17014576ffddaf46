SPECIFICATION FairSpec
CONSTANTS
  QuoteTTL = 1
  TopUpTTL = 1
  DetectTTL = 1
  DustFloor = 10
  i1 = i1
  i2 = i2
  t1 = t1
  t2 = t2
  Invoices = {i1}
  Txids = {t1}
  PaysTo <- OneFull
  Amount <- OneBareAmount
  Prices = {1000}
  Exactness = {FALSE}
  MaxHeight = 2
  Batch = 2
  Renewals = {i1}
  Swappable = {}
  RecoverTTL = 1
  WebSocket = FALSE
  Faults = {"crash", "error"}
  NoTx = NoTx
  NoInvoice = NoInvoice
INVARIANTS
  OnlyConfirmedFulfilled
  
PROPERTIES
  MinedIsConfirmedInTime
