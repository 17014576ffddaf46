SPECIFICATION Spec
CONSTANTS
  QuoteTTL = 1
  TopUpTTL = 1
  DetectTTL = 1
  DustFloor = 10
  i1 = i1
  i2 = i2
  t1 = t1
  t2 = t2
  Invoices = {i1}
  Txids = {t1}
  PaysTo <- OneFull
  Amount <- OneMidAmount
  Prices = {500, 1000}
  Exactness = {FALSE, TRUE}
  MaxHeight = 1
  Batch = 1
  Renewals = {}
  Swappable = {i1}
  RecoverTTL = 1
  WebSocket = TRUE
  Faults = {"crash", "error", "evict"}
  NoTx = NoTx
  NoInvoice = NoInvoice
INVARIANTS
  PaidIsNoticed
PROPERTIES
  KeepsPromise
  CheckpointCoversView
