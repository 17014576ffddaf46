SPECIFICATION Spec
CONSTANTS
  QuoteTTL = 1
  TopUpTTL = 1
  DetectTTL = 1
  DustFloor = 10
  i1 = i1
  i2 = i2
  t1 = t1
  t2 = t2
  Invoices = {i1}
  Txids = {t1, t2}
  PaysTo <- TwoHalves
  Amount <- TwoHalvesAmount
  Prices = {1000}
  Exactness = {FALSE}
  MaxHeight = 2
  Batch = 1
  Renewals = {}
  Swappable = {}
  RecoverTTL = 1
  WebSocket = FALSE
  Faults = {"reorg"}
  NoTx = NoTx
  NoInvoice = NoInvoice
INVARIANTS
  ConfirmedIsFunded
  CountedOnce
  ConfirmedOnChain
SYMMETRY Either
VIEW Effective
