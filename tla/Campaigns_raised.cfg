SPECIFICATION Spec
CONSTANTS
  c1 = c1
  c2 = c2
  x1 = x1
  x2 = x2
  i1 = i1
  None = None
  Links = {c1, c2}
  Invs = {i1}
  Quoted = 1
  Received = {2}
  Txs = {x1, x2}
  Pays <- TwoTxs
  Batch = 1
  Patches = {FALSE, None}
  Faults = {"crash", "busy", "norate", "fetch"}
  Casts <- Scenes
CHECK_DEADLOCK FALSE
INVARIANTS
  TotalsAddUp
  DonationsNotMissed
  OneOwner
