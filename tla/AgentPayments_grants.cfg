SPECIFICATION Spec
CONSTANTS
  t1 = t1
  t2 = t2
  r1 = r1
  s1 = s1
  s2 = s2
  None = None
  Txids = {t1, t2}
  Requests = {r1}
  Pays <- MCPays
  Sids = {1, 2}
  Rids = {"q1"}
  Amounts = {1, 3}
  Keys = {"k1"}
  Bodies <- MCBodies
  Asks <- MCAsks
  Openers = {"o1"}
  Settlers = {s1, s2}
  Verifiers = {"v1"}
  Closers = {"c1"}
  MinDeposit = 2
  DefaultCost = 1
  RequestTTL = 1
  SessionTTL = 1
  KeyTTL = 0
  PurgeAge = 0
  MaxClock = 2
  MaxRestarts = 1
SYMMETRY Alike
CHECK_DEADLOCK FALSE
INVARIANTS
  GrantedOnce
  NothingBurnt
  Metered
PROPERTIES
  KeySettlesOnce
