SPECIFICATION FairSpec
CONSTANTS
  t1 = t1
  t2 = t2
  Tabs = {t1, t2}
  Casts <- Scenes
  QuoteTTL = 1
  TopUpTTL = 1
  DetectTTL = 1
  DustFloor = 0
  FundTTL = 1
  RecoverTTL = 2
CHECK_DEADLOCK FALSE
INVARIANTS
  OneSwap
  OneSend
  FeeTakenOnce
  SettledIsDelivered
PROPERTIES
  SuccessIsCredited
