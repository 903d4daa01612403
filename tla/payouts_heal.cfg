SPECIFICATION FairSpec
CONSTANTS
  Intents = {1}
  Coins = {0, 1}
  TxFees <- SmallFees
  Chains = {"bitcoin", "ethereum"}
  FirstFees = {1}
  FeeCap = 3
  VSize = 1
  Mandated = {}
  MayHold = FALSE
  MayCompete = FALSE
  MaxFails = 2
PROPERTIES CancelReachesRow EndReachesRow SignedIsSent
CHECK_DEADLOCK FALSE
