SPECIFICATION FairSpec
CONSTANTS
  Intents = {1}
  Coins = {0, 1}
  TxFees <- SmallFees
  Chains = {"bitcoin", "ethereum"}
  FirstFees = {1}
  FeeCap = 5
  VSize = 1
  Mandated = {}
  MayHold = FALSE
  MayCompete = FALSE
  MaxFails = 1
PROPERTY SettledIsShown
CHECK_DEADLOCK FALSE
