SPECIFICATION Spec
CONSTANTS
  Intents = {1, 2}
  Coins = {0, 1}
  TxFees <- SmallFees
  Chains = {"bitcoin", "ethereum"}
  FirstFees = {1, 4}
  FeeCap = 5
  VSize = 1
  Mandated = {1}
  MayHold = TRUE
  MayCompete = TRUE
  MaxFails = 2
INVARIANTS
  PayoutTypeOK StoredBeforeSent StatusTellsTruth PlansDisjoint
CONSTRAINT OneOrTwo
PROPERTY SignedMovesForward
CHECK_DEADLOCK FALSE
