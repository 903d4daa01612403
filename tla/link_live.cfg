SPECIFICATION FairSpec
CONSTANTS
  l1 = l1  l2 = l2  k1 = k1
  Links = {l1}
  KLinks = {k1}
  NoLink = NoLink
  Kinds = {"row", "alert"}
  BatchSize = 1
  MaxVer = 1
  MaxToken = 2
  MaxFails = 1
CONSTRAINT NotTainted
PROPERTY Convergence
CHECK_DEADLOCK FALSE
