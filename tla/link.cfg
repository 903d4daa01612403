SPECIFICATION Spec
CONSTANTS
  l1 = l1  l2 = l2  k1 = k1
  Links = {l1, l2}
  KLinks = {k1}
  NoLink = NoLink
  Kinds = {"row"}
  BatchSize = 2
  MaxVer = 2
  MaxToken = 1
  MaxFails = 1
CONSTRAINT NotTainted
SYMMETRY LinkSymmetry
INVARIANTS LinkTypeOK NothingMissed CursorHonest
PROPERTY InOrder
CHECK_DEADLOCK FALSE
