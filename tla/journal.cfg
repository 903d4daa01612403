SPECIFICATION HomeSpec
CONSTANTS
  a = a  b = b  n1 = n1  n2 = n2  s1 = s1  s2 = s2  s3 = s3
  Others = {a, b}
  Networks = {n1, n2}
  Seeds = {s1, s2, s3}
  NoSeed = NoSeed
  Events <- AllEvents
  MaxSeq = 3
  MaxCrashes = 3
  MaxDiskErrors = 2
SYMMETRY HomeSymmetry
INVARIANTS
  AnsweredIsKept Restartable JournalIsState NoMixture SeedsFit
PROPERTY SeedsStay
CHECK_DEADLOCK FALSE
