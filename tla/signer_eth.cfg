SPECIFICATION EthSpec
CONSTANTS
  None = None  e1 = e1
  btc = btc  acc1 = acc1  acc2 = acc2  BTC = BTC  dest1 = dest1  o1 = o1  o2 = o2
  p1 = p1  p2 = p2  k1 = k1  k2 = k2  k3 = k3  m1 = m1  eth = eth  ETH = ETH
  Networks = {eth}
  ChainOf <- EthChain
  Accounts = {acc1, acc2}
  Assets = {ETH}
  AssetsOf <- EthAssets
  Destinations = {dest1}
  Outpoints = {}
  OutpointsOf <- EthOutpoints
  ValueOf <- NoValues
  Persons = {p1, p2}
  Keys = {k1, k2, k3}
  Owner <- EthOwner
  NetOf <- EthNet
  ListedBy = {k1}
  EnrolIds = {e1}
  MaxIntents = 4
  Mandates = {m1}
  MandateTerms <- Terms
  Policies <- EthPolicies
  DefaultPolicy <- EthPolicy
  Amounts = {1, 2}
  Fees = {10, 11}
  Nonces = {0, 1, 2}
  PROD_MIN <- DevMin
  PAYOUT_TTL = 1  WHITELIST_TTL = 1  MANDATE_TTL = 1  ENROL_TTL = 1
  DAY = 2
  MAX_OPEN = 2  MAX_PER_DAY = 4  DUST = 1
  MaxTime = 4
  MaxVersion = 2
INVARIANTS
  NoncesContiguous SignedInTime MandateNeedsOther MandateWithinTotal DailyLimitKept AppOnlyTightens
PROPERTY SignedByActiveKeys
CHECK_DEADLOCK FALSE
