SPECIFICATION ReadySpec
CONSTANTS
  None = None  e1 = e1
  btc = btc  acc1 = acc1  acc2 = acc2  BTC = BTC  dest1 = dest1  o1 = o1  o2 = o2
  p1 = p1  p2 = p2  k1 = k1  k2 = k2  k3 = k3  m1 = m1  eth = eth  ETH = ETH
  Networks = {btc}
  ChainOf <- BtcChain
  Accounts = {acc1}
  Assets = {BTC}
  AssetsOf <- BtcAssets
  Destinations = {dest1}
  Outpoints = {o1, o2}
  OutpointsOf <- BtcOutpoints
  ValueOf <- BtcValues
  Persons = {p1}
  Keys = {k1}
  Owner <- SoloOwner
  NetOf <- BtcNet
  ListedBy = {}
  EnrolIds = {}
  MaxIntents = 3
  Mandates = {}
  MandateTerms = {}
  Policies <- NoPolicies
  DefaultPolicy <- BtcPolicy
  Amounts = {1}
  Fees = {1, 2}
  Nonces = {}
  PROD_MIN <- DevMin
  PAYOUT_TTL = 1  WHITELIST_TTL = 1  MANDATE_TTL = 1  ENROL_TTL = 1
  DAY = 1
  MAX_OPEN = 2  MAX_PER_DAY = 3  DUST = 1
  MaxTime = 2
  MaxVersion = 0
INVARIANTS
  TypeOK ReplacementsExclude PayoutsIndependent CooldownKept CancelIsFinal ChangeFresh
PROPERTY KeepsPromise
CHECK_DEADLOCK FALSE
