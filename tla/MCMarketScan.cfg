SPECIFICATION Spec
CONSTANTS
  m1 = m1  m2 = m2  m3 = m3  m4 = m4  m5 = m5
  adapter = adapter  meta = meta  minFeed = minFeed  twapLong = twapLong
  twapShort = twapShort  twapLoan = twapLoan  linear = linear  chainlink = chainlink  loop = loop
  capped = capped  external = external  zero = zero
  ZERO <- zero
  Contracts <- MCContracts
  KindOf <- MCKindOf
  Getters <- MCGetters
  Child <- MCChild
  Market <- MCMarket
  Window <- MCWindow
  MaxDepth = 5
  Markets <- MCMarkets
  Listings <- MCListings
  Top = 3
  ChainOf <- MCChainOf
  AdapterOf <- MCAdapterOf
  RPC_ENDPOINTS <- MCEndpoints
  MaxTrouble = 2
  Collateral <- MCCollateral
INVARIANTS
  TypeOK
  ExactUnlessLost
  EveryEndpointTried
  CacheAgrees
  ScenariosBacked
  MapAddsUp
PROPERTIES
  ScanEnds
  KeepsPromise
\* The program ends.
CHECK_DEADLOCK FALSE
