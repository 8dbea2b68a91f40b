SPECIFICATION Spec
CONSTANTS
  ONE = 10000
  YEAR = 365
  MAX_MARKET_PROPORTION = 9600
  LIQUIDATION_CURSOR = 3000
  MAX_LIQUIDATION_INCENTIVE_FACTOR = 11500
  BlockTime = 0
  FIRST_SIZE = 1000
  BORROW_UTILISATION = 9800
  MaxIter = 20
  Anchors <- MCAnchors
  HORIZONS = {365, 90, 7}
  LIQUIDITY_SCALES = {1, 2}
  TARGETS = {50, 300, 500, 1000}
  LLTVS = {8600, 9450}
  LOOP_DEPTHS = {1, 3}
  DISPLACEMENTS = {0, 500, 1000}
  HELD = {0, 1, 4, 8}
  TWAP_DURATION = 900
  OWN_SHARES = {1, 50}
  DISCOUNTS = {2000, 3000}
  PROBES = 50
INVARIANT
  UnreachableMeansNone
CHECK_DEADLOCK FALSE
