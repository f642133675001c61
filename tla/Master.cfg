SPECIFICATION MasterSpec
CONSTANTS
  ETH = ETH
  WETH = WETH
  USDC = USDC
  STE = STE
  VAULT = VAULT
  LP = LP
  Token = {WETH, USDC, STE, VAULT, LP}
  ethFeed = ethFeed
  usdcFeed = usdcFeed
  FeedId = {ethFeed, usdcFeed}
  NoFeedId = NoFeedId
  NoOracle = NoOracle
  NoToken = NoToken
  Published <- PublishedPrices
  InitFeedIds <- PythTable
  Fed = {WETH}
  UpdateFee = 1
  Payments = {0, 2}
  UsdDecimals = 1
  MaxTimeTolerance = 1
  Skew = 2
  Pool <- LendingPool
  VirtualPrice <- VirtualPrices
  OneShare = 10
  Underlying <- UnderlyingOf
  WETHLike = WETH
  OneUnit <- UnitOf
  OneCToken = 10
  OneInUsd = 10
  FeedStalePeriod = 0
  InitDefaultOracle = "PythOracle"
  DefaultOracles = {"PythOracle", "MainOracle"}
  Batches <- GovernorBatches
  Feedable = {STE}
  InitRate = 3
  Rates = {0, 3}
  Answers = {9}
  StalePeriod = 1
  AmountsIn = {1, 7}
  StartTime = 2
  MaxTime = 3
INVARIANTS MasterTypeOK LegsAreClose RestsOnServedPrices LpIsWorthItsWorstCoin RoundTripsNeverGain PullNeedsNoStalePeriod
PROPERTIES OnlyRoutedPricesMove TimeAloneOnlySilences ExchangeSilencesOnlyEarlyPrices
CHECK_DEADLOCK FALSE
