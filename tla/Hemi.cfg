SPECIFICATION HemiSpec
CONSTANTS
  ETH = ETH
  WETH = WETH
  pushETH = pushETH
  push18 = push18
  Null = Null
  NoAggregator = NoAggregator
  Token = {WETH}
  Feed = {ETH}
  Signed <- SignedValues
  InitFeeds <- PullTable
  Listings <- GovernorLists
  Aggregator = {pushETH, push18}
  Decimals <- DecimalsOf
  ChainlinkDecimals = 8
  InitAggregators <- PushTable
  Answers <- PushAnswers
  ToScale = 1
  MaxTimeTolerance = 1
  Skew = 2
  StalePeriod = 2
  StalePeriods = {0, 2}
  Unit <- UnitOf
  StartTime = 2
  MaxTime = 5
INVARIANTS HemiTypeOK OutageOnlyWhileAhead WholeTokenIsWorthItsPrice RoundTripNeverGains
PROPERTIES TimeAloneNeverPrefersMain
CHECK_DEADLOCK FALSE
