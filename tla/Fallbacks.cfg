SPECIFICATION Spec
CONSTANTS
  CHAINLINK = CHAINLINK
  UNISWAP_V3 = UNISWAP_V3
  UNISWAP_V2 = UNISWAP_V2
  NONE = NONE
  feedContract = feedContract
  v3Contract = v3Contract
  v2Contract = v2Contract
  NoContract = NoContract
  WETH = WETH
  Token = {WETH}
  Provider = {CHAINLINK, UNISWAP_V3, UNISWAP_V2}
  Contract = {feedContract, v3Contract, v2Contract}
  InitProviders <- Registry
  InitFallbacks <- Fallbacks
  Registrations <- GovernorRegistrations
  Unit <- UnitOf
  Prices = {70, 79, 99}
  Whole = 100
  MaxDeviation = 20
  Deviations = {0}
  StalePeriod = 0
  StalePeriods = {1}
  StartTime = 1
  MaxTime = 2
INVARIANTS TypeOK RefusesOnlyForCause ReadsAgree FallbacksOnlyAddAnswers
PROPERTIES OneFallbackMovesThePriceAtMostTwoDeviations
CHECK_DEADLOCK FALSE
