SPECIFICATION HSpec
CONSTANTS
  ETH = ETH
  BTC = BTC
  WETH = WETH
  msETH = msETH
  Null = Null
  Feed = {ETH, BTC}
  Token = {WETH, msETH}
  Signed <- SignedValues
  InitFeeds <- Constructor
  Listings <- GovernorLists
  ToScale = 10
  MaxTimeTolerance = 1
  Skew = 2
  StartTime = 2
  MaxTime = 6
INVARIANTS HTypeOK ServedPriceIsSigned DelistedPriceExpires SiblingsAgree
PROPERTIES ReadsGoBackAtMostTwiceTheTolerance
CHECK_DEADLOCK FALSE
