SPECIFICATION Spec
CONSTANTS
  Refusing <- RefusesSame
  NeedsFeed <- Feeds
  KeepsRoutes <- SkipIfAlreadyDeployed
  Deployers <- Deploying
INVARIANTS TypeOK RoutedTokensHaveFeeds NoRunFails OnlyReplaysRevert
PROPERTIES RoutesStay Converges
CHECK_DEADLOCK FALSE
