SPECIFICATION Spec
CONSTANTS
  Refusing <- RefusesSame
  NeedsFeed <- Feeds
  KeepsRoutes <- SkipIfAlreadyDeployed
  Deployers <- RunAgain
PROPERTY NothingFoundNothingProposed
CHECK_DEADLOCK FALSE
