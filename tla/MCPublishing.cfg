CONSTANTS
  p1 = p1
  instagram = instagram
  x = x
  igAcme = igAcme
  xAcme = xAcme
  r1 = r1
  r2 = r2
  PostIds <- OnePost
  Platforms <- TwoNetworks
  MediaPlatforms <- NoNetworks
  Contents <- MCContents
  NewStatuses <- ApprovedOnly
  Horizon <- TwoSpellings
  MaxTime = 1
  Accounts <- TwoAccounts
  PlatformOf <- MCPlatformOf
  Connected <- MCConnected
  Callers <- TwoCallers
  MaxAttempts = 2
  AttemptCap = 3
  BaseDelay = 1
  MaxBatches = 2
SPECIFICATION FairPublishingSpec
INVARIANTS
  OneJobPerKey
  ProcessingIsHeld
  EverySendIsCounted
PROPERTIES
  SucceededIsFinal
  ImplementsDelivery
  ProcessingEnds
  SweepsEnd
CHECK_DEADLOCK FALSE
