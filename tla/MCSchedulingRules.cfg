CONSTANTS
  p1 = p1
  instagram = instagram
  x = x
  threads = threads
  igAcme = igAcme
  xAcme = xAcme
  r1 = r1
  s1 = s1
  s2 = s2
  PostIds <- OnePost
  Platforms <- ThreeNetworks
  MediaPlatforms <- NeedMedia
  Contents <- DraftContents
  NewStatuses <- DraftOnly
  Horizon <- MCHorizon
  MaxTime = 1
  Accounts <- TwoAccounts
  PlatformOf <- MCPlatformOf
  Connected <- MCConnected
  Callers <- NoCallers
  MaxAttempts = 1
  AttemptCap = 2
  BaseDelay = 1
  MaxBatches = 1
  SlotIds <- OneSlot
  DevHeaders = FALSE
  Requests <- OneManager
SPECIFICATION AuthoritySpec
VIEW View
PROPERTIES
  ScheduledByTheRules
CHECK_DEADLOCK FALSE
