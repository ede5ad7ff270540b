CONSTANTS
  p1 = p1
  instagram = instagram
  x = x
  threads = threads
  igAcme = igAcme
  xAcme = xAcme
  r1 = r1
  s1 = s1
  s2 = s2
  PostIds <- OnePost
  Platforms <- ThreeNetworks
  MediaPlatforms <- NeedMedia
  Contents <- SlotContents
  NewStatuses <- FromStart
  Horizon <- MCHorizon
  MaxTime = 0
  Accounts <- TwoAccounts
  PlatformOf <- MCPlatformOf
  Connected <- XConnected
  Callers <- OneCaller
  MaxAttempts = 1
  AttemptCap = 2
  BaseDelay = 1
  MaxBatches = 2
  SlotIds <- TwoSlots
  DevHeaders = TRUE
  Requests <- MCRequests
SPECIFICATION AuthoritySpec
SYMMETRY Symmetry
VIEW View
INVARIANTS
  ReservedSlotHasJob
PROPERTIES
  EffectsArePermitted
CHECK_DEADLOCK FALSE
