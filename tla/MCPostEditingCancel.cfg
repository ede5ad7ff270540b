CONSTANTS
  p1 = p1
  p2 = p2
  instagram = instagram
  PostIds <- OnePost
  Platforms <- OneNetwork
  MediaPlatforms <- MCMediaPlatforms
  Contents <- OneNetworkContents
  NewStatuses <- Statuses
  Horizon <- MCHorizon
  MaxTime = 2
SPECIFICATION EditSpec
INVARIANTS
  ApprovedBySomeone
CHECK_DEADLOCK FALSE
