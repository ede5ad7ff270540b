CONSTANTS
  p1 = p1
  p2 = p2
  instagram = instagram
  PostIds <- TwoPosts
  Platforms <- OneNetwork
  MediaPlatforms <- MCMediaPlatforms
  Contents <- OneNetworkContents
  NewStatuses <- Statuses
  Horizon <- MCHorizon
  MaxTime = 1
SPECIFICATION EditSpec
SYMMETRY Symmetry
INVARIANTS
  ScheduledIsComplete
  ScheduledWasReviewed
  NoLaterWriteLost
PROPERTIES
  TableRespected
  SchedulesAhead
CHECK_DEADLOCK FALSE
