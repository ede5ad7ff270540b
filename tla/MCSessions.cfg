CONSTANTS
  ann = ann
  bob = bob
  Users <- MCUsers
  AbsoluteTtl = 3
  IdleTimeout = 2
  Grace = 1
  MaxPerUser = 2
  Retention = 0
  MaxSessions = 3
  MaxTime = 3
SPECIFICATION Spec
SYMMETRY Symmetry
CONSTRAINT Small
INVARIANTS
  ConcurrencyBounded
  AnswerIsUsable
  OneUnrevokedPerFamily
  OneReplacementPerToken
  ReusedFamilyIsDead
PROPERTIES
  ImplementsFamilies
  LapsedStaysLapsed
  EvictsLeastRecentlyUsed
CHECK_DEADLOCK FALSE
