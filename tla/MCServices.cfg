CONSTANTS
  acme = acme
  sales = sales
  ann = ann
  bob = bob
  g1 = g1
  g2 = g2
  t1 = t1
  t2 = t2
  MaxTime = 2
  Words = {acme, sales}
  MaxInvitations = 3
  MaxTokens = 3
  MaxKeys = 2
  MaxConnections = 3
  Networks <- MCNetworks
  CallerUsers = {1, 2}
  MaxConsents = 3
  ConsentTtl = 1
  MaxIntents = 2
  Users = {bob}
  DemoUser = ann
  ChannelNames <- MCChannels
  Day = 3
  MaxMonitors = 3
  MaxMentions = 3
  MaxNotices = 3
  Calls <- MCCalls
  Priority <- MCPriority
  Terms = {acme}
  LogCap = 1
  MaxPolicies = 2
  MaxChecks = 3
  MaxVoices = 4
  MaxTemplates = 4
  MaxTasks = 4
  MaxLines = 3
  MaxReports = 2
  MaxVersion = 2
  MaxUses = 5
  MaxReported = 1
  ExportTtl = 2
  MaxReplays = 3
  MaxUnheard = 2
  Platforms <- MCNetworks
  MediaPlatforms <- MCMediaPlatforms
  Texts <- MCTexts
  Clicks <- MCCalls
  MaxMoves = 5
  MaxPosts = 2
  MaxWrites = 3
SPECIFICATION ServicesSpec
SYMMETRY Symmetry
VIEW View
INVARIANTS
  ServicesTypeOK
  NothingTwice
  KeysUsedInTheirLife
  ConsentBehindEveryAccount
  PublishedIsScanned
  AlertsAreAnnounced
  BlockedIsReviewed
  PanelsShowWhatIsSo
  ComposerShowsWhatIsSaved
PROPERTIES
  DevicesTakeTheirSessions
  JudgedByTheNewestPolicy
  ProgressNeverFalls
CHECK_DEADLOCK FALSE
