SPECIFICATION ConnectionsSpec
CONSTANTS
  Parts = {"group", "clients", "streams", "shared", "git", "notify", "watch", "setup"}
  Workers = {w1}
  MaxTerms = 3
  Sockets = {"c1"}
  Streams = {"s1", "s2"}
  Auth <- MCAuth
  Revocations = {"token", "user", "instance"}
  SendBuffer = 1
  HubFaults = {"lookup", "row"}
  StreamKind <- MCStreamKind
  StreamUser <- MCStreamUser
  MaxPerUser = 1
  ProcessCap = 2
  StreamFaults = {"resolve", "audit"}
  Readers = {"s", "t", "p", "d", "e", "f"}
  ReaderIs <- MCReaderIs
  ReaderGroups <- MCReaderGroups
  FlightBound = 1
  HintWait = 1
  DashboardTTL = 1
  MaxReadTime = 4
  ReadFaults = {"leave"}
  Listers = {"a", "b", "c", "d", "e", "f"}
  GitRepos = {"g", "h", "l", "n"}
  GitKind <- MCGitKind
  GitRefused = {"n"}
  ListerGroups <- MCListerGroups
  ListerRepo <- MCListerRepo
  ListerBranch <- MCListerBranch
  FirstBranches <- MCFirstBranches
  PageSize = 1
  MaxPages = 2
  MaxBranches = 3
  CacheCapacity = 2
  CacheWeightLimit = 4
  BranchCacheTTL = 1
  FillTimeout = 1
  MaxGitTime = 3
  MaxGitChanges = 1
  GitFaults = {"leave", "rateLimited"}
  Pushed <- MCPushed
  NtEvents = {1, 2}
  NtChannels = {"c"}
  NtUsers = {"u"}
  IntakeSize = 1
  ChannelQueueSize = 1
  NtRequests = {1, 2}
  NtScripts <- MCNtScripts
  NtFaults = {"find", "read", "post", "retry"}
  RestartThreshold = 2
  WatchContents <- MCWatchContents
  StatusSamples <- MCStatusSamples
  PodSamples <- MCPodSamples
  HookTime = 1
  MaxWatchTime = 2
  MaxDeploys = 1
  MaxTermEnds = 1
  WatchFaults = {"read", "write"}
  SetupCallers = {"d", "f", "c", "r", "q"}
  CallerKind <- MCCallerKind
  SetupInits <- MCSetupInits
  MaxForeign = 1
  SetupFaults = {"r"}
  SetupGroups <- MCSetupGroups
INVARIANTS
  TermsNeverOverlap
  NoRevokedClient
  SlotsMatchSessions
  StartHasEnd
  SharedAnswersAreFresh
  NothingLostInQueues
  AccessIsRightAtRest
PROPERTIES
  ConnectionsSettle
CHECK_DEADLOCK FALSE
