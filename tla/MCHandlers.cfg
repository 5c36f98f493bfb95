SPECIFICATION HandlersSpec
CONSTANTS
  Parts = {"sessions", "stores", "accounts", "catalog", "instances", "clusters", "quotas"}
  Requests = {1, 2, 3}
  Scripts <- MCSessionScripts
  AccessTTL = 2
  BlockSkew = 0
  ReuseGrace = 0
  IdleTimeout = 0
  MaxLifetime = 2
  MaxPerUser = 2
  MaxNow = 2
  MaxRows = 3
  MaxTouches = 1
  SessionFaults = {"create", "replay", "revoke"}
  PerSecond = 2
  BlockedSessions <- MCBlockedSessions
  Untils = {4, 5, 7}
  SecondTTL = 3
  UserBlockTTL = 4
  MaxStoreTime = 7
  StoreFaults = {"batch"}
  Locals = {1, 2}
  AcRequests = {1, 2, 3, 4, 5}
  AcScripts <- MCAcScripts
  SsoRole = "user"
  VerifySlots = 1
  CatRequests = {1, 2, 3, 4, 5}
  CatScripts <- MCCatScripts
  ChartNames = {"a", "b"}
  CatVersions = {"v1", "v2"}
  MaxStamp = 1
  CatFaults = {"write"}
  InstRequests = {1, 2, 3, 4}
  InstScripts <- MCInstScripts
  InstClusters = {"c1", "c2"}
  DefaultCluster = "c1"
  InstNames = {"x"}
  MaxCloneNames = 2
  MaxInstancesPerUser = 2
  InstFaults = {"hook", "cleanup"}
  ClusterRequests = {1, 2, 3}
  ClusterScripts <- MCClusterScripts
  ClusterFaults = {"build", "health", "lookup"}
  MaxPolls = 1
  QuotaRequests = {1, 2, 3}
  QuotaScripts <- MCQuotaScripts
  QuotaChoices <- MCQuotaChoices
  Samples <- MCSamples
  FallbackRequest = 1
  FallbackLimit = 2
  QuotaFaults = {"apply", "lookup"}
INVARIANTS
  EndedSessionsStayEnded
  
  AnAdminRemains
  ReleasesAreWhatWasPublished
  
  
CHECK_DEADLOCK FALSE
