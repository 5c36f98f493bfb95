SPECIFICATION ProcessesSpec
CONSTANTS
  Parts = {"election", "life", "schema", "monitors", "output", "jobs", "dial", "expiry"}
  Replicas = {r1, r2}
  NoOne = NoOne
  LeaseDuration = 5
  RenewDeadline = 2
  RetryPeriod = 1
  Latency = 1
  Leaving = {r1}
  Faults = {"lost", "slow"}
  Callers = {"r", "q", "w", "s"}
  CallerIs <- MCCallerIs
  SlowCallers = {"q"}
  LifeFaults = {"start"}
  MigReplicas = {"a", "b"}
  MigStarts <- MCMigStarts
  Judged <- MCJudged
  Monitors = {"a", "b"}
  WarnKeys = {"secret"}
  Cooldown <- MCCooldown
  RefreshNamespaces = {"n"}
  MaxMonitorTime = 7
  MaxPasswords = 2
  MaxTerms = 1
  MonitorFaults = {"write"}
  Logs = {"l1", "l2"}
  Flushers = {"f1", "f2"}
  MaxStreamed = 2
  MaxOutputLines = 1
  WriteErrors = TRUE
  JobClients = {"c1", "c2"}
  JobLogs <- MCJobLogs
  LogCap = 3
  Subscribers <- MCSubscribers
  JobFaults = {"create", "store"}
  DialKinds = {"forward", "exec"}
  Proxied = {TRUE, FALSE}
  DialFaults = {}
  ExpiryStarts <- MCExpiryStarts
  ExpiryRequests = {1, 2}
  MaxTTL = 3
  MaxExpiryTime = 4
  ExpiryFaults = {"restart", "reap"}
INVARIANTS
  LeaderHoldsLease
  ShutdownOrderIsRight
  
  
  JobLogIsWhole
  ConnectionHasOneOwner
  DeployOutlivesOldExpiry
PROPERTIES
  ProcessesSettle
CHECK_DEADLOCK FALSE
