SPECIFICATION BackgroundSpec
CONSTANTS
  Parts = {"warner", "retention", "events", "cleanup", "hooks", "running", "fanout", "history", "layers", "merge", "exec", "routing"}
  WarnInstances = {"i1"}
  Warners = {"w1", "w2"}
  Expiries = {2, 3, 5}
  Threshold = 2
  Tolerance = 2
  MaxWarnTime = 3
  MaxSaves = 2
  RetentionWorkers = {"w1", "w2"}
  LogActions = {"deploy", "rollback", "stop"}
  MaxLogs = 3
  BatchSize = 1
  Problems = {"p1", "p2", "p3", "p4"}
  GroupOf <- MCGroupOf
  ScoreOf <- MCScoreOf
  MaxLinesPerPoll = 1
  MaxLines = 2
  SchedReplicas = {"r1", "r2"}
  Policies = {"p"}
  Schedules = {"even", "odd"}
  TimesOf <- MCTimesOf
  CatchUpWindow = 2
  MaxTime = 3
  MaxMatches = 1
  MaxEdits = 1
  SchedFaults = {"crash", "write"}
  HookOps = {"f", "p", "b", "a", "l"}
  HookKind <- MCHookKind
  HookGroups <- MCHookGroups
  HookSubs <- MCHookSubs
  ActionScope = {"t1"}
  HookTemplates = {"t1", "t2"}
  HookAnswers <- MCHookAnswers
  CacheTTL = 1
  LookupTimeout = 1
  MaxHookTime = 3
  MaxTemplateChanges = 1
  HookFaults = {"wait", "query"}
  ChartOrder <- MCChartOrder
  ChartValues = {"x", "y"}
  MaxValueOps = 3
  MaxValueEdits = 1
  ValueFaults = {"source", "helm", "kill", "hook", "read"}
  FanReplicas = {"a", "b", "c"}
  FanPollers = {"a"}
  MaxPublished <- MCMaxPublished
  FanBuffer = 1
  WriteBatch = 1
  PollBatch = 1
  StartWindow = 2
  MaxGapSpan = 9
  QueryTimeout = 1
  GapTimeout = 2
  MaxAge = 1
  FanRetention = 2
  MaxFanTime = 3
  FanFaults = {"insert", "poll", "reset", "stop"}
  HistoryStarts <- MCHistoryStarts
  PageLimit = 1
  MaxHistoryRows = 6
  MaxHistoryChanges = 4
  CountDays = 1
  LayerRequests = {1, 2, 3, 4}
  LayerScripts <- MCLayerScripts
  FirstStore <- MCFirstStore
  ChartDefaults <- MCChartDefaults
  LayerFaults = {"read", "write"}
  TopKeys = {"a", "b"}
  SubKeys = {"x", "y"}
  SharedTexts <- MCSharedTexts
  LayerTexts <- MCLayerTexts
  TagChars = {"A", "a", "/", "_", "-", ".", "!"}
  MaxBranchName = 4
  MaxTag = 3
  ExecCases <- MCExecCases
  ServiceCases <- MCServiceCases
  AccessCases <- MCAccessCases
  WantedReleases <- MCWantedReleases
  AllowedNames = {"web", "job"}
  MaxTokenReads = 1
  GitHosts = {"github.com", "dev.azure.com", "ssh.dev.azure.com", "org.visualstudio.com", "gitlab.com", "git.example"}
  GitPaths <- MCGitPaths
  GitPorts = {"", "22", "443", "8443"}
  GitLabServer <- MCGitLabServer
  GitConfigured = {"gitlab"}
  AllowedGitHub <- MCAllowedGitHub
INVARIANTS
  HandoversMissAndRepeatNothing
  RetentionKeepsWhatReadersNeed
  
  GatesDecide
  
  AcceptedOverridesTakeEffect
  AlgorithmsMeetTheirDefinitions
CHECK_DEADLOCK FALSE
