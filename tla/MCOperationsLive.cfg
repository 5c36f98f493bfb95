SPECIFICATION FairSpec
CONSTANTS
  MaxOps = 2
  Replicas = {r1, r2}
  Requests = {"deploy", "stop", "delete"}
  NumCharts = 2
  MaxConcurrent = 1
  Gates = {"readiness", "blocking"}
  Windows = {}
  Faults = {"crash", "shutdown", "slow"}
INVARIANTS
  InProgressHasLog
PROPERTIES
  RecoveryEndsOnlyDead
  EveryLogEnds
CHECK_DEADLOCK FALSE
