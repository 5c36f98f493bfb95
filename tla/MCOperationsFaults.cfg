SPECIFICATION Spec
CONSTANTS
  MaxOps = 2
  Replicas = {r1, r2}
  Requests = {"deploy", "rollback", "stop"}
  NumCharts = 1
  MaxConcurrent = 1
  Gates = {"readiness", "blocking"}
  Windows = {}
  Faults = {"stale", "slow", "read", "write", "reap"}
SYMMETRY Symmetry
INVARIANTS
  SlotsMatchHolders
PROPERTIES
  ClosedLogStays
CHECK_DEADLOCK FALSE
