SPECIFICATION Spec
CONSTANTS
  MaxOps = 3
  Replicas = {r1}
  Requests = {"deploy", "rollback", "stop", "clean", "delete", "remove"}
  NumCharts = 1
  MaxConcurrent = 2
  Gates = {"readiness", "blocking"}
  Windows = {}
  Faults = {"pods"}
SYMMETRY Symmetry
INVARIANTS
  
  NothingLeftBehind
  SettledByNewest

  
CHECK_DEADLOCK FALSE
