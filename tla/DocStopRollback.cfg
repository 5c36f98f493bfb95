SPECIFICATION Spec
CONSTANTS
  MaxOps = 2
  Replicas = {r1, r2}
  Requests = {"rollback", "stop"}
  NumCharts = 1
  MaxConcurrent = 1
  Gates = {}
  Windows = {}
  Faults = {"slow"}
SYMMETRY Symmetry
INVARIANTS
  NothingLeftBehind
CHECK_DEADLOCK FALSE
