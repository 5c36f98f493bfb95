SPECIFICATION Spec
CONSTANTS
  MaxOps = 3
  Replicas = {r1}
  Requests = {"deploy", "stop"}
  NumCharts = 1
  MaxConcurrent = 2
  Gates = {}
  Windows = {"deploy", "stop", "final"}
  Faults = {}
SYMMETRY Symmetry
INVARIANTS
  StopUninstallsAlone
CHECK_DEADLOCK FALSE
