SPECIFICATION Spec
CONSTANTS
  MaxOps = 3
  Replicas = {r1}
  Requests = {"deploy", "clean", "delete"}
  NumCharts = 1
  MaxConcurrent = 2
  Gates = {}
  Windows = {"clean", "delete"}
  Faults = {"write"}
SYMMETRY Symmetry
PROPERTIES
  OnlyDeletesDelete
CHECK_DEADLOCK FALSE
