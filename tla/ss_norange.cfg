SPECIFICATION Spec
CONSTANTS
  FileSize = 3
  RangeServer = FALSE
  MaxRetries = 2
  Max429 = 2
  MaxCalls = 1
  MaxPauses = 1
INVARIANT OkMeansWholeFile
CHECK_DEADLOCK FALSE
