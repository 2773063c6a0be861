SPECIFICATION Spec
CONSTANTS
  PageSize = 4
  Files <- FailureFiles
INVARIANT SuccessMeansLoaded
CHECK_DEADLOCK FALSE
