SPECIFICATION Spec
CONSTANTS
  PageSize = 4
  Files <- FailureFiles
INVARIANT EntrypointFollowsSegment
CHECK_DEADLOCK FALSE
