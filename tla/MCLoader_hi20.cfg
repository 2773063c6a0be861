SPECIFICATION Spec
CONSTANTS
  PageSize = 4
  Files <- RelocFiles
INVARIANT RelocatesHi20
CHECK_DEADLOCK FALSE
