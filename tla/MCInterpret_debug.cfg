SPECIFICATION Spec
CONSTANTS
  NDEBUG = FALSE
  ImageWords = 16
  PageWords = 4
  Starts <- DebugStarts
INVARIANT TypeOK
PROPERTY ImplementsIsa
CHECK_DEADLOCK FALSE
