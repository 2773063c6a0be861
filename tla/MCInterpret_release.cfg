SPECIFICATION Spec
CONSTANTS
  NDEBUG = TRUE
  ImageWords = 16
  PageWords = 4
  Starts <- ReleaseStarts
 
PROPERTY ImplementsIsa
CHECK_DEADLOCK FALSE
