SPECIFICATION Spec
CONSTANTS
  NDEBUG = TRUE
  ImageWords = 16
  PageWords = 4
  Starts <- SraiStarts
PROPERTIES
  SraiKeepsSign
CHECK_DEADLOCK FALSE
