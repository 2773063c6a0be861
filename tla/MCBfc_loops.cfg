SPECIFICATION Spec
CONSTANTS
  Width = 8
  Sources <- Looping
  NDEBUG = FALSE
  ImageWords = 56
  PageWords = 4
  Cells = 12
  Executed <- Looping
PROPERTIES
  LoopsJumpAsSaid
CHECK_DEADLOCK FALSE
