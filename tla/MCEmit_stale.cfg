SPECIFICATION Spec
CONSTANTS
  Width = 14
  PageSize = 4096
  CodeSizes <- Lengths
INVARIANT SectionsReachTheFile
CHECK_DEADLOCK FALSE
