SPECIFICATION Spec
CONSTANTS
  Width = 14
  PageSize = 4096
  CodeSizes <- Lengths
INVARIANTS
  TypeOK
  FileComplete
  NoOverrunBelowHalf
  
  OwesTheLoader
  LoadsWhatWasEmitted
PROPERTIES
  NeverRefused
CHECK_DEADLOCK FALSE
