SPECIFICATION Spec
CONSTANTS
  CommandLines <- Lines
  Dashed <- FlagWords
  Numbers <- Values
  Files <- AllFiles
  U32 = 64
  SizeT = 256
  PageSize = 8
  None = None
INVARIANTS
  TypeOK
  RunsWhatWasAsked
  
  DataSegmentAsAsked
  InterpretsOnlyLoaded
PROPERTIES
  RunsOrExits
CHECK_DEADLOCK FALSE
