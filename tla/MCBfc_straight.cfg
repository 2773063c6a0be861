SPECIFICATION Spec
CONSTANTS
  Width = 8
  Sources <- AllSources
  NDEBUG = TRUE
  ImageWords = 56
  PageWords = 4
  Cells = 12
  Executed <- StraightLine
INVARIANTS
  TypeOK
  OpenLoopsOnStack
  
  DecodesAsMeant
  WildOnlyIf
PROPERTIES
  ImplementsBrainfuck
CHECK_DEADLOCK FALSE
