SPECIFICATION Spec
CONSTANTS
  PageSize = 4
  Files <- AllFiles
INVARIANTS
  TypeOK
  SegmentsApart
  AlignmentHonoured
  PagesTile
  SegmentsOnTheirPages
  ImageFaithful
  ProtectedAsAsked
  ResourcesReleased
  OnlyReleasesAcquired
PROPERTIES
  KeepsContract
CHECK_DEADLOCK FALSE
