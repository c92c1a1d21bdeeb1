SPECIFICATION Spec
CONSTANTS
  rear = rear
  front = front
  com1 = com1
  com2 = com2
  Supported <- RearThenFront
  Info <- CanDo
  Command = {com1, com2}
  Requests <- SomeControls
  MaxRecords = 1
  None = None
SYMMETRY Symmetry
INVARIANTS
  TypeOK
  PublishedIsReleased
  KnowsTheCamera
  NoControlIsLost
PROPERTIES
  NothingFollowsTheTerminal
  OnlyWhatWasAskedIsDone
\* A capture ends once.
CHECK_DEADLOCK FALSE
