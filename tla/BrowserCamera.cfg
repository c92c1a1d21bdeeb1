SPECIFICATION FairSpec
CONSTANTS
  rear = rear
  front = front
  Setting = {rear, front}
  LensOf <- TwoLenses
  \* The two cameras are alike: one to start with is enough.
  StartSetting = {rear}
  MaxCommands = 2
  MaxStarts = 2
  MaxChanges = 2
  MaxRequests = 2
  None = None
INVARIANTS
  TypeOK
  RevisionIdentifiesState
  SuccessMeansTried
  SetupLeavesNoCamera
PROPERTIES
  StoppedIsFinal
  CommandIsAnswered
  AbandonedSessionEnds
  PageFollowsSession
\* The session and the page really end.
CHECK_DEADLOCK FALSE
