SPECIFICATION Spec
CONSTANTS
  MaxCaptures = 2
  MaxSequence = 3
  MaxTime = 1
  QueueCapacity = 2
  PipeCapacity = 1
  FrameCapacity = 2
  BacklogLimit = 1
  StaleTicks = 2
  Neutral = Neutral
  None = None
INVARIANTS
  TypeOK
  ResetLeavesNothing
  RecordsAreAccepted
  DaemonKnowsTheBinding
PROPERTIES
  ImplementsCamera
\* The processes really end: after Shutdown nothing is left to do.
CHECK_DEADLOCK FALSE
