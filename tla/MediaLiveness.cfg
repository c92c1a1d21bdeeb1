SPECIFICATION FairSpec
CONSTANTS
  MaxCaptures = 1
  MaxSequence = 2
  MaxTime = 1
  QueueCapacity = 2
  PipeCapacity = 1
  FrameCapacity = 1
  BacklogLimit = 1
  StaleTicks = 2
  Neutral = Neutral
  None = None
PROPERTIES
  PictureDoesNotFreeze
  TerminalEndsCapture
\* The processes really end: after Shutdown nothing is left to do.
CHECK_DEADLOCK FALSE
