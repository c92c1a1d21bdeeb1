\* Two requests with their grants and ends fit under MaxGeneration; a lease and
\* a frame deadline can both pass before MaxTime.
CONSTANTS
  CaptureLease = 3
  MaxFrameAge = 2
  MaxTime = 6
  MaxGeneration = 4
  None = None
SPECIFICATION Spec
INVARIANTS
  TypeOK
  ArmedOnlyWhileCapturing
  LiveOnlyFromCurrentSession
  EndedGenerationsStayDead
PROPERTIES
  TickMeetsDeadlines
  ImplementsAuthorization
