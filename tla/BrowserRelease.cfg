SPECIFICATION Spec
CONSTANTS
  rear = rear
  front = front
  Setting = {rear, front}
  LensOf <- TwoLenses
  StartSetting = {rear}
  MaxCommands = 2
  MaxStarts = 2
  MaxChanges = 2
  MaxRequests = 2
  None = None
INVARIANTS
  CameraIsReleased
\* The session and the page really end.
CHECK_DEADLOCK FALSE
