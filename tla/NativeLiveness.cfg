SPECIFICATION Spec
CONSTANTS
  a = a
  b = b
  OpId = {a, b}
  Uses <- AnyUse
  MaxOperations = 2
  IntentCapacity = 1
  LeaseTicks = 2
  MaxConnections = 1
  MaxStarts = 1
  None = None
PROPERTIES
  StopCompletes
  RevocationEndsCapture
\* The service really stops: after Shutdown or ForgetPeer nothing is left to do.
CHECK_DEADLOCK FALSE
