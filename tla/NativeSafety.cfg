SPECIFICATION Spec
CONSTANTS
  a = a
  b = b
  OpId = {a, b}
  Uses <- MixedUse
  MaxOperations = 1
  IntentCapacity = 1
  LeaseTicks = 2
  MaxConnections = 2
  MaxStarts = 2
  None = None
INVARIANTS
  TypeOK
  NoSessionWhileOffline
  LiveIsBoundCapture
  ConsentIsForLastRequest
PROPERTIES
  OutcomesAreFinal
  OutputFailureIsSticky
\* The service really stops: after Shutdown or ForgetPeer nothing is left to do.
CHECK_DEADLOCK FALSE
