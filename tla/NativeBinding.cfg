SPECIFICATION Spec
CONSTANTS
  a = a
  b = b
  OpId = {a, b}
  Uses <- MixedUse
  MaxOperations = 2
  IntentCapacity = 1
  LeaseTicks = 2
  MaxConnections = 1
  MaxStarts = 1
  None = None
INVARIANT BindingEndsWithCapture
CHECK_DEADLOCK FALSE
