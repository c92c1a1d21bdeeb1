\* A camera that opens after the streamer was stopped is published.
SPECIFICATION Spec
CONSTANTS
  rear = rear
  front = front
  com1 = com1
  com2 = com2
  Supported <- RearThenFront
  Info <- CanDo
  Command = {com1, com2}
  Requests <- SomeControls
  MaxRecords = 1
  None = None
PROPERTY
  StoppedPublishesNothing
CHECK_DEADLOCK FALSE
