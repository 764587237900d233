SPECIFICATION FairSpec
CONSTANTS
  Workers = {w1}
  Receiver = Receiver
  Dispatcher = Dispatcher
  None = None
  Capacity = 1
  MaxMessages = 1
  MaxRecords = 1
  MaxChunks = 3
  MaxRows = 1
PROPERTIES StopTerminates
CHECK_DEADLOCK FALSE
