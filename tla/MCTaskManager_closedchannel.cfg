SPECIFICATION Spec
CONSTANTS
  Workers = {w1}
  Receiver = Receiver
  Dispatcher = Dispatcher
  None = None
  Capacity = 1
  MaxMessages = 1
  MaxRecords = 1
  MaxChunks = 1
  MaxRows = 1
INVARIANTS NoSendOnClosed
CHECK_DEADLOCK FALSE
