SPECIFICATION FairSpec
CONSTANTS
  Workers = {w1, w2}
  Receiver = Receiver
  Dispatcher = Dispatcher
  None = None
  Capacity = 2
  MaxMessages = 2
  MaxRecords = 1
  MaxChunks = 2
  MaxRows = 1
INVARIANTS NoWaiterLeftBehind OnlyDispatcherRefused RowsBeforeFinish TaskInv
PROPERTIES WaitersReleased StopTerminates
CHECK_DEADLOCK FALSE
