SPECIFICATION FairSpec
CONSTANTS
  metrics = metrics
  catalog = catalog
  Stream <- MixedStream
  Relations = {metrics, catalog}
  CreatedAt = 10
  XLogPos = 5
  Mode = "window"
  WindowSize = 3
  GenCompression = TRUE
  GenDecompression = TRUE
  Faults = FALSE
  MaxStarts = 2
INVARIANTS NoLoss InOrder AcknowledgedIsDone WholeTransactions NeverFatal NothingForgotten DeliveryInv
PROPERTIES ConfirmedNeverBack EverythingSettled
