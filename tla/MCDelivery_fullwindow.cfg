SPECIFICATION FairSpec
CONSTANTS
  metrics = metrics
  catalog = catalog
  Stream <- LongStream
  Relations = {metrics, catalog}
  CreatedAt = 10
  XLogPos = 5
  Mode = "window"
  WindowSize = 2
  GenCompression = TRUE
  GenDecompression = TRUE
  Faults = FALSE
  MaxStarts = 2
PROPERTIES FullWindowStarts
