SPECIFICATION FairSpec
CONSTANTS
  metrics = metrics
  catalog = catalog
  Oids <- SparseOids
  Values = {v1, v2}
  Missing = Missing
  MaxUint = 15
INVARIANTS NoLoss OnlyReinsertedDropped InBounds CacheInv
PROPERTIES EverythingSettled ImplementsMap
