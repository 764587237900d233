SPECIFICATION FairSpec
CONSTANTS
  None = None
  h = h
  v = v
  Hypertables = {h}
  VanillaTables = {v}
  Partitions = {1, 2}
  PartitionOf <- MCPartitionOf
  BatchLimit = 2
  Configs <- MCConfigs
  MaxStarts = 2
  MaxCommits = 1
INVARIANTS RowsInKeyOrder SnapshotComplete NoRowSkipped SkipsAtMostSnapshot
PROPERTIES FreshSnapshotEnds
CHECK_DEADLOCK FALSE
