SPECIFICATION FairSpec
CONSTANTS
  None = None
  h = h
  v = v
  Hypertables = {h}
  VanillaTables = {v}
  Partitions = {1, 2}
  PartitionOf <- MCPartitionOf
  BatchLimit = 2
  Configs <- OneConfig
  MaxStarts = 1
  MaxCommits = 1
PROPERTIES ReplicationStarts
CHECK_DEADLOCK FALSE
