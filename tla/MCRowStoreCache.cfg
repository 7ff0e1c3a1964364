CONSTANTS
  Threads = {t1, t2}
  NoOne = NoOne
  Foreign = Foreign
  Layer = Layer
  RowCount = 3
  SetCount = 1
  Ways = 2
  LockCount = 1
  Shards <- MCShards
SPECIFICATION FairSpec
INVARIANTS
  ServedRight
  CacheCoherent
PROPERTIES
  FetchCompletes
CHECK_DEADLOCK FALSE
