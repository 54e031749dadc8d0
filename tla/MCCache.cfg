SPECIFICATION FairSpec
CONSTANTS
  k1 = k1
  k2 = k2
  Keys = {k1, k2}
  o1 = o1
  o2 = o2
  Items <- TwoItems
  FASTCACHE_SHARDSIZE = 2
  calc_index <- TwoShards
  Sweepers = {s1}
  MaxTime = 2
  Null = Null
CHECK_DEADLOCK FALSE
INVARIANTS TypeOK FlushForgets MetricsBetween
PROPERTIES CacheImplementsMap ExpiredCulled CuratorJoined
