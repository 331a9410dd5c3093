\* All ways to address a deployment, one failover, two servers that go down.
SPECIFICATION Spec
CONSTANTS
  Servers <- MCServers
  Shards <- MCShards
  ShardOf <- MCShardOf
  PagesPerScan = 2
  MaxDrops = 2
  MaxFailovers = 1
  a = a
  b = b
  c = c
  d = d
INVARIANTS TypeOK NoShardTwice PrimariesSpared EveryShardRead
PROPERTIES Ends
CHECK_DEADLOCK FALSE
