\* idle or ttl --sort asc: four keys, a capacity of two, keys that come again.
SPECIFICATION Spec
CONSTANTS
  Sort = "asc"
  MaxSize = 2
  Merge <- FirstWins
  Hashes <- MCHashes
  I64 <- Int64
  Samples <- MCTtls
  MaxPushes = 5
  Bits = 3
INVARIANTS TypeOK QueueLinked RoomIsUsed KeepsBest ExactUnlessLost
PROPERTIES LoopComputesIntoVec Drains RefinesTopN
CHECK_DEADLOCK FALSE
