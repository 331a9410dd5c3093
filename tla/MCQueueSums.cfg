\* sum --sort desc over values of both signs, whose sums wrap around.
SPECIFICATION Spec
CONSTANTS
  Sort = "desc"
  MaxSize = 2
  Merge <- AddUp
  Hashes <- MCHashes3
  I64 <- Int64
  Samples <- MCSigned
  MaxPushes = 6
  Bits = 3
INVARIANTS QueueLinked ExactUnlessLost
PROPERTIES LoopComputesIntoVec RefinesTopN
CHECK_DEADLOCK FALSE
