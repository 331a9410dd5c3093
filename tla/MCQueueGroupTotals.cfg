\* Group totals under the default capacity.
SPECIFICATION Spec
CONSTANTS
  Sort = "desc"
  MaxSize = 2
  Merge <- AddUp
  Hashes <- MCHashes3
  I64 <- Int64
  Samples <- MCSizes
  MaxPushes = 6
  Bits = 5
INVARIANT TotalsExact
CHECK_DEADLOCK FALSE
