\* ttl --skip-missing --sort asc --limit 1 --offset 1: every error there can be, a queue that overflows.
SPECIFICATION LiveSpec
CONSTANTS
  Command = "ttl"
  Decr = FALSE
  SkipMissing = TRUE
  Limit = 1
  Offset = 1
  MaxIndexSize = {}
  GroupBy = FALSE
  GroupOf <- MCNoGroups
  FilterMissing = FALSE
  Filter = {}
  Reject = {}
  Sort = "asc"
  Values <- MCTtls
  Ignore = {TRUE, FALSE}
  Faults = {"scan", "pipeline"}
  MaxPages = 2
  MaxWrites = 1
  Bits = 5
  Nodes <- MCNodes
  Keys <- MCKeys
  Home <- MCHome
  Nil = Nil
  n1 = n1
  n2 = n2
INVARIANTS NothingForgotten RowsAreThePage RowsTellTheTruth
PROPERTIES AlwaysReports
CHECK_DEADLOCK FALSE
