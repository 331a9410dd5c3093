\* sum --decr when a pipeline fails: one key of the page is no counter, say.
SPECIFICATION Spec
CONSTANTS
  Command = "sum"
  Decr = TRUE
  SkipMissing = FALSE
  Limit = 0
  Offset = 0
  MaxIndexSize = {}
  GroupBy = FALSE
  GroupOf <- MCNoGroups
  FilterMissing = FALSE
  Filter = {}
  Reject = {}
  Sort = "desc"
  Values <- MCSizes
  Ignore = {TRUE}
  Faults = {"pipeline"}
  MaxPages = 2
  MaxWrites = 0
  Bits = 5
  Nodes <- MCNodes
  Keys <- MCKeys
  Home <- MCHome
  Nil = Nil
  n1 = n1
  n2 = n2
INVARIANTS CountedOnce
CHECK_DEADLOCK FALSE
