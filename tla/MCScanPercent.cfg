\* The percentages of an interrupted report.
SPECIFICATION Spec
CONSTANTS
  Command = "memory"
  Decr = FALSE
  SkipMissing = FALSE
  Limit = 2
  Offset = 0
  MaxIndexSize = {}
  GroupBy = FALSE
  GroupOf <- MCNoGroups
  FilterMissing = FALSE
  Filter = {}
  Reject = {}
  Sort = "desc"
  Values <- MCSizes
  Ignore = {FALSE}
  Faults = {"interrupt"}
  MaxPages = 2
  MaxWrites = 0
  Bits = 5
  Nodes <- MCNodes
  Keys <- MCKeys
  Home <- MCHome
  Nil = Nil
  n1 = n1
  n2 = n2
INVARIANTS PartsOfWhole
CHECK_DEADLOCK FALSE
