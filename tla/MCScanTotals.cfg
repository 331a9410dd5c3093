\* sum --decr --group-by --filter-missing-groups --limit 0: groups that span the nodes.
SPECIFICATION Spec
CONSTANTS
  Command = "sum"
  Decr = TRUE
  SkipMissing = FALSE
  Limit = 0
  Offset = 0
  MaxIndexSize = {}
  GroupBy = TRUE
  GroupOf <- MCGroups
  FilterMissing = TRUE
  Filter = {}
  Reject = {}
  Sort = "desc"
  Values = {1}
  Ignore = {FALSE}
  Faults = {"connect", "scan", "duplicates", "interrupt"}
  MaxPages = 2
  MaxWrites = 1
  Bits = 5
  Nodes <- MCNodes
  Keys <- MCKeys
  Home <- MCHome
  Nil = Nil
  n1 = n1
  n2 = n2
INVARIANTS TypeOK TotalAhead ExactTotals PartsOfWholeUnlessInterrupted CountedOnce
PROPERTIES InterruptReports
CHECK_DEADLOCK FALSE
