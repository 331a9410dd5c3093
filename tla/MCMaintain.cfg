\* touch, expire and its dry run, with and without --ignore.
SPECIFICATION Spec
CONSTANTS
  Nodes <- MCNodes
  Keys <- MCKeys
  Home <- MCHome
  Slot <- MCSlot
  Qualifier = FALSE
  Filter <- MCFilter
  Reject <- MCReject
  Faults = {"connect", "scan", "pipeline", "reply", "duplicates", "interrupt"}
  MaxPages = 2
  MaxRemovals = 1
  n1 = n1
  n2 = n2
INVARIANTS TypeOK OnlyWanted EveryKeyReached EveryKeyCounted TotalsAgree
CHECK_DEADLOCK FALSE
