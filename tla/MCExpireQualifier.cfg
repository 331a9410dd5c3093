\* expire --qualifier on a system without faults.
SPECIFICATION Spec
CONSTANTS
  Nodes <- MCNodes
  Keys <- MCKeys
  Home <- MCHome
  Slot <- MCSlot
  Qualifier = TRUE
  Filter <- MCFilter
  Reject <- MCReject
  Faults = {}
  MaxPages = 2
  MaxRemovals = 0
  n1 = n1
  n2 = n2
INVARIANTS EveryKeyReached
CHECK_DEADLOCK FALSE
