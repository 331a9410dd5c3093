\* expire --filter with an expression that does not compile.
SPECIFICATION Spec
CONSTANTS
  Nodes <- MCNodes
  Keys <- MCKeys
  Home <- MCHome
  Slot <- MCSlot
  Qualifier = FALSE
  Filter <- MCBroken
  Reject = {}
  Faults = {}
  MaxPages = 2
  MaxRemovals = 0
  n1 = n1
  n2 = n2
INVARIANTS ExpiresOnlyWanted
CHECK_DEADLOCK FALSE
