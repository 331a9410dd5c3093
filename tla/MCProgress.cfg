\* Two bars under a refresh delay; pages, sleeps and events at any time.
SPECIFICATION Spec
CONSTANTS
  Nodes <- MCNodes
  Quiet = {TRUE, FALSE}
  Refresh = {2}
  Delay = {1, 2}
  Estimates <- MCEstimates
  MaxPages <- MCMaxPages
  n1 = n1
  n2 = n2
INVARIANTS TypeOK BarsKeepUp OutcomeStays
PROPERTIES OnlyEstimatesHurry HelpersEnd
CHECK_DEADLOCK FALSE
