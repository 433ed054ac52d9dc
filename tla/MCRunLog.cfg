SPECIFICATION FairSpec
CONSTANTS
  Nodes <- MCNodes
  Workers = {1, 2}
  MaxRuns = 3
  MaxFailures = 1
INVARIANTS
  LogNumbered NothingSkipped DroppedToRivals
PROPERTY
  PageCatchesUp
CHECK_DEADLOCK FALSE
