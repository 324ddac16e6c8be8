CONSTANTS
  N = 3
  Workers = {}
  Goal <- InTurn
  MaxRevisions = 2
  Room = 3
  MaxVersion = 1
  MaxSignals = 2
  MaxPending = 2
  MaxFaults = 0
  None = None
SPECIFICATION FairSpec
PROPERTY ReviseLoopEnds
CHECK_DEADLOCK FALSE
