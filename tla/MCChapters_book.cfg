CONSTANTS
  N = 3
  Workers = {"attributor", "summarizer", "miner", "keeper"}
  Goal <- InTurn
  MaxRevisions = 2
  Room = 3
  MaxVersion = 1
  MaxSignals = 2
  MaxPending = 2
  MaxFaults = 1
  None = None
SPECIFICATION FairSpec
INVARIANTS SegmentsFollowTheLog
PROPERTIES EveryDraftShips EveryChapterIsWorked
CHECK_DEADLOCK FALSE
