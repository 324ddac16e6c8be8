CONSTANTS
  None = None
  Unplaced = Unplaced
  c1 = c1
  c2 = c2
  c3 = c3
  c4 = c4
  c5 = c5
  mara = mara
  kes = kes
  Ids <- MCIds
  Cast = {mara, kes}
  Secrets = {"heir"}
  Topics <- MCTopics
  MaxDecided = 1
  MaxUpsets = 1
  Drafts <- MCDrafts
  Threads = {"sea"}
  Promises = {"gift"}
  Reveals = {"heir", "map", "will"}
  Windows <- MCWindows
  Arcs = {"maras"}
  ArcTypes = {"fall"}
  Tensions = {10, 50, 90}
  BATCH_SIZE = 2
  Subjects <- MCSubjects
SPECIFICATION Spec
INVARIANTS CyclesAreCaught LedgersAreRight PanelIsRight
PROPERTIES PassFilesWhatItSaw EveryChapterIsRead AdvancingClears
CHECK_DEADLOCK FALSE
