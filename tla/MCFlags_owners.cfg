CONSTANTS
  f1 = f1
  f2 = f2
  f3 = f3
  Ids = {f1, f2, f3}
  Says <- Subjects
  Filings <- PassedOn
  Owner <- Owners
  Polls <- Desks
  Vocabulary = {"curation", "thematic"}
  Verdicts = {"dismiss", "critical"}
  Mute = {f1}
  STALE_AFTER = 2
  MaxPending = 2
  MaxFailures = 0
  MaxClears = 1
  None = None
SPECIFICATION FairFlagSpec
PROPERTY OwnersCome
CHECK_DEADLOCK FALSE
