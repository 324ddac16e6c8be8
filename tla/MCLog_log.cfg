CONSTANTS
  tui = tui
  a1 = a1
  a2 = a2
  f1 = f1
  f2 = f2
  Procs = {tui}
  Appenders = {a1, a2}
  Folders = {f1, f2}
  Home <- OneHome
  Events = {e1, x1}
  Poison = {x1}
  Attempts = 2
  BusyCommit = FALSE
  MayRebuild = TRUE
  MaxFaults = 1
  MaxFolded = 3
  Free = Free
  chapter = chapter
  character = character
  thread = thread
  Aggregates = {chapter, character, thread}
  Broken = {character}
  Flaky = {chapter}
  Unprojectable = {character}
  Workers = 2
  SkipAfter = 3
  Guarded = TRUE
  MaxSeq = 3
  MaxFailures = 1
  MaxUnsaved = 1
  Threads = {t1}
  Promises = {p1}
  Secrets = {s1}
  Themes = {m1}
  Hands <- TheHands
  Names = {c1, c2}
  FirstCast = {c1}
  Items = {"i1", "i2"}
  Dealt <- TheDeal
  Windows <- TheWindows
  Chapters = 2
  Desks <- TheDesks
  MaxPending = 2
  None = None
SPECIFICATION MCSpec
INVARIANTS ExactFold AckedIsDurable NothingLost Grounded
PROPERTIES ImplementsReadModel EverythingSettles NeverOlder AbandonedAfterBudget EveryEventSettles ObligationsRunTheirCourse
CHECK_DEADLOCK FALSE
