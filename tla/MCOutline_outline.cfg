CONSTANTS
  b1 = b1
  b2 = b2
  a1 = a1
  a2 = a2
  hero = hero
  Blueprints = {b1, b2}
  Slots = {1, 2}
  Targets = {3, 4}
  Length <- Lengths
  Cast = {hero}
  Arcs = {a1, a2}
  MaxBriefs = 2
  MaxChapters = 2
  MaxPending = 2
  MaxFaults = 1
  Desks <- Meetings
  None = None
SPECIFICATION FairSpec
INVARIANTS OneOutline
PROPERTIES OutlineRunsItsCourse StaleBriefsAreReaped
CHECK_DEADLOCK FALSE
