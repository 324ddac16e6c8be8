CONSTANTS
  author = author
  retconner = retconner
  retcon = retcon
  chapter = chapter
  blueprint = blueprint
  outline = outline
  screen = screen
  console = console
  shell = shell
  Tier <- Tiers
  Verbs <- Dials
  Everyone = Everyone
  Agents = {author}
  Works = {blueprint, chapter}
  Screens = {screen}
  Consoles = {}
  Shells = {shell}
  MaxPresses = 1
  MaxActs = 3
  MaxFaults = 1
  SetLevels = {2}
SPECIFICATION FairSpec
INVARIANTS DecidedOnce LogAddsUp
PROPERTIES DecisionsLeaveTheList
CHECK_DEADLOCK FALSE
