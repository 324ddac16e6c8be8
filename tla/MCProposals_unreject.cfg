CONSTANTS
  author = author
  retconner = retconner
  retcon = retcon
  chapter = chapter
  blueprint = blueprint
  outline = outline
  screen = screen
  console = console
  shell = shell
  Tier <- Tiers
  Verbs <- Decisions
  Everyone = Everyone
  Agents = {author}
  Works = {blueprint}
  Screens = {}
  Consoles = {}
  Shells = {shell}
  MaxPresses = 0
  MaxActs = 2
  MaxFaults = 0
  SetLevels = {}
SPECIFICATION Spec
INVARIANT RejectedStaysOut
CHECK_DEADLOCK FALSE
