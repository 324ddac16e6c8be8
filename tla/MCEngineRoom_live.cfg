CONSTANTS
  None = None
  Agents = {"author", "editor"}
  FLUSH_CHARS = 2
  MAX_SIZE = 3
  SEED_TAIL = 2
  WINDOW_CAP = 1
  Scenes <- MCScenes
SPECIFICATION LiveSpec
INVARIANTS RecorderKeepsFaith ViewIsRight WindowIsTail
PROPERTIES PlacesKept
CHECK_DEADLOCK FALSE
