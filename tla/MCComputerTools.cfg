SPECIFICATION MCSpec
CONSTANTS
  Bases <- MCBases
  Directories <- MCDirectories
  Links <- MCLinks
  Roots <- MCRoots
  Paths <- MCPaths
  Words = {"a"}
  MaxSize = 1
  c1 = c1
  c2 = c2
  k = k
  Calls = {c1, c2}
  Sessions = {"default", "other"}
  Suffixed = {"note.txt"}
  Suggested = "note.txt"
  Urls <- MCUrls
  AllowList = FALSE
  Commands = {k}
INVARIANTS
  SessionsMatchPages
PROPERTIES
  ConfinedToRoots
  CommandEnds
CHECK_DEADLOCK FALSE
