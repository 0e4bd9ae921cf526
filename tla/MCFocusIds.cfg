SPECIFICATION FSpec
CONSTANTS
  p1 = p1
  f1 = f1
  f2 = f2
  NoProc = NoProc
  Procs <- MCProcs
  Focusers <- OneFocuser
  Slugs <- TwoSlugs
  Pris <- MCPris
  Ranks <- MCRanks
  StartLists <- TwoOfThree
  Commands = {"add", "delete"}
  FocusCommands = {"focus"}
  MaxExisting = 1
  MaxOps = 3
  MaxCrashes = 0
PROPERTIES
  IdsNeverReissuedBeside
CHECK_DEADLOCK FALSE
