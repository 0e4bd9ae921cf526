SPECIFICATION FFairSpec
CONSTANTS
  p1 = p1
  f1 = f1
  f2 = f2
  NoProc = NoProc
  Procs <- MCProcs
  Focusers <- MCFocusers
  Slugs <- MCSlugs
  Pris <- MCPris
  Ranks <- MCRanks
  StartLists <- MCStartLists
  Commands = {"set"}
  FocusCommands = {"focus", "unfocus", "pause", "unpause", "new"}
  MaxExisting = 0
  MaxOps = 2
  MaxCrashes = 1
INVARIANTS
  NoWaitCycle
PROPERTIES
  FocusExact
  FocusCommandsEnd
CHECK_DEADLOCK FALSE
