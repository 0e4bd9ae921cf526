SPECIFICATION FairSpec
CONSTANTS
  p1 = p1
  p2 = p2
  NoProc = NoProc
  Procs <- MCProcs
  Slugs <- MCSlugs
  Pris <- MCPris
  Commands = {"add", "delete", "done", "append", "reopen", "reorder", "set"}
  MaxExisting = 2
  MaxOps = 4
  MaxCrashes = 1
INVARIANTS
  NoLostEdit
PROPERTIES
  IdsNeverReissued
  ImplementsAllocator
  ReorderExact
  CommandsEnd
CHECK_DEADLOCK FALSE
