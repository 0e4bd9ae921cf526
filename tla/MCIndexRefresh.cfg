SPECIFICATION FairSpec
CONSTANTS
  r1 = r1
  r2 = r2
  c1 = c1
  i1 = i1
  i2 = i2
  NoRun = NoRun
  Drain = Drain
  Other = Other
  Readers <- MCReaders
  Changes <- MCOneChange
  Runs <- MCRuns
INVARIANTS
  PassesInTurn
  NothingSwallowed
  FreshCovers
PROPERTIES
  CallsEnd
  ChangesIndexed
CHECK_DEADLOCK FALSE
