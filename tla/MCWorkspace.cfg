SPECIFICATION Spec
CONSTANTS
  a = a
  a2 = a2
  e1 = e1
  e2 = e2
  g = g
  h1 = h1
  h2 = h2
  h3 = h3
  k = k
  k1 = k1
  k2 = k2
  k3 = k3
  k4 = k4
  l = l
  m = m
  n0 = n0
  n1 = n1
  n2 = n2
  n3 = n3
  o1 = o1
  o2 = o2
  o3 = o3
  p1 = p1
  p2 = p2
  r = r
  s1 = s1
  s2 = s2
  s3 = s3
  s4 = s4
  s5 = s5
  u = u
  v = v
  w = w
  x = x
  y = y
  z = z
  Paths <- MCPaths
  IsNote <- MCIsNote
  InitiativeOf <- MCInitiativeOf
  RefOf <- MCRefOf
  NoteTags = {g}
  StartTexts <- MCTexts
  Batch = 2
  MaxEdits = 2
  NoProc = NoProc
  NoId = NoId
  NoValue = NoValue
  Procs = {p1, p2}
  Slugs = {a, a2}
  Ids = {k1, k2, k3, k4}
  Tags = {g, x}
  Lines = {l}
  DepOf <- MCDepOf
  StartTasks <- MCTasks
  Edits <- MCEdits
  Plans <- MCPlans
  MaxCalls = 3
  MaxFaults = 1
  NoTarget = NoTarget
  NoWorker = NoWorker
  NoFacet = NoFacet
  Starts <- MCStarts
  Opens <- MCOpens
  Later <- MCLater
  Repos = {r}
  BulkLimit = 2
  LiveLimit = 4
  GitLanes = 2
  HitsTotal = 5
  HitsPerLoop = 2
  CharsTotal = 6
  NotesLimit = 2
  ForeignCap = 1
  WorktreeLimit = 2
  TopN = 1
  RollupLines = 2
  MaxMishaps = 2
  MaxChanges = 2
SYMMETRY MCSymmetry
INVARIANTS
  Converged
  EdgesAcyclic
  PlanLands
  LiveTruthful
  LoopsHonest
  LimitsHonest
CHECK_DEADLOCK FALSE
