SPECIFICATION Spec
CONSTANTS
  t1 = t1
  t2 = t2
  m1 = m1
  m2 = m2
  a = a
  z = z
  l = l
  p1 = p1
  p2 = p2
  h = h
  x = x
  y = y
  Order <- MCOrder
  Miners <- MCMiners
  Options <- MCOptions
  Results = TRUE
  MaxLines = 2
  MaxGen = 1
  MaxChanges = 0
  MaxPending = 1
  MaxPasses = 0
  Slugs <- MCSlugs
  Archived = {z}
  Labels = {l}
  Covered = {a}
  Dead = {a}
  Misfiled = {"retrack", "relocate"}
  Versions = {0, 1, 2, 3, 4}
  Commands = {"setup", "migrate"}
  MaxKills = 2
  Peers <- MCPeers
  Human = h
  Repos <- MCRepos
  Parsed = {a, z}
  Cwds <- MCCwds
  Payloads <- MCPayloads
  MaxHookKills = 1
INVARIANTS
  StampMeansMigrated
CHECK_DEADLOCK FALSE
