SPECIFICATION FairSpec
CONSTANTS
  l1 = l1
  l2 = l2
  r1 = r1
  NoLease = NoLease
  Leases <- MCLeaseFiles
  Readers <- MCReaders
INVARIANTS
  LiveLeaseKept
PROPERTIES
  SeesRunning
  GhostsGo
CHECK_DEADLOCK FALSE
