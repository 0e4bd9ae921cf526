SPECIFICATION Spec
CONSTANTS
  p1 = p1
  p2 = p2
  tree = tree
  NoProc = NoProc
  AnyStem = AnyStem
  Procs <- MCProcs
  Commands = {"wrap", "open", "resolve", "recover", "note"}
  Wraps <- MCWraps
  LoopSids = {2, 3}
  Steps = {1}
  Titles = {1}
  Transcripts <- MCTranscripts
  Git <- MCGit
  Minute = 2
  MaxTime = 1
  MaxOps = 3
  MaxCrashes = 1
SYMMETRY MCSymmetry
INVARIANTS
  ResolutionSound
  AckedClosesHold
  FilesKept
PROPERTIES
  OnlyOpenLoopsResolved
  RecoveredOnce
CHECK_DEADLOCK FALSE
