CONSTANTS
  Digest = {a,b}
  K = 1
  MaxSeq = 2
  MaxView = 2
  MaxCrashes = 1
  CrashInRewrite = FALSE
SYMMETRY Symmetry
SPECIFICATION Spec
INVARIANTS CommitSurvivesRestart PrepareSurvivesRestart
CHECK_DEADLOCK FALSE
