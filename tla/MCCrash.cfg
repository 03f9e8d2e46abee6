CONSTANTS
  Digest = {a,b}
  K = 1
  MaxSeq = 2
  MaxView = 2
  MaxCrashes = 1
  CrashInRewrite = TRUE
SYMMETRY Symmetry
SPECIFICATION Spec
INVARIANT CommitSurvivesCrash
CHECK_DEADLOCK FALSE
