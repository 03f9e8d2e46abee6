CONSTANTS
  v1 = v1
  v2 = v2
  v3 = v3
  v4 = v4
  d1 = d1
  d2 = d2
  null = null
  Validator = {v1, v2, v3, v4}
  Correct = {v2, v3, v4}
  Byz = {v1}
  Primary = v1
  Digest = {d1, d2}
  NullDigest = null
  MaxSeq = 1
  K = 2
  L = 4
  CacheNumber = 1
  ViewChangeSeqNo = 0
  PoolResult = {"found"}
  PQCFetched = FALSE
  TimerExpires = FALSE
  Suspicion = FALSE
SYMMETRY Symmetry
SPECIFICATION Spec
INVARIANTS Agreement CommitHasPrepareQuorum ExecutedIsDurable OnePreparePerSeq ExecutedHasCommitQuorum
PROPERTY BuildsOneLedger
CHECK_DEADLOCK FALSE
