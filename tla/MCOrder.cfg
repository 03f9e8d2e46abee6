CONSTANTS
  v1 = v1
  v2 = v2
  v3 = v3
  v4 = v4
  d1 = d1
  d2 = d2
  null = null
  Validator = {v1, v2, v3, v4}
  Correct = {v2}
  Byz = {v1, v3}
  Primary = v1
  Digest = {d1}
  NullDigest = null
  MaxSeq = 3
  K = 2
  L = 4
  CacheNumber = 1
  ViewChangeSeqNo = 0
  PoolResult = {"found", "missing", "error"}
  PQCFetched = TRUE
  TimerExpires = TRUE
  Suspicion = TRUE
SYMMETRY DigestSymmetry
SPECIFICATION Spec
INVARIANTS TypeOK PreparedSendsCommit CommittedIsTracked ExecutedOnceInOrder CheckpointBeforeNextBlock
CHECK_DEADLOCK FALSE
