CONSTANTS
  v1 = v1
  v2 = v2
  v3 = v3
  v4 = v4
  d1 = d1
  d2 = d2
  null = null
  Validator = {v1, v2, v3, v4}
  Correct = {v1, v2, v3}
  Byz = {}
  Primary = v1
  Digest = {d1, d2}
  NullDigest = null
  MaxSeq = 2
  K = 2
  L = 2
  CacheNumber = 1
  ViewChangeSeqNo = 0
  PoolResult = {"found"}
  PQCFetched = FALSE
  TimerExpires = FALSE
  Suspicion = FALSE
SPECIFICATION FairSpec
CONSTRAINT CanonicalOrder
PROPERTIES ProposedIsExecuted
CHECK_DEADLOCK FALSE
