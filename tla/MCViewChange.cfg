CONSTANTS
  v1 = v1
  v2 = v2
  v3 = v3
  v4 = v4
  Validator = {v1, v2, v3, v4}
  PrimaryOf <- Rotation
  Digest = {a, b}
  NullDigest = null
  K = 1
  L = 1
  MaxSeq = 1
  MaxView = 3
  Reached = {v2, v3, v4}
  MaySuspect = {v2, v3, v4}
  MaxRecoveries <- NoRecovery
SPECIFICATION Spec
SYMMETRY Symmetry
INVARIANTS TypeOK NewViewKeepsCommitted OneBatchPerView CommitIsSettled CommittedIsReported
PROPERTY ImplementsLedger
CHECK_DEADLOCK FALSE
