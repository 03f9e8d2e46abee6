CONSTANTS
  v1 = v1
  v2 = v2
  v3 = v3
  v4 = v4
  Validator = {v1, v2, v3, v4}
  PrimaryOf <- Rotation
  Digest = {a}
  NullDigest = null
  K = 2
  L = 1
  MaxSeq = 1
  MaxView = 2
  Reached = {v2, v3, v4}
  MaySuspect = {}
  MaxRecoveries <- TwoRecover
SPECIFICATION Spec
INVARIANTS NewViewKeepsCommitted
CHECK_DEADLOCK FALSE
