CONSTANTS
  v1 = v1
  v2 = v2
  v3 = v3
  v4 = v4
  Validator = {v1, v2, v3, v4}
  PrimaryOf <- Rotation
  Digest = {a, b}
  NullDigest = null
  K = 2
  L = 2
  MaxSeq = 2
  MaxView = 3
  Reached = {v2, v3, v4}
  MaySuspect = {v1, v2, v3, v4}
  MaxRecoveries <- NoRecovery
SPECIFICATION Spec
SYMMETRY Symmetry
INVARIANTS NewViewKeepsNullRequests
CONSTRAINT FirstIsLost
CHECK_DEADLOCK FALSE
