CONSTANTS
  v1 = v1
  v2 = v2
  v3 = v3
  v4 = v4
  Validator = {v1, v2, v3, v4}
  PrimaryOf <- Rotation
  Digest = {a, b, c}
  NullDigest = null
  K = 1
  L = 1
  MaxSeq = 2
  MaxView = 2
  Reached = {v2, v3, v4}
  MaySuspect = {v2, v4}
  MaxRecoveries <- OneRecovers
SPECIFICATION Spec
SYMMETRY LaterSymmetry
INVARIANTS NewViewKeepsCommitted
PROPERTY ImplementsLedger
CONSTRAINT FirstIsStable
CHECK_DEADLOCK FALSE
