CONSTANTS
  v1 = v1
  v2 = v2
  v3 = v3
  v4 = v4
  Validator = {v1, v2, v3, v4}
  Self = v1
  Suspect = v2
  FaultySets <- MCFaultySets
  L = 1
  MaxSeq = 3
  MaxViews = 2
SYMMETRY Symmetry
SPECIFICATION Spec
INVARIANTS TransferTargetIsCorrect StableCheckpointIsCorrect NeverStops TransferUnderWay
PROPERTY OnlyWrongBlocksAreCut
CHECK_DEADLOCK FALSE
