SPECIFICATION Spec
CONSTANTS
  c1 = c1
  c2 = c2
  Call = {c1}
  CallType <- TwoPathType
  Cids <- TwoPathCids
  Pair = {q1}
  Worker = {w1}
  None = None
INVARIANT AllPathsFailureReported
CHECK_DEADLOCK FALSE
