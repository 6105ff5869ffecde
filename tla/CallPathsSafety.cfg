SPECIFICATION Spec
CONSTANTS
  c1 = c1
  c2 = c2
  Call = {c1, c2}
  CallType <- TransitType
  Cids <- TransitCids
  Pair = {q1, q2}
  Worker = {w1, w2}
  None = None
INVARIANTS
  TypeOK
  
  
  
  OnePathFailureReported
  PathCallReportedRightly
PROPERTY KeepsTable
SYMMETRY MCSymmetry
CHECK_DEADLOCK FALSE
