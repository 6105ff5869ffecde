SPECIFICATION Spec
CONSTANTS
  SipProxy = {s1}
  User = {1, 2}
  MaxLogin = 2
  p1 = p1
  p2 = p2
  p3 = p3
  PairList <- MCPairList2
  Worker = {w1, w2}
  Container = {c1, c2}
  None = None
INVARIANTS
  PairsComeBack
