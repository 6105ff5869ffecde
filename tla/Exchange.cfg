SPECIFICATION FairSpec
CONSTANTS
  s1 = s1
  s2 = s2
  c1 = c1
  c2 = c2
  c3 = c3
  p1 = p1
  Sip = {s1, s2}
  Conn = {c1, c2, c3}
  ConnOf <- MCConnOf
  Task = {1, 2, 3, 4, 5, 6, 7}
  Script <- MCScript
  Pair = {p1}
  NBuf = 5
  Worker = {w1, w2}
  HeapWord = {0, 9}
  None = None
INVARIANTS
  TypeOK
  RequestBufferInOnePlace
  AnsweredOnce
  
PROPERTY
  RecordFollowsConnection
CHECK_DEADLOCK FALSE
