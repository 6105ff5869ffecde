SPECIFICATION MediaSpec
CONSTANTS
  c1 = c1
  c2 = c2
  a1 = a1
  a2 = a2
  Call = {c1, c2}
  CallType <- MixedType
  Cids <- MixedCids
  Pair = {q1}
  None = None
  Reader = {m1, m2}
  Buf = {b1, b2, b3, b4, b5, b6}
  Addr = {a1, a2}
  RtpAddr = a1
  Stream <- Streams
  HeapWord = {0}
  SeqNum = {1}
  MaxPackets = 2
  Failing <- SecondPath
INVARIANTS
  MediaTypeOK
  BufferInOnePlace
  OneReadPerSocket
  SentTwice
  SourceWasHeard
  
SYMMETRY MCSymmetry
CHECK_DEADLOCK FALSE
