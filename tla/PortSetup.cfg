SPECIFICATION Spec
CONSTANTS
  MinPort = 5
  MaxPort = 12
  User = {u1, u2}
  MaxStarts = 2
  None = None
INVARIANTS
  
  NoPortTwice
  StoppedIsOff
CHECK_DEADLOCK FALSE
