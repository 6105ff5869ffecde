SPECIFICATION Spec
CONSTANTS
  Item <- Nat
  Cmd <- MCCmd
  MaxSent = 2
INVARIANT
  NoReadStarves
PROPERTY
  KeepsPipe
CHECK_DEADLOCK FALSE
