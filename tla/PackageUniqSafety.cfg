SPECIFICATION Spec
CONSTANTS
  Range = 3
  SeqMod = 11
  First = 1
  MaxGap = 3
  MaxPacket = 12
INVARIANTS
  TypeOK
  
  

  
CHECK_DEADLOCK FALSE
