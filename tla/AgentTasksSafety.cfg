SPECIFICATION Spec
CONSTANTS
  g1 = g1
  g2 = g2
  x1 = x1
  x2 = x2
  Task = {t1, t2}
  Notifier = {n1}
  Manager = m
  Group = {g1}
  KeyGroup = g1
  Cnn = {x1}
  GroupOf <- OneOnly
  MAX_CON_FAILED_TIME = 1
  None = None
INVARIANTS
  TypeOK
  NotifiedOnce
  TaskInOnePlace
  WaitInOrder
  ConnectionsLead
SYMMETRY MCSymmetry
CHECK_DEADLOCK FALSE
