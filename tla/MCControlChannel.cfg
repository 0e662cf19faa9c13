SPECIFICATION Spec
CONSTANTS
  Ends = {e1}
  Threads = {t1, t2, t3}
  SnMax = 3
  MaxSessions = 3
  MaxCounter = 5
SYMMETRY Symmetry
INVARIANTS
  TypeOK
  IvUsedOnce
