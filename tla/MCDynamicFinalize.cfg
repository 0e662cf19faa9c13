SPECIFICATION MCSpec
CONSTANTS
  Topics = {t1, t2}
  Registrations <- Cases
  MaxTime = 3
  MaxRegistrations = 3
SYMMETRY Symmetry
INVARIANTS
  WassCountsTimeOnce
