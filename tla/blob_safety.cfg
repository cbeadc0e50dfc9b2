SPECIFICATION Spec
CONSTANTS
  Tasks = {t1, t2, t3}
  Chunks = 2
  MaxFiles = 5
  MaxMishaps = 2
SYMMETRY TaskSymmetry
INVARIANTS TypeOK WholeUnlessRaced WholeWhenSettled OnDiskUndisturbed
CHECK_DEADLOCK FALSE
