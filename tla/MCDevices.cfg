SPECIFICATION Spec
CONSTANTS
  NSLOTS = 5  NOBODY = NOBODY  t1 = t1  t2 = t2  THREADS = {t1, t2}
  CASES <- Cases  UNITS = {1, 2}  MAXDUDS = 1  MAXTYPED = 2
INVARIANTS
  CompletesOnce
  Served
  OutputWhole
  AttachedOnce

  
CHECK_DEADLOCK FALSE
