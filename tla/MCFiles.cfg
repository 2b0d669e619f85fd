SPECIFICATION Spec
CONSTANTS
  BLK = 2
  NDIRECT = 1
  DBPERIDB = 1
  NBLOCKS = 5
  MAPBITS = 6
  ZERO = ZERO
  EMUHANDLES = 4
  VOLNAME = "vol"
  MENU = menu
  PROCS = {p1, p2}
  MAX_FD = 4
  FDS = {0, 3}
  OPENS <- Opens1
  MAXLEN = 1
  MAXOPENS = 2
  MAXLEAKED = 1
  FAULTS <- Failures
SYMMETRY Symmetric
INVARIANTS
  
  HandlesHeld
  

  
CHECK_DEADLOCK FALSE
