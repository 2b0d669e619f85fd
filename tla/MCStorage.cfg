SPECIFICATION Spec
CONSTANTS
  BLK = 2  NDIRECT = 1  DBPERIDB = 2  NBLOCKS = 8  MAPBITS = 10
  ZERO = ZERO  EMUHANDLES = 0  VOLNAME = "vol"
  CLIENTS = {c1}  FILES = {f1, f2}  DATA = {1}  MAXLEN = 3  MAXIO = 2  MAXCHANGES = 3
  FAULTS <- Failures
SYMMETRY Symmetric
INVARIANTS
  BlocksAccounted
  CountsExact
  ReadsBack
  SavedSurvives
PROPERTIES
  IsFileStore
CHECK_DEADLOCK FALSE
