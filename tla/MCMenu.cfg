SPECIFICATION MenuSpec
CONSTANTS
  NumBowls = 2
  NumCats = 3
  NumMice = 2
  NumLoops = 2
  NTHREADS = 3
  NLOOPS = 2
  NSLEEPERS = 2
  NWAITADDRS = 2
  LINES <- Lines
INVARIANTS
  RulesKept
  BowlsOffered
  TestsSucceed
PROPERTIES
  TestsReturn
\* A cat or mouse may be left waiting for its turn.
CHECK_DEADLOCK FALSE
