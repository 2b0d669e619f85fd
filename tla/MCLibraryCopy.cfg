SPECIFICATION Spec
CONSTANTS
  t1 = t1
  t2 = t2
  THREADS = {t1, t2}
  PAGE_SIZE = 12
  SIZES <- Sizes
  NPAGEREFS = 2
  NPAGES = 3
  REQUESTS = {4, 5, 6, 13}
  x1 = x1
  x2 = x2
  VALUES = {x1, x2}
  JUNK = JUNK
  QSIZES = {1, 2, 3}
  MAXITEMS = 4
  KEPT = 2
  BITS_PER_WORD = 3
  NBITS = {3, 4, 5}
  WIDTH = 6
  NUMS = {0, 9, 10, 31, 32, 63}
  STRS <- Strs
  FORMATS <- Formats
  BUFLENS = {0, 1, 5}
  LONG = 2
  MEMSIZE = 6
  SEPS <- Seps
  LETTERS <- Letters
  MAXSTR = 4
  TYPED <- Typed
  MAXTYPED = 6
  LINE = 5
  ADDRESSES = 6
  USERTOP = 3
  LENS = {0, 1, 2, 4}
  LAYOUTS <- Layouts
  PAGE = 4
  NUM_TLB = 2
  EXES <- Exes
  USERSTACK = 24
  STACKPAGES = 1
  MAXFAULTS = 5
  STACK = 26
  ARGLENS <- ArgLens
SYMMETRY Symmetry
INVARIANT CopyNeverPanics
CHECK_DEADLOCK FALSE
