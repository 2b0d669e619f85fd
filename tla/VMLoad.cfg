SPECIFICATION VMSpec
CONSTANTS
  NULL = None
  Freed = Freed
  Procs = {p1, p2}
  Pages = {text, stack}
  Text = {text}
  Stack = {stack}
  total_pages = 2
  SWAP_MAX = 2
  KernelMax = 1
INVARIANT LoadNotKilled
CHECK_DEADLOCK FALSE
