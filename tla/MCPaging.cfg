SPECIFICATION Spec
CONSTANTS
  p1 = p1
  p2 = p2
  p3 = p3
  text = text
  heap = heap
  None = None
  NULL = None
  Procs = {p1, p2}
  Pages = {text, heap}
  Text = {text}
  total_pages = 2
  SWAP_MAX = 2
  KernelMax = 1
SYMMETRY ProcSymmetry
INVARIANTS
  StillMissing
  FramesOfLive
  LockOrder

  
\* The machine stops at a panic.
CHECK_DEADLOCK FALSE
