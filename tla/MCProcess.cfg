SPECIFICATION Spec
CONSTANTS
  menu = menu
  p1 = p1
  p2 = p2
  p3 = p3
  p4 = p4
  NoProc = NoProc
  NULL = NoProc
  Procs = {menu, p1, p2, p3}
  PID_MAX = 4
  ExitCodes = {0}
SYMMETRY ProcSymmetry

  
PROPERTIES
  StatusStable
\* The machine stops at a panic, or when no process can be forked.
CHECK_DEADLOCK FALSE
