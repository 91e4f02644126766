\* Three processes on a table of one mutex, which is created and destroyed over
\* and over. The system stops when all have exited, or spin for each other.
CONSTANTS
  Procs = {p1, p2, p3}
  Mutexes = {0}
  Nobody = Nobody
  Table = Table
  Variants <- Kernels
SYMMETRY ProcSymmetry
SPECIFICATION Spec
INVARIANTS Exclusion NoSleepOnFree NoSpinDeadlock HeldExists
CHECK_DEADLOCK FALSE
