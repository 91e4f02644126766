CONSTANTS
  NoProc = NoProc
  Procs = {p1, p2, p3, p4}
  Variants <- QueueVariants
SPECIFICATION Spec
INVARIANT WellLinked
PROPERTY IsFifo
