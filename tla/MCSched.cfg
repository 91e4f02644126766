\* Four slots, two processors, pids up to 4: a family of init and three
\* generations, or a slot reused.
CONSTANTS
  NPROC = 4
  CPUs = {c1, c2}
  MaxPid = 4
  Variants <- Busy
SYMMETRY CpuSymmetry
SPECIFICATION Spec
INVARIANTS TypeOK QueueExact OneCpuEach NoMissedExit Family KilledLeavesWait
