\* Three processes on a ring of 2 bytes whose counters wrap at 4. w1 holds both
\* ends, as a process that called pipe() and has not closed one yet.
CONSTANTS
  NoProc = NoProc
  Procs = {w1, w2, r1}
  WriteHolders = {w1, w2}
  ReadHolders = {w1, r1}
  Killable = {w1}
  PIPESIZE = 2
  UintMod = 4
  Policies <- AlignedPolicies
  Counts = {1, 3}
  MaxBytes = 6
  MaxReads = 3
SPECIFICATION Spec
INVARIANT NoLostWakeup
CHECK_DEADLOCK FALSE
