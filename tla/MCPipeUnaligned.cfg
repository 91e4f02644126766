\* Three processes on a ring of 2 bytes whose counters wrap at 4. w1 holds both
\* ends, as a process that called pipe() and has not closed one yet.
CONSTANTS
  NoProc = NoProc
  Procs = {w1, w2, r1}
  WriteHolders = {w1, w2}
  ReadHolders = {w1, r1}
  Killable = {r1}
  PIPESIZE = 3
  UintMod = 8
  Policies <- UnalignedPolicies
  Counts = {1, 3}
  MaxBytes = 9
  MaxReads = 3
SPECIFICATION Spec
PROPERTY IsByteStream
CHECK_DEADLOCK FALSE
