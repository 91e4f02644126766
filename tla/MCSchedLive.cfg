\* Three slots and pids up to 3 on one processor: interleavings come from the
\* timer, and every wait for ptable.lock is a wait for another process.
CONSTANTS
  NPROC = 3
  CPUs = {c1}
  MaxPid = 3
  Variants <- Sound
SPECIFICATION FairSpec
PROPERTIES ReadyIsFairFifo OrphansReaped KilledExits
