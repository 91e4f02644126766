\* Two slots, for the kill() that returns with ptable.lock held. The system does
\* stop then.
CONSTANTS
  NPROC = 2
  CPUs = {c1, c2}
  MaxPid = 2
  Variants <- Leaking
SPECIFICATION FairSpec
PROPERTY ReadyIsFairFifo
CHECK_DEADLOCK FALSE
