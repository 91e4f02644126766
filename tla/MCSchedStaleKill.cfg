\* As MCSched.cfg, for the pid of a slot that is not in use.
CONSTANTS
  NPROC = 3
  CPUs = {c1, c2}
  MaxPid = 4
  Variants <- Sound
SPECIFICATION Spec
PROPERTY BornAlive
