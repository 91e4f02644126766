\* A pool of five, in which one slot can be taken a second time, and a second
\* thread_init().
CONSTANTS
  MAX_THREADS = 5
  MaxInits = 1
SPECIFICATION FairSpec
INVARIANTS ResumesRightly LeftBelow
PROPERTY AheadRuns
CHECK_DEADLOCK FALSE
