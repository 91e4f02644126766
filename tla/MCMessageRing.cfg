\* Rings of three or four ints, messages of half an int, one, and one and a half,
\* counters that wrap after five laps.
CONSTANTS
  WORD = 2
  WRAP = 32
  Lens = {1, 2, 3, 4}
  NIDS = 4
  Variants <- Rings
SPECIFICATION Spec
INVARIANTS TypeOK UnreadIntact CopiesStayInside GetsOldest RefusedOnlyWhenFull EmptyOnlyWhenNone
