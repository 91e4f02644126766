\* Two processes of up to three pages under two directory entries, two shared
\* pages, and just the memory for both to share them with a page of their own.
\* Sizes are nothing, one that ends inside a page, and the whole heap.
CONSTANTS
  NPROC = 2
  NFRAMES = 14
  HEAP = 3
  Sizes = {0, 3, 6}
  PerTable = 2
  NSHARED = 2
  Variants <- Kernels
SPECIFICATION Spec
INVARIANTS TypeOK FrameOnce NoLeak WholeSpaces OneSharedSet PanicOnlyForMemory
PROPERTIES ChildInherits
