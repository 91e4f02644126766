----------------------------- MODULE AddressSpace -----------------------------
(* Physical memory and address spaces of assignment 7 (<student>/assignment7/  *)
(* vm.c, with growproc, fork, exit and wait of proc.c): page frames, the page  *)
(* tables that refer to them, and the pages several processes map to share a   *)
(* ring buffer. kalloc() and kfree() are atomic under kmem.lock; everything    *)
(* else here runs without a lock on any processor, so the steps of two         *)
(* processes interleave between any two allocations.                           *)
(*                                                                             *)
(* Virtual pages 0 .. HEAP-1 are the program's; the region above them is where *)
(* the shared pages go. A directory entry covers PerTable pages of the heap or *)
(* the whole region. Sizes count half pages, so that rounding matters.         *)
EXTENDS Integers, Sequences, FiniteSets

CONSTANTS
  NPROC,     \* processes
  NFRAMES,   \* page frames that kalloc() hands out
  HEAP,      \* bound: pages a program may have
  Sizes,     \* bound: sizes it asks growproc() for, in half pages
  PerTable,  \* pages under one directory entry (1024 in the code)
  NSHARED,   \* shared pages (8 in the code, 32 in liuz's)
  Variants   \* behaviours of the vm.c under study, see SpaceVariants

Procs == 1 .. NPROC
Frames == 1 .. NFRAMES
InitProc == 1

None == -1       \* not present
PageZero == 0    \* physical page 0: what an unset entry of shared_addrs means
NoMemory == -2   \* V2P(0): beyond physical memory

ASSUME SizeAssumption ==
  /\ NPROC \in Nat \ {0} /\ NSHARED \in Nat \ {0}
  /\ HEAP \in Nat \ {0} /\ Sizes \subseteq 0 .. 2 * HEAP /\ PerTable \in Nat \ {0}
ASSUME BootAssumption == NFRAMES \in Nat /\ NFRAMES >= 5

(* guard: a process that has the region mapped is refused. first: how the call *)
(* finds that the pages are yet to be allocated: by the first address, by a    *)
(* flag set after or before the allocation, or never (fresh pages each time).  *)
(* lock: a spinlock held until the pages are allocated, or mapped. oom: what   *)
(* it does when kalloc() fails, mapFails: when mappages() does. mirror: all    *)
(* pages but the first are mapped twice. keep: freevm() leaves the region's    *)
(* frames alone. copy: what fork's copyuvm() does with the region. undo:       *)
(* setupkvm() frees what it has when it fails. remap: what mappages() does     *)
(* with a page that is present.                                                *)
Variant == [guard : BOOLEAN,
            first : {"address", "after", "before", "always", "never"},
            lock : {"none", "alloc", "map"},
            oom : {"rollback", "panic", "unchecked"},
            mapFails : {"error", "panic", "ignored"},
            mirror : BOOLEAN,
            keep : BOOLEAN,
            copy : {"none", "share", "duplicate"},
            undo : BOOLEAN,
            remap : {"panic", "error"}]
ASSUME VariantAssumption == Variants \subseteq Variant

(* What goes together in every student's vm.c: who allocates fresh pages each  *)
(* time has no lock and panics without memory; a flag set before the           *)
(* allocation is not taken back, as nothing is; fork() copies the region only  *)
(* where freevm() keeps it and first calls exclude each other and panic; who   *)
(* passes the region to children looks for failure of mappages(), and undoes   *)
(* its call for that as for want of memory.                                    *)
ASSUME KernelAssumption ==
  \A k \in Variants :
    /\ k.first = "always" => k.lock = "none" /\ k.oom = "panic" /\ k.mapFails = "panic"
    /\ k.first = "before" => k.oom # "rollback"
    /\ k.copy = "duplicate" => k.keep /\ k.oom = "panic" /\ k.lock # "none"
    /\ k.copy = "share" => k.mapFails # "ignored" /\ (k.oom = "rollback" => k.mapFails = "error")
    /\ k.undo

VARIABLES
  free,      \* kmem.freelist
  vm,        \* of each process: p->kstack, p->pgdir and what it leads to, p->sz
  pc,        \* where the process is, see PCs
  child,     \* fork()'s local np
  goal,      \* allocuvm()'s newsz
  i,         \* the loop counter of the shared pages
  pool,      \* shared_addrs, the physical addresses of the shared pages
  setup,     \* the flag that says they are allocated
  holder,    \* the process that holds the spinlock of the shared pages
  panic,     \* the message of panic(), "" while the kernel runs
  variant,   \* the vm.c under study
  leaked,    \* history: frames nobody refers to any more
  overlap,   \* history: two processes were in the first allocation at once
  spoiled    \* history: freevm() freed frames that other processes still map

vars == <<free, vm, pc, child, goal, i, pool, setup, holder, panic, variant,
          leaked, overlap, spoiled>>

PCs == {"unused", "embryo", "user", "emptied", "growing", "copydir", "copying", "copied",
        "allocating", "mapping", "zombie"}

(* The frame behind each page of the region, as an index of pool.              *)
Window == [w \in 1 .. (IF variant.mirror THEN 2 * NSHARED - 1 ELSE NSHARED) |->
             IF w <= NSHARED THEN w ELSE w - NSHARED + 1]
Region == {HEAP + w - 1 : w \in DOMAIN Window}
Pages == 0 .. HEAP + 2 * NSHARED - 2
SharedEntry == HEAP                      \* the directory entry of the region
Entry(v) == IF v < HEAP THEN v \div PerTable ELSE SharedEntry
Entries == {Entry(v) : v \in Pages}

Blank == [kstack |-> None, dir |-> None, ktab |-> None,
          tab |-> [e \in Entries |-> None], page |-> [v \in Pages |-> None], sz |-> 0]

RoundUp(s) == (s + 1) \div 2             \* PGROUNDUP

Mapped(p) == {v \in Pages : vm[p].page[v] # None}
HasRegion(p) == vm[p].tab[SharedEntry] # None
Lowest(S) == CHOOSE x \in S : \A y \in S : x <= y
Second(S) == Lowest(S \ {Lowest(S)})
Needs(p, v) == IF vm[p].tab[Entry(v)] = None THEN 2 ELSE 1
Stopped == panic # "" \/ spoiled

-----------------------------------------------------------------------------
(* userinit(): the first process has one page. Memory does not run out here.   *)
Init ==
  /\ vm = [p \in Procs |->
             IF p = InitProc
             THEN [Blank EXCEPT !.kstack = 1, !.dir = 2, !.ktab = 3, !.tab[0] = 5,
                                !.page[0] = 4, !.sz = 2]
             ELSE Blank]
  /\ free = Frames \ (1 .. 5)
  /\ pc = [p \in Procs |-> IF p = InitProc THEN "user" ELSE "unused"]
  /\ child = [p \in Procs |-> None]
  /\ goal = [p \in Procs |-> 0]
  /\ i = [p \in Procs |-> 0]
  /\ pool = [k \in 1 .. NSHARED |-> PageZero]
  /\ setup = FALSE
  /\ holder = None
  /\ panic = ""
  /\ variant \in Variants
  /\ leaked = {}
  /\ overlap = FALSE
  /\ spoiled = FALSE

UntouchedShare == UNCHANGED <<i, pool, setup, holder, overlap>>
Go(p, to) == pc' = [pc EXCEPT ![p] = to]

(* p's page v with frame f behind it, and a page table for it in frame t.      *)
WithPage(p, v, f, t) ==
  [vm EXCEPT ![p].page[v] = f,
             ![p].tab[Entry(v)] = IF vm[p].tab[Entry(v)] = None THEN t ELSE @]

Remap == IF variant.remap = "panic" THEN "remap" ELSE panic

-----------------------------------------------------------------------------
(* growproc(n), n > 0: allocuvm() adds a page at a time, ...                   *)
Grow(p) ==
  /\ pc[p] = "user"
  /\ \E s \in Sizes : s > vm[p].sz /\ goal' = [goal EXCEPT ![p] = s]
  /\ Go(p, "growing")
  /\ UntouchedShare
  /\ UNCHANGED <<free, vm, child, panic, variant, leaked, spoiled>>

PartlyUsed(p) == vm[p].sz \div 2        \* mutant: PGROUNDDOWN(oldsz)
FirstNew(p) == RoundUp(vm[p].sz)
ToAdd(p) == (FirstNew(p) .. RoundUp(goal[p]) - 1) \ {v \in Mapped(p) : v >= RoundUp(vm[p].sz)}

GrowPage(p) ==
  /\ pc[p] = "growing" /\ ToAdd(p) # {}
  /\ LET v == Lowest(ToAdd(p))
     IN /\ Cardinality(free) >= Needs(p, v)
        /\ IF v \in Mapped(p)
           THEN panic' = Remap /\ UNCHANGED <<free, vm>>
           ELSE /\ vm' = WithPage(p, v, Lowest(free), Second(free))
                /\ free' = free \ ({Lowest(free)} \cup IF Needs(p, v) = 2 THEN {Second(free)} ELSE {})
                /\ UNCHANGED panic
  /\ UntouchedShare
  /\ UNCHANGED <<pc, child, goal, variant, leaked, spoiled>>

GrowDone(p) ==
  /\ pc[p] = "growing" /\ ToAdd(p) = {}
  /\ vm' = [vm EXCEPT ![p].sz = goal[p]]
  /\ goal' = [goal EXCEPT ![p] = 0]
  /\ Go(p, "user")
  /\ UntouchedShare
  /\ UNCHANGED <<free, child, panic, variant, leaked, spoiled>>

(* deallocuvm(): pages S of p are freed and no longer present.                 *)
Unmap(p, S) == [v \in Pages |-> IF v \in S THEN None ELSE vm[p].page[v]]
FramesOf(p, S) == {vm[p].page[v] : v \in S} \ {None}
HeapFrom(p, n) == {v \in Mapped(p) : n <= v /\ v < HEAP}

(* ... and when a page or a page table cannot be had, takes the new pages back.*)
LeaveNewPages(p) == {}                   \* mutant: no deallocuvm() on the way out
NewPages(p) == HeapFrom(p, RoundUp(vm[p].sz))

GrowFail(p) ==
  /\ pc[p] = "growing" /\ ToAdd(p) # {}
  /\ Cardinality(free) < Needs(p, Lowest(ToAdd(p)))
  /\ vm' = [vm EXCEPT ![p].page = Unmap(p, NewPages(p))]
  /\ free' = free \cup FramesOf(p, NewPages(p))
  /\ goal' = [goal EXCEPT ![p] = 0]
  /\ Go(p, "user")
  /\ UntouchedShare
  /\ UNCHANGED <<child, panic, variant, leaked, spoiled>>

(* growproc(n), n < 0, ...                                                     *)
Shrink(p) ==
  /\ pc[p] = "user"
  /\ \E s \in Sizes :
       /\ 0 < s /\ s < vm[p].sz
       /\ vm' = [vm EXCEPT ![p].page = Unmap(p, HeapFrom(p, RoundUp(s))), ![p].sz = s]
       /\ free' = free \cup FramesOf(p, HeapFrom(p, RoundUp(s)))
  /\ UntouchedShare
  /\ UNCHANGED <<pc, child, goal, panic, variant, leaked, spoiled>>

(* ... or sbrk(-sz): deallocuvm() frees every page and returns the new size, 0,*)
(* which growproc() takes for a failure: it returns -1 and leaves sz as it was.*)
(* The process is without the page it runs on, so that all it does is to fault,*)
(* and trap() makes it exit (external). init does not give memory back.        *)
ShrinkFail(p) ==
  /\ pc[p] = "user" /\ p # InitProc /\ 0 \in Sizes
  /\ vm' = [vm EXCEPT ![p].page = Unmap(p, HeapFrom(p, 0))]
  /\ free' = free \cup FramesOf(p, HeapFrom(p, 0))
  /\ Go(p, "emptied")
  /\ UntouchedShare
  /\ UNCHANGED <<child, goal, panic, variant, leaked, spoiled>>

-----------------------------------------------------------------------------
(* freevm() of p's address space: the frames of the pages it walks over, of    *)
(* the page tables and of the directory.                                       *)
ToKernBase(p) == Mapped(p)               \* mutant: freevm() goes up to KERNBASE
Walked(p) == {v \in Mapped(p) : v \in Region => ~variant.keep}
AnyEntry(p) == {vm[p].ktab} \cup {vm[p].tab[e] : e \in Entries}   \* mutant: PTE_P not tested
OneTable(p) == {vm[p].ktab, vm[p].tab[0]} \ {None}   \* mutant: only the first table
Tables(p) == ({vm[p].ktab} \cup {vm[p].tab[e] : e \in Entries}) \ {None}

(* Fresh pages are shared_ring's while a call is on; all other pools are for   *)
(* ever.                                                                       *)
PoolFrames ==
  IF variant.first = "always"
  THEN {pool[k] : k \in {n \in 1 .. NSHARED :
         \E q \in Procs : pc[q] = "mapping" \/ (pc[q] = "allocating" /\ n < i[q])}}
  ELSE {pool[k] : k \in 1 .. NSHARED}

(* What it skips and nobody else refers to. Only pages of the process's own    *)
(* can be lost this way: fresh ones, and copies of shared ones.                *)
OwnRegion == variant.first = "always" \/ variant.copy = "duplicate"
Forgotten(p) ==
  IF OwnRegion
  THEN FramesOf(p, Mapped(p) \ Walked(p))
         \ (PoolFrames \cup UNION {FramesOf(q, Mapped(q)) : q \in Procs \ {p}})
  ELSE {}

(* kfree() panics for what is not a frame.                                     *)
FreeVm(p) ==
  IF FramesOf(p, Walked(p)) \subseteq Frames
  THEN /\ free' = free \cup FramesOf(p, Walked(p)) \cup Tables(p)
                       \cup ({vm[p].dir, vm[p].kstack} \ {None})
       /\ leaked' = leaked \cup Forgotten(p)
       /\ spoiled' = \/ spoiled
                     \/ ~variant.keep /\ variant.first # "always" /\ HasRegion(p)
       /\ UNCHANGED panic
  ELSE panic' = "kfree" /\ UNCHANGED <<free, leaked, spoiled>>

(* fork(): allocproc() takes a kernel stack, ...                               *)
Fork(p) ==
  /\ pc[p] = "user" /\ free # {}
  /\ \E q \in Procs :
       /\ pc[q] = "unused" /\ \A r \in Procs : pc[r] = "unused" => q <= r
       /\ vm' = [vm EXCEPT ![q].kstack = Lowest(free)]
       /\ child' = [child EXCEPT ![p] = q]
       /\ pc' = [pc EXCEPT ![p] = "copydir", ![q] = "embryo"]
  /\ free' = free \ {Lowest(free)}
  /\ UntouchedShare
  /\ UNCHANGED <<goal, panic, variant, leaked, spoiled>>

(* ... copyuvm() a directory and the kernel's page tables from setupkvm(), ... *)
CopyDir(p) ==
  /\ pc[p] = "copydir" /\ Cardinality(free) >= 2
  /\ vm' = [vm EXCEPT ![child[p]].dir = Lowest(free), ![child[p]].ktab = Second(free)]
  /\ free' = free \ {Lowest(free), Second(free)}
  /\ Go(p, "copying")
  /\ UntouchedShare
  /\ UNCHANGED <<child, goal, panic, variant, leaked, spoiled>>

(* ... then a copy of each page below sz, or of each present page, ...         *)
ToCopy(p) ==
  (IF variant.copy = "duplicate" THEN Mapped(p) ELSE 0 .. RoundUp(vm[p].sz) - 1) \ Mapped(child[p])

CopyPage(p) ==
  /\ pc[p] = "copying" /\ ToCopy(p) # {}
  /\ LET v == Lowest(ToCopy(p))
     IN /\ Cardinality(free) >= Needs(child[p], v)
        /\ vm' = WithPage(child[p], v, Lowest(free), Second(free))
        /\ free' = free \ ({Lowest(free)} \cup IF Needs(child[p], v) = 2 THEN {Second(free)} ELSE {})
  /\ UntouchedShare
  /\ UNCHANGED <<pc, child, goal, panic, variant, leaked, spoiled>>

(* ... and when memory runs out everything is freed again, but for a page that *)
(* was copied and could not be mapped.                                         *)
Dropped(p) == free
ForkFail(p) ==
  /\ \/ pc[p] = "copydir" /\ Cardinality(free) < 2
     \/ pc[p] = "copying" /\ ToCopy(p) # {} /\ Cardinality(free) < Needs(child[p], Lowest(ToCopy(p)))
  /\ LET q == child[p]
     IN /\ free' = (IF pc[p] = "copydir" /\ variant.undo THEN free ELSE {})
                   \cup FramesOf(q, Walked(q)) \cup Tables(q) \cup ({vm[q].dir, vm[q].kstack} \ {None})
        /\ leaked' = leaked \cup Forgotten(q) \cup IF pc[p] = "copying" THEN Dropped(p) ELSE {}
        /\ vm' = [vm EXCEPT ![q] = Blank]
        /\ pc' = [pc EXCEPT ![p] = "user", ![q] = "unused"]
  /\ child' = [child EXCEPT ![p] = None]
  /\ UntouchedShare
  /\ UNCHANGED <<goal, panic, variant, spoiled>>

(* The child gets the region too where the student's copyuvm() says so.        *)
RegionOfChild(p) == HasRegion(child[p])  \* mutant: the test is on the new directory
RegionToCopy(p) == HasRegion(p)
AllCopied(p) == pc[p] = "copying" /\ ToCopy(p) = {}
PassesRegion(p) == variant.copy = "share" /\ RegionToCopy(p)

ForkDone(p) ==
  /\ pc[p] = "copied" \/ (AllCopied(p) /\ ~PassesRegion(p))
  /\ vm' = [vm EXCEPT ![child[p]].sz = vm[p].sz]
  /\ child' = [child EXCEPT ![p] = None]
  /\ pc' = [pc EXCEPT ![p] = "user", ![child[p]] = "user"]
  /\ UntouchedShare
  /\ UNCHANGED <<free, goal, panic, variant, leaked, spoiled>>

-----------------------------------------------------------------------------
(* The system call that maps the shared pages (mshared, setup_shared, ...), or *)
(* copyuvm() calling it for the child. The first one allocates the pages.      *)
Target(p) == IF child[p] = None THEN p ELSE child[p]
FirstTime ==
  CASE variant.first = "address" -> pool[1] = PageZero
    [] variant.first = "always"  -> TRUE
    [] OTHER                     -> ~setup

(* Pages allocated anew each time are written and read in two loops, and both  *)
(* are exposed to a second caller.                                             *)
Exposed(q) == pc[q] = "allocating" \/ (pc[q] = "mapping" /\ variant.first = "always")

LockIgnored == TRUE                      \* mutant: the spinlock is not there
LockFree == variant.lock = "none" \/ holder = None

Attach(p) ==
  /\ pc[p] = "user" \/ (AllCopied(p) /\ PassesRegion(p))
  /\ variant.first # "never"
  /\ variant.guard => ~HasRegion(Target(p))
  /\ LockFree
  /\ i' = [i EXCEPT ![p] = 1]
  /\ holder' = IF variant.lock = "map" \/ (variant.lock = "alloc" /\ FirstTime) THEN p ELSE holder
  /\ setup' = (setup \/ variant.first = "before")
  /\ Go(p, IF FirstTime THEN "allocating" ELSE "mapping")
  /\ overlap' = (overlap \/ \E q \in Procs \ {p} : Exposed(q))
  /\ UNCHANGED <<free, vm, child, goal, pool, panic, variant, leaked, spoiled>>

Return(p) == Go(p, IF child[p] = None THEN "user" ELSE "copied")
Unlock(p) == holder' = IF holder = p THEN None ELSE holder

AllocShared(p) ==
  /\ pc[p] = "allocating" /\ free # {}
  /\ pool' = [pool EXCEPT ![i[p]] = Lowest(free)]
  /\ free' = free \ {Lowest(free)}
  /\ IF i[p] < NSHARED
     THEN i' = [i EXCEPT ![p] = @ + 1] /\ UNCHANGED <<pc, setup, holder>>
     ELSE /\ i' = [i EXCEPT ![p] = 1]
          /\ setup' = (setup \/ variant.first = "after")
          /\ Go(p, "mapping")
          /\ IF variant.lock = "alloc" THEN Unlock(p) ELSE UNCHANGED holder
  /\ UNCHANGED <<vm, child, goal, panic, variant, leaked, overlap, spoiled>>

(* No memory: the frames obtained so far go back and the call fails, or the    *)
(* kernel panics, or (alanhumphrey) takes the null pointer for a page.         *)
AllocSharedFail(p) ==
  /\ pc[p] = "allocating" /\ free = {}
  /\ CASE variant.oom = "rollback" /\ PageZero \in {pool[k] : k \in 1 .. i[p] - 1} ->
            panic' = "kfree" /\ UNCHANGED <<free, pool, i, pc, setup>>
       [] variant.oom = "rollback" /\ PageZero \notin {pool[k] : k \in 1 .. i[p] - 1} ->
            /\ free' = free \cup {pool[k] : k \in 1 .. i[p] - 1}
            /\ pool' = [k \in 1 .. NSHARED |-> IF k < i[p] THEN PageZero ELSE pool[k]]
            /\ i' = [i EXCEPT ![p] = 0]
            /\ Return(p)
            /\ UNCHANGED <<setup, panic>>
       [] variant.oom = "panic" ->
            panic' = "memory" /\ UNCHANGED <<free, pool, i, pc, setup>>
       [] OTHER ->
            /\ pool' = [pool EXCEPT ![i[p]] = NoMemory]
            /\ i' = [i EXCEPT ![p] = IF @ < NSHARED THEN @ + 1 ELSE 1]
            /\ setup' = (setup \/ i[p] = NSHARED)
            /\ Go(p, IF i[p] < NSHARED THEN "allocating" ELSE "mapping")
            /\ UNCHANGED <<free, panic>>
  /\ UNCHANGED <<vm, child, goal, holder, variant, leaked, overlap, spoiled>>

(* mappages() of the i-th page of the region: its first page takes a page      *)
(* table, the last one ends the call.                                          *)
Ended(p) == i[p] = Len(Window)
NextWindow(p) ==
  IF Ended(p) THEN i' = [i EXCEPT ![p] = 0] /\ Return(p) /\ Unlock(p)
              ELSE i' = [i EXCEPT ![p] = @ + 1] /\ UNCHANGED <<pc, holder>>

ByTurn(p) == pool[(i[p] % NSHARED) + 1]  \* mutant: pages in another order
PoolPage(p) == pool[Window[i[p]]]

MapShared(p) ==
  LET v == HEAP + i[p] - 1
      q == Target(p)
  IN /\ pc[p] = "mapping"
     /\ \/ v \in Mapped(q) /\ panic' = Remap /\ UNCHANGED <<free, vm, i, pc, holder>>
        \/ /\ v \notin Mapped(q) /\ Needs(q, v) = 1
           /\ vm' = WithPage(q, v, PoolPage(p), None) /\ NextWindow(p)
           /\ UNCHANGED <<free, panic>>
        \/ /\ v \notin Mapped(q) /\ Needs(q, v) = 2 /\ free # {}
           /\ vm' = WithPage(q, v, PoolPage(p), Lowest(free))
           /\ free' = free \ {Lowest(free)} /\ NextWindow(p)
           /\ UNCHANGED panic
     /\ UNCHANGED <<child, goal, pool, setup, variant, leaked, overlap, spoiled>>

(* No page table to be had: only before the first page is mapped, so that      *)
(* there is nothing to undo.                                                   *)
MapSharedFail(p) ==
  /\ pc[p] = "mapping" /\ ~HasRegion(Target(p)) /\ free = {}
  /\ CASE variant.mapFails = "panic"   -> panic' = "memory" /\ UNCHANGED <<i, pc, holder>>
       [] variant.mapFails = "error"   -> i' = [i EXCEPT ![p] = 0] /\ Return(p) /\ Unlock(p) /\ UNCHANGED panic
       [] variant.mapFails = "ignored" -> NextWindow(p) /\ UNCHANGED panic
  /\ UNCHANGED <<free, vm, child, goal, pool, setup, variant, leaked, overlap, spoiled>>

-----------------------------------------------------------------------------
Exit(p) ==
  /\ pc[p] \in {"user", "emptied"} /\ p # InitProc
  /\ Go(p, "zombie")
  /\ UntouchedShare
  /\ UNCHANGED <<free, vm, child, goal, panic, variant, leaked, spoiled>>

(* wait() in whichever process is now its parent.                              *)
Reap(q) ==
  /\ pc[q] = "zombie"
  /\ FreeVm(q)
  /\ vm' = [vm EXCEPT ![q] = Blank]
  /\ Go(q, "unused")
  /\ UntouchedShare
  /\ UNCHANGED <<child, goal, variant>>

Step(p) ==
  \/ Grow(p) \/ GrowPage(p) \/ GrowDone(p) \/ GrowFail(p) \/ Shrink(p) \/ ShrinkFail(p)
  \/ Fork(p) \/ CopyDir(p) \/ CopyPage(p) \/ ForkFail(p) \/ ForkDone(p)
  \/ Attach(p) \/ AllocShared(p) \/ AllocSharedFail(p) \/ MapShared(p) \/ MapSharedFail(p)
  \/ Exit(p) \/ Reap(p)

Next ==
  \/ ~Stopped /\ \E p \in Procs : Step(p)
  \/ Stopped /\ UNCHANGED vars

Spec == Init /\ [][Next]_vars

-----------------------------------------------------------------------------
Value == Frames \cup {None, PageZero, NoMemory}
Space == [kstack : Frames \cup {None}, dir : Frames \cup {None}, ktab : Frames \cup {None},
          tab : [Entries -> Frames \cup {None}], page : [Pages -> Value], sz : 0 .. 2 * HEAP]

TypeOK ==
  /\ free \subseteq Frames /\ leaked \subseteq Frames
  /\ vm \in [Procs -> Space]
  /\ pc \in [Procs -> PCs]
  /\ child \in [Procs -> Procs \cup {None}]
  /\ goal \in [Procs -> 0 .. 2 * HEAP]
  /\ i \in [Procs -> 0 .. 2 * NSHARED - 1]
  /\ pool \in [1 .. NSHARED -> Value]
  /\ holder \in Procs \cup {None}
  /\ setup \in BOOLEAN /\ overlap \in BOOLEAN /\ spoiled \in BOOLEAN
  /\ panic \in {"", "remap", "memory", "kfree"}
  /\ variant \in Variants

(* Where a student's code gives no promise: the first allocation has no lock   *)
(* and two processes were in it at once, or a process that shared the pages is *)
(* gone and its freevm() freed them under the others.                          *)
Broken == spoiled \/ (overlap /\ variant.lock = "none")

(* The frames a process does not share, each with the place that refers to it. *)
PrivateUses(p) ==
  {u \in {<<p, "kstack", 0, vm[p].kstack>>, <<p, "dir", 0, vm[p].dir>>, <<p, "ktab", 0, vm[p].ktab>>}
         \cup {<<p, "tab", e, vm[p].tab[e]>> : e \in Entries}
         \cup {<<p, "page", v, vm[p].page[v]>> : v \in 0 .. HEAP - 1} : u[4] # None}
Uses == UNION {PrivateUses(p) : p \in Procs}
PrivateFrames == {u[4] : u \in Uses}

SharedFrames ==
  (PoolFrames \cup UNION {FramesOf(p, Mapped(p) \cap Region) : p \in Procs}) \cap Frames

(* A page frame serves one purpose: it is free, or it is one page, page table, *)
(* directory or kernel stack of one process, or it is a shared page. Several   *)
(* partial failures, forks, exits and first calls of vm.c may interleave.      *)
FrameOnce ==
  Broken \/
    /\ Cardinality(PrivateFrames) = Cardinality(Uses)
    /\ free \cap PrivateFrames = {}
    /\ free \cap SharedFrames = {}
    /\ PrivateFrames \cap SharedFrames = {}

(* No frame is lost in vm.c, but for the page copyuvm() has copied when it     *)
(* cannot map it, and the region's own pages that freevm() skips (leaked).     *)
NoLeak ==
  Broken \/ panic # "" \/
  /\ Frames = free \cup PrivateFrames \cup SharedFrames \cup leaked
  /\ leaked \cap (free \cup PrivateFrames \cup SharedFrames) = {}

(* In user mode a process has exactly the pages of its size, and all of the    *)
(* shared region or nothing of it: growproc(), fork() and the shared-page call *)
(* succeed or undo everything. Two exceptions: a growproc() asked for size 0   *)
(* fails with every page of the program gone, and its size as it was; and      *)
(* willghatch ignores failures of mappages().                                  *)
WholeSpaces ==
  \A p \in Procs : pc[p] \in {"user", "emptied"} =>
    /\ Mapped(p) \ Region = IF pc[p] = "emptied" THEN {} ELSE 0 .. RoundUp(vm[p].sz) - 1
    /\ Mapped(p) \cap Region \in {{}, Region} \/ variant.mapFails = "ignored"

(* Every process that has the region mapped sees the one set of shared pages,  *)
(* in the same order, whichever of them called first and whoever exited since. *)
(* klacansky's children get copies, and fresh pages are shared with nobody.    *)
OneSharedSet ==
  Broken \/ OwnRegion \/
    \A p \in Procs : \A w \in DOMAIN Window :
      vm[p].page[HEAP + w - 1] \in {None, pool[Window[w]]}

(* The kernel panics in vm.c only when memory has run out: no page is mapped   *)
(* twice (but for willghatch, whose call has no test) and only frames are      *)
(* handed to kfree() (but for alanhumphrey, who does not test kalloc()).       *)
PanicOnlyForMemory ==
  Broken \/
    /\ panic = "remap" => ~variant.guard
    /\ panic = "kfree" => variant.oom = "unchecked"

(* A fork that returns to a parent with shared pages has given the child its   *)
(* region, where copyuvm() promises to; alex-steele's and anthonyw's may leave *)
(* the child without any of it, since they test mshared() for < 0.             *)
ChildInherits ==
  [][\A p \in Procs :
       /\ child[p] # None /\ child'[p] = None /\ pc'[child[p]] = "user"
       /\ variant.copy = "share" /\ HasRegion(p)
       => \/ Region \subseteq Mapped(child[p])
          \/ variant.mapFails = "error" /\ Region \cap Mapped(child[p]) = {}]_vars
==============================================================================
