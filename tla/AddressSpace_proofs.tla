------------------------- MODULE AddressSpace_proofs -------------------------
(* What holds of physical memory for any number of processes, frames and       *)
(* pages, and for every vm.c that KernelAssumption allows.                     *)
EXTENDS AddressSpace, FunctionTheorems, FiniteSetTheorems, WellFoundedInduction, TLAPS

(* The inductive invariant. Of the control: a child belongs to one fork(), and *)
(* loop counters stay within their loops, ...                                  *)
Children ==
  \A p \in Procs :
    /\ child[p] # None =>
         /\ pc[p] \in {"copydir", "copying", "copied", "allocating", "mapping"}
         /\ child[p] \in Procs /\ pc[child[p]] = "embryo"
         /\ \A q \in Procs : child[q] = child[p] => q = p
    /\ pc[p] \in {"copydir", "copying", "copied"} => child[p] # None

Counter(p) ==
  /\ pc[p] = "allocating" => i[p] \in 1 .. NSHARED /\ (variant.lock # "none" => holder = p)
  /\ pc[p] = "mapping" => i[p] \in 1 .. Len(Window)
  /\ pc[p] = "growing" => vm[p].sz < goal[p]
  /\ pc[p] \in {"allocating", "mapping"} => variant.first # "never"

PoolType ==
  \A k \in 1 .. NSHARED :
    pool[k] \in Frames \cup (IF variant.oom = "unchecked" THEN {PageZero, NoMemory} ELSE {PageZero})

(* ... of one process: which pages it has in each state, where the region is   *)
(* all there or not at all, ...                                                *)
RegionNone(s) == \A v \in Region : s.page[v] = None
RegionFull(s) == \A v \in Region : s.page[v] # None
HeapIs(s, n) == \A v \in Pages \ Region : s.page[v] # None <=> v < n

Settled == {"user", "copydir", "copying", "copied", "allocating", "mapping"}
Resting == {"user", "emptied", "growing", "copydir", "copying", "copied"}

Shape(p) ==
  /\ pc[p] = "unused" => vm[p] = Blank
  /\ \A v \in Region : vm[p].page[v] # None => HasRegion(p)
  /\ \A v \in Pages \ Region : vm[p].page[v] \in Frames \cup {None}
  /\ pc[p] \in Settled => HeapIs(vm[p], RoundUp(vm[p].sz))
  /\ pc[p] = "emptied" => HeapIs(vm[p], 0)
  /\ pc[p] = "growing" => \A v \in Pages \ Region :
       /\ v < RoundUp(vm[p].sz) => vm[p].page[v] # None
       /\ vm[p].page[v] # None => v < RoundUp(goal[p])
  /\ pc[p] \in Resting \/ child[p] # None =>
       RegionNone(vm[p]) \/ RegionFull(vm[p]) \/ variant.mapFails = "ignored"

(* ... of a child: what fork() has copied so far, ...                          *)
ChildShape(p, c) ==
  /\ pc[p] = "copydir" => /\ c.dir = None /\ c.ktab = None
                          /\ \A v \in Pages : c.page[v] = None
  /\ pc[p] = "copying" => /\ \A v \in Pages \ Region : c.page[v] # None => v < RoundUp(vm[p].sz)
                          /\ IF variant.copy = "duplicate"
                             THEN \A v \in Region : c.page[v] # None => vm[p].page[v] # None
                             ELSE RegionNone(c)
  /\ pc[p] \in {"copied", "allocating", "mapping"} =>
       variant.copy = "share" /\ HeapIs(c, RoundUp(vm[p].sz))
  /\ pc[p] = "copied" => RegionFull(c) \/ (RegionNone(c) /\ variant.mapFails = "error")
  /\ pc[p] = "allocating" => RegionNone(c)

(* ... and of the call that maps the region: the pages so far are there and    *)
(* the others are not, unless the process had the region already.              *)
Virgin(p) == variant.guard \/ child[p] # None
PageAt(q, w) == vm[q].page[HEAP + w - 1]
Sharing(p) ==
  /\ pc[p] = "allocating" =>
       /\ Virgin(p) => RegionNone(vm[Target(p)])
       /\ variant.mapFails = "ignored" \/ RegionNone(vm[Target(p)]) \/ RegionFull(vm[Target(p)])
  /\ pc[p] = "mapping" =>
       /\ Virgin(p) => \A w \in DOMAIN Window : w >= i[p] => PageAt(Target(p), w) = None
       /\ variant.mapFails # "ignored" =>
            /\ \A w \in DOMAIN Window : w < i[p] => PageAt(Target(p), w) # None
            /\ \/ \A w \in DOMAIN Window : w >= i[p] => PageAt(Target(p), w) = None
               \/ i[p] = 1 /\ RegionFull(vm[Target(p)])

Local(p) ==
  Counter(p) /\ Shape(p) /\ (child[p] # None => ChildShape(p, vm[child[p]])) /\ Sharing(p)

(* Where a region's pages can be a process's own, they are frames: nobody maps *)
(* shared pages before all of them are allocated.                              *)
OwnPool ==
  OwnRegion =>
    /\ \A p \in Procs :
         /\ pc[p] = "allocating" => \A k \in 1 .. NSHARED : k < i[p] => pool[k] \in Frames
         /\ pc[p] = "mapping" => \A k \in 1 .. NSHARED : pool[k] \in Frames
    /\ (\A p \in Procs : pc[p] # "allocating") /\ ~FirstTime =>
         \A k \in 1 .. NSHARED : pool[k] \in Frames
    /\ \A p \in Procs, v \in Region : vm[p].page[v] \in Frames \cup {None}

SpaceInv == TypeOK /\ Children /\ PoolType /\ OwnPool /\ \A p \in Procs : Local(p)

-----------------------------------------------------------------------------
(* Sets of frames: the least of them, and the next.                            *)
LEMMA Least ==
  ASSUME NEW S \in SUBSET Nat, S # {}
  PROVE  Lowest(S) \in S
<1> DEFINE R == OpToRel(<, Nat)
<1>1. \A x, y \in Nat : <<x, y>> \in R <=> x < y
  BY DEF OpToRel
<1>2. IsWellFoundedOn(R, Nat)
  BY NatLessThanWellFounded
<1> HIDE DEF R
<1>3. \E x \in S : \A y \in S : ~ (<<y, x>> \in R)
  BY <1>2, WFMin
<1>4. PICK x \in S : \A y \in S : ~ (<<y, x>> \in R)
  BY <1>3
<1>5. ASSUME NEW y \in S PROVE x <= y
  <2>1. x \in Nat /\ y \in Nat
    OBVIOUS
  <2>2. ~ (y < x)
    BY <1>1, <1>4, <2>1
  <2> QED BY <2>1, <2>2
<1> QED BY <1>5 DEF Lowest

LEMMA FramesFinite ==
  ASSUME free \subseteq Frames
  PROVE  IsFiniteSet(free) /\ Cardinality(free) \in Nat /\ free \in SUBSET Nat
<1>1. IsFiniteSet(Frames)
  BY BootAssumption, FS_Interval DEF Frames
<1>2. IsFiniteSet(free)
  BY <1>1, FS_Subset
<1> QED BY <1>2, FS_CardinalityType, BootAssumption DEF Frames

LEMMA TakeOne ==
  ASSUME free \subseteq Frames, free # {}
  PROVE  Lowest(free) \in free /\ Lowest(free) \in Frames
BY FramesFinite, Least

LEMMA TakeTwo ==
  ASSUME free \subseteq Frames, Cardinality(free) >= 2
  PROVE  /\ Lowest(free) \in free /\ Lowest(free) \in Frames
         /\ Second(free) \in free /\ Second(free) \in Frames /\ Second(free) # Lowest(free)
<1>1. free # {}
  BY FS_EmptySet
<1>2. Lowest(free) \in free
  BY <1>1, TakeOne
<1>3. Cardinality(free \ {Lowest(free)}) = Cardinality(free) - 1
  BY <1>2, FramesFinite, FS_RemoveElement
<1>4. free \ {Lowest(free)} # {}
  BY <1>3, FramesFinite, FS_EmptySet
<1>5. Second(free) \in free \ {Lowest(free)}
  BY <1>4, FramesFinite, Least DEF Second
<1> QED BY <1>2, <1>5

(* Less than two frames are at most one.                                       *)
LEMMA FewerThanTwo ==
  ASSUME free \subseteq Frames, Cardinality(free) < 2
  PROVE  free = {} \/ \E f \in Frames : free = {f}
<1>1. CASE Cardinality(free) = 0
  BY <1>1, FramesFinite, FS_EmptySet
<1>2. CASE Cardinality(free) = 1
  BY <1>2, FramesFinite, FS_Singleton
<1> QED BY <1>1, <1>2, FramesFinite

LEMMA OneAtLeast ==
  ASSUME free \subseteq Frames
  PROVE  /\ Cardinality(free) >= 1 <=> free # {}
         /\ Cardinality(free) < 1 <=> free = {}
BY FramesFinite, FS_EmptySet

-----------------------------------------------------------------------------
(* The constants, the region and its window.                                   *)
LEMMA VariantFields ==
  ASSUME variant \in Variants
  PROVE  /\ variant.guard \in BOOLEAN /\ variant.mirror \in BOOLEAN /\ variant.keep \in BOOLEAN
         /\ variant.first \in {"address", "after", "before", "always", "never"}
         /\ variant.lock \in {"none", "alloc", "map"}
         /\ variant.oom \in {"rollback", "panic", "unchecked"}
         /\ variant.mapFails \in {"error", "panic", "ignored"}
         /\ variant.copy \in {"none", "share", "duplicate"}
         /\ variant.remap \in {"panic", "error"}
         /\ variant.first = "always" =>
              variant.lock = "none" /\ variant.oom = "panic" /\ variant.mapFails = "panic"
         /\ variant.first = "before" => variant.oom # "rollback"
         /\ variant.copy = "duplicate" =>
              variant.keep /\ variant.oom = "panic" /\ variant.lock # "none"
         /\ variant.copy = "share" =>
              variant.mapFails # "ignored" /\ (variant.oom = "rollback" => variant.mapFails = "error")
         /\ variant.undo
BY VariantAssumption, KernelAssumption DEF Variant

WindowLen == IF variant.mirror THEN 2 * NSHARED - 1 ELSE NSHARED

LEMMA WindowFacts ==
  ASSUME variant \in Variants
  PROVE  /\ WindowLen \in Nat \ {0} /\ WindowLen >= NSHARED /\ WindowLen <= 2 * NSHARED - 1
         /\ DOMAIN Window = 1 .. WindowLen /\ Len(Window) = WindowLen
         /\ \A w \in 1 .. WindowLen : Window[w] \in 1 .. NSHARED
         /\ \A w \in 1 .. NSHARED : Window[w] = w
<1>1. WindowLen \in Nat \ {0} /\ WindowLen >= NSHARED /\ WindowLen <= 2 * NSHARED - 1
      /\ NSHARED \in Nat \ {0}
  BY SizeAssumption, VariantFields DEF WindowLen
<1>2. Window = [w \in 1 .. WindowLen |-> IF w <= NSHARED THEN w ELSE w - NSHARED + 1]
  BY DEF Window, WindowLen
<1>3. \A w \in 1 .. WindowLen : Window[w] \in 1 .. NSHARED
  BY <1>1, <1>2
<1>4. Window \in Seq(1 .. NSHARED)
  BY <1>1, <1>2, <1>3
<1> QED BY <1>1, <1>2, <1>3, <1>4

LEMMA PageFacts ==
  ASSUME variant \in Variants
  PROVE  /\ Region = HEAP .. HEAP + WindowLen - 1 /\ Region \subseteq Pages
         /\ Pages \subseteq Nat /\ 0 .. HEAP - 1 \subseteq Pages \ Region
         /\ \A v \in Pages \ Region : v < HEAP \/ v > HEAP
         /\ \A v \in Region : Entry(v) = SharedEntry
         /\ SharedEntry \in Entries /\ \A v \in Pages : Entry(v) \in Entries
         /\ \A w \in 1 .. WindowLen : HEAP + w - 1 \in Region
         /\ \A v \in Region : v - HEAP + 1 \in 1 .. WindowLen
<1>1. HEAP \in Nat \ {0} /\ NSHARED \in Nat \ {0}
  BY SizeAssumption
<1>2. WindowLen \in Nat \ {0} /\ WindowLen <= 2 * NSHARED - 1 /\ DOMAIN Window = 1 .. WindowLen
  BY WindowFacts
<1>3. Region = HEAP .. HEAP + WindowLen - 1
  <2>1. \A v \in HEAP .. HEAP + WindowLen - 1 : v \in Region
    <3> SUFFICES ASSUME NEW v \in HEAP .. HEAP + WindowLen - 1 PROVE v \in Region
      OBVIOUS
    <3>1. v - HEAP + 1 \in 1 .. WindowLen /\ v = HEAP + (v - HEAP + 1) - 1
      BY <1>1, <1>2
    <3> QED BY <1>2, <3>1 DEF Region
  <2>2. \A v \in Region : v \in HEAP .. HEAP + WindowLen - 1
    BY <1>1, <1>2 DEF Region
  <2> QED BY <2>1, <2>2
<1>4. Region \subseteq Pages /\ Pages \subseteq Nat /\ 0 .. HEAP - 1 \subseteq Pages \ Region
  BY <1>1, <1>2, <1>3 DEF Pages
<1>5. \A v \in Pages : Entry(v) \in Entries
  BY DEF Entries
<1>6. \A v \in Region : Entry(v) = SharedEntry
  BY <1>1, <1>2, <1>3 DEF Entry
<1>7. HEAP \in Region
  BY <1>1, <1>2, <1>3
<1> QED BY <1>1, <1>2, <1>3, <1>4, <1>5, <1>6, <1>7

-----------------------------------------------------------------------------
(* What a step leaves alone.                                                   *)
LEMMA SameVariant ==
  ASSUME variant' = variant
  PROVE  Region' = Region /\ Window' = Window /\ WindowLen' = WindowLen
<1>1. Window' = Window
  BY DEF Window
<1> QED BY <1>1 DEF Region, WindowLen

Steady(r) ==
  /\ pc'[r] = pc[r] /\ child'[r] = child[r] /\ i'[r] = i[r] /\ goal'[r] = goal[r]
  /\ vm'[r] = vm[r] /\ (child[r] # None => vm'[child[r]] = vm[child[r]])
  /\ (holder = r => holder' = r)

LEMMA SteadyKeeps ==
  ASSUME variant' = variant, NEW r \in Procs, Local(r), Steady(r)
  PROVE  Local(r)'
<1>1. Region' = Region /\ Window' = Window
  BY SameVariant
<1>2. Counter(r)'
  BY <1>1 DEF Local, Steady, Counter
<1>3. Shape(r)'
  <2>1. HasRegion(r)' = HasRegion(r)
    BY DEF Steady, HasRegion
  <2>2. RegionNone(vm[r])' = RegionNone(vm[r]) /\ RegionFull(vm[r])' = RegionFull(vm[r])
    BY <1>1 DEF RegionNone, RegionFull, Steady
  <2>3. /\ HeapIs(vm[r], RoundUp(vm[r].sz))' = HeapIs(vm[r], RoundUp(vm[r].sz))
        /\ HeapIs(vm[r], 0)' = HeapIs(vm[r], 0)
    BY <1>1 DEF HeapIs, Steady, RoundUp
  <2> QED BY <1>1, <2>1, <2>2, <2>3 DEF Shape, Local, Steady
<1>4. (child[r] # None => ChildShape(r, vm[child[r]]))'
  <2> SUFFICES ASSUME child[r] # None PROVE ChildShape(r, vm[child[r]])'
    BY DEF Steady
  <2> DEFINE c == vm[child[r]]
  <2>1. c' = c /\ vm'[r] = vm[r] /\ pc'[r] = pc[r]
    BY DEF Steady
  <2>2. RegionNone(c)' = RegionNone(c) /\ RegionFull(c)' = RegionFull(c)
    BY <1>1, <2>1 DEF RegionNone, RegionFull
  <2>3. HeapIs(c, RoundUp(vm[r].sz))' = HeapIs(c, RoundUp(vm[r].sz))
    BY <1>1, <2>1 DEF HeapIs, RoundUp
  <2>4. ChildShape(r, c)
    BY DEF Local
  <2> HIDE DEF c
  <2>5. ChildShape(r, c)'
    BY <1>1, <2>1, <2>2, <2>3, <2>4 DEF ChildShape, RoundUp
  <2> QED BY <2>5 DEF c
<1>5. Sharing(r)'
  <2>1. Target(r)' = Target(r) /\ vm'[Target(r)] = vm[Target(r)]
    BY DEF Steady, Target
  <2>2. RegionNone(vm[Target(r)])' = RegionNone(vm[Target(r)])
        /\ RegionFull(vm[Target(r)])' = RegionFull(vm[Target(r)])
    BY <1>1, <2>1 DEF RegionNone, RegionFull
  <2>3. Virgin(r)' = Virgin(r)
    BY DEF Virgin, Steady
  <2>4. \A w : PageAt(Target(r), w)' = PageAt(Target(r), w)
    BY <2>1 DEF PageAt
  <2> QED BY <1>1, <2>2, <2>3, <2>4 DEF Sharing, Local, Steady
<1> QED BY <1>2, <1>3, <1>4, <1>5 DEF Local

(* A step disturbs the processes D, none of which is a child of another one.   *)
LEMMA OthersKeep ==
  ASSUME SpaceInv, variant' = variant, NEW D \in SUBSET Procs,
         \A r \in Procs \ D :
           /\ pc'[r] = pc[r] /\ child'[r] = child[r] /\ i'[r] = i[r] /\ goal'[r] = goal[r]
           /\ vm'[r] = vm[r] /\ child[r] \notin D /\ (holder = r => holder' = r)
  PROVE  \A r \in Procs \ D : Local(r)'
<1> SUFFICES ASSUME NEW r \in Procs \ D PROVE Local(r)'
  OBVIOUS
<1>1. child[r] # None => child[r] \in Procs \ D
  BY DEF SpaceInv, Children
<1>2. Steady(r)
  BY <1>1 DEF Steady
<1> QED BY <1>2, SteadyKeeps DEF SpaceInv

LEMMA OthersKeepOne ==
  ASSUME SpaceInv, variant' = variant, NEW p \in Procs,
         \A r \in Procs \ {p} :
           /\ pc'[r] = pc[r] /\ child'[r] = child[r] /\ i'[r] = i[r] /\ goal'[r] = goal[r]
           /\ vm'[r] = vm[r] /\ child[r] # p /\ (holder = r => holder' = r)
  PROVE  \A r \in Procs \ {p} : Local(r)'
<1> DEFINE D == {p}
<1>1. D \in SUBSET Procs /\ \A r : r \notin D <=> r # p
  OBVIOUS
<1> HIDE DEF D
<1>2. \A r \in Procs \ D : Local(r)'
  BY <1>1, OthersKeep
<1> QED BY <1>1, <1>2

LEMMA OthersKeepTwo ==
  ASSUME SpaceInv, variant' = variant, NEW p \in Procs, NEW q \in Procs,
         \A r \in Procs \ {p, q} :
           /\ pc'[r] = pc[r] /\ child'[r] = child[r] /\ i'[r] = i[r] /\ goal'[r] = goal[r]
           /\ vm'[r] = vm[r] /\ child[r] # p /\ child[r] # q /\ (holder = r => holder' = r)
  PROVE  \A r \in Procs \ {p, q} : Local(r)'
<1> DEFINE D == {p, q}
<1>1. D \in SUBSET Procs /\ \A r : r \notin D <=> r # p /\ r # q
  OBVIOUS
<1> HIDE DEF D
<1>2. \A r \in Procs \ D : Local(r)'
  BY <1>1, OthersKeep
<1> QED BY <1>1, <1>2

LEMMA OwnPoolKeeps ==
  ASSUME SpaceInv, UNCHANGED <<variant, pool, setup>>,
         \A r \in Procs : /\ pc'[r] = "allocating" <=> pc[r] = "allocating"
                          /\ pc[r] = "allocating" => i'[r] = i[r]
                          /\ pc'[r] = "mapping" => pc[r] = "mapping",
         \A r \in Procs, v \in Region :
           vm'[r].page[v] \in Frames \cup {None} \/ vm'[r].page[v] = vm[r].page[v]
  PROVE  OwnPool'
<1>1. Region' = Region /\ OwnRegion' = OwnRegion /\ FirstTime' = FirstTime
  BY SameVariant DEF OwnRegion, FirstTime
<1>2. OwnPool
  BY DEF SpaceInv
<1> QED BY <1>1, <1>2 DEF OwnPool

(* Of a child in the making, nothing but the form of its space matters.        *)
LEMMA EmbryoLocal ==
  ASSUME NEW c \in Procs, pc'[c] = "embryo", child'[c] = None, variant' = variant,
         \A v \in Region : vm'[c].page[v] # None => vm'[c].tab[SharedEntry] # None,
         \A v \in Pages \ Region : vm'[c].page[v] \in Frames \cup {None}
  PROVE  Local(c)'
<1>1. Region' = Region
  BY SameVariant
<1>2. Counter(c)' /\ Sharing(c)'
  BY DEF Counter, Sharing
<1>3. Shape(c)'
  BY <1>1 DEF Shape, HasRegion, Settled, Resting
<1> QED BY <1>2, <1>3 DEF Local

(* An embryo is somebody's child, and nobody's parent.                         *)
LEMMA Family ==
  ASSUME SpaceInv, NEW p \in Procs
  PROVE  /\ child[p] # None => /\ child[p] \in Procs /\ child[p] # p /\ pc[child[p]] = "embryo"
                               /\ child[child[p]] = None
         /\ pc[p] # "embryo" => \A r \in Procs : child[r] # p
         /\ \A r \in Procs \ {p} : child[r] = None \/ child[r] # child[p]
BY SizeAssumption DEF SpaceInv, Children, Procs, None

-----------------------------------------------------------------------------
(* What happens to an address space, field by field.                           *)
OnlySpace(q) == vm' \in [Procs -> Space] /\ \A r \in Procs \ {q} : vm'[r] = vm[r]
SameRoots(q) == vm'[q].kstack = vm[q].kstack /\ vm'[q].dir = vm[q].dir /\ vm'[q].ktab = vm[q].ktab

LEMMA WithPageEffect ==
  ASSUME vm \in [Procs -> Space], NEW q \in Procs, NEW v \in Pages, NEW f \in Value, NEW t,
         vm[q].tab[Entry(v)] = None => t \in Frames \cup {None}, vm' = WithPage(q, v, f, t)
  PROVE  /\ OnlySpace(q) /\ SameRoots(q) /\ vm'[q].sz = vm[q].sz
         /\ vm'[q].page[v] = f /\ \A u \in Pages \ {v} : vm'[q].page[u] = vm[q].page[u]
         /\ \A e \in Entries :
              vm'[q].tab[e] = IF e = Entry(v) /\ vm[q].tab[e] = None THEN t ELSE vm[q].tab[e]
<1> DEFINE s == vm[q]
           tt == IF s.tab[Entry(v)] = None THEN t ELSE s.tab[Entry(v)]
           s2 == [s EXCEPT !.page = [s.page EXCEPT ![v] = f],
                           !.tab = [s.tab EXCEPT ![Entry(v)] = tt]]
<1>1. s \in Space /\ Entry(v) \in Entries
  BY DEF Entries
<1>2. s.page \in [Pages -> Value] /\ s.tab \in [Entries -> Frames \cup {None}]
  BY <1>1 DEF Space
<1>3. tt \in Frames \cup {None}
  BY <1>1, <1>2
<1>4. vm' = [vm EXCEPT ![q] = s2]
  BY DEF WithPage
<1>5. [s.page EXCEPT ![v] = f] \in [Pages -> Value]
      /\ [s.tab EXCEPT ![Entry(v)] = tt] \in [Entries -> Frames \cup {None}]
  BY <1>1, <1>2, <1>3
<1> HIDE DEF tt
<1>6. s2 \in Space
  BY <1>1, <1>5 DEF Space
<1>7. /\ s2.page = [s.page EXCEPT ![v] = f] /\ s2.tab = [s.tab EXCEPT ![Entry(v)] = tt]
      /\ s2.kstack = s.kstack /\ s2.dir = s.dir /\ s2.ktab = s.ktab /\ s2.sz = s.sz
  BY <1>1 DEF Space
<1> HIDE DEF s2
<1>8. vm'[q] = s2 /\ \A r \in Procs \ {q} : vm'[r] = vm[r]
  BY <1>4
<1>9. vm' \in [Procs -> Space]
  BY <1>4, <1>6
<1> QED BY <1>1, <1>2, <1>7, <1>8, <1>9 DEF OnlySpace, SameRoots, tt

Without(q, S, n) == [vm EXCEPT ![q].page = Unmap(q, S), ![q].sz = n]

LEMMA UnmapEffect ==
  ASSUME vm \in [Procs -> Space], NEW q \in Procs, NEW S, NEW n \in 0 .. 2 * HEAP,
         vm' = Without(q, S, n)
  PROVE  /\ OnlySpace(q) /\ SameRoots(q) /\ vm'[q].sz = n /\ vm'[q].tab = vm[q].tab
         /\ \A u \in Pages : vm'[q].page[u] = IF u \in S THEN None ELSE vm[q].page[u]
<1> DEFINE s == vm[q]
           s2 == [s EXCEPT !.page = Unmap(q, S), !.sz = n]
<1>1. s \in Space
  OBVIOUS
<1>2. Unmap(q, S) \in [Pages -> Value]
  BY <1>1 DEF Unmap, Space, Value
<1>3. vm' = [vm EXCEPT ![q] = s2]
  BY DEF Without
<1>4. s2 \in Space
  BY <1>1, <1>2 DEF Space
<1>5. /\ s2.page = Unmap(q, S) /\ s2.tab = s.tab
      /\ s2.kstack = s.kstack /\ s2.dir = s.dir /\ s2.ktab = s.ktab /\ s2.sz = n
  BY <1>1 DEF Space
<1> HIDE DEF s2
<1>6. vm'[q] = s2 /\ (\A r \in Procs \ {q} : vm'[r] = vm[r]) /\ vm' \in [Procs -> Space]
  BY <1>3, <1>4
<1> QED BY <1>5, <1>6 DEF OnlySpace, SameRoots, Unmap

LEMMA SizeEffect ==
  ASSUME vm \in [Procs -> Space], NEW q \in Procs, NEW n \in 0 .. 2 * HEAP,
         vm' = [vm EXCEPT ![q].sz = n]
  PROVE  /\ OnlySpace(q) /\ SameRoots(q) /\ vm'[q].sz = n
         /\ vm'[q].tab = vm[q].tab /\ vm'[q].page = vm[q].page
<1> DEFINE s == vm[q]
           s2 == [s EXCEPT !.sz = n]
<1>1. s \in Space
  OBVIOUS
<1>2. s2 \in Space /\ s2.page = s.page /\ s2.tab = s.tab /\ s2.kstack = s.kstack
      /\ s2.dir = s.dir /\ s2.ktab = s.ktab /\ s2.sz = n
  BY <1>1 DEF Space
<1>3. vm' = [vm EXCEPT ![q] = s2]
  OBVIOUS
<1> HIDE DEF s2
<1>4. vm'[q] = s2 /\ (\A r \in Procs \ {q} : vm'[r] = vm[r]) /\ vm' \in [Procs -> Space]
  BY <1>2, <1>3
<1> QED BY <1>2, <1>4 DEF OnlySpace, SameRoots

LEMMA StackEffect ==
  ASSUME vm \in [Procs -> Space], NEW q \in Procs, NEW f \in Frames,
         vm' = [vm EXCEPT ![q].kstack = f]
  PROVE  /\ OnlySpace(q) /\ vm'[q].kstack = f /\ vm'[q].dir = vm[q].dir
         /\ vm'[q].ktab = vm[q].ktab /\ vm'[q].sz = vm[q].sz
         /\ vm'[q].tab = vm[q].tab /\ vm'[q].page = vm[q].page
<1> DEFINE s == vm[q]
           s2 == [s EXCEPT !.kstack = f]
<1>1. s \in Space
  OBVIOUS
<1>2. s2 \in Space /\ s2.page = s.page /\ s2.tab = s.tab /\ s2.kstack = f
      /\ s2.dir = s.dir /\ s2.ktab = s.ktab /\ s2.sz = s.sz
  BY <1>1 DEF Space
<1>3. vm' = [vm EXCEPT ![q] = s2]
  OBVIOUS
<1> HIDE DEF s2
<1>4. vm'[q] = s2 /\ (\A r \in Procs \ {q} : vm'[r] = vm[r]) /\ vm' \in [Procs -> Space]
  BY <1>2, <1>3
<1> QED BY <1>2, <1>4 DEF OnlySpace

LEMMA DirEffect ==
  ASSUME vm \in [Procs -> Space], NEW q \in Procs, NEW f \in Frames, NEW t \in Frames,
         vm' = [vm EXCEPT ![q].dir = f, ![q].ktab = t]
  PROVE  /\ OnlySpace(q) /\ vm'[q].kstack = vm[q].kstack /\ vm'[q].dir = f
         /\ vm'[q].ktab = t /\ vm'[q].sz = vm[q].sz
         /\ vm'[q].tab = vm[q].tab /\ vm'[q].page = vm[q].page
<1> DEFINE s == vm[q]
           s2 == [s EXCEPT !.dir = f, !.ktab = t]
<1>1. s \in Space
  OBVIOUS
<1>2. s2 \in Space /\ s2.page = s.page /\ s2.tab = s.tab /\ s2.kstack = s.kstack
      /\ s2.dir = f /\ s2.ktab = t /\ s2.sz = s.sz
  BY <1>1 DEF Space
<1>3. vm' = [vm EXCEPT ![q] = s2]
  OBVIOUS
<1> HIDE DEF s2
<1>4. vm'[q] = s2 /\ (\A r \in Procs \ {q} : vm'[r] = vm[r]) /\ vm' \in [Procs -> Space]
  BY <1>2, <1>3
<1> QED BY <1>2, <1>4 DEF OnlySpace

LEMMA BlankSpace ==
  /\ Blank \in Space /\ Blank.kstack = None /\ Blank.dir = None /\ Blank.ktab = None
  /\ Blank.sz = 0 /\ \A v \in Pages : Blank.page[v] = None
  /\ \A e \in Entries : Blank.tab[e] = None
BY SizeAssumption DEF Blank, Space, Value

-----------------------------------------------------------------------------
(* Every action keeps SpaceInv: growproc(), ...                                *)
LEMMA Rounding ==
  ASSUME NEW a \in Nat, NEW b \in Nat
  PROVE  RoundUp(a) \in Nat /\ (a <= b => RoundUp(a) <= RoundUp(b))
BY DEF RoundUp

LEMMA SpaceTypes ==
  ASSUME TypeOK, NEW p \in Procs
  PROVE  /\ vm[p] \in Space /\ vm[p].sz \in 0 .. 2 * HEAP /\ vm[p].sz \in Nat
         /\ RoundUp(vm[p].sz) \in 0 .. HEAP
         /\ vm[p].page \in [Pages -> Value] /\ vm[p].tab \in [Entries -> Frames \cup {None}]
         /\ goal[p] \in Nat /\ RoundUp(goal[p]) \in 0 .. HEAP
<1>1. vm[p] \in Space /\ goal[p] \in 0 .. 2 * HEAP /\ HEAP \in Nat
  BY SizeAssumption DEF TypeOK
<1>2. /\ vm[p].sz \in 0 .. 2 * HEAP /\ vm[p].page \in [Pages -> Value]
      /\ vm[p].tab \in [Entries -> Frames \cup {None}]
  BY <1>1 DEF Space
<1> QED BY <1>1, <1>2 DEF RoundUp

LEMMA Functions ==
  ASSUME SpaceInv
  PROVE  /\ TypeOK /\ vm \in [Procs -> Space] /\ pc \in [Procs -> PCs]
         /\ child \in [Procs -> Procs \cup {None}] /\ goal \in [Procs -> 0 .. 2 * HEAP]
         /\ i \in [Procs -> 0 .. 2 * NSHARED - 1] /\ pool \in [1 .. NSHARED -> Value]
         /\ free \subseteq Frames /\ leaked \subseteq Frames /\ variant \in Variants
BY DEF SpaceInv, TypeOK

LEMMA GoTypes ==
  ASSUME SpaceInv, NEW p \in Procs
  PROVE  /\ \A to \in PCs : [pc EXCEPT ![p] = to] \in [Procs -> PCs]
         /\ [goal EXCEPT ![p] = 0] \in [Procs -> 0 .. 2 * HEAP]
<1>1. 0 \in 0 .. 2 * HEAP
  BY SizeAssumption
<1> QED BY <1>1, Functions

LEMMA PageIsNat ==
  ASSUME TypeOK, NEW v \in Pages
  PROVE  v \in Nat
BY PageFacts DEF TypeOK

LEMMA GrowKeeps ==
  ASSUME SpaceInv, NEW p \in Procs, Grow(p)
  PROVE  SpaceInv'
<1>0. PICK s \in Sizes : s > vm[p].sz /\ goal' = [goal EXCEPT ![p] = s]
  BY DEF Grow
<1>1. TypeOK'
  <2>1. goal' \in [Procs -> 0 .. 2 * HEAP]
    <3>1. s \in 0 .. 2 * HEAP
      BY SizeAssumption
    <3>2. goal \in [Procs -> 0 .. 2 * HEAP]
      BY DEF SpaceInv, TypeOK
    <3> QED BY <1>0, <3>1, <3>2
  <2>2. pc' \in [Procs -> PCs]
    BY DEF SpaceInv, TypeOK, Grow, Go, PCs
  <2> QED BY <2>1, <2>2 DEF SpaceInv, TypeOK, Grow, UntouchedShare
<1>2. child[p] = None
  BY DEF SpaceInv, Children, Grow
<1>3. Children' /\ PoolType'
  BY DEF SpaceInv, TypeOK, Children, PoolType, Grow, Go, UntouchedShare
<1>4. \A r \in Procs \ {p} : Local(r)'
  <2>1. \A r \in Procs : child[r] # p
    BY Family DEF Grow
  <2> QED BY <2>1, OthersKeep DEF SpaceInv, TypeOK, Grow, Go, UntouchedShare
<1>5. Local(p)'
  <2>1. variant' = variant /\ vm' = vm /\ pc'[p] = "growing" /\ child'[p] = None /\ pc[p] = "user"
        /\ Region' = Region /\ vm[p].sz < goal'[p]
    BY <1>0, <1>2, SameVariant, SizeAssumption, SpaceTypes DEF Grow, Go, SpaceInv, TypeOK
  <2>2. Counter(p)' /\ Sharing(p)'
    BY <2>1 DEF Counter, Sharing
  <2>3. Shape(p)
    BY DEF SpaceInv, Local
  <2>4. RoundUp(vm[p].sz) \in Nat /\ RoundUp(goal'[p]) \in Nat
        /\ RoundUp(vm[p].sz) <= RoundUp(goal'[p])
    <3>1. vm[p].sz \in Nat
      BY SpaceTypes DEF SpaceInv
    <3>2. goal'[p] = s
      BY <1>0 DEF SpaceInv, TypeOK
    <3>3. s \in Nat
      BY SizeAssumption
    <3> QED BY <2>1, <3>1, <3>2, <3>3, Rounding
  <2>5. \A v \in Pages \ Region : vm[p].page[v] # None <=> v < RoundUp(vm[p].sz)
    BY <2>1, <2>3 DEF Shape, Settled, HeapIs
  <2>6. \A v \in Pages \ Region :
       /\ v < RoundUp(vm[p].sz) => vm[p].page[v] # None
       /\ vm[p].page[v] # None => v < RoundUp(goal'[p])
    <3> SUFFICES ASSUME NEW v \in Pages \ Region
                 PROVE  /\ v < RoundUp(vm[p].sz) => vm[p].page[v] # None
                        /\ vm[p].page[v] # None => v < RoundUp(goal'[p])
      OBVIOUS
    <3>1. v \in Nat /\ (vm[p].page[v] # None <=> v < RoundUp(vm[p].sz))
      BY <2>5, PageIsNat DEF SpaceInv
    <3> QED BY <2>4, <3>1
  <2>8. HasRegion(p)' = HasRegion(p) /\ RegionNone(vm[p])' = RegionNone(vm[p])
        /\ RegionFull(vm[p])' = RegionFull(vm[p])
    BY <2>1 DEF HasRegion, RegionNone, RegionFull
  <2>9. Shape(p)'
    BY <2>1, <2>3, <2>6, <2>8 DEF Shape, Settled, Resting, RoundUp
  <2> QED BY <2>1, <2>2, <2>9 DEF Local
<1>6. OwnPool'
  BY Functions, OwnPoolKeeps DEF Grow, Go, UntouchedShare
<1> QED BY <1>1, <1>3, <1>4, <1>5, <1>6 DEF SpaceInv

LEMMA NewPage ==
  ASSUME TypeOK, NEW q \in Procs, NEW v \in Pages, Cardinality(free) >= Needs(q, v)
  PROVE  /\ Lowest(free) \in free /\ Lowest(free) \in Frames
         /\ vm[q].tab[Entry(v)] = None =>
              Second(free) \in free /\ Second(free) \in Frames /\ Second(free) # Lowest(free)
<1>1. free \subseteq Frames
  BY DEF TypeOK
<1>2. Cardinality(free) >= 1
  BY <1>1, FramesFinite DEF Needs
<1>3. vm[q].tab[Entry(v)] = None => Cardinality(free) >= 2
  BY DEF Needs
<1> QED BY <1>1, <1>2, <1>3, TakeOne, TakeTwo, OneAtLeast

LEMMA ToAddFacts ==
  ASSUME TypeOK, NEW p \in Procs, ToAdd(p) # {}
  PROVE  /\ Lowest(ToAdd(p)) \in 0 .. HEAP - 1 /\ Lowest(ToAdd(p)) \in Pages \ Region
         /\ RoundUp(vm[p].sz) <= Lowest(ToAdd(p)) /\ Lowest(ToAdd(p)) < RoundUp(goal[p])
         /\ Lowest(ToAdd(p)) \notin Mapped(p)
<1>1. /\ RoundUp(vm[p].sz) \in 0 .. HEAP /\ RoundUp(goal[p]) \in 0 .. HEAP
      /\ HEAP \in Nat
  BY SpaceTypes, SizeAssumption
<1>2. ToAdd(p) \in SUBSET Nat
  BY <1>1 DEF ToAdd, FirstNew
<1>3. Lowest(ToAdd(p)) \in ToAdd(p)
  BY <1>2, Least
<1> DEFINE v == Lowest(ToAdd(p))
<1> HIDE DEF v
<1>4. v \in RoundUp(vm[p].sz) .. RoundUp(goal[p]) - 1 /\ ~ (v \in Mapped(p) /\ v >= RoundUp(vm[p].sz))
  BY <1>3 DEF ToAdd, FirstNew, v
<1>5. v \in 0 .. HEAP - 1 /\ RoundUp(vm[p].sz) <= v /\ v < RoundUp(goal[p]) /\ v \notin Mapped(p)
  BY <1>1, <1>4
<1>6. v \in Pages \ Region
  BY <1>5, PageFacts DEF TypeOK
<1> QED BY <1>5, <1>6 DEF v

LEMMA FrameValues == Frames \subseteq Nat \ {0} /\ Frames \subseteq Value /\ None \notin Frames /\ NoMemory \notin Frames /\ PageZero \notin Frames
BY BootAssumption DEF Frames, Value, None, NoMemory, PageZero

LEMMA GrowPageKeeps ==
  ASSUME SpaceInv, NEW p \in Procs, GrowPage(p)
  PROVE  SpaceInv' /\ panic' = panic
<1> DEFINE v == Lowest(ToAdd(p))
<1>1. /\ v \in Pages \ Region /\ v \in Pages /\ RoundUp(vm[p].sz) <= v /\ v < RoundUp(goal[p])
      /\ v \notin Mapped(p) /\ v \notin Region
  BY ToAddFacts DEF SpaceInv, GrowPage
<1>2. /\ Cardinality(free) >= Needs(p, v) /\ pc[p] = "growing"
      /\ vm' = WithPage(p, v, Lowest(free), Second(free))
      /\ free' \subseteq free /\ panic' = panic
      /\ UNCHANGED <<pc, child, goal, variant, leaked, spoiled, i, pool, setup, holder, overlap>>
  BY <1>1 DEF GrowPage, UntouchedShare
<1> HIDE DEF v
<1>3. /\ Lowest(free) \in Frames
      /\ vm[p].tab[Entry(v)] = None => Second(free) \in Frames \cup {None}
  BY <1>1, <1>2, NewPage DEF SpaceInv
<1>4. /\ OnlySpace(p) /\ SameRoots(p) /\ vm'[p].sz = vm[p].sz
      /\ vm'[p].page[v] = Lowest(free) /\ \A u \in Pages \ {v} : vm'[p].page[u] = vm[p].page[u]
      /\ \A e \in Entries :
           vm'[p].tab[e] = IF e = Entry(v) /\ vm[p].tab[e] = None THEN Second(free) ELSE vm[p].tab[e]
  <2>1. vm \in [Procs -> Space] /\ Lowest(free) \in Value
    BY <1>3, FrameValues DEF SpaceInv, TypeOK
  <2> QED BY <1>1, <1>2, <1>3, <2>1, WithPageEffect
<1>5. TypeOK'
  BY <1>2, <1>4 DEF SpaceInv, TypeOK, OnlySpace
<1>6. child[p] = None
  BY <1>2 DEF SpaceInv, Children
<1>7. Children' /\ PoolType'
  BY <1>2 DEF SpaceInv, Children, PoolType
<1>8. \A r \in Procs \ {p} : Local(r)'
  <2>1. \A r \in Procs : child[r] # p
    BY <1>2, Family
  <2> QED BY <1>2, <1>4, <2>1, OthersKeep DEF OnlySpace
<1>9. Local(p)'
  <2>1. Region' = Region
    BY <1>2, SameVariant
  <2>2. Counter(p)' /\ Sharing(p)'
    BY <1>2, <1>4 DEF Counter, Sharing, SpaceInv, Local
  <2>3. Shape(p)
    BY DEF SpaceInv, Local
  <2>4. \A u \in Region : u \in Pages \ {v}
    BY <1>1, PageFacts DEF SpaceInv, TypeOK
  <2>5. RegionNone(vm[p])' = RegionNone(vm[p]) /\ RegionFull(vm[p])' = RegionFull(vm[p])
    BY <1>4, <2>1, <2>4 DEF RegionNone, RegionFull
  <2>6. HasRegion(p) => HasRegion(p)'
    BY <1>4, PageFacts DEF HasRegion, SpaceInv, TypeOK
  <2>7. \A u \in Region' : vm'[p].page[u] # None => HasRegion(p)'
    BY <1>4, <2>1, <2>3, <2>4, <2>6 DEF Shape
  <2>8. \A u \in Pages \ Region' : vm'[p].page[u] \in Frames \cup {None}
    BY <1>3, <1>4, <2>1, <2>3 DEF Shape
  <2>9. \A u \in Pages \ Region' :
       /\ u < RoundUp(vm'[p].sz) => vm'[p].page[u] # None
       /\ vm'[p].page[u] # None => u < RoundUp(goal'[p])
    BY <1>1, <1>2, <1>3, <1>4, <2>1, <2>3, FrameValues DEF Shape
  <2> QED BY <1>2, <1>6, <2>2, <2>3, <2>5, <2>7, <2>8, <2>9 DEF Local, Shape, Settled, Resting
<1>10. OwnPool'
  BY <1>1, <1>2, <1>4, PageFacts, Functions, OwnPoolKeeps DEF OnlySpace
<1> QED BY <1>2, <1>5, <1>7, <1>8, <1>9, <1>10 DEF SpaceInv

(* A process that comes back to user mode from where its region is whole.      *)
LEMMA UserLocal ==
  ASSUME SpaceInv, NEW p \in Procs, pc[p] \in Resting, pc'[p] = "user", child'[p] = None,
         variant' = variant,
         \A u \in Region : vm'[p].page[u] = vm[p].page[u],
         vm'[p].tab = vm[p].tab,
         \A u \in Pages \ Region : vm'[p].page[u] \in Frames \cup {None},
         \A u \in Pages \ Region : vm'[p].page[u] # None <=> u < RoundUp(vm'[p].sz)
  PROVE  Local(p)'
<1>1. Region' = Region
  BY SameVariant
<1>2. Counter(p)' /\ Sharing(p)'
  BY DEF Counter, Sharing
<1>3. Shape(p)
  BY DEF SpaceInv, Local
<1>4. RegionNone(vm[p])' = RegionNone(vm[p]) /\ RegionFull(vm[p])' = RegionFull(vm[p])
  BY <1>1 DEF RegionNone, RegionFull
<1>5. HeapIs(vm[p], RoundUp(vm[p].sz))'
  BY <1>1 DEF HeapIs, RoundUp
<1>6. Shape(p)'
  BY <1>1, <1>3, <1>4, <1>5 DEF Shape, HasRegion, Resting
<1> QED BY <1>2, <1>6 DEF Local

LEMMA HeapFromFacts ==
  ASSUME SpaceInv, NEW p \in Procs, NEW n \in Nat
  PROVE  /\ HeapFrom(p, n) \subseteq Pages \ Region /\ FramesOf(p, HeapFrom(p, n)) \subseteq Frames
<1>1. HeapFrom(p, n) \subseteq Pages
  BY DEF HeapFrom, Mapped
<1>2. \A v \in Region : v \notin HeapFrom(p, n)
  <2>1. Region = HEAP .. HEAP + WindowLen - 1 /\ HEAP \in Nat
    BY SizeAssumption, PageFacts, Functions
  <2> QED BY <2>1 DEF HeapFrom
<1>3. \A v \in Pages \ Region : vm[p].page[v] \in Frames \cup {None}
  BY DEF SpaceInv, Local, Shape
<1> QED BY <1>1, <1>2, <1>3 DEF FramesOf

LEMMA GrowDoneKeeps ==
  ASSUME SpaceInv, NEW p \in Procs, GrowDone(p)
  PROVE  SpaceInv'
<1>1. /\ pc[p] = "growing" /\ pc' = [pc EXCEPT ![p] = "user"] /\ ToAdd(p) = {}
      /\ vm' = [vm EXCEPT ![p].sz = goal[p]] /\ goal' = [goal EXCEPT ![p] = 0]
      /\ UNCHANGED <<free, child, panic, variant, leaked, spoiled, i, pool, setup, holder, overlap>>
  BY DEF GrowDone, UntouchedShare, Go
<1>2. /\ OnlySpace(p) /\ vm'[p].sz = goal[p] /\ vm'[p].tab = vm[p].tab /\ vm'[p].page = vm[p].page
  <2>1. vm \in [Procs -> Space] /\ goal[p] \in 0 .. 2 * HEAP
    BY Functions
  <2> QED BY <1>1, <2>1, SizeEffect
<1>3. TypeOK'
  <2>1. goal' \in [Procs -> 0 .. 2 * HEAP] /\ pc' \in [Procs -> PCs]
    BY <1>1, GoTypes DEF PCs
  <2> QED BY <1>1, <1>2, <2>1 DEF SpaceInv, TypeOK, OnlySpace
<1>4. child[p] = None /\ pc'[p] = "user"
      /\ \A r \in Procs \ {p} : pc'[r] = pc[r] /\ goal'[r] = goal[r] /\ vm'[r] = vm[r]
  BY <1>1, <1>2, Functions DEF SpaceInv, Children, OnlySpace
<1>5. Children' /\ PoolType'
  BY <1>1, <1>4 DEF SpaceInv, Children, PoolType
<1>6. \A r \in Procs \ {p} : Local(r)'
  <2>1. \A r \in Procs : child[r] # p
    BY <1>1, Family
  <2> QED BY <1>1, <1>4, <2>1, OthersKeep
<1>7. Local(p)'
  <2>1. Shape(p)
    BY DEF SpaceInv, Local
  <2>2. /\ RoundUp(vm[p].sz) \in Nat /\ RoundUp(goal[p]) \in Nat
    BY SpaceTypes DEF SpaceInv
  <2>3. ASSUME NEW u \in Pages \ Region
        PROVE  vm[p].page[u] # None <=> u < RoundUp(goal[p])
    <3>1. u \in Nat
      BY PageIsNat DEF SpaceInv
    <3>2. /\ u < RoundUp(vm[p].sz) => vm[p].page[u] # None
          /\ vm[p].page[u] # None => u < RoundUp(goal[p])
      BY <1>1, <2>1 DEF Shape
    <3>3. ASSUME u < RoundUp(goal[p]), ~ (u < RoundUp(vm[p].sz)) PROVE u \in Mapped(p)
      <4>1. u \in RoundUp(vm[p].sz) .. RoundUp(goal[p]) - 1
        BY <2>2, <3>1, <3>3
      <4> QED BY <1>1, <4>1 DEF ToAdd, FirstNew
    <3> QED BY <3>2, <3>3 DEF Mapped
  <2>4. pc[p] \in Resting
    BY <1>1 DEF Resting
  <2>5. \A u \in Pages \ Region : vm[p].page[u] \in Frames \cup {None}
    BY <2>1 DEF Shape
  <2> QED BY <1>1, <1>2, <1>4, <2>3, <2>4, <2>5, UserLocal
<1>8. OwnPool'
  BY <1>1, <1>2, <1>4, OwnPoolKeeps
<1> QED BY <1>3, <1>5, <1>6, <1>7, <1>8 DEF SpaceInv

LEMMA GrowFailKeeps ==
  ASSUME SpaceInv, NEW p \in Procs, GrowFail(p)
  PROVE  SpaceInv'
<1> DEFINE S == NewPages(p)
<1>1. /\ pc[p] = "growing" /\ pc' = [pc EXCEPT ![p] = "user"]
      /\ vm' = [vm EXCEPT ![p].page = Unmap(p, S)] /\ goal' = [goal EXCEPT ![p] = 0]
      /\ free' = free \cup FramesOf(p, S)
      /\ UNCHANGED <<child, panic, variant, leaked, spoiled, i, pool, setup, holder, overlap>>
  BY DEF GrowFail, UntouchedShare, Go
<1>2. /\ RoundUp(vm[p].sz) \in Nat /\ RoundUp(goal[p]) \in 0 .. HEAP
  BY SpaceTypes DEF SpaceInv
<1>3. S \subseteq Pages \ Region /\ FramesOf(p, S) \subseteq Frames
  BY <1>2, HeapFromFacts DEF NewPages
<1>4. /\ OnlySpace(p) /\ vm'[p].sz = vm[p].sz /\ vm'[p].tab = vm[p].tab
      /\ \A u \in Pages : vm'[p].page[u] = IF u \in S THEN None ELSE vm[p].page[u]
  <2>1. vm \in [Procs -> Space] /\ vm[p].sz \in 0 .. 2 * HEAP /\ vm[p] \in Space
    BY SpaceTypes, Functions
  <2>2. [vm[p] EXCEPT !.page = Unmap(p, S)] = [vm[p] EXCEPT !.page = Unmap(p, S), !.sz = vm[p].sz]
    BY <2>1 DEF Space
  <2>3. vm' = Without(p, S, vm[p].sz)
    BY <1>1, <2>1, <2>2 DEF Without
  <2> QED BY <2>1, <2>3, UnmapEffect
<1>5. TypeOK'
  <2>1. goal' \in [Procs -> 0 .. 2 * HEAP] /\ pc' \in [Procs -> PCs]
    BY <1>1, GoTypes DEF PCs
  <2> QED BY <1>1, <1>3, <1>4, <2>1 DEF SpaceInv, TypeOK, OnlySpace
<1>6. child[p] = None /\ pc'[p] = "user"
      /\ \A r \in Procs \ {p} : pc'[r] = pc[r] /\ goal'[r] = goal[r] /\ vm'[r] = vm[r]
  BY <1>1, <1>4, Functions DEF SpaceInv, Children, OnlySpace
<1>7. Children' /\ PoolType'
  BY <1>1, <1>6 DEF SpaceInv, Children, PoolType
<1>8. \A r \in Procs \ {p} : Local(r)'
  <2>1. \A r \in Procs : child[r] # p
    BY <1>1, Family
  <2> QED BY <1>1, <1>6, <2>1, OthersKeep
<1>9. Local(p)'
  <2>1. Shape(p)
    BY DEF SpaceInv, Local
  <2>2. \A u \in Region : vm'[p].page[u] = vm[p].page[u]
    BY <1>3, <1>4, PageFacts, Functions
  <2>3. ASSUME NEW u \in Pages \ Region
        PROVE  vm'[p].page[u] # None <=> u < RoundUp(vm[p].sz)
    <3>1. u \in Nat /\ HEAP \in Nat
      BY PageIsNat, SizeAssumption DEF SpaceInv
    <3>2. /\ u < RoundUp(vm[p].sz) => vm[p].page[u] # None
          /\ vm[p].page[u] # None => u < RoundUp(goal[p])
      BY <1>1, <2>1 DEF Shape
    <3>3. vm[p].page[u] # None => u < HEAP
      BY <1>2, <3>1, <3>2
    <3>4. u \in S <=> vm[p].page[u] # None /\ ~ (u < RoundUp(vm[p].sz))
      BY <1>2, <3>1, <3>3 DEF NewPages, HeapFrom, Mapped
    <3> QED BY <1>4, <3>2, <3>4
  <2>4. pc[p] \in Resting
    BY <1>1 DEF Resting
  <2>5. \A u \in Pages \ Region : vm'[p].page[u] \in Frames \cup {None}
    BY <1>4, <2>1 DEF Shape
  <2> QED BY <1>1, <1>4, <1>6, <2>2, <2>3, <2>4, <2>5, UserLocal
<1>10. OwnPool'
  BY <1>1, <1>4, <1>6, PageFacts, Functions, OwnPoolKeeps
<1> QED BY <1>5, <1>7, <1>8, <1>9, <1>10 DEF SpaceInv

LEMMA ShrinkKeeps ==
  ASSUME SpaceInv, NEW p \in Procs, Shrink(p)
  PROVE  SpaceInv'
<1>0. PICK s \in Sizes :
       /\ 0 < s /\ s < vm[p].sz
       /\ vm' = [vm EXCEPT ![p].page = Unmap(p, HeapFrom(p, RoundUp(s))), ![p].sz = s]
       /\ free' = free \cup FramesOf(p, HeapFrom(p, RoundUp(s)))
  BY DEF Shrink
<1> DEFINE S == HeapFrom(p, RoundUp(s))
<1>1. /\ pc[p] = "user" /\ vm' = Without(p, S, s) /\ free' = free \cup FramesOf(p, S)
      /\ UNCHANGED <<pc, child, goal, panic, variant, leaked, spoiled, i, pool, setup, holder, overlap>>
  BY <1>0 DEF Shrink, UntouchedShare, Without
<1>2. /\ RoundUp(vm[p].sz) \in 0 .. HEAP /\ s \in 0 .. 2 * HEAP /\ s \in Nat /\ vm[p].sz \in Nat
      /\ HEAP \in Nat
  BY SpaceTypes, SizeAssumption DEF SpaceInv
<1>3. RoundUp(s) \in Nat /\ RoundUp(s) <= RoundUp(vm[p].sz)
  BY <1>0, <1>2, Rounding
<1>4. S \subseteq Pages \ Region /\ FramesOf(p, S) \subseteq Frames
  BY <1>3, HeapFromFacts
<1>5. /\ OnlySpace(p) /\ vm'[p].sz = s /\ vm'[p].tab = vm[p].tab
      /\ \A u \in Pages : vm'[p].page[u] = IF u \in S THEN None ELSE vm[p].page[u]
  BY <1>1, <1>2, Functions, UnmapEffect
<1>6. TypeOK'
  BY <1>1, <1>4, <1>5 DEF SpaceInv, TypeOK, OnlySpace
<1>7. child[p] = None /\ \A r \in Procs \ {p} : vm'[r] = vm[r]
  BY <1>1, <1>5 DEF SpaceInv, Children, OnlySpace
<1>8. Children' /\ PoolType'
  BY <1>1 DEF SpaceInv, Children, PoolType
<1>9. \A r \in Procs \ {p} : Local(r)'
  <2>1. \A r \in Procs : child[r] # p
    BY <1>1, Family
  <2> QED BY <1>1, <1>7, <2>1, OthersKeep
<1>10. Local(p)'
  <2>1. Shape(p)
    BY DEF SpaceInv, Local
  <2>2. \A u \in Region : vm'[p].page[u] = vm[p].page[u]
    BY <1>4, <1>5, PageFacts, Functions
  <2>3. ASSUME NEW u \in Pages \ Region
        PROVE  vm'[p].page[u] # None <=> u < RoundUp(s)
    <3>1. u \in Nat
      BY PageIsNat DEF SpaceInv
    <3>2. vm[p].page[u] # None <=> u < RoundUp(vm[p].sz)
      BY <1>1, <2>1 DEF Shape, Settled, HeapIs
    <3>3. vm[p].page[u] # None => u < HEAP
      BY <1>2, <3>1, <3>2
    <3>4. u \in S <=> vm[p].page[u] # None /\ ~ (u < RoundUp(s))
      BY <1>3, <3>1, <3>3 DEF HeapFrom, Mapped
    <3>5. u < RoundUp(s) => u < RoundUp(vm[p].sz)
      BY <1>2, <1>3, <3>1
    <3> QED BY <1>5, <3>2, <3>4, <3>5
  <2>4. pc[p] \in Resting
    BY <1>1 DEF Resting
  <2>5. \A u \in Pages \ Region : vm'[p].page[u] \in Frames \cup {None}
    BY <1>5, <2>1 DEF Shape
  <2> QED BY <1>1, <1>5, <1>7, <2>2, <2>3, <2>4, <2>5, UserLocal
<1>11. OwnPool'
  BY <1>1, <1>5, <1>7, PageFacts, Functions, OwnPoolKeeps
<1> QED BY <1>6, <1>8, <1>9, <1>10, <1>11 DEF SpaceInv

LEMMA ShrinkFailKeeps ==
  ASSUME SpaceInv, NEW p \in Procs, ShrinkFail(p)
  PROVE  SpaceInv'
<1> DEFINE S == HeapFrom(p, 0)
<1>1. /\ pc[p] = "user" /\ pc' = [pc EXCEPT ![p] = "emptied"]
      /\ vm' = [vm EXCEPT ![p].page = Unmap(p, S)] /\ free' = free \cup FramesOf(p, S)
      /\ UNCHANGED <<child, goal, panic, variant, leaked, spoiled, i, pool, setup, holder, overlap>>
  BY DEF ShrinkFail, UntouchedShare, Go
<1>2. vm[p] \in Space /\ vm[p].sz \in 0 .. 2 * HEAP /\ vm \in [Procs -> Space]
  BY SpaceTypes, Functions
<1>3. vm' = Without(p, S, vm[p].sz)
  <2>1. [vm[p] EXCEPT !.page = Unmap(p, S)] = [vm[p] EXCEPT !.page = Unmap(p, S), !.sz = vm[p].sz]
    BY <1>2 DEF Space
  <2> QED BY <1>1, <1>2, <2>1 DEF Without
<1>4. S \subseteq Pages \ Region /\ FramesOf(p, S) \subseteq Frames
  BY HeapFromFacts
<1>5. /\ OnlySpace(p) /\ vm'[p].sz = vm[p].sz /\ vm'[p].tab = vm[p].tab
      /\ \A u \in Pages : vm'[p].page[u] = IF u \in S THEN None ELSE vm[p].page[u]
  BY <1>2, <1>3, Functions, UnmapEffect
<1>6. /\ pc' \in [Procs -> PCs] /\ pc'[p] = "emptied" /\ \A r \in Procs \ {p} : pc'[r] = pc[r]
  BY <1>1, GoTypes, Functions DEF PCs
<1>7. TypeOK'
  BY <1>1, <1>4, <1>5, <1>6 DEF SpaceInv, TypeOK, OnlySpace
<1>8. child[p] = None /\ (\A r \in Procs : child[r] # p) /\ \A r \in Procs \ {p} : vm'[r] = vm[r]
  BY <1>1, <1>5, Family DEF SpaceInv, Children, OnlySpace
<1>9. Children' /\ PoolType'
  BY <1>1, <1>6, <1>8 DEF SpaceInv, Children, PoolType
<1>10. \A r \in Procs \ {p} : Local(r)'
  BY <1>1, <1>6, <1>8, OthersKeep
<1>11. Local(p)'
  <2>1. Shape(p) /\ Region' = Region
    BY <1>1, SameVariant DEF SpaceInv, Local
  <2>2. \A u \in Region : vm'[p].page[u] = vm[p].page[u]
    BY <1>4, <1>5, PageFacts, Functions
  <2>3. ASSUME NEW u \in Pages \ Region
        PROVE  vm'[p].page[u] = None
    <3>1. u \in Nat
      BY PageIsNat DEF SpaceInv
    <3>2. vm[p].page[u] # None => u < RoundUp(vm[p].sz)
      BY <1>1, <2>1 DEF Shape, Settled, HeapIs
    <3>3. RoundUp(vm[p].sz) \in 0 .. HEAP /\ HEAP \in Nat
      BY SpaceTypes, SizeAssumption DEF SpaceInv
    <3>4. vm[p].page[u] # None => u \in S
      BY <3>1, <3>2, <3>3 DEF HeapFrom, Mapped
    <3> QED BY <1>5, <3>4
  <2>4. HeapIs(vm[p], 0)'
    <3>1. \A u \in Pages \ Region : ~ (u < 0)
      BY PageIsNat DEF SpaceInv
    <3> QED BY <2>1, <2>3, <3>1 DEF HeapIs
  <2>5. RegionNone(vm[p])' = RegionNone(vm[p]) /\ RegionFull(vm[p])' = RegionFull(vm[p])
    BY <2>1, <2>2 DEF RegionNone, RegionFull
  <2>6. Shape(p)'
    BY <1>1, <1>5, <1>6, <1>8, <2>1, <2>2, <2>3, <2>4, <2>5 DEF Shape, HasRegion, Settled, Resting
  <2>7. Counter(p)' /\ Sharing(p)'
    BY <1>6 DEF Counter, Sharing
  <2> QED BY <1>1, <1>8, <2>6, <2>7 DEF Local
<1>12. OwnPool'
  BY <1>1, <1>5, <1>6, <1>8, PageFacts, Functions, OwnPoolKeeps
<1> QED BY <1>7, <1>9, <1>10, <1>11, <1>12 DEF SpaceInv

-----------------------------------------------------------------------------
(* ... fork(), ...                                                             *)
LEMMA SameShape ==
  ASSUME SpaceInv, NEW p \in Procs, pc[p] \in Settled, pc'[p] \in Settled, variant' = variant,
         vm'[p] = vm[p],
         pc'[p] \in Resting \/ child'[p] # None => pc[p] \in Resting \/ child[p] # None
  PROVE  Shape(p)'
<1>1. Region' = Region
  BY SameVariant
<1>2. Shape(p)
  BY DEF SpaceInv, Local
<1>3. RegionNone(vm[p])' = RegionNone(vm[p]) /\ RegionFull(vm[p])' = RegionFull(vm[p])
      /\ HasRegion(p)' = HasRegion(p)
  BY <1>1 DEF RegionNone, RegionFull, HasRegion
<1>4. HeapIs(vm[p], RoundUp(vm[p].sz))' = HeapIs(vm[p], RoundUp(vm[p].sz))
  BY <1>1 DEF HeapIs, RoundUp
<1>5. pc'[p] # "growing" /\ pc'[p] # "unused" /\ pc'[p] # "emptied"
  BY DEF Settled
<1> QED BY <1>1, <1>2, <1>3, <1>4, <1>5 DEF Shape

LEMMA SettledShape ==
  ASSUME SpaceInv, NEW p \in Procs, pc[p] \in Settled, pc'[p] \in Settled, variant' = variant,
         vm'[p] = vm[p], RegionNone(vm[p]) \/ RegionFull(vm[p]) \/ variant.mapFails = "ignored"
  PROVE  Shape(p)'
<1>1. Region' = Region
  BY SameVariant
<1>2. Shape(p)
  BY DEF SpaceInv, Local
<1>3. RegionNone(vm[p])' = RegionNone(vm[p]) /\ RegionFull(vm[p])' = RegionFull(vm[p])
      /\ HasRegion(p)' = HasRegion(p)
  BY <1>1 DEF RegionNone, RegionFull, HasRegion
<1>4. HeapIs(vm[p], RoundUp(vm[p].sz))' = HeapIs(vm[p], RoundUp(vm[p].sz))
  BY <1>1 DEF HeapIs, RoundUp
<1>5. pc'[p] # "growing" /\ pc'[p] # "unused" /\ pc'[p] # "emptied"
  BY DEF Settled
<1> QED BY <1>1, <1>2, <1>3, <1>4, <1>5 DEF Shape

LEMMA ForkKeeps ==
  ASSUME SpaceInv, NEW p \in Procs, Fork(p)
  PROVE  SpaceInv'
<1>0. PICK q \in Procs :
       /\ pc[q] = "unused"
       /\ vm' = [vm EXCEPT ![q].kstack = Lowest(free)]
       /\ child' = [child EXCEPT ![p] = q]
       /\ pc' = [pc EXCEPT ![p] = "copydir", ![q] = "embryo"]
  BY DEF Fork
<1>1. /\ pc[p] = "user" /\ p # q /\ free # {} /\ free' \subseteq free
      /\ UNCHANGED <<goal, panic, variant, leaked, spoiled, i, pool, setup, holder, overlap>>
  BY <1>0 DEF Fork, UntouchedShare
<1>2. Lowest(free) \in Frames
  BY <1>1, TakeOne, Functions
<1>3. OnlySpace(q) /\ vm'[q].tab = vm[q].tab /\ vm'[q].page = vm[q].page /\ vm'[q].dir = vm[q].dir
      /\ vm'[q].ktab = vm[q].ktab
  BY <1>0, <1>2, Functions, StackEffect
<1>4. /\ pc' \in [Procs -> PCs] /\ child' \in [Procs -> Procs \cup {None}]
      /\ pc'[p] = "copydir" /\ pc'[q] = "embryo" /\ child'[p] = q
      /\ \A r \in Procs \ {p, q} : pc'[r] = pc[r]
      /\ \A r \in Procs \ {p} : child'[r] = child[r]
      /\ \A r \in Procs \ {q} : vm'[r] = vm[r]
  BY <1>0, <1>1, <1>3, Functions DEF PCs, OnlySpace
<1>5. TypeOK'
  BY <1>1, <1>3, <1>4 DEF SpaceInv, TypeOK, OnlySpace
<1>6. child[p] = None /\ child[q] = None /\ \A r \in Procs : child[r] # p /\ child[r] # q
  BY <1>0, <1>1, Family DEF SpaceInv, Children
<1>7. Children' /\ PoolType'
  <2>1. ASSUME NEW r \in Procs \ {p}, child[r] # None
        PROVE  /\ r # q /\ child'[r] = child[r] /\ child[r] \in Procs \ {p, q} /\ pc'[r] = pc[r]
               /\ pc'[child[r]] = "embryo" /\ \A s \in Procs : child'[s] = child'[r] => s = r
    BY <1>4, <1>6, <2>1 DEF SpaceInv, Children
  <2>2. \A s \in Procs : child'[s] = child'[p] => s = p
    BY <1>4, <1>6
  <2>3. Children'
    <3> SUFFICES ASSUME NEW r \in Procs
                 PROVE  /\ child'[r] # None =>
                             /\ pc'[r] \in {"copydir", "copying", "copied", "allocating", "mapping"}
                             /\ child'[r] \in Procs /\ pc'[child'[r]] = "embryo"
                             /\ \A s \in Procs : child'[s] = child'[r] => s = r
                        /\ pc'[r] \in {"copydir", "copying", "copied"} => child'[r] # None
      BY DEF Children
    <3>1. CASE r = p
      <4>1. q # None
        BY SizeAssumption DEF Procs, None
      <4> QED BY <1>4, <2>2, <3>1, <4>1
    <3>2. CASE r # p /\ child[r] = None
      BY <1>4, <3>2 DEF SpaceInv, Children
    <3>3. CASE r # p /\ child[r] # None
      BY <1>4, <2>1, <3>3 DEF SpaceInv, Children
    <3> QED BY <3>1, <3>2, <3>3
  <2> QED BY <1>1, <2>3 DEF SpaceInv, PoolType
<1>8. \A r \in Procs \ {p, q} : Local(r)'
  BY <1>1, <1>4, <1>6, OthersKeep
<1>9. \A v \in Pages : vm[q].page[v] = None
  <2>1. vm[q] = Blank
    BY <1>0 DEF SpaceInv, Local, Shape
  <2> QED BY <2>1, BlankSpace
<1>10. vm[q].dir = None /\ vm[q].ktab = None
  <2>1. vm[q] = Blank
    BY <1>0 DEF SpaceInv, Local, Shape
  <2> QED BY <2>1, BlankSpace
<1>11. Local(q)'
  <2>1. /\ \A v \in Region : vm'[q].page[v] = None
        /\ \A v \in Pages \ Region : vm'[q].page[v] = None
    BY <1>3, <1>9, PageFacts, Functions
  <2>2. child'[q] = None
    BY <1>1, <1>4, <1>6
  <2> QED BY <1>1, <1>4, <2>1, <2>2, EmbryoLocal
<1>12. Local(p)'
  <2>1. Shape(p)'
    BY <1>1, <1>4, SameShape DEF Settled, Resting
  <2>2. Counter(p)' /\ Sharing(p)'
    BY <1>4 DEF Counter, Sharing
  <2>3. vm[child[p]]' = vm'[q]
    BY <1>4
  <2>4. ChildShape(p, vm[child[p]])'
    BY <1>3, <1>4, <1>9, <1>10, <2>3 DEF ChildShape
  <2> QED BY <2>1, <2>2, <2>4 DEF Local
<1>13. OwnPool'
  BY <1>0, <1>1, <1>3, <1>4, OwnPoolKeeps
<1> QED BY <1>5, <1>7, <1>8, <1>11, <1>12, <1>13 DEF SpaceInv

LEMMA CopyDirKeeps ==
  ASSUME SpaceInv, NEW p \in Procs, CopyDir(p)
  PROVE  SpaceInv'
<1>0. child[p] \in Procs
  BY Family DEF SpaceInv, Children, CopyDir
<1> PICK q \in Procs : q = child[p]
  BY <1>0
<1>1. /\ pc[p] = "copydir" /\ Cardinality(free) >= 2 /\ pc' = [pc EXCEPT ![p] = "copying"]
      /\ vm' = [vm EXCEPT ![q].dir = Lowest(free), ![q].ktab = Second(free)]
      /\ free' \subseteq free
      /\ UNCHANGED <<child, goal, panic, variant, leaked, spoiled, i, pool, setup, holder, overlap>>
  BY DEF CopyDir, UntouchedShare, Go
<1>2. Lowest(free) \in Frames /\ Second(free) \in Frames
  BY <1>1, TakeTwo, Functions
<1>3. /\ q \in Procs /\ q # p /\ pc[q] = "embryo" /\ child[q] = None /\ q # None
      /\ \A r \in Procs : child[r] # p
      /\ \A r \in Procs \ {p} : child[r] = None \/ child[r] # q
  BY <1>1, Family DEF SpaceInv, Children
<1>4. OnlySpace(q) /\ vm'[q].tab = vm[q].tab /\ vm'[q].page = vm[q].page
  BY <1>1, <1>2, <1>3, Functions, DirEffect
<1>5. /\ pc' \in [Procs -> PCs] /\ pc'[p] = "copying" /\ child' = child
      /\ \A r \in Procs \ {p} : pc'[r] = pc[r]
      /\ \A r \in Procs \ {q} : vm'[r] = vm[r]
  BY <1>1, <1>4, GoTypes, Functions DEF PCs, OnlySpace
<1>6. TypeOK'
  BY <1>1, <1>4, <1>5 DEF SpaceInv, TypeOK, OnlySpace
<1>7. Children' /\ PoolType'
  BY <1>1, <1>3, <1>5 DEF SpaceInv, Children, PoolType
<1>8. \A r \in Procs \ {p, q} : Local(r)'
  <2>1. \A r \in Procs \ {p, q} : child[r] # p /\ child[r] # q
    BY <1>3
  <2> QED BY <1>1, <1>5, <2>1, OthersKeepTwo
<1>9. \A v \in Pages : vm'[q].page[v] = None
  BY <1>1, <1>3, <1>4 DEF SpaceInv, Local, ChildShape
<1>10. \A v \in Region : v \in Pages
  BY PageFacts, Functions
<1>11. Local(q)'
  BY <1>1, <1>3, <1>5, <1>9, <1>10, EmbryoLocal
<1>12. Local(p)'
  <2>1. Shape(p)'
    BY <1>1, <1>3, <1>5, SameShape DEF Settled, Resting
  <2>2. Counter(p)' /\ Sharing(p)'
    BY <1>5 DEF Counter, Sharing
  <2>3. Region' = Region
    BY <1>1, SameVariant
  <2>4. ChildShape(p, vm[q])'
    BY <1>1, <1>3, <1>5, <1>9, <1>10, <2>3 DEF ChildShape, RegionNone
  <2> QED BY <1>5, <2>1, <2>2, <2>4 DEF Local
<1>13. OwnPool'
  BY <1>1, <1>4, <1>5, OwnPoolKeeps
<1> QED BY <1>6, <1>7, <1>8, <1>11, <1>12, <1>13 DEF SpaceInv

LEMMA ToCopyFacts ==
  ASSUME SpaceInv, NEW p \in Procs, pc[p] = "copying", ToCopy(p) # {}
  PROVE  /\ Lowest(ToCopy(p)) \in Pages /\ Lowest(ToCopy(p)) \notin Mapped(child[p])
         /\ Lowest(ToCopy(p)) \in Mapped(p)
         /\ Lowest(ToCopy(p)) \notin Region => Lowest(ToCopy(p)) < RoundUp(vm[p].sz)
         /\ Lowest(ToCopy(p)) \in Region => variant.copy = "duplicate"
<1>1. /\ RoundUp(vm[p].sz) \in 0 .. HEAP /\ HEAP \in Nat /\ Pages \subseteq Nat
      /\ 0 .. HEAP - 1 \subseteq Pages \ Region
  BY SpaceTypes, SizeAssumption, PageFacts, Functions
<1>2. ToCopy(p) \in SUBSET Nat
  <2>1. Mapped(p) \subseteq Pages
    BY DEF Mapped
  <2>2. 0 .. RoundUp(vm[p].sz) - 1 \subseteq Nat
    OBVIOUS
  <2>3. ToCopy(p) \subseteq Pages \cup 0 .. RoundUp(vm[p].sz) - 1
    BY <2>1 DEF ToCopy
  <2> QED BY <1>1, <2>2, <2>3
<1>3. Lowest(ToCopy(p)) \in ToCopy(p)
  BY <1>2, Least
<1> DEFINE v == Lowest(ToCopy(p))
<1> HIDE DEF v
<1>4. /\ v \notin Mapped(child[p])
      /\ IF variant.copy = "duplicate" THEN v \in Mapped(p) ELSE v \in 0 .. RoundUp(vm[p].sz) - 1
  BY <1>3 DEF ToCopy, v
<1>5. \A u \in Pages \ Region : vm[p].page[u] # None <=> u < RoundUp(vm[p].sz)
  BY DEF SpaceInv, Local, Shape, Settled, HeapIs
<1>6. CASE variant.copy = "duplicate"
  BY <1>4, <1>5, <1>6 DEF Mapped, v
<1>7. CASE variant.copy # "duplicate"
  <2>1. v \in 0 .. HEAP - 1 /\ v < RoundUp(vm[p].sz)
    BY <1>1, <1>4, <1>7
  <2> QED BY <1>1, <1>4, <1>5, <2>1 DEF Mapped, v
<1> QED BY <1>6, <1>7

LEMMA CopyPageKeeps ==
  ASSUME SpaceInv, NEW p \in Procs, CopyPage(p)
  PROVE  SpaceInv'
<1>0. child[p] \in Procs
  BY Family DEF SpaceInv, Children, CopyPage
<1> PICK q \in Procs : q = child[p]
  BY <1>0
<1> DEFINE v == Lowest(ToCopy(p))
<1>1. /\ pc[p] = "copying" /\ Cardinality(free) >= Needs(q, v)
      /\ vm' = WithPage(q, v, Lowest(free), Second(free)) /\ free' \subseteq free
      /\ UNCHANGED <<pc, child, goal, panic, variant, leaked, spoiled, i, pool, setup, holder, overlap>>
  BY DEF CopyPage, UntouchedShare
<1>2. /\ v \in Pages /\ v \notin Mapped(q) /\ v \in Mapped(p)
      /\ v \notin Region => v < RoundUp(vm[p].sz)
      /\ v \in Region => variant.copy = "duplicate"
  BY <1>1, ToCopyFacts DEF CopyPage
<1> HIDE DEF v
<1>3. Lowest(free) \in Frames /\ (vm[q].tab[Entry(v)] = None => Second(free) \in Frames)
  BY <1>1, <1>2, NewPage, Functions
<1>4. /\ q # p /\ pc[q] = "embryo" /\ child[q] = None /\ q # None
      /\ \A r \in Procs : child[r] # p
      /\ \A r \in Procs \ {p} : child[r] = None \/ child[r] # q
  BY <1>1, Family DEF SpaceInv, Children
<1>5. /\ OnlySpace(q)
      /\ vm'[q].page[v] = Lowest(free) /\ \A u \in Pages \ {v} : vm'[q].page[u] = vm[q].page[u]
      /\ \A e \in Entries :
           vm'[q].tab[e] = IF e = Entry(v) /\ vm[q].tab[e] = None THEN Second(free) ELSE vm[q].tab[e]
  <2>1. vm \in [Procs -> Space] /\ Lowest(free) \in Value
    BY <1>3, FrameValues, Functions
  <2>2. vm[q].tab[Entry(v)] = None => Second(free) \in Frames \cup {None}
    BY <1>3
  <2> QED BY <1>1, <1>2, <2>1, <2>2, WithPageEffect
<1>6. vm'[p] = vm[p] /\ (\A r \in Procs \ {p, q} : vm'[r] = vm[r]) /\ Region' = Region
  BY <1>1, <1>4, <1>5, SameVariant DEF OnlySpace
<1>7. TypeOK'
  BY <1>1, <1>5 DEF SpaceInv, TypeOK, OnlySpace
<1>8. Children' /\ PoolType'
  BY <1>1 DEF SpaceInv, Children, PoolType
<1>9. \A r \in Procs \ {p, q} : Local(r)'
  <2>1. \A r \in Procs \ {p, q} : child[r] # p /\ child[r] # q
    BY <1>4
  <2> QED BY <1>1, <1>6, <2>1, OthersKeepTwo
<1>10. \A u \in Region : u \in Pages /\ Entry(u) = SharedEntry /\ SharedEntry \in Entries
  BY PageFacts, Functions
<1>11. Shape(q) /\ ChildShape(p, vm[q])
  BY <1>1, <1>4 DEF SpaceInv, Local
<1>12. Local(q)'
  <2>1. ASSUME NEW u \in Region, vm'[q].page[u] # None PROVE vm'[q].tab[SharedEntry] # None
    <3>1. CASE u = v
      BY <1>3, <1>5, <1>10, <3>1, FrameValues
    <3>2. CASE u # v
      BY <1>3, <1>5, <1>10, <1>11, <2>1, <3>2, FrameValues DEF Shape, HasRegion
    <3> QED BY <3>1, <3>2
  <2>2. ASSUME NEW u \in Pages \ Region PROVE vm'[q].page[u] \in Frames \cup {None}
    BY <1>3, <1>5, <1>11 DEF Shape
  <2> QED BY <1>1, <1>4, <2>1, <2>2, EmbryoLocal
<1>13. Local(p)'
  <2>1. Shape(p)'
    BY <1>1, <1>6, SameShape DEF Settled, Resting
  <2>2. Counter(p)' /\ Sharing(p)'
    BY <1>1 DEF Counter, Sharing
  <2>3. /\ \A u \in Pages \ Region : vm'[q].page[u] # None => u < RoundUp(vm[p].sz)
        /\ IF variant.copy = "duplicate"
           THEN \A u \in Region : vm'[q].page[u] # None => vm[p].page[u] # None
           ELSE \A u \in Region : vm'[q].page[u] = None
    BY <1>1, <1>2, <1>5, <1>10, <1>11 DEF ChildShape, RegionNone, Mapped
  <2>4. ChildShape(p, vm[q])'
    BY <1>1, <1>6, <2>3 DEF ChildShape, RegionNone, RoundUp
  <2> QED BY <1>1, <2>1, <2>2, <2>4 DEF Local
<1>14. OwnPool'
  <2>1. \A r \in Procs, u \in Region :
          vm'[r].page[u] \in Frames \cup {None} \/ vm'[r].page[u] = vm[r].page[u]
    BY <1>3, <1>5, <1>10 DEF OnlySpace
  <2> QED BY <1>1, <2>1, OwnPoolKeeps
<1> QED BY <1>7, <1>8, <1>9, <1>12, <1>13, <1>14 DEF SpaceInv

(* What fork() makes is a whole address space.                                 *)
LEMMA ForkDoneShape ==
  ASSUME SpaceInv, NEW p \in Procs, NEW q \in Procs, q = child[p], q # None,
         pc[p] = "copied" \/ AllCopied(p)
  PROVE  /\ \A u \in Pages \ Region : vm[q].page[u] # None <=> u < RoundUp(vm[p].sz)
         /\ RegionNone(vm[q]) \/ RegionFull(vm[q]) \/ variant.mapFails = "ignored"
         /\ pc[p] = "copied" =>
              variant.copy = "share" /\ (RegionFull(vm[q]) \/ (RegionNone(vm[q]) /\ variant.mapFails = "error"))
<1>1. ChildShape(p, vm[q]) /\ Shape(p)
  BY DEF SpaceInv, Local
<1>2. CASE pc[p] = "copied"
  BY <1>1, <1>2 DEF ChildShape, HeapIs
<1>3. CASE pc[p] = "copying" /\ ToCopy(p) = {}
  <2>1. /\ RoundUp(vm[p].sz) \in 0 .. HEAP /\ HEAP \in Nat
        /\ 0 .. HEAP - 1 \subseteq Pages \ Region
    BY SpaceTypes, SizeAssumption, PageFacts, Functions
  <2>2. \A u \in Pages \ Region : vm[p].page[u] # None <=> u < RoundUp(vm[p].sz)
    BY <1>1, <1>3 DEF Shape, Settled, HeapIs
  <2>3. ASSUME NEW u \in Pages \ Region, u < RoundUp(vm[p].sz) PROVE u \in Mapped(q)
    <3>1. u \in Nat
      BY PageIsNat, Functions
    <3>2. u \in 0 .. RoundUp(vm[p].sz) - 1 /\ u \in Mapped(p)
      BY <2>1, <2>2, <2>3, <3>1 DEF Mapped
    <3> QED BY <1>3, <3>2 DEF ToCopy
  <2>4. \A u \in Pages \ Region : vm[q].page[u] # None <=> u < RoundUp(vm[p].sz)
    BY <1>1, <1>3, <2>3 DEF ChildShape, Mapped
  <2>5. CASE variant.copy = "duplicate"
    <3>1. \A u \in Region : vm[q].page[u] # None <=> vm[p].page[u] # None
      <4>1. \A u \in Region : u \in Pages
        BY PageFacts, Functions
      <4>2. \A u \in Region : vm[q].page[u] # None => vm[p].page[u] # None
        BY <1>1, <1>3, <2>5 DEF ChildShape
      <4>3. \A u \in Region : vm[p].page[u] # None => vm[q].page[u] # None
        BY <1>3, <2>5, <4>1 DEF ToCopy, Mapped
      <4> QED BY <4>2, <4>3
    <3>2. RegionNone(vm[p]) \/ RegionFull(vm[p]) \/ variant.mapFails = "ignored"
      BY <1>1, <1>3 DEF Shape, Resting
    <3> QED BY <1>3, <2>4, <3>1, <3>2 DEF RegionNone, RegionFull
  <2>6. CASE variant.copy # "duplicate"
    BY <1>1, <1>3, <2>4, <2>6 DEF ChildShape
  <2> QED BY <2>5, <2>6
<1> QED BY <1>2, <1>3 DEF AllCopied

LEMMA ForkDoneKeeps ==
  ASSUME SpaceInv, NEW p \in Procs, ForkDone(p)
  PROVE  SpaceInv'
<1>0. child[p] \in Procs /\ child[p] # None
  BY Family DEF SpaceInv, Children, ForkDone, AllCopied
<1> PICK q \in Procs : q = child[p]
  BY <1>0
<1>1. /\ pc[p] \in {"copying", "copied"} /\ (pc[p] = "copied" \/ (AllCopied(p) /\ ~PassesRegion(p)))
      /\ vm' = [vm EXCEPT ![q].sz = vm[p].sz] /\ child' = [child EXCEPT ![p] = None]
      /\ pc' = [pc EXCEPT ![p] = "user", ![q] = "user"]
      /\ UNCHANGED <<free, goal, panic, variant, leaked, spoiled, i, pool, setup, holder, overlap>>
  BY DEF ForkDone, UntouchedShare, AllCopied
<1>2. /\ q # p /\ pc[q] = "embryo" /\ child[q] = None /\ q # None
      /\ \A r \in Procs : child[r] # p
      /\ \A r \in Procs \ {p} : child[r] = None \/ child[r] # q
  BY <1>1, Family DEF SpaceInv, Children
<1>3. /\ OnlySpace(q) /\ vm'[q].sz = vm[p].sz /\ vm'[q].tab = vm[q].tab /\ vm'[q].page = vm[q].page
  BY <1>1, SpaceTypes, Functions, SizeEffect
<1>4. /\ pc' \in [Procs -> PCs] /\ child' \in [Procs -> Procs \cup {None}]
      /\ pc'[p] = "user" /\ pc'[q] = "user" /\ child'[p] = None /\ child'[q] = None
      /\ \A r \in Procs \ {p, q} : pc'[r] = pc[r] /\ vm'[r] = vm[r]
      /\ \A r \in Procs \ {p} : child'[r] = child[r]
      /\ vm'[p] = vm[p] /\ Region' = Region
  BY <1>1, <1>2, <1>3, Functions, SameVariant DEF PCs, OnlySpace
<1>5. TypeOK'
  BY <1>1, <1>3, <1>4 DEF SpaceInv, TypeOK, OnlySpace
<1>6. Children' /\ PoolType'
  <2>1. ASSUME NEW r \in Procs \ {p, q}, child[r] # None
        PROVE  /\ child'[r] = child[r] /\ child[r] \in Procs \ {p, q} /\ pc'[r] = pc[r]
               /\ pc'[child[r]] = "embryo" /\ \A s \in Procs : child'[s] = child'[r] => s = r
    BY <1>2, <1>4, <2>1 DEF SpaceInv, Children
  <2>2. Children'
    <3> SUFFICES ASSUME NEW r \in Procs
                 PROVE  /\ child'[r] # None =>
                             /\ pc'[r] \in {"copydir", "copying", "copied", "allocating", "mapping"}
                             /\ child'[r] \in Procs /\ pc'[child'[r]] = "embryo"
                             /\ \A s \in Procs : child'[s] = child'[r] => s = r
                        /\ pc'[r] \in {"copydir", "copying", "copied"} => child'[r] # None
      BY DEF Children
    <3>1. CASE r \in {p, q}
      BY <1>4, <3>1
    <3>2. CASE r \notin {p, q} /\ child[r] = None
      BY <1>4, <3>2 DEF SpaceInv, Children
    <3>3. CASE r \notin {p, q} /\ child[r] # None
      BY <1>4, <2>1, <3>3 DEF SpaceInv, Children
    <3> QED BY <3>1, <3>2, <3>3
  <2> QED BY <1>1, <2>2 DEF SpaceInv, PoolType
<1>7. \A r \in Procs \ {p, q} : Local(r)'
  <2>1. \A r \in Procs \ {p, q} : child[r] # p /\ child[r] # q
    BY <1>2
  <2> QED BY <1>1, <1>4, <2>1, OthersKeepTwo
<1>8. Local(p)'
  <2>1. Shape(p)'
    BY <1>1, <1>4, SameShape DEF Settled, Resting
  <2>2. Counter(p)' /\ Sharing(p)'
    BY <1>4 DEF Counter, Sharing
  <2> QED BY <1>4, <2>1, <2>2 DEF Local
<1>9. Local(q)'
  <2>1. Counter(q)' /\ Sharing(q)'
    BY <1>4 DEF Counter, Sharing
  <2>2. /\ \A u \in Pages \ Region : vm[q].page[u] # None <=> u < RoundUp(vm[p].sz)
        /\ RegionNone(vm[q]) \/ RegionFull(vm[q]) \/ variant.mapFails = "ignored"
    BY <1>1, <1>2, ForkDoneShape
  <2>3. Shape(q)
    BY DEF SpaceInv, Local
  <2>4. HeapIs(vm[q], RoundUp(vm[q].sz))'
    BY <1>3, <1>4, <2>2 DEF HeapIs, RoundUp
  <2>5. RegionNone(vm[q])' = RegionNone(vm[q]) /\ RegionFull(vm[q])' = RegionFull(vm[q])
        /\ HasRegion(q)' = HasRegion(q)
    BY <1>3, <1>4 DEF RegionNone, RegionFull, HasRegion
  <2>6. Shape(q)'
    BY <1>1, <1>3, <1>4, <2>2, <2>3, <2>4, <2>5 DEF Shape
  <2> QED BY <1>4, <2>1, <2>6 DEF Local
<1>10. OwnPool'
  BY <1>1, <1>2, <1>3, <1>4, OwnPoolKeeps
<1> QED BY <1>5, <1>6, <1>7, <1>8, <1>9, <1>10 DEF SpaceInv

LEMMA ForgottenFrames ==
  ASSUME SpaceInv, NEW q \in Procs
  PROVE  /\ Forgotten(q) \subseteq Frames /\ Tables(q) \subseteq Frames
         /\ {vm[q].dir, vm[q].kstack} \ {None} \subseteq Frames
<1>1. vm[q] \in Space /\ vm[q].tab \in [Entries -> Frames \cup {None}]
  BY SpaceTypes DEF SpaceInv
<1>2. {vm[q].dir, vm[q].kstack, vm[q].ktab} \ {None} \subseteq Frames
  BY <1>1 DEF Space
<1>3. Tables(q) \subseteq Frames
  BY <1>1, <1>2 DEF Tables
<1>4. ASSUME OwnRegion PROVE FramesOf(q, Mapped(q) \ Walked(q)) \subseteq Frames
  <2>1. \A v \in Region : vm[q].page[v] \in Frames \cup {None}
    BY <1>4 DEF SpaceInv, OwnPool
  <2>2. \A v \in Mapped(q) \ Walked(q) : v \in Region
    BY DEF Walked
  <2> QED BY <2>1, <2>2 DEF FramesOf
<1>5. Forgotten(q) \subseteq Frames
  BY <1>4 DEF Forgotten
<1> QED BY <1>2, <1>3, <1>5

(* Of a child's region there is only what copyuvm() copied.                    *)
LEMMA ChildFrames ==
  ASSUME SpaceInv, NEW p \in Procs, NEW q \in Procs, q = child[p], q # None,
         pc[p] \in {"copydir", "copying"}
  PROVE  /\ \A v \in Pages : vm[q].page[v] \in Frames \cup {None}
         /\ RegionNone(vm[q]) \/ (variant.copy = "duplicate" /\ variant.keep)
         /\ FramesOf(q, Walked(q)) \subseteq Frames
<1>1. ChildShape(p, vm[q]) /\ Shape(q)
  BY DEF SpaceInv, Local
<1>2. \A v \in Pages \ Region : vm[q].page[v] \in Frames \cup {None}
  BY <1>1 DEF Shape
<1>3. \A v \in Region : v \in Pages
  BY PageFacts, Functions
<1>4. RegionNone(vm[q]) \/ variant.copy = "duplicate"
  BY <1>1, <1>3 DEF ChildShape, RegionNone
<1>5. \A v \in Region : vm[q].page[v] \in Frames \cup {None}
  BY <1>4 DEF RegionNone, SpaceInv, OwnPool, OwnRegion
<1>6. \A v \in Pages : vm[q].page[v] \in Frames \cup {None}
  BY <1>2, <1>5
<1>7. FramesOf(q, Walked(q)) \subseteq Frames
  BY <1>6 DEF FramesOf, Walked, Mapped
<1> QED BY <1>4, <1>6, <1>7, VariantFields, Functions

LEMMA ForkFailKeeps ==
  ASSUME SpaceInv, NEW p \in Procs, ForkFail(p)
  PROVE  SpaceInv'
<1>0. child[p] \in Procs /\ child[p] # None
  BY Family DEF SpaceInv, Children, ForkFail
<1> PICK q \in Procs : q = child[p]
  BY <1>0
<1>1. /\ pc[p] \in {"copydir", "copying"}
      /\ vm' = [vm EXCEPT ![q] = Blank] /\ child' = [child EXCEPT ![p] = None]
      /\ pc' = [pc EXCEPT ![p] = "user", ![q] = "unused"]
      /\ free' \subseteq free \cup FramesOf(q, Walked(q)) \cup Tables(q) \cup ({vm[q].dir, vm[q].kstack} \ {None})
      /\ leaked' \subseteq leaked \cup Forgotten(q) \cup free
      /\ UNCHANGED <<goal, panic, variant, spoiled, i, pool, setup, holder, overlap>>
  BY DEF ForkFail, UntouchedShare, Dropped
<1>2. /\ q # p /\ pc[q] = "embryo" /\ child[q] = None /\ q # None
      /\ \A r \in Procs : child[r] # p
      /\ \A r \in Procs \ {p} : child[r] = None \/ child[r] # q
  BY <1>1, Family DEF SpaceInv, Children
<1>4. /\ pc' \in [Procs -> PCs] /\ child' \in [Procs -> Procs \cup {None}] /\ vm' \in [Procs -> Space]
      /\ pc'[p] = "user" /\ pc'[q] = "unused" /\ child'[p] = None /\ child'[q] = None
      /\ \A r \in Procs \ {p, q} : pc'[r] = pc[r]
      /\ \A r \in Procs \ {q} : vm'[r] = vm[r]
      /\ \A r \in Procs \ {p} : child'[r] = child[r]
      /\ vm'[q] = Blank /\ Region' = Region
  BY <1>1, <1>2, Functions, SameVariant, BlankSpace DEF PCs
<1>5. TypeOK'
  <2>1. free' \subseteq Frames /\ leaked' \subseteq Frames
    BY <1>1, <1>2, ForgottenFrames, ChildFrames, Functions
  <2> QED BY <1>1, <1>4, <2>1 DEF SpaceInv, TypeOK
<1>6. Children' /\ PoolType'
  <2>1. ASSUME NEW r \in Procs \ {p, q}, child[r] # None
        PROVE  /\ child'[r] = child[r] /\ child[r] \in Procs \ {p, q} /\ pc'[r] = pc[r]
               /\ pc'[child[r]] = "embryo" /\ \A s \in Procs : child'[s] = child'[r] => s = r
    BY <1>2, <1>4, <2>1 DEF SpaceInv, Children
  <2>2. Children'
    <3> SUFFICES ASSUME NEW r \in Procs
                 PROVE  /\ child'[r] # None =>
                             /\ pc'[r] \in {"copydir", "copying", "copied", "allocating", "mapping"}
                             /\ child'[r] \in Procs /\ pc'[child'[r]] = "embryo"
                             /\ \A s \in Procs : child'[s] = child'[r] => s = r
                        /\ pc'[r] \in {"copydir", "copying", "copied"} => child'[r] # None
      BY DEF Children
    <3>1. CASE r \in {p, q}
      BY <1>4, <3>1
    <3>2. CASE r \notin {p, q} /\ child[r] = None
      BY <1>4, <3>2 DEF SpaceInv, Children
    <3>3. CASE r \notin {p, q} /\ child[r] # None
      BY <1>4, <2>1, <3>3 DEF SpaceInv, Children
    <3> QED BY <3>1, <3>2, <3>3
  <2> QED BY <1>1, <2>2 DEF SpaceInv, PoolType
<1>7. \A r \in Procs \ {p, q} : Local(r)'
  <2>1. \A r \in Procs \ {p, q} : child[r] # p /\ child[r] # q
    BY <1>2
  <2> QED BY <1>1, <1>4, <2>1, OthersKeepTwo
<1>8. Local(p)'
  <2>1. Shape(p)'
    BY <1>1, <1>2, <1>4, SameShape DEF Settled, Resting
  <2>2. Counter(p)' /\ Sharing(p)'
    BY <1>4 DEF Counter, Sharing
  <2> QED BY <1>4, <2>1, <2>2 DEF Local
<1>9. \A u \in Region : u \in Pages
  BY PageFacts, Functions
<1>10. Local(q)'
  <2>1. Counter(q)' /\ Sharing(q)'
    BY <1>4 DEF Counter, Sharing
  <2>2. Shape(q)'
    BY <1>4, <1>9, BlankSpace DEF Shape, Settled, Resting
  <2> QED BY <1>4, <2>1, <2>2 DEF Local
<1>11. OwnPool'
  <2>1. \A r \in Procs, u \in Region :
          vm'[r].page[u] \in Frames \cup {None} \/ vm'[r].page[u] = vm[r].page[u]
    BY <1>4, <1>9, BlankSpace
  <2> QED BY <1>1, <1>2, <1>4, <2>1, OwnPoolKeeps
<1> QED BY <1>5, <1>6, <1>7, <1>8, <1>10, <1>11 DEF SpaceInv

-----------------------------------------------------------------------------
(* ... exit() and wait(), ...                                                  *)
LEMMA ExitKeeps ==
  ASSUME SpaceInv, NEW p \in Procs, Exit(p)
  PROVE  SpaceInv'
<1>1. /\ pc[p] \in {"user", "emptied"} /\ pc' = [pc EXCEPT ![p] = "zombie"]
      /\ UNCHANGED <<free, vm, child, goal, panic, variant, leaked, spoiled, i, pool, setup, holder, overlap>>
  BY DEF Exit, Go, UntouchedShare
<1>2. /\ pc' \in [Procs -> PCs] /\ pc'[p] = "zombie" /\ \A r \in Procs \ {p} : pc'[r] = pc[r]
  BY <1>1, GoTypes, Functions DEF PCs
<1>3. TypeOK'
  BY <1>1, <1>2 DEF SpaceInv, TypeOK
<1>4. child[p] = None /\ \A r \in Procs : child[r] # p
  BY <1>1, Family DEF SpaceInv, Children
<1>5. Children' /\ PoolType'
  BY <1>1, <1>2, <1>4 DEF SpaceInv, Children, PoolType
<1>6. \A r \in Procs \ {p} : Local(r)'
  BY <1>1, <1>2, <1>4, OthersKeep
<1>7. Local(p)'
  <2>1. Shape(p) /\ Region' = Region
    BY <1>1, SameVariant DEF SpaceInv, Local
  <2>2. Shape(p)'
    BY <1>1, <1>2, <1>4, <2>1 DEF Shape, Settled, Resting, HasRegion
  <2>3. Counter(p)' /\ Sharing(p)'
    BY <1>2 DEF Counter, Sharing
  <2> QED BY <1>1, <1>4, <2>2, <2>3 DEF Local
<1>8. OwnPool'
  BY <1>1, <1>2, OwnPoolKeeps
<1> QED BY <1>3, <1>5, <1>6, <1>7, <1>8 DEF SpaceInv

LEMMA ReapKeeps ==
  ASSUME SpaceInv, NEW q \in Procs, Reap(q)
  PROVE  SpaceInv'
<1>1. /\ pc[q] = "zombie" /\ pc' = [pc EXCEPT ![q] = "unused"]
      /\ vm' = [vm EXCEPT ![q] = Blank]
      /\ UNCHANGED <<child, goal, variant, i, pool, setup, holder, overlap>>
  BY DEF Reap, Go, UntouchedShare
<1>2. /\ pc' \in [Procs -> PCs] /\ pc'[q] = "unused" /\ vm' \in [Procs -> Space]
      /\ \A r \in Procs \ {q} : pc'[r] = pc[r] /\ vm'[r] = vm[r]
      /\ vm'[q] = Blank /\ Region' = Region
  BY <1>1, GoTypes, Functions, BlankSpace, SameVariant DEF PCs
<1>3. TypeOK'
  <2>1. /\ free' \subseteq Frames /\ leaked' \subseteq Frames /\ spoiled' \in BOOLEAN
        /\ panic' \in {"", "remap", "memory", "kfree"}
    <3>1. CASE FramesOf(q, Walked(q)) \subseteq Frames
      <4>1. /\ free' = free \cup FramesOf(q, Walked(q)) \cup Tables(q)
                       \cup ({vm[q].dir, vm[q].kstack} \ {None})
            /\ leaked' = leaked \cup Forgotten(q) /\ panic' = panic
            /\ spoiled' = \/ spoiled
                          \/ ~variant.keep /\ variant.first # "always" /\ HasRegion(q)
        BY <3>1 DEF Reap, FreeVm
      <4>2. spoiled \in BOOLEAN /\ panic \in {"", "remap", "memory", "kfree"}
        BY Functions DEF TypeOK
      <4> QED BY <3>1, <4>1, <4>2, ForgottenFrames, Functions
    <3>2. CASE ~ (FramesOf(q, Walked(q)) \subseteq Frames)
      BY <3>2, Functions DEF Reap, FreeVm, TypeOK
    <3> QED BY <3>1, <3>2
  <2> QED BY <1>1, <1>2, <2>1 DEF SpaceInv, TypeOK
<1>4. child[q] = None /\ \A r \in Procs : child[r] # q
  BY <1>1, Family DEF SpaceInv, Children
<1>5. Children' /\ PoolType'
  BY <1>1, <1>2, <1>4 DEF SpaceInv, Children, PoolType
<1>6. \A r \in Procs \ {q} : Local(r)'
  BY <1>1, <1>2, <1>4, OthersKeep
<1>7. \A u \in Region : u \in Pages
  BY PageFacts, Functions
<1>8. Local(q)'
  <2>1. Shape(q)'
    BY <1>1, <1>2, <1>4, <1>7, BlankSpace DEF Shape, Settled, Resting, HasRegion
  <2>2. Counter(q)' /\ Sharing(q)'
    BY <1>2 DEF Counter, Sharing
  <2> QED BY <1>1, <1>4, <2>1, <2>2 DEF Local
<1>9. OwnPool'
  <2>1. \A r \in Procs, u \in Region :
          vm'[r].page[u] \in Frames \cup {None} \/ vm'[r].page[u] = vm[r].page[u]
    BY <1>2, <1>7, BlankSpace
  <2> QED BY <1>1, <1>2, <2>1, OwnPoolKeeps
<1> QED BY <1>3, <1>5, <1>6, <1>8, <1>9 DEF SpaceInv

(* The first process has one page, its page table, directory and stack.        *)
LEMMA InitSpace ==
  ASSUME Init
  PROVE  /\ InitProc \in Procs /\ vm[InitProc] \in Space /\ vm[InitProc].kstack = 1
         /\ vm[InitProc].dir = 2 /\ vm[InitProc].ktab = 3 /\ vm[InitProc].sz = 2
         /\ vm[InitProc].tab = [Blank.tab EXCEPT ![0] = 5] /\ 0 \in Entries /\ 0 # SharedEntry
         /\ vm[InitProc].page = [Blank.page EXCEPT ![0] = 4] /\ 0 \in Pages
         /\ \A r \in Procs \ {InitProc} : vm[r] = Blank
<1> DEFINE s == [Blank EXCEPT !.kstack = 1, !.dir = 2, !.ktab = 3, !.tab[0] = 5, !.page[0] = 4, !.sz = 2]
<1>1. InitProc \in Procs /\ HEAP \in Nat \ {0} /\ PerTable \in Nat \ {0} /\ NSHARED \in Nat \ {0}
  BY SizeAssumption DEF InitProc, Procs
<1>2. 0 \in Pages /\ Entry(0) = 0
  BY <1>1 DEF Pages, Entry
<1>3. 0 \in Entries /\ 0 # SharedEntry
  BY <1>1, <1>2 DEF Entries, SharedEntry
<1>4. {1, 2, 3, 4, 5} \subseteq Frames
  BY BootAssumption DEF Frames
<1>5. Blank.tab \in [Entries -> Frames \cup {None}] /\ Blank.page \in [Pages -> Value] /\ Blank \in Space
  BY BlankSpace DEF Space
<1>6. /\ [Blank.tab EXCEPT ![0] = 5] \in [Entries -> Frames \cup {None}]
      /\ [Blank.page EXCEPT ![0] = 4] \in [Pages -> Value]
  BY <1>2, <1>3, <1>4, <1>5 DEF Value
<1>7. /\ s.kstack = 1 /\ s.dir = 2 /\ s.ktab = 3 /\ s.sz = 2
      /\ s.tab = [Blank.tab EXCEPT ![0] = 5] /\ s.page = [Blank.page EXCEPT ![0] = 4]
  BY DEF Blank
<1>8. s \in Space
  <2>1. 2 \in 0 .. 2 * HEAP
    BY <1>1
  <2> DEFINE s1 == [Blank EXCEPT !.kstack = 1, !.dir = 2, !.ktab = 3]
             s2 == [s1 EXCEPT !.tab[0] = 5]
             s3 == [s2 EXCEPT !.page[0] = 4]
  <2>2. s1 \in Space /\ s1.tab = Blank.tab /\ s1.page = Blank.page
    BY <1>4, <1>5 DEF Space
  <2> HIDE DEF s1
  <2>3. s2 \in Space /\ s2.page = Blank.page
    BY <1>6, <2>2 DEF Space
  <2> HIDE DEF s2
  <2>4. s3 \in Space
    BY <1>6, <2>3 DEF Space
  <2> HIDE DEF s3
  <2>5. [s3 EXCEPT !.sz = 2] \in Space
    BY <2>1, <2>4 DEF Space
  <2> QED BY <2>5 DEF s1, s2, s3
<1> HIDE DEF s
<1>9. vm = [p \in Procs |-> IF p = InitProc THEN s ELSE Blank]
  BY DEF Init, s
<1> QED BY <1>1, <1>2, <1>3, <1>7, <1>8, <1>9

LEMMA InitKeeps ==
  ASSUME Init
  PROVE  SpaceInv
<1>1. /\ pc = [p \in Procs |-> IF p = InitProc THEN "user" ELSE "unused"]
      /\ child = [p \in Procs |-> None] /\ goal = [p \in Procs |-> 0] /\ i = [p \in Procs |-> 0]
      /\ pool = [k \in 1 .. NSHARED |-> PageZero]
      /\ holder = None /\ variant \in Variants /\ leaked = {} /\ panic = ""
      /\ setup = FALSE /\ overlap = FALSE /\ spoiled = FALSE /\ free \subseteq Frames
  BY DEF Init
<1>2. HEAP \in Nat \ {0} /\ NSHARED \in Nat \ {0}
  BY SizeAssumption
<1>3. vm \in [Procs -> Space]
  <2>1. \A r \in Procs : vm[r] \in Space
    BY InitSpace, BlankSpace
  <2>2. vm = [r \in Procs |-> vm[r]]
    BY DEF Init
  <2> QED BY <2>1, <2>2
<1>4. TypeOK
  <2>1. 0 \in 0 .. 2 * HEAP /\ 0 \in 0 .. 2 * NSHARED - 1
    BY <1>2
  <2>2. /\ child \in [Procs -> Procs \cup {None}] /\ pc \in [Procs -> PCs]
        /\ pool \in [1 .. NSHARED -> Value]
    BY <1>1 DEF PCs, Value
  <2> QED BY <1>1, <1>3, <2>1, <2>2 DEF TypeOK
<1>5. Children /\ PoolType
  BY <1>1 DEF Children, PoolType
<1>6. \A u \in Region : u \in Pages /\ u # 0
  <2>1. Region \subseteq Pages /\ 0 \in Pages \ Region
    <3>1. 0 \in 0 .. HEAP - 1
      BY <1>2
    <3>2. Region \subseteq Pages /\ 0 .. HEAP - 1 \subseteq Pages \ Region
      BY <1>1, PageFacts
    <3> QED BY <3>1, <3>2
  <2> QED BY <2>1
<1>7. /\ \A u \in Pages : vm[InitProc].page[u] = IF u = 0 THEN 4 ELSE None
      /\ \A r \in Procs \ {InitProc} : \A u \in Pages : vm[r].page[u] = None
  BY InitSpace, BlankSpace DEF Space
<1>8. \A r \in Procs, u \in Region : vm[r].page[u] = None
  BY <1>6, <1>7
<1>9. OwnPool
  <2>1. 1 \in 1 .. NSHARED
    BY <1>2
  <2>2. FirstTime
    BY <1>1, <2>1 DEF FirstTime
  <2> QED BY <1>1, <1>8, <2>2 DEF OwnPool
<1>10. ASSUME NEW p \in Procs PROVE Local(p)
  <2>1. Counter(p) /\ Sharing(p) /\ child[p] = None
    BY <1>1 DEF Counter, Sharing
  <2>2. \A u \in Pages \ Region : vm[p].page[u] \in Frames \cup {None}
    BY <1>7, BootAssumption DEF Frames
  <2>3. pc[p] = "user" => HeapIs(vm[p], RoundUp(vm[p].sz))
    <3>1. pc[p] = "user" => p = InitProc
      BY <1>1
    <3>2. ASSUME NEW u \in Pages PROVE vm[InitProc].page[u] # None <=> u < 1
      <4>1. u \in Nat
        BY <1>4, PageIsNat
      <4> QED BY <1>7, <4>1 DEF None
    <3>3. RoundUp(2) = 1
      BY DEF RoundUp
    <3> QED BY <3>1, <3>2, <3>3, InitSpace DEF HeapIs
  <2>4. Shape(p)
    BY <1>1, <1>8, <2>2, <2>3, InitSpace DEF Shape, Settled, Resting, RegionNone
  <2> QED BY <2>1, <2>4 DEF Local
<1> QED BY <1>4, <1>5, <1>9, <1>10 DEF SpaceInv

-----------------------------------------------------------------------------
(* ... and the call that shares pages.                                         *)
LEMMA TargetFacts ==
  ASSUME SpaceInv, NEW p \in Procs, pc[p] # "embryo"
  PROVE  /\ Target(p) \in Procs
         /\ child[p] = None => Target(p) = p
         /\ child[p] # None => Target(p) = child[p] /\ child[p] # p
         /\ \A r \in Procs : child[r] # p
BY Family DEF Target

(* A process keeps its child, or has none, while it is in the call.            *)
LEMMA ChildrenKeep ==
  ASSUME SpaceInv, child' = child, NEW p \in Procs, pc[p] # "embryo",
         \A r \in Procs \ {p} : pc'[r] = pc[r],
         child[p] # None => pc'[p] \in {"copied", "allocating", "mapping"},
         pc'[p] \in {"copydir", "copying", "copied"} => child[p] # None
  PROVE  Children'
<1> SUFFICES ASSUME NEW r \in Procs
             PROVE  /\ child[r] # None =>
                         /\ pc'[r] \in {"copydir", "copying", "copied", "allocating", "mapping"}
                         /\ child[r] \in Procs /\ pc'[child[r]] = "embryo"
                         /\ \A s \in Procs : child[s] = child[r] => s = r
                    /\ pc'[r] \in {"copydir", "copying", "copied"} => child[r] # None
  BY DEF Children
<1>1. child[r] # p
  BY Family
<1>2. child[r] # None => child[r] \in Procs /\ pc[child[r]] = "embryo"
                          /\ \A s \in Procs : child[s] = child[r] => s = r
  BY DEF SpaceInv, Children
<1>3. CASE r = p
  BY <1>1, <1>2, <1>3
<1>4. CASE r # p
  BY <1>1, <1>2, <1>4 DEF SpaceInv, Children
<1> QED BY <1>3, <1>4

LEMMA AttachKeeps ==
  ASSUME SpaceInv, NEW p \in Procs, Attach(p)
  PROVE  SpaceInv'
<1>1. /\ pc[p] = "user" \/ (AllCopied(p) /\ PassesRegion(p))
      /\ variant.first # "never"
      /\ variant.guard => ~HasRegion(Target(p))
      /\ LockFree
      /\ i' = [i EXCEPT ![p] = 1]
      /\ holder' = IF variant.lock = "map" \/ (variant.lock = "alloc" /\ FirstTime) THEN p ELSE holder
      /\ setup' = (setup \/ variant.first = "before")
      /\ pc' = [pc EXCEPT ![p] = IF FirstTime THEN "allocating" ELSE "mapping"]
      /\ overlap' \in BOOLEAN
      /\ UNCHANGED <<free, vm, child, goal, pool, panic, variant, leaked, spoiled>>
  BY DEF Attach, Go, SpaceInv, TypeOK
<1>2. /\ pc[p] \in {"user", "copying"} /\ (pc[p] = "copying" => AllCopied(p) /\ PassesRegion(p))
      /\ pc[p] = "copying" <=> child[p] # None
  BY <1>1 DEF AllCopied, SpaceInv, Children
<1>3. /\ pc' \in [Procs -> PCs] /\ pc'[p] = (IF FirstTime THEN "allocating" ELSE "mapping")
      /\ i' \in [Procs -> 0 .. 2 * NSHARED - 1] /\ i'[p] = 1 /\ setup' \in BOOLEAN
      /\ holder' \in Procs \cup {None} /\ Region' = Region /\ Window' = Window
      /\ \A r \in Procs \ {p} : pc'[r] = pc[r] /\ i'[r] = i[r]
  <2>1. 1 \in 0 .. 2 * NSHARED - 1
    BY SizeAssumption
  <2>2. holder \in Procs \cup {None} /\ setup \in BOOLEAN
    BY DEF SpaceInv, TypeOK
  <2> QED BY <1>1, <2>1, <2>2, Functions, SameVariant DEF PCs
<1>4. TypeOK'
  BY <1>1, <1>3 DEF SpaceInv, TypeOK
<1>5. PoolType'
  BY <1>1 DEF SpaceInv, PoolType
<1>6. Children'
  BY <1>1, <1>2, <1>3, ChildrenKeep
<1>7. variant.lock # "none" => holder = None /\ \A r \in Procs : pc[r] # "allocating"
  <2>1. variant.lock # "none" => holder = None
    BY <1>1 DEF LockFree
  <2>2. \A r \in Procs : r # None
    BY SizeAssumption DEF Procs, None
  <2> QED BY <2>1, <2>2 DEF SpaceInv, Local, Counter
<1>8. \A r \in Procs \ {p} : Local(r)'
  <2>1. \A r \in Procs \ {p} : holder = r => holder' = r
    <3>1. variant.lock = "none" => holder' = holder
      BY <1>1
    <3> QED BY <1>7, <3>1, SizeAssumption DEF Procs, None
  <2>2. \A r \in Procs : child[r] # p
    BY <1>2, Family
  <2> QED BY <1>1, <1>3, <2>1, <2>2, OthersKeepOne
<1>9. PICK q \in Procs : q = Target(p)
  BY <1>2, TargetFacts
<1>10. /\ child[p] = None => q = p
       /\ child[p] # None => q = child[p]
  BY <1>2, <1>9, TargetFacts
<1>11. /\ variant.guard \/ child[p] # None => RegionNone(vm[q])
       /\ RegionNone(vm[q]) \/ RegionFull(vm[q]) \/ variant.mapFails = "ignored"
  <2>1. CASE child[p] # None
    <3>1. ChildShape(p, vm[q]) /\ pc[p] = "copying" /\ variant.copy = "share"
      BY <1>2, <1>10, <2>1 DEF SpaceInv, Local, PassesRegion
    <3> QED BY <3>1 DEF ChildShape
  <2>2. CASE child[p] = None
    <3>1. Shape(p) /\ pc[p] = "user" /\ q = p
      BY <1>2, <1>10, <2>2 DEF SpaceInv, Local
    <3>2. variant.guard => RegionNone(vm[q])
      BY <1>1, <1>9, <3>1 DEF Shape, RegionNone
    <3> QED BY <2>2, <3>1, <3>2 DEF Shape, Resting
  <2> QED BY <2>1, <2>2
<1>12. Local(p)'
  <2>1. Shape(p)'
    BY <1>1, <1>2, <1>3, SameShape DEF Settled, Resting
  <2>2. Counter(p)'
    <3>1. 1 \in 1 .. NSHARED /\ 1 \in 1 .. Len(Window)
      BY WindowFacts, SizeAssumption, Functions
    <3>2. FirstTime /\ variant.lock # "none" => holder' = p
      BY <1>1, VariantFields, Functions
    <3> QED BY <1>1, <1>3, <3>1, <3>2 DEF Counter
  <2>3. ASSUME child[p] # None PROVE ChildShape(p, vm[child[p]])'
    <3>1. /\ pc[p] = "copying" /\ AllCopied(p) /\ variant.copy = "share" /\ q = child[p]
      BY <1>2, <1>10, <2>3 DEF PassesRegion
    <3>2. /\ \A u \in Pages \ Region : vm[q].page[u] # None <=> u < RoundUp(vm[p].sz)
      BY <2>3, <3>1, ForkDoneShape
    <3>3. RegionNone(vm[q])
      BY <1>11, <2>3
    <3>4. HeapIs(vm[q], RoundUp(vm[p].sz))' /\ RegionNone(vm[q])'
      BY <1>1, <1>3, <3>2, <3>3 DEF HeapIs, RoundUp, RegionNone
    <3>5. pc'[p] \notin {"copydir", "copying", "copied"}
      BY <1>3
    <3>6. ChildShape(p, vm[q])'
      BY <1>1, <3>1, <3>4, <3>5 DEF ChildShape
    <3> QED BY <1>1, <3>1, <3>6
  <2>4. Sharing(p)'
    <3>1. Target(p)' = q /\ vm' = vm /\ Virgin(p)' = Virgin(p)
      BY <1>1, <1>9 DEF Target, Virgin
    <3>2. RegionNone(vm[q])' = RegionNone(vm[q]) /\ RegionFull(vm[q])' = RegionFull(vm[q])
      BY <1>1, <1>3 DEF RegionNone, RegionFull
    <3>3. \A w \in DOMAIN Window : HEAP + w - 1 \in Region /\ ~ (w < 1) /\ w >= 1
      BY WindowFacts, PageFacts, Functions
    <3>4. RegionNone(vm[q]) => \A w \in DOMAIN Window : PageAt(q, w)' = None
      BY <1>1, <3>3 DEF PageAt, RegionNone
    <3> QED BY <1>1, <1>3, <1>11, <3>1, <3>2, <3>3, <3>4 DEF Sharing, Virgin
  <2> QED BY <1>1, <2>1, <2>2, <2>3, <2>4 DEF Local
<1>13. OwnPool'
  <2> SUFFICES ASSUME OwnRegion PROVE OwnPool'
    BY <1>1 DEF OwnPool, OwnRegion
  <2>1. OwnPool
    BY DEF SpaceInv
  <2>2. ~FirstTime => variant.lock # "none"
    BY VariantFields, Functions DEF OwnRegion, FirstTime
  <2>3. ~FirstTime => \A k \in 1 .. NSHARED : pool[k] \in Frames
    BY <1>7, <2>1, <2>2 DEF OwnPool
  <2>4. (\A k \in 1 .. NSHARED : pool[k] \in Frames) \/ ~ (\A r \in Procs : pc'[r] # "allocating")
    BY <1>3, <2>3
  <2>5. /\ \A r \in Procs \ {p} :
             /\ pc'[r] = "allocating" => \A k \in 1 .. NSHARED : k < i'[r] => pool[k] \in Frames
             /\ pc'[r] = "mapping" => \A k \in 1 .. NSHARED : pool[k] \in Frames
    BY <1>3, <2>1 DEF OwnPool
  <2>6. /\ pc'[p] = "allocating" => \A k \in 1 .. NSHARED : k < i'[p] => pool[k] \in Frames
        /\ pc'[p] = "mapping" => \A k \in 1 .. NSHARED : pool[k] \in Frames
    BY <1>3, <2>3
  <2>7. \A r \in Procs, v \in Region : vm[r].page[v] \in Frames \cup {None}
    BY <2>1 DEF OwnPool
  <2> QED BY <1>1, <1>3, <2>4, <2>5, <2>6, <2>7 DEF OwnPool
<1> QED BY <1>4, <1>5, <1>6, <1>8, <1>12, <1>13 DEF SpaceInv

LEMMA AllocSharedKeeps ==
  ASSUME SpaceInv, NEW p \in Procs, AllocShared(p)
  PROVE  SpaceInv'
<1>1. /\ pc[p] = "allocating" /\ free # {} /\ pool' = [pool EXCEPT ![i[p]] = Lowest(free)]
      /\ free' \subseteq free
      /\ UNCHANGED <<vm, child, goal, panic, variant, leaked, overlap, spoiled>>
  BY DEF AllocShared
<1>2. i[p] \in 1 .. NSHARED /\ NSHARED \in Nat \ {0} /\ Lowest(free) \in Frames
  BY <1>1, TakeOne, Functions, SizeAssumption DEF SpaceInv, Local, Counter
<1>3. /\ pc' \in [Procs -> PCs] /\ i' \in [Procs -> 0 .. 2 * NSHARED - 1]
      /\ pc'[p] = (IF i[p] < NSHARED THEN "allocating" ELSE "mapping")
      /\ i'[p] = (IF i[p] < NSHARED THEN i[p] + 1 ELSE 1)
      /\ \A r \in Procs \ {p} : pc'[r] = pc[r] /\ i'[r] = i[r]
      /\ setup' \in BOOLEAN /\ (i[p] < NSHARED => setup' = setup)
      /\ holder' = holder \/ (i[p] = NSHARED /\ holder = p /\ holder' = None)
  <2>1. setup \in BOOLEAN /\ pc \in [Procs -> PCs] /\ i \in [Procs -> 0 .. 2 * NSHARED - 1]
    BY Functions DEF TypeOK
  <2>2. CASE i[p] < NSHARED
    <3>1. i[p] + 1 \in 0 .. 2 * NSHARED - 1
      BY <1>2, <2>2
    <3>2. UNCHANGED <<pc, setup, holder>> /\ i' = [i EXCEPT ![p] = i[p] + 1]
      BY <2>2 DEF AllocShared
    <3> QED BY <1>1, <2>1, <2>2, <3>1, <3>2
  <2>3. CASE ~ (i[p] < NSHARED)
    <3>1. 1 \in 0 .. 2 * NSHARED - 1 /\ i[p] = NSHARED
      BY <1>2, <2>3
    <3>2. /\ i' = [i EXCEPT ![p] = 1] /\ setup' = (setup \/ variant.first = "after")
          /\ pc' = [pc EXCEPT ![p] = "mapping"]
          /\ holder' = holder \/ (holder = p /\ holder' = None)
      BY <2>3 DEF AllocShared, Go, Unlock
    <3> QED BY <2>1, <2>3, <3>1, <3>2 DEF PCs
  <2> QED BY <2>2, <2>3
<1>4. /\ pool' \in [1 .. NSHARED -> Value] /\ Region' = Region /\ Window' = Window
      /\ \A k \in 1 .. NSHARED : pool'[k] = IF k = i[p] THEN Lowest(free) ELSE pool[k]
  BY <1>1, <1>2, FrameValues, Functions, SameVariant
<1>5. TypeOK'
  BY <1>1, <1>3, <1>4, SizeAssumption DEF SpaceInv, TypeOK
<1>6. PoolType'
  BY <1>1, <1>2, <1>4 DEF SpaceInv, PoolType
<1>7. Children'
  BY <1>1, <1>3, ChildrenKeep
<1>8. \A r \in Procs : child[r] # p
  BY <1>1, Family
<1>9. \A r \in Procs \ {p} : Local(r)'
  BY <1>1, <1>3, <1>8, OthersKeepOne
<1>10. Local(p)'
  <2>1. Shape(p)'
    BY <1>1, <1>3, SameShape DEF Settled, Resting
  <2>2. Counter(p)'
    <3>1. 1 \in 1 .. Len(Window)
      BY WindowFacts, Functions
    <3>2. Counter(p)
      BY DEF SpaceInv, Local
    <3>3. i[p] < NSHARED => i[p] + 1 \in 1 .. NSHARED /\ i[p] # NSHARED
      BY <1>2
    <3> QED BY <1>1, <1>3, <1>4, <3>1, <3>2, <3>3 DEF Counter
  <2>3. ASSUME child[p] # None PROVE ChildShape(p, vm[child[p]])'
    <3>1. ChildShape(p, vm[child[p]])
      BY <2>3 DEF SpaceInv, Local
    <3>2. /\ HeapIs(vm[child[p]], RoundUp(vm[p].sz))' = HeapIs(vm[child[p]], RoundUp(vm[p].sz))
          /\ RegionNone(vm[child[p]])' = RegionNone(vm[child[p]])
      BY <1>1, <1>4 DEF HeapIs, RegionNone, RoundUp
    <3> QED BY <1>1, <1>3, <3>1, <3>2 DEF ChildShape
  <2>4. Sharing(p)'
    <3>1. Target(p)' = Target(p) /\ vm' = vm /\ Virgin(p)' = Virgin(p)
      BY <1>1 DEF Target, Virgin
    <3>2. RegionNone(vm[Target(p)])' = RegionNone(vm[Target(p)])
          /\ RegionFull(vm[Target(p)])' = RegionFull(vm[Target(p)])
      BY <1>4, <3>1 DEF RegionNone, RegionFull
    <3>3. \A w \in DOMAIN Window : HEAP + w - 1 \in Region /\ ~ (w < 1) /\ w >= 1
      BY WindowFacts, PageFacts, Functions
    <3>4. RegionNone(vm[Target(p)]) => \A w \in DOMAIN Window : PageAt(Target(p), w)' = None
      BY <3>1, <3>3 DEF PageAt, RegionNone
    <3>5. Sharing(p)
      BY DEF SpaceInv, Local
    <3> QED BY <1>1, <1>3, <1>4, <3>1, <3>2, <3>3, <3>4, <3>5 DEF Sharing
  <2> QED BY <1>1, <2>1, <2>2, <2>3, <2>4 DEF Local
<1>11. OwnPool'
  <2> SUFFICES ASSUME OwnRegion PROVE OwnPool'
    BY <1>1 DEF OwnPool, OwnRegion
  <2>1. OwnPool
    BY DEF SpaceInv
  <2>2. \A k \in 1 .. NSHARED : k < i[p] => pool[k] \in Frames
    BY <1>1, <2>1 DEF OwnPool
  <2>3. \A k \in 1 .. NSHARED : k < i[p] \/ k = i[p] => pool'[k] \in Frames
    BY <1>2, <1>4, <2>2
  <2>4. ~ (i[p] < NSHARED) => \A k \in 1 .. NSHARED : pool'[k] \in Frames
    <3>1. \A k \in 1 .. NSHARED : ~ (i[p] < NSHARED) => k < i[p] \/ k = i[p]
      BY <1>2
    <3> QED BY <2>3, <3>1
  <2>5. i[p] < NSHARED => \A k \in 1 .. NSHARED : k < i[p] + 1 => pool'[k] \in Frames
    <3>1. \A k \in 1 .. NSHARED : k < i[p] + 1 => k < i[p] \/ k = i[p]
      BY <1>2
    <3> QED BY <2>3, <3>1
  <2>6. \A r \in Procs \ {p} :
             /\ pc'[r] = "allocating" => \A k \in 1 .. NSHARED : k < i'[r] => pool'[k] \in Frames
             /\ pc'[r] = "mapping" => \A k \in 1 .. NSHARED : pool'[k] \in Frames
    BY <1>2, <1>3, <1>4, <2>1 DEF OwnPool
  <2>7. /\ pc'[p] = "allocating" => \A k \in 1 .. NSHARED : k < i'[p] => pool'[k] \in Frames
        /\ pc'[p] = "mapping" => \A k \in 1 .. NSHARED : pool'[k] \in Frames
    BY <1>3, <2>4, <2>5
  <2>8. (\A r \in Procs : pc'[r] # "allocating") => \A k \in 1 .. NSHARED : pool'[k] \in Frames
    BY <1>3, <2>4
  <2>9. \A r \in Procs, v \in Region : vm[r].page[v] \in Frames \cup {None}
    BY <2>1 DEF OwnPool
  <2> QED BY <1>1, <1>4, <2>6, <2>7, <2>8, <2>9 DEF OwnPool
<1> QED BY <1>5, <1>6, <1>7, <1>9, <1>10, <1>11 DEF SpaceInv

(* A call that ends leaves a whole region or none, in the parent and the child.*)
LEMMA CallEnds ==
  ASSUME SpaceInv, NEW p \in Procs, pc[p] \in {"allocating", "mapping"}, variant' = variant,
         child' = child, UNCHANGED goal, NEW q \in Procs, q = Target(p),
         pc'[p] = (IF child[p] = None THEN "user" ELSE "copied"),
         \A r \in Procs \ {q} : vm'[r] = vm[r],
         vm'[q].sz = vm[q].sz,
         \A u \in Pages \ Region : vm'[q].page[u] = vm[q].page[u],
         \A u \in Region : vm'[q].page[u] # None => vm'[q].tab[SharedEntry] # None,
         \/ \A u \in Region : vm'[q].page[u] # None
         \/ (\A u \in Region : vm'[q].page[u] = None) /\ (child[p] # None => variant.mapFails = "error")
         \/ variant.mapFails = "ignored"
  PROVE  Local(p)'
<1>1. Region' = Region
  BY SameVariant
<1>2. /\ child[p] = None => q = p
      /\ child[p] # None => q = child[p] /\ q # p
  BY TargetFacts
<1>3. Shape(p) /\ Shape(q)
  BY DEF SpaceInv, Local
<1>4. Counter(p)' /\ Sharing(p)'
  BY DEF Counter, Sharing
<1>5. CASE child[p] = None
  <2>1. q = p /\ pc'[p] = "user" /\ child'[p] = None
    BY <1>2, <1>5
  <2>2. HeapIs(vm[p], RoundUp(vm[p].sz))
    BY <1>3 DEF Shape, Settled
  <2>3. HeapIs(vm[p], RoundUp(vm[p].sz))'
    BY <1>1, <2>1, <2>2 DEF HeapIs, RoundUp
  <2>4. (RegionNone(vm[p]) \/ RegionFull(vm[p]) \/ variant.mapFails = "ignored")'
    BY <1>1, <2>1 DEF RegionNone, RegionFull
  <2>5. Shape(p)'
    BY <1>1, <1>3, <2>1, <2>3, <2>4 DEF Shape, HasRegion
  <2> QED BY <1>4, <2>1, <2>5 DEF Local
<1>6. CASE child[p] # None
  <2>1. pc'[p] = "copied" /\ q = child[p] /\ q # p /\ vm'[p] = vm[p] /\ child'[p] = q
    BY <1>2, <1>6
  <2>2. ChildShape(p, vm[q])
    BY <1>6, <2>1 DEF SpaceInv, Local
  <2>3. variant.copy = "share" /\ HeapIs(vm[q], RoundUp(vm[p].sz))
    BY <2>2 DEF ChildShape
  <2>4. HeapIs(vm[q], RoundUp(vm[p].sz))'
    BY <1>1, <2>1, <2>3 DEF HeapIs, RoundUp
  <2>5. variant.mapFails # "ignored"
    BY <2>3, VariantFields, Functions
  <2>6. (RegionFull(vm[q]) \/ (RegionNone(vm[q]) /\ variant.mapFails = "error"))'
    BY <1>1, <1>6, <2>5 DEF RegionNone, RegionFull
  <2>7. ChildShape(p, vm[q])'
    BY <2>1, <2>3, <2>4, <2>6 DEF ChildShape
  <2>8. Shape(p)'
    BY <1>6, <2>1, SameShape DEF Settled
  <2> QED BY <1>4, <2>1, <2>7, <2>8 DEF Local
<1> QED BY <1>5, <1>6

LEMMA ReturnTypes ==
  ASSUME SpaceInv, NEW p \in Procs, Return(p)
  PROVE  /\ pc' \in [Procs -> PCs] /\ \A r \in Procs \ {p} : pc'[r] = pc[r]
         /\ pc'[p] = (IF child[p] = None THEN "user" ELSE "copied")
BY Functions DEF Return, Go, PCs

(* The kernel panics: nothing but the message changes.                         *)
LEMMA PanicKeeps ==
  ASSUME SpaceInv, panic' \in {"", "remap", "memory", "kfree"},
         UNCHANGED <<free, vm, pc, child, goal, i, pool, setup, holder, variant, leaked, overlap, spoiled>>
  PROVE  SpaceInv'
<1>1. TypeOK' /\ Children' /\ PoolType'
  BY DEF SpaceInv, TypeOK, Children, PoolType
<1>2. OwnPool'
  BY OwnPoolKeeps
<1>3. ASSUME NEW r \in Procs PROVE Local(r)'
  <2>1. Steady(r) /\ Local(r)
    BY DEF Steady, SpaceInv
  <2> QED BY <2>1, SteadyKeeps
<1> QED BY <1>1, <1>2, <1>3 DEF SpaceInv

LEMMA RollbackKeeps ==
  ASSUME SpaceInv, NEW p \in Procs, pc[p] = "allocating", variant.oom = "rollback",
         PageZero \notin {pool[k] : k \in 1 .. i[p] - 1},
         free' = free \cup {pool[k] : k \in 1 .. i[p] - 1},
         pool' = [k \in 1 .. NSHARED |-> IF k < i[p] THEN PageZero ELSE pool[k]],
         i' = [i EXCEPT ![p] = 0], Return(p),
         UNCHANGED <<vm, child, goal, setup, panic, holder, variant, leaked, overlap, spoiled>>
  PROVE  SpaceInv'
<1>1. /\ i' \in [Procs -> 0 .. 2 * NSHARED - 1] /\ i[p] \in 1 .. NSHARED
      /\ \A r \in Procs \ {p} : i'[r] = i[r]
  <2>1. 0 \in 0 .. 2 * NSHARED - 1
    BY SizeAssumption
  <2> QED BY <2>1, Functions DEF SpaceInv, Local, Counter
<1>2. pool' \in [1 .. NSHARED -> Value]
  BY Functions DEF Value
<1>3. free' \subseteq Frames
  <2>1. \A k \in 1 .. i[p] - 1 : k \in 1 .. NSHARED
    BY <1>1, SizeAssumption
  <2>2. \A k \in 1 .. NSHARED : pool[k] \in Frames \cup {PageZero}
    BY DEF SpaceInv, PoolType
  <2> QED BY <2>1, <2>2, Functions
<1>4. TypeOK'
  BY <1>1, <1>2, <1>3, ReturnTypes DEF SpaceInv, TypeOK
<1>5. PoolType'
  BY DEF SpaceInv, PoolType
<1>6. Children'
  BY ReturnTypes, ChildrenKeep
<1>7. \A r \in Procs \ {p} : Local(r)'
  <2>1. \A r \in Procs : child[r] # p
    BY Family
  <2> QED BY <1>1, <2>1, ReturnTypes, OthersKeepOne
<1>8. PICK q \in Procs : q = Target(p)
  BY TargetFacts
<1>9. Local(p)'
  <2>1. Sharing(p) /\ Shape(q)
    BY DEF SpaceInv, Local
  <2>2. /\ RegionNone(vm[q]) \/ RegionFull(vm[q]) \/ variant.mapFails = "ignored"
        /\ child[p] # None => RegionNone(vm[q])
    BY <1>8, <2>1 DEF Sharing, Virgin
  <2>3. child[p] # None => variant.mapFails = "error"
    <3>1. child[p] # None => variant.copy = "share"
      BY DEF SpaceInv, Local, ChildShape
    <3> QED BY <3>1, VariantFields, Functions
  <2>4. \A u \in Region : vm[q].page[u] # None => vm[q].tab[SharedEntry] # None
    BY <2>1 DEF Shape, HasRegion
  <2>5. pc'[p] = (IF child[p] = None THEN "user" ELSE "copied")
    BY ReturnTypes
  <2>6. /\ (\A r \in Procs \ {q} : vm'[r] = vm[r]) /\ vm'[q].sz = vm[q].sz
        /\ \A u \in Pages \ Region : vm'[q].page[u] = vm[q].page[u]
        /\ \A u \in Region : vm'[q].page[u] # None => vm'[q].tab[SharedEntry] # None
    BY <2>4
  <2>7. \/ \A u \in Region : vm'[q].page[u] # None
        \/ (\A u \in Region : vm'[q].page[u] = None) /\ (child[p] # None => variant.mapFails = "error")
        \/ variant.mapFails = "ignored"
    BY <2>2, <2>3 DEF RegionNone, RegionFull
  <2> QED BY <1>8, <2>5, <2>6, <2>7, CallEnds
<1>10. OwnPool'
  BY VariantFields, Functions DEF OwnPool, OwnRegion
<1> QED BY <1>4, <1>5, <1>6, <1>7, <1>9, <1>10 DEF SpaceInv

(* alanhumphrey goes on with the null pointer as if it were a page.            *)
LEMMA UncheckedKeeps ==
  ASSUME SpaceInv, NEW p \in Procs, pc[p] = "allocating", variant.oom = "unchecked",
         pool' = [pool EXCEPT ![i[p]] = NoMemory],
         i' = [i EXCEPT ![p] = IF @ < NSHARED THEN @ + 1 ELSE 1],
         setup' = (setup \/ i[p] = NSHARED),
         Go(p, IF i[p] < NSHARED THEN "allocating" ELSE "mapping"),
         UNCHANGED <<free, vm, child, goal, panic, holder, variant, leaked, overlap, spoiled>>
  PROVE  SpaceInv'
<1>2. i[p] \in 1 .. NSHARED /\ NSHARED \in Nat \ {0}
  BY SizeAssumption DEF SpaceInv, Local, Counter
<1>3. /\ pc' \in [Procs -> PCs] /\ i' \in [Procs -> 0 .. 2 * NSHARED - 1]
      /\ pc'[p] = (IF i[p] < NSHARED THEN "allocating" ELSE "mapping")
      /\ i'[p] = (IF i[p] < NSHARED THEN i[p] + 1 ELSE 1)
      /\ \A r \in Procs \ {p} : pc'[r] = pc[r] /\ i'[r] = i[r]
      /\ setup' \in BOOLEAN
  <2>1. setup \in BOOLEAN /\ pc \in [Procs -> PCs] /\ i \in [Procs -> 0 .. 2 * NSHARED - 1]
    BY Functions DEF TypeOK
  <2>2. (IF i[p] < NSHARED THEN i[p] + 1 ELSE 1) \in 0 .. 2 * NSHARED - 1
    BY <1>2
  <2>3. i' = [i EXCEPT ![p] = IF i[p] < NSHARED THEN i[p] + 1 ELSE 1]
    OBVIOUS
  <2> QED BY <2>1, <2>2, <2>3 DEF PCs, Go
<1>4. /\ pool' \in [1 .. NSHARED -> Value] /\ Region' = Region /\ Window' = Window
      /\ \A k \in 1 .. NSHARED : pool'[k] \in {pool[k], NoMemory}
  BY <1>2, Functions, SameVariant DEF Value
<1>5. TypeOK'
  BY <1>3, <1>4 DEF SpaceInv, TypeOK
<1>6. PoolType'
  BY <1>2, <1>4 DEF SpaceInv, PoolType
<1>7. Children'
  BY <1>3, ChildrenKeep
<1>8. \A r \in Procs : child[r] # p
  BY Family
<1>9. \A r \in Procs \ {p} : Local(r)'
  BY <1>3, <1>8, OthersKeepOne
<1>10. Local(p)'
  <2>1. Shape(p)'
    BY <1>3, SameShape DEF Settled, Resting
  <2>2. Counter(p)'
    <3>1. 1 \in 1 .. Len(Window)
      BY WindowFacts, Functions
    <3>2. Counter(p)
      BY DEF SpaceInv, Local
    <3>3. i[p] < NSHARED => i[p] + 1 \in 1 .. NSHARED
      BY <1>2
    <3> QED BY <1>3, <1>4, <3>1, <3>2, <3>3 DEF Counter
  <2>3. ASSUME child[p] # None PROVE ChildShape(p, vm[child[p]])'
    <3>1. ChildShape(p, vm[child[p]])
      BY <2>3 DEF SpaceInv, Local
    <3>2. /\ HeapIs(vm[child[p]], RoundUp(vm[p].sz))' = HeapIs(vm[child[p]], RoundUp(vm[p].sz))
          /\ RegionNone(vm[child[p]])' = RegionNone(vm[child[p]])
      BY <1>4 DEF HeapIs, RegionNone, RoundUp
    <3> QED BY <1>3, <3>1, <3>2 DEF ChildShape
  <2>4. Sharing(p)'
    <3>1. Target(p)' = Target(p) /\ vm' = vm /\ Virgin(p)' = Virgin(p)
      BY DEF Target, Virgin
    <3>2. RegionNone(vm[Target(p)])' = RegionNone(vm[Target(p)])
          /\ RegionFull(vm[Target(p)])' = RegionFull(vm[Target(p)])
      BY <1>4, <3>1 DEF RegionNone, RegionFull
    <3>3. \A w \in DOMAIN Window : HEAP + w - 1 \in Region /\ ~ (w < 1) /\ w >= 1
      BY WindowFacts, PageFacts, Functions
    <3>4. RegionNone(vm[Target(p)]) => \A w \in DOMAIN Window : PageAt(Target(p), w)' = None
      BY <3>1, <3>3 DEF PageAt, RegionNone
    <3>5. Sharing(p)
      BY DEF SpaceInv, Local
    <3> QED BY <1>3, <1>4, <3>1, <3>2, <3>3, <3>4, <3>5 DEF Sharing
  <2> QED BY <2>1, <2>2, <2>3, <2>4 DEF Local
<1>11. OwnPool'
  BY VariantFields, Functions DEF OwnPool, OwnRegion
<1> QED BY <1>5, <1>6, <1>7, <1>9, <1>10, <1>11 DEF SpaceInv

LEMMA AllocSharedFailKeeps ==
  ASSUME SpaceInv, NEW p \in Procs, AllocSharedFail(p)
  PROVE  SpaceInv'
<1>1. CASE variant.oom = "rollback" /\ PageZero \in {pool[k] : k \in 1 .. i[p] - 1}
  <2>1. /\ panic' = "kfree"
        /\ UNCHANGED <<free, vm, pc, child, goal, i, pool, setup, holder, variant, leaked, overlap, spoiled>>
    BY <1>1 DEF AllocSharedFail
  <2> QED BY <2>1, PanicKeeps
<1>2. CASE variant.oom = "rollback" /\ PageZero \notin {pool[k] : k \in 1 .. i[p] - 1}
  BY <1>2, RollbackKeeps DEF AllocSharedFail
<1>3. CASE variant.oom = "panic"
  <2>1. /\ panic' = "memory"
        /\ UNCHANGED <<free, vm, pc, child, goal, i, pool, setup, holder, variant, leaked, overlap, spoiled>>
    BY <1>3 DEF AllocSharedFail
  <2> QED BY <2>1, PanicKeeps
<1>4. CASE variant.oom = "unchecked"
  BY <1>4, UncheckedKeeps DEF AllocSharedFail
<1> QED BY <1>1, <1>2, <1>3, <1>4, VariantFields, Functions

(* The next page of the region: the call goes on, or ends.                     *)
LEMMA NextWindowTypes ==
  ASSUME SpaceInv, NEW p \in Procs, pc[p] = "mapping", NextWindow(p)
  PROVE  /\ pc' \in [Procs -> PCs] /\ i' \in [Procs -> 0 .. 2 * NSHARED - 1]
         /\ holder' \in Procs \cup {None}
         /\ \A r \in Procs \ {p} : pc'[r] = pc[r] /\ i'[r] = i[r] /\ (holder = r => holder' = r)
         /\ i[p] \in 1 .. WindowLen /\ i[p] \in Nat
         /\ i[p] = WindowLen => pc'[p] = (IF child[p] = None THEN "user" ELSE "copied")
         /\ i[p] # WindowLen => /\ pc'[p] = "mapping" /\ i'[p] = i[p] + 1
                                /\ i[p] + 1 \in 1 .. WindowLen
<1>1. i[p] \in 1 .. WindowLen /\ WindowLen \in Nat /\ WindowLen <= 2 * NSHARED - 1 /\ NSHARED \in Nat
      /\ Len(Window) = WindowLen
  BY WindowFacts, SizeAssumption, Functions DEF SpaceInv, Local, Counter
<1>2. holder \in Procs \cup {None}
  BY DEF SpaceInv, TypeOK
<1>3. CASE i[p] = WindowLen
  <2>1. i' = [i EXCEPT ![p] = 0] /\ Return(p) /\ Unlock(p)
    BY <1>1, <1>3 DEF NextWindow, Ended
  <2>2. 0 \in 0 .. 2 * NSHARED - 1
    BY <1>1
  <2> QED BY <1>1, <1>2, <1>3, <2>1, <2>2, ReturnTypes, Functions DEF Unlock
<1>4. CASE i[p] # WindowLen
  <2>1. i' = [i EXCEPT ![p] = i[p] + 1] /\ pc' = pc /\ holder' = holder
    BY <1>1, <1>4 DEF NextWindow, Ended
  <2>2. i[p] + 1 \in 0 .. 2 * NSHARED - 1 /\ i[p] + 1 \in 1 .. WindowLen /\ i[p] \in Nat
    BY <1>1, <1>4
  <2> QED BY <1>1, <1>2, <1>4, <2>1, <2>2, Functions
<1> QED BY <1>3, <1>4

LEMMA SharedPageType ==
  ASSUME SpaceInv, NEW p \in Procs, pc[p] = "mapping"
  PROVE  PoolPage(p) \in Value /\ PoolPage(p) # None /\ (OwnRegion => PoolPage(p) \in Frames)
<1>1. i[p] \in 1 .. WindowLen /\ Window[i[p]] \in 1 .. NSHARED
  BY WindowFacts, Functions DEF SpaceInv, Local, Counter
<1>2. PoolPage(p) \in Frames \cup {PageZero, NoMemory}
  BY <1>1 DEF SpaceInv, PoolType, PoolPage
<1>3. OwnRegion => PoolPage(p) \in Frames
  BY <1>1 DEF SpaceInv, OwnPool, PoolPage
<1> QED BY <1>2, <1>3, FrameValues DEF Value, None, PageZero, NoMemory

LEMMA MapSharedKeeps ==
  ASSUME SpaceInv, NEW p \in Procs, MapShared(p)
  PROVE  SpaceInv'
<1> DEFINE v == HEAP + i[p] - 1
<1>1. pc[p] = "mapping" /\ UNCHANGED <<child, goal, pool, setup, variant, leaked, overlap, spoiled>>
  BY DEF MapShared
<1>2. PICK q \in Procs : q = Target(p)
  BY <1>1, TargetFacts
<1>3. CASE v \in Mapped(q)
  <2>1. panic' \in {"", "remap", "memory", "kfree"}
    BY <1>2, <1>3, Functions DEF MapShared, Remap, TypeOK
  <2>2. UNCHANGED <<free, vm, pc, child, goal, i, pool, setup, holder, variant, leaked, overlap, spoiled>>
    BY <1>1, <1>2, <1>3 DEF MapShared
  <2> QED BY <2>1, <2>2, PanicKeeps
<1>4. CASE v \notin Mapped(q)
  <2>1. PICK t : /\ vm' = WithPage(q, v, PoolPage(p), t)
                 /\ vm[q].tab[Entry(v)] = None => t \in Frames
                 /\ free' \subseteq free /\ NextWindow(p) /\ panic' = panic
    <3>1. CASE Needs(q, v) = 1
      <4>1. /\ vm' = WithPage(q, v, PoolPage(p), None) /\ NextWindow(p) /\ UNCHANGED <<free, panic>>
        BY <1>2, <1>4, <3>1 DEF MapShared
      <4> QED BY <3>1, <4>1 DEF Needs
    <3>2. CASE Needs(q, v) = 2
      <4>1. /\ free # {}
            /\ vm' = WithPage(q, v, PoolPage(p), Lowest(free)) /\ NextWindow(p)
            /\ free' = free \ {Lowest(free)} /\ panic' = panic
        BY <1>2, <1>4, <3>2 DEF MapShared
      <4>2. Lowest(free) \in Frames
        BY <4>1, TakeOne, Functions
      <4> QED BY <4>1, <4>2
    <3> QED BY <3>1, <3>2 DEF Needs
  <2>2. /\ i[p] \in 1 .. WindowLen /\ v \in Region /\ v \in Pages /\ Entry(v) = SharedEntry
        /\ SharedEntry \in Entries
    <3>1. i[p] \in 1 .. WindowLen
      BY <1>1, <2>1, NextWindowTypes
    <3> QED BY <3>1, PageFacts, Functions
  <2>3. \A w \in 1 .. WindowLen : HEAP + w - 1 \in Region /\ HEAP + w - 1 \in Pages
                                  /\ (HEAP + w - 1 = v <=> w = i[p])
    <3>1. \A w \in 1 .. WindowLen : HEAP + w - 1 \in Region /\ HEAP + w - 1 \in Pages
      BY PageFacts, Functions
    <3>2. HEAP \in Nat /\ i[p] \in Nat
      BY <2>2, SizeAssumption, WindowFacts, Functions
    <3>3. WindowLen \in Nat
      BY WindowFacts, Functions
    <3> QED BY <3>1, <3>2, <3>3
  <2>4. \A u \in Region : u \in Pages /\ u - HEAP + 1 \in 1 .. WindowLen /\ u = HEAP + (u - HEAP + 1) - 1
    <3>1. \A u \in Region : u \in Pages /\ u - HEAP + 1 \in 1 .. WindowLen
      BY PageFacts, Functions
    <3>2. \A u \in Region : u \in Nat
      BY PageFacts, Functions
    <3>3. HEAP \in Nat /\ \A u \in Nat : u = HEAP + (u - HEAP + 1) - 1
      BY SizeAssumption
    <3> QED BY <3>1, <3>2, <3>3
  <2> HIDE DEF v
  <2>5. /\ OnlySpace(q) /\ vm'[q].sz = vm[q].sz
        /\ vm'[q].page[v] = PoolPage(p) /\ \A u \in Pages \ {v} : vm'[q].page[u] = vm[q].page[u]
        /\ \A e \in Entries :
             vm'[q].tab[e] = IF e = Entry(v) /\ vm[q].tab[e] = None THEN t ELSE vm[q].tab[e]
    <3>1. PoolPage(p) \in Value
      BY <1>1, SharedPageType
    <3>2. vm[q].tab[Entry(v)] = None => t \in Frames \cup {None}
      BY <2>1
    <3> QED BY <2>1, <2>2, <3>1, <3>2, Functions, WithPageEffect
  <2>6. /\ \A r \in Procs \ {q} : vm'[r] = vm[r]
        /\ vm'[q].tab[SharedEntry] # None /\ vm'[q].page[v] # None
        /\ Region' = Region /\ Window' = Window /\ WindowLen' = WindowLen
        /\ \A u \in Pages \ Region : vm'[q].page[u] = vm[q].page[u]
    BY <1>1, <2>1, <2>2, <2>5, SharedPageType, FrameValues, SameVariant DEF OnlySpace
  <2>7. /\ pc' \in [Procs -> PCs] /\ i' \in [Procs -> 0 .. 2 * NSHARED - 1]
        /\ holder' \in Procs \cup {None}
        /\ \A r \in Procs \ {p} : pc'[r] = pc[r] /\ i'[r] = i[r] /\ (holder = r => holder' = r)
        /\ i[p] = WindowLen => pc'[p] = (IF child[p] = None THEN "user" ELSE "copied")
        /\ i[p] # WindowLen => /\ pc'[p] = "mapping" /\ i'[p] = i[p] + 1
                               /\ i[p] + 1 \in 1 .. WindowLen
    BY <1>1, <2>1, NextWindowTypes
  <2>8. TypeOK'
    BY <1>1, <2>1, <2>5, <2>7 DEF SpaceInv, TypeOK, OnlySpace
  <2>9. PoolType'
    BY <1>1 DEF SpaceInv, PoolType
  <2>10. /\ \A r \in Procs : child[r] # p
         /\ child[p] = None => q = p
         /\ child[p] # None => q = child[p] /\ q # p
    BY <1>1, <1>2, TargetFacts
  <2>11. Children'
    BY <1>1, <2>7, ChildrenKeep
  <2>12. \A r \in Procs \ {p, q} : child[r] # q
    BY <2>10, Family
  <2>13. \A r \in Procs \ {p, q} : Local(r)'
    BY <1>1, <2>6, <2>7, <2>10, <2>12, OthersKeepTwo
  <2>14. Sharing(p) /\ Shape(p) /\ Shape(q) /\ Counter(p)
    BY DEF SpaceInv, Local
  <2>15. q # p => Local(q)'
    <3> SUFFICES ASSUME q # p PROVE Local(q)'
      OBVIOUS
    <3>1. pc[q] = "embryo" /\ child[q] = None
      BY <2>10, Family
    <3> QED BY <1>1, <2>6, <2>7, <2>14, <3>1, EmbryoLocal DEF Shape
  <2>16. variant.mapFails # "ignored" =>
          /\ \A w \in DOMAIN Window : w < i[p] => PageAt(q, w) # None
          /\ \A w \in DOMAIN Window : w >= i[p] => PageAt(q, w) = None
    <3>1. i[p] \in DOMAIN Window /\ PageAt(q, i[p]) = None
      BY <1>4, <2>2, WindowFacts, Functions DEF PageAt, v, Mapped
    <3>2. v \in Region /\ vm[q].page[v] = None
      BY <1>4, <2>2 DEF Mapped
    <3>3. ~ RegionFull(vm[q])
      BY <3>2 DEF RegionFull
    <3> QED BY <1>1, <1>2, <2>14, <3>3 DEF Sharing
  <2>17. DOMAIN Window = 1 .. WindowLen /\ WindowLen \in Nat
    BY WindowFacts, Functions
  <2>18. \A w \in 1 .. WindowLen : (w = i[p] => PageAt(q, w)' # None)
                                  /\ (w # i[p] => PageAt(q, w)' = PageAt(q, w))
    BY <2>3, <2>5, <2>6 DEF PageAt
  <2>19. Local(p)'
    <3>1. CASE i[p] = WindowLen
      <4>1. variant.mapFails # "ignored" => \A u \in Region : vm'[q].page[u] # None
        <5> SUFFICES ASSUME variant.mapFails # "ignored", NEW u \in Region PROVE vm'[q].page[u] # None
          OBVIOUS
        <5>1. PICK w \in 1 .. WindowLen : u = HEAP + w - 1
          BY <2>4
        <5>2. w = i[p] \/ w < i[p]
          BY <2>17, <3>1
        <5>3. PageAt(q, w)' # None
          BY <2>2, <2>16, <2>17, <2>18, <5>2
        <5> QED BY <5>1, <5>3 DEF PageAt
      <4>2. \A u \in Region : vm'[q].page[u] # None => vm'[q].tab[SharedEntry] # None
        BY <2>6
      <4>3. pc'[p] = (IF child[p] = None THEN "user" ELSE "copied")
        BY <2>7, <3>1
      <4>4. \/ \A u \in Region : vm'[q].page[u] # None
            \/ variant.mapFails = "ignored"
        BY <4>1
      <4> QED BY <1>1, <1>2, <2>5, <2>6, <4>2, <4>3, <4>4, CallEnds
    <3>2. CASE i[p] # WindowLen
      <4>1. pc'[p] = "mapping" /\ i'[p] = i[p] + 1 /\ i[p] + 1 \in 1 .. WindowLen /\ i[p] \in Nat
        BY <2>2, <2>7, <2>17, <3>2
      <4>2. Counter(p)'
        <5>1. Len(Window) = WindowLen
          BY WindowFacts, Functions
        <5> QED BY <1>1, <2>6, <2>14, <4>1, <5>1 DEF Counter
      <4>3. Target(p)' = q /\ Virgin(p)' = Virgin(p)
        BY <1>1, <1>2 DEF Target, Virgin
      <4>4. /\ \A w \in 1 .. WindowLen : w >= i[p] + 1 => w >= i[p] /\ w # i[p]
            /\ \A w \in 1 .. WindowLen : w < i[p] + 1 => w < i[p] \/ w = i[p]
        BY <2>17, <4>1
      <4>5. Virgin(p) => \A w \in 1 .. WindowLen : w >= i[p] + 1 => PageAt(q, w)' = None
        BY <1>1, <1>2, <2>14, <2>17, <2>18, <4>4 DEF Sharing
      <4>6. variant.mapFails # "ignored" =>
              /\ \A w \in 1 .. WindowLen : w < i[p] + 1 => PageAt(q, w)' # None
              /\ \A w \in 1 .. WindowLen : w >= i[p] + 1 => PageAt(q, w)' = None
        BY <2>16, <2>17, <2>18, <4>4
      <4>7. Sharing(p)'
        BY <1>1, <2>6, <2>17, <4>1, <4>3, <4>5, <4>6 DEF Sharing
      <4>8. Shape(p)'
        <5>1. CASE child[p] = None
          <6>1. q = p
            BY <2>10, <5>1
          <6>2. HeapIs(vm[p], RoundUp(vm[p].sz))
            BY <1>1, <2>14 DEF Shape, Settled
          <6>3. HeapIs(vm[p], RoundUp(vm[p].sz))'
            BY <2>5, <2>6, <6>1, <6>2 DEF HeapIs, RoundUp
          <6> QED BY <1>1, <2>6, <2>14, <4>1, <5>1, <6>1, <6>3 DEF Shape, HasRegion, Resting
        <5>2. CASE child[p] # None
          <6>1. vm'[p] = vm[p]
            BY <2>6, <2>10, <5>2
          <6> QED BY <1>1, <4>1, <5>2, <6>1, SameShape DEF Settled, Resting
        <5> QED BY <5>1, <5>2
      <4>9. ASSUME child[p] # None PROVE ChildShape(p, vm[child[p]])'
        <5>1. q = child[p] /\ vm'[p] = vm[p]
          BY <2>6, <2>10, <4>9
        <5>2. variant.copy = "share" /\ HeapIs(vm[q], RoundUp(vm[p].sz))
          BY <1>1, <4>9, <5>1 DEF SpaceInv, Local, ChildShape
        <5>3. HeapIs(vm[q], RoundUp(vm[p].sz))'
          BY <2>6, <5>1, <5>2 DEF HeapIs, RoundUp
        <5>4. ChildShape(p, vm[q])'
          BY <1>1, <4>1, <5>2, <5>3 DEF ChildShape
        <5> QED BY <1>1, <5>1, <5>4
      <4> QED BY <1>1, <4>2, <4>7, <4>8, <4>9 DEF Local
    <3> QED BY <3>1, <3>2
  <2>20. OwnPool'
    <3>1. OwnRegion => PoolPage(p) \in Frames
      BY <1>1, SharedPageType
    <3> SUFFICES ASSUME OwnRegion PROVE OwnPool'
      BY <1>1 DEF OwnPool, OwnRegion
    <3>2. \A r \in Procs, u \in Region :
            vm'[r].page[u] \in Frames \cup {None} \/ vm'[r].page[u] = vm[r].page[u]
      BY <2>4, <2>5, <2>6, <3>1
    <3>3. pc'[p] # "allocating"
      BY <2>7
    <3> QED BY <1>1, <2>7, <3>2, <3>3, OwnPoolKeeps
  <2> QED BY <2>8, <2>9, <2>11, <2>13, <2>15, <2>19, <2>20 DEF SpaceInv
<1> QED BY <1>3, <1>4

LEMMA MapSharedFailKeeps ==
  ASSUME SpaceInv, NEW p \in Procs, MapSharedFail(p)
  PROVE  SpaceInv'
<1>1. /\ pc[p] = "mapping" /\ ~HasRegion(Target(p))
      /\ UNCHANGED <<free, vm, child, goal, pool, setup, variant, leaked, overlap, spoiled>>
  BY DEF MapSharedFail
<1>2. PICK q \in Procs : q = Target(p)
  BY <1>1, TargetFacts
<1>3. /\ \A r \in Procs : child[r] # p
      /\ child[p] # None => q = child[p] /\ q # p
      /\ child[p] = None => q = p
  BY <1>1, <1>2, TargetFacts
<1>4. Shape(q) /\ Sharing(p) /\ Counter(p) /\ Shape(p)
  BY DEF SpaceInv, Local
<1>5. \A u \in Region : vm[q].page[u] = None
  BY <1>1, <1>2, <1>4 DEF Shape
<1>6. Region' = Region /\ Window' = Window
  BY <1>1, SameVariant
<1>7. ASSUME pc' \in [Procs -> PCs], i' \in [Procs -> 0 .. 2 * NSHARED - 1],
             holder' \in Procs \cup {None}, panic' = panic,
             \A r \in Procs \ {p} : pc'[r] = pc[r] /\ i'[r] = i[r] /\ (holder = r => holder' = r),
             pc'[p] = (IF child[p] = None THEN "user" ELSE "copied") \/ pc'[p] = "mapping"
      PROVE  /\ TypeOK' /\ PoolType' /\ Children' /\ OwnPool'
             /\ \A r \in Procs \ {p} : Local(r)'
  <2>1. TypeOK' /\ PoolType'
    BY <1>1, <1>7 DEF SpaceInv, TypeOK, PoolType
  <2>2. Children'
    BY <1>1, <1>7, ChildrenKeep
  <2>3. OwnPool'
    BY <1>1, <1>7, OwnPoolKeeps
  <2>4. \A r \in Procs \ {p} : Local(r)'
    BY <1>1, <1>3, <1>7, OthersKeepOne
  <2> QED BY <2>1, <2>2, <2>3, <2>4
<1>8. CASE variant.mapFails = "panic"
  <2>1. /\ panic' = "memory"
        /\ UNCHANGED <<free, vm, pc, child, goal, i, pool, setup, holder, variant, leaked, overlap, spoiled>>
    BY <1>1, <1>8 DEF MapSharedFail
  <2> QED BY <2>1, PanicKeeps
<1>9. ASSUME pc'[p] = (IF child[p] = None THEN "user" ELSE "copied"),
             variant.mapFails \in {"error", "ignored"}, child[p] # None => variant.mapFails = "error"
      PROVE  Local(p)'
  <2>1. /\ \A r \in Procs \ {q} : vm'[r] = vm[r]
        /\ vm'[q].sz = vm[q].sz
        /\ \A u \in Pages \ Region : vm'[q].page[u] = vm[q].page[u]
        /\ \A u \in Region : vm'[q].page[u] # None => vm'[q].tab[SharedEntry] # None
        /\ \/ (\A u \in Region : vm'[q].page[u] = None) /\ (child[p] # None => variant.mapFails = "error")
           \/ variant.mapFails = "ignored"
    BY <1>1, <1>5, <1>9
  <2> QED BY <1>1, <1>2, <1>9, <2>1, CallEnds
<1>10. child[p] # None => variant.copy = "share"
  BY <1>1 DEF SpaceInv, Local, ChildShape
<1>11. CASE variant.mapFails = "error"
  <2>1. i' = [i EXCEPT ![p] = 0] /\ Return(p) /\ Unlock(p) /\ panic' = panic
    BY <1>11 DEF MapSharedFail
  <2>2. /\ i' \in [Procs -> 0 .. 2 * NSHARED - 1] /\ holder' \in Procs \cup {None}
        /\ \A r \in Procs \ {p} : pc'[r] = pc[r] /\ i'[r] = i[r] /\ (holder = r => holder' = r)
    <3>1. 0 \in 0 .. 2 * NSHARED - 1
      BY SizeAssumption
    <3>2. holder \in Procs \cup {None}
      BY DEF SpaceInv, TypeOK
    <3> QED BY <2>1, <3>1, <3>2, ReturnTypes, Functions DEF Unlock
  <2>3. pc'[p] = (IF child[p] = None THEN "user" ELSE "copied") /\ pc' \in [Procs -> PCs]
    BY <2>1, ReturnTypes
  <2>4. Local(p)'
    BY <1>9, <1>11, <2>3
  <2> QED BY <1>7, <2>1, <2>2, <2>3, <2>4 DEF SpaceInv
<1>12. CASE variant.mapFails = "ignored"
  <2>1. NextWindow(p) /\ panic' = panic
    BY <1>12 DEF MapSharedFail
  <2>2. child[p] = None /\ q = p
    BY <1>3, <1>10, <1>12, VariantFields, Functions
  <2>3. /\ pc' \in [Procs -> PCs] /\ i' \in [Procs -> 0 .. 2 * NSHARED - 1]
        /\ holder' \in Procs \cup {None}
        /\ \A r \in Procs \ {p} : pc'[r] = pc[r] /\ i'[r] = i[r] /\ (holder = r => holder' = r)
        /\ i[p] = WindowLen => pc'[p] = (IF child[p] = None THEN "user" ELSE "copied")
        /\ i[p] # WindowLen => /\ pc'[p] = "mapping" /\ i'[p] = i[p] + 1
                               /\ i[p] + 1 \in 1 .. WindowLen
    BY <1>1, <2>1, NextWindowTypes
  <2>4. CASE i[p] = WindowLen
    <3>1. Local(p)'
      BY <1>9, <1>12, <2>2, <2>3, <2>4
    <3> QED BY <1>7, <2>1, <2>3, <2>4, <3>1 DEF SpaceInv
  <2>5. CASE i[p] # WindowLen
    <3>1. Counter(p)'
      <4>1. Len(Window) = WindowLen
        BY WindowFacts, Functions
      <4> QED BY <1>1, <1>4, <1>6, <2>3, <2>5, <4>1 DEF Counter
    <3>2. Shape(p)'
      BY <1>1, <1>12, <2>3, <2>5, SettledShape DEF Settled
    <3>3. Sharing(p)'
      <4>1. \A w \in DOMAIN Window : PageAt(q, w)' = None
        <5>1. \A w \in DOMAIN Window : HEAP + w - 1 \in Region
          BY WindowFacts, PageFacts, Functions
        <5> QED BY <1>1, <1>5, <5>1 DEF PageAt
      <4>2. Target(p)' = q
        BY <1>1, <1>2 DEF Target
      <4> QED BY <1>1, <1>6, <1>12, <2>3, <2>5, <4>1, <4>2 DEF Sharing
    <3>4. Local(p)'
      BY <1>1, <2>2, <3>1, <3>2, <3>3 DEF Local
    <3> QED BY <1>7, <2>1, <2>3, <2>5, <3>4 DEF SpaceInv
  <2> QED BY <2>4, <2>5
<1> QED BY <1>8, <1>11, <1>12, VariantFields, Functions

LEMMA StutterKeeps ==
  ASSUME SpaceInv, UNCHANGED vars
  PROVE  SpaceInv'
<1>1. panic' \in {"", "remap", "memory", "kfree"}
  BY Functions DEF vars, TypeOK
<1>2. UNCHANGED <<free, vm, pc, child, goal, i, pool, setup, holder, variant, leaked, overlap, spoiled>>
  BY DEF vars
<1> QED BY <1>1, <1>2, PanicKeeps

LEMMA SpaceStep ==
  ASSUME SpaceInv, [Next]_vars
  PROVE  SpaceInv'
<1>1. ASSUME NEW p \in Procs, Step(p) PROVE SpaceInv'
  <2>1. CASE Grow(p) \/ GrowPage(p) \/ GrowDone(p) \/ GrowFail(p) \/ Shrink(p) \/ ShrinkFail(p)
    BY <2>1, GrowKeeps, GrowPageKeeps, GrowDoneKeeps, GrowFailKeeps, ShrinkKeeps, ShrinkFailKeeps
  <2>2. CASE Fork(p) \/ CopyDir(p) \/ CopyPage(p) \/ ForkFail(p) \/ ForkDone(p)
    BY <2>2, ForkKeeps, CopyDirKeeps, CopyPageKeeps, ForkFailKeeps, ForkDoneKeeps
  <2>3. CASE Attach(p) \/ AllocShared(p) \/ AllocSharedFail(p) \/ MapShared(p) \/ MapSharedFail(p)
    BY <2>3, AttachKeeps, AllocSharedKeeps, AllocSharedFailKeeps, MapSharedKeeps, MapSharedFailKeeps
  <2>4. CASE Exit(p) \/ Reap(p)
    BY <2>4, ExitKeeps, ReapKeeps
  <2> QED BY <1>1, <2>1, <2>2, <2>3, <2>4 DEF Step
<1> QED BY <1>1, StutterKeeps DEF Next

(* The control of every process, its counters and the form of its space.       *)
LEMMA SpaceInvHolds == Spec => []SpaceInv
<1>1. Init => SpaceInv
  BY InitKeeps
<1>2. SpaceInv /\ [Next]_vars => SpaceInv'
  BY SpaceStep
<1> QED BY <1>1, <1>2, PTL DEF Spec

(* Every variable has its type: what kalloc() hands out are frames, and no     *)
(* interleaving leads kfree() or a page table to anything else.                *)
THEOREM TypeCorrect == Spec => []TypeOK
<1>1. SpaceInv => TypeOK
  BY DEF SpaceInv
<1> QED BY <1>1, SpaceInvHolds, PTL

(* In user mode a process has exactly the pages of its size, and the whole     *)
(* shared region or nothing of it, whatever failed before; but none of its own *)
(* after a growproc() that was asked for size 0.                               *)
THEOREM WholeSpacesHolds == Spec => []WholeSpaces
<1>1. ASSUME SpaceInv PROVE WholeSpaces
  <2> SUFFICES ASSUME NEW p \in Procs, pc[p] \in {"user", "emptied"}
               PROVE  /\ Mapped(p) \ Region = IF pc[p] = "emptied" THEN {} ELSE 0 .. RoundUp(vm[p].sz) - 1
                      /\ Mapped(p) \cap Region \in {{}, Region} \/ variant.mapFails = "ignored"
    BY DEF WholeSpaces
  <2>1. Shape(p)
    BY <1>1 DEF SpaceInv, Local
  <2>2. /\ RoundUp(vm[p].sz) \in 0 .. HEAP /\ HEAP \in Nat /\ 0 .. HEAP - 1 \subseteq Pages \ Region
        /\ Region \subseteq Pages
    BY <1>1, SpaceTypes, SizeAssumption, PageFacts, Functions
  <2>3. pc[p] = "user" => \A u \in Pages \ Region : vm[p].page[u] # None <=> u < RoundUp(vm[p].sz)
    BY <2>1 DEF Shape, Settled, HeapIs
  <2>4. ASSUME pc[p] = "user", NEW u \in 0 .. RoundUp(vm[p].sz) - 1 PROVE u \in Mapped(p) \ Region
    <3>1. u \in 0 .. HEAP - 1 /\ u < RoundUp(vm[p].sz)
      BY <2>2
    <3> QED BY <2>2, <2>3, <2>4, <3>1 DEF Mapped
  <2>5. ASSUME pc[p] = "user", NEW u \in Mapped(p) \ Region PROVE u \in 0 .. RoundUp(vm[p].sz) - 1
    <3>1. u \in Pages \ Region /\ vm[p].page[u] # None
      BY DEF Mapped
    <3>2. u \in Nat /\ u < RoundUp(vm[p].sz)
      BY <1>1, <2>3, <2>5, <3>1, PageIsNat, Functions
    <3> QED BY <2>2, <3>2
  <2>6. pc[p] = "user" => Mapped(p) \ Region = 0 .. RoundUp(vm[p].sz) - 1
    BY <2>4, <2>5
  <2>7. pc[p] = "emptied" => Mapped(p) \ Region = {}
    <3>1. ASSUME pc[p] = "emptied", NEW u \in Pages \ Region PROVE vm[p].page[u] = None
      <4>1. u \in Nat
        BY <1>1, PageIsNat, Functions
      <4>2. vm[p].page[u] # None <=> u < 0
        BY <2>1, <3>1 DEF Shape, HeapIs
      <4> QED BY <4>1, <4>2
    <3> QED BY <3>1 DEF Mapped
  <2>8. Mapped(p) \cap Region \in {{}, Region} \/ variant.mapFails = "ignored"
    BY <2>1, <2>2 DEF Shape, Resting, RegionNone, RegionFull, Mapped
  <2> QED BY <2>6, <2>7, <2>8
<1> QED BY <1>1, SpaceInvHolds, PTL

-----------------------------------------------------------------------------
(* A child comes into its own when ForkDone() says so, and with ForkFail() it  *)
(* is gone: no other step takes it from its parent.                            *)
LEMMA OnlyForkEnds ==
  ASSUME SpaceInv, [Next]_vars, NEW p \in Procs, child[p] # None, child'[p] = None
  PROVE  ForkDone(p) \/ ForkFail(p)
<1>1. child' # child
  OBVIOUS
<1>2. PICK r \in Procs : Step(r)
  BY <1>1 DEF Next, vars
<1>3. CASE Fork(r)
  <2>1. PICK q \in Procs : child' = [child EXCEPT ![r] = q]
    BY <1>3 DEF Fork
  <2>2. child' \in [Procs -> Procs \cup {None}] /\ None \notin Procs
    BY <2>1, Functions, SizeAssumption DEF Procs, None
  <2>3. child'[p] = IF p = r THEN q ELSE child[p]
    BY <2>1, Functions
  <2> QED BY <2>2, <2>3
<1>4. CASE ForkDone(r)
  <2>1. child' = [child EXCEPT ![r] = None]
    BY <1>4 DEF ForkDone
  <2>2. p = r
    BY <2>1, Functions
  <2> QED BY <1>4, <2>2
<1>5. CASE ForkFail(r)
  <2>1. child' = [child EXCEPT ![r] = None]
    BY <1>5 DEF ForkFail
  <2>2. p = r
    BY <2>1, Functions
  <2> QED BY <1>5, <2>2
<1>6. CASE ~ Fork(r) /\ ~ ForkDone(r) /\ ~ ForkFail(r)
  <2>1. child' = child
    BY <1>2, <1>6 DEF Step, Grow, GrowPage, GrowDone, GrowFail, Shrink, ShrinkFail, CopyDir, CopyPage, Attach,
       AllocShared, AllocSharedFail, MapShared, MapSharedFail, Exit, Reap
  <2> QED BY <1>1, <2>1
<1> QED BY <1>3, <1>4, <1>5, <1>6

(* A fork that returns to a parent with shared pages has given the child all   *)
(* of the region, or, where the call may return an error, none of it.          *)
THEOREM ChildInheritsHolds == Spec => ChildInherits
<1> DEFINE Inherits(p) ==
       /\ child[p] # None /\ child'[p] = None /\ pc'[child[p]] = "user"
       /\ variant.copy = "share" /\ HasRegion(p)
       => \/ Region \subseteq Mapped(child[p])
          \/ variant.mapFails = "error" /\ Region \cap Mapped(child[p]) = {}
<1>1. ASSUME SpaceInv, [Next]_vars, NEW p \in Procs PROVE Inherits(p)
  <2> SUFFICES ASSUME child[p] # None, child'[p] = None, pc'[child[p]] = "user",
                      variant.copy = "share", HasRegion(p)
               PROVE  \/ Region \subseteq Mapped(child[p])
                      \/ variant.mapFails = "error" /\ Region \cap Mapped(child[p]) = {}
    OBVIOUS
  <2>1. PICK q \in Procs : q = child[p]
    BY <1>1, Family
  <2>2. ~ ForkFail(p)
    <3> SUFFICES ASSUME ForkFail(p) PROVE FALSE
      OBVIOUS
    <3>1. pc' = [pc EXCEPT ![p] = "user", ![q] = "unused"]
      BY <2>1 DEF ForkFail
    <3> QED BY <1>1, <2>1, <3>1, Functions
  <2>3. ForkDone(p)
    BY <1>1, <2>2, OnlyForkEnds
  <2>4. pc[p] = "copied"
    BY <2>3 DEF ForkDone, PassesRegion, RegionToCopy
  <2>5. RegionFull(vm[q]) \/ (RegionNone(vm[q]) /\ variant.mapFails = "error")
    BY <1>1, <2>1, <2>4, ForkDoneShape
  <2>6. Region \subseteq Pages
    BY <1>1, PageFacts, Functions
  <2> QED BY <2>1, <2>5, <2>6 DEF RegionFull, RegionNone, Mapped
<1>2. SpaceInv /\ [Next]_vars => [\A p \in Procs : Inherits(p)]_vars
  BY <1>1
<1> QED BY <1>2, SpaceInvHolds, PTL DEF Spec, ChildInherits
==============================================================================
