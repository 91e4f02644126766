-------------------------- MODULE PageFrames_proofs --------------------------
(* What holds of the page frames of assignment 7, for any number of processes, *)
(* frames and pages: who shares pages sees the same ones, and every frame      *)
(* serves one purpose at a time and is never lost, as long as the student's    *)
(* code promises anything (Broken says where it does not).                     *)
EXTENDS AddressSpace_proofs

(* Who allocates the shared pages is alone with them, the pages are there from *)
(* then on, and before that nobody has mapped any.                             *)
NoAlloc == \A p \in Procs : pc[p] # "allocating"
PoolInv ==
  variant.first # "always" =>
    /\ \A p, q \in Procs : p # q /\ pc[p] = "allocating" => pc[q] \notin {"allocating", "mapping"}
    /\ \A p \in Procs : pc[p] = "mapping" => ~FirstTime
    /\ \A p \in Procs : pc[p] = "allocating" =>
         /\ \A k \in 1 .. NSHARED : pool[k] = PageZero <=> k >= i[p]
         /\ variant.first = "after" => ~setup
         /\ variant.first = "before" => setup
    /\ NoAlloc => \A k \in 1 .. NSHARED : pool[k] = PageZero <=> FirstTime
    /\ variant.first = "never" => ~setup
    /\ FirstTime \/ ~NoAlloc => \A p \in Procs : RegionNone(vm[p])
    /\ OwnRegion \/ \A p \in Procs, w \in DOMAIN Window : PageAt(p, w) \in {None, pool[Window[w]]}

(* Fresh pages are of one call at a time, and then of one process.             *)
Seen(p) == FramesOf(p, Region)
FreshInv ==
  variant.first = "always" =>
    /\ \A p, q \in Procs : Exposed(p) /\ Exposed(q) => p = q
    /\ \A p, q \in Procs : p # q => Seen(p) \cap Seen(q) = {}
    /\ \A p, q \in Procs : Exposed(p) /\ q # Target(p) => Seen(q) \cap PoolFrames = {}
    /\ \A p \in Procs : pc[p] = "mapping" =>
         \A w \in DOMAIN Window : w < i[p] => PageAt(Target(p), w) = pool[Window[w]]

(* The places of a process that refer to frames of its own, and these frames.  *)
Slots == {<<"kstack", 0>>, <<"dir", 0>>, <<"ktab", 0>>}
         \cup {<<"tab", e>> : e \in Entries} \cup {<<"page", v>> : v \in 0 .. HEAP - 1}
At(x, s) ==
  IF s[1] = "kstack" THEN x.kstack
  ELSE IF s[1] = "dir" THEN x.dir
  ELSE IF s[1] = "ktab" THEN x.ktab
  ELSE IF s[1] = "tab" THEN x.tab[s[2]] ELSE x.page[s[2]]
Held(p) == {At(vm[p], s) : s \in Slots} \ {None}
HeldOnce(p) == \A s, t \in Slots : At(vm[p], s) = At(vm[p], t) /\ At(vm[p], s) # None => s = t
Tidy(p) == \A v \in Pages \ Region : v >= HEAP => vm[p].page[v] = None
AllHeld == UNION {Held(p) : p \in Procs}

Running == panic = ""
FrameInv ==
  /\ \A p \in Procs : Tidy(p) /\ HeldOnce(p) /\ Held(p) \cap (free \cup SharedFrames) = {}
  /\ \A p, q \in Procs : p # q => Held(p) \cap Held(q) = {}
  /\ free \cap SharedFrames = {}
  /\ Running => /\ leaked \cap (free \cup SharedFrames \cup AllHeld) = {}
                   /\ Frames \subseteq free \cup SharedFrames \cup AllHeld \cup leaked

Calm ==
  /\ panic = "remap" => ~variant.guard
  /\ panic = "kfree" => variant.oom = "unchecked"
Sound == PoolInv /\ FreshInv /\ FrameInv /\ Calm

-----------------------------------------------------------------------------
(* The places of a process, and what a step does to the frames they refer to.  *)
LEMMA SlotNames ==
  /\ <<"kstack", 0>> \in Slots /\ <<"dir", 0>> \in Slots /\ <<"ktab", 0>> \in Slots
  /\ \A e \in Entries : <<"tab", e>> \in Slots
  /\ \A v \in 0 .. HEAP - 1 : <<"page", v>> \in Slots
  /\ \A s \in Slots : \/ s = <<"kstack", 0>> \/ s = <<"dir", 0>> \/ s = <<"ktab", 0>>
                      \/ \E e \in Entries : s = <<"tab", e>>
                      \/ \E v \in 0 .. HEAP - 1 : s = <<"page", v>>
BY DEF Slots

LEMMA SlotValues ==
  ASSUME NEW x
  PROVE  /\ At(x, <<"kstack", 0>>) = x.kstack /\ At(x, <<"dir", 0>>) = x.dir
         /\ At(x, <<"ktab", 0>>) = x.ktab
         /\ \A e : At(x, <<"tab", e>>) = x.tab[e]
         /\ \A v : At(x, <<"page", v>>) = x.page[v]
BY DEF At

LEMMA SlotFrames ==
  ASSUME SpaceInv, NEW q \in Procs, NEW s \in Slots
  PROVE  At(vm[q], s) \in Frames \cup {None}
<1>1. vm[q] \in Space /\ vm[q].tab \in [Entries -> Frames \cup {None}]
  BY SpaceTypes, Functions
<1>2. vm[q].kstack \in Frames \cup {None} /\ vm[q].dir \in Frames \cup {None}
      /\ vm[q].ktab \in Frames \cup {None}
  BY <1>1 DEF Space
<1>3. \A v \in 0 .. HEAP - 1 : vm[q].page[v] \in Frames \cup {None}
  BY PageFacts, Functions DEF SpaceInv, Local, Shape
<1> QED BY <1>1, <1>2, <1>3, SlotNames, SlotValues

LEMMA HeldFrames ==
  ASSUME SpaceInv, NEW q \in Procs
  PROVE  Held(q) \subseteq Frames
BY SlotFrames DEF Held

LEMMA SameAt ==
  ASSUME NEW q, NEW D,
         <<"kstack", 0>> \notin D => vm'[q].kstack = vm[q].kstack,
         <<"dir", 0>> \notin D => vm'[q].dir = vm[q].dir,
         <<"ktab", 0>> \notin D => vm'[q].ktab = vm[q].ktab,
         \A e \in Entries : <<"tab", e>> \notin D => vm'[q].tab[e] = vm[q].tab[e],
         \A v \in 0 .. HEAP - 1 : <<"page", v>> \notin D => vm'[q].page[v] = vm[q].page[v]
  PROVE  \A s \in Slots \ D : At(vm'[q], s) = At(vm[q], s)
<1> SUFFICES ASSUME NEW s \in Slots \ D PROVE At(vm'[q], s) = At(vm[q], s)
  OBVIOUS
<1> QED BY SlotNames, SlotValues

LEMMA BelowHeap ==
  ASSUME NEW v \in 0 .. HEAP - 1
  PROVE  ~ (v >= HEAP)
BY SizeAssumption

LEMMA HeldSame ==
  ASSUME NEW q, \A s \in Slots : At(vm'[q], s) = At(vm[q], s)
  PROVE  Held(q)' = Held(q) /\ HeldOnce(q)' = HeldOnce(q)
BY DEF Held, HeldOnce

(* A place gets a frame, ...                                                   *)
LEMMA HeldTake ==
  ASSUME NEW q, NEW s \in Slots, NEW f, HeldOnce(q), f \notin Held(q), f # None,
         At(vm[q], s) = None, At(vm'[q], s) = f,
         \A t \in Slots \ {s} : At(vm'[q], t) = At(vm[q], t)
  PROVE  Held(q)' = Held(q) \cup {f} /\ HeldOnce(q)'
<1>1. \A t \in Slots \ {s} : At(vm[q], t) # f
  BY DEF Held
<1>2. HeldOnce(q)'
  <2> SUFFICES ASSUME NEW t \in Slots, NEW u \in Slots, At(vm'[q], t) = At(vm'[q], u),
                      At(vm'[q], u) # None
               PROVE  t = u
    BY DEF HeldOnce
  <2> QED BY <1>1 DEF HeldOnce
<1>3. Held(q)' = {At(vm'[q], t) : t \in Slots} \ {None}
  BY DEF Held
<1>4. \A x : x \in Held(q)' <=> x # None /\ \E t \in Slots : x = At(vm'[q], t)
  BY <1>3
<1>5. \A x : x \in Held(q) <=> x # None /\ \E t \in Slots : x = At(vm[q], t)
  BY DEF Held
<1>6. \A x : x \in Held(q)' <=> x \in Held(q) \/ x = f
  BY <1>4, <1>5
<1> QED BY <1>2, <1>6

(* ... or two places get one each, ...                                         *)
LEMMA HeldTakeTwo ==
  ASSUME NEW q, NEW s \in Slots, NEW u \in Slots, s # u, NEW f, NEW g, f # g, HeldOnce(q),
         f \notin Held(q), f # None, g \notin Held(q), g # None,
         At(vm[q], s) = None, At(vm'[q], s) = f, At(vm[q], u) = None, At(vm'[q], u) = g,
         \A t \in Slots \ {s, u} : At(vm'[q], t) = At(vm[q], t)
  PROVE  Held(q)' = Held(q) \cup {f, g} /\ HeldOnce(q)'
<1>1. \A t \in Slots \ {s, u} : At(vm[q], t) # f /\ At(vm[q], t) # g
  BY DEF Held
<1>2. HeldOnce(q)'
  <2> SUFFICES ASSUME NEW t \in Slots, NEW w \in Slots, At(vm'[q], t) = At(vm'[q], w),
                      At(vm'[q], w) # None
               PROVE  t = w
    BY DEF HeldOnce
  <2> QED BY <1>1 DEF HeldOnce
<1>3. Held(q)' = {At(vm'[q], t) : t \in Slots} \ {None}
  BY DEF Held
<1>4. \A x : x \in Held(q)' <=> x # None /\ \E t \in Slots : x = At(vm'[q], t)
  BY <1>3
<1>5. \A x : x \in Held(q) <=> x # None /\ \E t \in Slots : x = At(vm[q], t)
  BY DEF Held
<1>6. \A x : x \in Held(q)' <=> x \in Held(q) \/ x = f \/ x = g
  BY <1>4, <1>5
<1> QED BY <1>2, <1>6

(* ... or places D lose theirs, or all do.                                     *)
LEMMA HeldGive ==
  ASSUME NEW q, NEW D \in SUBSET Slots, HeldOnce(q),
         \A s \in D : At(vm'[q], s) = None,
         \A s \in Slots \ D : At(vm'[q], s) = At(vm[q], s)
  PROVE  Held(q)' = Held(q) \ {At(vm[q], s) : s \in D} /\ HeldOnce(q)'
<1>1. HeldOnce(q)'
  BY DEF HeldOnce
<1>2. Held(q)' = {At(vm'[q], t) : t \in Slots} \ {None}
  BY DEF Held
<1>3. \A x : x \in Held(q)' <=> x # None /\ \E t \in Slots : x = At(vm'[q], t)
  BY <1>2
<1>4. \A x : x \in Held(q) <=> x # None /\ \E t \in Slots : x = At(vm[q], t)
  BY DEF Held
<1>5. ASSUME NEW x
      PROVE  x \in Held(q)' <=> x \in Held(q) /\ ~ \E s \in D : x = At(vm[q], s)
  <2>1. ASSUME x \in Held(q)' PROVE x \in Held(q) /\ ~ \E s \in D : x = At(vm[q], s)
    <3>1. PICK t \in Slots : x = At(vm'[q], t) /\ x # None
      BY <1>3, <2>1
    <3>2. t \notin D /\ x = At(vm[q], t)
      BY <3>1
    <3> QED BY <1>4, <3>1, <3>2 DEF HeldOnce
  <2>2. ASSUME x \in Held(q), ~ \E s \in D : x = At(vm[q], s) PROVE x \in Held(q)'
    BY <1>3, <1>4, <2>2
  <2> QED BY <2>1, <2>2
<1> QED BY <1>1, <1>5

LEMMA HeldBlank ==
  ASSUME SpaceInv, variant' = variant, NEW q, vm'[q] = Blank
  PROVE  Held(q)' = {} /\ HeldOnce(q)' /\ Tidy(q)' /\ Seen(q)' = {}
<1>1. \A s \in Slots : At(Blank, s) = None
  <2>1. \A v \in 0 .. HEAP - 1 : v \in Pages
    BY SizeAssumption DEF Pages
  <2> QED BY <2>1, SlotNames, SlotValues, BlankSpace
<1>2. \A s \in Slots : At(vm'[q], s) = None
  BY <1>1
<1>3. Held(q)' = {} /\ HeldOnce(q)'
  BY <1>2 DEF Held, HeldOnce
<1>4. Tidy(q)'
  BY BlankSpace DEF Tidy
<1>5. \A v \in Region' : vm'[q].page[v] = None
  BY SameVariant, PageFacts, Functions, BlankSpace
<1>6. Seen(q)' = {}
  BY <1>5 DEF Seen, FramesOf
<1> QED BY <1>3, <1>4, <1>6

(* A process's frames are those of its heap, its page tables and its roots, ... *)
LEMMA HeldParts ==
  ASSUME NEW q
  PROVE  Held(q) = FramesOf(q, 0 .. HEAP - 1) \cup Tables(q) \cup ({vm[q].dir, vm[q].kstack} \ {None})
<1>1. \A x : x \in Held(q) <=> x # None /\ \E t \in Slots : x = At(vm[q], t)
  BY DEF Held
<1> DEFINE R == FramesOf(q, 0 .. HEAP - 1) \cup Tables(q) \cup ({vm[q].dir, vm[q].kstack} \ {None})
<1>2. \A x : x \in R <=> x # None /\ \/ \E v \in 0 .. HEAP - 1 : x = vm[q].page[v]
                                     \/ x = vm[q].ktab \/ \E e \in Entries : x = vm[q].tab[e]
                                     \/ x = vm[q].dir \/ x = vm[q].kstack
  BY DEF FramesOf, Tables
<1> HIDE DEF R
<1>3. ASSUME NEW x PROVE x \in Held(q) => x \in R
  <2> SUFFICES ASSUME x \in Held(q) PROVE x \in R
    OBVIOUS
  <2>1. PICK t \in Slots : x = At(vm[q], t) /\ x # None
    BY <1>1
  <2> QED BY <1>2, <2>1, SlotNames, SlotValues
<1>4. ASSUME NEW x PROVE x \in R => x \in Held(q)
  <2> SUFFICES ASSUME x \in R PROVE x \in Held(q)
    OBVIOUS
  <2>1. x # None
    BY <1>2
  <2>2. CASE x = vm[q].ktab \/ x = vm[q].dir \/ x = vm[q].kstack
    BY <1>1, <2>1, <2>2, SlotNames, SlotValues
  <2>3. ASSUME NEW v \in 0 .. HEAP - 1, x = vm[q].page[v] PROVE x \in Held(q)
    <3>1. <<"page", v>> \in Slots /\ At(vm[q], <<"page", v>>) = x
      BY <2>3, SlotNames, SlotValues
    <3> QED BY <1>1, <2>1, <3>1
  <2>4. ASSUME NEW e \in Entries, x = vm[q].tab[e] PROVE x \in Held(q)
    <3>1. <<"tab", e>> \in Slots /\ At(vm[q], <<"tab", e>>) = x
      BY <2>4, SlotNames, SlotValues
    <3> QED BY <1>1, <2>1, <3>1
  <2> QED BY <1>2, <2>2, <2>3, <2>4
<1>5. Held(q) = R
  BY <1>3, <1>4
<1> QED BY <1>5 DEF R

(* ... and freevm() walks over the heap, and over the region unless it keeps it. *)
LEMMA WalkedFrames ==
  ASSUME SpaceInv, NEW q \in Procs, Tidy(q)
  PROVE  /\ FramesOf(q, Walked(q)) =
              FramesOf(q, 0 .. HEAP - 1) \cup (IF variant.keep THEN {} ELSE Seen(q))
         /\ FramesOf(q, Mapped(q) \ Walked(q)) = IF variant.keep THEN Seen(q) ELSE {}
         /\ FramesOf(q, Mapped(q)) = FramesOf(q, 0 .. HEAP - 1) \cup Seen(q)
         /\ FramesOf(q, Mapped(q) \cap Region) = Seen(q)
         /\ FramesOf(q, 0 .. HEAP - 1) \subseteq Held(q)
<1> DEFINE H == 0 .. HEAP - 1
<1>1. /\ Region \subseteq Pages /\ H \subseteq Pages \ Region
      /\ Pages \subseteq Nat /\ HEAP \in Nat
  BY PageFacts, Functions, SizeAssumption
<1>2. ASSUME NEW v \in Pages, vm[q].page[v] # None PROVE v \in H \/ v \in Region
  <2>1. v \in Nat /\ (v \notin Region => ~ (v >= HEAP))
    BY <1>1, <1>2 DEF Tidy
  <2> QED BY <1>1, <2>1
<1>3. \A S : \A x : x \in FramesOf(q, S) <=> x # None /\ \E v \in S : x = vm[q].page[v]
  BY DEF FramesOf
<1>4. \A v : v \in Mapped(q) <=> v \in Pages /\ vm[q].page[v] # None
  BY DEF Mapped
<1>5. \A v : v \in Mapped(q) => v \in H \/ v \in Region
  BY <1>2, <1>4
<1>6. \A v \in H : vm[q].page[v] # None => v \in Mapped(q) /\ v \notin Region
  BY <1>1, <1>4
<1>7. \A v \in Region : vm[q].page[v] # None => v \in Mapped(q)
  BY <1>1, <1>4
<1>8. \A v : v \in Walked(q) <=> v \in Mapped(q) /\ (v \in Region => ~variant.keep)
  BY DEF Walked
<1> HIDE DEF H
<1>9. \A x : x \in FramesOf(q, Walked(q)) <=>
         x \in FramesOf(q, H) \/ (x \in FramesOf(q, Region) /\ ~variant.keep)
  BY <1>3, <1>5, <1>6, <1>7, <1>8
<1>10. \A x : x \in FramesOf(q, Mapped(q) \ Walked(q)) <=> x \in FramesOf(q, Region) /\ variant.keep
  BY <1>3, <1>5, <1>6, <1>7, <1>8
<1>11. \A x : x \in FramesOf(q, Mapped(q)) <=> x \in FramesOf(q, H) \/ x \in FramesOf(q, Region)
  BY <1>3, <1>5, <1>6, <1>7
<1>12. \A x : x \in FramesOf(q, Mapped(q) \cap Region) <=> x \in FramesOf(q, Region)
  BY <1>3, <1>7
<1>13. FramesOf(q, H) \subseteq Held(q)
  BY HeldParts DEF H
<1>14. FramesOf(q, Walked(q)) = FramesOf(q, H) \cup (IF variant.keep THEN {} ELSE FramesOf(q, Region))
  BY <1>9
<1>15. FramesOf(q, Mapped(q) \ Walked(q)) = IF variant.keep THEN FramesOf(q, Region) ELSE {}
  BY <1>10
<1>16. FramesOf(q, Mapped(q)) = FramesOf(q, H) \cup FramesOf(q, Region)
  BY <1>11
<1>17. FramesOf(q, Mapped(q) \cap Region) = FramesOf(q, Region)
  BY <1>12
<1> QED BY <1>13, <1>14, <1>15, <1>16, <1>17 DEF H, Seen

LEMMA Shares ==
  ASSUME SpaceInv, \A p \in Procs : Tidy(p)
  PROVE  SharedFrames = (PoolFrames \cup UNION {Seen(p) : p \in Procs}) \cap Frames
<1>1. \A p \in Procs : FramesOf(p, Mapped(p) \cap Region) = Seen(p)
  BY WalkedFrames
<1> QED BY <1>1 DEF SharedFrames

(* Frames change hands between one process, the free list, the shared pages    *)
(* and what is lost: nobody else is affected.                                  *)
LEMMA Apart ==
  ASSUME FrameInv, NEW q \in Procs
  PROVE  /\ Held(q) \cap free = {} /\ Held(q) \cap SharedFrames = {} /\ free \cap SharedFrames = {}
         /\ HeldOnce(q) /\ Tidy(q)
         /\ Running => /\ leaked \cap free = {} /\ leaked \cap SharedFrames = {}
                          /\ leaked \cap Held(q) = {}
<1>1. Held(q) \subseteq AllHeld
  BY DEF AllHeld
<1> QED BY <1>1 DEF FrameInv

(* If what q, the free list, the shared pages and the lost frames have between *)
(* them stays the same, and stays apart, the frames are in order.              *)
LEMMA Redistribute ==
  ASSUME FrameInv, Running, NEW q \in Procs,
         \A r \in Procs \ {q} : Held(r)' = Held(r) /\ HeldOnce(r)' /\ Tidy(r)',
         HeldOnce(q)', Tidy(q)',
         Held(q)' \cap free' = {}, Held(q)' \cap SharedFrames' = {}, free' \cap SharedFrames' = {},
         leaked' \cap free' = {}, leaked' \cap SharedFrames' = {}, leaked' \cap Held(q)' = {},
         free' \cup SharedFrames' \cup leaked' \cup Held(q)' =
           free \cup SharedFrames \cup leaked \cup Held(q)
  PROVE  FrameInv'
<1> DEFINE O == UNION {Held(r) : r \in Procs \ {q}}
           A == free \cup SharedFrames \cup leaked \cup Held(q)
           A2 == free' \cup SharedFrames' \cup leaked' \cup Held(q)'
<1>1. \A r \in Procs \ {q} : Held(r) \subseteq O
  OBVIOUS
<1>2. AllHeld = Held(q) \cup O
  BY DEF AllHeld
<1>3. AllHeld' = Held(q)' \cup O
  BY DEF AllHeld
<1>4. O \cap A = {} /\ Frames \subseteq A \cup O
  <2>1. \A r \in Procs \ {q} : Held(r) \cap free = {} /\ Held(r) \cap SharedFrames = {}
                               /\ Held(r) \cap Held(q) = {}
    BY DEF FrameInv
  <2>2. \A r \in Procs \ {q} : Held(r) \cap leaked = {}
    BY <1>1, <1>2 DEF FrameInv
  <2>3. O \cap free = {} /\ O \cap SharedFrames = {} /\ O \cap Held(q) = {} /\ O \cap leaked = {}
    <3>1. \A x \in O : \E r \in Procs \ {q} : x \in Held(r)
      OBVIOUS
    <3> HIDE DEF O
    <3> QED BY <2>1, <2>2, <3>1
  <2>4. Frames \subseteq A \cup O
    BY <1>2 DEF FrameInv
  <2> QED BY <2>3, <2>4
<1> HIDE DEF O
<1>5. O \cap A2 = {} /\ Frames \subseteq A2 \cup O
  BY <1>4
<1>6. \A r, t \in Procs : r # t => (Held(r) \cap Held(t) = {})'
  <2>1. ASSUME NEW r \in Procs \ {q} PROVE (Held(r) \cap Held(q) = {})'
    BY <1>1, <1>5
  <2>2. ASSUME NEW r \in Procs \ {q}, NEW t \in Procs \ {q}, r # t
        PROVE  (Held(r) \cap Held(t) = {})'
    BY <2>2 DEF FrameInv
  <2> QED BY <2>1, <2>2
<1>7. \A r \in Procs : (Tidy(r) /\ HeldOnce(r) /\ Held(r) \cap (free \cup SharedFrames) = {})'
  BY <1>1, <1>5
<1>8. (leaked \cap (free \cup SharedFrames \cup AllHeld) = {}
      /\ Frames \subseteq free \cup SharedFrames \cup AllHeld \cup leaked)'
  BY <1>3, <1>5
<1> QED BY <1>6, <1>7, <1>8 DEF FrameInv

LEMMA HeldOthers ==
  ASSUME FrameInv, variant' = variant, NEW r \in Procs, vm'[r] = vm[r]
  PROVE  Held(r)' = Held(r) /\ HeldOnce(r)' /\ Tidy(r)' /\ Seen(r)' = Seen(r)
<1>1. Region' = Region
  BY SameVariant
<1>2. HeldOnce(r) /\ Tidy(r)
  BY DEF FrameInv
<1>3. Tidy(r)' /\ Seen(r)' = Seen(r)
  BY <1>1, <1>2 DEF Tidy, Seen, FramesOf
<1> QED BY <1>2, <1>3, HeldSame

-----------------------------------------------------------------------------
(* Steps that have no part in the call that shares pages.                      *)
InCall(p) == pc[p] \in {"allocating", "mapping"}
Aside ==
  /\ variant' = variant /\ pool' = pool /\ setup' = setup
  /\ \A p \in Procs : /\ pc'[p] = "allocating" <=> pc[p] = "allocating"
                      /\ pc'[p] = "mapping" <=> pc[p] = "mapping"
                      /\ InCall(p) => i'[p] = i[p] /\ child'[p] = child[p]
  /\ \A p \in Procs, v \in Region :
       \/ vm'[p].page[v] = vm[p].page[v]
       \/ vm'[p].page[v] = None /\ \A r \in Procs : InCall(r) => p # Target(r)
       \/ variant.copy = "duplicate" /\ \E r \in Procs : vm[r].page[v] # None

LEMMA PoolTypes ==
  ASSUME SpaceInv
  PROVE  /\ {pool[k] : k \in 1 .. NSHARED} \subseteq Frames \cup {PageZero, NoMemory}
         /\ variant.first = "always" => PoolFrames \subseteq Frames
         /\ variant.first # "always" => PoolFrames = {pool[k] : k \in 1 .. NSHARED}
<1>1. {pool[k] : k \in 1 .. NSHARED} \subseteq Frames \cup {PageZero, NoMemory}
  BY DEF SpaceInv, PoolType
<1>2. ASSUME variant.first = "always" PROVE PoolFrames \subseteq Frames
  <2>1. ASSUME NEW n \in 1 .. NSHARED, NEW q \in Procs,
               pc[q] = "mapping" \/ (pc[q] = "allocating" /\ n < i[q])
        PROVE  pool[n] \in Frames
    BY <1>2, <2>1 DEF SpaceInv, OwnPool, OwnRegion
  <2> QED BY <1>2, <2>1 DEF PoolFrames
<1> QED BY <1>1, <1>2 DEF PoolFrames

LEMMA PoolStays ==
  ASSUME variant' = variant, pool' = pool,
         variant.first = "always" =>
           \A p \in Procs : /\ pc'[p] = "allocating" <=> pc[p] = "allocating"
                            /\ pc'[p] = "mapping" <=> pc[p] = "mapping"
                            /\ InCall(p) => i'[p] = i[p]
  PROVE  PoolFrames' = PoolFrames
<1>1. CASE variant.first # "always"
  BY <1>1 DEF PoolFrames
<1>2. CASE variant.first = "always"
  <2> DEFINE N == {n \in 1 .. NSHARED :
                     \E q \in Procs : pc[q] = "mapping" \/ (pc[q] = "allocating" /\ n < i[q])}
             N2 == {n \in 1 .. NSHARED :
                     \E q \in Procs : pc'[q] = "mapping" \/ (pc'[q] = "allocating" /\ n < i'[q])}
  <2>1. N2 = N
    BY <1>2 DEF InCall
  <2>2. PoolFrames = {pool[k] : k \in N} /\ PoolFrames' = {pool[k] : k \in N2}
    BY <1>2 DEF PoolFrames
  <2> QED BY <2>1, <2>2
<1> QED BY <1>1, <1>2

LEMMA PoolAside ==
  ASSUME SpaceInv, PoolInv, Aside
  PROVE  PoolInv'
<1> SUFFICES ASSUME variant.first # "always"
             PROVE  (/\ \A p, q \in Procs : p # q /\ pc[p] = "allocating" => pc[q] \notin {"allocating", "mapping"}
                     /\ \A p \in Procs : pc[p] = "mapping" => ~FirstTime
                     /\ \A p \in Procs : pc[p] = "allocating" =>
                          /\ \A k \in 1 .. NSHARED : pool[k] = PageZero <=> k >= i[p]
                          /\ variant.first = "after" => ~setup
                          /\ variant.first = "before" => setup
                     /\ NoAlloc => \A k \in 1 .. NSHARED : pool[k] = PageZero <=> FirstTime
                     /\ variant.first = "never" => ~setup
                     /\ FirstTime \/ ~NoAlloc => \A p \in Procs : RegionNone(vm[p])
                     /\ OwnRegion \/ \A p \in Procs, w \in DOMAIN Window :
                                       PageAt(p, w) \in {None, pool[Window[w]]})'
  BY DEF PoolInv, Aside
<1>1. /\ Region' = Region /\ Window' = Window /\ FirstTime' = FirstTime /\ NoAlloc' = NoAlloc
      /\ OwnRegion' = OwnRegion
  BY SameVariant DEF Aside, FirstTime, NoAlloc, OwnRegion
<1>2. /\ \A p, q \in Procs : p # q /\ pc'[p] = "allocating" => pc'[q] \notin {"allocating", "mapping"}
      /\ \A p \in Procs : pc'[p] = "mapping" => ~FirstTime
      /\ \A p \in Procs : pc'[p] = "allocating" =>
           /\ \A k \in 1 .. NSHARED : pool'[k] = PageZero <=> k >= i'[p]
           /\ variant.first = "after" => ~setup
           /\ variant.first = "before" => setup
      /\ NoAlloc => \A k \in 1 .. NSHARED : pool'[k] = PageZero <=> FirstTime
      /\ variant.first = "never" => ~setup
  BY DEF PoolInv, Aside, InCall
<1>3. ASSUME FirstTime \/ ~NoAlloc, NEW p \in Procs PROVE RegionNone(vm[p])'
  <2>1. \A r \in Procs, v \in Region : vm[r].page[v] = None
    BY <1>3 DEF PoolInv, RegionNone
  <2>2. \A v \in Region : vm'[p].page[v] = None
    BY <2>1 DEF Aside
  <2> QED BY <1>1, <2>2 DEF RegionNone
<1>4. ASSUME ~OwnRegion, NEW p \in Procs, NEW w \in DOMAIN Window
      PROVE  PageAt(p, w)' \in {None, pool[Window[w]]}
  <2>1. HEAP + w - 1 \in Region
    BY PageFacts, WindowFacts, Functions
  <2>2. PageAt(p, w) \in {None, pool[Window[w]]}
    BY <1>4 DEF PoolInv
  <2> QED BY <1>4, <2>1, <2>2 DEF Aside, PageAt, OwnRegion
<1>5. variant' = variant /\ setup' = setup /\ pool' = pool
  BY DEF Aside
<1> QED BY <1>1, <1>2, <1>3, <1>4, <1>5

LEMMA FreshAside ==
  ASSUME SpaceInv, FreshInv, Aside
  PROVE  FreshInv'
<1> SUFFICES ASSUME variant.first = "always"
             PROVE  (/\ \A p, q \in Procs : Exposed(p) /\ Exposed(q) => p = q
                     /\ \A p, q \in Procs : p # q => Seen(p) \cap Seen(q) = {}
                     /\ \A p, q \in Procs : Exposed(p) /\ q # Target(p) => Seen(q) \cap PoolFrames = {}
                     /\ \A p \in Procs : pc[p] = "mapping" =>
                          \A w \in DOMAIN Window : w < i[p] => PageAt(Target(p), w) = pool[Window[w]])'
  BY DEF FreshInv, Aside
<1>0. variant.copy # "duplicate"
  BY VariantFields, Functions
<1>1. Region' = Region /\ Window' = Window /\ PoolFrames' = PoolFrames
  BY SameVariant, PoolStays DEF Aside
<1>2. \A p \in Procs : (Exposed(p)' <=> Exposed(p)) /\ (Exposed(p) => InCall(p) /\ Target(p)' = Target(p))
  BY DEF Aside, Exposed, InCall, Target
<1>3. ASSUME NEW p \in Procs PROVE Seen(p)' \subseteq Seen(p)
  <2>1. \A v \in Region : vm'[p].page[v] = vm[p].page[v] \/ vm'[p].page[v] = None
    BY <1>0 DEF Aside
  <2> QED BY <1>1, <2>1 DEF Seen, FramesOf
<1>4. \A p, q \in Procs : Exposed(p)' /\ Exposed(q)' => p = q
  BY <1>2 DEF FreshInv
<1>5. \A p, q \in Procs : p # q => Seen(p)' \cap Seen(q)' = {}
  <2>1. \A p, q \in Procs : p # q => Seen(p) \cap Seen(q) = {}
    BY DEF FreshInv
  <2> QED BY <1>3, <2>1
<1>6. \A p, q \in Procs : Exposed(p)' /\ q # Target(p)' => Seen(q)' \cap PoolFrames' = {}
  <2>1. \A p, q \in Procs : Exposed(p) /\ q # Target(p) => Seen(q) \cap PoolFrames = {}
    BY DEF FreshInv
  <2> QED BY <1>1, <1>2, <1>3, <2>1
<1>7. ASSUME NEW p \in Procs, pc'[p] = "mapping", NEW w \in DOMAIN Window, w < i'[p]
      PROVE  PageAt(Target(p), w)' = pool[Window[w]]
  <2>1. pc[p] = "mapping" /\ InCall(p) /\ i'[p] = i[p] /\ Target(p)' = Target(p)
    BY <1>7 DEF Aside, InCall, Target
  <2>2. PICK q \in Procs : q = Target(p)
    BY <2>1, TargetFacts
  <2>3. PageAt(q, w) = pool[Window[w]]
    BY <1>7, <2>1, <2>2 DEF FreshInv
  <2>4. HEAP + w - 1 \in Region
    BY PageFacts, WindowFacts, Functions
  <2>5. vm'[q].page[HEAP + w - 1] = vm[q].page[HEAP + w - 1]
    BY <1>0, <2>1, <2>2, <2>4 DEF Aside
  <2> QED BY <2>1, <2>2, <2>3, <2>5 DEF PageAt
<1>8. pool' = pool
  BY DEF Aside
<1> QED BY <1>1, <1>4, <1>5, <1>6, <1>7, <1>8

LEMMA SharesAfter ==
  ASSUME SpaceInv, variant' = variant
  PROVE  SharedFrames' = (PoolFrames' \cup UNION {Seen(p)' : p \in Procs}) \cap Frames
<1>1. Region' = Region /\ Region \subseteq Pages
  BY SameVariant, PageFacts, Functions
<1>2. ASSUME NEW p \in Procs PROVE FramesOf(p, Mapped(p) \cap Region)' = Seen(p)'
  <2>1. \A v : v \in (Mapped(p) \cap Region)' <=> v \in Region /\ vm'[p].page[v] # None
    BY <1>1 DEF Mapped
  <2>2. \A x : x \in FramesOf(p, Mapped(p) \cap Region)' <=>
                 x # None /\ \E v \in Region : vm'[p].page[v] # None /\ x = vm'[p].page[v]
    BY <2>1 DEF FramesOf
  <2>3. \A x : x \in Seen(p)' <=> x # None /\ \E v \in Region : x = vm'[p].page[v]
    BY <1>1 DEF Seen, FramesOf
  <2> QED BY <2>2, <2>3
<1>3. SharedFrames' = (PoolFrames' \cup UNION {FramesOf(p, Mapped(p) \cap Region)' : p \in Procs}) \cap Frames
  BY DEF SharedFrames
<1> QED BY <1>2, <1>3

LEMMA SharesStay ==
  ASSUME SpaceInv, FrameInv, variant' = variant, PoolFrames' = PoolFrames,
         \A p \in Procs : Seen(p)' = Seen(p)
  PROVE  SharedFrames' = SharedFrames
<1>1. SharedFrames = (PoolFrames \cup UNION {Seen(p) : p \in Procs}) \cap Frames
  BY Shares DEF FrameInv
<1> QED BY <1>1, SharesAfter

(* Steps of fork() and growproc() that take frames from the free list ...      *)
LEMMA Taken ==
  ASSUME SpaceInv, Sound, Aside, Running, panic' = panic, leaked' = leaked, NEW q \in Procs,
         \A r \in Procs \ {q} : vm'[r] = vm[r], Seen(q)' = Seen(q),
         Tidy(q)', HeldOnce(q)',
         NEW T, T \subseteq free, free' = free \ T, Held(q)' = Held(q) \cup T
  PROVE  Sound'
<1>1. variant' = variant
  BY DEF Aside
<1>2. PoolInv' /\ FreshInv'
  BY PoolAside, FreshAside DEF Sound
<1>3. \A r \in Procs \ {q} : Held(r)' = Held(r) /\ HeldOnce(r)' /\ Tidy(r)' /\ Seen(r)' = Seen(r)
  BY <1>1, HeldOthers DEF Sound
<1>4. SharedFrames' = SharedFrames
  <2>1. PoolFrames' = PoolFrames
    BY PoolStays DEF Aside
  <2> QED BY <1>1, <1>3, <2>1, SharesStay DEF Sound
<1>5. /\ Held(q) \cap free = {} /\ Held(q) \cap SharedFrames = {} /\ free \cap SharedFrames = {}
      /\ leaked \cap free = {} /\ leaked \cap SharedFrames = {} /\ leaked \cap Held(q) = {}
  BY Apart DEF Sound
<1>6. FrameInv'
  <2>1. /\ Held(q)' \cap free' = {} /\ Held(q)' \cap SharedFrames' = {}
        /\ free' \cap SharedFrames' = {}
        /\ leaked' \cap free' = {} /\ leaked' \cap SharedFrames' = {} /\ leaked' \cap Held(q)' = {}
    BY <1>4, <1>5
  <2>2. free' \cup SharedFrames' \cup leaked' \cup Held(q)' =
          free \cup SharedFrames \cup leaked \cup Held(q)
    BY <1>4
  <2> QED BY <1>3, <2>1, <2>2, Redistribute DEF Sound
<1>7. Calm'
  BY <1>1 DEF Calm, Sound
<1> QED BY <1>2, <1>6, <1>7 DEF Sound

(* ... or give them back.                                                      *)
LEMMA Given ==
  ASSUME SpaceInv, Sound, Aside, Running, panic' = panic, leaked' = leaked, NEW q \in Procs,
         \A r \in Procs \ {q} : vm'[r] = vm[r], Seen(q)' = Seen(q),
         Tidy(q)', HeldOnce(q)',
         NEW G, G \subseteq Held(q), free' = free \cup G, Held(q)' = Held(q) \ G
  PROVE  Sound'
<1>1. variant' = variant
  BY DEF Aside
<1>2. PoolInv' /\ FreshInv'
  BY PoolAside, FreshAside DEF Sound
<1>3. \A r \in Procs \ {q} : Held(r)' = Held(r) /\ HeldOnce(r)' /\ Tidy(r)' /\ Seen(r)' = Seen(r)
  BY <1>1, HeldOthers DEF Sound
<1>4. SharedFrames' = SharedFrames
  <2>1. PoolFrames' = PoolFrames
    BY PoolStays DEF Aside
  <2> QED BY <1>1, <1>3, <2>1, SharesStay DEF Sound
<1>5. /\ Held(q) \cap free = {} /\ Held(q) \cap SharedFrames = {} /\ free \cap SharedFrames = {}
      /\ leaked \cap free = {} /\ leaked \cap SharedFrames = {} /\ leaked \cap Held(q) = {}
  BY Apart DEF Sound
<1>6. FrameInv'
  <2>1. /\ Held(q)' \cap free' = {} /\ Held(q)' \cap SharedFrames' = {}
        /\ free' \cap SharedFrames' = {}
        /\ leaked' \cap free' = {} /\ leaked' \cap SharedFrames' = {} /\ leaked' \cap Held(q)' = {}
    BY <1>4, <1>5
  <2>2. free' \cup SharedFrames' \cup leaked' \cup Held(q)' =
          free \cup SharedFrames \cup leaked \cup Held(q)
    BY <1>4
  <2> QED BY <1>3, <2>1, <2>2, Redistribute DEF Sound
<1>7. Calm'
  BY <1>1 DEF Calm, Sound
<1> QED BY <1>2, <1>6, <1>7 DEF Sound

LEMMA Untouched ==
  ASSUME SpaceInv, Sound, Aside, Running, UNCHANGED <<panic, leaked, free>>, NEW q \in Procs,
         \A r \in Procs \ {q} : vm'[r] = vm[r], SameRoots(q),
         vm'[q].tab = vm[q].tab, vm'[q].page = vm[q].page
  PROVE  Sound'
<1>1. Region' = Region /\ HeldOnce(q) /\ Tidy(q)
  BY SameVariant, Apart DEF Aside, Sound
<1>2. Tidy(q)' /\ Seen(q)' = Seen(q)
  BY <1>1 DEF Tidy, Seen, FramesOf
<1>3. \A s \in Slots : At(vm'[q], s) = At(vm[q], s)
  <2> DEFINE D == {}
  <2>1. \A s \in Slots : s \in Slots \ D
    OBVIOUS
  <2> HIDE DEF D
  <2> QED BY <2>1, SameAt DEF SameRoots
<1>4. Held(q)' = Held(q) /\ HeldOnce(q)'
  BY <1>1, <1>3, HeldSame
<1> DEFINE T == {}
<1>5. T \subseteq free /\ free' = free \ T /\ Held(q)' = Held(q) \cup T
  BY <1>4
<1> HIDE DEF T
<1> QED BY <1>2, <1>4, <1>5, Taken

LEMMA ExitSound ==
  ASSUME SpaceInv, Sound, Running, NEW p \in Procs, Exit(p)
  PROVE  Sound'
<1>1. /\ pc[p] \in {"user", "emptied"} /\ pc' = [pc EXCEPT ![p] = "zombie"]
      /\ UNCHANGED <<free, vm, child, goal, panic, variant, leaked, spoiled, i, pool, setup, holder, overlap>>
  BY DEF Exit, Go, UntouchedShare
<1>2. Aside
  BY <1>1, Functions DEF Aside
<1> QED BY <1>1, <1>2, Untouched DEF SameRoots

LEMMA GrowSound ==
  ASSUME SpaceInv, Sound, Running, NEW p \in Procs, Grow(p)
  PROVE  Sound'
<1>1. /\ pc[p] = "user" /\ pc' = [pc EXCEPT ![p] = "growing"]
      /\ UNCHANGED <<free, vm, child, panic, variant, leaked, spoiled, i, pool, setup, holder, overlap>>
  BY DEF Grow, Go, UntouchedShare
<1>2. Aside
  BY <1>1, Functions DEF Aside
<1> QED BY <1>1, <1>2, Untouched DEF SameRoots

LEMMA GrowDoneSound ==
  ASSUME SpaceInv, Sound, Running, NEW p \in Procs, GrowDone(p)
  PROVE  Sound'
<1>1. /\ pc[p] = "growing" /\ pc' = [pc EXCEPT ![p] = "user"] /\ vm' = [vm EXCEPT ![p].sz = goal[p]]
      /\ UNCHANGED <<free, child, panic, variant, leaked, spoiled, i, pool, setup, holder, overlap>>
  BY DEF GrowDone, UntouchedShare, Go
<1>2. OnlySpace(p) /\ SameRoots(p) /\ vm'[p].tab = vm[p].tab /\ vm'[p].page = vm[p].page
  BY <1>1, Functions, SizeEffect
<1>3. \A r \in Procs : vm'[r].page = vm[r].page
  BY <1>2 DEF OnlySpace
<1>4. Aside
  BY <1>1, <1>3, Functions DEF Aside
<1> QED BY <1>1, <1>2, <1>4, Untouched DEF OnlySpace

LEMMA ForkDoneSound ==
  ASSUME SpaceInv, Sound, Running, NEW p \in Procs, ForkDone(p)
  PROVE  Sound'
<1>0. child[p] \in Procs /\ child[p] # None
  BY Family DEF SpaceInv, Children, ForkDone, AllCopied
<1> PICK q \in Procs : q = child[p]
  BY <1>0
<1>1. /\ pc[p] \in {"copying", "copied"}
      /\ vm' = [vm EXCEPT ![q].sz = vm[p].sz] /\ child' = [child EXCEPT ![p] = None]
      /\ pc' = [pc EXCEPT ![p] = "user", ![q] = "user"]
      /\ UNCHANGED <<free, goal, panic, variant, leaked, spoiled, i, pool, setup, holder, overlap>>
  BY DEF ForkDone, UntouchedShare, AllCopied
<1>2. pc[q] = "embryo"
  BY <1>0, Family
<1>3. OnlySpace(q) /\ SameRoots(q) /\ vm'[q].tab = vm[q].tab /\ vm'[q].page = vm[q].page
  BY <1>1, SpaceTypes, Functions, SizeEffect
<1>4. \A r \in Procs : vm'[r].page = vm[r].page
  BY <1>3 DEF OnlySpace
<1>5. Aside
  BY <1>1, <1>2, <1>4, Functions DEF Aside, InCall
<1> QED BY <1>1, <1>3, <1>5, Untouched DEF OnlySpace

(* A heap page, and a page table for it where there is none.                   *)
GetsPage(q, v) ==
  /\ UNCHANGED <<pc, child, variant, i, pool, setup, panic, leaked>>
  /\ v \in 0 .. HEAP - 1 /\ v \notin Mapped(q) /\ Cardinality(free) >= Needs(q, v)
  /\ vm' = WithPage(q, v, Lowest(free), Second(free))
  /\ free' = free \ ({Lowest(free)} \cup IF Needs(q, v) = 2 THEN {Second(free)} ELSE {})

(* growproc() and copyuvm() take it alike.                                     *)
LEMMA HeapPage ==
  ASSUME SpaceInv, Sound, Running, NEW q \in Procs, NEW v \in 0 .. HEAP - 1, GetsPage(q, v)
  PROVE  Sound'
<1>1. v \in Pages /\ v \notin Region /\ Region \subseteq Pages /\ Entry(v) \in Entries
  BY PageFacts, Functions
<1>2. /\ Lowest(free) \in free /\ Lowest(free) \in Frames
      /\ vm[q].tab[Entry(v)] = None =>
           Second(free) \in free /\ Second(free) \in Frames /\ Second(free) # Lowest(free)
  <2>1. Cardinality(free) >= Needs(q, v)
    BY DEF GetsPage
  <2> QED BY <1>1, <2>1, NewPage, Functions
<1>3. /\ OnlySpace(q) /\ SameRoots(q)
      /\ vm'[q].page[v] = Lowest(free) /\ \A u \in Pages \ {v} : vm'[q].page[u] = vm[q].page[u]
      /\ \A e \in Entries :
           vm'[q].tab[e] = IF e = Entry(v) /\ vm[q].tab[e] = None THEN Second(free) ELSE vm[q].tab[e]
  <2>1. Lowest(free) \in Value /\ (vm[q].tab[Entry(v)] = None => Second(free) \in Frames \cup {None})
    BY <1>2, FrameValues
  <2>2. vm \in [Procs -> Space] /\ vm' = WithPage(q, v, Lowest(free), Second(free))
    BY Functions DEF GetsPage
  <2> QED BY <1>1, <2>1, <2>2, WithPageEffect
<1>4. \A r \in Procs \ {q} : vm'[r] = vm[r]
  BY <1>3 DEF OnlySpace
<1>5. \A u \in Region : vm'[q].page[u] = vm[q].page[u]
  BY <1>1, <1>3
<1>6. Aside /\ panic' = panic /\ leaked' = leaked
  BY <1>4, <1>5 DEF Aside, GetsPage
<1>7. Region' = Region /\ HeldOnce(q) /\ Tidy(q) /\ Held(q) \cap free = {}
  BY <1>6, SameVariant, Apart DEF Sound, Aside
<1>8. Tidy(q)' /\ Seen(q)' = Seen(q)
  <2>1. Seen(q)' = Seen(q)
    BY <1>5, <1>7 DEF Seen, FramesOf
  <2>2. ~ (v >= HEAP)
    BY BelowHeap
  <2>3. \A u \in Pages \ Region : u >= HEAP => vm'[q].page[u] = None
    BY <1>3, <1>7, <2>2 DEF Tidy
  <2> QED BY <1>7, <2>1, <2>3 DEF Tidy
<1> DEFINE s == <<"page", v>>
           t == <<"tab", Entry(v)>>
<1>9. s \in Slots /\ t \in Slots /\ s # t
      /\ At(vm[q], s) = None /\ At(vm'[q], s) = Lowest(free)
      /\ At(vm[q], t) = vm[q].tab[Entry(v)] /\ At(vm'[q], t) = vm'[q].tab[Entry(v)]
  <2>1. vm[q].page[v] = None
    BY <1>1 DEF GetsPage, Mapped
  <2>2. s \in Slots /\ t \in Slots /\ s # t
    BY <1>1, SlotNames
  <2>3. At(vm[q], s) = vm[q].page[v] /\ At(vm'[q], s) = vm'[q].page[v]
        /\ At(vm[q], t) = vm[q].tab[Entry(v)] /\ At(vm'[q], t) = vm'[q].tab[Entry(v)]
    BY DEF At
  <2> HIDE DEF s, t
  <2> QED BY <1>3, <2>1, <2>2, <2>3
<1>10. \A u \in 0 .. HEAP - 1 : <<"page", u>> # s => vm'[q].page[u] = vm[q].page[u]
  BY <1>3, PageFacts, Functions
<1>11. CASE vm[q].tab[Entry(v)] = None
  <2> DEFINE D == {s, t}
             T == {Lowest(free), Second(free)}
  <2>1. \A e \in Entries : <<"tab", e>> \notin D => vm'[q].tab[e] = vm[q].tab[e]
    BY <1>3
  <2>2. \A u \in Slots \ D : At(vm'[q], u) = At(vm[q], u)
    <3>1. <<"kstack", 0>> \notin D /\ <<"dir", 0>> \notin D /\ <<"ktab", 0>> \notin D
      OBVIOUS
    <3>2. \A u \in 0 .. HEAP - 1 : <<"page", u>> \notin D => vm'[q].page[u] = vm[q].page[u]
      BY <1>10
    <3> HIDE DEF D
    <3> QED BY <1>3, <2>1, <3>1, <3>2, SameAt DEF SameRoots
  <2>3. vm'[q].tab[Entry(v)] = Second(free)
    BY <1>1, <1>3, <1>11
  <2>4. Held(q)' = Held(q) \cup T /\ HeldOnce(q)'
    <3>1. \A u \in Slots \ {s, t} : At(vm'[q], u) = At(vm[q], u)
      BY <2>2
    <3>2. /\ Lowest(free) \notin Held(q) /\ Second(free) \notin Held(q)
          /\ Lowest(free) # None /\ Second(free) # None /\ Lowest(free) # Second(free)
      BY <1>2, <1>7, <1>11, FrameValues
    <3> HIDE DEF s, t
    <3> QED BY <1>7, <1>9, <1>11, <2>3, <3>1, <3>2, HeldTakeTwo
  <2>5. T \subseteq free /\ free' = free \ T
    <3>1. Needs(q, v) = 2
      BY <1>11 DEF Needs
    <3> QED BY <1>2, <1>11, <3>1 DEF GetsPage
  <2> HIDE DEF T
  <2> QED BY <1>4, <1>6, <1>8, <2>4, <2>5, Taken
<1>12. CASE vm[q].tab[Entry(v)] # None
  <2> DEFINE D == {s}
             T == {Lowest(free)}
  <2>1. \A e \in Entries : vm'[q].tab[e] = vm[q].tab[e]
    BY <1>3, <1>12
  <2>2. \A u \in Slots \ D : At(vm'[q], u) = At(vm[q], u)
    <3>1. <<"kstack", 0>> \notin D /\ <<"dir", 0>> \notin D /\ <<"ktab", 0>> \notin D
      OBVIOUS
    <3>2. \A u \in 0 .. HEAP - 1 : <<"page", u>> \notin D => vm'[q].page[u] = vm[q].page[u]
      BY <1>10
    <3> HIDE DEF D
    <3> QED BY <1>3, <2>1, <3>1, <3>2, SameAt DEF SameRoots
  <2>4. Held(q)' = Held(q) \cup T /\ HeldOnce(q)'
    <3>1. \A u \in Slots \ {s} : At(vm'[q], u) = At(vm[q], u)
      BY <2>2
    <3>2. Lowest(free) \notin Held(q) /\ Lowest(free) # None
      BY <1>2, <1>7, FrameValues
    <3> HIDE DEF s
    <3> QED BY <1>7, <1>9, <3>1, <3>2, HeldTake
  <2>5. T \subseteq free /\ free' = free \ T
    <3>1. Needs(q, v) = 1
      BY <1>12 DEF Needs
    <3> QED BY <1>2, <3>1 DEF GetsPage
  <2> HIDE DEF T
  <2> QED BY <1>4, <1>6, <1>8, <2>4, <2>5, Taken
<1> QED BY <1>11, <1>12

LEMMA GrowPageSound ==
  ASSUME SpaceInv, Sound, Running, NEW p \in Procs, GrowPage(p)
  PROVE  Sound'
<1> DEFINE v == Lowest(ToAdd(p))
<1>1. v \in 0 .. HEAP - 1 /\ v \notin Mapped(p)
  BY ToAddFacts DEF SpaceInv, GrowPage
<1>2. GetsPage(p, v)
  BY <1>1 DEF GrowPage, GetsPage, UntouchedShare
<1> HIDE DEF v
<1> QED BY <1>1, <1>2, HeapPage

(* Heap pages S of a process go.                                               *)
LosesPages(q, S) ==
  /\ UNCHANGED <<child, variant, i, pool, setup, panic, leaked>>
  /\ \A r \in Procs : /\ pc'[r] = "allocating" <=> pc[r] = "allocating"
                      /\ pc'[r] = "mapping" <=> pc[r] = "mapping"
  /\ \E n \in 0 .. 2 * HEAP : vm' = Without(q, S, n)
  /\ free' = free \cup FramesOf(q, S)

LEMMA HeapPagesGo ==
  ASSUME SpaceInv, Sound, Running, NEW q \in Procs, NEW S \in SUBSET (0 .. HEAP - 1), LosesPages(q, S)
  PROVE  Sound'
<1>0. PICK n \in 0 .. 2 * HEAP : vm' = Without(q, S, n)
  BY DEF LosesPages
<1>1. Region \subseteq Pages /\ 0 .. HEAP - 1 \subseteq Pages \ Region
  BY PageFacts, Functions
<1>2. /\ OnlySpace(q) /\ SameRoots(q) /\ vm'[q].tab = vm[q].tab
      /\ \A u \in Pages : vm'[q].page[u] = IF u \in S THEN None ELSE vm[q].page[u]
  BY <1>0, Functions, UnmapEffect
<1>3. \A r \in Procs \ {q} : vm'[r] = vm[r]
  BY <1>2 DEF OnlySpace
<1>4. \A u \in Region : vm'[q].page[u] = vm[q].page[u]
  BY <1>1, <1>2
<1>5. Aside /\ panic' = panic /\ leaked' = leaked
  BY <1>3, <1>4 DEF Aside, LosesPages
<1>6. Region' = Region /\ HeldOnce(q) /\ Tidy(q)
  BY <1>5, SameVariant, Apart DEF Sound, Aside
<1>7. Tidy(q)' /\ Seen(q)' = Seen(q)
  <2>1. Seen(q)' = Seen(q)
    BY <1>4, <1>6 DEF Seen, FramesOf
  <2>2. \A u \in Pages \ Region : u >= HEAP => vm'[q].page[u] = None
    BY <1>2, <1>6 DEF Tidy
  <2> QED BY <1>6, <2>1, <2>2 DEF Tidy
<1> DEFINE D == {<<"page", v>> : v \in S}
           G == Held(q) \cap FramesOf(q, S)
<1>8. D \in SUBSET Slots /\ \A s \in D : \E v \in S : s = <<"page", v>>
  BY SlotNames
<1>9. \A v \in S : At(vm'[q], <<"page", v>>) = None /\ At(vm[q], <<"page", v>>) = vm[q].page[v]
                   /\ <<"page", v>> \in D
  <2>1. \A v \in S : vm'[q].page[v] = None
    BY <1>1, <1>2
  <2>2. \A v : At(vm'[q], <<"page", v>>) = vm'[q].page[v] /\ At(vm[q], <<"page", v>>) = vm[q].page[v]
    BY DEF At
  <2> QED BY <2>1, <2>2
<1>10. \A s \in Slots \ D : At(vm'[q], s) = At(vm[q], s)
  <2>1. <<"kstack", 0>> \notin D /\ <<"dir", 0>> \notin D /\ <<"ktab", 0>> \notin D
    OBVIOUS
  <2>2. \A u \in 0 .. HEAP - 1 : <<"page", u>> \notin D => vm'[q].page[u] = vm[q].page[u]
    BY <1>1, <1>2
  <2> HIDE DEF D
  <2> QED BY <1>2, <2>1, <2>2, SameAt DEF SameRoots
<1> HIDE DEF D
<1>11. Held(q)' = Held(q) \ {At(vm[q], s) : s \in D} /\ HeldOnce(q)'
  <2>1. \A s \in D : At(vm'[q], s) = None
    BY <1>8, <1>9
  <2> QED BY <1>6, <1>8, <1>10, <2>1, HeldGive
<1>12. \A x : x # None => (x \in FramesOf(q, S) <=> x \in {At(vm[q], s) : s \in D})
  <2>1. \A x : x \in FramesOf(q, S) <=> x # None /\ \E v \in S : x = vm[q].page[v]
    BY DEF FramesOf
  <2>2. ASSUME NEW x, NEW v \in S, x = vm[q].page[v] PROVE x \in {At(vm[q], s) : s \in D}
    <3>1. x = At(vm[q], <<"page", v>>) /\ <<"page", v>> \in D
      BY <1>9, <2>2
    <3> QED BY <3>1
  <2>3. ASSUME NEW x, NEW s \in D, x = At(vm[q], s) PROVE \E v \in S : x = vm[q].page[v]
    BY <1>8, <1>9, <2>3
  <2> QED BY <2>1, <2>2, <2>3
<1>13. Held(q)' = Held(q) \ G
  <2>1. None \notin Held(q)
    BY DEF Held
  <2> QED BY <1>11, <1>12, <2>1
<1>14. FramesOf(q, S) \subseteq Held(q)
  <2>1. \A x \in FramesOf(q, S) : x # None /\ \E v \in S : x = vm[q].page[v]
    BY DEF FramesOf
  <2>2. \A x \in FramesOf(q, S) : x \in FramesOf(q, 0 .. HEAP - 1)
    BY <2>1 DEF FramesOf
  <2> QED BY <2>2, HeldParts
<1>15. G \subseteq Held(q) /\ free' = free \cup G
  BY <1>14 DEF LosesPages
<1> HIDE DEF G
<1> QED BY <1>3, <1>5, <1>7, <1>11, <1>13, <1>15, Given

LEMMA HeapFromHeap ==
  ASSUME SpaceInv, NEW p \in Procs, NEW n \in Nat
  PROVE  HeapFrom(p, n) \in SUBSET (0 .. HEAP - 1)
<1>1. \A v \in HeapFrom(p, n) : v \in Nat /\ v < HEAP
  BY PageFacts, Functions DEF HeapFrom, Mapped
<1> QED BY <1>1, SizeAssumption

LEMMA GrowFailSound ==
  ASSUME SpaceInv, Sound, Running, NEW p \in Procs, GrowFail(p)
  PROVE  Sound'
<1>1. /\ pc[p] = "growing" /\ pc' = [pc EXCEPT ![p] = "user"]
      /\ vm' = [vm EXCEPT ![p].page = Unmap(p, NewPages(p))]
      /\ free' = free \cup FramesOf(p, NewPages(p))
      /\ UNCHANGED <<child, panic, variant, leaked, spoiled, i, pool, setup, holder, overlap>>
  BY DEF GrowFail, UntouchedShare, Go
<1>2. NewPages(p) \in SUBSET (0 .. HEAP - 1)
  BY SpaceTypes, Functions, HeapFromHeap DEF NewPages
<1> DEFINE S == NewPages(p)
<1>3. vm[p].sz \in 0 .. 2 * HEAP /\ vm' = Without(p, S, vm[p].sz)
  <2>1. vm \in [Procs -> Space] /\ vm[p].sz \in 0 .. 2 * HEAP /\ vm[p] \in Space
    BY SpaceTypes, Functions
  <2>2. [vm[p] EXCEPT !.page = Unmap(p, S)] = [vm[p] EXCEPT !.page = Unmap(p, S), !.sz = vm[p].sz]
    BY <2>1 DEF Space
  <2> QED BY <1>1, <2>1, <2>2 DEF Without
<1>4. LosesPages(p, S)
  <2>1. \A r \in Procs : /\ pc'[r] = "allocating" <=> pc[r] = "allocating"
                         /\ pc'[r] = "mapping" <=> pc[r] = "mapping"
    BY <1>1, Functions
  <2> QED BY <1>1, <1>3, <2>1 DEF LosesPages
<1> HIDE DEF S
<1> QED BY <1>2, <1>4, HeapPagesGo DEF S

LEMMA ShrinkSound ==
  ASSUME SpaceInv, Sound, Running, NEW p \in Procs, Shrink(p)
  PROVE  Sound'
<1>0. PICK s \in Sizes :
       /\ 0 < s /\ s < vm[p].sz
       /\ vm' = [vm EXCEPT ![p].page = Unmap(p, HeapFrom(p, RoundUp(s))), ![p].sz = s]
       /\ free' = free \cup FramesOf(p, HeapFrom(p, RoundUp(s)))
  BY DEF Shrink
<1> DEFINE S == HeapFrom(p, RoundUp(s))
<1>1. s \in 0 .. 2 * HEAP /\ RoundUp(s) \in Nat
  BY SizeAssumption, Rounding
<1>2. S \in SUBSET (0 .. HEAP - 1)
  BY <1>1, HeapFromHeap
<1>3. LosesPages(p, S)
  <2>1. vm' = Without(p, S, s)
    BY <1>0 DEF Without
  <2>2. UNCHANGED <<pc, child, variant, i, pool, setup, panic, leaked>>
    BY DEF Shrink, UntouchedShare
  <2> QED BY <1>0, <1>1, <2>1, <2>2 DEF LosesPages
<1> HIDE DEF S
<1> QED BY <1>2, <1>3, HeapPagesGo

LEMMA ShrinkFailSound ==
  ASSUME SpaceInv, Sound, Running, NEW p \in Procs, ShrinkFail(p)
  PROVE  Sound'
<1> DEFINE S == HeapFrom(p, 0)
<1>1. /\ pc[p] = "user" /\ pc' = [pc EXCEPT ![p] = "emptied"]
      /\ vm' = [vm EXCEPT ![p].page = Unmap(p, S)] /\ free' = free \cup FramesOf(p, S)
      /\ UNCHANGED <<child, panic, variant, leaked, spoiled, i, pool, setup, holder, overlap>>
  BY DEF ShrinkFail, UntouchedShare, Go
<1>2. S \in SUBSET (0 .. HEAP - 1)
  BY HeapFromHeap
<1>3. vm[p].sz \in 0 .. 2 * HEAP /\ vm' = Without(p, S, vm[p].sz)
  <2>1. vm \in [Procs -> Space] /\ vm[p].sz \in 0 .. 2 * HEAP /\ vm[p] \in Space
    BY SpaceTypes, Functions
  <2>2. [vm[p] EXCEPT !.page = Unmap(p, S)] = [vm[p] EXCEPT !.page = Unmap(p, S), !.sz = vm[p].sz]
    BY <2>1 DEF Space
  <2> QED BY <1>1, <2>1, <2>2 DEF Without
<1>4. LosesPages(p, S)
  <2>1. \A r \in Procs : /\ pc'[r] = "allocating" <=> pc[r] = "allocating"
                         /\ pc'[r] = "mapping" <=> pc[r] = "mapping"
    BY <1>1, Functions
  <2> QED BY <1>1, <1>3, <2>1 DEF LosesPages
<1> HIDE DEF S
<1> QED BY <1>2, <1>4, HeapPagesGo

LEMMA ForkSound ==
  ASSUME SpaceInv, Sound, Running, NEW p \in Procs, Fork(p)
  PROVE  Sound'
<1>0. PICK q \in Procs :
       /\ pc[q] = "unused"
       /\ vm' = [vm EXCEPT ![q].kstack = Lowest(free)]
       /\ child' = [child EXCEPT ![p] = q]
       /\ pc' = [pc EXCEPT ![p] = "copydir", ![q] = "embryo"]
  BY DEF Fork
<1>1. /\ pc[p] = "user" /\ p # q /\ free # {} /\ free' = free \ {Lowest(free)}
      /\ UNCHANGED <<goal, panic, variant, leaked, spoiled, i, pool, setup, holder, overlap>>
  BY <1>0 DEF Fork, UntouchedShare
<1>2. Lowest(free) \in Frames /\ Lowest(free) \in free
  BY <1>1, TakeOne, Functions
<1>3. OnlySpace(q) /\ vm'[q].tab = vm[q].tab /\ vm'[q].page = vm[q].page /\ vm'[q].dir = vm[q].dir
      /\ vm'[q].ktab = vm[q].ktab /\ vm'[q].kstack = Lowest(free)
  BY <1>0, <1>2, Functions, StackEffect
<1>4. /\ \A r \in Procs \ {q} : vm'[r] = vm[r]
      /\ \A r \in Procs : vm'[r].page = vm[r].page
  BY <1>3 DEF OnlySpace
<1>5. Aside
  BY <1>0, <1>1, <1>4, Functions DEF Aside, InCall
<1>6. Region' = Region /\ HeldOnce(q) /\ Tidy(q) /\ Held(q) \cap free = {}
  BY <1>1, SameVariant, Apart DEF Sound
<1>7. Tidy(q)' /\ Seen(q)' = Seen(q)
  BY <1>3, <1>6 DEF Tidy, Seen, FramesOf
<1> DEFINE s == <<"kstack", 0>>
           D == {s}
           T == {Lowest(free)}
<1>8. s \in Slots /\ At(vm[q], s) = None /\ At(vm'[q], s) = Lowest(free)
  <2>1. vm[q] = Blank
    BY <1>0 DEF SpaceInv, Local, Shape
  <2> QED BY <1>3, <2>1, SlotNames, SlotValues, BlankSpace
<1>9. \A u \in Slots \ D : At(vm'[q], u) = At(vm[q], u)
  <2>1. s \in D
    OBVIOUS
  <2> HIDE DEF D
  <2> QED BY <1>3, <2>1, SameAt
<1>10. Held(q)' = Held(q) \cup T /\ HeldOnce(q)'
  <2>1. Lowest(free) \notin Held(q) /\ Lowest(free) # None
    BY <1>2, <1>6, FrameValues
  <2> HIDE DEF s
  <2> QED BY <1>6, <1>8, <1>9, <2>1, HeldTake
<1>11. T \subseteq free /\ free' = free \ T
  BY <1>1, <1>2
<1> HIDE DEF T
<1> QED BY <1>1, <1>4, <1>5, <1>7, <1>10, <1>11, Taken

LEMMA CopyDirSound ==
  ASSUME SpaceInv, Sound, Running, NEW p \in Procs, CopyDir(p)
  PROVE  Sound'
<1>0. child[p] \in Procs /\ child[p] # None
  BY Family DEF SpaceInv, Children, CopyDir
<1> PICK q \in Procs : q = child[p]
  BY <1>0
<1>1. /\ pc[p] = "copydir" /\ Cardinality(free) >= 2
      /\ vm' = [vm EXCEPT ![q].dir = Lowest(free), ![q].ktab = Second(free)]
      /\ free' = free \ {Lowest(free), Second(free)}
      /\ pc' = [pc EXCEPT ![p] = "copying"]
      /\ UNCHANGED <<child, goal, panic, variant, leaked, spoiled, i, pool, setup, holder, overlap>>
  BY DEF CopyDir, Go, UntouchedShare
<1>2. /\ Lowest(free) \in Frames /\ Lowest(free) \in free
      /\ Second(free) \in Frames /\ Second(free) \in free /\ Lowest(free) # Second(free)
  BY <1>1, TakeTwo, Functions
<1>3. OnlySpace(q) /\ vm'[q].tab = vm[q].tab /\ vm'[q].page = vm[q].page /\ vm'[q].dir = Lowest(free)
      /\ vm'[q].ktab = Second(free) /\ vm'[q].kstack = vm[q].kstack
  <2> DEFINE f == Lowest(free)
             g == Second(free)
             s2 == [vm[q] EXCEPT !.dir = f, !.ktab = g]
  <2>1. vm \in [Procs -> Space] /\ vm[q] \in Space
    BY SpaceTypes, Functions
  <2>2. vm' = [vm EXCEPT ![q] = s2]
    BY <1>1, <2>1
  <2>3. f \in Frames /\ g \in Frames
    BY <1>2
  <2> HIDE DEF f, g
  <2>4. s2 \in Space /\ s2.page = vm[q].page /\ s2.tab = vm[q].tab /\ s2.kstack = vm[q].kstack
        /\ s2.dir = f /\ s2.ktab = g
    BY <2>1, <2>3 DEF Space
  <2> HIDE DEF s2
  <2>5. vm'[q] = s2 /\ OnlySpace(q)
    BY <2>1, <2>2, <2>4 DEF OnlySpace
  <2> QED BY <2>4, <2>5 DEF f, g
<1>4. /\ \A r \in Procs \ {q} : vm'[r] = vm[r]
      /\ \A r \in Procs : vm'[r].page = vm[r].page
  BY <1>3 DEF OnlySpace
<1>5. Aside
  BY <1>1, <1>4, Functions DEF Aside, InCall
<1>6. Region' = Region /\ HeldOnce(q) /\ Tidy(q) /\ Held(q) \cap free = {}
  BY <1>1, SameVariant, Apart DEF Sound
<1>7. Tidy(q)' /\ Seen(q)' = Seen(q)
  BY <1>3, <1>6 DEF Tidy, Seen, FramesOf
<1> DEFINE s == <<"dir", 0>>
           t == <<"ktab", 0>>
           D == {s, t}
           T == {Lowest(free), Second(free)}
<1>8. s \in Slots /\ At(vm[q], s) = None /\ At(vm'[q], s) = Lowest(free)
      /\ t \in Slots /\ At(vm[q], t) = None /\ At(vm'[q], t) = Second(free) /\ s # t
  <2>1. vm[q].dir = None /\ vm[q].ktab = None
    BY <1>0, <1>1 DEF SpaceInv, Local, ChildShape
  <2>2. s # t
    OBVIOUS
  <2> QED BY <1>3, <2>1, <2>2, SlotNames, SlotValues
<1>9. \A u \in Slots \ D : At(vm'[q], u) = At(vm[q], u)
  <2>1. s \in D /\ t \in D
    OBVIOUS
  <2> HIDE DEF D
  <2> QED BY <1>3, <2>1, SameAt
<1>10. Held(q)' = Held(q) \cup T /\ HeldOnce(q)'
  <2>1. Lowest(free) \notin Held(q) /\ Lowest(free) # None
        /\ Second(free) \notin Held(q) /\ Second(free) # None
    BY <1>2, <1>6, FrameValues
  <2> HIDE DEF s, t
  <2> QED BY <1>2, <1>6, <1>8, <1>9, <2>1, HeldTakeTwo
<1>11. T \subseteq free /\ free' = free \ T
  BY <1>1, <1>2
<1> HIDE DEF T
<1> QED BY <1>1, <1>4, <1>5, <1>7, <1>10, <1>11, Taken

(* A page table for the region, if one is taken for process q.                 *)
LEMMA RegionTable ==
  ASSUME SpaceInv, Sound, NEW q \in Procs, NEW v \in Region, NEW g,
         SameRoots(q), \A u \in Pages \ {v} : vm'[q].page[u] = vm[q].page[u],
         \A e \in Entries :
           vm'[q].tab[e] = IF e = SharedEntry /\ vm[q].tab[e] = None THEN g ELSE vm[q].tab[e],
         vm[q].tab[SharedEntry] = None => g \in free,
         variant' = variant
  PROVE  /\ vm[q].tab[SharedEntry] = None => Held(q)' = Held(q) \cup {g} /\ HeldOnce(q)'
         /\ vm[q].tab[SharedEntry] # None => Held(q)' = Held(q) /\ HeldOnce(q)'
         /\ Tidy(q)'
<1>1. Region \subseteq Pages /\ 0 .. HEAP - 1 \subseteq Pages \ Region /\ SharedEntry \in Entries
      /\ Region' = Region
  BY PageFacts, Functions, SameVariant
<1>2. HeldOnce(q) /\ Tidy(q) /\ Held(q) \cap free = {}
  BY Apart DEF Sound
<1>3. \A u \in 0 .. HEAP - 1 : vm'[q].page[u] = vm[q].page[u]
  BY <1>1
<1>4. Tidy(q)'
  BY <1>1, <1>2 DEF Tidy
<1>5. CASE vm[q].tab[SharedEntry] = None
  <2> DEFINE t == <<"tab", SharedEntry>>
             D == {t}
  <2>1. t \in Slots /\ At(vm[q], t) = None /\ At(vm'[q], t) = g
    BY <1>1, <1>5, SlotNames, SlotValues
  <2>2. \A u \in Slots \ D : At(vm'[q], u) = At(vm[q], u)
    <3>1. <<"kstack", 0>> \notin D /\ <<"dir", 0>> \notin D /\ <<"ktab", 0>> \notin D
      OBVIOUS
    <3>2. \A e \in Entries : <<"tab", e>> \notin D => vm'[q].tab[e] = vm[q].tab[e]
      OBVIOUS
    <3> HIDE DEF D
    <3> QED BY <1>3, <3>1, <3>2, SameAt DEF SameRoots
  <2>3. g \notin Held(q) /\ g # None
    BY <1>2, <1>5, FrameValues, Functions
  <2> HIDE DEF t
  <2> QED BY <1>2, <1>4, <1>5, <2>1, <2>2, <2>3, HeldTake
<1>6. CASE vm[q].tab[SharedEntry] # None
  <2> DEFINE D == {}
  <2>1. \A e \in Entries : vm'[q].tab[e] = vm[q].tab[e]
    BY <1>6
  <2>2. \A u \in Slots : u \in Slots \ D
    OBVIOUS
  <2> HIDE DEF D
  <2>3. \A u \in Slots \ D : At(vm'[q], u) = At(vm[q], u)
    BY <1>3, <2>1, SameAt DEF SameRoots
  <2> QED BY <1>2, <1>4, <1>6, <2>2, <2>3, HeldSame
<1> QED BY <1>5, <1>6

(* A copy of a shared page is shared with nobody, but freevm() keeps it.       *)
LEMMA CopyRegionSound ==
  ASSUME SpaceInv, Sound, Running, NEW p \in Procs, CopyPage(p), Lowest(ToCopy(p)) \in Region
  PROVE  Sound'
<1> DEFINE v == Lowest(ToCopy(p))
           f == Lowest(free)
           g == Second(free)
<1>0. child[p] \in Procs /\ child[p] # None
  BY Family DEF SpaceInv, Children, CopyPage
<1> PICK q \in Procs : q = child[p]
  BY <1>0
<1>1. /\ v \in Region /\ v \in Pages /\ v \notin Mapped(q) /\ v \in Mapped(p)
      /\ variant.copy = "duplicate"
  BY ToCopyFacts DEF CopyPage
<1>2. /\ pc[p] = "copying" /\ Cardinality(free) >= Needs(q, v)
      /\ vm' = WithPage(q, v, f, g)
      /\ free' = free \ ({f} \cup IF Needs(q, v) = 2 THEN {g} ELSE {})
      /\ UNCHANGED <<pc, child, goal, variant, panic, leaked, i, pool, setup>>
  BY DEF CopyPage, UntouchedShare
<1>3. /\ f \in free /\ f \in Frames
      /\ vm[q].tab[Entry(v)] = None => g \in free /\ g \in Frames /\ g # f
  BY <1>1, <1>2, NewPage, Functions
<1> HIDE DEF v, f, g
<1>4. /\ OnlySpace(q) /\ SameRoots(q)
      /\ vm'[q].page[v] = f /\ \A u \in Pages \ {v} : vm'[q].page[u] = vm[q].page[u]
      /\ \A e \in Entries :
           vm'[q].tab[e] = IF e = Entry(v) /\ vm[q].tab[e] = None THEN g ELSE vm[q].tab[e]
  <2>1. f \in Value /\ (vm[q].tab[Entry(v)] = None => g \in Frames \cup {None})
    BY <1>3, FrameValues
  <2>2. vm \in [Procs -> Space] /\ vm' = WithPage(q, v, f, g)
    BY <1>2, Functions
  <2> QED BY <1>1, <2>1, <2>2, WithPageEffect
<1>5. Entry(v) = SharedEntry /\ Region \subseteq Pages /\ Region' = Region
  BY <1>1, <1>2, PageFacts, Functions, SameVariant
<1>6. \A r \in Procs \ {q} : vm'[r] = vm[r]
  BY <1>4 DEF OnlySpace
<1>7. Aside
  <2>1. \A r \in Procs, u \in Region : vm'[r].page[u] = vm[r].page[u] \/ u = v
    BY <1>4, <1>5, <1>6
  <2>2. vm[p].page[v] # None
    BY <1>1 DEF Mapped
  <2> QED BY <1>1, <1>2, <2>1, <2>2 DEF Aside
<1>8. PoolInv' /\ FreshInv' /\ Calm'
  BY <1>2, <1>7, PoolAside, FreshAside DEF Sound, Calm
<1>9. Seen(q)' = Seen(q) \cup {f}
  <2>1. \A x : x \in Seen(q)' <=> x # None /\ \E u \in Region : x = vm'[q].page[u]
    BY <1>5 DEF Seen, FramesOf
  <2>2. \A x : x \in Seen(q) <=> x # None /\ \E u \in Region : x = vm[q].page[u]
    BY DEF Seen, FramesOf
  <2>3. vm[q].page[v] = None /\ f # None /\ f = vm'[q].page[v] /\ v \in Region
        /\ \A u \in Region \ {v} : vm'[q].page[u] = vm[q].page[u]
    BY <1>1, <1>3, <1>4, <1>5, FrameValues DEF Mapped
  <2>4. \A x : x \in Seen(q)' <=> x \in Seen(q) \/ x = f
    BY <2>1, <2>2, <2>3
  <2> QED BY <2>4
<1>10. \A r \in Procs \ {q} : Held(r)' = Held(r) /\ HeldOnce(r)' /\ Tidy(r)' /\ Seen(r)' = Seen(r)
  BY <1>2, <1>6, HeldOthers DEF Sound
<1>11. SharedFrames' = SharedFrames \cup {f}
  <2>1. PoolFrames' = PoolFrames
    <3>1. variant.first # "always"
      BY <1>1, VariantFields, Functions
    <3> QED BY <1>2, <3>1, PoolStays
  <2>2. SharedFrames = (PoolFrames \cup UNION {Seen(r) : r \in Procs}) \cap Frames
    BY Shares DEF Sound, FrameInv
  <2>3. SharedFrames' = (PoolFrames' \cup UNION {Seen(r)' : r \in Procs}) \cap Frames
    BY <1>2, SharesAfter
  <2>4. \A x : x \in UNION {Seen(r)' : r \in Procs} <=> x \in UNION {Seen(r) : r \in Procs} \/ x = f
    <3>1. \A x : x \in UNION {Seen(r)' : r \in Procs} <=> \E r \in Procs : x \in Seen(r)'
      OBVIOUS
    <3>2. \A x : x \in UNION {Seen(r) : r \in Procs} <=> \E r \in Procs : x \in Seen(r)
      OBVIOUS
    <3>3. \A r \in Procs : \A x : x \in Seen(r)' <=> x \in Seen(r) \/ (r = q /\ x = f)
      BY <1>9, <1>10
    <3> QED BY <3>1, <3>2, <3>3
  <2> QED BY <1>3, <2>1, <2>2, <2>3, <2>4
<1>12. /\ Held(q) \cap free = {} /\ Held(q) \cap SharedFrames = {} /\ free \cap SharedFrames = {}
       /\ leaked \cap free = {} /\ leaked \cap SharedFrames = {} /\ leaked \cap Held(q) = {}
  BY Apart DEF Sound
<1>13. /\ vm[q].tab[SharedEntry] = None => Held(q)' = Held(q) \cup {g} /\ HeldOnce(q)'
       /\ vm[q].tab[SharedEntry] # None => Held(q)' = Held(q) /\ HeldOnce(q)'
       /\ Tidy(q)'
  BY <1>1, <1>2, <1>3, <1>4, <1>5, RegionTable
<1>14. CASE vm[q].tab[SharedEntry] = None
  <2>1. free' = free \ {f, g}
    <3>1. Needs(q, v) = 2
      BY <1>5, <1>14 DEF Needs
    <3> QED BY <1>2, <3>1
  <2>2. Held(q)' = Held(q) \cup {g} /\ HeldOnce(q)' /\ Tidy(q)' /\ f \in free /\ g \in free /\ f # g
        /\ leaked' = leaked
    BY <1>2, <1>3, <1>5, <1>13, <1>14
  <2>3. /\ Held(q)' \cap free' = {} /\ Held(q)' \cap SharedFrames' = {}
        /\ free' \cap SharedFrames' = {}
        /\ leaked' \cap free' = {} /\ leaked' \cap SharedFrames' = {} /\ leaked' \cap Held(q)' = {}
    BY <1>11, <1>12, <2>1, <2>2
  <2>4. free' \cup SharedFrames' \cup leaked' \cup Held(q)' =
          free \cup SharedFrames \cup leaked \cup Held(q)
    BY <1>11, <2>1, <2>2
  <2>5. FrameInv'
    BY <1>10, <2>2, <2>3, <2>4, Redistribute DEF Sound
  <2> QED BY <1>8, <2>5 DEF Sound
<1>15. CASE vm[q].tab[SharedEntry] # None
  <2>1. free' = free \ {f}
    <3>1. Needs(q, v) = 1
      BY <1>5, <1>15 DEF Needs
    <3> QED BY <1>2, <3>1
  <2>2. Held(q)' = Held(q) /\ HeldOnce(q)' /\ Tidy(q)' /\ f \in free /\ leaked' = leaked
    BY <1>2, <1>3, <1>13, <1>15
  <2>3. /\ Held(q)' \cap free' = {} /\ Held(q)' \cap SharedFrames' = {}
        /\ free' \cap SharedFrames' = {}
        /\ leaked' \cap free' = {} /\ leaked' \cap SharedFrames' = {} /\ leaked' \cap Held(q)' = {}
    BY <1>11, <1>12, <2>1, <2>2
  <2>4. free' \cup SharedFrames' \cup leaked' \cup Held(q)' =
          free \cup SharedFrames \cup leaked \cup Held(q)
    BY <1>11, <2>1, <2>2
  <2>5. FrameInv'
    BY <1>10, <2>2, <2>3, <2>4, Redistribute DEF Sound
  <2> QED BY <1>8, <2>5 DEF Sound
<1> QED BY <1>14, <1>15

LEMMA CopyPageSound ==
  ASSUME SpaceInv, Sound, Running, NEW p \in Procs, CopyPage(p)
  PROVE  Sound'
<1> DEFINE v == Lowest(ToCopy(p))
<1>0. child[p] \in Procs /\ child[p] # None
  BY Family DEF SpaceInv, Children, CopyPage
<1> PICK q \in Procs : q = child[p]
  BY <1>0
<1>1. CASE v \in Region
  BY <1>1, CopyRegionSound
<1>2. CASE v \notin Region
  <2>1. v \in 0 .. HEAP - 1 /\ v \notin Mapped(q)
    <3>1. v \in Pages /\ v < RoundUp(vm[p].sz) /\ v \notin Mapped(q)
      BY <1>2, ToCopyFacts DEF CopyPage
    <3>2. RoundUp(vm[p].sz) \in 0 .. HEAP /\ HEAP \in Nat /\ Pages \subseteq Nat
      BY SpaceTypes, SizeAssumption, PageFacts, Functions
    <3> HIDE DEF v
    <3> QED BY <3>1, <3>2
  <2>2. GetsPage(q, v)
    BY <2>1 DEF CopyPage, GetsPage, UntouchedShare
  <2> HIDE DEF v
  <2> QED BY <2>1, <2>2, HeapPage
<1> QED BY <1>1, <1>2

-----------------------------------------------------------------------------
(* A process's memory is freed, or forgotten, all of it.                       *)
Alone(q) == (Seen(q) \cap Frames) \ (PoolFrames \cup UNION {Seen(r) : r \in Procs \ {q}})

LEMMA SharesLose ==
  ASSUME SpaceInv, FrameInv, variant' = variant, PoolFrames' = PoolFrames, NEW q \in Procs,
         \A r \in Procs \ {q} : Seen(r)' = Seen(r), Seen(q)' = {}
  PROVE  Alone(q) \subseteq SharedFrames /\ SharedFrames' = SharedFrames \ Alone(q)
<1> DEFINE O == UNION {Seen(r) : r \in Procs \ {q}}
<1>1. SharedFrames = (PoolFrames \cup O \cup Seen(q)) \cap Frames
  <2>1. SharedFrames = (PoolFrames \cup UNION {Seen(r) : r \in Procs}) \cap Frames
    BY Shares DEF FrameInv
  <2>2. UNION {Seen(r) : r \in Procs} = O \cup Seen(q)
    OBVIOUS
  <2> QED BY <2>1, <2>2
<1>2. SharedFrames' = (PoolFrames \cup O) \cap Frames
  <2>1. SharedFrames' = (PoolFrames' \cup UNION {Seen(r)' : r \in Procs}) \cap Frames
    BY SharesAfter
  <2>2. UNION {Seen(r)' : r \in Procs} = O
    OBVIOUS
  <2> QED BY <2>1, <2>2
<1>3. Alone(q) = (Seen(q) \cap Frames) \ (PoolFrames \cup O)
  BY DEF Alone
<1> HIDE DEF O
<1> QED BY <1>1, <1>2, <1>3

(* Of its memory L is lost and the rest becomes free.                          *)
LEMMA Dismantled ==
  ASSUME SpaceInv, Sound, Aside, Running, panic' = panic, NEW q \in Procs,
         vm' = [vm EXCEPT ![q] = Blank],
         NEW L, leaked' = leaked \cup L, free' \cap L = {},
         free' \cup L = free \cup Held(q) \cup Alone(q)
  PROVE  Sound'
<1>1. variant' = variant /\ PoolFrames' = PoolFrames
  BY PoolStays DEF Aside
<1>2. PoolInv' /\ FreshInv'
  BY PoolAside, FreshAside DEF Sound
<1>3. vm'[q] = Blank /\ \A r \in Procs \ {q} : vm'[r] = vm[r]
  BY Functions
<1>4. \A r \in Procs \ {q} : Held(r)' = Held(r) /\ HeldOnce(r)' /\ Tidy(r)' /\ Seen(r)' = Seen(r)
  BY <1>1, <1>3, HeldOthers DEF Sound
<1>5. Held(q)' = {} /\ HeldOnce(q)' /\ Tidy(q)' /\ Seen(q)' = {}
  BY <1>1, <1>3, HeldBlank
<1>6. Alone(q) \subseteq SharedFrames /\ SharedFrames' = SharedFrames \ Alone(q)
  BY <1>1, <1>4, <1>5, SharesLose DEF Sound
<1>7. /\ Held(q) \cap free = {} /\ Held(q) \cap SharedFrames = {} /\ free \cap SharedFrames = {}
      /\ leaked \cap free = {} /\ leaked \cap SharedFrames = {} /\ leaked \cap Held(q) = {}
  BY Apart DEF Sound
<1>8. FrameInv'
  <2>1. /\ Held(q)' \cap free' = {} /\ Held(q)' \cap SharedFrames' = {}
        /\ free' \cap SharedFrames' = {}
        /\ leaked' \cap free' = {} /\ leaked' \cap SharedFrames' = {} /\ leaked' \cap Held(q)' = {}
    BY <1>5, <1>6, <1>7
  <2>2. free' \cup SharedFrames' \cup leaked' \cup Held(q)' =
          free \cup SharedFrames \cup leaked \cup Held(q)
    BY <1>5, <1>6
  <2> QED BY <1>4, <1>5, <2>1, <2>2, Redistribute DEF Sound
<1>9. Calm'
  BY <1>1 DEF Calm, Sound
<1> QED BY <1>2, <1>8, <1>9 DEF Sound

(* What freevm() skips is the process's own only where the region is.          *)
LEMMA ForgottenAlone ==
  ASSUME SpaceInv, Sound, NEW q \in Procs, variant.keep
  PROVE  Forgotten(q) = Alone(q)
<1>1. \A r \in Procs : Tidy(r) /\ Held(r) \cap SharedFrames = {}
  BY DEF Sound, FrameInv
<1>2. Seen(q) \cap Frames \subseteq SharedFrames
  BY <1>1, Shares
<1>3. CASE OwnRegion
  <2>1. Seen(q) \subseteq Frames
    <3>1. \A v \in Region : vm[q].page[v] \in Frames \cup {None}
      BY <1>3 DEF SpaceInv, OwnPool
    <3> QED BY <3>1 DEF Seen, FramesOf
  <2>2. \A r \in Procs : FramesOf(r, Mapped(r)) = FramesOf(r, 0 .. HEAP - 1) \cup Seen(r)
                         /\ FramesOf(r, 0 .. HEAP - 1) \cap SharedFrames = {}
    <3> SUFFICES ASSUME NEW r \in Procs
                 PROVE  FramesOf(r, Mapped(r)) = FramesOf(r, 0 .. HEAP - 1) \cup Seen(r)
                        /\ FramesOf(r, 0 .. HEAP - 1) \cap SharedFrames = {}
      OBVIOUS
    <3>1. FramesOf(r, Mapped(r)) = FramesOf(r, 0 .. HEAP - 1) \cup Seen(r)
          /\ FramesOf(r, 0 .. HEAP - 1) \subseteq Held(r)
      BY <1>1, WalkedFrames
    <3> QED BY <1>1, <3>1
  <2>3. FramesOf(q, Mapped(q) \ Walked(q)) = Seen(q)
    BY <1>1, WalkedFrames
  <2>4. \A x \in Seen(q) : x \in UNION {FramesOf(r, Mapped(r)) : r \in Procs \ {q}}
                             <=> x \in UNION {Seen(r) : r \in Procs \ {q}}
    <3>1. \A x \in Seen(q), r \in Procs : x \in FramesOf(r, Mapped(r)) <=> x \in Seen(r)
      BY <1>2, <2>1, <2>2
    <3> QED BY <3>1
  <2> QED BY <1>3, <2>1, <2>3, <2>4 DEF Forgotten, Alone
<1>4. CASE ~OwnRegion
  <2>1. variant.first # "always" /\ variant.copy # "duplicate"
    BY <1>4 DEF OwnRegion
  <2>2. \A x \in Seen(q) : x \in PoolFrames
    <3>1. \A w \in DOMAIN Window : PageAt(q, w) \in {None, pool[Window[w]]}
      BY <1>4, <2>1 DEF Sound, PoolInv
    <3>2. \A v \in Region : \E w \in DOMAIN Window : v = HEAP + w - 1 /\ Window[w] \in 1 .. NSHARED
      <4> SUFFICES ASSUME NEW v \in Region
                   PROVE  \E w \in DOMAIN Window : v = HEAP + w - 1 /\ Window[w] \in 1 .. NSHARED
        OBVIOUS
      <4>1. v - HEAP + 1 \in DOMAIN Window /\ Window[v - HEAP + 1] \in 1 .. NSHARED
        BY PageFacts, WindowFacts, Functions
      <4>2. v = HEAP + (v - HEAP + 1) - 1
        <5>1. v \in Int /\ HEAP \in Int
          BY PageFacts, Functions, SizeAssumption
        <5> QED BY <5>1
      <4> QED BY <4>1, <4>2
    <3>3. \A v \in Region : vm[q].page[v] = None \/ \E k \in 1 .. NSHARED : vm[q].page[v] = pool[k]
      BY <3>1, <3>2 DEF PageAt
    <3>4. PoolFrames = {pool[k] : k \in 1 .. NSHARED}
      BY <2>1, PoolTypes
    <3> QED BY <3>3, <3>4 DEF Seen, FramesOf
  <2> QED BY <1>4, <2>2 DEF Forgotten, Alone
<1> QED BY <1>3, <1>4

LEMMA NoRegionNothingSeen ==
  ASSUME NEW q, RegionNone(vm[q])
  PROVE  Seen(q) = {} /\ Alone(q) = {}
BY DEF RegionNone, Seen, FramesOf, Alone

LEMMA ForkFailSound ==
  ASSUME SpaceInv, Sound, Running, NEW p \in Procs, ForkFail(p)
  PROVE  Sound'
<1>0. child[p] \in Procs /\ child[p] # None
  BY Family DEF SpaceInv, Children, ForkFail
<1> PICK q \in Procs : q = child[p]
  BY <1>0
<1>1. /\ pc[p] \in {"copydir", "copying"}
      /\ free' = (IF pc[p] = "copydir" /\ variant.undo THEN free ELSE {})
                 \cup FramesOf(q, Walked(q)) \cup Tables(q) \cup ({vm[q].dir, vm[q].kstack} \ {None})
      /\ leaked' = leaked \cup Forgotten(q) \cup IF pc[p] = "copying" THEN free ELSE {}
      /\ vm' = [vm EXCEPT ![q] = Blank]
      /\ pc' = [pc EXCEPT ![p] = "user", ![q] = "unused"]
      /\ child' = [child EXCEPT ![p] = None]
      /\ UNCHANGED <<goal, panic, variant, spoiled, i, pool, setup, holder, overlap>>
  BY DEF ForkFail, UntouchedShare, Dropped
<1>2. pc[q] = "embryo" /\ child[q] = None /\ q # p /\ \A r \in Procs \ {p} : child[r] # q
  BY <1>0, Family
<1>3. Aside
  <2>1. \A r \in Procs : /\ pc'[r] = "allocating" <=> pc[r] = "allocating"
                         /\ pc'[r] = "mapping" <=> pc[r] = "mapping"
                         /\ InCall(r) => i'[r] = i[r] /\ child'[r] = child[r]
    BY <1>1, <1>2, Functions DEF InCall
  <2>2. \A r \in Procs : InCall(r) => q # Target(r)
    BY <1>1, <1>2 DEF InCall, Target
  <2>3. \A r \in Procs, v \in Region : vm'[r].page[v] = vm[r].page[v] \/ (r = q /\ vm'[r].page[v] = None)
    BY <1>1, BlankSpace, PageFacts, Functions
  <2> QED BY <1>1, <2>1, <2>2, <2>3 DEF Aside
<1>4. RegionNone(vm[q]) \/ variant.keep
  BY <1>0, <1>1, ChildFrames
<1>5. Tidy(q) /\ Held(q) \cap free = {} /\ free \cap SharedFrames = {} /\ Held(q) \cap SharedFrames = {}
  BY Apart DEF Sound
<1>6. FramesOf(q, Walked(q)) = FramesOf(q, 0 .. HEAP - 1)
  BY <1>4, <1>5, WalkedFrames, NoRegionNothingSeen
<1>7. free' = (IF pc[p] = "copydir" THEN free ELSE {}) \cup Held(q)
  <2>1. variant.undo
    BY VariantFields, Functions
  <2> QED BY <1>1, <1>6, <2>1, HeldParts
<1>8. Forgotten(q) = Alone(q)
  <2>1. CASE variant.keep
    BY <2>1, ForgottenAlone
  <2>2. CASE ~variant.keep
    <3>1. FramesOf(q, Mapped(q) \ Walked(q)) = {} /\ Alone(q) = {}
      BY <1>4, <1>5, <2>2, WalkedFrames, NoRegionNothingSeen
    <3> QED BY <3>1 DEF Forgotten
  <2> QED BY <2>1, <2>2
<1>9. Alone(q) \subseteq SharedFrames
  BY Shares DEF Alone, Sound, FrameInv
<1>10. CASE pc[p] = "copydir"
  <2> DEFINE L == Alone(q)
  <2>1. leaked' = leaked \cup L /\ free' \cap L = {} /\ free' \cup L = free \cup Held(q) \cup Alone(q)
    BY <1>1, <1>5, <1>7, <1>8, <1>9, <1>10
  <2> HIDE DEF L
  <2> QED BY <1>1, <1>3, <2>1, Dismantled
<1>11. CASE pc[p] = "copying"
  <2> DEFINE L == Alone(q) \cup free
  <2>1. leaked' = leaked \cup L /\ free' \cap L = {} /\ free' \cup L = free \cup Held(q) \cup Alone(q)
    BY <1>1, <1>5, <1>7, <1>8, <1>9, <1>11
  <2> HIDE DEF L
  <2> QED BY <1>1, <1>3, <2>1, Dismantled
<1> QED BY <1>1, <1>10, <1>11

LEMMA Halted ==
  ASSUME panic' = "remap" \/ panic' = "memory" \/ panic' = "kfree"
  PROVE  ~Running'
BY Zenon DEF Running

(* Pages a process sees that are no frames were never checked by the call.     *)
LEMMA SeenFrames ==
  ASSUME SpaceInv, Sound, NEW q \in Procs, variant.oom # "unchecked"
  PROVE  Seen(q) \subseteq Frames
<1>1. CASE OwnRegion
  BY <1>1 DEF SpaceInv, OwnPool, Seen, FramesOf
<1>2. CASE ~OwnRegion
  <2>1. variant.first # "always"
    BY <1>2 DEF OwnRegion
  <2> SUFFICES ASSUME NEW v \in Region, vm[q].page[v] # None PROVE vm[q].page[v] \in Frames
    BY DEF Seen, FramesOf
  <2>2. NoAlloc /\ ~FirstTime
    BY <2>1 DEF Sound, PoolInv, RegionNone
  <2>3. \A k \in 1 .. NSHARED : pool[k] \in Frames \cup {PageZero} /\ pool[k] # PageZero
    BY <2>1, <2>2 DEF Sound, PoolInv, SpaceInv, PoolType
  <2>4. \E w \in DOMAIN Window : v = HEAP + w - 1 /\ Window[w] \in 1 .. NSHARED
    <3>1. v - HEAP + 1 \in DOMAIN Window /\ Window[v - HEAP + 1] \in 1 .. NSHARED
      BY PageFacts, WindowFacts, Functions
    <3>2. v = HEAP + (v - HEAP + 1) - 1
      <4>1. v \in Int /\ HEAP \in Int
        BY PageFacts, Functions, SizeAssumption
      <4> QED BY <4>1
    <3> QED BY <3>1, <3>2
  <2>5. \A w \in DOMAIN Window : PageAt(q, w) \in {None, pool[Window[w]]}
    BY <1>2, <2>1 DEF Sound, PoolInv
  <2> QED BY <2>3, <2>4, <2>5 DEF PageAt
<1> QED BY <1>1, <1>2

LEMMA ReapAside ==
  ASSUME SpaceInv, NEW q \in Procs, Reap(q)
  PROVE  Aside /\ vm' = [vm EXCEPT ![q] = Blank] /\ pc[q] = "zombie"
         /\ \A p \in Procs : InCall(p) => q # Target(p)
<1>1. /\ pc[q] = "zombie" /\ vm' = [vm EXCEPT ![q] = Blank] /\ pc' = [pc EXCEPT ![q] = "unused"]
      /\ UNCHANGED <<child, goal, variant, i, pool, setup, holder, overlap>>
  BY DEF Reap, UntouchedShare, Go
<1>2. \A r \in Procs : InCall(r) => q # Target(r)
  <2>1. \A r \in Procs : child[r] # q
    BY <1>1, Family
  <2> QED BY <1>1, <2>1 DEF InCall, Target
<1>3. \A r \in Procs, v \in Region : vm'[r].page[v] = vm[r].page[v] \/ (r = q /\ vm'[r].page[v] = None)
  BY <1>1, BlankSpace, PageFacts, Functions
<1>4. \A r \in Procs : /\ pc'[r] = "allocating" <=> pc[r] = "allocating"
                       /\ pc'[r] = "mapping" <=> pc[r] = "mapping"
  BY <1>1, Functions
<1> QED BY <1>1, <1>2, <1>3, <1>4 DEF Aside

(* wait() frees everything, or panics for a page that was never one.           *)
LEMMA ReapSound ==
  ASSUME SpaceInv, Sound, Running, NEW q \in Procs, Reap(q), ~Broken'
  PROVE  Sound'
<1>1. Aside /\ vm' = [vm EXCEPT ![q] = Blank] /\ pc[q] = "zombie" /\ FreeVm(q) /\ ~spoiled'
      /\ \A p \in Procs : InCall(p) => q # Target(p)
  BY ReapAside DEF Reap, Broken
<1>2. Tidy(q) /\ Held(q) \cap free = {} /\ free \cap SharedFrames = {} /\ Held(q) \cap SharedFrames = {}
  BY Apart DEF Sound
<1>3. FramesOf(q, Walked(q)) = FramesOf(q, 0 .. HEAP - 1) \cup (IF variant.keep THEN {} ELSE Seen(q))
      /\ FramesOf(q, 0 .. HEAP - 1) \subseteq Held(q) /\ Held(q) \subseteq Frames
  BY <1>2, WalkedFrames, HeldFrames
<1>4. CASE FramesOf(q, Walked(q)) \subseteq Frames
  <2>1. /\ free' = free \cup Held(q) \cup (IF variant.keep THEN {} ELSE Seen(q))
        /\ leaked' = leaked \cup Forgotten(q) /\ panic' = panic
        /\ variant.keep \/ variant.first = "always" \/ ~HasRegion(q)
    BY <1>1, <1>3, <1>4, HeldParts DEF FreeVm
  <2>2. CASE variant.keep
    <3> DEFINE L == Alone(q)
    <3>1. Forgotten(q) = Alone(q) /\ Alone(q) \subseteq SharedFrames
      BY <2>2, ForgottenAlone, Shares DEF Alone, Sound, FrameInv
    <3>2. leaked' = leaked \cup L /\ free' \cap L = {} /\ free' \cup L = free \cup Held(q) \cup Alone(q)
      BY <1>2, <2>1, <2>2, <3>1
    <3> HIDE DEF L
    <3> QED BY <1>1, <2>1, <3>2, Dismantled
  <2>3. CASE ~variant.keep
    <3> DEFINE L == {}
    <3>1. Forgotten(q) = {}
      <4>1. FramesOf(q, Mapped(q) \ Walked(q)) = {}
        BY <1>2, <2>3, WalkedFrames
      <4> QED BY <4>1 DEF Forgotten
    <3>2. Alone(q) = Seen(q)
      <4>1. CASE variant.first = "always"
        <5>1. Seen(q) \subseteq Frames
          BY <1>3, <1>4, <2>3
        <5>2. \A r \in Procs \ {q} : Seen(q) \cap Seen(r) = {}
          BY <4>1 DEF Sound, FreshInv
        <5>3. Seen(q) \cap PoolFrames = {}
          <6>1. CASE \E p \in Procs : Exposed(p)
            <7>1. PICK p \in Procs : Exposed(p)
              BY <6>1
            <7>2. q # Target(p)
              BY <1>1, <7>1 DEF InCall, Exposed
            <7> QED BY <4>1, <7>1, <7>2 DEF Sound, FreshInv
          <6>2. CASE \A p \in Procs : ~Exposed(p)
            BY <4>1, <6>2 DEF PoolFrames, Exposed
          <6> QED BY <6>1, <6>2
        <5> QED BY <5>1, <5>2, <5>3 DEF Alone
      <4>2. CASE variant.first # "always"
        <5>1. RegionNone(vm[q])
          BY <2>1, <2>3, <4>2 DEF SpaceInv, Local, Shape, RegionNone
        <5> QED BY <5>1, NoRegionNothingSeen
      <4> QED BY <4>1, <4>2
    <3>3. leaked' = leaked \cup L /\ free' \cap L = {} /\ free' \cup L = free \cup Held(q) \cup Alone(q)
      BY <2>1, <2>3, <3>1, <3>2
    <3> HIDE DEF L
    <3> QED BY <1>1, <2>1, <3>3, Dismantled
  <2> QED BY <2>2, <2>3
<1>5. CASE ~(FramesOf(q, Walked(q)) \subseteq Frames)
  <2>1. panic' = "kfree" /\ free' = free /\ leaked' = leaked
    BY <1>1, <1>5 DEF FreeVm
  <2>2. variant.oom = "unchecked" /\ variant' = variant
    BY <1>1, <1>3, <1>5, SeenFrames DEF Aside
  <2>3. PoolInv' /\ FreshInv' /\ PoolFrames' = PoolFrames
    BY <1>1, PoolAside, FreshAside, PoolStays DEF Sound, Aside
  <2>4. vm'[q] = Blank /\ \A r \in Procs \ {q} : vm'[r] = vm[r]
    BY <1>1, Functions
  <2>5. \A r \in Procs \ {q} : Held(r)' = Held(r) /\ HeldOnce(r)' /\ Tidy(r)' /\ Seen(r)' = Seen(r)
    BY <2>2, <2>4, HeldOthers DEF Sound
  <2>6. Held(q)' = {} /\ HeldOnce(q)' /\ Tidy(q)' /\ Seen(q)' = {}
    BY <2>2, <2>4, HeldBlank
  <2>7. SharedFrames' \subseteq SharedFrames
    BY <2>2, <2>3, <2>5, <2>6, SharesLose DEF Sound
  <2>8. ~Running'
    BY <2>1, Halted
  <2>9. \A r \in Procs : (Tidy(r) /\ HeldOnce(r) /\ Held(r) \cap (free \cup SharedFrames) = {})'
    BY <2>1, <2>5, <2>6, <2>7 DEF Sound, FrameInv
  <2>10. \A r, t \in Procs : r # t => (Held(r) \cap Held(t) = {})'
    BY <2>5, <2>6 DEF Sound, FrameInv
  <2>11. FrameInv'
    BY <1>2, <2>1, <2>7, <2>8, <2>9, <2>10 DEF FrameInv
  <2>12. Calm'
    BY <2>1, <2>2 DEF Calm
  <2> QED BY <2>3, <2>11, <2>12 DEF Sound
<1> QED BY <1>4, <1>5

-----------------------------------------------------------------------------
(* The call that shares pages: it begins, ...                                  *)
LEMMA FramesStay ==
  ASSUME SpaceInv, FrameInv, UNCHANGED <<variant, vm, free, leaked>>, PoolFrames' = PoolFrames,
         Running' => Running
  PROVE  FrameInv'
<1>1. \A r \in Procs : Held(r)' = Held(r) /\ HeldOnce(r)' /\ Tidy(r)' /\ Seen(r)' = Seen(r)
  BY HeldOthers
<1>2. SharedFrames' = SharedFrames
  BY <1>1, SharesStay
<1>3. AllHeld' = AllHeld
  BY <1>1 DEF AllHeld
<1>4. \A r \in Procs : (Tidy(r) /\ HeldOnce(r) /\ Held(r) \cap (free \cup SharedFrames) = {})'
  BY <1>1, <1>2 DEF FrameInv
<1>5. \A r, t \in Procs : r # t => (Held(r) \cap Held(t) = {})'
  BY <1>1 DEF FrameInv
<1>6. (free \cap SharedFrames = {})'
  BY <1>2 DEF FrameInv
<1>7. (Running => /\ leaked \cap (free \cup SharedFrames \cup AllHeld) = {}
                  /\ Frames \subseteq free \cup SharedFrames \cup AllHeld \cup leaked)'
  BY <1>2, <1>3 DEF FrameInv
<1> QED BY <1>4, <1>5, <1>6, <1>7 DEF FrameInv

LEMMA AttachSound ==
  ASSUME SpaceInv, Sound, Running, NEW p \in Procs, Attach(p), ~Broken'
  PROVE  Sound'
<1>1. /\ pc[p] \in {"user", "copying"} /\ variant.first # "never" /\ LockFree
      /\ i' = [i EXCEPT ![p] = 1]
      /\ setup' = (setup \/ variant.first = "before")
      /\ pc' = [pc EXCEPT ![p] = IF FirstTime THEN "allocating" ELSE "mapping"]
      /\ overlap' = (overlap \/ \E q \in Procs \ {p} : Exposed(q))
      /\ UNCHANGED <<free, vm, child, goal, pool, panic, variant, leaked, spoiled>>
  BY DEF Attach, Go, AllCopied
<1>2. /\ i'[p] = 1 /\ pc'[p] = IF FirstTime THEN "allocating" ELSE "mapping"
      /\ \A r \in Procs \ {p} : pc'[r] = pc[r] /\ i'[r] = i[r]
  BY <1>1, Functions
<1>3. variant.lock = "none" => \A q \in Procs : ~Exposed(q)
  BY <1>1 DEF Broken, Exposed
<1>4. \A r \in Procs : pc[r] # "allocating"
  <2>1. CASE variant.lock = "none"
    BY <1>3, <2>1 DEF Exposed
  <2>2. CASE variant.lock # "none"
    <3>1. holder = None
      BY <1>1, <2>2 DEF LockFree
    <3>2. \A r \in Procs : r # None
      BY DEF Procs, None
    <3> QED BY <2>2, <3>1, <3>2 DEF SpaceInv, Local, Counter
  <2> QED BY <2>1, <2>2
<1>5. PoolFrames' = PoolFrames
  <2>1. CASE variant.first # "always"
    BY <1>1, <2>1 DEF PoolFrames
  <2>2. CASE variant.first = "always"
    <3>1. \A r \in Procs : pc[r] # "allocating" /\ pc[r] # "mapping"
      BY <1>3, <2>2, VariantFields, Functions DEF Exposed
    <3>2. FirstTime
      BY <2>2 DEF FirstTime
    <3>3. \A r \in Procs : pc'[r] # "mapping" /\ (pc'[r] = "allocating" => i'[r] = 1)
      BY <1>2, <3>1, <3>2
    <3>4. \A n \in 1 .. NSHARED : ~ (n < 1)
      OBVIOUS
    <3>5. PoolFrames' = {}
      BY <1>1, <2>2, <3>3, <3>4 DEF PoolFrames
    <3> QED BY <2>2, <3>1, <3>5 DEF PoolFrames
  <2> QED BY <2>1, <2>2
<1>6. PoolInv'
  <2> SUFFICES ASSUME variant.first # "always"
               PROVE  (/\ \A q, r \in Procs : q # r /\ pc[q] = "allocating" => pc[r] \notin {"allocating", "mapping"}
                       /\ \A q \in Procs : pc[q] = "mapping" => ~FirstTime
                       /\ \A q \in Procs : pc[q] = "allocating" =>
                            /\ \A k \in 1 .. NSHARED : pool[k] = PageZero <=> k >= i[q]
                            /\ variant.first = "after" => ~setup
                            /\ variant.first = "before" => setup
                       /\ NoAlloc => \A k \in 1 .. NSHARED : pool[k] = PageZero <=> FirstTime
                       /\ variant.first = "never" => ~setup
                       /\ FirstTime \/ ~NoAlloc => \A q \in Procs : RegionNone(vm[q])
                       /\ OwnRegion \/ \A q \in Procs, w \in DOMAIN Window :
                                         PageAt(q, w) \in {None, pool[Window[w]]})'
    BY <1>1 DEF PoolInv
  <2>1. NoAlloc /\ Region' = Region /\ Window' = Window /\ (OwnRegion' <=> OwnRegion)
    BY <1>1, <1>4, SameVariant DEF NoAlloc, OwnRegion
  <2>2. /\ \A k \in 1 .. NSHARED : pool[k] = PageZero <=> FirstTime
        /\ FirstTime => \A r \in Procs : RegionNone(vm[r])
        /\ OwnRegion \/ \A r \in Procs, w \in DOMAIN Window : PageAt(r, w) \in {None, pool[Window[w]]}
        /\ \A r \in Procs : pc[r] = "mapping" => ~FirstTime
    BY <2>1 DEF Sound, PoolInv
  <2>3. (OwnRegion \/ \A r \in Procs, w \in DOMAIN Window : PageAt(r, w) \in {None, pool[Window[w]]})'
    BY <1>1, <2>1, <2>2 DEF PageAt
  <2>4. \A r \in Procs : RegionNone(vm[r])' <=> RegionNone(vm[r])
    BY <1>1, <2>1 DEF RegionNone
  <2>5. CASE FirstTime
    <3>1. /\ pc'[p] = "allocating" /\ ~NoAlloc'
          /\ \A r \in Procs \ {p} : pc'[r] # "allocating" /\ pc'[r] # "mapping"
      BY <1>2, <1>4, <2>2, <2>5 DEF NoAlloc
    <3>2. \A k \in 1 .. NSHARED : pool'[k] = PageZero <=> k >= i'[p]
      <4>1. \A k \in 1 .. NSHARED : k >= 1
        OBVIOUS
      <4> QED BY <1>1, <1>2, <2>2, <2>5, <4>1
    <3>3. variant.first = "after" => ~setup'
      BY <1>1, <2>5 DEF FirstTime
    <3> QED BY <1>1, <2>2, <2>3, <2>4, <2>5, <3>1, <3>2, <3>3
  <2>6. CASE ~FirstTime
    <3>1. pc'[p] = "mapping" /\ NoAlloc' /\ \A r \in Procs : pc'[r] # "allocating"
      BY <1>2, <1>4, <2>6 DEF NoAlloc
    <3>2. setup' = setup
      BY <1>1, <2>6, Functions DEF FirstTime, TypeOK
    <3>3. ~FirstTime'
      BY <1>1, <2>6, <3>2 DEF FirstTime
    <3> QED BY <1>1, <2>2, <2>3, <2>6, <3>1, <3>2, <3>3
  <2> QED BY <2>5, <2>6
<1>7. FreshInv'
  <2> SUFFICES ASSUME variant.first = "always"
               PROVE  (/\ \A q, r \in Procs : Exposed(q) /\ Exposed(r) => q = r
                       /\ \A q, r \in Procs : q # r => Seen(q) \cap Seen(r) = {}
                       /\ \A q, r \in Procs : Exposed(q) /\ r # Target(q) => Seen(r) \cap PoolFrames = {}
                       /\ \A q \in Procs : pc[q] = "mapping" =>
                            \A w \in DOMAIN Window : w < i[q] => PageAt(Target(q), w) = pool[Window[w]])'
    BY <1>1 DEF FreshInv
  <2>1. \A r \in Procs : pc[r] # "allocating" /\ pc[r] # "mapping"
    BY <1>3, VariantFields, Functions DEF Exposed
  <2>2. \A r \in Procs : pc'[r] # "mapping" /\ (r # p => pc'[r] # "allocating")
    <3>1. FirstTime
      BY DEF FirstTime
    <3> QED BY <1>2, <2>1, <3>1
  <2>3. PoolFrames' = {}
    BY <1>5, <2>1 DEF PoolFrames
  <2>4. \A r \in Procs : Seen(r)' = Seen(r)
    BY <1>1, HeldOthers DEF Sound
  <2>5. \A q, r \in Procs : q # r => Seen(q)' \cap Seen(r)' = {}
    BY <2>4 DEF Sound, FreshInv
  <2>6. \A q, r \in Procs : Exposed(q)' /\ Exposed(r)' => q = r
    BY <2>2 DEF Exposed
  <2> QED BY <2>2, <2>3, <2>5, <2>6
<1>8. FrameInv' /\ Calm'
  <2>1. Running' => Running
    BY <1>1 DEF Running
  <2> QED BY <1>1, <1>5, <2>1, FramesStay DEF Sound, Calm
<1> QED BY <1>6, <1>7, <1>8 DEF Sound

(* ... takes the pages from the free list, ...                                 *)
LEMMA FramesMove ==
  ASSUME SpaceInv, FrameInv, Running, UNCHANGED <<variant, vm, leaked>>, NEW p \in Procs,
         free' \cap SharedFrames' = {}, free' \cup SharedFrames' = free \cup SharedFrames
  PROVE  FrameInv'
<1>1. \A r \in Procs : Held(r)' = Held(r) /\ HeldOnce(r)' /\ Tidy(r)' /\ Seen(r)' = Seen(r)
  BY HeldOthers
<1>2. /\ Held(p) \cap free = {} /\ Held(p) \cap SharedFrames = {} /\ free \cap SharedFrames = {}
      /\ leaked \cap free = {} /\ leaked \cap SharedFrames = {} /\ leaked \cap Held(p) = {}
  BY Apart
<1>3. /\ Held(p)' \cap free' = {} /\ Held(p)' \cap SharedFrames' = {}
      /\ leaked' \cap free' = {} /\ leaked' \cap SharedFrames' = {} /\ leaked' \cap Held(p)' = {}
  BY <1>1, <1>2
<1>4. free' \cup SharedFrames' \cup leaked' \cup Held(p)' =
        free \cup SharedFrames \cup leaked \cup Held(p)
  BY <1>1
<1> QED BY <1>1, <1>3, <1>4, Redistribute

LEMMA PoolGrows ==
  ASSUME SpaceInv, Sound, NEW p \in Procs, pc[p] = "allocating", NEW f,
         pool' = [pool EXCEPT ![i[p]] = f], variant' = variant,
         \A r \in Procs \ {p} : pc'[r] = pc[r] /\ i'[r] = i[r],
         \/ i[p] < NSHARED /\ pc'[p] = "allocating" /\ i'[p] = i[p] + 1
         \/ i[p] = NSHARED /\ pc'[p] = "mapping"
  PROVE  /\ \A k \in 1 .. NSHARED : pool'[k] = IF k = i[p] THEN f ELSE pool[k]
         /\ PoolFrames' \cup {PageZero} = PoolFrames \cup {f, PageZero}
<1>1. i[p] \in 1 .. NSHARED /\ NSHARED \in Nat
  BY SizeAssumption DEF SpaceInv, Local, Counter
<1>2. \A k \in 1 .. NSHARED : pool'[k] = IF k = i[p] THEN f ELSE pool[k]
  BY Functions
<1>3. CASE variant.first # "always"
  <2>1. pool[i[p]] = PageZero
    <3>1. i[p] >= i[p]
      BY <1>1
    <3> QED BY <1>1, <1>3, <3>1 DEF Sound, PoolInv
  <2>2. \A x : x \in PoolFrames <=> \E k \in 1 .. NSHARED : x = pool[k]
    BY <1>3 DEF PoolFrames
  <2>3. \A x : x \in PoolFrames' <=> \E k \in 1 .. NSHARED : x = pool'[k]
    BY <1>3 DEF PoolFrames
  <2>4. \A x : x \in PoolFrames' \cup {PageZero} <=> x \in PoolFrames \cup {f, PageZero}
    BY <1>1, <1>2, <2>1, <2>2, <2>3
  <2> QED BY <1>2, <2>4
<1>4. CASE variant.first = "always"
  <2>1. \A r \in Procs \ {p} : pc[r] # "allocating" /\ pc[r] # "mapping"
    BY <1>4 DEF Sound, FreshInv, Exposed
  <2>2. \A x : x \in PoolFrames <=> \E k \in 1 .. NSHARED : x = pool[k] /\ k < i[p]
    BY <1>4, <2>1 DEF PoolFrames
  <2>3. \A x : x \in PoolFrames' <=>
               \E k \in 1 .. NSHARED : x = pool'[k] /\ (pc'[p] = "mapping" \/ k < i'[p])
    BY <1>4, <2>1 DEF PoolFrames
  <2>4. \A k \in 1 .. NSHARED : (pc'[p] = "mapping" \/ k < i'[p]) <=> k <= i[p]
    BY <1>1, <2>1
  <2>5. \A k \in 1 .. NSHARED : k <= i[p] <=> k < i[p] \/ k = i[p]
    BY <1>1
  <2>6. \A k \in 1 .. NSHARED : k < i[p] => k # i[p]
    BY <1>1
  <2>7. \A x : x \in PoolFrames' <=> x \in PoolFrames \/ x = f
    <3> SUFFICES ASSUME NEW x PROVE x \in PoolFrames' <=> x \in PoolFrames \/ x = f
      OBVIOUS
    <3>1. x \in PoolFrames' => x \in PoolFrames \/ x = f
      BY <1>2, <2>2, <2>3, <2>4, <2>5
    <3>2. x \in PoolFrames => x \in PoolFrames'
      BY <1>2, <2>2, <2>3, <2>4, <2>5, <2>6
    <3>3. x = f => x \in PoolFrames'
      BY <1>1, <1>2, <2>3, <2>4, <2>5
    <3> QED BY <3>1, <3>2, <3>3
  <2> QED BY <1>2, <2>7
<1> QED BY <1>3, <1>4

LEMMA CallAlone ==
  ASSUME Sound, NEW p \in Procs, pc[p] = "allocating"
  PROVE  /\ \A r \in Procs \ {p} : pc[r] # "allocating" /\ pc[r] # "mapping"
         /\ ~NoAlloc
         /\ variant.first # "always" => \A r \in Procs : RegionNone(vm[r])
<1>1. ~NoAlloc
  BY DEF NoAlloc
<1>2. CASE variant.first = "always"
  BY <1>1, <1>2 DEF Sound, FreshInv, Exposed
<1>3. CASE variant.first # "always"
  BY <1>1, <1>3 DEF Sound, PoolInv
<1> QED BY <1>2, <1>3

(* Until the last page is there nobody has mapped any, and when it is, all are. *)
LEMMA PoolFilled ==
  ASSUME SpaceInv, Sound, NEW p \in Procs, pc[p] = "allocating", NEW f, f # PageZero,
         UNCHANGED <<variant, vm>>,
         pool' = [pool EXCEPT ![i[p]] = f],
         \A r \in Procs \ {p} : pc'[r] = pc[r] /\ i'[r] = i[r],
         \/ i[p] < NSHARED /\ pc'[p] = "allocating" /\ i'[p] = i[p] + 1 /\ setup' = setup
         \/ /\ i[p] = NSHARED /\ pc'[p] = "mapping"
            /\ variant.first = "after" => setup'
            /\ variant.first = "before" => setup' = setup
  PROVE  PoolInv'
<1> SUFFICES ASSUME variant.first # "always"
             PROVE  (/\ \A q, r \in Procs : q # r /\ pc[q] = "allocating" => pc[r] \notin {"allocating", "mapping"}
                     /\ \A q \in Procs : pc[q] = "mapping" => ~FirstTime
                     /\ \A q \in Procs : pc[q] = "allocating" =>
                          /\ \A k \in 1 .. NSHARED : pool[k] = PageZero <=> k >= i[q]
                          /\ variant.first = "after" => ~setup
                          /\ variant.first = "before" => setup
                     /\ NoAlloc => \A k \in 1 .. NSHARED : pool[k] = PageZero <=> FirstTime
                     /\ variant.first = "never" => ~setup
                     /\ FirstTime \/ ~NoAlloc => \A q \in Procs : RegionNone(vm[q])
                     /\ OwnRegion \/ \A q \in Procs, w \in DOMAIN Window :
                                       PageAt(q, w) \in {None, pool[Window[w]]})'
  BY DEF PoolInv
<1>1. i[p] \in 1 .. NSHARED /\ NSHARED \in Nat \ {0} /\ variant.first # "never"
  BY SizeAssumption DEF SpaceInv, Local, Counter
<1>2. \A k \in 1 .. NSHARED : pool'[k] = IF k = i[p] THEN f ELSE pool[k]
  BY PoolGrows
<1>3. /\ \A k \in 1 .. NSHARED : pool[k] = PageZero <=> k >= i[p]
      /\ variant.first = "after" => ~setup
      /\ variant.first = "before" => setup
  BY DEF Sound, PoolInv
<1>4. /\ \A r \in Procs \ {p} : pc[r] # "allocating" /\ pc[r] # "mapping"
      /\ \A r \in Procs : RegionNone(vm[r])
  BY CallAlone
<1>5. \A k \in 1 .. NSHARED : pool'[k] = PageZero <=> k > i[p]
  <2>1. \A k \in 1 .. NSHARED : k >= i[p] <=> k > i[p] \/ k = i[p]
    BY <1>1
  <2>2. \A k \in 1 .. NSHARED : k > i[p] => k # i[p]
    BY <1>1
  <2> QED BY <1>1, <1>2, <1>3, <2>1, <2>2
<1>6. Region' = Region /\ Window' = Window
  BY SameVariant
<1>7. \A r \in Procs : RegionNone(vm[r])'
  BY <1>4, <1>6 DEF RegionNone
<1>8. (\A q \in Procs, w \in DOMAIN Window : PageAt(q, w) \in {None, pool[Window[w]]})'
  <2>1. \A w \in DOMAIN Window : HEAP + w - 1 \in Region
    BY PageFacts, WindowFacts, Functions
  <2> QED BY <1>4, <1>6, <2>1 DEF PageAt, RegionNone
<1>9. CASE i[p] < NSHARED
  <2>1. pc'[p] = "allocating" /\ i'[p] = i[p] + 1 /\ setup' = setup /\ ~NoAlloc'
    BY <1>1, <1>9 DEF NoAlloc
  <2>2. \A k \in 1 .. NSHARED : pool'[k] = PageZero <=> k >= i'[p]
    <3>1. \A k \in 1 .. NSHARED : k > i[p] <=> k >= i[p] + 1
      BY <1>1
    <3> QED BY <1>5, <2>1, <3>1
  <2> QED BY <1>1, <1>3, <1>4, <1>7, <1>8, <2>1, <2>2
<1>10. CASE i[p] = NSHARED
  <2>1. pc'[p] = "mapping" /\ (variant.first = "after" => setup')
        /\ (variant.first = "before" => setup' = setup)
    BY <1>1, <1>10
  <2>2. NoAlloc' /\ \A r \in Procs : pc'[r] # "allocating"
    BY <1>4, <2>1 DEF NoAlloc
  <2>3. \A k \in 1 .. NSHARED : pool'[k] # PageZero
    <3>1. \A k \in 1 .. NSHARED : ~ (k > i[p])
      BY <1>1, <1>10
    <3> QED BY <1>5, <3>1
  <2>4. ~FirstTime'
    <3>1. variant.first \in {"address", "after", "before"}
      BY <1>1, VariantFields, Functions
    <3>2. 1 \in 1 .. NSHARED
      BY <1>1
    <3> QED BY <1>3, <2>1, <2>3, <3>1, <3>2 DEF FirstTime
  <2> QED BY <1>1, <1>7, <1>8, <2>1, <2>2, <2>3, <2>4
<1> QED BY <1>1, <1>9, <1>10

LEMMA AllocSharedSound ==
  ASSUME SpaceInv, Sound, Running, NEW p \in Procs, AllocShared(p)
  PROVE  Sound'
<1> DEFINE f == Lowest(free)
<1>1. /\ pc[p] = "allocating" /\ free # {}
      /\ pool' = [pool EXCEPT ![i[p]] = f] /\ free' = free \ {f}
      /\ IF i[p] < NSHARED
         THEN i' = [i EXCEPT ![p] = i[p] + 1] /\ UNCHANGED <<pc, setup>>
         ELSE /\ i' = [i EXCEPT ![p] = 1]
              /\ setup' = (setup \/ variant.first = "after")
              /\ pc' = [pc EXCEPT ![p] = "mapping"]
      /\ UNCHANGED <<vm, child, goal, panic, variant, leaked, overlap, spoiled>>
  BY DEF AllocShared, Go
<1>2. f \in free /\ f \in Frames
  BY <1>1, TakeOne, Functions
<1> HIDE DEF f
<1>3. i[p] \in 1 .. NSHARED /\ NSHARED \in Nat
  BY <1>1, SizeAssumption DEF SpaceInv, Local, Counter
<1>4. \A r \in Procs \ {p} : pc'[r] = pc[r] /\ i'[r] = i[r]
  BY <1>1, Functions
<1>5. \/ i[p] < NSHARED /\ pc'[p] = "allocating" /\ i'[p] = i[p] + 1 /\ setup' = setup
      \/ /\ i[p] = NSHARED /\ pc'[p] = "mapping" /\ i'[p] = 1
         /\ variant.first = "after" => setup'
         /\ variant.first = "before" => setup' = setup
  <2>1. CASE i[p] < NSHARED
    BY <1>1, <2>1, Functions
  <2>2. CASE ~(i[p] < NSHARED)
    <3>1. i[p] = NSHARED
      BY <1>3, <2>2
    <3>2. pc'[p] = "mapping" /\ i'[p] = 1 /\ setup' = (setup \/ variant.first = "after")
      BY <1>1, <2>2, Functions
    <3>3. variant.first = "before" => setup' = setup
      BY <3>2, Functions DEF TypeOK
    <3> QED BY <3>1, <3>2, <3>3
  <2> QED BY <2>1, <2>2
<1>6. PoolInv'
  <2>1. f # PageZero
    BY <1>2 DEF Frames, PageZero
  <2> QED BY <1>1, <1>4, <1>5, <2>1, PoolFilled
<1>7. PoolFrames' \cup {PageZero} = PoolFrames \cup {f, PageZero}
  BY <1>1, <1>4, <1>5, PoolGrows
<1>8. SharedFrames' = SharedFrames \cup {f}
  <2>1. SharedFrames = (PoolFrames \cup UNION {Seen(r) : r \in Procs}) \cap Frames
    BY Shares DEF Sound, FrameInv
  <2>2. SharedFrames' = (PoolFrames' \cup UNION {Seen(r)' : r \in Procs}) \cap Frames
    BY <1>1, SharesAfter
  <2>3. \A r \in Procs : Seen(r)' = Seen(r)
    BY <1>1, HeldOthers DEF Sound
  <2>4. UNION {Seen(r)' : r \in Procs} = UNION {Seen(r) : r \in Procs}
    BY <2>3
  <2>5. PageZero \notin Frames
    BY DEF Frames, PageZero
  <2> QED BY <1>2, <1>7, <2>1, <2>2, <2>4, <2>5
<1>9. FrameInv'
  <2>1. free \cap SharedFrames = {}
    BY DEF Sound, FrameInv
  <2>2. free' \cap SharedFrames' = {} /\ free' \cup SharedFrames' = free \cup SharedFrames
    BY <1>1, <1>2, <1>8, <2>1
  <2> QED BY <1>1, <2>2, FramesMove DEF Sound
<1>10. FreshInv'
  <2> SUFFICES ASSUME variant.first = "always"
               PROVE  (/\ \A q, r \in Procs : Exposed(q) /\ Exposed(r) => q = r
                       /\ \A q, r \in Procs : q # r => Seen(q) \cap Seen(r) = {}
                       /\ \A q, r \in Procs : Exposed(q) /\ r # Target(q) => Seen(r) \cap PoolFrames = {}
                       /\ \A q \in Procs : pc[q] = "mapping" =>
                            \A w \in DOMAIN Window : w < i[q] => PageAt(Target(q), w) = pool[Window[w]])'
    BY <1>1 DEF FreshInv
  <2>1. \A r \in Procs \ {p} : pc'[r] # "allocating" /\ pc'[r] # "mapping"
    BY <1>1, <1>4, CallAlone
  <2>2. \A r \in Procs : Seen(r)' = Seen(r)
    BY <1>1, HeldOthers DEF Sound
  <2>3. \A r \in Procs : r # Target(p) => Seen(r) \cap PoolFrames = {}
    BY <1>1 DEF Sound, FreshInv, Exposed
  <2>4. \A r \in Procs : f \notin Seen(r) /\ PageZero \notin Seen(r)
    <3>1. \A r \in Procs : Seen(r) \subseteq Frames
      BY SeenFrames, VariantFields, Functions
    <3>2. \A r \in Procs : Seen(r) \subseteq SharedFrames
      BY <3>1, Shares DEF Sound, FrameInv
    <3>3. f \notin SharedFrames
      BY <1>2 DEF Sound, FrameInv
    <3>4. PageZero \notin Frames
      BY DEF Frames, PageZero
    <3> QED BY <3>1, <3>2, <3>3, <3>4
  <2>5. \A r \in Procs : r # Target(p) => Seen(r)' \cap PoolFrames' = {}
    BY <1>7, <2>2, <2>3, <2>4
  <2>6. Target(p)' = Target(p)
    BY <1>1 DEF Target
  <2>7. \A q \in Procs : Exposed(q)' => q = p
    BY <2>1 DEF Exposed
  <2>8. \A q, r \in Procs : q # r => Seen(q)' \cap Seen(r)' = {}
    BY <2>2 DEF Sound, FreshInv
  <2>9. pc'[p] = "mapping" => \A w \in DOMAIN Window' : ~ (w < i'[p])
    <3>1. \A w \in DOMAIN Window' : w \in Nat \ {0}
      <4>1. \A w \in DOMAIN Window : w \in Nat \ {0}
        BY WindowFacts, Functions
      <4> QED BY <1>1, <4>1, SameVariant
    <3>2. pc'[p] = "mapping" => i'[p] = 1
      BY <1>5
    <3> QED BY <3>1, <3>2
  <2> QED BY <2>1, <2>5, <2>6, <2>7, <2>8, <2>9
<1>11. Calm'
  BY <1>1 DEF Sound, Calm
<1> QED BY <1>6, <1>9, <1>10, <1>11 DEF Sound

(* ... or finds none left, and gives them back, panics or goes on without.     *)
LEMMA OnlyPanic ==
  ASSUME SpaceInv, Sound, Calm', Running' => Running,
         UNCHANGED <<free, vm, pc, child, i, pool, setup, variant, leaked>>
  PROVE  Sound'
<1>1. Aside
  BY DEF Aside
<1>2. PoolInv' /\ FreshInv'
  BY <1>1, PoolAside, FreshAside DEF Sound
<1>3. PoolFrames' = PoolFrames
  BY PoolStays
<1>4. FrameInv'
  BY <1>3, FramesStay DEF Sound
<1> QED BY <1>2, <1>4 DEF Sound

LEMMA RollbackSound ==
  ASSUME SpaceInv, Sound, Running, NEW p \in Procs, pc[p] = "allocating", variant.oom = "rollback",
         free' = free \cup {pool[k] : k \in 1 .. i[p] - 1},
         pool' = [k \in 1 .. NSHARED |-> IF k < i[p] THEN PageZero ELSE pool[k]],
         i' = [i EXCEPT ![p] = 0], Return(p),
         UNCHANGED <<vm, child, goal, setup, panic, holder, variant, leaked, overlap, spoiled>>
  PROVE  Sound'
<1> DEFINE P == {pool[k] : k \in 1 .. i[p] - 1}
<1>1. i[p] \in 1 .. NSHARED /\ NSHARED \in Nat \ {0} /\ variant.first # "never"
  BY SizeAssumption DEF SpaceInv, Local, Counter
<1>2. variant.first # "always" /\ variant.first # "before"
  BY VariantFields, Functions
<1>3. /\ \A k \in 1 .. NSHARED : pool[k] = PageZero <=> k >= i[p]
      /\ variant.first = "after" => ~setup
  BY <1>2 DEF Sound, PoolInv
<1>4. /\ \A r \in Procs \ {p} : pc[r] # "allocating" /\ pc[r] # "mapping"
      /\ \A r \in Procs : RegionNone(vm[r])
  BY <1>2, CallAlone
<1>5. /\ \A r \in Procs \ {p} : pc'[r] = pc[r]
      /\ pc'[p] = (IF child[p] = None THEN "user" ELSE "copied")
  BY ReturnTypes
<1>6. \A k \in 1 .. NSHARED : pool'[k] = PageZero
  <2>1. \A k \in 1 .. NSHARED : k < i[p] \/ k >= i[p]
    BY <1>1
  <2>2. \A k \in 1 .. NSHARED : pool'[k] = IF k < i[p] THEN PageZero ELSE pool[k]
    OBVIOUS
  <2> QED BY <1>3, <2>1, <2>2
<1>7. \A r \in Procs : pc'[r] # "allocating" /\ pc'[r] # "mapping"
  BY <1>4, <1>5
<1>8. NoAlloc' /\ FirstTime'
  <2>1. 1 \in 1 .. NSHARED
    BY <1>1
  <2>2. variant.first \in {"address", "after"}
    BY <1>1, <1>2, VariantFields, Functions
  <2> QED BY <1>3, <1>6, <1>7, <2>1, <2>2 DEF NoAlloc, FirstTime
<1>9. Region' = Region /\ Window' = Window
  BY SameVariant
<1>10. \A r \in Procs : RegionNone(vm[r])'
  BY <1>4, <1>9 DEF RegionNone
<1>11. (\A q \in Procs, w \in DOMAIN Window : PageAt(q, w) \in {None, pool[Window[w]]})'
  <2>1. \A w \in DOMAIN Window : HEAP + w - 1 \in Region
    BY PageFacts, WindowFacts, Functions
  <2> QED BY <1>4, <1>9, <2>1 DEF PageAt, RegionNone
<1>12. PoolInv'
  BY <1>1, <1>6, <1>7, <1>8, <1>10, <1>11 DEF PoolInv
<1>13. FreshInv'
  BY <1>2 DEF FreshInv
<1>14. P \subseteq Frames /\ SharedFrames = P /\ SharedFrames' = {}
  <2>1. \A k \in 1 .. i[p] - 1 : k \in 1 .. NSHARED /\ ~ (k >= i[p])
    BY <1>1
  <2>2. \A k \in 1 .. i[p] - 1 : pool[k] \in Frames
    BY <1>3, <2>1 DEF SpaceInv, PoolType
  <2>3. \A r \in Procs : Seen(r) = {} /\ Seen(r)' = {}
    <3>1. \A r \in Procs : Seen(r) = {} /\ Seen(r)' = Seen(r)
      BY <1>4, NoRegionNothingSeen, HeldOthers DEF Sound
    <3> QED BY <3>1
  <2>4. UNION {Seen(r) : r \in Procs} = {} /\ UNION {Seen(r)' : r \in Procs} = {}
    BY <2>3
  <2>5. SharedFrames = PoolFrames \cap Frames /\ SharedFrames' = PoolFrames' \cap Frames
    <3>1. SharedFrames = (PoolFrames \cup UNION {Seen(r) : r \in Procs}) \cap Frames
      BY Shares DEF Sound, FrameInv
    <3>2. SharedFrames' = (PoolFrames' \cup UNION {Seen(r)' : r \in Procs}) \cap Frames
      BY SharesAfter
    <3> QED BY <2>4, <3>1, <3>2
  <2>6. PageZero \notin Frames
    BY DEF Frames, PageZero
  <2>7. \A x : x \in PoolFrames <=> \E k \in 1 .. NSHARED : x = pool[k]
    BY <1>2 DEF PoolFrames
  <2>8. \A x : x \in PoolFrames' <=> \E k \in 1 .. NSHARED : x = pool'[k]
    BY <1>2 DEF PoolFrames
  <2>9. SharedFrames' = {}
    BY <1>6, <2>5, <2>6, <2>8
  <2>10. \A k \in 1 .. NSHARED : k \in 1 .. i[p] - 1 \/ k >= i[p]
    BY <1>1
  <2>11. \A x : x \in SharedFrames <=> x \in P
    BY <1>3, <2>1, <2>2, <2>5, <2>6, <2>7, <2>10
  <2>12. P \subseteq Frames
    BY <2>2
  <2> QED BY <2>9, <2>11, <2>12
<1>15. FrameInv'
  <2>1. free' \cap SharedFrames' = {} /\ free' \cup SharedFrames' = free \cup SharedFrames
    BY <1>14
  <2> QED BY <2>1, FramesMove DEF Sound
<1>16. Calm'
  BY DEF Sound, Calm
<1> QED BY <1>12, <1>13, <1>15, <1>16 DEF Sound

LEMMA UncheckedSound ==
  ASSUME SpaceInv, Sound, Running, NEW p \in Procs, pc[p] = "allocating", variant.oom = "unchecked",
         pool' = [pool EXCEPT ![i[p]] = NoMemory],
         i' = [i EXCEPT ![p] = IF @ < NSHARED THEN @ + 1 ELSE 1],
         setup' = (setup \/ i[p] = NSHARED),
         Go(p, IF i[p] < NSHARED THEN "allocating" ELSE "mapping"),
         UNCHANGED <<free, vm, child, goal, panic, holder, variant, leaked, overlap, spoiled>>
  PROVE  Sound'
<1>1. i[p] \in 1 .. NSHARED /\ NSHARED \in Nat /\ variant.first # "always" /\ setup \in BOOLEAN
  BY SizeAssumption, VariantFields, Functions DEF SpaceInv, Local, Counter, TypeOK
<1>2. \A r \in Procs \ {p} : pc'[r] = pc[r] /\ i'[r] = i[r]
  BY Functions DEF Go
<1>3. \/ i[p] < NSHARED /\ pc'[p] = "allocating" /\ i'[p] = i[p] + 1 /\ setup' = setup
      \/ /\ i[p] = NSHARED /\ pc'[p] = "mapping"
         /\ variant.first = "after" => setup'
         /\ variant.first = "before" => setup' = setup
  <2>1. pc' = [pc EXCEPT ![p] = IF i[p] < NSHARED THEN "allocating" ELSE "mapping"]
    BY DEF Go
  <2>2. pc'[p] = IF i[p] < NSHARED THEN "allocating" ELSE "mapping"
    BY <2>1, Functions
  <2>3. i'[p] = IF i[p] < NSHARED THEN i[p] + 1 ELSE 1
    BY Functions
  <2>4. CASE i[p] < NSHARED
    <3>1. i[p] # NSHARED
      BY <1>1, <2>4
    <3> QED BY <1>1, <2>2, <2>3, <2>4, <3>1
  <2>5. CASE ~(i[p] < NSHARED)
    <3>1. i[p] = NSHARED
      BY <1>1, <2>5
    <3>2. variant.first = "before" => setup
      BY <1>1 DEF Sound, PoolInv
    <3>3. pc'[p] = "mapping" /\ setup'
      BY <2>2, <2>5, <3>1
    <3> QED BY <1>1, <3>1, <3>2, <3>3
  <2> QED BY <2>4, <2>5
<1>4. PoolInv'
  <2>1. NoMemory # PageZero
    BY DEF NoMemory, PageZero
  <2> QED BY <1>2, <1>3, <2>1, PoolFilled
<1>5. FreshInv'
  BY <1>1 DEF FreshInv
<1>6. SharedFrames' = SharedFrames
  <2>1. PoolFrames' \cup {PageZero} = PoolFrames \cup {NoMemory, PageZero}
    BY <1>2, <1>3, PoolGrows
  <2>2. SharedFrames = (PoolFrames \cup UNION {Seen(r) : r \in Procs}) \cap Frames
    BY Shares DEF Sound, FrameInv
  <2>3. SharedFrames' = (PoolFrames' \cup UNION {Seen(r)' : r \in Procs}) \cap Frames
    BY SharesAfter
  <2>4. UNION {Seen(r)' : r \in Procs} = UNION {Seen(r) : r \in Procs}
    BY HeldOthers DEF Sound
  <2>5. PageZero \notin Frames /\ NoMemory \notin Frames
    BY DEF Frames, PageZero, NoMemory
  <2> QED BY <2>1, <2>2, <2>3, <2>4, <2>5
<1>7. FrameInv'
  <2>1. free' \cap SharedFrames' = {} /\ free' \cup SharedFrames' = free \cup SharedFrames
    BY <1>6 DEF Sound, FrameInv
  <2> QED BY <2>1, FramesMove DEF Sound
<1>8. Calm'
  BY DEF Sound, Calm
<1> QED BY <1>4, <1>5, <1>7, <1>8 DEF Sound

LEMMA AllocSharedFailSound ==
  ASSUME SpaceInv, Sound, Running, NEW p \in Procs, AllocSharedFail(p)
  PROVE  Sound'
<1>1. pc[p] = "allocating" /\ UNCHANGED <<vm, child, goal, holder, variant, leaked, overlap, spoiled>>
  BY DEF AllocSharedFail
<1>2. i[p] \in 1 .. NSHARED /\ NSHARED \in Nat
  BY <1>1, SizeAssumption DEF SpaceInv, Local, Counter
<1>3. CASE variant.oom = "rollback"
  <2>1. PageZero \notin {pool[k] : k \in 1 .. i[p] - 1}
    <3>1. variant.first # "always"
      BY <1>3, VariantFields, Functions
    <3>2. \A k \in 1 .. NSHARED : pool[k] = PageZero <=> k >= i[p]
      BY <1>1, <3>1 DEF Sound, PoolInv
    <3>3. \A k \in 1 .. i[p] - 1 : k \in 1 .. NSHARED /\ ~ (k >= i[p])
      BY <1>2
    <3> QED BY <3>2, <3>3
  <2>2. /\ free' = free \cup {pool[k] : k \in 1 .. i[p] - 1}
        /\ pool' = [k \in 1 .. NSHARED |-> IF k < i[p] THEN PageZero ELSE pool[k]]
        /\ i' = [i EXCEPT ![p] = 0]
        /\ Return(p)
        /\ UNCHANGED <<setup, panic>>
    BY <1>3, <2>1 DEF AllocSharedFail
  <2> QED BY <1>1, <1>3, <2>2, RollbackSound
<1>4. CASE variant.oom = "panic"
  <2>1. panic' = "memory" /\ UNCHANGED <<free, pool, i, pc, setup>>
    BY <1>4 DEF AllocSharedFail
  <2>2. Calm' /\ (Running' => Running)
    BY <2>1, Halted DEF Calm
  <2> QED BY <1>1, <2>1, <2>2, OnlyPanic
<1>5. CASE variant.oom = "unchecked"
  <2>1. /\ pool' = [pool EXCEPT ![i[p]] = NoMemory]
        /\ i' = [i EXCEPT ![p] = IF @ < NSHARED THEN @ + 1 ELSE 1]
        /\ setup' = (setup \/ i[p] = NSHARED)
        /\ Go(p, IF i[p] < NSHARED THEN "allocating" ELSE "mapping")
        /\ UNCHANGED <<free, panic>>
    BY <1>5 DEF AllocSharedFail
  <2> QED BY <1>1, <1>5, <2>1, UncheckedSound
<1> QED BY <1>3, <1>4, <1>5, VariantFields, Functions

(* ... then maps the pages, one after the other.                               *)
MapsPage(p, q, v, g) ==
  /\ pc[p] = "mapping" /\ q = Target(p) /\ v = HEAP + i[p] - 1
  /\ v \notin Mapped(q)
  /\ vm[q].tab[SharedEntry] = None => g \in free
  /\ vm' = WithPage(q, v, PoolPage(p), g)
  /\ free' = IF vm[q].tab[SharedEntry] = None THEN free \ {g} ELSE free
  /\ NextWindow(p)
  /\ UNCHANGED <<child, goal, pool, setup, panic, variant, leaked>>

LEMMA MapsPageEffect ==
  ASSUME SpaceInv, NEW p \in Procs, NEW q \in Procs, NEW v, NEW g, MapsPage(p, q, v, g)
  PROVE  /\ i[p] \in 1 .. WindowLen /\ v \in Region /\ vm[q].page[v] = None
         /\ OnlySpace(q) /\ SameRoots(q)
         /\ vm'[q].page[v] = PoolPage(p)
         /\ \A u \in Pages \ {v} : vm'[q].page[u] = vm[q].page[u]
         /\ \A e \in Entries :
              vm'[q].tab[e] = IF e = SharedEntry /\ vm[q].tab[e] = None THEN g ELSE vm[q].tab[e]
         /\ PoolPage(p) # None /\ Window[i[p]] \in 1 .. NSHARED
         /\ \A r \in Procs \ {p} : pc'[r] = pc[r] /\ i'[r] = i[r]
         /\ \/ i[p] = WindowLen /\ pc'[p] # "mapping" /\ pc'[p] # "allocating"
            \/ i[p] # WindowLen /\ pc'[p] = "mapping" /\ i'[p] = i[p] + 1
<1>1. /\ pc[p] = "mapping" /\ v = HEAP + i[p] - 1 /\ v \notin Mapped(q)
      /\ vm[q].tab[SharedEntry] = None => g \in free
      /\ vm' = WithPage(q, v, PoolPage(p), g) /\ NextWindow(p)
  BY DEF MapsPage
<1>2. /\ i[p] \in 1 .. WindowLen
      /\ \A r \in Procs \ {p} : pc'[r] = pc[r] /\ i'[r] = i[r]
      /\ \/ i[p] = WindowLen /\ pc'[p] # "mapping" /\ pc'[p] # "allocating"
         \/ i[p] # WindowLen /\ pc'[p] = "mapping" /\ i'[p] = i[p] + 1
  BY <1>1, NextWindowTypes
<1>3. v \in Region /\ v \in Pages /\ Entry(v) = SharedEntry /\ Window[i[p]] \in 1 .. NSHARED
  BY <1>1, <1>2, PageFacts, WindowFacts, Functions
<1>4. vm[q].page[v] = None
  BY <1>1, <1>3 DEF Mapped
<1>5. PoolPage(p) \in Value /\ PoolPage(p) # None
  BY <1>1, SharedPageType
<1>6. /\ OnlySpace(q) /\ SameRoots(q)
      /\ vm'[q].page[v] = PoolPage(p)
      /\ \A u \in Pages \ {v} : vm'[q].page[u] = vm[q].page[u]
      /\ \A e \in Entries :
           vm'[q].tab[e] = IF e = SharedEntry /\ vm[q].tab[e] = None THEN g ELSE vm[q].tab[e]
  <2>1. vm[q].tab[Entry(v)] = None => g \in Frames \cup {None}
    BY <1>1, <1>3, Functions
  <2>2. vm \in [Procs -> Space]
    BY Functions
  <2> QED BY <1>1, <1>3, <1>5, <2>1, <2>2, WithPageEffect
<1> QED BY <1>2, <1>3, <1>4, <1>5, <1>6

LEMMA MapsPagePool ==
  ASSUME SpaceInv, Sound, NEW p \in Procs, NEW q \in Procs, NEW v, NEW g, MapsPage(p, q, v, g)
  PROVE  PoolInv'
<1>0. pc[p] = "mapping" /\ v = HEAP + i[p] - 1 /\ UNCHANGED <<child, pool, setup, variant>>
  BY DEF MapsPage
<1> SUFFICES ASSUME variant.first # "always"
             PROVE  (/\ \A t, r \in Procs : t # r /\ pc[t] = "allocating" => pc[r] \notin {"allocating", "mapping"}
                     /\ \A t \in Procs : pc[t] = "mapping" => ~FirstTime
                     /\ \A t \in Procs : pc[t] = "allocating" =>
                          /\ \A k \in 1 .. NSHARED : pool[k] = PageZero <=> k >= i[t]
                          /\ variant.first = "after" => ~setup
                          /\ variant.first = "before" => setup
                     /\ NoAlloc => \A k \in 1 .. NSHARED : pool[k] = PageZero <=> FirstTime
                     /\ variant.first = "never" => ~setup
                     /\ FirstTime \/ ~NoAlloc => \A t \in Procs : RegionNone(vm[t])
                     /\ OwnRegion \/ \A t \in Procs, w \in DOMAIN Window :
                                       PageAt(t, w) \in {None, pool[Window[w]]})'
  BY <1>0 DEF PoolInv
<1>1. NoAlloc /\ ~FirstTime
  BY <1>0 DEF Sound, PoolInv, NoAlloc
<1>2. \A r \in Procs : pc'[r] # "allocating"
  BY <1>1, MapsPageEffect DEF NoAlloc
<1>3. NoAlloc' /\ ~FirstTime' /\ Region' = Region /\ Window' = Window /\ (OwnRegion' <=> OwnRegion)
  BY <1>0, <1>1, <1>2, SameVariant DEF NoAlloc, FirstTime, OwnRegion
<1>4. \A k \in 1 .. NSHARED : pool[k] # PageZero
  BY <1>1 DEF Sound, PoolInv
<1>5. variant.first = "never" => ~setup
  BY DEF Sound, PoolInv
<1>6. ASSUME ~OwnRegion, NEW t \in Procs, NEW w \in DOMAIN Window
      PROVE  PageAt(t, w)' \in {None, pool[Window[w]]}
  <2>1. PageAt(t, w) \in {None, pool[Window[w]]}
    BY <1>6 DEF Sound, PoolInv
  <2>2. CASE t = q /\ w = i[p]
    BY <1>0, <2>2, MapsPageEffect DEF PageAt, PoolPage
  <2>3. CASE ~(t = q /\ w = i[p])
    <3>1. HEAP + w - 1 \in Pages /\ (t = q => HEAP + w - 1 # v)
      <4>1. w \in Int /\ i[p] \in Int /\ HEAP \in Int
        BY MapsPageEffect, WindowFacts, Functions, SizeAssumption
      <4>2. HEAP + w - 1 = HEAP + i[p] - 1 => w = i[p]
        BY <4>1
      <4> QED BY <1>0, <2>3, <4>2, PageFacts, WindowFacts, Functions
    <3>2. PageAt(t, w)' = PageAt(t, w)
      BY <3>1, MapsPageEffect DEF PageAt, OnlySpace
    <3> QED BY <2>1, <3>2
  <2> QED BY <2>2, <2>3
<1> QED BY <1>0, <1>2, <1>3, <1>4, <1>5, <1>6

LEMMA MapsPageSeen ==
  ASSUME SpaceInv, Sound, NEW p \in Procs, NEW q \in Procs, NEW v, NEW g, MapsPage(p, q, v, g)
  PROVE  /\ Seen(q)' = Seen(q) \cup {PoolPage(p)} /\ PoolPage(p) \in PoolFrames
         /\ \A r \in Procs \ {q} : Held(r)' = Held(r) /\ HeldOnce(r)' /\ Tidy(r)' /\ Seen(r)' = Seen(r)
<1>0. pc[p] = "mapping" /\ variant' = variant
  BY DEF MapsPage
<1>1. Region' = Region /\ Region \subseteq Pages
  BY <1>0, SameVariant, PageFacts, Functions
<1>2. \A x : x \in Seen(q)' <=> x # None /\ \E u \in Region : x = vm'[q].page[u]
  BY <1>1 DEF Seen, FramesOf
<1>3. \A x : x \in Seen(q) <=> x # None /\ \E u \in Region : x = vm[q].page[u]
  BY DEF Seen, FramesOf
<1>4. /\ v \in Region /\ vm[q].page[v] = None /\ vm'[q].page[v] = PoolPage(p) /\ PoolPage(p) # None
      /\ \A u \in Region \ {v} : vm'[q].page[u] = vm[q].page[u]
  BY <1>1, MapsPageEffect
<1>5. \A x : x \in Seen(q)' <=> x \in Seen(q) \/ x = PoolPage(p)
  BY <1>2, <1>3, <1>4
<1>6. PoolPage(p) \in PoolFrames
  <2>1. Window[i[p]] \in 1 .. NSHARED
    BY MapsPageEffect
  <2> QED BY <1>0, <2>1 DEF PoolPage, PoolFrames
<1>7. \A r \in Procs \ {q} : vm'[r] = vm[r]
  BY MapsPageEffect DEF OnlySpace
<1> QED BY <1>0, <1>5, <1>6, <1>7, HeldOthers DEF Sound

LEMMA MapsPageFresh ==
  ASSUME SpaceInv, Sound, NEW p \in Procs, NEW q \in Procs, NEW v, NEW g, MapsPage(p, q, v, g)
  PROVE  FreshInv'
<1>0. /\ pc[p] = "mapping" /\ q = Target(p) /\ v = HEAP + i[p] - 1
      /\ UNCHANGED <<child, pool, setup, variant>>
  BY DEF MapsPage
<1> SUFFICES ASSUME variant.first = "always"
             PROVE  (/\ \A t, r \in Procs : Exposed(t) /\ Exposed(r) => t = r
                     /\ \A t, r \in Procs : t # r => Seen(t) \cap Seen(r) = {}
                     /\ \A t, r \in Procs : Exposed(t) /\ r # Target(t) => Seen(r) \cap PoolFrames = {}
                     /\ \A t \in Procs : pc[t] = "mapping" =>
                          \A w \in DOMAIN Window : w < i[t] => PageAt(Target(t), w) = pool[Window[w]])'
  BY <1>0 DEF FreshInv
<1>1. Exposed(p) /\ \A r \in Procs \ {p} : pc[r] # "mapping" /\ pc[r] # "allocating"
  BY <1>0 DEF Sound, FreshInv, Exposed
<1>2. \A r \in Procs \ {p} : ~Exposed(r)' /\ pc'[r] # "mapping"
  BY <1>1, MapsPageEffect DEF Exposed
<1>3. Target(p)' = Target(p)
  BY <1>0 DEF Target
<1>4. \A r \in Procs \ {q} : Seen(r)' = Seen(r) /\ Seen(r) \cap PoolFrames = {}
  BY <1>0, <1>1, MapsPageSeen DEF Sound, FreshInv
<1>5. \A t, r \in Procs : t # r => Seen(t)' \cap Seen(r)' = {}
  <2>1. \A t, r \in Procs : t # r => Seen(t) \cap Seen(r) = {}
    BY DEF Sound, FreshInv
  <2>2. \A r \in Procs \ {q} : Seen(q)' \cap Seen(r)' = {}
    BY <1>4, <2>1, MapsPageSeen
  <2> QED BY <1>4, <2>1, <2>2
<1>6. Exposed(p)' => pc'[p] = "mapping" /\ i'[p] = i[p] + 1
  BY <1>0, MapsPageEffect DEF Exposed
<1>7. pc'[p] = "mapping" => PoolFrames' = PoolFrames
  BY <1>0 DEF PoolFrames
<1>8. ASSUME pc'[p] = "mapping", NEW w \in DOMAIN Window, w < i'[p]
      PROVE  PageAt(q, w)' = pool[Window[w]]
  <2>1. w \in Int /\ i[p] \in Int /\ HEAP \in Int /\ i'[p] = i[p] + 1
    BY <1>8, MapsPageEffect, WindowFacts, Functions, SizeAssumption
  <2>2. CASE w = i[p]
    BY <1>0, <2>2, MapsPageEffect DEF PageAt, PoolPage
  <2>3. CASE w # i[p]
    <3>1. w < i[p]
      BY <1>8, <2>1, <2>3
    <3>2. HEAP + w - 1 # HEAP + i[p] - 1
      BY <2>1, <2>3
    <3>3. HEAP + w - 1 \in Pages \ {v}
      BY <1>0, <3>2, PageFacts, WindowFacts, Functions
    <3>4. PageAt(q, w) = pool[Window[w]]
      BY <1>0, <3>1 DEF Sound, FreshInv
    <3> QED BY <3>3, <3>4, MapsPageEffect DEF PageAt
  <2> QED BY <2>2, <2>3
<1>9. Window' = Window
  BY <1>0, SameVariant
<1>10. \A t, r \in Procs : Exposed(t)' /\ r # Target(t)' => Seen(r)' \cap PoolFrames' = {}
  BY <1>0, <1>2, <1>3, <1>4, <1>6, <1>7
<1>11. \A t \in Procs : pc'[t] = "mapping" =>
         \A w \in DOMAIN Window : w < i'[t] => PageAt(Target(t), w)' = pool[Window[w]]
  <2>1. \A w : PageAt(Target(p), w)' = PageAt(q, w)'
    BY <1>0, <1>3 DEF PageAt
  <2> QED BY <1>2, <1>8, <2>1
<1> QED BY <1>0, <1>2, <1>5, <1>9, <1>10, <1>11

LEMMA MapsPageShares ==
  ASSUME SpaceInv, Sound, NEW p \in Procs, NEW q \in Procs, NEW v, NEW g, MapsPage(p, q, v, g)
  PROVE  SharedFrames' = SharedFrames
<1>0. /\ pc[p] = "mapping" /\ q = Target(p) /\ v = HEAP + i[p] - 1
      /\ UNCHANGED <<child, pool, setup, variant>>
  BY DEF MapsPage
<1>1. SharedFrames = (PoolFrames \cup UNION {Seen(r) : r \in Procs}) \cap Frames
  BY Shares DEF Sound, FrameInv
<1>2. SharedFrames' = (PoolFrames' \cup UNION {Seen(r)' : r \in Procs}) \cap Frames
  BY <1>0, SharesAfter
<1>3. (UNION {Seen(r)' : r \in Procs}) = (UNION {Seen(r) : r \in Procs}) \cup {PoolPage(p)}
  <2>1. \A r \in Procs : \A x : x \in Seen(r)' <=> x \in Seen(r) \/ (r = q /\ x = PoolPage(p))
    BY MapsPageSeen
  <2>2. \A x : x \in UNION {Seen(r)' : r \in Procs} <=> \E r \in Procs : x \in Seen(r)'
    OBVIOUS
  <2>3. \A x : x \in UNION {Seen(r) : r \in Procs} <=> \E r \in Procs : x \in Seen(r)
    OBVIOUS
  <2>4. \A x : x \in UNION {Seen(r)' : r \in Procs} <=>
                 x \in UNION {Seen(r) : r \in Procs} \/ x = PoolPage(p)
    BY <2>1, <2>2, <2>3
  <2> QED BY <2>4
<1>4. PoolPage(p) \in PoolFrames
  BY MapsPageSeen
<1>5. CASE variant.first # "always" \/ pc'[p] = "mapping"
  <2>1. PoolFrames' = PoolFrames
    BY <1>0, <1>5 DEF PoolFrames
  <2> QED BY <1>1, <1>2, <1>3, <1>4, <2>1
<1>6. CASE variant.first = "always" /\ pc'[p] # "mapping"
  <2>1. \A r \in Procs \ {p} : pc[r] # "mapping" /\ pc[r] # "allocating"
    BY <1>0, <1>6 DEF Sound, FreshInv, Exposed
  <2>2. i[p] = WindowLen /\ \A r \in Procs : pc'[r] # "mapping" /\ pc'[r] # "allocating"
    BY <1>6, <2>1, MapsPageEffect
  <2>3. PoolFrames' = {}
    BY <1>0, <1>6, <2>2 DEF PoolFrames
  <2>4. \A x : x \in PoolFrames <=> \E k \in 1 .. NSHARED : x = pool[k]
    BY <1>0, <1>6 DEF PoolFrames
  <2>5. ASSUME NEW k \in 1 .. NSHARED PROVE pool[k] \in Seen(q) \/ pool[k] = PoolPage(p)
    <3>1. k \in DOMAIN Window /\ Window[k] = k /\ k \in 1 .. WindowLen /\ HEAP + k - 1 \in Region
      <4>1. WindowLen \in Nat /\ WindowLen >= NSHARED /\ NSHARED \in Nat /\ DOMAIN Window = 1 .. WindowLen
            /\ Window[k] = k
        BY WindowFacts, Functions, SizeAssumption
      <4>2. k \in 1 .. WindowLen
        BY <4>1
      <4> QED BY <4>1, <4>2, PageFacts, Functions
    <3>2. CASE k = i[p]
      BY <3>1, <3>2 DEF PoolPage
    <3>3. CASE k # i[p]
      <4>1. k < i[p]
        <5>1. WindowLen \in Int
          BY WindowFacts, Functions
        <5> QED BY <2>2, <3>1, <3>3, <5>1
      <4>2. PageAt(q, k) = pool[k]
        BY <1>0, <1>6, <3>1, <4>1 DEF Sound, FreshInv
      <4>3. pool[k] \in Frames
        BY <1>0, <1>6 DEF SpaceInv, OwnPool, OwnRegion
      <4>4. pool[k] # None
        BY <4>3, FrameValues
      <4> QED BY <3>1, <4>2, <4>4 DEF PageAt, Seen, FramesOf
    <3> QED BY <3>2, <3>3
  <2>6. PoolFrames \subseteq (UNION {Seen(r) : r \in Procs}) \cup {PoolPage(p)}
    BY <2>4, <2>5
  <2> QED BY <1>1, <1>2, <1>3, <1>4, <2>3, <2>6
<1> QED BY <1>5, <1>6

LEMMA MapsPageSound ==
  ASSUME SpaceInv, Sound, Running, NEW p \in Procs, NEW q \in Procs, NEW v, NEW g,
         MapsPage(p, q, v, g)
  PROVE  Sound'
<1>1. /\ vm[q].tab[SharedEntry] = None => g \in free
      /\ free' = IF vm[q].tab[SharedEntry] = None THEN free \ {g} ELSE free
      /\ UNCHANGED <<panic, variant, leaked>>
  BY DEF MapsPage
<1>2. PoolInv' /\ FreshInv' /\ SharedFrames' = SharedFrames
  BY MapsPagePool, MapsPageFresh, MapsPageShares
<1>3. /\ vm[q].tab[SharedEntry] = None => Held(q)' = Held(q) \cup {g} /\ HeldOnce(q)'
      /\ vm[q].tab[SharedEntry] # None => Held(q)' = Held(q) /\ HeldOnce(q)'
      /\ Tidy(q)'
  BY <1>1, MapsPageEffect, RegionTable
<1>4. \A r \in Procs \ {q} : Held(r)' = Held(r) /\ HeldOnce(r)' /\ Tidy(r)'
  BY MapsPageSeen
<1>5. /\ Held(q) \cap free = {} /\ Held(q) \cap SharedFrames = {} /\ free \cap SharedFrames = {}
      /\ leaked \cap free = {} /\ leaked \cap SharedFrames = {} /\ leaked \cap Held(q) = {}
  BY Apart DEF Sound
<1>6. /\ Held(q)' \cap free' = {} /\ Held(q)' \cap SharedFrames' = {}
      /\ free' \cap SharedFrames' = {} /\ HeldOnce(q)'
      /\ leaked' \cap free' = {} /\ leaked' \cap SharedFrames' = {} /\ leaked' \cap Held(q)' = {}
  BY <1>1, <1>2, <1>3, <1>5
<1>7. free' \cup SharedFrames' \cup leaked' \cup Held(q)' =
        free \cup SharedFrames \cup leaked \cup Held(q)
  BY <1>1, <1>2, <1>3
<1>8. FrameInv'
  BY <1>3, <1>4, <1>6, <1>7, Redistribute DEF Sound
<1>9. Calm'
  BY <1>1 DEF Sound, Calm
<1> QED BY <1>2, <1>8, <1>9 DEF Sound

LEMMA MapSharedSound ==
  ASSUME SpaceInv, Sound, Running, NEW p \in Procs, MapShared(p)
  PROVE  Sound'
<1>0. pc[p] = "mapping" /\ Target(p) \in Procs
  <2>1. pc[p] = "mapping"
    BY DEF MapShared
  <2> QED BY <2>1, TargetFacts
<1> PICK q \in Procs : q = Target(p)
  BY <1>0
<1> DEFINE v == HEAP + i[p] - 1
<1>1. /\ UNCHANGED <<child, goal, pool, setup, variant, leaked, overlap, spoiled>>
      /\ \/ v \in Mapped(q) /\ panic' = Remap /\ UNCHANGED <<free, vm, i, pc, holder>>
         \/ /\ v \notin Mapped(q) /\ Needs(q, v) = 1
            /\ vm' = WithPage(q, v, PoolPage(p), None) /\ NextWindow(p)
            /\ UNCHANGED <<free, panic>>
         \/ /\ v \notin Mapped(q) /\ Needs(q, v) = 2 /\ free # {}
            /\ vm' = WithPage(q, v, PoolPage(p), Lowest(free))
            /\ free' = free \ {Lowest(free)} /\ NextWindow(p)
            /\ UNCHANGED panic
  BY DEF MapShared
<1>2. i[p] \in 1 .. WindowLen /\ i[p] \in DOMAIN Window /\ Entry(v) = SharedEntry
  <2>1. i[p] \in 1 .. Len(Window)
    BY <1>0 DEF SpaceInv, Local, Counter
  <2> QED BY <2>1, PageFacts, WindowFacts, Functions
<1>3. CASE v \in Mapped(q)
  <2>1. panic' = Remap /\ UNCHANGED <<free, vm, i, pc, holder>>
    BY <1>1, <1>3
  <2>2. ~variant.guard
    <3>1. PageAt(q, i[p]) # None
      BY <1>3 DEF Mapped, PageAt
    <3>2. i[p] >= i[p]
      BY <1>2
    <3> QED BY <1>0, <1>2, <3>1, <3>2 DEF SpaceInv, Local, Sharing, Virgin
  <2>3. Calm'
    BY <1>1, <2>1, <2>2 DEF Remap, Calm, Sound
  <2> HIDE DEF v
  <2> QED BY <1>1, <2>1, <2>3, OnlyPanic
<1>4. CASE v \notin Mapped(q) /\ Needs(q, v) = 1
  <2> DEFINE g == None
  <2>1. vm[q].tab[SharedEntry] # None
    BY <1>2, <1>4 DEF Needs
  <2>2. vm' = WithPage(q, v, PoolPage(p), g) /\ NextWindow(p) /\ UNCHANGED <<free, panic>>
    BY <1>1, <1>4
  <2> HIDE DEF g
  <2>3. MapsPage(p, q, v, g)
    BY <1>0, <1>1, <1>4, <2>1, <2>2 DEF MapsPage
  <2> HIDE DEF v
  <2> QED BY <2>3, MapsPageSound
<1>5. CASE v \notin Mapped(q) /\ Needs(q, v) = 2
  <2> DEFINE g == Lowest(free)
  <2>1. vm[q].tab[SharedEntry] = None
    BY <1>2, <1>5 DEF Needs
  <2>2. /\ vm' = WithPage(q, v, PoolPage(p), g) /\ NextWindow(p) /\ UNCHANGED panic
        /\ free' = free \ {g} /\ free # {}
    BY <1>1, <1>5
  <2>3. g \in free
    BY <2>2, TakeOne, Functions
  <2> HIDE DEF g
  <2>4. MapsPage(p, q, v, g)
    BY <1>0, <1>1, <1>5, <2>1, <2>2, <2>3 DEF MapsPage
  <2> HIDE DEF v
  <2> QED BY <2>4, MapsPageSound
<1> QED BY <1>1, <1>3, <1>4, <1>5

(* A call that cannot map the pages leaves the frames as they are.             *)
LEMMA MapSharedFailSound ==
  ASSUME SpaceInv, Sound, Running, NEW p \in Procs, MapSharedFail(p)
  PROVE  Sound'
<1>1. /\ pc[p] = "mapping"
      /\ UNCHANGED <<free, vm, child, goal, pool, setup, variant, leaked, overlap, spoiled>>
  BY DEF MapSharedFail
<1>2. CASE variant.mapFails = "panic"
  <2>1. panic' = "memory" /\ UNCHANGED <<i, pc, holder>>
    BY <1>2 DEF MapSharedFail
  <2>2. Calm' /\ (Running' => Running)
    BY <2>1, Halted DEF Calm
  <2> QED BY <1>1, <2>1, <2>2, OnlyPanic
<1>3. CASE variant.mapFails # "panic"
  <2>1. /\ panic' = panic
        /\ \A r \in Procs \ {p} : pc'[r] = pc[r]
        /\ pc'[p] # "allocating"
    <3>1. CASE variant.mapFails = "error"
      <4>1. Return(p) /\ panic' = panic
        BY <3>1 DEF MapSharedFail
      <4> QED BY <4>1, ReturnTypes
    <3>2. CASE variant.mapFails = "ignored"
      <4>1. NextWindow(p) /\ panic' = panic
        BY <3>2 DEF MapSharedFail
      <4> QED BY <1>1, <4>1, NextWindowTypes
    <3> QED BY <1>3, <3>1, <3>2, VariantFields, Functions
  <2>2. variant.first # "always"
    BY <1>3, VariantFields, Functions
  <2>3. NoAlloc /\ ~FirstTime
    BY <1>1, <2>2 DEF Sound, PoolInv, NoAlloc
  <2>4. \A r \in Procs : pc'[r] # "allocating"
    BY <2>1, <2>3 DEF NoAlloc
  <2>5. NoAlloc' /\ ~FirstTime' /\ Region' = Region /\ Window' = Window /\ (OwnRegion' <=> OwnRegion)
    BY <1>1, <2>3, <2>4, SameVariant DEF NoAlloc, FirstTime, OwnRegion
  <2>6. /\ \A k \in 1 .. NSHARED : pool[k] # PageZero
        /\ variant.first = "never" => ~setup
        /\ OwnRegion \/ \A r \in Procs, w \in DOMAIN Window : PageAt(r, w) \in {None, pool[Window[w]]}
    BY <2>2, <2>3 DEF Sound, PoolInv
  <2>7. (OwnRegion \/ \A r \in Procs, w \in DOMAIN Window : PageAt(r, w) \in {None, pool[Window[w]]})'
    BY <1>1, <2>5, <2>6 DEF PageAt
  <2>8. PoolInv'
    BY <1>1, <2>4, <2>5, <2>6, <2>7 DEF PoolInv
  <2>9. FreshInv'
    BY <1>1, <2>2 DEF FreshInv
  <2>10. PoolFrames' = PoolFrames /\ (Running' => Running)
    BY <1>1, <2>1, <2>2 DEF PoolFrames, Running
  <2>11. FrameInv'
    BY <1>1, <2>10, FramesStay DEF Sound
  <2>12. Calm'
    BY <1>1, <2>1 DEF Sound, Calm
  <2> QED BY <2>8, <2>9, <2>11, <2>12 DEF Sound
<1> QED BY <1>2, <1>3

-----------------------------------------------------------------------------
(* At boot the first process has frames 1 to 5 and the others are free.        *)
LEMMA InitHeld ==
  ASSUME Init
  PROVE  /\ \A p \in Procs : Tidy(p) /\ HeldOnce(p) /\ Seen(p) = {} /\ RegionNone(vm[p])
         /\ \A p \in Procs \ {InitProc} : Held(p) = {}
         /\ \A x : x \in Held(InitProc) <=> x \in {1, 2, 3, 4, 5}
<1>1. variant \in Variants
  BY DEF Init
<1>2. /\ \A u \in Pages : vm[InitProc].page[u] = IF u = 0 THEN 4 ELSE None
      /\ \A e \in Entries : vm[InitProc].tab[e] = IF e = 0 THEN 5 ELSE None
      /\ vm[InitProc].kstack = 1 /\ vm[InitProc].dir = 2 /\ vm[InitProc].ktab = 3
      /\ \A r \in Procs \ {InitProc} : vm[r] = Blank
      /\ 0 \in Entries
  <2>1. Blank.tab \in [Entries -> Frames \cup {None}] /\ Blank.page \in [Pages -> Value]
    BY BlankSpace DEF Space
  <2> QED BY <2>1, InitSpace, BlankSpace
<1>3. Region \subseteq Pages /\ 0 \notin Region /\ 0 \in 0 .. HEAP - 1 /\ 0 .. HEAP - 1 \subseteq Pages
      /\ ~ (0 >= HEAP)
  <2>1. HEAP \in Nat \ {0}
    BY SizeAssumption
  <2>2. 0 \in 0 .. HEAP - 1 /\ ~ (0 >= HEAP)
    BY <2>1
  <2> QED BY <1>1, <2>2, PageFacts
<1>4. \A u \in Region : vm[InitProc].page[u] = None
  BY <1>2, <1>3
<1>5. Tidy(InitProc)
  BY <1>2, <1>3 DEF Tidy
<1>6. \A s \in Slots : At(vm[InitProc], s) =
         IF s = <<"kstack", 0>> THEN 1 ELSE IF s = <<"dir", 0>> THEN 2 ELSE IF s = <<"ktab", 0>> THEN 3
         ELSE IF s = <<"tab", 0>> THEN 5 ELSE IF s = <<"page", 0>> THEN 4 ELSE None
  <2> SUFFICES ASSUME NEW s \in Slots
               PROVE  At(vm[InitProc], s) =
         IF s = <<"kstack", 0>> THEN 1 ELSE IF s = <<"dir", 0>> THEN 2 ELSE IF s = <<"ktab", 0>> THEN 3
         ELSE IF s = <<"tab", 0>> THEN 5 ELSE IF s = <<"page", 0>> THEN 4 ELSE None
    OBVIOUS
  <2>1. CASE s = <<"kstack", 0>> \/ s = <<"dir", 0>> \/ s = <<"ktab", 0>>
    BY <1>2, <2>1, SlotValues
  <2>2. ASSUME NEW e \in Entries, s = <<"tab", e>>
        PROVE  At(vm[InitProc], s) = IF e = 0 THEN 5 ELSE None
    BY <1>2, <2>2, SlotValues
  <2>3. ASSUME NEW u \in 0 .. HEAP - 1, s = <<"page", u>>
        PROVE  At(vm[InitProc], s) = IF u = 0 THEN 4 ELSE None
    BY <1>2, <1>3, <2>3, SlotValues
  <2> QED BY <2>1, <2>2, <2>3, SlotNames
<1>7. HeldOnce(InitProc) /\ \A x : x \in Held(InitProc) <=> x \in {1, 2, 3, 4, 5}
  <2>1. /\ <<"kstack", 0>> \in Slots /\ <<"dir", 0>> \in Slots /\ <<"ktab", 0>> \in Slots
        /\ <<"tab", 0>> \in Slots /\ <<"page", 0>> \in Slots
    BY <1>2, <1>3, SlotNames
  <2>2. None \notin {1, 2, 3, 4, 5}
    BY DEF None
  <2>3. HeldOnce(InitProc)
    BY <1>6, <2>2 DEF HeldOnce
  <2>4. \A x : x \in Held(InitProc) <=> x # None /\ \E s \in Slots : x = At(vm[InitProc], s)
    BY DEF Held
  <2>5. ASSUME NEW x, x \in {1, 2, 3, 4, 5} PROVE x # None /\ \E s \in Slots : x = At(vm[InitProc], s)
    <3>1. /\ At(vm[InitProc], <<"kstack", 0>>) = 1 /\ At(vm[InitProc], <<"dir", 0>>) = 2
          /\ At(vm[InitProc], <<"ktab", 0>>) = 3 /\ At(vm[InitProc], <<"tab", 0>>) = 5
          /\ At(vm[InitProc], <<"page", 0>>) = 4
      BY <1>2, <1>3, SlotValues
    <3> QED BY <2>1, <2>2, <2>5, <3>1
  <2>6. ASSUME NEW x, x # None, NEW s \in Slots, x = At(vm[InitProc], s) PROVE x \in {1, 2, 3, 4, 5}
    BY <1>6, <2>6
  <2> QED BY <2>3, <2>4, <2>5, <2>6
<1>8. ASSUME NEW p \in Procs \ {InitProc}
      PROVE  Held(p) = {} /\ HeldOnce(p) /\ Tidy(p) /\ \A u \in Region : vm[p].page[u] = None
  <2>1. vm[p] = Blank
    BY <1>2
  <2>2. \A s \in Slots : At(vm[p], s) = None
    BY <1>3, <2>1, SlotNames, SlotValues, BlankSpace
  <2>3. \A u \in Pages : vm[p].page[u] = None
    BY <2>1, BlankSpace
  <2> QED BY <1>3, <2>2, <2>3 DEF Held, HeldOnce, Tidy
<1>9. \A p \in Procs : RegionNone(vm[p])
  BY <1>4, <1>8 DEF RegionNone
<1> QED BY <1>5, <1>7, <1>8, <1>9, NoRegionNothingSeen

(* ... and no page is shared yet.                                              *)
LEMMA InitSound ==
  ASSUME Init
  PROVE  Sound
<1>1. /\ pc = [p \in Procs |-> IF p = InitProc THEN "user" ELSE "unused"]
      /\ pool = [k \in 1 .. NSHARED |-> PageZero] /\ free = Frames \ (1 .. 5)
      /\ leaked = {} /\ setup = FALSE
  BY DEF Init
<1>2. SpaceInv
  BY InitKeeps
<1>3. \A p \in Procs : pc[p] # "allocating" /\ pc[p] # "mapping"
  BY <1>1
<1>4. FirstTime /\ NoAlloc
  <2>1. 1 \in 1 .. NSHARED
    BY SizeAssumption
  <2> QED BY <1>1, <1>3, <2>1 DEF FirstTime, NoAlloc
<1>5. PoolInv
  <2>1. \A p \in Procs, w \in DOMAIN Window : PageAt(p, w) = None
    <3>1. \A w \in DOMAIN Window : HEAP + w - 1 \in Region
      BY <1>2, PageFacts, WindowFacts, Functions
    <3> QED BY <3>1, InitHeld DEF PageAt, RegionNone
  <2> QED BY <1>1, <1>3, <1>4, <2>1, InitHeld DEF PoolInv
<1>6. FreshInv
  BY <1>3, InitHeld DEF FreshInv, Exposed
<1>7. SharedFrames = {}
  <2>1. PoolFrames \subseteq {PageZero}
    BY <1>1 DEF PoolFrames
  <2>2. SharedFrames = (PoolFrames \cup UNION {Seen(p) : p \in Procs}) \cap Frames
    BY <1>2, Shares, InitHeld
  <2>3. UNION {Seen(p) : p \in Procs} = {}
    BY InitHeld
  <2>4. PageZero \notin Frames
    BY DEF Frames, PageZero
  <2> QED BY <2>1, <2>2, <2>3, <2>4
<1>8. FrameInv
  <2>1. \A x : x \in 1 .. 5 <=> x \in {1, 2, 3, 4, 5}
    OBVIOUS
  <2>2. InitProc \in Procs
    BY SizeAssumption DEF InitProc, Procs
  <2>3. \A p \in Procs : Held(p) \cap free = {}
    BY <1>1, <2>1, InitHeld
  <2>4. \A p, q \in Procs : p # q => Held(p) \cap Held(q) = {}
    BY InitHeld
  <2>5. Frames \subseteq free \cup AllHeld
    <3>1. \A x \in 1 .. 5 : x \in AllHeld
      BY <2>1, <2>2, InitHeld DEF AllHeld
    <3> QED BY <1>1, <3>1
  <2> QED BY <1>1, <1>7, <2>3, <2>4, <2>5, InitHeld DEF FrameInv
<1>9. Calm
  BY Zenon DEF Init, Calm
<1> QED BY <1>5, <1>6, <1>8, <1>9 DEF Sound

(* Once a student's code has broken its promise it stays so, ...               *)
LEMMA BrokenStays ==
  ASSUME SpaceInv, Broken, [Next]_vars
  PROVE  Broken'
<1>1. CASE UNCHANGED vars
  BY <1>1 DEF vars, Broken
<1>2. ASSUME NEW p \in Procs, Step(p) PROVE Broken'
  <2>1. CASE Reap(p)
    <3>1. variant' = variant /\ overlap' = overlap
      BY <2>1 DEF Reap, UntouchedShare
    <3>2. spoiled => spoiled'
      BY <2>1 DEF Reap, FreeVm
    <3> QED BY <3>1, <3>2 DEF Broken
  <2>2. CASE Attach(p)
    BY <2>2 DEF Attach, Broken
  <2>3. CASE ~ Reap(p) /\ ~ Attach(p)
    <3>1. UNCHANGED <<variant, overlap, spoiled>>
      BY <1>2, <2>3 DEF Step, Grow, GrowPage, GrowDone, GrowFail, Shrink, ShrinkFail, Fork, CopyDir, CopyPage,
         ForkFail, ForkDone, AllocShared, AllocSharedFail, MapShared, MapSharedFail, Exit, UntouchedShare
    <3> QED BY <3>1 DEF Broken
  <2> QED BY <2>1, <2>2, <2>3
<1> QED BY <1>1, <1>2 DEF Next

(* ... and until then every step keeps the frames and the shared pages sound.  *)
LEMMA SoundStep ==
  ASSUME SpaceInv, Broken \/ Sound, [Next]_vars
  PROVE  Broken' \/ Sound'
<1> SUFFICES ASSUME ~Broken' PROVE Sound'
  OBVIOUS
<1>1. Sound
  BY BrokenStays
<1>2. CASE UNCHANGED vars
  <2>1. Calm' /\ (Running' => Running)
    BY <1>1, <1>2 DEF vars, Sound, Calm, Running
  <2>2. UNCHANGED <<free, vm, pc, child, i, pool, setup, variant, leaked>>
    BY <1>2 DEF vars
  <2> QED BY <1>1, <2>1, <2>2, OnlyPanic
<1>3. ASSUME ~Stopped, NEW p \in Procs, Step(p) PROVE Sound'
  <2>0. Running
    BY <1>3 DEF Stopped, Running
  <2>1. CASE Grow(p) \/ GrowPage(p) \/ GrowDone(p) \/ GrowFail(p) \/ Shrink(p) \/ ShrinkFail(p)
    BY <1>1, <2>0, <2>1, GrowSound, GrowPageSound, GrowDoneSound, GrowFailSound, ShrinkSound, ShrinkFailSound
  <2>2. CASE Fork(p) \/ CopyDir(p) \/ CopyPage(p) \/ ForkFail(p) \/ ForkDone(p)
    BY <1>1, <2>0, <2>2, ForkSound, CopyDirSound, CopyPageSound, ForkFailSound, ForkDoneSound
  <2>3. CASE Attach(p) \/ AllocShared(p) \/ AllocSharedFail(p) \/ MapShared(p) \/ MapSharedFail(p)
    BY <1>1, <2>0, <2>3, AttachSound, AllocSharedSound, AllocSharedFailSound, MapSharedSound,
       MapSharedFailSound
  <2>4. CASE Exit(p) \/ Reap(p)
    BY <1>1, <2>0, <2>4, ExitSound, ReapSound
  <2> QED BY <1>3, <2>1, <2>2, <2>3, <2>4 DEF Step
<1> QED BY <1>2, <1>3 DEF Next

(* The inductive invariant of the kernel's memory.                             *)
LEMMA SoundHolds == Spec => [](SpaceInv /\ (Broken \/ Sound))
<1>1. Init => SpaceInv /\ (Broken \/ Sound)
  BY InitKeeps, InitSound
<1>2. SpaceInv /\ (Broken \/ Sound) /\ [Next]_vars => (SpaceInv /\ (Broken \/ Sound))'
  BY SpaceStep, SoundStep
<1> QED BY <1>1, <1>2, PTL DEF Spec

(* Every process that has the region mapped sees the one set of shared pages,  *)
(* in the same order, whoever called first: until the code is Broken, and but  *)
(* for students whose processes have pages of their own.                       *)
THEOREM OneSharedSetHolds == Spec => []OneSharedSet
<1>1. ASSUME Broken \/ Sound PROVE OneSharedSet
  <2> SUFFICES ASSUME Sound, ~OwnRegion
               PROVE  \A p \in Procs : \A w \in DOMAIN Window :
                        vm[p].page[HEAP + w - 1] \in {None, pool[Window[w]]}
    BY <1>1 DEF OneSharedSet
  <2>1. variant.first # "always"
    BY DEF OwnRegion
  <2> QED BY <2>1 DEF Sound, PoolInv, PageAt
<1> QED BY <1>1, SoundHolds, PTL

(* The kernel panics in vm.c only when memory has run out: no page is mapped   *)
(* twice and only frames are handed to kfree(), where the code tests for it.   *)
THEOREM PanicOnlyForMemoryHolds == Spec => []PanicOnlyForMemory
<1>1. ASSUME Broken \/ Sound PROVE PanicOnlyForMemory
  BY <1>1 DEF PanicOnlyForMemory, Sound, Calm
<1> QED BY <1>1, SoundHolds, PTL

-----------------------------------------------------------------------------
(* The uses of frames in AddressSpace are the places above.                    *)
LEMMA UsesArePlaces ==
  /\ \A p, u : u \in PrivateUses(p) <=>
       \E s \in Slots : u = <<p, s[1], s[2], At(vm[p], s)>> /\ At(vm[p], s) # None
  /\ \A x : x \in PrivateFrames <=> x \in AllHeld
<1>1. ASSUME NEW p, NEW u
      PROVE  u \in PrivateUses(p) <=>
               \E s \in Slots : u = <<p, s[1], s[2], At(vm[p], s)>> /\ At(vm[p], s) # None
  <2> DEFINE U == {<<p, "kstack", 0, vm[p].kstack>>, <<p, "dir", 0, vm[p].dir>>, <<p, "ktab", 0, vm[p].ktab>>}
                  \cup {<<p, "tab", e, vm[p].tab[e]>> : e \in Entries}
                  \cup {<<p, "page", v, vm[p].page[v]>> : v \in 0 .. HEAP - 1}
  <2>1. u \in PrivateUses(p) <=> u \in U /\ u[4] # None
    BY DEF PrivateUses
  <2>2. u \in U <=> \/ u = <<p, "kstack", 0, vm[p].kstack>> \/ u = <<p, "dir", 0, vm[p].dir>>
                    \/ u = <<p, "ktab", 0, vm[p].ktab>>
                    \/ \E e \in Entries : u = <<p, "tab", e, vm[p].tab[e]>>
                    \/ \E v \in 0 .. HEAP - 1 : u = <<p, "page", v, vm[p].page[v]>>
    OBVIOUS
  <2> HIDE DEF U
  <2>3. ASSUME NEW s \in Slots, u = <<p, s[1], s[2], At(vm[p], s)>> PROVE u \in U /\ u[4] = At(vm[p], s)
    <3>1. u[4] = At(vm[p], s)
      BY <2>3
    <3>2. CASE s = <<"kstack", 0>> \/ s = <<"dir", 0>> \/ s = <<"ktab", 0>>
      BY <2>2, <2>3, <3>2, SlotValues
    <3>3. ASSUME NEW e \in Entries, s = <<"tab", e>> PROVE u \in U
      <4>1. u = <<p, "tab", e, vm[p].tab[e]>>
        BY <2>3, <3>3, SlotValues
      <4> QED BY <2>2, <4>1
    <3>4. ASSUME NEW v \in 0 .. HEAP - 1, s = <<"page", v>> PROVE u \in U
      <4>1. u = <<p, "page", v, vm[p].page[v]>>
        BY <2>3, <3>4, SlotValues
      <4> QED BY <2>2, <4>1
    <3> QED BY <3>1, <3>2, <3>3, <3>4, SlotNames
  <2>4. ASSUME u \in U PROVE \E s \in Slots : u = <<p, s[1], s[2], At(vm[p], s)>> /\ u[4] = At(vm[p], s)
    <3>1. \A s \in Slots : u = <<p, s[1], s[2], At(vm[p], s)>> => u[4] = At(vm[p], s)
      OBVIOUS
    <3>2. \E s \in Slots : u = <<p, s[1], s[2], At(vm[p], s)>>
      <4>1. CASE u = <<p, "kstack", 0, vm[p].kstack>>
        <5> DEFINE s == <<"kstack", 0>>
        <5>1. s \in Slots /\ u = <<p, s[1], s[2], At(vm[p], s)>>
          BY <4>1, SlotNames, SlotValues
        <5> HIDE DEF s
        <5> QED BY <5>1
      <4>2. CASE u = <<p, "dir", 0, vm[p].dir>>
        <5> DEFINE s == <<"dir", 0>>
        <5>1. s \in Slots /\ u = <<p, s[1], s[2], At(vm[p], s)>>
          BY <4>2, SlotNames, SlotValues
        <5> HIDE DEF s
        <5> QED BY <5>1
      <4>3. CASE u = <<p, "ktab", 0, vm[p].ktab>>
        <5> DEFINE s == <<"ktab", 0>>
        <5>1. s \in Slots /\ u = <<p, s[1], s[2], At(vm[p], s)>>
          BY <4>3, SlotNames, SlotValues
        <5> HIDE DEF s
        <5> QED BY <5>1
      <4>4. ASSUME NEW e \in Entries, u = <<p, "tab", e, vm[p].tab[e]>>
            PROVE  \E s \in Slots : u = <<p, s[1], s[2], At(vm[p], s)>>
        <5> DEFINE s == <<"tab", e>>
        <5>1. s \in Slots /\ u = <<p, s[1], s[2], At(vm[p], s)>>
          BY <4>4, SlotNames, SlotValues
        <5> HIDE DEF s
        <5> QED BY <5>1
      <4>5. ASSUME NEW v \in 0 .. HEAP - 1, u = <<p, "page", v, vm[p].page[v]>>
            PROVE  \E s \in Slots : u = <<p, s[1], s[2], At(vm[p], s)>>
        <5> DEFINE s == <<"page", v>>
        <5>1. s \in Slots /\ u = <<p, s[1], s[2], At(vm[p], s)>>
          BY <4>5, SlotNames, SlotValues
        <5> HIDE DEF s
        <5> QED BY <5>1
      <4> QED BY <2>2, <2>4, <4>1, <4>2, <4>3, <4>4, <4>5
    <3> QED BY <3>1, <3>2
  <2> QED BY <2>1, <2>3, <2>4
<1>2. ASSUME NEW x PROVE x \in PrivateFrames <=> \E p \in Procs : \E u \in PrivateUses(p) : x = u[4]
  BY DEF PrivateFrames, Uses
<1>3. ASSUME NEW x PROVE x \in AllHeld <=> \E p \in Procs : \E s \in Slots : x = At(vm[p], s) /\ x # None
  BY DEF AllHeld, Held
<1>4. ASSUME NEW x PROVE x \in PrivateFrames <=> x \in AllHeld
  <2>1. ASSUME NEW p \in Procs, NEW u \in PrivateUses(p), x = u[4] PROVE x \in AllHeld
    <3>1. PICK s \in Slots : u = <<p, s[1], s[2], At(vm[p], s)>> /\ At(vm[p], s) # None
      BY <1>1
    <3>2. x = At(vm[p], s) /\ x # None
      BY <2>1, <3>1
    <3> QED BY <1>3, <3>2
  <2>2. ASSUME NEW p \in Procs, NEW s \in Slots, x = At(vm[p], s), x # None PROVE x \in PrivateFrames
    <3> DEFINE u == <<p, s[1], s[2], At(vm[p], s)>>
    <3>1. u \in PrivateUses(p) /\ x = u[4]
      BY <1>1, <2>2
    <3> HIDE DEF u
    <3> QED BY <1>2, <3>1
  <2> QED BY <1>2, <1>3, <2>1, <2>2
<1> QED BY <1>1, <1>4

LEMMA FramesFiniteSet == IsFiniteSet(Frames)
BY BootAssumption, FS_Interval DEF Frames

(* A frame with one use only: as many frames as uses.                          *)
LEMMA AsManyFrames ==
  ASSUME SpaceInv, Sound
  PROVE  Cardinality(PrivateFrames) = Cardinality(Uses)
<1> DEFINE f == [u \in Uses |-> u[4]]
<1>1. \A u \in Uses : \E p \in Procs, s \in Slots :
         u = <<p, s[1], s[2], At(vm[p], s)>> /\ u[4] = At(vm[p], s) /\ u[4] # None
  <2> SUFFICES ASSUME NEW p \in Procs, NEW u \in PrivateUses(p)
               PROVE  \E s \in Slots : u = <<p, s[1], s[2], At(vm[p], s)>> /\ u[4] = At(vm[p], s) /\ u[4] # None
    BY DEF Uses
  <2>1. PICK s \in Slots : u = <<p, s[1], s[2], At(vm[p], s)>> /\ At(vm[p], s) # None
    BY UsesArePlaces
  <2>2. u[4] = At(vm[p], s)
    BY <2>1
  <2> QED BY <2>1, <2>2
<1>2. ASSUME NEW u \in Uses, NEW w \in Uses, u[4] = w[4] PROVE u = w
  <2>1. PICK p \in Procs, s \in Slots :
           u = <<p, s[1], s[2], At(vm[p], s)>> /\ u[4] = At(vm[p], s) /\ u[4] # None
    BY <1>1
  <2>2. PICK q \in Procs, t \in Slots :
           w = <<q, t[1], t[2], At(vm[q], t)>> /\ w[4] = At(vm[q], t) /\ w[4] # None
    BY <1>1
  <2>3. u[4] \in Held(p) /\ u[4] \in Held(q)
    BY <1>2, <2>1, <2>2 DEF Held
  <2>4. p = q
    BY <2>3 DEF Sound, FrameInv
  <2>5. At(vm[p], s) = At(vm[p], t) /\ At(vm[p], s) # None
    BY <1>2, <2>1, <2>2, <2>4
  <2>6. s = t
    BY <2>5 DEF Sound, FrameInv, HeldOnce
  <2> QED BY <2>1, <2>2, <2>4, <2>6
<1>3. f \in [Uses -> PrivateFrames] /\ \A x \in PrivateFrames : \E u \in Uses : f[u] = x
  BY DEF PrivateFrames
<1>4. f \in Bijection(Uses, PrivateFrames)
  <2>1. \A u, w \in Uses : f[u] = f[w] => u = w
    BY <1>2
  <2> HIDE DEF f
  <2> QED BY <1>3, <2>1, Fun_IsBij
<1>5. IsFiniteSet(PrivateFrames)
  <2>1. PrivateFrames \subseteq Frames
    BY UsesArePlaces, HeldFrames DEF AllHeld
  <2> QED BY <2>1, FramesFiniteSet, FS_Subset
<1> HIDE DEF f
<1>6. f \in Injection(Uses, PrivateFrames) /\ f \in Surjection(Uses, PrivateFrames)
  BY <1>4 DEF Bijection
<1> QED BY <1>5, <1>6, FS_Injection

(* A page frame serves one purpose: free, one place of one process, or shared, *)
(* whatever allocations fail and whichever steps interleave, until Broken.     *)
THEOREM FrameOnceHolds == Spec => []FrameOnce
<1>1. ASSUME SpaceInv, Broken \/ Sound PROVE FrameOnce
  <2> SUFFICES ASSUME Sound
               PROVE  /\ Cardinality(PrivateFrames) = Cardinality(Uses)
                      /\ free \cap PrivateFrames = {}
                      /\ free \cap SharedFrames = {}
                      /\ PrivateFrames \cap SharedFrames = {}
    BY <1>1 DEF FrameOnce
  <2>1. \A x \in PrivateFrames : \E p \in Procs : x \in Held(p)
    BY UsesArePlaces DEF AllHeld
  <2>2. free \cap SharedFrames = {} /\ \A p \in Procs : Held(p) \cap (free \cup SharedFrames) = {}
    BY DEF Sound, FrameInv
  <2> QED BY <1>1, <2>1, <2>2, AsManyFrames
<1> QED BY <1>1, SoundHolds, PTL

(* No frame is lost: each is free, in use, shared, or among those the code     *)
(* forgets where it is known to.                                               *)
THEOREM NoLeakHolds == Spec => []NoLeak
<1>1. ASSUME SpaceInv, Broken \/ Sound PROVE NoLeak
  <2> SUFFICES ASSUME Sound, Running
               PROVE  /\ Frames = free \cup PrivateFrames \cup SharedFrames \cup leaked
                      /\ leaked \cap (free \cup PrivateFrames \cup SharedFrames) = {}
    BY <1>1, Zenon DEF NoLeak, Running
  <2>1. PrivateFrames = AllHeld
    BY UsesArePlaces
  <2>2. AllHeld \subseteq Frames
    BY <1>1, HeldFrames DEF AllHeld
  <2>3. free \subseteq Frames /\ leaked \subseteq Frames /\ SharedFrames \subseteq Frames
    BY <1>1, Functions DEF SharedFrames
  <2> QED BY <2>1, <2>2, <2>3 DEF Sound, FrameInv
<1> QED BY <1>1, SoundHolds, PTL
==============================================================================
