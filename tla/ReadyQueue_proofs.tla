-------------------------- MODULE ReadyQueue_proofs --------------------------
(* Theorems about module ReadyQueue, for every set of processes and every mix  *)
(* of tests and clearings the record type QueueVariant allows: the pointers    *)
(* always hold the queue, and the linked queue implements the FIFO.            *)
EXTENDS ReadyQueue, SequenceTheorems, TLAPS

(* The pointers tell the order of the queue only as long as nobody is in it    *)
(* twice; this makes the invariant inductive.                                  *)
Linked == WellLinked /\ Queue!NoRepeats(waiting)

(* The variant under study clears the link of a process by the time it is      *)
(* queued again.                                                               *)
LEMMA VariantKinds ==
  ASSUME variant \in Variants
  PROVE  /\ variant.test \in {"first", "last", "both", "each"}
         /\ variant.end \in {"only", "same", "end"}
         /\ variant.putClears \in BOOLEAN
         /\ variant.getClears \in {"always", "ifmore", "never"}
         /\ variant.putClears \/ variant.getClears # "never"
  BY QueueVariantAssumption DEF QueueVariant

(* What the linked queue says of its length and its ends.                      *)
LEMMA Shape ==
  ASSUME Linked
  PROVE  /\ Len(waiting) \in Nat
         /\ DOMAIN waiting = 1 .. Len(waiting)
         /\ \A k \in 1 .. Len(waiting) : waiting[k] \in Procs /\ waiting[k] # NoProc
         /\ waiting = <<>> <=> Len(waiting) = 0
  <1>1. waiting \in Seq(Procs)
    BY DEF Linked, WellLinked, TypeOK
  <1>2. \A k \in 1 .. Len(waiting) : waiting[k] \in Procs
    BY <1>1, ElementOfSeq
  <1>3. Len(waiting) \in Nat /\ DOMAIN waiting = 1 .. Len(waiting)
    BY <1>1, LenProperties
  <1>4. waiting = <<>> <=> Len(waiting) = 0
    BY <1>1, EmptySeq
  <1> QED BY <1>2, <1>3, <1>4, NoProcAssumption

(* An empty queue is seen by either pointer.                                   *)
LEMMA EndsAgree ==
  ASSUME Linked
  PROVE  /\ first = NoProc <=> waiting = <<>>
         /\ last = NoProc <=> waiting = <<>>
  <1>1. CASE waiting = <<>>
    BY <1>1 DEF Linked, WellLinked
  <1>2. CASE waiting # <<>>
    <2>1. first = waiting[1] /\ last = waiting[Len(waiting)]
      BY <1>2 DEF Linked, WellLinked
    <2>2. 1 \in 1 .. Len(waiting) /\ Len(waiting) \in 1 .. Len(waiting)
      BY <1>2, Shape
    <2> QED BY <1>2, <2>1, <2>2, Shape
  <1> QED BY <1>1, <1>2

(* Every way to tell whether there is an older process tells it.               *)
LEMMA Tests ==
  ASSUME Linked
  PROVE  /\ HasOlder <=> waiting # <<>>
         /\ IsFirst <=> waiting = <<>>
  <1>1. variant.test \in {"first", "last", "both", "each"}
    BY VariantKinds DEF Linked, WellLinked, TypeOK
  <1>2. HasOlder <=> waiting # <<>>
    BY <1>1, EndsAgree DEF HasOlder
  <1> QED BY <1>2, EndsAgree DEF IsFirst

-----------------------------------------------------------------------------
(* The effect of a put on the pointers, whatever the variant.                  *)
LEMMA PutEffect ==
  ASSUME Linked, NEW p \in Procs, Put(p)
  PROVE  /\ p \notin Queued
         /\ first' = IF waiting = <<>> THEN p ELSE first
         /\ last' = p
         /\ link' \in [Procs -> Procs \cup {NoProc}]
         /\ link'[p] = NoProc
         /\ waiting # <<>> => link'[last] = p
         /\ \A q \in Procs : q # p /\ q # last => link'[q] = link[q]
         /\ variant' = variant
         /\ waiting' = Append(waiting, p)
  <1>1. /\ p \notin Queued /\ last' = p /\ variant' = variant
        /\ waiting' = Append(waiting, p)
        /\ first' = IF IsFirst THEN p ELSE first
        /\ link' = [q \in Procs |-> IF q = p /\ PutClears THEN NoProc
                                    ELSE IF HasOlder /\ q = last THEN p ELSE link[q]]
    BY DEF Put
  <1>2. /\ link \in [Procs -> Procs \cup {NoProc}]
        /\ \A q \in Procs \ Queued : link[q] = NoProc \/ PutClears
    BY DEF Linked, WellLinked, TypeOK, PutClears
  <1>3. waiting # <<>> => last \in Queued /\ last \in Procs
    <2> SUFFICES ASSUME waiting # <<>> PROVE last \in Queued /\ last \in Procs
      OBVIOUS
    <2>1. last = waiting[Len(waiting)]
      BY DEF Linked, WellLinked
    <2> QED BY <2>1, Shape DEF Queued
  <1>4. link'[p] = NoProc
    BY <1>1, <1>2, <1>3, Tests
  <1>5. waiting # <<>> => link'[last] = p
    BY <1>1, <1>3, Tests
  <1>6. \A q \in Procs : q # p /\ q # last => link'[q] = link[q]
    BY <1>1
  <1>7. link' \in [Procs -> Procs \cup {NoProc}]
    BY <1>1, <1>2
  <1> QED BY <1>1, <1>4, <1>5, <1>6, <1>7, Tests

(* A put keeps the pointers and the queue together.                            *)
LEMMA PutLinked ==
  ASSUME Linked, NEW p \in Procs, Put(p)
  PROVE  Linked'
  <1> DEFINE len == Len(waiting)
  <1>0. waiting \in Seq(Procs) /\ len \in Nat /\ DOMAIN waiting = 1 .. len
    BY Shape DEF Linked, WellLinked, TypeOK
  <1>len. len \in Nat
    BY <1>0
  <1>1. /\ waiting' \in Seq(Procs)
        /\ Len(waiting') = len + 1
        /\ \A k \in 1 .. len : waiting'[k] = waiting[k]
        /\ waiting'[len + 1] = p
    BY <1>0, PutEffect, AppendProperties
  <1>2. DOMAIN waiting' = 1 .. len + 1
    BY <1>1, LenProperties
  <1>3. \A k \in 1 .. len : waiting[k] # p
    BY <1>0, PutEffect DEF Queued
  <1>4. TypeOK'
    BY <1>1, PutEffect DEF Linked, WellLinked, TypeOK
  <1>5. first' = waiting'[1] /\ last' = waiting'[Len(waiting')]
    <2>1. CASE waiting = <<>>
      BY <2>1, <1>1, PutEffect, Shape
    <2>2. CASE waiting # <<>>
      <3>1. first = waiting[1] /\ 1 \in 1 .. len
        BY <2>2, <1>0, Shape DEF Linked, WellLinked
      <3> QED BY <3>1, <2>2, <1>1, PutEffect
    <2> QED BY <2>1, <2>2
  <1>6. ASSUME NEW k \in 1 .. len + 1
        PROVE  link'[waiting'[k]] = IF k = len + 1 THEN NoProc ELSE waiting'[k + 1]
    <2>1. CASE k = len + 1
      BY <2>1, <1>1, PutEffect
    <2>2. CASE k = len
      <3>1. waiting # <<>> /\ k \in 1 .. len
        BY <2>2, <1>0, <1>6, Shape
      <3>2. waiting'[k] = last
        BY <3>1, <2>2, <1>1 DEF Linked, WellLinked
      <3> QED BY <3>1, <3>2, <2>2, <1>0, <1>1, PutEffect
    <2>3. CASE k < len
      <3>1. k \in 1 .. len /\ k + 1 \in 1 .. len /\ len \in 1 .. len /\ k # len
        BY <2>3, <1>6, <1>len
      <3>2. link[waiting[k]] = waiting[k + 1]
        BY <3>1, <1>0 DEF Linked, WellLinked
      <3>3. waiting[k] # p /\ waiting[k] \in Procs
        BY <3>1, <1>3, Shape
      <3>4. waiting[k] # last
        <4>1. last = waiting[len]
          BY <3>1, Shape DEF Linked, WellLinked
        <4>2. waiting[k] # waiting[len]
          BY <3>1, <1>0 DEF Linked, Queue!NoRepeats
        <4> QED BY <4>1, <4>2
      <3>5. link'[waiting[k]] = link[waiting[k]]
        BY <3>3, <3>4, PutEffect
      <3>6. waiting'[k] = waiting[k] /\ waiting'[k + 1] = waiting[k + 1]
        BY <3>1, <1>1
      <3>7. k # len + 1
        BY <2>3, <1>0
      <3> QED BY <3>2, <3>5, <3>6, <3>7
    <2> QED BY <2>1, <2>2, <2>3, <1>6, <1>len
  <1>7. ASSUME NEW q \in Procs, q \notin Queued'
        PROVE  link'[q] = NoProc \/ variant'.putClears
    <2>1. \A k \in 1 .. len + 1 : q # waiting'[k]
      BY <1>7, <1>2 DEF Queued
    <2>2. q # p
      BY <2>1, <1>1, <1>0
    <2>3. q \notin Queued
      BY <2>1, <1>1, <1>0 DEF Queued
    <2>4. CASE q = last
      <3>1. waiting = <<>>
        <4> SUFFICES ASSUME waiting # <<>> PROVE FALSE
          OBVIOUS
        <4>1. last = waiting[len] /\ len \in 1 .. len
          BY <1>0, Shape DEF Linked, WellLinked
        <4> QED BY <4>1, <2>3, <2>4, <1>0 DEF Queued
      <3> QED BY <3>1, <2>4, EndsAgree, NoProcAssumption
    <2>5. CASE q # last
      <3>1. link'[q] = link[q] /\ variant' = variant
        BY <2>2, <2>5, PutEffect
      <3> QED BY <3>1, <2>3 DEF Linked, WellLinked
    <2> QED BY <2>4, <2>5
  <1>8. Queue!NoRepeats(waiting)'
    <2> SUFFICES ASSUME NEW a \in 1 .. len + 1, NEW b \in 1 .. len + 1, a # b
                 PROVE  waiting'[a] # waiting'[b]
      BY <1>2 DEF Queue!NoRepeats
    <2>1. CASE a \in 1 .. len /\ b \in 1 .. len
      BY <2>1, <1>0, <1>1 DEF Linked, Queue!NoRepeats
    <2>2. CASE a = len + 1 \/ b = len + 1
      BY <2>2, <1>0, <1>1, <1>3
    <2> QED BY <2>1, <2>2, <1>0
  <1>9. waiting' # <<>>
    BY <1>1, <1>0, EmptySeq
  <1>10. \A k \in DOMAIN waiting' :
           link'[waiting'[k]] = IF k = Len(waiting') THEN NoProc ELSE waiting'[k + 1]
    BY <1>1, <1>2, <1>6
  <1>11. \A q \in Procs \ Queued' : link'[q] = NoProc \/ variant'.putClears
    BY <1>7
  <1> HIDE DEF len
  <1>12. WellLinked'
    BY <1>4, <1>5, <1>9, <1>10, <1>11 DEF WellLinked
  <1> QED BY <1>8, <1>12 DEF Linked

(* A put is a newcomer at the end of the FIFO.                                 *)
LEMMA PutJoins ==
  ASSUME Linked, NEW p \in Procs, Put(p)
  PROVE  Queue!Join
  <1>1. waiting \in Seq(Procs) /\ Len(waiting) \in Nat
    BY Shape DEF Linked, WellLinked, TypeOK
  <1>2. /\ waiting' = Append(waiting, p) /\ waiting' \in Seq(Procs)
        /\ Len(waiting') = Len(waiting) + 1
        /\ \A k \in 1 .. Len(waiting) : waiting'[k] = waiting[k]
    <2>1. waiting' = Append(waiting, p)
      BY PutEffect
    <2> QED BY <2>1, <1>1, AppendProperties
  <1>3. SubSeq(waiting', 1, Len(waiting)) = waiting
    <2>1. \A k \in 1 .. Len(waiting) : waiting'[k] \in Procs
      BY <1>2, Shape
    <2>2. /\ SubSeq(waiting', 1, Len(waiting)) \in Seq(Procs)
          /\ Len(SubSeq(waiting', 1, Len(waiting))) = Len(waiting)
          /\ \A k \in 1 .. Len(waiting) :
               SubSeq(waiting', 1, Len(waiting))[k] = waiting'[k]
      BY <1>1, <2>1, SubSeqProperties
    <2> QED BY <1>1, <1>2, <2>2, SeqEqual
  <1>4. Queue!NoRepeats(waiting')
    <2>1. Queue!NoRepeats(waiting)'
      BY PutLinked DEF Linked
    <2> QED BY <2>1 DEF Queue!NoRepeats
  <1> QED BY <1>1, <1>2, <1>3, <1>4 DEF Queue!Join

-----------------------------------------------------------------------------
(* The effect of a get, whatever the variant: the oldest leaves.               *)
LEMMA GetEffect ==
  ASSUME Linked, Get
  PROVE  /\ waiting # <<>> /\ Len(waiting) \in Nat \ {0}
         /\ first = waiting[1]
         /\ first' = IF Len(waiting) = 1 THEN NoProc ELSE waiting[2]
         /\ last' = IF Len(waiting) = 1 THEN NoProc ELSE last
         /\ link' \in [Procs -> Procs \cup {NoProc}]
         /\ link'[first] = NoProc \/ variant.putClears
         /\ \A q \in Procs : q # first => link'[q] = link[q]
         /\ variant' = variant
         /\ waiting' = Tail(waiting)
  <1> DEFINE len == Len(waiting)
  <1>0. waiting \in Seq(Procs) /\ len \in Nat /\ DOMAIN waiting = 1 .. len
    BY Shape DEF Linked, WellLinked, TypeOK
  <1>1. /\ first # NoProc /\ first' = FirstAfter /\ last' = LastAfter
        /\ link' = IF GetClears THEN [link EXCEPT ![first] = NoProc] ELSE link
        /\ waiting' = Without(first) /\ variant' = variant
    BY DEF Get
  <1>2. waiting # <<>> /\ len \in Nat \ {0} /\ 1 \in 1 .. len /\ len \in 1 .. len
    BY <1>0, <1>1, EndsAgree, Shape
  <1>len. len \in Nat \ {0}
    BY <1>2
  <1>3. first = waiting[1] /\ last = waiting[len]
    BY <1>2 DEF Linked, WellLinked
  <1>4. link[first] = IF len = 1 THEN NoProc ELSE waiting[2]
    BY <1>0, <1>2, <1>3 DEF Linked, WellLinked
  <1>5. len # 1 => 2 \in 1 .. len
    BY <1>len
  <1>6. Alone <=> len = 1
    <2>1. CASE variant.end = "end"
      BY <2>1, <1>4, <1>5, Shape DEF Alone
    <2>2. CASE variant.end # "end"
      <3>1. first = last <=> len = 1
        BY <1>0, <1>2, <1>3 DEF Linked, Queue!NoRepeats
      <3> QED BY <2>2, <3>1 DEF Alone
    <2> QED BY <2>1, <2>2
  <1>7. FirstAfter = IF len = 1 THEN NoProc ELSE waiting[2]
    BY <1>4, <1>6 DEF FirstAfter
  <1>8. LastAfter = IF len = 1 THEN NoProc ELSE last
    BY <1>6 DEF LastAfter
  <1>9. link \in [Procs -> Procs \cup {NoProc}] /\ first \in Procs
    BY <1>2, <1>3, Shape DEF Linked, WellLinked, TypeOK
  <1>10. /\ link' \in [Procs -> Procs \cup {NoProc}]
         /\ \A q \in Procs : q # first => link'[q] = link[q]
         /\ GetClears => link'[first] = NoProc
         /\ ~GetClears => link'[first] = link[first]
    BY <1>1, <1>9
  <1>11. link'[first] = NoProc \/ variant.putClears
    <2>1. CASE GetClears
      BY <2>1, <1>10
    <2>2. CASE ~GetClears /\ Alone
      BY <2>2, <1>4, <1>6, <1>10
    <2>3. CASE ~GetClears /\ ~Alone
      <3>1. variant.getClears = "never"
        BY <2>3, VariantKinds DEF GetClears, Linked, WellLinked, TypeOK
      <3> QED BY <3>1, VariantKinds DEF Linked, WellLinked, TypeOK
    <2> QED BY <2>1, <2>2, <2>3
  <1>12. Without(first) = Tail(waiting)
    <2>1. (CHOOSE k \in DOMAIN waiting : waiting[k] = first) = 1
      <3>1. \A k \in 1 .. len : waiting[k] = first => k = 1
        BY <1>0, <1>2, <1>3 DEF Linked, Queue!NoRepeats
      <3> QED BY <3>1, <1>0, <1>2, <1>3
    <2>2. Without(first) =
            [k \in 1 .. len - 1 |-> IF k < 1 THEN waiting[k] ELSE waiting[k + 1]]
      BY <2>1 DEF Without
    <2>3. \A k \in 1 .. len - 1 : ~(k < 1)
      BY <1>0
    <2>4. Tail(waiting) = [k \in 1 .. len - 1 |-> waiting[k + 1]]
      <3>1. /\ Tail(waiting) \in Seq(Procs)
            /\ Len(Tail(waiting)) = len - 1
            /\ \A k \in 1 .. Len(Tail(waiting)) : Tail(waiting)[k] = waiting[k + 1]
        BY <1>0, <1>2, HeadTailProperties
      <3>2. Tail(waiting) \in [1 .. len - 1 -> Procs]
        BY <3>1, LenProperties
      <3> QED BY <3>1, <3>2
    <2> QED BY <2>2, <2>3, <2>4
  <1> QED BY <1>1, <1>2, <1>3, <1>7, <1>8, <1>10, <1>11, <1>12

(* A get keeps the pointers and the queue together.                            *)
LEMMA GetLinked ==
  ASSUME Linked, Get
  PROVE  Linked'
  <1> DEFINE len == Len(waiting)
  <1>0. waiting \in Seq(Procs) /\ len \in Nat \ {0} /\ DOMAIN waiting = 1 .. len
    BY GetEffect, Shape DEF Linked, WellLinked, TypeOK
  <1>len. len \in Nat \ {0}
    BY <1>0
  <1>1. /\ waiting' \in Seq(Procs)
        /\ Len(waiting') = len - 1
        /\ \A k \in 1 .. len - 1 : waiting'[k] = waiting[k + 1]
    <2>1. waiting # <<>> /\ waiting' = Tail(waiting)
      BY GetEffect
    <2> QED BY <2>1, <1>0, HeadTailProperties
  <1>2. DOMAIN waiting' = 1 .. len - 1
    BY <1>1, LenProperties
  <1>3. first = waiting[1] /\ 1 \in 1 .. len /\ len \in 1 .. len /\ last = waiting[len]
    BY <1>0, GetEffect DEF Linked, WellLinked
  <1>4. \A k \in 2 .. len : waiting[k] # first /\ waiting[k] \in Procs
    BY <1>0, <1>3, Shape DEF Linked, Queue!NoRepeats
  <1>5. len # 1 => 2 \in 1 .. len
    BY <1>0
  <1>6. TypeOK'
    <2>1. first' \in Procs \cup {NoProc}
      BY <1>5, GetEffect, Shape
    <2>2. last' \in Procs \cup {NoProc}
      BY GetEffect DEF Linked, WellLinked, TypeOK
    <2> QED BY <2>1, <2>2, <1>1, GetEffect DEF Linked, WellLinked, TypeOK
  <1>7. waiting' = <<>> <=> len = 1
    BY <1>0, <1>1, EmptySeq
  <1>8. waiting' = <<>> => first' = NoProc /\ last' = NoProc
    BY <1>7, GetEffect
  <1>9. waiting' # <<>> => first' = waiting'[1] /\ last' = waiting'[Len(waiting')]
    <2> SUFFICES ASSUME len # 1
                 PROVE  first' = waiting'[1] /\ last' = waiting'[len - 1]
      BY <1>1, <1>7
    <2>1. 1 \in 1 .. len - 1 /\ len - 1 \in 1 .. len - 1
      BY <1>0
    <2>2. waiting'[1] = waiting[2] /\ waiting'[len - 1] = waiting[len]
      BY <2>1, <1>1, <1>0
    <2> QED BY <2>2, <1>3, GetEffect
  <1>10. ASSUME NEW k \in 1 .. len - 1
         PROVE  link'[waiting'[k]] = IF k = len - 1 THEN NoProc ELSE waiting'[k + 1]
    <2>1. k + 1 \in 2 .. len /\ k + 1 \in 1 .. len
      BY <1>0
    <2>2. link'[waiting[k + 1]] = link[waiting[k + 1]]
      BY <2>1, <1>4, GetEffect
    <2>3. link[waiting[k + 1]] = IF k + 1 = len THEN NoProc ELSE waiting[k + 1 + 1]
      BY <2>1, <1>0 DEF Linked, WellLinked
    <2>4. k # len - 1 => waiting'[k + 1] = waiting[k + 1 + 1]
      <3> SUFFICES ASSUME k # len - 1 PROVE waiting'[k + 1] = waiting[k + 1 + 1]
        OBVIOUS
      <3>1. k + 1 \in 1 .. len - 1
        BY <1>10, <1>len
      <3> QED BY <3>1, <1>1
    <2>5. waiting'[k] = waiting[k + 1]
      BY <1>1
    <2>6. k + 1 = len <=> k = len - 1
      BY <1>0
    <2> QED BY <2>2, <2>3, <2>4, <2>5, <2>6
  <1>11. ASSUME NEW q \in Procs, q \notin Queued'
         PROVE  link'[q] = NoProc \/ variant'.putClears
    <2>1. CASE q = first
      BY <2>1, GetEffect
    <2>2. CASE q # first
      <3>1. q \notin Queued
        <4> SUFFICES ASSUME NEW k \in 1 .. len, q = waiting[k] PROVE FALSE
          BY <1>0 DEF Queued
        <4>1. k # 1
          BY <2>2, <1>3
        <4>2. k - 1 \in 1 .. len - 1 /\ (k - 1) + 1 = k
          BY <4>1, <1>0
        <4>3. waiting'[k - 1] = q
          BY <4>2, <1>1
        <4> QED BY <4>2, <4>3, <1>2, <1>11 DEF Queued
      <3>2. link'[q] = link[q] /\ variant' = variant
        BY <2>2, GetEffect
      <3> QED BY <3>1, <3>2 DEF Linked, WellLinked
    <2> QED BY <2>1, <2>2
  <1>12. Queue!NoRepeats(waiting)'
    <2> SUFFICES ASSUME NEW a \in 1 .. len - 1, NEW b \in 1 .. len - 1, a # b
                 PROVE  waiting'[a] # waiting'[b]
      BY <1>2 DEF Queue!NoRepeats
    <2>1. a + 1 \in 1 .. len /\ b + 1 \in 1 .. len /\ a + 1 # b + 1
      BY <1>0
    <2>2. waiting[a + 1] # waiting[b + 1]
      BY <2>1, <1>0 DEF Linked, Queue!NoRepeats
    <2> QED BY <2>2, <1>1
  <1>13. \A k \in DOMAIN waiting' :
           link'[waiting'[k]] = IF k = Len(waiting') THEN NoProc ELSE waiting'[k + 1]
    BY <1>1, <1>2, <1>10
  <1>14. \A q \in Procs \ Queued' : link'[q] = NoProc \/ variant'.putClears
    BY <1>11
  <1> HIDE DEF len
  <1>15. WellLinked'
    BY <1>6, <1>8, <1>9, <1>13, <1>14 DEF WellLinked
  <1> QED BY <1>12, <1>15 DEF Linked

(* A get takes the oldest of the FIFO.                                         *)
LEMMA GetLeaves ==
  ASSUME Linked, Get
  PROVE  Queue!Leave
  BY GetEffect DEF Queue!Leave

-----------------------------------------------------------------------------
(* The queue starts empty and well linked.                                     *)
LEMMA LinkedInit == Init => Linked
  <1> SUFFICES ASSUME Init PROVE Linked
    OBVIOUS
  <1>1. waiting = <<>> /\ DOMAIN waiting = {} /\ waiting \in Seq(Procs)
    BY EmptySeq DEF Init
  <1>2. TypeOK
    BY <1>1 DEF Init, TypeOK
  <1>3. \A p \in Procs : link[p] = NoProc
    BY DEF Init
  <1> QED BY <1>1, <1>2, <1>3 DEF Init, Linked, WellLinked, Queue!NoRepeats

(* Linked is inductive.                                                        *)
LEMMA LinkedNext == Linked /\ [Next]_vars => Linked'
  <1> SUFFICES ASSUME Linked, [Next]_vars PROVE Linked'
    OBVIOUS
  <1>1. CASE Get
    BY <1>1, GetLinked
  <1>2. ASSUME NEW p \in Procs, Put(p) PROVE Linked'
    BY <1>2, PutLinked
  <1>3. CASE UNCHANGED vars
    BY <1>3 DEF vars, Linked, WellLinked, TypeOK, Queued, Queue!NoRepeats
  <1> QED BY <1>1, <1>2, <1>3 DEF Next

(* Whatever test, end and clearing of QueueVariant a proc.c chose, its         *)
(* pointers hold the queue in order at all times.                              *)
THEOREM WellLinkedHolds == Spec => []WellLinked
  <1>1. Linked => WellLinked
    BY DEF Linked
  <1> QED BY <1>1, LinkedInit, LinkedNext, PTL DEF Spec

(* The linked queue implements the first-in first-out queue: every put lines   *)
(* up at the end, every get takes the oldest.                                  *)
THEOREM QueueIsFifo == Spec => IsFifo
  <1>1. Init => Queue!FifoInit
    BY DEF Init, Queue!FifoInit
  <1>2. Linked /\ [Next]_vars => [Queue!Join \/ Queue!Leave]_waiting
    <2> SUFFICES ASSUME Linked, [Next]_vars
                 PROVE  [Queue!Join \/ Queue!Leave]_waiting
      OBVIOUS
    <2>1. CASE Get
      BY <2>1, GetLeaves
    <2>2. ASSUME NEW p \in Procs, Put(p) PROVE Queue!Join
      BY <2>2, PutJoins
    <2>3. CASE UNCHANGED vars
      BY <2>3 DEF vars
    <2> QED BY <2>1, <2>2, <2>3 DEF Next
  <1> QED BY <1>1, <1>2, LinkedInit, LinkedNext, PTL DEF Spec, IsFifo, Queue!FifoSpec
=============================================================================
