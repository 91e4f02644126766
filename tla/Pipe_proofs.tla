---------------------------- MODULE Pipe_proofs ----------------------------
(* Theorems about module Pipe, for every set of processes, ring size, counter *)
(* width and block-copy policy: its types, mutual exclusion under p->lock, no *)
(* use of the page after pipeclose() freed it, no lost wakeup as long as no   *)
(* writer is killed, the order of each writer's bytes, and, for rings whose   *)
(* size divides the counters' range, that the pipe is a stream of bytes.      *)
EXTENDS Pipe, SequenceTheorems, TLAPS

-----------------------------------------------------------------------------
(* The arithmetic of counters that wrap.                                       *)

LEMMA ModRange ==
  ASSUME NEW m \in Nat \ {0}, NEW x \in Int
  PROVE  x % m \in 0 .. m - 1
  BY SMTT(20)

(* A counter below the width stays as it is.                                   *)
LEMMA ModBelow ==
  ASSUME NEW m \in Nat \ {0}, NEW x \in 0 .. m - 1
  PROVE  x % m = x
  BY SMTT(20)

(* A counter that ran over the width wraps once.                               *)
LEMMA ModOver ==
  ASSUME NEW m \in Nat \ {0}, NEW x \in m .. 2 * m - 1
  PROVE  x % m = x - m
  BY SMTT(20)

(* A difference below zero wraps up once.                                      *)
LEMMA ModUnder ==
  ASSUME NEW m \in Nat \ {0}, NEW x \in -m .. -1
  PROVE  x % m = x + m
  BY SMTT(20)

(* The difference of two counters modulo the width of a uint.                  *)
LEMMA Distance ==
  ASSUME NEW m \in Nat \ {0}, NEW a \in 0 .. m - 1, NEW b \in 0 .. m - 1
  PROVE  (a - b) % m = IF a >= b THEN a - b ELSE a - b + m
<1>1. CASE a >= b
  BY <1>1, ModBelow
<1>2. CASE a < b
  BY <1>2, ModUnder
<1> QED BY <1>1, <1>2

(* Advancing a counter by c, less than the width.                              *)
LEMMA Advance ==
  ASSUME NEW m \in Nat \ {0}, NEW a \in 0 .. m - 1, NEW c \in 0 .. m - 1
  PROVE  /\ (a + c) % m = IF a + c < m THEN a + c ELSE a + c - m
         /\ (a + c) % m \in 0 .. m - 1
<1>1. CASE a + c < m
  BY <1>1, ModBelow
<1>2. CASE a + c >= m
  BY <1>2, ModOver
<1> QED BY <1>1, <1>2

(* Advancing the front counter adds to the distance, ...                       *)
LEMMA FrontAdvances ==
  ASSUME NEW m \in Nat \ {0}, NEW a \in 0 .. m - 1, NEW b \in 0 .. m - 1,
         NEW c \in Nat, ((a - b) % m) + c < m
  PROVE  (((a + c) % m) - b) % m = ((a - b) % m) + c
<1> DEFINE d == (a + c) % m
<1>1. (a - b) % m = IF a >= b THEN a - b ELSE a - b + m
  BY Distance
<1>2. c \in 0 .. m - 1
  BY <1>1
<1>3. /\ d = IF a + c < m THEN a + c ELSE a + c - m
      /\ d \in 0 .. m - 1
  BY <1>2, Advance
<1>4. (d - b) % m = IF d >= b THEN d - b ELSE d - b + m
  BY <1>3, Distance
<1> QED BY <1>1, <1>3, <1>4

(* ... and advancing the back counter up to the front takes from it.           *)
LEMMA BackAdvances ==
  ASSUME NEW m \in Nat \ {0}, NEW a \in 0 .. m - 1, NEW b \in 0 .. m - 1,
         NEW c \in Nat, c <= (a - b) % m
  PROVE  (a - ((b + c) % m)) % m = ((a - b) % m) - c
<1> DEFINE d == (b + c) % m
<1>1. (a - b) % m = IF a >= b THEN a - b ELSE a - b + m
  BY Distance
<1>2. c \in 0 .. m - 1
  BY <1>1
<1>3. /\ d = IF b + c < m THEN b + c ELSE b + c - m
      /\ d \in 0 .. m - 1
  BY <1>2, Advance
<1>4. (a - d) % m = IF a >= d THEN a - d ELSE a - d + m
  BY <1>3, Distance
<1> QED BY <1>1, <1>3, <1>4

(* A block of c elements is a sequence of length c.                            *)
LEMMA Block ==
  ASSUME NEW S, NEW c \in Nat, NEW f \in [1 .. c -> S]
  PROVE  f \in Seq(S) /\ Len(f) = c
  BY SeqDef, LenProperties

-----------------------------------------------------------------------------
(* The inductive invariant.                                                    *)

(* What the code relies on beside the types: the counters are never more than  *)
(* the ring apart, no call has moved more than was asked, and only a call of   *)
(* pipewrite counts in i.                                                      *)
Fits   == Used <= PIPESIZE
Within == \A p \in Procs : i[p] <= n[p] /\ (pc[p] \in InWrite \/ i[p] = 0)

(* The flags of the pipe agree with the descriptors, and a process inside      *)
(* pipewrite or piperead has a descriptor of that end.                         *)
Ends ==
  /\ readopen <=> rfds # {}
  /\ writeopen <=> wfds # {}
  /\ freed <=> ~readopen /\ ~writeopen
Inside ==
  \A p \in Procs : /\ pc[p] \in InRead => p \in rfds
                   /\ pc[p] \in InWrite => p \in wfds

(* Why each process that is about to sleep, or sleeps, may do so. A reader may *)
(* be asleep beside data only while a writer is still in its loop: it will     *)
(* wake the reader before it sleeps or returns n.                              *)
Waiting ==
  \A p \in Procs :
    /\ pc[p] = "rsleep" => Empty /\ writeopen
    /\ pc[p] = "wsleep" => Full /\ readopen
    /\ pc[p] = "rblocked" => \/ Empty /\ writeopen
                             \/ \E q \in Procs : pc[q] = "writing"
    /\ pc[p] = "wblocked" => Full /\ readopen

(* No writer is ever killed.                                                   *)
WritersLive == wfds \cap Killable = {} /\ killed \subseteq Killable

Typed == TypeOK /\ Fits /\ Within
Locked == Typed /\ MutualExclusion
Held == Locked /\ Ends /\ Inside
Awake == Held /\ WritersLive /\ Waiting

-----------------------------------------------------------------------------
(* Types.                                                                      *)

LEMMA TypedInit ==
  ASSUME Init
  PROVE  Typed
<1> USE SizeAssumption
<1>1. RingType
  <2>1. nread \in 0 .. UintMod - 1 /\ nwrite \in 0 .. UintMod - 1
    BY DEF Init
  <2>2. data \in [Slots -> Byte \cup {Junk}]
    BY DEF Init
  <2> QED BY <2>1, <2>2 DEF RingType
<1>2. EndsType
  BY ProcsAssumption DEF Init, EndsType
<1>3. FrameType
  <2>1. lock \in Procs \cup {NoProc} /\ pc \in [Procs -> PCs]
    BY DEF Init, PCs
  <2>2. n \in [Procs -> Nat] /\ i \in [Procs -> Nat] /\ fresh \in [Procs -> Nat]
    BY DEF Init
  <2> QED BY <2>1, <2>2 DEF FrameType
<1>4. HistoryType
  BY PolicyAssumption DEF Init, HistoryType
<1>5. Fits
  BY ModBelow DEF Init, Fits, Used
<1>6. Within
  <2> SUFFICES ASSUME NEW p \in Procs PROVE i[p] <= n[p] /\ i[p] = 0
    BY DEF Within
  <2> QED BY DEF Init
<1> QED BY <1>1, <1>2, <1>3, <1>4, <1>5, <1>6 DEF Typed, TypeOK

(* Used is a count of bytes.                                                   *)
LEMMA UsedIs ==
  ASSUME RingType
  PROVE  /\ Used = IF nwrite >= nread THEN nwrite - nread ELSE nwrite - nread + UintMod
         /\ Used \in 0 .. UintMod - 1
<1>1. nread \in 0 .. UintMod - 1 /\ nwrite \in 0 .. UintMod - 1 /\ UintMod \in Nat \ {0}
  BY SizeAssumption DEF RingType
<1>2. (nwrite - nread) % UintMod
        = IF nwrite >= nread THEN nwrite - nread ELSE nwrite - nread + UintMod
  BY <1>1, Distance
<1> QED BY <1>1, <1>2 DEF Used

(* Full means that the ring holds PIPESIZE bytes, Empty that it holds none.    *)
LEMMA FullEmpty ==
  ASSUME RingType
  PROVE  /\ Full <=> Used = PIPESIZE
         /\ Empty <=> Used = 0
<1>1. /\ nread \in 0 .. UintMod - 1 /\ nwrite \in 0 .. UintMod - 1
      /\ UintMod \in Nat \ {0} /\ PIPESIZE \in 0 .. UintMod - 1 /\ PIPESIZE > 0
  BY SizeAssumption DEF RingType
<1>2. (nread + PIPESIZE) % UintMod
        = IF nread + PIPESIZE < UintMod THEN nread + PIPESIZE
          ELSE nread + PIPESIZE - UintMod
  BY <1>1, Advance
<1> QED BY <1>1, <1>2, UsedIs DEF Full, Empty

(* A writer that finds room moves at least one byte, and no more than fit.     *)
LEMMA WriteCountBounds ==
  ASSUME Typed, NEW p \in Procs, ~Full, i[p] < n[p]
  PROVE  /\ WriteCount(p) \in Nat \ {0}
         /\ WriteCount(p) + Used <= PIPESIZE
         /\ i[p] + WriteCount(p) <= n[p]
<1>1. Used \in Nat /\ Used < PIPESIZE
  BY UsedIs, FullEmpty, SizeAssumption DEF Typed, TypeOK, Fits
<1>2. nwrite % PIPESIZE \in 0 .. PIPESIZE - 1
  BY ModRange, SizeAssumption DEF Typed, TypeOK, RingType
<1>3. i[p] \in Nat /\ n[p] \in Nat
  BY DEF Typed, TypeOK, FrameType
<1> QED BY <1>1, <1>2, <1>3, SizeAssumption DEF WriteCount, Least

(* What piperead copies out is a sequence, and no longer than what is unread.  *)
LEMMA CopyOutType ==
  ASSUME RingType, NEW at \in Nat, NEW c \in Nat
  PROVE  CopyOut(at, c) \in Seq(Byte \cup {Junk}) /\ Len(CopyOut(at, c)) = c
<1>1. ASSUME NEW k \in 1 .. c
      PROVE  data[(at + k - 1) % PIPESIZE] \in Byte \cup {Junk}
  <2>1. (at + k - 1) % PIPESIZE \in Slots
    BY ModRange, SizeAssumption DEF Slots
  <2> QED BY <2>1 DEF RingType
<1>2. CopyOut(at, c) \in [1 .. c -> Byte \cup {Junk}]
  BY <1>1 DEF CopyOut
<1> QED BY <1>2, Block

(* The first segment of a read fits the ring and the request.                  *)
LEMMA FirstSegmentBounds ==
  ASSUME Typed, NEW p \in Procs
  PROVE  FirstSegment(p) \in Nat /\ FirstSegment(p) <= Used
<1>1. Used \in Nat /\ n[p] \in Nat
  BY UsedIs, SizeAssumption DEF Typed, TypeOK, FrameType
<1>2. nread % PIPESIZE \in 0 .. PIPESIZE - 1
  BY ModRange, SizeAssumption DEF Typed, TypeOK, RingType
<1> QED BY <1>1, <1>2, SizeAssumption DEF FirstSegment, Least

(* So does what the second segment adds.                                       *)
LEMMA SecondSegmentBounds ==
  ASSUME Typed, NEW p \in Procs
  PROVE  SecondSegment(p) \in Nat /\ FirstSegment(p) + SecondSegment(p) <= Used
<1> DEFINE nr == FirstSegment(p)
           now == (nread + nr) % UintMod
<1>1. /\ nread \in 0 .. UintMod - 1 /\ nwrite \in 0 .. UintMod - 1
      /\ UintMod \in Nat \ {0} /\ n[p] \in Nat
  BY SizeAssumption DEF Typed, TypeOK, RingType, FrameType
<1>2. /\ Used = IF nwrite >= nread THEN nwrite - nread ELSE nwrite - nread + UintMod
      /\ Used \in 0 .. UintMod - 1
  BY UsedIs DEF Typed, TypeOK
<1>3. nr \in 0 .. UintMod - 1 /\ nr <= Used
  BY <1>1, <1>2, FirstSegmentBounds
<1>4. now = IF nread + nr < UintMod THEN nread + nr ELSE nread + nr - UintMod
  BY <1>1, <1>3, Advance
<1>5. SecondSegment(p) = IF nr < n[p] /\ now < nwrite
                         THEN Least(n[p] - nr, nwrite - now) ELSE 0
  BY DEF SecondSegment
<1> HIDE DEF nr, now
<1>6. SecondSegment(p) \in Nat /\ nr + SecondSegment(p) <= Used
  BY <1>1, <1>2, <1>3, <1>4, <1>5 DEF Least
<1> QED BY <1>6 DEF nr

(* Every policy reads no more than there is and than was asked for.            *)
LEMMA ReadBytesType ==
  ASSUME Typed, NEW p \in Procs
  PROVE  /\ ReadBytes(p) \in Seq(Byte \cup {Junk})
         /\ Len(ReadBytes(p)) \in Nat
         /\ Len(ReadBytes(p)) <= Used
<1> DEFINE nr == FirstSegment(p)
           more == SecondSegment(p)
           whole == Least(Used, n[p])
           there == ((nread + nr) % UintMod) % PIPESIZE
<1>1. RingType /\ nread % PIPESIZE \in Nat /\ Used \in Nat /\ n[p] \in Nat
  BY UsedIs, ModRange, SizeAssumption DEF Typed, TypeOK, RingType, FrameType
<1>2. /\ nr \in Nat /\ more \in Nat /\ whole \in Nat
      /\ nr <= Used /\ nr + more <= Used /\ whole <= Used
  BY <1>1, FirstSegmentBounds, SecondSegmentBounds DEF Least
<1>3. there \in Nat
  <2>1. (nread + nr) % UintMod \in Int
    BY <1>1, <1>2, ModRange, SizeAssumption DEF RingType
  <2> QED BY <2>1, ModRange, SizeAssumption
<1>4. ReadBytes(p) = CASE policy.read = "split"   -> CopyOut(nread % PIPESIZE, whole)
                       [] policy.read = "segment" -> CopyOut(nread % PIPESIZE, nr)
                       [] policy.read = "twoseg"  ->
                            CopyOut(nread % PIPESIZE, nr) \o CopyOut(there, more)
  BY DEF ReadBytes
<1>5. policy.read \in {"split", "segment", "twoseg"}
  BY DEF Typed, TypeOK, HistoryType, Policy
<1> HIDE DEF nr, more, whole, there
<1>6. CASE policy.read = "split"
  BY <1>1, <1>2, <1>4, <1>6, CopyOutType
<1>7. CASE policy.read = "segment"
  BY <1>1, <1>2, <1>4, <1>7, CopyOutType
<1>8. CASE policy.read = "twoseg"
  <2> DEFINE first == CopyOut(nread % PIPESIZE, nr)
             second == CopyOut(there, more)
  <2>1. ReadBytes(p) = first \o second
    BY <1>4, <1>8
  <2>2. first \in Seq(Byte \cup {Junk}) /\ Len(first) = nr
    BY <1>1, <1>2, CopyOutType
  <2>3. second \in Seq(Byte \cup {Junk}) /\ Len(second) = more
    BY <1>1, <1>2, <1>3, CopyOutType
  <2> HIDE DEF first, second
  <2>4. first \o second \in Seq(Byte \cup {Junk}) /\ Len(first \o second) = nr + more
    BY <2>2, <2>3, ConcatProperties
  <2> QED BY <2>1, <2>4, <1>2
<1> QED BY <1>5, <1>6, <1>7, <1>8

(* What the shared parts of the actions do to the types.                       *)
LEMMA RingKept ==
  ASSUME Typed, UNCHANGED <<nread, nwrite, data>>
  PROVE  RingType' /\ Fits'
  BY DEF Typed, TypeOK, RingType, Fits, Used

(* A step that leaves the history alone keeps its type.                        *)
LEMMA HistoryKept ==
  ASSUME Typed, UNCHANGED <<policy, sent, got>>, asked' \in Nat, reads' \in Nat
  PROVE  HistoryType'
  BY DEF Typed, TypeOK, HistoryType

(* Process p goes on at label to, and the others stay where they are or are    *)
(* woken up.                                                                   *)
Moved(p, to) ==
  /\ pc' \in [Procs -> PCs]
  /\ pc'[p] = to
  /\ \A q \in Procs \ {p} : \/ pc'[q] = pc[q]
                            \/ pc[q] = "rblocked" /\ pc'[q] = "rwoken"
                            \/ pc[q] = "wblocked" /\ pc'[q] = "wwoken"

(* Go moves p alone.                                                           *)
LEMMA GoMoves ==
  ASSUME FrameType, NEW p \in Procs, NEW to \in PCs, Go(p, to)
  PROVE  Moved(p, to)
  BY DEF FrameType, Go, Moved

(* A wakeup moves the caller and the sleepers of one channel.                  *)
LEMMA WakeupMoves ==
  ASSUME FrameType, NEW p \in Procs, NEW to \in PCs,
         NEW chan \in {"rblocked", "wblocked"}, WakeupAndGo(chan, p, to)
  PROVE  Moved(p, to) /\ \A q \in Procs \ {p} : pc'[q] # chan
<1>1. Runnable["rblocked"] = "rwoken" /\ Runnable["wblocked"] = "wwoken"
  BY DEF Runnable
<1>2. "rwoken" \in PCs /\ "wwoken" \in PCs
  BY DEF PCs, InWrite, InRead
<1>3. pc \in [Procs -> PCs]
  BY DEF FrameType
<1> QED BY <1>1, <1>2, <1>3 DEF WakeupAndGo, Moved

(* Returning keeps the type of the frame.                                      *)
LEMMA ReturnType ==
  ASSUME Typed, NEW p \in Procs, Return(p), Moved(p, "user")
  PROVE  FrameType' /\ Within'
<1>1. /\ n \in [Procs -> Nat] /\ i \in [Procs -> Nat] /\ fresh \in [Procs -> Nat]
      /\ \A q \in Procs : i[q] <= n[q] /\ (pc[q] \in InWrite \/ i[q] = 0)
  BY DEF Typed, TypeOK, FrameType, Within
<1>2. n' \in [Procs -> Nat] /\ i' \in [Procs -> Nat] /\ fresh' \in [Procs -> Nat]
  BY <1>1 DEF Return
<1>3. ASSUME NEW q \in Procs
      PROVE  i'[q] <= n'[q] /\ (pc'[q] \in InWrite \/ i'[q] = 0)
  <2>1. CASE q = p
    BY <1>1, <2>1 DEF Return
  <2>2. CASE q # p
    BY <1>1, <2>2 DEF Return, Moved, InWrite
  <2> QED BY <2>1, <2>2
<1> QED BY <1>2, <1>3 DEF Return, Moved, FrameType, Within

(* A step that moves processes and no counters keeps it too.                   *)
LEMMA FrameKept ==
  ASSUME Typed, NEW p \in Procs, NEW to \in PCs, Moved(p, to),
         pc[p] \in InWrite => to \in InWrite,
         lock' \in Procs \cup {NoProc}, UNCHANGED <<n, i, fresh>>
  PROVE  FrameType' /\ Within'
<1>1. ASSUME NEW q \in Procs
      PROVE  i'[q] <= n'[q] /\ (pc'[q] \in InWrite \/ i'[q] = 0)
  BY DEF Typed, Within, Moved, InWrite
<1> QED BY <1>1 DEF Typed, TypeOK, FrameType, Within, Moved

(* A process enters pipewrite or piperead with an argument of its choice.      *)
LEMMA CallType ==
  ASSUME Typed, NEW p \in Procs, NEW to \in PCs, Moved(p, to), lock' = p,
         pc[p] = "user", NEW c \in Counts, n' = [n EXCEPT ![p] = c],
         UNCHANGED <<i, fresh>>
  PROVE  FrameType' /\ Within'
<1>1. /\ n \in [Procs -> Nat] /\ i \in [Procs -> Nat] /\ fresh \in [Procs -> Nat]
      /\ \A q \in Procs : i[q] <= n[q] /\ (pc[q] \in InWrite \/ i[q] = 0)
  BY DEF Typed, TypeOK, FrameType, Within
<1>2. c \in Nat
  BY BoundsAssumption
<1>3. n' \in [Procs -> Nat]
  BY <1>1, <1>2
<1>4. ASSUME NEW q \in Procs
      PROVE  i'[q] <= n'[q] /\ (pc'[q] \in InWrite \/ i'[q] = 0)
  <2>1. CASE q = p
    BY <1>1, <1>2, <2>1 DEF InWrite
  <2>2. CASE q # p
    BY <1>1, <2>2 DEF Moved, InWrite
  <2> QED BY <2>1, <2>2
<1> QED BY <1>1, <1>3, <1>4 DEF FrameType, Within, Moved

(* A block copied into the ring leaves a ring.                                 *)
LEMMA CopyInType ==
  ASSUME RingType, NEW at \in Int, NEW b \in Seq(Byte)
  PROVE  CopyIn(at, b) \in [Slots -> Byte \cup {Junk}]
<1>1. ASSUME NEW s \in Slots
      PROVE  (IF (s - at) % PIPESIZE < Len(b) THEN b[((s - at) % PIPESIZE) + 1] ELSE data[s])
               \in Byte \cup {Junk}
  <2> DEFINE k == (s - at) % PIPESIZE
  <2>1. k \in Nat
    BY ModRange, SizeAssumption DEF Slots
  <2>2. CASE k < Len(b)
    <3> HIDE DEF k
    <3>1. k + 1 \in 1 .. Len(b)
      BY <2>1, <2>2, LenProperties
    <3> QED BY <2>2, <3>1, ElementOfSeq DEF k
  <2>3. CASE ~(k < Len(b))
    BY <2>3 DEF RingType
  <2> QED BY <2>2, <2>3
<1> QED BY <1>1 DEF CopyIn

(* A block copied into the ring.                                               *)
LEMMA WriteCopyTyped ==
  ASSUME Typed, NEW p \in Procs, WriteCopy(p)
  PROVE  Typed'
<1> DEFINE c == WriteCount(p)
           bytes == UserBytes(p, c)
<1>1. /\ pc[p] = "writing" /\ i[p] < n[p] /\ ~Full
      /\ data' = CopyIn(nwrite % PIPESIZE, bytes)
      /\ nwrite' = (nwrite + c) % UintMod
      /\ i' = [i EXCEPT ![p] = @ + c]
      /\ sent' = sent \o bytes
  BY DEF WriteCopy
<1>2. c \in Nat \ {0} /\ c + Used <= PIPESIZE /\ i[p] + c <= n[p]
  BY <1>1, WriteCountBounds
<1>3. bytes \in Seq(Byte) /\ Len(bytes) = c
  <2>1. fresh[p] \in Nat /\ i[p] \in Nat
    BY DEF Typed, TypeOK, FrameType
  <2>2. bytes \in [1 .. c -> Byte]
    BY <1>2, <2>1 DEF UserBytes, Byte
  <2> QED BY <1>2, <2>2, Block
<1>4. RingType /\ nread' = nread
  BY DEF Typed, TypeOK, WriteCopy
<1> HIDE DEF c, bytes
<1>5. RingType'
  <2>1. nwrite % PIPESIZE \in Int
    BY <1>4, ModRange, SizeAssumption DEF RingType
  <2>2. data' \in [Slots -> Byte \cup {Junk}]
    BY <1>1, <1>3, <1>4, <2>1, CopyInType
  <2>3. nwrite' \in 0 .. UintMod - 1
    BY <1>1, <1>2, <1>4, ModRange, SizeAssumption DEF RingType
  <2> QED BY <1>4, <2>2, <2>3 DEF RingType
<1>6. Fits'
  <2>1. /\ nread \in 0 .. UintMod - 1 /\ nwrite \in 0 .. UintMod - 1
        /\ UintMod \in Nat \ {0} /\ ((nwrite - nread) % UintMod) + c < UintMod
    BY <1>2, <1>4, UsedIs, SizeAssumption DEF RingType, Used
  <2>2. (((nwrite + c) % UintMod) - nread) % UintMod = ((nwrite - nread) % UintMod) + c
    BY <1>2, <2>1, FrontAdvances
  <2>3. Used' = Used + c
    BY <1>1, <1>4, <2>2 DEF Used
  <2> QED BY <1>2, <1>4, <2>3, UsedIs, SizeAssumption DEF Fits
<1>7. FrameType' /\ Within'
  <2>1. i' \in [Procs -> Nat] /\ \A q \in Procs : i'[q] = IF q = p THEN i[p] + c ELSE i[q]
    BY <1>1, <1>2 DEF Typed, TypeOK, FrameType
  <2> QED BY <1>1, <1>2, <2>1 DEF WriteCopy, Typed, TypeOK, FrameType, Within, InWrite
<1>8. HistoryType'
  BY <1>1, <1>3, ConcatProperties DEF WriteCopy, Typed, TypeOK, HistoryType, boundVars
<1>9. EndsType'
  BY DEF WriteCopy, Typed, TypeOK, EndsType, fileVars
<1> QED BY <1>5, <1>6, <1>7, <1>8, <1>9 DEF Typed, TypeOK

(* A block copied out of it.                                                   *)
LEMMA ReadCopyTyped ==
  ASSUME Typed, NEW p \in Procs, ReadCopy(p)
  PROVE  Typed'
<1> DEFINE bytes == ReadBytes(p)
<1>1. /\ got' = got \o bytes
      /\ nread' = (nread + Len(bytes)) % UintMod
      /\ Return(p) /\ WakeupAndGo("wblocked", p, "user")
      /\ UNCHANGED <<nwrite, data, policy, sent, asked, reads>>
  BY DEF ReadCopy, boundVars
<1>2. bytes \in Seq(Byte \cup {Junk}) /\ Len(bytes) \in Nat /\ Len(bytes) <= Used
  BY ReadBytesType
<1>3. RingType /\ UNCHANGED <<nwrite, data>>
  BY <1>1 DEF Typed, TypeOK
<1> HIDE DEF bytes
<1>4. RingType'
  BY <1>1, <1>2, <1>3, ModRange, SizeAssumption DEF RingType
<1>5. Fits'
  <2>1. /\ nread \in 0 .. UintMod - 1 /\ nwrite \in 0 .. UintMod - 1
        /\ UintMod \in Nat \ {0} /\ Len(bytes) <= (nwrite - nread) % UintMod
    BY <1>2, <1>3, SizeAssumption DEF RingType, Used
  <2>2. (nwrite - ((nread + Len(bytes)) % UintMod)) % UintMod
          = ((nwrite - nread) % UintMod) - Len(bytes)
    BY <1>2, <2>1, BackAdvances
  <2>3. Used' = Used - Len(bytes)
    BY <1>1, <1>3, <2>2 DEF Used
  <2> QED BY <1>2, <1>3, <2>3, UsedIs, SizeAssumption DEF Typed, Fits
<1>6. FrameType' /\ Within'
  BY <1>1, WakeupMoves, ReturnType DEF Typed, TypeOK, PCs
<1>7. HistoryType'
  BY <1>1, <1>2, ConcatProperties DEF Typed, TypeOK, HistoryType
<1>8. EndsType'
  BY DEF ReadCopy, Typed, TypeOK, EndsType, fileVars
<1> QED BY <1>4, <1>5, <1>6, <1>7, <1>8 DEF Typed, TypeOK

(* Every action moves the process that takes it to a label of its own, and     *)
(* does at most wake up the others.                                            *)
LEMMA CloseMoves ==
  ASSUME FrameType, NEW p \in Procs, CloseWrite(p) \/ CloseRead(p)
  PROVE  Moved(p, "user") /\ pc[p] = "user"
<1>1. pc[p] = "user" /\ pc \in [Procs -> PCs]
  BY DEF FrameType, CloseWrite, CloseRead
<1>2. CASE UNCHANGED pc
  BY <1>1, <1>2 DEF Moved
<1>3. CASE \E chan \in {"rblocked", "wblocked"} : WakeupAndGo(chan, p, "user")
  BY <1>1, <1>3, WakeupMoves DEF PCs
<1> QED BY <1>2, <1>3 DEF CloseWrite, CloseRead

(* kill() moves its victim alone, out of a sleep.                              *)
LEMMA KillMoves ==
  ASSUME FrameType, NEW p \in Procs, Kill(p)
  PROVE  /\ Moved(p, pc'[p]) /\ pc'[p] \in PCs
         /\ \/ pc'[p] = pc[p]
            \/ pc[p] = "rblocked" /\ pc'[p] = "rwoken"
            \/ pc[p] = "wblocked" /\ pc'[p] = "wwoken"
<1>1. pc \in [Procs -> PCs]
  BY DEF FrameType
<1>2. Runnable["rblocked"] = "rwoken" /\ Runnable["wblocked"] = "wwoken"
  BY DEF Runnable
<1>3. DOMAIN Runnable = {"rblocked", "wblocked"}
  BY DEF Runnable
<1>4. CASE pc[p] \in {"rblocked", "wblocked"}
  <2>1. pc' = [pc EXCEPT ![p] = Runnable[pc[p]]]
    BY <1>3, <1>4 DEF Kill, Go
  <2> QED BY <1>1, <1>2, <1>4, <2>1 DEF Moved, PCs, InWrite, InRead
<1>5. CASE pc[p] \notin {"rblocked", "wblocked"}
  <2>1. pc' = pc
    BY <1>3, <1>5 DEF Kill
  <2> QED BY <1>1, <2>1 DEF Moved
<1> QED BY <1>4, <1>5

(* The actions that only move control: they leave the ring, the history and    *)
(* the ends' types alone.                                                      *)
LEMMA ControlTyped ==
  ASSUME Typed, NEW p \in Procs,
         UNCHANGED <<pipeVars, policy, sent, got>>, FrameType', Within',
         rfds' \subseteq Procs, wfds' \subseteq Procs, killed' \subseteq Procs,
         asked' \in Nat, reads' \in Nat
  PROVE  Typed'
<1>1. RingType' /\ Fits'
  BY RingKept DEF pipeVars
<1>2. EndsType'
  BY DEF Typed, TypeOK, EndsType, pipeVars
<1>3. HistoryType'
  BY HistoryKept
<1> QED BY <1>1, <1>2, <1>3 DEF Typed, TypeOK

(* The types are inductive.                                                    *)
LEMMA TypedNext ==
  ASSUME Typed, [Next]_vars
  PROVE  Typed'
<1>1. /\ FrameType /\ lock \in Procs \cup {NoProc}
      /\ rfds \subseteq Procs /\ wfds \subseteq Procs /\ killed \subseteq Procs
      /\ asked \in Nat /\ reads \in Nat
  BY DEF Typed, TypeOK, FrameType, EndsType, HistoryType
<1>2. ASSUME NEW p \in Procs, WriteCall(p)
      PROVE  Typed'
  <2>1. PICK c \in Counts : asked' = asked + c /\ n' = [n EXCEPT ![p] = c]
    BY <1>2 DEF WriteCall
  <2>2. asked' \in Nat
    BY <1>1, <2>1, BoundsAssumption
  <2>3. Moved(p, "writing")
    BY <1>1, <1>2, GoMoves DEF WriteCall, PCs, InWrite
  <2>4. FrameType' /\ Within'
    BY <1>2, <2>1, <2>3, CallType DEF WriteCall, PCs, InWrite
  <2> QED BY <1>1, <1>2, <2>2, <2>4, ControlTyped DEF WriteCall, fileVars
<1>3. ASSUME NEW p \in Procs, ReadCall(p)
      PROVE  Typed'
  <2>1. PICK c \in Counts : n' = [n EXCEPT ![p] = c]
    BY <1>3 DEF ReadCall
  <2>2. reads' \in Nat
    BY <1>1, <1>3 DEF ReadCall
  <2>3. Moved(p, "reading")
    BY <1>1, <1>3, GoMoves DEF ReadCall, PCs, InRead
  <2>4. FrameType' /\ Within'
    BY <1>3, <2>1, <2>3, CallType DEF ReadCall, PCs, InRead
  <2> QED BY <1>1, <1>3, <2>2, <2>4, ControlTyped DEF ReadCall, fileVars
<1>4. ASSUME NEW p \in Procs, WriteFail(p) \/ ReadFail(p)
      PROVE  Typed'
  <2>1. Return(p) /\ Moved(p, "user")
    BY <1>1, <1>4, GoMoves DEF WriteFail, ReadFail, PCs
  <2>2. FrameType' /\ Within'
    BY <2>1, ReturnType
  <2> QED BY <1>1, <1>4, <2>2, ControlTyped DEF WriteFail, ReadFail, fileVars, boundVars
<1>5. ASSUME NEW p \in Procs, WriteDone(p)
      PROVE  Typed'
  <2>1. Return(p) /\ Moved(p, "user")
    BY <1>1, <1>5, WakeupMoves DEF WriteDone, PCs
  <2>2. FrameType' /\ Within'
    BY <2>1, ReturnType
  <2> QED BY <1>1, <1>5, <2>2, ControlTyped DEF WriteDone, fileVars, boundVars
<1>6. ASSUME NEW p \in Procs, WriteWait(p)
      PROVE  Typed'
  <2>1. Moved(p, "wsleep")
    BY <1>1, <1>6, WakeupMoves DEF WriteWait, PCs, InWrite
  <2>2. FrameType' /\ Within'
    BY <1>1, <1>6, <2>1, FrameKept DEF WriteWait, PCs, InWrite
  <2> QED BY <1>1, <1>6, <2>2, ControlTyped DEF WriteWait, fileVars, boundVars
<1>7. ASSUME NEW p \in Procs, ReadWait(p)
      PROVE  Typed'
  <2>1. Moved(p, "rsleep")
    BY <1>1, <1>7, GoMoves DEF ReadWait, PCs, InRead
  <2>2. FrameType' /\ Within'
    BY <1>1, <1>7, <2>1, FrameKept DEF ReadWait, PCs, InWrite, InRead
  <2> QED BY <1>1, <1>7, <2>2, ControlTyped DEF ReadWait, fileVars, boundVars
<1>8. ASSUME NEW p \in Procs, Sleep(p) \/ SleepReturn(p)
      PROVE  Typed'
  <2>1. PICK to \in PCs : /\ Moved(p, to)
                          /\ pc[p] \in InWrite => to \in InWrite
    <3>1. ASSUME NEW to \in PCs, Go(p, to)
          PROVE  Moved(p, to)
      BY <1>1, <3>1, GoMoves
    <3> QED BY <1>8, <3>1 DEF Sleep, SleepReturn, PCs, InWrite, InRead
  <2>2. FrameType' /\ Within'
    BY <1>1, <1>8, <2>1, FrameKept DEF Sleep, SleepReturn
  <2> QED BY <1>1, <1>8, <2>2, ControlTyped DEF Sleep, SleepReturn, fileVars, boundVars
<1>9. ASSUME NEW p \in Procs, CloseWrite(p) \/ CloseRead(p)
      PROVE  Typed'
  <2>1. Moved(p, "user") /\ pc[p] = "user"
    BY <1>1, <1>9, CloseMoves
  <2>2. UNCHANGED <<lock, n, i, fresh>>
    BY <1>9 DEF CloseWrite, CloseRead
  <2>3. FrameType' /\ Within'
    BY <1>1, <2>1, <2>2, FrameKept DEF PCs, InWrite
  <2>4. UNCHANGED <<nread, nwrite, data, policy, sent, got, asked, reads>>
    BY <1>9 DEF CloseWrite, CloseRead, boundVars
  <2>5. EndsType'
    BY <1>9 DEF Typed, TypeOK, EndsType, CloseWrite, CloseRead, FreeIfLast
  <2> QED BY <1>1, <2>3, <2>4, <2>5, RingKept, HistoryKept DEF Typed, TypeOK
<1>10. ASSUME NEW p \in Procs, Kill(p)
       PROVE  Typed'
  <2>1. UNCHANGED <<lock, n, i, fresh>> /\ killed' \subseteq Procs
    BY <1>1, <1>10 DEF Kill
  <2>2. FrameType' /\ Within'
    BY <1>1, <1>10, <2>1, KillMoves, FrameKept DEF InWrite
  <2> QED BY <1>1, <1>10, <2>1, <2>2, ControlTyped DEF Kill, fileVars, boundVars
<1>11. CASE UNCHANGED vars
  BY <1>11 DEF vars, pipeVars, fileVars, boundVars, Typed, TypeOK, RingType, EndsType,
               FrameType, HistoryType, Fits, Used, Within
<1> QED
  BY <1>2, <1>3, <1>4, <1>5, <1>6, <1>7, <1>8, <1>9, <1>10, <1>11,
     WriteCopyTyped, ReadCopyTyped DEF Next, Step

(* Type correctness, for every instance: the counters stay within a uint, the  *)
(* ring holds written bytes or junk, and the histories are streams of bytes.   *)
THEOREM TypeCorrect == Spec => []TypeOK
<1>1. Init => Typed
  BY TypedInit
<1>2. Typed /\ [Next]_vars => Typed'
  BY TypedNext
<1>3. Typed => TypeOK
  BY DEF Typed
<1> QED BY <1>1, <1>2, <1>3, PTL DEF Spec

-----------------------------------------------------------------------------
(* Mutual exclusion: actions that take p->lock, keep it, and let it go.        *)

LEMMA Acquires ==
  ASSUME FrameType, NEW p \in Procs, WriteCall(p) \/ ReadCall(p) \/ SleepReturn(p)
  PROVE  /\ lock = NoProc /\ lock' = p
         /\ Moved(p, "writing") \/ Moved(p, "reading")
<1>1. "writing" \in PCs /\ "reading" \in PCs
  BY DEF PCs, InWrite, InRead
<1>2. Go(p, "writing") \/ Go(p, "reading")
  BY DEF WriteCall, ReadCall, SleepReturn
<1>3. lock = NoProc /\ lock' = p
  BY DEF WriteCall, ReadCall, SleepReturn
<1> QED BY <1>1, <1>2, <1>3, GoMoves

(* A step that moves nobody into or out of the lock keeps it.                  *)
LEMMA Keeps ==
  ASSUME FrameType, NEW p \in Procs, WriteCopy(p) \/ WriteWait(p) \/ ReadWait(p)
  PROVE  /\ lock' = lock /\ pc[p] \in Holding
         /\ Moved(p, "writing") \/ Moved(p, "wsleep") \/ Moved(p, "rsleep")
<1>1. "wsleep" \in PCs /\ "rsleep" \in PCs
  BY DEF PCs, InWrite, InRead
<1>2. lock' = lock /\ pc[p] \in Holding
  BY DEF WriteCopy, WriteWait, ReadWait, Holding
<1>3. WriteCopy(p) => Moved(p, "writing")
  <2> SUFFICES ASSUME WriteCopy(p) PROVE Moved(p, "writing")
    OBVIOUS
  <2>1. pc[p] = "writing" /\ pc' = pc /\ pc \in [Procs -> PCs]
    BY DEF WriteCopy, FrameType
  <2> QED BY <2>1 DEF Moved
<1>4. WriteWait(p) => Moved(p, "wsleep")
  BY <1>1, WakeupMoves DEF WriteWait
<1>5. ReadWait(p) => Moved(p, "rsleep")
  BY <1>1, GoMoves DEF ReadWait
<1> QED BY <1>2, <1>3, <1>4, <1>5

(* A step of the holder that gives the lock up.                                *)
LEMMA Releases ==
  ASSUME FrameType, NEW p \in Procs,
         WriteFail(p) \/ WriteDone(p) \/ ReadFail(p) \/ ReadCopy(p) \/ Sleep(p)
  PROVE  /\ lock' = NoProc /\ pc[p] \in Holding
         /\ Moved(p, "user") \/ Moved(p, "wblocked") \/ Moved(p, "rblocked")
<1>1. "user" \in PCs /\ "wblocked" \in PCs /\ "rblocked" \in PCs
  BY DEF PCs, InWrite, InRead
<1>2. CASE WriteFail(p)
  BY <1>1, <1>2, GoMoves DEF WriteFail, Return, Holding
<1>3. CASE WriteDone(p)
  BY <1>1, <1>3, WakeupMoves DEF WriteDone, Return, Holding
<1>4. CASE ReadFail(p)
  BY <1>1, <1>4, GoMoves DEF ReadFail, Return, Holding
<1>5. CASE ReadCopy(p)
  <2>1. pc[p] = "reading" /\ Return(p) /\ WakeupAndGo("wblocked", p, "user")
    BY <1>5 DEF ReadCopy
  <2> QED BY <1>1, <2>1, WakeupMoves DEF Return, Holding
<1>6. CASE Sleep(p)
  <2>1. lock' = NoProc /\ pc[p] \in Holding
    BY <1>6 DEF Sleep, Holding
  <2>2. Go(p, "wblocked") \/ Go(p, "rblocked")
    BY <1>6 DEF Sleep
  <2> QED BY <1>1, <2>1, <2>2, GoMoves
<1> QED BY <1>2, <1>3, <1>4, <1>5, <1>6

(* Nobody but the holder is in the critical section.                           *)
LEMMA OthersHolding ==
  ASSUME NEW p \in Procs, NEW to, Moved(p, to), NEW q \in Procs \ {p}
  PROVE  pc'[q] \in Holding <=> pc[q] \in Holding
  BY DEF Moved, Holding

(* Mutual exclusion is inductive.                                              *)
LEMMA LockedNext ==
  ASSUME Locked, [Next]_vars
  PROVE  Locked'
<1>1. Typed /\ FrameType /\ MutualExclusion
  BY DEF Locked, Typed, TypeOK
<1>2. Typed'
  BY <1>1, TypedNext
<1>3. ASSUME NEW p \in Procs, WriteCall(p) \/ ReadCall(p) \/ SleepReturn(p)
      PROVE  MutualExclusion'
  <2>1. PICK to \in Holding : Moved(p, to)
    BY <1>1, <1>3, Acquires DEF Holding
  <2>2. lock = NoProc /\ lock' = p
    BY <1>1, <1>3, Acquires
  <2>3. ASSUME NEW q \in Procs PROVE pc'[q] \in Holding <=> lock' = q
    <3>1. CASE q = p
      BY <2>1, <2>2, <3>1 DEF Moved
    <3>2. CASE q # p
      BY <1>1, <2>1, <2>2, <3>2, OthersHolding, ProcsAssumption DEF MutualExclusion
    <3> QED BY <3>1, <3>2
  <2> QED BY <2>3 DEF MutualExclusion
<1>4. ASSUME NEW p \in Procs, WriteCopy(p) \/ WriteWait(p) \/ ReadWait(p)
      PROVE  MutualExclusion'
  <2>1. PICK to \in Holding : Moved(p, to)
    BY <1>1, <1>4, Keeps DEF Holding
  <2>2. lock' = lock /\ pc[p] \in Holding
    BY <1>1, <1>4, Keeps
  <2>3. ASSUME NEW q \in Procs PROVE pc'[q] \in Holding <=> pc[q] \in Holding
    BY <2>1, <2>2, OthersHolding DEF Moved
  <2> QED BY <1>1, <2>2, <2>3 DEF MutualExclusion
<1>5. ASSUME NEW p \in Procs,
             WriteFail(p) \/ WriteDone(p) \/ ReadFail(p) \/ ReadCopy(p) \/ Sleep(p)
      PROVE  MutualExclusion'
  <2>1. PICK to \in {"user", "wblocked", "rblocked"} : Moved(p, to)
    BY <1>1, <1>5, Releases
  <2>2. lock' = NoProc /\ lock = p
    BY <1>1, <1>5, Releases DEF MutualExclusion
  <2>3. ASSUME NEW q \in Procs PROVE pc'[q] \notin Holding
    <3>1. CASE q = p
      BY <2>1, <3>1 DEF Moved, Holding
    <3>2. CASE q # p
      BY <1>1, <2>1, <2>2, <3>2, OthersHolding DEF MutualExclusion
    <3> QED BY <3>1, <3>2
  <2> QED BY <2>2, <2>3, ProcsAssumption DEF MutualExclusion
<1>6. ASSUME NEW p \in Procs, CloseWrite(p) \/ CloseRead(p) \/ Kill(p)
      PROVE  MutualExclusion'
  <2>1. PICK to : Moved(p, to) /\ (to \in Holding <=> pc[p] \in Holding)
    <3>1. CASE CloseWrite(p) \/ CloseRead(p)
      BY <1>1, <3>1, CloseMoves
    <3>2. CASE Kill(p)
      BY <1>1, <3>2, KillMoves DEF Holding
    <3> QED BY <1>6, <3>1, <3>2
  <2>2. lock' = lock
    BY <1>6 DEF CloseWrite, CloseRead, Kill
  <2>3. ASSUME NEW q \in Procs PROVE pc'[q] \in Holding <=> pc[q] \in Holding
    BY <2>1, OthersHolding DEF Moved
  <2> QED BY <1>1, <2>2, <2>3 DEF MutualExclusion
<1>7. CASE UNCHANGED vars
  <2>1. lock' = lock /\ pc' = pc
    BY <1>7 DEF vars
  <2> QED BY <1>1, <1>2, <2>1 DEF Locked, MutualExclusion
<1> QED
  BY <1>2, <1>3, <1>4, <1>5, <1>6, <1>7 DEF Locked, Next, Step

(* It holds at first.                                                          *)
LEMMA LockedInit ==
  ASSUME Init
  PROVE  Locked
<1>1. MutualExclusion
  <2>1. ASSUME NEW p \in Procs PROVE pc[p] = "user" /\ lock # p
    BY ProcsAssumption DEF Init
  <2> QED BY <2>1 DEF MutualExclusion, Holding
<1> QED BY <1>1, TypedInit DEF Locked

(* Whoever is between an acquire of p->lock and the next release or sleep is   *)
(* its holder, for any number of processes, sizes and block-copy policies.     *)
THEOREM MutualExclusionHolds == Spec => []MutualExclusion
<1>1. Init => Locked
  BY LockedInit
<1>2. Locked /\ [Next]_vars => Locked'
  BY LockedNext
<1>3. Locked => MutualExclusion
  BY DEF Locked
<1> QED BY <1>1, <1>2, <1>3, PTL DEF Spec

-----------------------------------------------------------------------------
(* Closing: who still holds a descriptor, and when the page is freed.          *)

(* Labels of the ends a process is in: an action that moves p does not move    *)
(* another process into or out of pipewrite or piperead.                       *)
LEMMA OthersInside ==
  ASSUME NEW p \in Procs, NEW to, Moved(p, to), NEW q \in Procs \ {p}
  PROVE  /\ pc'[q] \in InRead <=> pc[q] \in InRead
         /\ pc'[q] \in InWrite <=> pc[q] \in InWrite
  BY DEF Moved, InRead, InWrite

(* That the page is held while anybody is inside is inductive.                 *)
LEMMA HeldNext ==
  ASSUME Held, [Next]_vars
  PROVE  Held'
<1>1. Locked /\ FrameType /\ EndsType /\ Ends /\ Inside
  BY DEF Held, Locked, Typed, TypeOK
<1>2. Locked'
  BY <1>1, LockedNext
<1>3. ASSUME UNCHANGED <<readopen, writeopen, freed, rfds, wfds>>
      PROVE  Ends'
  BY <1>1, <1>3 DEF Ends
<1>4. ASSUME NEW p \in Procs, NEW to, Moved(p, to), UNCHANGED <<rfds, wfds>>,
             to \in InRead => p \in rfds, to \in InWrite => p \in wfds
      PROVE  Inside'
  <2>1. ASSUME NEW q \in Procs
        PROVE  (pc'[q] \in InRead => q \in rfds) /\ (pc'[q] \in InWrite => q \in wfds)
    <3>1. CASE q = p
      BY <1>4, <3>1 DEF Moved
    <3>2. CASE q # p
      BY <1>1, <1>4, <3>2, OthersInside DEF Inside
    <3> QED BY <3>1, <3>2
  <2> QED BY <1>4, <2>1 DEF Inside
<1>5. ASSUME NEW p \in Procs, WriteCall(p) \/ ReadCall(p)
      PROVE  Ends' /\ Inside'
  <2>1. UNCHANGED <<readopen, writeopen, freed, rfds, wfds>>
    BY <1>5 DEF WriteCall, ReadCall, pipeVars, fileVars
  <2>2. CASE WriteCall(p)
    <3>1. Moved(p, "writing") /\ p \in wfds
      BY <1>1, <2>2, GoMoves DEF WriteCall, PCs, InWrite
    <3> QED BY <1>3, <1>4, <2>1, <3>1 DEF InRead
  <2>3. CASE ReadCall(p)
    <3>1. Moved(p, "reading") /\ p \in rfds
      BY <1>1, <2>3, GoMoves DEF ReadCall, PCs, InRead
    <3> QED BY <1>3, <1>4, <2>1, <3>1 DEF InWrite
  <2> QED BY <1>5, <2>2, <2>3
<1>6. ASSUME NEW p \in Procs, Step(p) \/ Kill(p)
      PROVE  Ends' /\ Inside'
  <2>1. UNCHANGED <<readopen, writeopen, freed, rfds, wfds>>
    <3>1. CASE WriteCopy(p)
      BY <3>1 DEF WriteCopy, fileVars
    <3>2. CASE ReadCopy(p)
      BY <3>2 DEF ReadCopy, fileVars
    <3>3. CASE ~WriteCopy(p) /\ ~ReadCopy(p)
      BY <1>6, <3>3 DEF Step, WriteFail, WriteWait, WriteDone, ReadWait, ReadFail,
                        Sleep, SleepReturn, Kill, pipeVars, fileVars
    <3> QED BY <3>1, <3>2, <3>3
  <2>2. PICK to : /\ Moved(p, to)
                  /\ to \in InRead => pc[p] \in InRead
                  /\ to \in InWrite => pc[p] \in InWrite
    <3>1. CASE WriteFail(p) \/ WriteDone(p) \/ ReadFail(p) \/ ReadCopy(p)
      <4>1. Moved(p, "user")
        <5>1. pc'[p] = "user"
          BY <1>1, <3>1, GoMoves, WakeupMoves
             DEF WriteFail, WriteDone, ReadFail, ReadCopy, PCs, Moved
        <5> QED BY <1>1, <3>1, <5>1, Releases DEF Moved
      <4> QED BY <4>1 DEF InRead, InWrite
    <3>2. CASE WriteCopy(p) \/ WriteWait(p) \/ ReadWait(p)
      <4>1. PICK to \in {"writing", "wsleep", "rsleep"} : Moved(p, to)
        BY <1>1, <3>2, Keeps
      <4>2. \/ pc[p] = "writing" /\ pc'[p] \in {"writing", "wsleep"}
            \/ pc[p] = "reading" /\ pc'[p] = "rsleep"
        <5>1. CASE WriteCopy(p)
          BY <5>1 DEF WriteCopy
        <5>2. CASE WriteWait(p)
          BY <1>1, <5>2, WakeupMoves DEF WriteWait, PCs, InWrite, Moved
        <5>3. CASE ReadWait(p)
          BY <1>1, <5>3, GoMoves DEF ReadWait, PCs, InRead, Moved
        <5> QED BY <3>2, <5>1, <5>2, <5>3
      <4> QED BY <4>1, <4>2 DEF Moved, InRead, InWrite
    <3>3. CASE Sleep(p) \/ SleepReturn(p)
      BY <1>1, <3>3, GoMoves DEF Sleep, SleepReturn, PCs, InRead, InWrite
    <3>4. CASE Kill(p)
      BY <1>1, <3>4, KillMoves DEF InRead, InWrite
    <3> QED BY <1>6, <3>1, <3>2, <3>3, <3>4 DEF Step
  <2>3. (to \in InRead => p \in rfds) /\ (to \in InWrite => p \in wfds)
    BY <1>1, <2>2 DEF Inside
  <2> QED BY <1>3, <1>4, <2>1, <2>2, <2>3
<1>7. ASSUME NEW p \in Procs, CloseWrite(p) \/ CloseRead(p)
      PROVE  Ends' /\ Inside'
  <2>1. Moved(p, "user") /\ pc[p] = "user"
    BY <1>1, <1>7, CloseMoves
  <2>2. /\ rfds' \in {rfds, rfds \ {p}} /\ wfds' \in {wfds, wfds \ {p}}
        /\ rfds' = rfds \/ wfds' = wfds
    BY <1>7 DEF CloseWrite, CloseRead
  <2>3. ASSUME NEW q \in Procs
        PROVE  (pc'[q] \in InRead => q \in rfds') /\ (pc'[q] \in InWrite => q \in wfds')
    <3>1. CASE q = p
      BY <2>1, <3>1 DEF Moved, InRead, InWrite
    <3>2. CASE q # p
      BY <1>1, <2>1, <2>2, <3>2, OthersInside DEF Inside
    <3> QED BY <3>1, <3>2
  <2>4. Ends'
    BY <1>1, <1>7 DEF Ends, EndsType, CloseWrite, CloseRead, FreeIfLast
  <2> QED BY <2>3, <2>4 DEF Inside
<1>8. ASSUME UNCHANGED vars
      PROVE  Ends' /\ Inside'
  <2>1. UNCHANGED <<readopen, writeopen, freed, rfds, wfds, pc>>
    BY <1>8 DEF vars, pipeVars, fileVars
  <2> QED BY <1>1, <2>1 DEF Ends, Inside
<1> QED
  BY <1>2, <1>5, <1>6, <1>7, <1>8 DEF Held, Next

(* It holds at first.                                                          *)
LEMMA HeldInit ==
  ASSUME Init
  PROVE  Held
<1>1. Ends
  BY ProcsAssumption DEF Init, Ends
<1>2. Inside
  <2>1. ASSUME NEW p \in Procs PROVE pc[p] = "user"
    BY DEF Init
  <2> QED BY <2>1 DEF Inside, InRead, InWrite
<1> QED BY <1>1, <1>2, LockedInit DEF Held

(* The page of a pipe is freed only when nobody is inside pipewrite or         *)
(* piperead and nobody can get there any more: no sleeper wakes up in freed    *)
(* memory, whatever the order of closes, kills and calls.                      *)
THEOREM NoUseAfterFreeHolds == Spec => []NoUseAfterFree
<1>1. Init => Held
  BY HeldInit
<1>2. Held /\ [Next]_vars => Held'
  BY HeldNext
<1>3. Held => NoUseAfterFree
  <2> SUFFICES ASSUME Held, freed, NEW p \in Procs
               PROVE  pc[p] = "user" /\ p \notin rfds \cup wfds
    BY DEF NoUseAfterFree
  <2>1. rfds = {} /\ wfds = {}
    BY DEF Held, Ends
  <2>2. pc[p] \in PCs
    BY DEF Held, Locked, Typed, TypeOK, FrameType
  <2> QED BY <2>1, <2>2 DEF Held, Inside, PCs
<1> QED BY <1>1, <1>2, <1>3, PTL DEF Spec

-----------------------------------------------------------------------------
(* Sleeping and waking, when no writer is killed.                              *)

(* A step that leaves the counters and the flags alone, and does not take a    *)
(* writer out of its loop, cannot make a sleeper wrong to sleep.               *)
LEMMA WaitingKept ==
  ASSUME Waiting, NEW p \in Procs, NEW to, Moved(p, to),
         UNCHANGED <<nread, nwrite, readopen, writeopen>>,
         pc[p] = "writing" => to = "writing",
         to \in {"rsleep", "rblocked"} => Empty /\ writeopen,
         to \in {"wsleep", "wblocked"} => Full /\ readopen
  PROVE  Waiting'
<1>1. (Empty' <=> Empty) /\ (Full' <=> Full)
  BY DEF Empty, Full
<1>2. ASSUME NEW q \in Procs
      PROVE  /\ pc'[q] = "rsleep" => Empty /\ writeopen
             /\ pc'[q] = "wsleep" => Full /\ readopen
             /\ pc'[q] = "wblocked" => Full /\ readopen
  BY DEF Waiting, Moved
<1>3. ASSUME NEW q \in Procs, pc'[q] = "rblocked"
      PROVE  (Empty /\ writeopen) \/ \E r \in Procs : pc'[r] = "writing"
  <2>1. CASE q = p
    BY <1>3, <2>1 DEF Moved
  <2>2. CASE q # p
    <3>1. pc[q] = "rblocked"
      BY <1>3, <2>2 DEF Moved
    <3>2. CASE \E r \in Procs : pc[r] = "writing"
      BY <3>2 DEF Moved
    <3> QED BY <3>1, <3>2 DEF Waiting
  <2> QED BY <2>1, <2>2
<1> QED BY <1>1, <1>2, <1>3 DEF Waiting

(* Two processes in the critical section are one.                              *)
LEMMA OneHolder ==
  ASSUME MutualExclusion, NEW p \in Procs, NEW q \in Procs,
         pc[p] \in Holding, pc[q] \in Holding
  PROVE  p = q
  BY DEF MutualExclusion

(* A writer leaves its loop only after it has woken the readers, or for good.  *)
LEMMA WriterWaiting ==
  ASSUME Awake, NEW p \in Procs,
         WriteCopy(p) \/ WriteWait(p) \/ WriteDone(p) \/ WriteFail(p)
  PROVE  Waiting'
<1>1. /\ FrameType /\ EndsType /\ MutualExclusion /\ Ends /\ Inside /\ WritersLive /\ Waiting
      /\ pc[p] = "writing"
  BY DEF Awake, Held, Locked, Typed, TypeOK, WriteCopy, WriteWait, WriteDone, WriteFail
<1>2. \A q \in Procs \ {p} : pc[q] \notin Holding
  BY <1>1, OneHolder DEF Holding
<1>3. CASE WriteCopy(p)
  <2>1. pc' = pc /\ ~Full
    BY <1>3 DEF WriteCopy
  <2>2. \A q \in Procs : pc[q] \notin {"rsleep", "wsleep", "wblocked"}
    BY <1>1, <1>2, <2>1 DEF Waiting, Holding
  <2> QED BY <1>1, <2>1, <2>2 DEF Waiting
<1>4. CASE WriteWait(p) \/ WriteDone(p)
  <2>1. PICK to \in {"wsleep", "user"} :
          WakeupAndGo("rblocked", p, to) /\ (to = "wsleep" => Full /\ readopen)
    BY <1>4 DEF WriteWait, WriteDone
  <2>2. Moved(p, to) /\ \A q \in Procs \ {p} : pc'[q] # "rblocked"
    BY <1>1, <2>1, WakeupMoves DEF PCs, InWrite
  <2>3. UNCHANGED <<nread, nwrite, readopen, writeopen>>
    BY <1>4 DEF WriteWait, WriteDone, pipeVars
  <2>4. (Empty' <=> Empty) /\ (Full' <=> Full)
    BY <2>3 DEF Empty, Full
  <2>5. ASSUME NEW q \in Procs
        PROVE  /\ pc'[q] \notin {"rsleep", "rblocked"}
               /\ pc'[q] \in {"wsleep", "wblocked"} => Full /\ readopen
    <3>1. CASE q = p
      BY <2>1, <2>2, <3>1 DEF Moved
    <3>2. CASE q # p
      BY <1>1, <1>2, <2>2, <3>2 DEF Moved, Waiting, Holding
    <3> QED BY <3>1, <3>2
  <2> QED BY <2>3, <2>4, <2>5 DEF Waiting
<1>5. CASE WriteFail(p)
  <2>1. p \notin killed
    BY <1>1 DEF Inside, InWrite, WritersLive
  <2>2. ~readopen /\ Moved(p, "user") /\ UNCHANGED <<nread, nwrite, readopen, writeopen>>
    BY <1>1, <1>5, <2>1, GoMoves DEF WriteFail, PCs, pipeVars
  <2>3. ASSUME NEW q \in Procs
        PROVE  pc'[q] \notin {"rsleep", "wsleep", "rblocked", "wblocked"}
    <3>1. pc[q] \notin InRead
      BY <1>1, <2>2 DEF Ends, Inside
    <3>2. pc[q] \notin {"wsleep", "wblocked"}
      BY <1>1, <2>2 DEF Waiting
    <3> QED BY <2>2, <3>1, <3>2 DEF Moved, InRead
  <2> QED BY <2>3 DEF Waiting
<1> QED BY <1>3, <1>4, <1>5

(* A reader moves bytes only when no reader may be asleep, and then wakes      *)
(* every writer.                                                               *)
LEMMA ReaderWaiting ==
  ASSUME Awake, NEW p \in Procs, ReadCopy(p)
  PROVE  Waiting'
<1>1. FrameType /\ MutualExclusion /\ Waiting /\ pc[p] = "reading" /\ ~(Empty /\ writeopen)
  BY DEF Awake, Held, Locked, Typed, TypeOK, ReadCopy
<1>2. \A q \in Procs \ {p} : pc[q] \notin Holding
  BY <1>1, OneHolder DEF Holding
<1>3. WakeupAndGo("wblocked", p, "user")
  BY DEF ReadCopy
<1>4. Moved(p, "user") /\ \A q \in Procs \ {p} : pc'[q] # "wblocked"
  BY <1>1, <1>3, WakeupMoves DEF PCs
<1>5. ASSUME NEW q \in Procs
      PROVE  pc[q] # "rblocked"
  BY <1>1, <1>2 DEF Waiting, Holding
<1>6. ASSUME NEW q \in Procs
      PROVE  pc'[q] \notin {"rsleep", "wsleep", "rblocked", "wblocked"}
  <2>1. CASE q = p
    BY <1>4, <2>1 DEF Moved
  <2>2. CASE q # p
    BY <1>2, <1>4, <1>5, <2>2 DEF Moved, Holding
  <2> QED BY <2>1, <2>2
<1> QED BY <1>6 DEF Waiting

(* The last close of an end wakes all who wait for that end.                   *)
LEMMA CloseWaiting ==
  ASSUME Awake, NEW p \in Procs, CloseWrite(p) \/ CloseRead(p)
  PROVE  Waiting'
<1>1. FrameType /\ MutualExclusion /\ Waiting /\ Ends /\ Inside
  BY DEF Awake, Held, Locked, Typed, TypeOK
<1>2. Moved(p, "user") /\ pc[p] = "user" /\ UNCHANGED <<nread, nwrite>>
  BY <1>1, CloseMoves DEF CloseWrite, CloseRead
<1>3. (Empty' <=> Empty) /\ (Full' <=> Full)
  BY <1>2 DEF Empty, Full
<1>4. CASE UNCHANGED <<readopen, writeopen>>
  BY <1>1, <1>2, <1>4, WaitingKept
<1>5. CASE CloseWrite(p) /\ writeopen' # writeopen
  <2>1. /\ lock = NoProc /\ WakeupAndGo("rblocked", p, "user")
        /\ readopen' = readopen
    BY <1>5 DEF CloseWrite
  <2>2. \A q \in Procs \ {p} : pc'[q] # "rblocked"
    BY <1>1, <2>1, WakeupMoves DEF PCs
  <2>3. ASSUME NEW q \in Procs
        PROVE  /\ pc'[q] \notin {"rsleep", "wsleep", "rblocked"}
               /\ pc'[q] = "wblocked" => Full /\ readopen
    <3>1. pc[q] \notin Holding
      BY <1>1, <2>1, ProcsAssumption DEF MutualExclusion
    <3> QED BY <1>1, <1>2, <2>2, <3>1 DEF Moved, Waiting, Holding
  <2> QED BY <1>3, <2>1, <2>3 DEF Waiting
<1>6. CASE CloseRead(p) /\ readopen' # readopen
  <2>1. /\ lock = NoProc /\ WakeupAndGo("wblocked", p, "user")
        /\ writeopen' = writeopen
    BY <1>6 DEF CloseRead
  <2>2. \A q \in Procs \ {p} : pc'[q] # "wblocked"
    BY <1>1, <2>1, WakeupMoves DEF PCs
  <2>3. ASSUME NEW q \in Procs
        PROVE  /\ pc'[q] \notin {"rsleep", "wsleep", "wblocked"}
               /\ pc'[q] = "rblocked" => Empty /\ writeopen
    <3>1. \A r \in Procs : pc[r] \notin Holding
      BY <1>1, <2>1, ProcsAssumption DEF MutualExclusion
    <3> QED BY <1>1, <1>2, <2>2, <3>1 DEF Moved, Waiting, Holding
  <2> QED BY <1>3, <2>1, <2>3 DEF Waiting
<1>7. UNCHANGED readopen \/ UNCHANGED writeopen
  BY DEF CloseWrite, CloseRead
<1>8. CloseWrite(p) => readopen' = readopen
  BY DEF CloseWrite
<1>9. CloseRead(p) => writeopen' = writeopen
  BY DEF CloseRead
<1> QED BY <1>4, <1>5, <1>6, <1>8, <1>9

(* That sleepers have nothing to do is inductive.                              *)
LEMMA AwakeNext ==
  ASSUME Awake, [Next]_vars
  PROVE  Awake'
<1>1. Held /\ FrameType /\ MutualExclusion /\ Waiting /\ WritersLive
  BY DEF Awake, Held, Locked, Typed, TypeOK
<1>2. Held'
  BY <1>1, HeldNext
<1>3. WritersLive'
  <2>1. wfds' \subseteq wfds
    <3>1. CASE \E p \in Procs : WriteCopy(p)
      BY <3>1 DEF WriteCopy, fileVars
    <3>2. CASE \E p \in Procs : ReadCopy(p)
      BY <3>2 DEF ReadCopy, fileVars
    <3>3. CASE UNCHANGED vars
      BY <3>3 DEF vars, fileVars
    <3> QED BY <3>1, <3>2, <3>3
            DEF Next, Step, WriteCall, ReadCall, WriteFail, WriteWait, WriteDone, ReadWait,
                ReadFail, Sleep, SleepReturn, CloseWrite, CloseRead, Kill, fileVars
  <2>2. killed' \subseteq Killable
    <3>1. CASE \E p \in Procs : WriteCopy(p)
      BY <1>1, <3>1 DEF WriteCopy, WritersLive
    <3>2. CASE \E p \in Procs : ReadCopy(p)
      BY <1>1, <3>2 DEF ReadCopy, WritersLive
    <3>3. CASE UNCHANGED vars
      BY <1>1, <3>3 DEF vars, WritersLive
    <3> QED BY <1>1, <3>1, <3>2, <3>3
            DEF WritersLive, Next, Step, WriteCall, ReadCall, WriteFail, WriteWait,
                WriteDone, ReadWait, ReadFail, Sleep, SleepReturn, CloseWrite, CloseRead,
                Kill
  <2> QED BY <1>1, <2>1, <2>2 DEF WritersLive
<1>4. ASSUME NEW p \in Procs, WriteCall(p) \/ ReadCall(p) \/ SleepReturn(p)
      PROVE  Waiting'
  <2>1. PICK to \in {"writing", "reading"} : Moved(p, to)
    BY <1>1, <1>4, Acquires
  <2>2. pc[p] # "writing" /\ UNCHANGED <<nread, nwrite, readopen, writeopen>>
    BY <1>4 DEF WriteCall, ReadCall, SleepReturn, pipeVars
  <2> QED BY <1>1, <2>1, <2>2, WaitingKept
<1>5. ASSUME NEW p \in Procs, ReadWait(p) \/ ReadFail(p)
      PROVE  Waiting'
  <2>1. PICK to \in {"rsleep", "user"} :
          Moved(p, to) /\ (to = "rsleep" => Empty /\ writeopen)
    BY <1>1, <1>5, GoMoves DEF ReadWait, ReadFail, PCs, InRead
  <2>2. pc[p] # "writing" /\ UNCHANGED <<nread, nwrite, readopen, writeopen>>
    BY <1>5 DEF ReadWait, ReadFail, pipeVars
  <2> QED BY <1>1, <2>1, <2>2, WaitingKept
<1>6. ASSUME NEW p \in Procs, Sleep(p)
      PROVE  Waiting'
  <2>1. PICK to \in {"wblocked", "rblocked"} :
          /\ Moved(p, to)
          /\ to = "rblocked" => Empty /\ writeopen
          /\ to = "wblocked" => Full /\ readopen
    BY <1>1, <1>6, GoMoves DEF Sleep, PCs, InRead, InWrite, Waiting
  <2>2. pc[p] # "writing" /\ UNCHANGED <<nread, nwrite, readopen, writeopen>>
    BY <1>6 DEF Sleep, pipeVars
  <2> QED BY <1>1, <2>1, <2>2, WaitingKept
<1>7. ASSUME NEW p \in Procs, Kill(p)
      PROVE  Waiting'
  <2>1. Moved(p, pc'[p]) /\ UNCHANGED <<nread, nwrite, readopen, writeopen>>
    BY <1>1, <1>7, KillMoves DEF Kill, pipeVars
  <2>2. pc'[p] \notin {"rblocked", "wblocked"}
    <3>1. DOMAIN Runnable = {"rblocked", "wblocked"}
      BY DEF Runnable
    <3>2. CASE pc[p] \in {"rblocked", "wblocked"}
      BY <1>1, <1>7, <3>1, <3>2 DEF Kill, Go, FrameType, Runnable
    <3>3. CASE pc[p] \notin {"rblocked", "wblocked"}
      BY <1>1, <1>7, <3>3, KillMoves
    <3> QED BY <3>2, <3>3
  <2>3. /\ pc[p] = "writing" => pc'[p] = "writing"
        /\ pc'[p] \in {"rsleep", "wsleep"} => pc'[p] = pc[p]
    BY <1>1, <1>7, KillMoves
  <2> QED BY <1>1, <2>1, <2>2, <2>3, WaitingKept DEF Waiting
<1>8. ASSUME UNCHANGED vars
      PROVE  Waiting'
  <2>1. UNCHANGED <<pc, nread, nwrite, readopen, writeopen>>
    BY <1>8 DEF vars, pipeVars
  <2> QED BY <1>1, <2>1 DEF Waiting, Empty, Full
<1> QED
  BY <1>2, <1>3, <1>4, <1>5, <1>6, <1>7, <1>8, WriterWaiting, ReaderWaiting, CloseWaiting
  DEF Awake, Next, Step

(* As long as no writer can be killed, nobody sleeps on a pipe that has work   *)
(* for him: the wakeup that pipewrite leaves for later always comes, and no    *)
(* wakeup falls between a test and the sleep that follows it. The run with a   *)
(* killable writer shows that the hypothesis is needed.                        *)
THEOREM NoLostWakeupHolds ==
  ASSUME Killable \cap WriteHolders = {}
  PROVE  Spec => []NoLostWakeup
<1>1. Init => Awake
  <2> SUFFICES ASSUME Init PROVE Awake
    OBVIOUS
  <2>1. WritersLive
    BY DEF Init, WritersLive
  <2>2. Waiting
    <3>1. ASSUME NEW p \in Procs PROVE pc[p] = "user"
      BY DEF Init
    <3> QED BY <3>1 DEF Waiting
  <2> QED BY <2>1, <2>2, HeldInit DEF Awake
<1>2. Awake /\ [Next]_vars => Awake'
  BY AwakeNext
<1>3. Awake => NoLostWakeup
  <2> SUFFICES ASSUME Awake, lock = NoProc, NEW p \in Procs
               PROVE  /\ pc[p] = "rblocked" => Empty /\ writeopen
                      /\ pc[p] = "wblocked" => Full /\ readopen
    BY DEF NoLostWakeup
  <2>1. \A q \in Procs : pc[q] # "writing"
    BY ProcsAssumption DEF Awake, Held, Locked, MutualExclusion, Holding
  <2> QED BY <2>1 DEF Awake, Waiting
<1> QED BY <1>1, <1>2, <1>3, PTL DEF Spec
-----------------------------------------------------------------------------
(* The bytes: what is in the ring, where the ring size divides the counters'   *)
(* range.                                                                      *)

(* Equal remainders and quotients: x is determined by both.                    *)
LEMMA ModUnique ==
  ASSUME NEW m \in Nat \ {0}, NEW q \in Int, NEW r \in 0 .. m - 1
  PROVE  (m * q + r) % m = r
<1> DEFINE x == m * q + r
           d == x \div m
           s == x % m
<1>1. x \in Int /\ d \in Int /\ s \in 0 .. m - 1 /\ x = m * d + s
  BY SMTT(20)
<1>2. m * (q - d) = s - r
  BY <1>1, SMTT(20)
<1>3. \A e \in Int : e >= 1 => m * e >= m
  BY SMTT(20)
<1>4. \A e \in Int : e <= -1 => m * e <= -m
  BY SMTT(20)
<1> HIDE DEF x, d, s
<1>5. q - d = 0
  BY <1>1, <1>2, <1>3, <1>4
<1>6. m * 0 = 0
  OBVIOUS
<1>7. s - r = 0
  BY <1>1, <1>2, <1>5, <1>6
<1> QED BY <1>1, <1>7 DEF s, x

(* Whole turns of the ring do not change an index.                             *)
LEMMA ModTurns ==
  ASSUME NEW m \in Nat \ {0}, NEW x \in Int, NEW t \in Int
  PROVE  (x + m * t) % m = x % m
<1> DEFINE d == x \div m
           s == x % m
<1>1. d \in Int /\ s \in 0 .. m - 1 /\ x = m * d + s
  BY SMTT(20)
<1>2. x + m * t = m * (d + t) + s
  BY <1>1, SMTT(20)
<1>3. d + t \in Int
  BY <1>1
<1> HIDE DEF d, s
<1>4. (m * (d + t) + s) % m = s
  BY <1>1, <1>3, ModUnique
<1> QED BY <1>2, <1>4 DEF s

(* A remainder may be taken before adding, ...                                 *)
LEMMA ModPlus ==
  ASSUME NEW m \in Nat \ {0}, NEW x \in Int, NEW y \in Int
  PROVE  ((x % m) + y) % m = (x + y) % m
<1> DEFINE d == x \div m
           s == x % m
<1>1. d \in Int /\ s \in 0 .. m - 1 /\ x = m * d + s
  BY SMTT(20)
<1> HIDE DEF d, s
<1>2. x + y = (s + y) + m * d
  BY <1>1, SMTT(20)
<1>3. ((s + y) + m * d) % m = (s + y) % m
  <2>1. s + y \in Int
    BY <1>1
  <2> QED BY <1>1, <2>1, ModTurns
<1> QED BY <1>2, <1>3 DEF s

(* ... or before subtracting.                                                  *)
LEMMA ModMinus ==
  ASSUME NEW m \in Nat \ {0}, NEW x \in Int, NEW y \in Int
  PROVE  ((x % m) - (y % m)) % m = (x - y) % m
<1> DEFINE d == y \div m
           s == y % m
<1>1. d \in Int /\ s \in 0 .. m - 1 /\ y = m * d + s
  BY SMTT(20)
<1>2. (x % m) \in Int
  BY ModRange
<1> HIDE DEF d, s
<1>3. ((x % m) - s) % m = (x - s) % m
  <2>1. -s \in Int /\ (x % m) - s = (x % m) + (-s) /\ x - s = x + (-s)
    BY <1>1, <1>2
  <2> QED BY <2>1, ModPlus
<1>4. x - y = (x - s) + m * (-d)
  BY <1>1, SMTT(20)
<1>5. ((x - s) + m * (-d)) % m = (x - s) % m
  <2>1. x - s \in Int /\ -d \in Int
    BY <1>1
  <2> QED BY <2>1, ModTurns
<1> QED BY <1>3, <1>4, <1>5 DEF s

(* An index does not notice that a counter wraps, if the ring size divides the *)
(* counter's range.                                                            *)
LEMMA WrapUnseen ==
  ASSUME NEW m \in Nat \ {0}, NEW u \in Nat \ {0}, u % m = 0, NEW x \in Int, NEW y \in Int
  PROVE  ((x % u) + y) % m = (x + y) % m
<1> DEFINE t == u \div m
           d == x \div u
           s == x % u
<1>1. t \in Int /\ u = m * t
  BY SMTT(20)
<1>2. d \in Int /\ s \in 0 .. u - 1 /\ x = u * d + s
  BY SMTT(20)
<1> HIDE DEF t, d, s
<1>3. u * d = m * (t * d) /\ t * d \in Int
  BY <1>1, <1>2, SMTT(20)
<1>4. x + y = (s + y) + m * (t * d) /\ s + y \in Int
  BY <1>2, <1>3
<1> QED BY <1>3, <1>4, ModTurns DEF s

(* The k-th cell from where a counter points, ...                              *)
LEMMA CellAt ==
  ASSUME NEW m \in Nat \ {0}, NEW x \in Int, NEW k \in Int
  PROVE  ((x % m) + k - 1) % m = (x + k - 1) % m
<1>1. ((x % m) + (k - 1)) % m = (x + (k - 1)) % m
  <2>1. k - 1 \in Int
    OBVIOUS
  <2> QED BY <2>1, ModPlus
<1>2. (x % m) + k - 1 = (x % m) + (k - 1) /\ x + k - 1 = x + (k - 1)
  BY ModRange
<1> QED BY <1>1, <1>2

(* ... also if the counter may have wrapped.                                   *)
LEMMA CellWrapped ==
  ASSUME NEW m \in Nat \ {0}, NEW u \in Nat \ {0}, u % m = 0, NEW x \in Int, NEW k \in Int
  PROVE  (((x % u) % m) + k - 1) % m = (x + k - 1) % m
<1> DEFINE w == x % u
<1>1. w \in Int
  BY ModRange
<1>2. (w + (k - 1)) % m = (x + (k - 1)) % m
  <2>1. k - 1 \in Int
    OBVIOUS
  <2> QED BY <2>1, WrapUnseen
<1> HIDE DEF w
<1>3. ((w % m) + k - 1) % m = (w + k - 1) % m
  BY <1>1, CellAt
<1>4. w + k - 1 = w + (k - 1) /\ x + k - 1 = x + (k - 1)
  BY <1>1
<1> QED BY <1>2, <1>3, <1>4 DEF w

(* A prefix of a sequence.                                                     *)
LEMMA Prefix ==
  ASSUME NEW S, NEW s \in Seq(S), NEW m \in 0 .. Len(s)
  PROVE  /\ SubSeq(s, 1, m) \in Seq(S) /\ Len(SubSeq(s, 1, m)) = m
         /\ \A k \in 1 .. m : SubSeq(s, 1, m)[k] = s[k]
<1> DEFINE pre == SubSeq(s, 1, m)
<1>1. Len(s) \in Nat /\ \A k \in 1 .. Len(s) : s[k] \in S
  BY LenProperties, ElementOfSeq
<1>2. m \in Nat /\ \A k \in 1 .. m : s[k] \in S
  BY <1>1
<1>3. /\ pre \in Seq(S) /\ Len(pre) = IF 1 <= m THEN m - 1 + 1 ELSE 0
      /\ \A k \in 1 .. m - 1 + 1 : pre[k] = s[1 + k - 1]
  BY <1>2, SubSeqProperties
<1> HIDE DEF pre
<1>4. m - 1 + 1 = m /\ \A k \in 1 .. m : 1 + k - 1 = k
  BY <1>2
<1>5. pre \in Seq(S) /\ Len(pre) = m /\ \A k \in 1 .. m : pre[k] = s[k]
  BY <1>2, <1>3, <1>4
<1> QED BY <1>5 DEF pre
(* The ring size divides the range of the counters, as a power of two does.    *)
Divides == UintMod % PIPESIZE = 0

(* What was read is a prefix of what was written, and the rest is in the ring, *)
(* from nread on, round the end.                                               *)
Carries ==
  /\ Len(sent) = Len(got) + Used
  /\ \A k \in 1 .. Len(got) : got[k] = sent[k]
  /\ \A k \in 0 .. Used - 1 : data[(nread + k) % PIPESIZE] = sent[Len(got) + k + 1]

(* The k-th cell from nread on lies k - Used beyond nwrite.                    *)
LEMMA CellOffset ==
  ASSUME RingType, Fits, Divides, NEW k \in 0 .. PIPESIZE - 1
  PROVE  (((nread + k) % PIPESIZE) - (nwrite % PIPESIZE)) % PIPESIZE
           = IF k < Used THEN k - Used + PIPESIZE ELSE k - Used
<1>1. /\ nread \in 0 .. UintMod - 1 /\ nwrite \in 0 .. UintMod - 1
      /\ UintMod \in Nat \ {0} /\ PIPESIZE \in Nat \ {0} /\ Used \in 0 .. PIPESIZE
      /\ k \in Int /\ UintMod % PIPESIZE = 0
  BY UsedIs, SizeAssumption DEF RingType, Fits, Divides
<1>2. Used = IF nwrite >= nread THEN nwrite - nread ELSE nwrite - nread + UintMod
  BY UsedIs
<1>3. (((nread + k) % PIPESIZE) - (nwrite % PIPESIZE)) % PIPESIZE = ((nread + k) - nwrite) % PIPESIZE
  <2>1. nread + k \in Int /\ nwrite \in Int
    BY <1>1
  <2> QED BY <1>1, <2>1, ModMinus
<1>4. ((nread + k) - nwrite) % PIPESIZE = (k - Used) % PIPESIZE
  <2>1. CASE nwrite >= nread
    BY <1>1, <1>2, <2>1
  <2>2. CASE nwrite < nread
    <3> DEFINE t == UintMod \div PIPESIZE
    <3>1. t \in Int /\ UintMod = PIPESIZE * t
      BY <1>1, SMTT(20)
    <3> HIDE DEF t
    <3>2. (nread + k) - nwrite = (k - Used) + PIPESIZE * t /\ k - Used \in Int
      BY <1>1, <1>2, <2>2, <3>1
    <3> QED BY <1>1, <3>1, <3>2, ModTurns
  <2> QED BY <1>1, <2>1, <2>2
<1>5. CASE k < Used
  <2>1. k - Used \in -PIPESIZE .. -1
    BY <1>1, <1>5
  <2> QED BY <1>1, <1>3, <1>4, <1>5, <2>1, ModUnder
<1>6. CASE k >= Used
  <2>1. k - Used \in 0 .. PIPESIZE - 1
    BY <1>1, <1>6
  <2> QED BY <1>1, <1>3, <1>4, <1>6, <2>1, ModBelow
<1> QED BY <1>1, <1>5, <1>6

(* The bytes of the next block of a write.                                     *)
LEMMA UserBytesAre ==
  ASSUME FrameType, NEW p \in Procs, NEW c \in Nat
  PROVE  /\ UserBytes(p, c) \in Seq(Byte) /\ Len(UserBytes(p, c)) = c
         /\ \A k \in 1 .. c : UserBytes(p, c)[k] = <<p, fresh[p] + i[p] + k>>
<1>1. fresh[p] \in Nat /\ i[p] \in Nat
  BY DEF FrameType
<1>2. UserBytes(p, c) \in [1 .. c -> Byte]
  BY <1>1 DEF UserBytes, Byte
<1>3. \A k \in 1 .. c : UserBytes(p, c)[k] = <<p, fresh[p] + i[p] + k>>
  BY DEF UserBytes
<1> QED BY <1>2, <1>3, Block

(* A write puts its block behind the unread bytes and leaves them alone.       *)
LEMMA WriteCarries ==
  ASSUME Typed, Divides, Carries, NEW p \in Procs, WriteCopy(p)
  PROVE  /\ Carries'
         /\ \E b \in Seq(Byte) : Len(b) \in 1 .. PIPESIZE - Used /\ sent' = sent \o b
<1> DEFINE c == WriteCount(p)
           bytes == UserBytes(p, c)
<1>1. /\ pc[p] = "writing" /\ i[p] < n[p] /\ ~Full
      /\ data' = CopyIn(nwrite % PIPESIZE, bytes)
      /\ nwrite' = (nwrite + c) % UintMod
      /\ sent' = sent \o bytes
      /\ got' = got /\ nread' = nread
  BY DEF WriteCopy
<1>2. RingType /\ Fits /\ FrameType /\ sent \in Seq(Byte) /\ got \in Seq(Byte \cup {Junk})
  BY DEF Typed, TypeOK, HistoryType
<1>3. c \in Nat \ {0} /\ c + Used <= PIPESIZE
  BY <1>1, WriteCountBounds
<1>4. bytes \in Seq(Byte) /\ Len(bytes) = c
  BY <1>2, <1>3, UserBytesAre
<1> HIDE DEF c, bytes
<1>5. /\ Used \in Nat /\ PIPESIZE \in Nat \ {0} /\ Len(sent) \in Nat /\ Len(got) \in Nat
  BY <1>2, UsedIs, SizeAssumption, LenProperties
<1>6. Used' = Used + c
  <2>1. /\ nread \in 0 .. UintMod - 1 /\ nwrite \in 0 .. UintMod - 1
        /\ UintMod \in Nat \ {0} /\ ((nwrite - nread) % UintMod) + c < UintMod
    BY <1>2, <1>3, UsedIs, SizeAssumption DEF RingType, Used
  <2>2. (((nwrite + c) % UintMod) - nread) % UintMod = ((nwrite - nread) % UintMod) + c
    BY <1>3, <2>1, FrontAdvances
  <2> QED BY <1>1, <2>2 DEF Used
<1>7. /\ Len(sent') = Len(sent) + c
      /\ \A j \in 1 .. Len(sent) + c : sent'[j] = IF j <= Len(sent) THEN sent[j]
                                                 ELSE bytes[j - Len(sent)]
  BY <1>1, <1>2, <1>4, ConcatProperties
<1>8. Len(sent') = Len(got') + Used'
  BY <1>1, <1>3, <1>5, <1>6, <1>7 DEF Carries
<1>9. \A k \in 1 .. Len(got') : got'[k] = sent'[k]
  BY <1>1, <1>3, <1>5, <1>7 DEF Carries
<1>10. ASSUME NEW k \in 0 .. Used' - 1
       PROVE  data'[(nread' + k) % PIPESIZE] = sent'[Len(got') + k + 1]
  <2> DEFINE s == (nread + k) % PIPESIZE
             o == (s - (nwrite % PIPESIZE)) % PIPESIZE
  <2>1. k \in 0 .. PIPESIZE - 1 /\ k < Used + c
    BY <1>3, <1>5, <1>6
  <2>2. o = IF k < Used THEN k - Used + PIPESIZE ELSE k - Used
    BY <1>2, <2>1, CellOffset
  <2>3. s \in Slots
    BY <1>2, <1>5, <2>1, ModRange DEF RingType, Slots
  <2>4. data'[s] = IF o < c THEN bytes[o + 1] ELSE data[s]
    BY <1>1, <1>4, <2>3 DEF CopyIn
  <2>5. nread' = nread /\ Len(got') = Len(got) /\ Len(sent) = Len(got) + Used
    BY <1>1 DEF Carries
  <2>6. CASE k < Used
    <3>1. ~(o < c)
      BY <1>3, <1>5, <2>1, <2>2, <2>6
    <3>2. data[s] = sent[Len(got) + k + 1]
      BY <1>5, <2>1, <2>6 DEF Carries
    <3>3. sent'[Len(got) + k + 1] = sent[Len(got) + k + 1]
      BY <1>3, <1>5, <1>7, <2>1, <2>5, <2>6
    <3> QED BY <2>4, <2>5, <3>1, <3>2, <3>3
  <2>7. CASE k >= Used
    <3>1. o < c /\ o + 1 = k - Used + 1
      BY <1>3, <1>5, <2>1, <2>2, <2>7
    <3>2. sent'[Len(got) + k + 1] = bytes[Len(got) + k + 1 - Len(sent)]
      <4>1. /\ Len(got) + k + 1 \in 1 .. Len(sent) + c
            /\ ~(Len(got) + k + 1 <= Len(sent))
        BY <1>3, <1>5, <2>1, <2>5, <2>7
      <4> QED BY <1>7, <4>1
    <3>3. Len(got) + k + 1 - Len(sent) = k - Used + 1
      BY <1>5, <2>1, <2>5
    <3> QED BY <2>4, <2>5, <3>1, <3>2, <3>3
  <2> QED BY <1>5, <2>1, <2>6, <2>7
<1>11. Len(bytes) \in 1 .. PIPESIZE - Used
  BY <1>3, <1>4, <1>5
<1> QED BY <1>1, <1>4, <1>8, <1>9, <1>10, <1>11 DEF Carries

(* Every policy reads the cells from nread on, and some of them if there are   *)
(* any and any were asked for.                                                 *)
LEMMA ReadBytesAre ==
  ASSUME Typed, Divides, NEW p \in Procs
  PROVE  /\ \A k \in 1 .. Len(ReadBytes(p)) : ReadBytes(p)[k] = data[(nread + k - 1) % PIPESIZE]
         /\ Used > 0 /\ n[p] > 0 => Len(ReadBytes(p)) > 0
<1> DEFINE nr == FirstSegment(p)
           more == SecondSegment(p)
           whole == Least(Used, n[p])
           there == ((nread + nr) % UintMod) % PIPESIZE
           at == nread % PIPESIZE
<1>1. /\ RingType /\ Used \in Nat /\ n[p] \in Nat /\ nread \in Nat
      /\ PIPESIZE \in Nat \ {0} /\ UintMod \in Nat \ {0} /\ UintMod % PIPESIZE = 0
  BY UsedIs, SizeAssumption DEF Typed, TypeOK, RingType, FrameType, Divides
<1>2. at \in 0 .. PIPESIZE - 1
  BY <1>1, ModRange
<1>3. /\ nr \in Nat /\ more \in Nat /\ whole \in Nat
      /\ Used > 0 /\ n[p] > 0 => nr > 0 /\ whole > 0
  <2>1. nr \in Nat /\ more \in Nat
    BY FirstSegmentBounds, SecondSegmentBounds
  <2>2. nr = Least(Least(Used, n[p]), PIPESIZE - at)
    BY DEF FirstSegment
  <2> HIDE DEF nr, at, more
  <2> QED BY <1>1, <1>2, <2>1, <2>2 DEF Least
<1>4. there \in Nat
  <2>1. (nread + nr) % UintMod \in Int
    BY <1>1, <1>3, ModRange
  <2> QED BY <1>1, <2>1, ModRange
<1>5. ReadBytes(p) = CASE policy.read = "split"   -> CopyOut(at, whole)
                       [] policy.read = "segment" -> CopyOut(at, nr)
                       [] policy.read = "twoseg"  -> CopyOut(at, nr) \o CopyOut(there, more)
  BY DEF ReadBytes
<1>6. policy.read \in {"split", "segment", "twoseg"}
  BY DEF Typed, TypeOK, HistoryType, Policy
<1>7. ASSUME NEW c \in Nat
      PROVE  \A k \in 1 .. c : CopyOut(at, c)[k] = data[(nread + k - 1) % PIPESIZE]
  <2> SUFFICES ASSUME NEW k \in 1 .. c PROVE CopyOut(at, c)[k] = data[(nread + k - 1) % PIPESIZE]
    OBVIOUS
  <2>1. CopyOut(at, c)[k] = data[(at + k - 1) % PIPESIZE]
    BY DEF CopyOut
  <2>2. k \in Int /\ nread \in Int /\ PIPESIZE \in Nat \ {0}
    BY <1>1
  <2>3. ((nread % PIPESIZE) + k - 1) % PIPESIZE = (nread + k - 1) % PIPESIZE
    BY <2>2, CellAt, Zenon
  <2> QED BY <2>1, <2>3
<1>8. \A k \in 1 .. more : CopyOut(there, more)[k] = data[(nread + nr + k - 1) % PIPESIZE]
  <2> SUFFICES ASSUME NEW k \in 1 .. more
               PROVE  CopyOut(there, more)[k] = data[(nread + nr + k - 1) % PIPESIZE]
    OBVIOUS
  <2>1. CopyOut(there, more)[k] = data[(there + k - 1) % PIPESIZE]
    BY DEF CopyOut
  <2>2. nread + nr \in Int
    BY <1>1, <1>3
  <2>3. k \in Int
    BY <1>3
  <2> QED BY <1>1, <2>1, <2>2, <2>3, CellWrapped
<1> HIDE DEF nr, more, whole, there, at
<1>9. at \in Nat
  BY <1>2
<1>10. CASE policy.read = "split"
  <2>1. ReadBytes(p) = CopyOut(at, whole) /\ Len(CopyOut(at, whole)) = whole
    BY <1>1, <1>3, <1>5, <1>9, <1>10, CopyOutType
  <2> QED BY <1>3, <1>7, <2>1
<1>11. CASE policy.read = "segment"
  <2>1. ReadBytes(p) = CopyOut(at, nr) /\ Len(CopyOut(at, nr)) = nr
    BY <1>1, <1>3, <1>5, <1>9, <1>11, CopyOutType
  <2> QED BY <1>3, <1>7, <2>1
<1>12. CASE policy.read = "twoseg"
  <2> DEFINE first == CopyOut(at, nr)
             second == CopyOut(there, more)
  <2>1. ReadBytes(p) = first \o second
    BY <1>5, <1>12
  <2>2. /\ first \in Seq(Byte \cup {Junk}) /\ Len(first) = nr
        /\ \A k \in 1 .. nr : first[k] = data[(nread + k - 1) % PIPESIZE]
    BY <1>1, <1>3, <1>7, <1>9, CopyOutType
  <2>3. /\ second \in Seq(Byte \cup {Junk}) /\ Len(second) = more
        /\ \A k \in 1 .. more : second[k] = data[(nread + nr + k - 1) % PIPESIZE]
    BY <1>1, <1>3, <1>4, <1>8, CopyOutType
  <2> HIDE DEF first, second
  <2>4. /\ Len(first \o second) = nr + more
        /\ \A k \in 1 .. nr + more : (first \o second)[k] = IF k <= nr THEN first[k] ELSE second[k - nr]
    BY <2>2, <2>3, ConcatProperties
  <2>5. ASSUME NEW k \in 1 .. nr + more
        PROVE  (first \o second)[k] = data[(nread + k - 1) % PIPESIZE]
    <3>1. CASE k <= nr
      BY <1>3, <2>2, <2>4, <3>1
    <3>2. CASE k > nr
      <4>1. k - nr \in 1 .. more /\ nread + nr + (k - nr) - 1 = nread + k - 1
        BY <1>1, <1>3, <3>2
      <4>2. second[k - nr] = data[(nread + nr + (k - nr) - 1) % PIPESIZE]
        BY <2>3, <4>1
      <4>3. (first \o second)[k] = second[k - nr]
        <5>1. ~(k <= nr)
          BY <1>3, <3>2
        <5> QED BY <2>4, <5>1
      <4> QED BY <4>1, <4>2, <4>3
    <3>3. k <= nr \/ k > nr
      BY <1>3
    <3> QED BY <3>1, <3>2, <3>3
  <2>6. Used > 0 /\ n[p] > 0 => nr + more > 0
    BY <1>3
  <2> QED BY <2>1, <2>4, <2>5, <2>6
<1> QED BY <1>6, <1>10, <1>11, <1>12

(* A read hands over the oldest unread bytes.                                  *)
LEMMA ReadCarries ==
  ASSUME Typed, Divides, Carries, NEW p \in Procs, ReadCopy(p)
  PROVE  /\ Carries'
         /\ \E k \in 0 .. Used : got' = SubSeq(sent, 1, Len(got) + k)
         /\ Used > 0 /\ n[p] > 0 => got' # got
<1> DEFINE bytes == ReadBytes(p)
<1>1. /\ got' = got \o bytes
      /\ nread' = (nread + Len(bytes)) % UintMod
      /\ UNCHANGED <<nwrite, data, sent>>
  BY DEF ReadCopy
<1>2. bytes \in Seq(Byte \cup {Junk}) /\ Len(bytes) \in Nat /\ Len(bytes) <= Used
  BY ReadBytesType
<1>3. /\ \A k \in 1 .. Len(bytes) : bytes[k] = data[(nread + k - 1) % PIPESIZE]
      /\ Used > 0 /\ n[p] > 0 => Len(bytes) > 0
  BY ReadBytesAre
<1>4. /\ RingType /\ sent \in Seq(Byte) /\ got \in Seq(Byte \cup {Junk})
      /\ UintMod \in Nat \ {0} /\ PIPESIZE \in Nat \ {0} /\ UintMod % PIPESIZE = 0
      /\ nread \in 0 .. UintMod - 1 /\ nwrite \in 0 .. UintMod - 1
  BY SizeAssumption DEF Typed, TypeOK, HistoryType, RingType, Divides
<1>5. Used \in Nat /\ Len(sent) \in Nat /\ Len(got) \in Nat
  BY <1>4, UsedIs, LenProperties
<1> HIDE DEF bytes
<1>6. Used' = Used - Len(bytes)
  <2>1. Len(bytes) <= (nwrite - nread) % UintMod
    BY <1>2 DEF Used
  <2>2. (nwrite - ((nread + Len(bytes)) % UintMod)) % UintMod
          = ((nwrite - nread) % UintMod) - Len(bytes)
    <3> DEFINE c == Len(bytes)
    <3>1. c \in Nat /\ c <= (nwrite - nread) % UintMod
      BY <1>2, <2>1
    <3> HIDE DEF c
    <3>2. (nwrite - ((nread + c) % UintMod)) % UintMod = ((nwrite - nread) % UintMod) - c
      BY <1>4, <3>1, BackAdvances
    <3> QED BY <3>2 DEF c
  <2> QED BY <1>1, <2>2 DEF Used
<1>7. /\ got' \in Seq(Byte \cup {Junk})
      /\ Len(got') = Len(got) + Len(bytes)
      /\ \A k \in 1 .. Len(got) + Len(bytes) : got'[k] = IF k <= Len(got) THEN got[k]
                                                        ELSE bytes[k - Len(got)]
  BY <1>1, <1>2, <1>4, ConcatProperties
<1>8. ASSUME NEW k \in 1 .. Len(got) + Len(bytes)
      PROVE  got'[k] = sent[k]
  <2>1. CASE k <= Len(got)
    BY <1>5, <1>7, <2>1 DEF Carries
  <2>2. CASE k > Len(got)
    <3> DEFINE j == k - Len(got)
    <3>1. j \in 1 .. Len(bytes) /\ j - 1 \in 0 .. Used - 1 /\ Len(got) + (j - 1) + 1 = k
          /\ nread + j - 1 = nread + (j - 1)
      BY <1>2, <1>4, <1>5, <2>2
    <3>2. got'[k] = bytes[j]
      BY <1>7, <2>2, <1>5
    <3> HIDE DEF j
    <3>3. bytes[j] = data[(nread + j - 1) % PIPESIZE]
      BY <1>3, <3>1
    <3>4. data[(nread + (j - 1)) % PIPESIZE] = sent[Len(got) + (j - 1) + 1]
      BY <3>1 DEF Carries
    <3> QED BY <3>1, <3>2, <3>3, <3>4
  <2> QED BY <1>5, <2>1, <2>2
<1>9. ASSUME NEW k \in 0 .. Used' - 1
      PROVE  data'[(nread' + k) % PIPESIZE] = sent'[Len(got') + k + 1]
  <2>1. /\ Len(bytes) + k \in 0 .. Used - 1 /\ nread + Len(bytes) \in Int /\ k \in Int
        /\ (nread + Len(bytes)) + k = nread + (Len(bytes) + k)
        /\ Len(got) + (Len(bytes) + k) + 1 = (Len(got) + Len(bytes)) + k + 1
    BY <1>2, <1>4, <1>5, <1>6
  <2>2. (((nread + Len(bytes)) % UintMod) + k) % PIPESIZE = ((nread + Len(bytes)) + k) % PIPESIZE
    BY <1>4, <2>1, WrapUnseen
  <2>3. data[(nread + (Len(bytes) + k)) % PIPESIZE] = sent[Len(got) + (Len(bytes) + k) + 1]
    BY <2>1 DEF Carries
  <2> QED BY <1>1, <1>7, <2>1, <2>2, <2>3
<1>10. Carries'
  <2>1. Len(sent') = Len(got') + Used'
    <3>1. Len(sent) = Len(got) + Used
      BY DEF Carries
    <3>2. sent' = sent /\ Len(got') = Len(got) + Len(bytes)
      BY <1>1, <1>7
    <3> QED BY <1>2, <1>5, <1>6, <3>1, <3>2
  <2> QED BY <1>1, <1>7, <1>8, <1>9, <2>1 DEF Carries
<1>11. got' = SubSeq(sent, 1, Len(got) + Len(bytes))
  <2> DEFINE m == Len(got) + Len(bytes)
             pre == SubSeq(sent, 1, m)
  <2>1. m \in 0 .. Len(sent)
    BY <1>2, <1>5 DEF Carries
  <2> HIDE DEF m
  <2>2. pre \in Seq(Byte) /\ Len(pre) = m /\ \A k \in 1 .. m : pre[k] = sent[k]
    BY <1>4, <2>1, Prefix
  <2> HIDE DEF pre
  <2>3. pre \in Seq(Byte \cup {Junk})
    BY <2>2, SeqMonotonic
  <2>4. got' = pre
    BY <1>7, <1>8, <2>2, <2>3, SeqEqual DEF m
  <2> QED BY <2>4 DEF pre, m
<1>12. Used > 0 /\ n[p] > 0 => got' # got
  BY <1>2, <1>3, <1>5, <1>7
<1> QED BY <1>2, <1>5, <1>10, <1>11, <1>12

(* Only a block copy touches the ring or the histories.                        *)
LEMMA StreamUntouched ==
  ASSUME [Next]_vars, \A p \in Procs : ~WriteCopy(p) /\ ~ReadCopy(p)
  PROVE  UNCHANGED <<nread, nwrite, data, sent, got>>
<1>1. CASE UNCHANGED vars
  BY <1>1 DEF vars, pipeVars
<1>2. ASSUME NEW p \in Procs, CloseWrite(p) \/ CloseRead(p)
      PROVE  UNCHANGED <<nread, nwrite, data, sent, got>>
  BY <1>2 DEF CloseWrite, CloseRead
<1>3. ASSUME NEW p \in Procs, \/ WriteCall(p) \/ ReadCall(p) \/ WriteFail(p) \/ WriteWait(p)
                              \/ WriteDone(p) \/ ReadWait(p) \/ ReadFail(p) \/ Sleep(p)
                              \/ SleepReturn(p) \/ Kill(p)
      PROVE  UNCHANGED <<nread, nwrite, data, sent, got>>
  BY <1>3 DEF WriteCall, ReadCall, WriteFail, WriteWait, WriteDone, ReadWait, ReadFail, Sleep,
              SleepReturn, Kill, pipeVars
<1> QED BY <1>1, <1>2, <1>3 DEF Next, Step

(* That the ring holds the unread bytes is inductive.                          *)
LEMMA CarriesNext ==
  ASSUME Held, Divides, Carries, [Next]_vars
  PROVE  Carries'
<1>1. Typed
  BY DEF Held, Locked
<1>2. CASE \E p \in Procs : WriteCopy(p) \/ ReadCopy(p)
  BY <1>1, <1>2, WriteCarries, ReadCarries
<1>3. CASE UNCHANGED <<nread, nwrite, data, sent, got>>
  <2>1. Used' = Used /\ PIPESIZE' = PIPESIZE
    BY <1>3 DEF Used
  <2> QED BY <1>3, <2>1 DEF Carries
<1> QED BY <1>2, <1>3, StreamUntouched

(* It holds at first.                                                          *)
LEMMA CarriesInit ==
  ASSUME Init
  PROVE  Carries
<1>1. nread = 0 /\ nwrite = 0 /\ sent = <<>> /\ got = <<>>
  BY DEF Init
<1>2. Used = 0
  <2>1. UintMod \in Nat \ {0} /\ 0 \in 0 .. UintMod - 1
    BY SizeAssumption
  <2>2. 0 % UintMod = 0
    BY <2>1, ModBelow
  <2> QED BY <1>1, <2>2 DEF Used
<1>3. Len(sent) = 0 /\ Len(got) = 0
  BY <1>1, EmptySeq
<1> QED BY <1>2, <1>3 DEF Carries

(* When nothing is unread, everything was received.                            *)
LEMMA AllReceived ==
  ASSUME Typed, Carries, Used = 0
  PROVE  got = sent
<1>1. sent \in Seq(Byte) /\ got \in Seq(Byte \cup {Junk})
  BY DEF Typed, TypeOK, HistoryType
<1>2. sent \in Seq(Byte \cup {Junk})
  BY <1>1, SeqMonotonic
<1>3. Len(got) \in Nat /\ Len(sent) = Len(got) + 0
  BY <1>1, LenProperties DEF Carries
<1>4. Len(got) = Len(sent)
  BY <1>3
<1>5. \A k \in 1 .. Len(got) : got[k] = sent[k]
  BY DEF Carries
<1> QED BY <1>1, <1>2, <1>4, <1>5, SeqEqual

(* Who leaves piperead for user space was at its end or gave up.               *)
LEMMA LeavesRead ==
  ASSUME Held, [Next]_vars, NEW p \in Procs, pc[p] = "reading", pc'[p] = "user"
  PROVE  ReadCopy(p) \/ ReadFail(p)
<1>1. FrameType
  BY DEF Held, Locked, Typed, TypeOK
<1>2. ASSUME NEW q \in Procs, NEW to, Moved(q, to), pc[q] # "reading"
      PROVE  FALSE
  <2>1. p # q
    BY <1>2
  <2> QED BY <1>2, <2>1 DEF Moved
<1>3. ASSUME NEW q \in Procs, WriteCall(q) \/ ReadCall(q) \/ SleepReturn(q)
      PROVE  FALSE
  <2>1. Moved(q, "writing") \/ Moved(q, "reading")
    BY <1>1, <1>3, Acquires
  <2>2. pc[q] # "reading"
    BY <1>3 DEF WriteCall, ReadCall, SleepReturn
  <2> QED BY <1>2, <2>1, <2>2
<1>4. ASSUME NEW q \in Procs, WriteCopy(q) \/ WriteWait(q)
      PROVE  FALSE
  <2>1. Moved(q, "writing") \/ Moved(q, "wsleep") \/ Moved(q, "rsleep")
    BY <1>1, <1>4, Keeps
  <2>2. pc[q] # "reading"
    BY <1>4 DEF WriteCopy, WriteWait
  <2> QED BY <1>2, <2>1, <2>2
<1>5. ASSUME NEW q \in Procs, WriteFail(q) \/ WriteDone(q) \/ Sleep(q)
      PROVE  FALSE
  <2>1. Moved(q, "user") \/ Moved(q, "wblocked") \/ Moved(q, "rblocked")
    BY <1>1, <1>5, Releases
  <2>2. pc[q] # "reading"
    BY <1>5 DEF WriteFail, WriteDone, Sleep
  <2> QED BY <1>2, <2>1, <2>2
<1>6. ASSUME NEW q \in Procs, ReadWait(q)
      PROVE  FALSE
  <2>1. Moved(q, "rsleep")
    BY <1>1, <1>6, GoMoves DEF ReadWait, PCs, InRead
  <2> QED BY <2>1 DEF Moved
<1>7. ASSUME NEW q \in Procs, ReadFail(q) \/ ReadCopy(q), q # p
      PROVE  FALSE
  <2>1. Moved(q, "user") \/ Moved(q, "wblocked") \/ Moved(q, "rblocked")
    BY <1>1, <1>7, Releases
  <2> QED BY <1>7, <2>1 DEF Moved
<1>8. ASSUME NEW q \in Procs, CloseWrite(q) \/ CloseRead(q)
      PROVE  FALSE
  <2>1. Moved(q, "user") /\ pc[q] = "user"
    BY <1>1, <1>8, CloseMoves
  <2> QED BY <1>2, <2>1
<1>9. ASSUME NEW q \in Procs, Kill(q)
      PROVE  FALSE
  <2>1. /\ Moved(q, pc'[q])
        /\ \/ pc'[q] = pc[q]
           \/ pc[q] = "rblocked" /\ pc'[q] = "rwoken"
           \/ pc[q] = "wblocked" /\ pc'[q] = "wwoken"
    BY <1>1, <1>9, KillMoves
  <2> QED BY <2>1 DEF Moved
<1>10. CASE UNCHANGED vars
  BY <1>10 DEF vars
<1> QED BY <1>3, <1>4, <1>5, <1>6, <1>7, <1>8, <1>9, <1>10 DEF Next, Step

(* piperead returns no bytes for n > 0 only at the end of the file, or to a    *)
(* reader that was killed: the test of the loop and the computation of the     *)
(* block agree on what "empty" is, for every block-copy policy.                *)
THEOREM EndOfFileIsFinalHolds ==
  ASSUME UintMod % PIPESIZE = 0
  PROVE  Spec => EndOfFileIsFinal
<1> DEFINE Final ==
             \A p \in Procs :
               pc[p] = "reading" /\ pc'[p] = "user" /\ n[p] > 0 /\ got' = got /\ p \notin killed
                 => ~writeopen /\ got = sent
<1>1. Divides
  BY DEF Divides
<1>2. Init => Held /\ Carries
  BY HeldInit, CarriesInit
<1>3. Held /\ Carries /\ [Next]_vars => Held' /\ Carries'
  BY <1>1, HeldNext, CarriesNext
<1>4. Held /\ Carries /\ [Next]_vars => [Final]_vars
  <2> SUFFICES ASSUME Held, Carries, [Next]_vars, NEW p \in Procs, pc[p] = "reading",
                      pc'[p] = "user", n[p] > 0, got' = got, p \notin killed
               PROVE  ~writeopen /\ got = sent
    OBVIOUS
  <2>1. ReadCopy(p) \/ ReadFail(p)
    BY LeavesRead
  <2>2. ReadCopy(p)
    BY <2>1 DEF ReadFail
  <2>3. Typed /\ RingType
    BY DEF Held, Locked, Typed, TypeOK
  <2>4. Used = 0
    BY <1>1, <2>2, <2>3, ReadCarries, UsedIs
  <2>5. Empty
    BY <2>3, <2>4, FullEmpty
  <2>6. ~writeopen
    BY <2>2, <2>5 DEF ReadCopy
  <2> QED BY <2>3, <2>4, <2>6, AllReceived
<1> QED BY <1>2, <1>3, <1>4, PTL DEF Spec, EndOfFileIsFinal

-----------------------------------------------------------------------------
(* The pipe implements the byte stream.                                        *)

(* A block that was written is a Put.                                          *)
LEMMA WriteIsPut ==
  ASSUME Held, Divides, Carries, NEW p \in Procs, WriteCopy(p)
  PROVE  Stream!Put
<1>1. Typed /\ sent \in Seq(Byte) /\ got \in Seq(Byte \cup {Junk}) /\ RingType
  BY DEF Held, Locked, Typed, TypeOK, HistoryType
<1>2. PICK b \in Seq(Byte) : Len(b) \in 1 .. PIPESIZE - Used /\ sent' = sent \o b
  BY <1>1, WriteCarries
<1>3. writeopen
  BY DEF Held, Ends, Inside, InWrite, WriteCopy
<1>4. UNCHANGED <<got, writeopen, readopen>>
  BY DEF WriteCopy
<1>5. /\ sent' \in Seq(Byte) /\ Len(sent') = Len(sent) + Len(b)
      /\ \A k \in 1 .. Len(sent) + Len(b) : sent'[k] = IF k <= Len(sent) THEN sent[k]
                                                      ELSE b[k - Len(sent)]
  BY <1>1, <1>2, ConcatProperties
<1>6. Len(sent) \in Nat /\ Len(got) \in Nat /\ Used \in Nat /\ PIPESIZE \in Nat /\ Len(b) \in Nat
  BY <1>1, <1>2, UsedIs, SizeAssumption, LenProperties
<1>7. Len(sent') - Len(sent) \in 1 .. (PIPESIZE - (Len(sent) - Len(got)))
  <2>1. Len(sent) = Len(got) + Used
    BY DEF Carries
  <2> QED BY <1>2, <1>5, <1>6, <2>1
<1>8. SubSeq(sent', 1, Len(sent)) = sent
  <2> DEFINE m == Len(sent)
             pre == SubSeq(sent', 1, m)
  <2>1. m \in 0 .. Len(sent') /\ \A k \in 1 .. m : sent'[k] = sent[k]
    BY <1>5, <1>6
  <2> HIDE DEF m
  <2>2. pre \in Seq(Byte) /\ Len(pre) = m /\ \A k \in 1 .. m : pre[k] = sent'[k]
    BY <1>5, <2>1, Prefix
  <2> HIDE DEF pre
  <2>3. pre = sent
    BY <1>1, <2>1, <2>2, SeqEqual DEF m
  <2> QED BY <2>3 DEF pre, m
<1> QED BY <1>3, <1>4, <1>5, <1>7, <1>8 DEF Stream!Put, Stream!Pending

(* A block that was read is a Get, or nothing at the end of the file.          *)
LEMMA ReadIsGet ==
  ASSUME Held, Divides, Carries, NEW p \in Procs, ReadCopy(p)
  PROVE  Stream!Get \/ UNCHANGED <<sent, got, writeopen, readopen>>
<1>1. Typed /\ sent \in Seq(Byte) /\ got \in Seq(Byte \cup {Junk}) /\ RingType
  BY DEF Held, Locked, Typed, TypeOK, HistoryType
<1>2. PICK k \in 0 .. Used : got' = SubSeq(sent, 1, Len(got) + k)
  BY <1>1, ReadCarries
<1>3. readopen
  BY DEF Held, Ends, Inside, InRead, ReadCopy
<1>4. UNCHANGED <<sent, writeopen, readopen>>
  BY DEF ReadCopy
<1>5. Used \in Nat /\ Len(got) \in Nat /\ Len(sent) = Len(got) + Used
  BY <1>1, UsedIs, LenProperties DEF Carries
<1>6. CASE k = 0
  <2>1. got' = SubSeq(sent, 1, Len(got))
    BY <1>2, <1>5, <1>6
  <2> DEFINE m == Len(got)
             pre == SubSeq(sent, 1, m)
  <2>2. m \in 0 .. Len(sent) /\ \A j \in 1 .. m : got[j] = sent[j]
    BY <1>5 DEF Carries
  <2> HIDE DEF m
  <2>3. pre \in Seq(Byte) /\ Len(pre) = m /\ \A j \in 1 .. m : pre[j] = sent[j]
    BY <1>1, <2>2, Prefix
  <2> HIDE DEF pre
  <2>4. pre \in Seq(Byte \cup {Junk})
    BY <2>3, SeqMonotonic
  <2>5. pre = got
    BY <1>1, <2>2, <2>3, <2>4, SeqEqual DEF m
  <2> QED BY <1>4, <2>1, <2>5 DEF pre, m
<1>7. CASE k # 0
  <2>1. Len(sent) - Len(got) = Used
    BY <1>5
  <2>2. k \in 1 .. Len(sent) - Len(got)
    BY <1>5, <1>7, <2>1
  <2> QED BY <1>2, <1>3, <1>4, <2>2 DEF Stream!Get, Stream!Pending
<1> QED BY <1>6, <1>7

(* Readers receive exactly the bytes written, in order, through the ring and   *)
(* its wrapping counters, as long as the ring size divides the range of the    *)
(* counters. The run with a size that does not shows that this is needed.      *)
THEOREM IsByteStreamHolds ==
  ASSUME UintMod % PIPESIZE = 0
  PROVE  Spec => IsByteStream
<1>1. Divides
  BY DEF Divides
<1>2. Init => Held /\ Carries
  BY HeldInit, CarriesInit
<1>3. Held /\ Carries /\ [Next]_vars => Held' /\ Carries'
  BY <1>1, HeldNext, CarriesNext
<1>4. Init => Stream!StreamInit
  BY DEF Init, Stream!StreamInit
<1>5. Held /\ Carries /\ [Next]_vars => [Stream!StreamNext]_(Stream!sVars)
  <2> SUFFICES ASSUME Held, Carries, [Next]_vars
               PROVE  Stream!StreamNext \/ UNCHANGED <<sent, got, writeopen, readopen>>
    BY DEF Stream!sVars
  <2>1. CASE \E p \in Procs : WriteCopy(p)
    BY <1>1, <2>1, WriteIsPut DEF Stream!StreamNext
  <2>2. CASE \E p \in Procs : ReadCopy(p)
    BY <1>1, <2>2, ReadIsGet DEF Stream!StreamNext
  <2>3. CASE \E p \in Procs : CloseWrite(p) \/ CloseRead(p)
    <3>1. PICK p \in Procs : CloseWrite(p) \/ CloseRead(p)
      BY <2>3
    <3>2. UNCHANGED <<sent, got>> /\ (writeopen <=> wfds # {}) /\ (readopen <=> rfds # {})
      BY <3>1 DEF CloseWrite, CloseRead, Held, Ends
    <3>3. CASE CloseWrite(p)
      <4>1. /\ readopen' = readopen /\ p \in wfds
            /\ writeopen' = FALSE \/ writeopen' = writeopen
        BY <3>3 DEF CloseWrite
      <4> QED BY <3>2, <4>1 DEF Stream!StreamNext, Stream!CloseWriteEnd
    <3>4. CASE CloseRead(p)
      <4>1. /\ writeopen' = writeopen /\ p \in rfds
            /\ readopen' = FALSE \/ readopen' = readopen
        BY <3>4 DEF CloseRead
      <4> QED BY <3>2, <4>1 DEF Stream!StreamNext, Stream!CloseReadEnd
    <3> QED BY <3>1, <3>3, <3>4
  <2>4. CASE \A p \in Procs : /\ ~WriteCopy(p) /\ ~ReadCopy(p)
                              /\ ~CloseWrite(p) /\ ~CloseRead(p)
    <3>1. UNCHANGED <<sent, got>>
      BY <2>4, StreamUntouched
    <3>2. CASE UNCHANGED vars
      BY <3>2 DEF vars, pipeVars
    <3>3. ASSUME NEW p \in Procs, \/ WriteCall(p) \/ ReadCall(p) \/ WriteFail(p) \/ WriteWait(p)
                                  \/ WriteDone(p) \/ ReadWait(p) \/ ReadFail(p) \/ Sleep(p)
                                  \/ SleepReturn(p) \/ Kill(p)
          PROVE  UNCHANGED <<writeopen, readopen>>
      BY <3>3 DEF WriteCall, ReadCall, WriteFail, WriteWait, WriteDone, ReadWait, ReadFail,
                  Sleep, SleepReturn, Kill, pipeVars
    <3> QED BY <2>4, <3>1, <3>2, <3>3 DEF Next, Step
  <2> QED BY <2>1, <2>2, <2>3, <2>4
<1> QED BY <1>2, <1>3, <1>4, <1>5, PTL DEF Spec, IsByteStream, Stream!StreamSpec

-----------------------------------------------------------------------------
(* The order of each writer's bytes.                                           *)

(* How many bytes of q are in the stream changes only when q copies a block:   *)
(* a call that returns moves its count from i to fresh.                        *)
LEMMA TakenKept ==
  ASSUME Typed, [Next]_vars, \A p \in Procs : ~WriteCopy(p)
  PROVE  \A q \in Procs : Taken(q)' = Taken(q)
<1>1. i \in [Procs -> Nat] /\ fresh \in [Procs -> Nat]
  BY DEF Typed, TypeOK, FrameType
<1>2. CASE UNCHANGED <<i, fresh>>
  BY <1>2 DEF Taken
<1>3. CASE \E p \in Procs : Return(p)
  <2>1. PICK p \in Procs : Return(p)
    BY <1>3
  <2>2. ASSUME NEW q \in Procs
        PROVE  fresh'[q] + i'[q] = fresh[q] + i[q]
    <3>1. CASE q = p
      <4>1. fresh'[p] = fresh[p] + i[p] /\ i'[p] = 0
        BY <1>1, <2>1 DEF Return
      <4>2. fresh[p] \in Nat /\ i[p] \in Nat
        BY <1>1
      <4> QED BY <3>1, <4>1, <4>2
    <3>2. CASE q # p
      BY <1>1, <2>1, <3>2 DEF Return
    <3> QED BY <3>1, <3>2
  <2> QED BY <2>2 DEF Taken
<1>4. CASE UNCHANGED vars
  BY <1>2, <1>4 DEF vars
<1>5. ASSUME NEW p \in Procs, WriteFail(p) \/ WriteDone(p) \/ ReadFail(p) \/ ReadCopy(p)
      PROVE  Return(p)
  BY <1>5 DEF WriteFail, WriteDone, ReadFail, ReadCopy
<1>6. ASSUME NEW p \in Procs, \/ WriteCall(p) \/ ReadCall(p) \/ WriteWait(p) \/ ReadWait(p)
                              \/ Sleep(p) \/ SleepReturn(p) \/ Kill(p)
      PROVE  UNCHANGED <<i, fresh>>
  BY <1>6 DEF WriteCall, ReadCall, WriteWait, ReadWait, Sleep, SleepReturn, Kill
<1>7. ASSUME NEW p \in Procs, CloseWrite(p) \/ CloseRead(p)
      PROVE  UNCHANGED <<i, fresh>>
  BY <1>7 DEF CloseWrite, CloseRead
<1> QED BY <1>2, <1>3, <1>4, <1>5, <1>6, <1>7 DEF Next, Step

(* A block continues where the last one of the same process ended.             *)
LEMMA WriteOrdered ==
  ASSUME Typed, WriterOrder, NEW p \in Procs, WriteCopy(p)
  PROVE  WriterOrder'
<1> DEFINE c == WriteCount(p)
           bytes == UserBytes(p, c)
           base == fresh[p] + i[p]
           L == Len(sent)
<1>1. /\ pc[p] = "writing" /\ i[p] < n[p] /\ ~Full
      /\ i' = [i EXCEPT ![p] = @ + c] /\ fresh' = fresh
      /\ sent' = sent \o bytes
  BY DEF WriteCopy
<1>2. /\ sent \in Seq(Byte) /\ FrameType
      /\ i \in [Procs -> Nat] /\ fresh \in [Procs -> Nat] /\ base \in Nat
  BY DEF Typed, TypeOK, FrameType, HistoryType
<1>3. c \in Nat \ {0}
  BY <1>1, WriteCountBounds
<1>4. /\ bytes \in Seq(Byte) /\ Len(bytes) = c
      /\ \A k \in 1 .. c : bytes[k] = <<p, base + k>>
  BY <1>2, <1>3, UserBytesAre
<1>5. L \in Nat /\ DOMAIN sent = 1 .. L /\ \A j \in 1 .. L : sent[j] \in Byte
  BY <1>2, LenProperties, ElementOfSeq
<1>6. \A q \in Procs : Taken(q) = 1 .. fresh[q] + i[q]
  BY DEF Taken
<1>7. \A q \in Procs \ {p} : Taken(q)' = Taken(q)
  BY <1>1, <1>2 DEF Taken
<1>8. Taken(p) = 1 .. base /\ Taken(p)' = 1 .. base + c
  <2>1. fresh'[p] + i'[p] = fresh[p] + (i[p] + c)
    BY <1>1, <1>2
  <2>2. fresh[p] + (i[p] + c) = fresh[p] + i[p] + c
    BY <1>2, <1>3
  <2> QED BY <2>1, <2>2 DEF Taken
<1> HIDE DEF c, bytes, base, L
<1>9. /\ DOMAIN sent' = 1 .. L + c
      /\ \A j \in 1 .. L + c : sent'[j] = IF j <= L THEN sent[j] ELSE bytes[j - L]
  <2>1. /\ sent \o bytes \in Seq(Byte) /\ Len(sent \o bytes) = L + c
        /\ \A j \in 1 .. L + c : (sent \o bytes)[j] = IF j <= L THEN sent[j] ELSE bytes[j - L]
    BY <1>2, <1>4, ConcatProperties DEF L
  <2>2. DOMAIN (sent \o bytes) = 1 .. L + c
    BY <2>1, LenProperties
  <2> QED BY <1>1, <2>1, <2>2
<1>10. \A j \in 1 .. L : j \in 1 .. L + c /\ sent'[j] = sent[j]
  BY <1>3, <1>5, <1>9
<1>11. \A j \in L + 1 .. L + c :
         /\ j \in 1 .. L + c /\ j - L \in 1 .. c
         /\ sent'[j] = <<p, base + (j - L)>>
  <2> SUFFICES ASSUME NEW j \in L + 1 .. L + c
               PROVE  /\ j \in 1 .. L + c /\ j - L \in 1 .. c
                      /\ sent'[j] = <<p, base + (j - L)>>
    OBVIOUS
  <2>1. j \in 1 .. L + c /\ j - L \in 1 .. c /\ ~(j <= L)
    BY <1>3, <1>5
  <2>2. sent'[j] = bytes[j - L]
    BY <1>9, <2>1
  <2> QED BY <1>4, <2>1, <2>2
<1>12. \A j \in 1 .. L + c : j \in 1 .. L \/ j \in L + 1 .. L + c
  BY <1>3, <1>5
<1>13. \A j \in 1 .. L : sent[j][1] \in Procs /\ sent[j][2] \in Nat
                         /\ sent[j][2] \in Taken(sent[j][1])
  BY <1>5 DEF Byte, WriterOrder
<1>14. ASSUME NEW q \in Procs, NEW k \in Taken(q)'
       PROVE  \E j \in DOMAIN sent' : sent'[j] = <<q, k>>
  <2>1. CASE k \in Taken(q)
    BY <1>5, <1>9, <1>10, <2>1 DEF WriterOrder
  <2>2. CASE q = p /\ k \in base + 1 .. base + c
    <3>1. L + (k - base) \in L + 1 .. L + c /\ base + ((L + (k - base)) - L) = k
      BY <1>2, <1>3, <1>5, <2>2
    <3>2. sent'[L + (k - base)] = <<q, k>>
      BY <1>11, <2>2, <3>1
    <3> QED BY <1>9, <1>11, <3>1, <3>2
  <2>3. k \in Taken(q) \/ (q = p /\ k \in base + 1 .. base + c)
    <3>1. CASE q # p
      BY <1>7, <3>1
    <3>2. CASE q = p
      BY <1>2, <1>3, <1>8, <3>2
    <3> QED BY <3>1, <3>2
  <2> QED BY <2>1, <2>2, <2>3
<1>15. ASSUME NEW j \in DOMAIN sent'
       PROVE  (sent[j][2] \in Taken(sent[j][1]))'
  <2>1. CASE j \in 1 .. L
    <3>1. PICK q \in Procs : q = sent[j][1]
      BY <1>13, <2>1
    <3>2. sent[j][2] \in Taken(q) /\ sent'[j] = sent[j]
      BY <1>10, <1>13, <2>1, <3>1
    <3>3. sent[j][2] \in Taken(q)'
      <4>1. CASE q = p
        BY <1>2, <1>3, <1>8, <3>2, <4>1
      <4>2. CASE q # p
        BY <1>7, <3>2, <4>2
      <4> QED BY <4>1, <4>2
    <3>4. sent'[j][1] = q /\ sent'[j][2] = sent[j][2]
      BY <3>1, <3>2
    <3> QED BY <3>3, <3>4 DEF Taken
  <2>2. CASE j \in L + 1 .. L + c
    <3>1. sent'[j] = <<p, base + (j - L)>> /\ j - L \in 1 .. c
      BY <1>11, <2>2
    <3>2. base + (j - L) \in Taken(p)'
      BY <1>2, <1>3, <1>5, <1>8, <3>1
    <3>3. sent'[j][1] = p /\ sent'[j][2] = base + (j - L)
      BY <3>1
    <3> QED BY <3>2, <3>3 DEF Taken
  <2> QED BY <1>9, <1>12, <2>1, <2>2
<1>16. ASSUME NEW j \in DOMAIN sent', NEW l \in DOMAIN sent', j < l,
              sent'[j][1] = sent'[l][1]
       PROVE  sent'[j][2] < sent'[l][2]
  <2>1. CASE j \in 1 .. L /\ l \in 1 .. L
    BY <1>5, <1>10, <1>16, <2>1 DEF WriterOrder
  <2>2. CASE j \in 1 .. L /\ l \in L + 1 .. L + c
    <3>1. sent'[l] = <<p, base + (l - L)>> /\ l - L \in 1 .. c
      BY <1>11, <2>2
    <3>2. sent'[j] = sent[j] /\ sent[j][1] = p
      BY <1>10, <1>16, <2>2, <3>1
    <3>3. sent[j][2] \in 1 .. base
      BY <1>8, <1>13, <2>2, <3>2
    <3>4. sent[j][2] < base + (l - L)
      BY <1>2, <3>1, <3>3
    <3> QED BY <3>1, <3>2, <3>4
  <2>3. CASE j \in L + 1 .. L + c /\ l \in L + 1 .. L + c
    <3>1. /\ sent'[l] = <<p, base + (l - L)>> /\ l - L \in 1 .. c
          /\ sent'[j] = <<p, base + (j - L)>> /\ j - L \in 1 .. c
      BY <1>11, <2>3
    <3>2. base + (j - L) < base + (l - L)
      BY <1>2, <1>3, <1>5, <1>16, <2>3
    <3> QED BY <3>1, <3>2
  <2>4. ~(j \in L + 1 .. L + c /\ l \in 1 .. L)
    BY <1>3, <1>5, <1>16
  <2> QED BY <1>9, <1>12, <2>1, <2>2, <2>3, <2>4
<1> QED BY <1>14, <1>15, <1>16 DEF WriterOrder

(* The stream holds the bytes of each writer from the first to the last that   *)
(* its calls have moved, each once and in order, for every block-copy policy   *)
(* and whatever other writers put in between.                                  *)
THEOREM WriterOrderHolds == Spec => []WriterOrder
<1>1. Init => Typed /\ WriterOrder
  <2> SUFFICES ASSUME Init PROVE WriterOrder
    BY TypedInit
  <2>1. sent = <<>> /\ DOMAIN sent = {}
    BY DEF Init
  <2>2. \A p \in Procs : Taken(p) = {}
    <3> SUFFICES ASSUME NEW p \in Procs PROVE Taken(p) = {}
      OBVIOUS
    <3>1. fresh[p] = 0 /\ i[p] = 0
      BY DEF Init
    <3> QED BY <3>1 DEF Taken
  <2> QED BY <2>1, <2>2 DEF WriterOrder
<1>2. Typed /\ WriterOrder /\ [Next]_vars => Typed' /\ WriterOrder'
  <2> SUFFICES ASSUME Typed, WriterOrder, [Next]_vars PROVE WriterOrder'
    BY TypedNext
  <2>1. CASE \E p \in Procs : WriteCopy(p)
    BY <2>1, WriteOrdered
  <2>2. CASE \A p \in Procs : ~WriteCopy(p)
    <3>1. \A q \in Procs : Taken(q)' = Taken(q)
      BY <2>2, TakenKept
    <3>2. sent' = sent
      <4>1. CASE \E p \in Procs : ReadCopy(p)
        BY <4>1 DEF ReadCopy
      <4> QED BY <2>2, <4>1, StreamUntouched
    <3>3. \A j \in DOMAIN sent : sent[j][1] \in Procs
      <4>1. sent \in Seq(Byte)
        BY DEF Typed, TypeOK, HistoryType
      <4>2. \A j \in DOMAIN sent : sent[j] \in Byte
        BY <4>1, LenProperties, ElementOfSeq
      <4> QED BY <4>2 DEF Byte
    <3>4. ASSUME NEW j \in DOMAIN sent
          PROVE  (sent[j][2] \in Taken(sent[j][1]))'
      <4>1. PICK q \in Procs : q = sent[j][1]
        BY <3>3
      <4>2. sent[j][2] \in Taken(q)'
        BY <3>1, <4>1 DEF WriterOrder
      <4>3. sent'[j] = sent[j]
        BY <3>2
      <4> QED BY <4>1, <4>2, <4>3 DEF Taken
    <3> QED BY <3>1, <3>2, <3>4 DEF WriterOrder
  <2> QED BY <2>1, <2>2
<1> QED BY <1>1, <1>2, PTL DEF Spec
==============================================================================
