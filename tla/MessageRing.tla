----------------------------- MODULE MessageRing -----------------------------
(* The ring buffer of assignment 7 in memory that a producer and a consumer    *)
(* share (<student>/assignment7/ubuf.c and its like). There is no lock: only   *)
(* the producer writes nwrite, only the consumer nread, and a message becomes  *)
(* visible when nwrite is stored. A message is a header of WORD cells that     *)
(* holds its length, and the bytes, one cell each.                             *)
(*                                                                             *)
(* The students' rings differ in the room they ask for, in how they round and  *)
(* wrap, and in what they take for empty. cause names what first went wrong in *)
(* a run; nothing is claimed of the ring after that, and the system stops.     *)
EXTENDS Integers, Sequences

CONSTANTS
  WORD,      \* cells of an int: 4 in the code
  WRAP,      \* values of an unsigned int: 2^32 in the code
  Lens,      \* bound: lengths of messages
  NIDS,      \* bound: messages are told apart modulo NIDS
  Variants   \* the ring under study, see RingVariants

ASSUME WordAssumption == WORD \in Nat \ {0} /\ WRAP \in Nat \ {0} /\ WRAP % (2 * WORD) = 0
ASSUME LengthAssumption == Lens \subseteq Nat \ {0} /\ NIDS \in Nat \ {0}

(* size: cells of data, limit: those of them that are mapped. aligns: counters *)
(* are rounded up to an int before use. rounds: lengths are. room: the test of *)
(* buf_put, empty: that of buf_get. mirror: the data is mapped twice in a row, *)
(* so that no copy is split. resets: buf_setup clears the counters. erases:    *)
(* buf_get clears the header.                                                  *)
Variant == [size : Nat \ {0}, limit : Nat, aligns : BOOLEAN, rounds : BOOLEAN,
            room : {"counted", "headerless", "sum", "capacity", "offsets"},
            empty : {"equal", "past"}, mirror : BOOLEAN, resets : BOOLEAN, erases : BOOLEAN]
ASSUME VariantAssumption == Variants \subseteq Variant

(* What goes together in every student's ring; lengths are positive ints.      *)
ASSUME RingAssumption ==
  /\ \A len \in Lens : 2 * len < WRAP
  /\ \A v \in Variants :
       /\ v.size % WORD = 0 /\ 2 * (v.size + 2 * WORD) <= WRAP
       /\ v.aligns <=> v.room \in {"counted", "headerless"}
       /\ v.rounds <=> v.room = "capacity"
       /\ v.rounds => WRAP % v.size = 0
       /\ v.room = "offsets" => v.empty = "equal"
       /\ v.erases => ~v.aligns

VARIABLES
  cells,     \* data[]
  nread, nwrite,
  attached,  \* the processes that have called buf_setup
  put,       \* the call of buf_put: where it is, its w, and the message
  get,       \* the call of buf_get: where it is, its r, the length, bytes so far
  variant,
  queue,     \* history: messages put and not yet got, oldest first
  odd,       \* history: a length was put that is no multiple of WORD
  cause      \* history: what went wrong, "" while nothing has

vars == <<cells, nread, nwrite, attached, put, get, variant, queue, odd, cause>>

Size == variant.size
Zero == [id |-> 0, len |-> 0, n |-> 0]
Cell(id, len, n) == [id |-> id, len |-> len, n |-> n]

(* (x + 3) & ~0x03                                                             *)
AlignUp(x) == ((x + WORD - 1) \div WORD) * WORD
Aligned(x) == IF variant.aligns THEN AlignUp(x) % WRAP ELSE x

(* Offsets are brought back below the size, counters run on to 2^32.           *)
NeverBack(x, n) == x + n                                 \* mutant: offsets are not brought back
Past(x, n) ==
  IF variant.room # "offsets" THEN (x + n) % WRAP
  ELSE IF x + n > Size THEN x + n - Size ELSE x + n
Index(x) == x % Size

Init ==
  /\ variant \in Variants
  /\ cells = [c \in 0 .. variant.size - 1 |-> Zero]
  /\ nread = 0 /\ nwrite = 0
  /\ attached = {}
  /\ put = [at |-> "idle", w |-> 0, id |-> NIDS, len |-> 0]
  /\ get = [at |-> "idle", r |-> 0, len |-> 0, got |-> <<>>]
  /\ queue = <<>>
  /\ odd = FALSE
  /\ cause = ""

-----------------------------------------------------------------------------
(* What the unread messages take up, headers and gaps between them included.   *)
Footprint(q) ==
  LET upto[k \in 0 .. Len(q)] == IF k = 0 THEN 0 ELSE upto[k - 1] + q[k].gap + q[k].takes
  IN IF q = <<>> THEN 0 ELSE upto[Len(q)] - Head(q).gap

Takes(len) == WORD + IF variant.rounds THEN AlignUp(len) ELSE len
Message(w, id, len) ==
  [id |-> id, len |-> len, w |-> w, gap |-> (w - nwrite) % WRAP, takes |-> Takes(len)]

Busy == put.at \in {"header", "bytes", "rest", "publish"} \/ get.at \in {"header", "erase", "bytes", "rest", "publish"}

(* buf_setup() in the process that puts or gets; it may come when the other    *)
(* is at work already.                                                         *)
Setup(p) ==
  /\ p \notin attached
  /\ attached' = attached \cup {p}
  /\ IF variant.resets
     THEN /\ nread' = 0 /\ nwrite' = 0 /\ queue' = <<>>
          /\ cause' = IF queue # <<>> \/ Busy THEN "reset" ELSE cause
     ELSE UNCHANGED <<nread, nwrite, queue, cause>>
  /\ UNCHANGED <<cells, put, get, variant, odd>>

-----------------------------------------------------------------------------
(* buf_put(): loads both counters, and returns -1 if there is no room. The     *)
(* differences are unsigned.                                                   *)
NoHeader(w, len) == (Size - w + nread) % WRAP >= len     \* mutant: the header is not counted
TwoHeaders(w, len) == (Size - w + nread) % WRAP >= len + 2 * WORD    \* mutant: room for two
Room(w, len) ==
  CASE variant.room = "counted"    -> (Size - w + nread) % WRAP >= len + WORD
    [] variant.room = "headerless" -> (w - nread + len) % WRAP <= Size
    [] variant.room = "sum"        -> (w + len + WORD) % WRAP <= (nread + Size) % WRAP
    [] variant.room = "capacity"   -> (Size - ((w - nread) % WRAP) - WORD) % WRAP >= len
    [] variant.room = "offsets"    -> nread + Size - w >= len + WORD

CanPut == "producer" \in attached /\ put.at \in {"idle", "refused"}

PutRefuse(len) ==
  /\ CanPut /\ ~Room(Aligned(nwrite), len)
  /\ put' = [put EXCEPT !.at = "refused", !.len = len]
  /\ UNCHANGED <<cells, nread, nwrite, attached, get, variant, queue, odd, cause>>

(* More than fits, or a counter that wraps where the size does not divide 2^32:*)
(* when it is advanced, or when it is rounded up.                              *)
Jumps(w, len) == variant.room # "offsets" /\ WRAP % Size # 0 /\ (w < nwrite \/ w + WORD + len >= WRAP)

PutCall(len) ==
  /\ CanPut /\ Room(Aligned(nwrite), len)
  /\ LET w == Aligned(nwrite)
         id == (put.id % NIDS) + 1
     IN /\ put' = [at |-> "header", w |-> w, id |-> id, len |-> len]
        /\ odd' = (odd \/ len % WORD # 0)
        /\ cause' = IF Footprint(Append(queue, Message(w, id, len))) > Size THEN "overfull"
                    ELSE IF Jumps(w, len) THEN "jump" ELSE cause
  /\ UNCHANGED <<cells, nread, nwrite, attached, get, variant, queue>>

(* n cells of message (id, len) from its k-th on, at consecutive addresses     *)
(* from x; the second mapping of a mirrored ring is the first again.           *)
Stored(x, id, len, k, n) ==
  [c \in DOMAIN cells |->
     LET j == (c - x) % Size IN IF j < n THEN Cell(id, len, k + j) ELSE cells[c]]

(* How much of the bytes fits before the end.                                  *)
First(x, len) == IF variant.mirror \/ len < Size - x THEN len ELSE Size - x

(* The header is written in one piece. Memory beyond the mapped pages cannot   *)
(* be written.                                                                 *)
Outside(x, n) == ~variant.mirror /\ x + n > variant.limit

PutHeader ==
  /\ put.at = "header"
  /\ IF Outside(Index(put.w), WORD)
     THEN cause' = "fault" /\ UNCHANGED <<cells, put>>
     ELSE /\ cells' = Stored(Index(put.w), put.id, put.len, 0, WORD)
          /\ put' = [put EXCEPT !.at = "bytes"]
          /\ UNCHANGED cause
  /\ UNCHANGED <<nread, nwrite, attached, get, variant, queue, odd>>

PutBytes ==
  /\ put.at = "bytes"
  /\ LET x == Index(Past(put.w, WORD))
         n == First(x, put.len)
     IN IF Outside(x, n)
        THEN cause' = "fault" /\ UNCHANGED <<cells, put>>
        ELSE /\ cells' = Stored(x, put.id, put.len, WORD, n)
             /\ put' = [put EXCEPT !.at = IF n < put.len THEN "rest" ELSE "publish"]
             /\ UNCHANGED cause
  /\ UNCHANGED <<nread, nwrite, attached, get, variant, queue, odd>>

(* The second copy goes to the start of the ring.                              *)
PutRest ==
  /\ put.at = "rest"
  /\ LET n == First(Index(Past(put.w, WORD)), put.len)
     IN cells' = Stored(Index(Past(put.w, WORD + n)), put.id, put.len, WORD + n, put.len - n)
  /\ put' = [put EXCEPT !.at = "publish"]
  /\ UNCHANGED <<nread, nwrite, attached, get, variant, queue, odd, cause>>

HeaderForgotten(w, id, len) == Past(w, len)              \* mutant: nwrite is short
NewWrite(w, id, len) == Past(w, Takes(len))

PutPublish ==
  /\ put.at = "publish"
  /\ nwrite' = NewWrite(put.w, put.id, put.len)
  /\ queue' = Append(queue, Message(put.w, put.id, put.len))
  /\ put' = [put EXCEPT !.at = "idle"]
  /\ UNCHANGED <<cells, nread, attached, get, variant, odd, cause>>

-----------------------------------------------------------------------------
(* buf_get(): -1 if there is no message.                                       *)
Signed(x) == IF x >= WRAP \div 2 THEN x - WRAP ELSE x
SamePlace(r) == Index(r) = Index(nwrite)                 \* mutant: a full ring looks empty
Empty(r) ==
  CASE variant.empty = "equal" -> r = nwrite
    [] variant.empty = "past"  -> Signed(r) >= Signed(nwrite)

CanGet == "consumer" \in attached /\ get.at \in {"idle", "none", "toolong"}

GetNone ==
  /\ CanGet /\ Empty(Aligned(nread))
  /\ get' = [get EXCEPT !.at = "none"]
  /\ UNCHANGED <<cells, nread, nwrite, attached, put, variant, queue, odd, cause>>

GetCall ==
  /\ CanGet /\ ~Empty(Aligned(nread))
  /\ get' = [at |-> "header", r |-> Aligned(nread), len |-> 0, got |-> <<>>]
  /\ UNCHANGED <<cells, nread, nwrite, attached, put, variant, queue, odd, cause>>

(* The int that is read as a length: that of a message, 0 in fresh memory, or  *)
(* whatever the bytes there happen to make.                                    *)
HeaderAt(x) == [k \in 0 .. WORD - 1 |-> cells[(x + k) % Size]]
LengthsAt(x) ==
  LET h == HeaderAt(x)
  IN IF h = [k \in 0 .. WORD - 1 |-> Cell(h[0].id, h[0].len, k)] THEN {h[0].len}
     ELSE IF h = [k \in 0 .. WORD - 1 |-> Zero] THEN {0}
     ELSE Lens

(* -2 if it is longer than the caller's buffer, which may be of any size.      *)
GetTooLong ==
  /\ get.at = "header"
  /\ LengthsAt(Index(get.r)) # {0}
  /\ get' = [get EXCEPT !.at = "toolong"]
  /\ UNCHANGED <<cells, nread, nwrite, attached, put, variant, queue, odd, cause>>

GetHeader ==
  /\ get.at = "header"
  /\ \E len \in LengthsAt(Index(get.r)) :
       get' = [get EXCEPT !.len = len, !.at = IF variant.erases THEN "erase" ELSE "bytes"]
  /\ UNCHANGED <<cells, nread, nwrite, attached, put, variant, queue, odd, cause>>

GetErase ==
  /\ get.at = "erase"
  /\ cells' = [c \in DOMAIN cells |-> IF (c - Index(get.r)) % Size < WORD THEN Zero ELSE cells[c]]
  /\ get' = [get EXCEPT !.at = "bytes"]
  /\ UNCHANGED <<nread, nwrite, attached, put, variant, queue, odd, cause>>

Fetched(x, n) == [k \in 1 .. n |-> cells[(x + k - 1) % Size]]

GetBytes ==
  /\ get.at = "bytes"
  /\ LET x == Index(Past(get.r, WORD))
         n == First(x, get.len)
     IN get' = [get EXCEPT !.got = Fetched(x, n), !.at = IF n < get.len THEN "rest" ELSE "publish"]
  /\ UNCHANGED <<cells, nread, nwrite, attached, put, variant, queue, odd, cause>>

GetRest ==
  /\ get.at = "rest"
  /\ LET n == Len(get.got)
     IN get' = [get EXCEPT !.got = @ \o Fetched(Index(Past(get.r, WORD + n)), get.len - n),
                           !.at = "publish"]
  /\ UNCHANGED <<cells, nread, nwrite, attached, put, variant, queue, odd, cause>>

(* The oldest message, whole.                                                  *)
IsOldest(len, got) ==
  /\ queue # <<>>
  /\ len = Head(queue).len
  /\ got = [k \in 1 .. len |-> Cell(Head(queue).id, len, WORD + k - 1)]

BytesOnly(r, len) == Past(r, len)                        \* mutant: the header is not skipped
NewRead(r, len) == Past(r, Takes(len))

GetPublish ==
  /\ get.at = "publish"
  /\ nread' = NewRead(get.r, get.len)
  /\ IF IsOldest(get.len, get.got) THEN queue' = Tail(queue) /\ UNCHANGED cause
                                   ELSE cause' = "phantom" /\ UNCHANGED queue
  /\ get' = [get EXCEPT !.at = "idle"]
  /\ UNCHANGED <<cells, nwrite, attached, put, variant, odd>>

Step ==
  \/ \E p \in {"producer", "consumer"} : Setup(p)
  \/ \E len \in Lens : PutRefuse(len) \/ PutCall(len)
  \/ PutHeader \/ PutBytes \/ PutRest \/ PutPublish
  \/ GetNone \/ GetCall \/ GetTooLong \/ GetHeader \/ GetErase \/ GetBytes \/ GetRest \/ GetPublish

Next ==
  \/ cause = "" /\ Step
  \/ cause # "" /\ UNCHANGED vars

Spec == Init /\ [][Next]_vars

-----------------------------------------------------------------------------
Places == {"idle", "header", "bytes", "rest", "publish"}

TypeOK ==
  /\ variant \in Variants
  /\ cells \in [0 .. Size - 1 -> [id : 0 .. NIDS, len : Lens \cup {0}, n : 0 .. Size]]
  /\ nread \in 0 .. WRAP - 1 /\ nwrite \in 0 .. WRAP - 1
  /\ variant.room = "offsets" => nread <= Size /\ nwrite <= Size
  /\ attached \subseteq {"producer", "consumer"}
  /\ put \in [at : Places \cup {"refused"}, w : 0 .. WRAP - 1, id : 1 .. NIDS, len : Lens \cup {0}]
  /\ get.at \in Places \cup {"none", "toolong", "erase"} /\ get.len \in Lens \cup {0}
  /\ get.r \in 0 .. WRAP - 1 /\ Len(get.got) <= get.len
  /\ odd \in BOOLEAN
  /\ cause \in {"", "overfull", "jump", "fault", "phantom", "reset"}

(* Whatever the producer is copying, every message that is put and not yet got *)
(* stands whole in the ring where the consumer will look for it (anthonyw's    *)
(* consumer clears the header of the one it is reading).                       *)
UnreadIntact ==
  cause = "" =>
    \A i \in DOMAIN queue : \A n \in 0 .. WORD + queue[i].len - 1 :
      \/ cells[(queue[i].w + n) % Size] = Cell(queue[i].id, queue[i].len, n)
      \/ i = 1 /\ n < WORD /\ variant.erases /\ get.at \in {"bytes", "rest", "publish"}

(* buf_put never accepts more than fits. Each kind of ring breaks this: those  *)
(* that leave the header out of the test, by that header; klacansky's when it  *)
(* is exactly full; willghatch's when the writer has wrapped and the reader    *)
(* has not, or the ring is full; and the dongx family's, for lengths that are  *)
(* no multiple of four; anthonyw's, whose sum overflows at 2^32.               *)
NeverOverfull ==
  cause = "overfull" =>
    LET taken == Footprint(Append(queue, Message(put.w, put.id, put.len)))
    IN CASE variant.room = "headerless" -> taken <= Size + WORD
         [] variant.room = "capacity"   -> (nwrite - nread) % WRAP = Size
         [] variant.room = "offsets"    -> put.w <= nread
         [] variant.room = "counted"    -> odd /\ (put.w - nread) % WRAP > Size
         [] variant.room = "sum"        -> put.w + WORD + put.len >= WRAP

(* No copy leaves the mapped pages, but in alanhumphrey's ring, which is       *)
(* larger than they are, and in anthonyw's, whose header may straddle the end  *)
(* after a length that is no multiple of four.                                 *)
InBounds == cause = "fault" => variant.limit < Size \/ (odd /\ ~variant.aligns)

(* No copy of buf_put or buf_get goes where it must not: over unread messages, *)
(* or out of the pages.                                                        *)
CopiesStayInside == NeverOverfull /\ InBounds

(* What buf_get returns is the oldest unread message, whole, once; but for the *)
(* dongx family after a length that is no multiple of four, when a ring that   *)
(* was emptied does not look so; where signed ints are compared that happens   *)
(* when rounding takes the reader to 2^31.                                     *)
GetsOldest ==
  cause = "phantom" =>
    /\ odd /\ variant.aligns
    /\ variant.empty = "equal" \/ get.r = WRAP \div 2

(* buf_put refuses only what does not fit beside the unread messages: an empty *)
(* ring takes any message that fits into it. The reader's own rounding may     *)
(* hide less than an int; anthonyw's sum overflows before 2^32.                *)
RefusedOnlyWhenFull ==
  cause = "" /\ CanPut =>
    \A len \in Lens :
      \/ Room(Aligned(nwrite), len)
      \/ Footprint(Append(queue, Message(Aligned(nwrite), 1, len))) + (IF odd THEN WORD - 1 ELSE 0) > Size
      \/ variant.room = "sum" /\ nread + Size >= WRAP

(* buf_get finds the ring empty only when there is no message; but willghatch's*)
(* ring looks empty when it is full, and the rings that compare signed ints    *)
(* never deliver again once the writer has passed 2^31.                        *)
EmptyOnlyWhenNone ==
  cause = "" /\ CanGet /\ Empty(Aligned(nread)) =>
    \/ queue = <<>>
    \/ variant.room = "offsets" /\ Footprint(queue) = Size
    \/ variant.empty = "past" /\ nread < WRAP \div 2 /\ nwrite >= WRAP \div 2
=============================================================================
