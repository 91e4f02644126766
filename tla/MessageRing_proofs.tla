-------------------------- MODULE MessageRing_proofs --------------------------
(* What holds of the ring of messages for any size of the ring, of an int and  *)
(* of the counters, any lengths, and every ring that RingAssumption allows.    *)
EXTENDS MessageRing, SequenceTheorems, NaturalsInduction, WellFoundedInduction, TLAPS

-----------------------------------------------------------------------------
(* The arithmetic of counters that wrap.                                       *)

LEMMA ModRange ==
  ASSUME NEW m \in Nat \ {0}, NEW x \in Int
  PROVE  x % m \in 0 .. m - 1
  BY SMTT(20)

(* A counter below the width stays as it is.                                   *)
LEMMA ModBelow ==
  ASSUME NEW m \in Nat \ {0}, NEW x \in 0 .. m - 1
  PROVE  x % m = x
  BY SMTT(20)

(* A counter that ran over the width wraps once.                               *)
LEMMA ModOver ==
  ASSUME NEW m \in Nat \ {0}, NEW x \in m .. 2 * m - 1
  PROVE  x % m = x - m
  BY SMTT(20)

(* A difference below zero wraps up once.                                      *)
LEMMA ModUnder ==
  ASSUME NEW m \in Nat \ {0}, NEW x \in -m .. -1
  PROVE  x % m = x + m
  BY SMTT(20)

(* The difference of two counters modulo the width of a uint.                  *)
LEMMA Distance ==
  ASSUME NEW m \in Nat \ {0}, NEW a \in 0 .. m - 1, NEW b \in 0 .. m - 1
  PROVE  (a - b) % m = IF a >= b THEN a - b ELSE a - b + m
<1>1. CASE a >= b
  BY <1>1, ModBelow
<1>2. CASE a < b
  BY <1>2, ModUnder
<1> QED BY <1>1, <1>2

(* Advancing a counter by c, less than the width.                              *)
LEMMA Advance ==
  ASSUME NEW m \in Nat \ {0}, NEW a \in 0 .. m - 1, NEW c \in 0 .. m - 1
  PROVE  /\ (a + c) % m = IF a + c < m THEN a + c ELSE a + c - m
         /\ (a + c) % m \in 0 .. m - 1
<1>1. CASE a + c < m
  BY <1>1, ModBelow
<1>2. CASE a + c >= m
  BY <1>2, ModOver
<1> QED BY <1>1, <1>2

(* Equal remainders and quotients: x is determined by both.                    *)
LEMMA ModUnique ==
  ASSUME NEW m \in Nat \ {0}, NEW q \in Int, NEW r \in 0 .. m - 1
  PROVE  (m * q + r) % m = r
<1> DEFINE x == m * q + r
           d == x \div m
           s == x % m
<1>1. x \in Int /\ d \in Int /\ s \in 0 .. m - 1 /\ x = m * d + s
  BY SMTT(20)
<1>2. m * (q - d) = s - r
  BY <1>1, SMTT(20)
<1>3. \A e \in Int : e >= 1 => m * e >= m
  BY SMTT(20)
<1>4. \A e \in Int : e <= -1 => m * e <= -m
  BY SMTT(20)
<1> HIDE DEF x, d, s
<1>5. q - d = 0
  BY <1>1, <1>2, <1>3, <1>4
<1>6. m * 0 = 0
  OBVIOUS
<1>7. s - r = 0
  BY <1>1, <1>2, <1>5, <1>6
<1> QED BY <1>1, <1>7 DEF s, x

(* Whole turns of the ring do not change an index.                             *)
LEMMA ModTurns ==
  ASSUME NEW m \in Nat \ {0}, NEW x \in Int, NEW t \in Int
  PROVE  (x + m * t) % m = x % m
<1> DEFINE d == x \div m
           s == x % m
<1>1. d \in Int /\ s \in 0 .. m - 1 /\ x = m * d + s
  BY SMTT(20)
<1>2. x + m * t = m * (d + t) + s
  BY <1>1, SMTT(20)
<1>3. d + t \in Int
  BY <1>1
<1> HIDE DEF d, s
<1>4. (m * (d + t) + s) % m = s
  BY <1>1, <1>3, ModUnique
<1> QED BY <1>2, <1>4 DEF s

(* A remainder may be taken before adding, ...                                 *)
LEMMA ModPlus ==
  ASSUME NEW m \in Nat \ {0}, NEW x \in Int, NEW y \in Int
  PROVE  ((x % m) + y) % m = (x + y) % m
<1> DEFINE d == x \div m
           s == x % m
<1>1. d \in Int /\ s \in 0 .. m - 1 /\ x = m * d + s
  BY SMTT(20)
<1> HIDE DEF d, s
<1>2. x + y = (s + y) + m * d
  BY <1>1, SMTT(20)
<1>3. ((s + y) + m * d) % m = (s + y) % m
  <2>1. s + y \in Int
    BY <1>1
  <2> QED BY <1>1, <2>1, ModTurns
<1> QED BY <1>2, <1>3 DEF s

(* ... or before subtracting.                                                  *)
LEMMA ModMinus ==
  ASSUME NEW m \in Nat \ {0}, NEW x \in Int, NEW y \in Int
  PROVE  ((x % m) - (y % m)) % m = (x - y) % m
<1> DEFINE d == y \div m
           s == y % m
<1>1. d \in Int /\ s \in 0 .. m - 1 /\ y = m * d + s
  BY SMTT(20)
<1>2. (x % m) \in Int
  BY ModRange
<1> HIDE DEF d, s
<1>3. ((x % m) - s) % m = (x - s) % m
  <2>1. -s \in Int /\ (x % m) - s = (x % m) + (-s) /\ x - s = x + (-s)
    BY <1>1, <1>2
  <2> QED BY <2>1, ModPlus
<1>4. x - y = (x - s) + m * (-d)
  BY <1>1, SMTT(20)
<1>5. ((x - s) + m * (-d)) % m = (x - s) % m
  <2>1. x - s \in Int /\ -d \in Int
    BY <1>1
  <2> QED BY <2>1, ModTurns
<1> QED BY <1>3, <1>4, <1>5 DEF s

(* An index does not notice that a counter wraps, if the ring size divides the *)
(* counter's range.                                                            *)
LEMMA WrapUnseen ==
  ASSUME NEW m \in Nat \ {0}, NEW u \in Nat \ {0}, u % m = 0, NEW x \in Int, NEW y \in Int
  PROVE  ((x % u) + y) % m = (x + y) % m
<1> DEFINE t == u \div m
           d == x \div u
           s == x % u
<1>1. t \in Int /\ u = m * t
  BY SMTT(20)
<1>2. d \in Int /\ s \in 0 .. u - 1 /\ x = u * d + s
  BY SMTT(20)
<1> HIDE DEF t, d, s
<1>3. u * d = m * (t * d) /\ t * d \in Int
  BY <1>1, <1>2, SMTT(20)
<1>4. x + y = (s + y) + m * (t * d) /\ s + y \in Int
  BY <1>2, <1>3
<1> QED BY <1>3, <1>4, ModTurns DEF s

(* The same with nothing added.                                                *)
LEMMA WrapPlain ==
  ASSUME NEW m \in Nat \ {0}, NEW u \in Nat \ {0}, u % m = 0, NEW x \in Int
  PROVE  (x % u) % m = x % m
<1> DEFINE s == x % u
<1>1. s \in Int
  BY ModRange
<1>2. (s + 0) % m = (x + 0) % m
  <2>1. 0 \in Int
    OBVIOUS
  <2> QED BY <2>1, WrapUnseen, Zenon
<1> HIDE DEF s
<1>3. s + 0 = s /\ x + 0 = x
  BY <1>1
<1> QED BY <1>2, <1>3 DEF s

(* Advancing the front counter adds to the distance.                           *)
LEMMA FrontAdvances ==
  ASSUME NEW m \in Nat \ {0}, NEW a \in 0 .. m - 1, NEW b \in 0 .. m - 1,
         NEW c \in Nat, ((a - b) % m) + c < m
  PROVE  (((a + c) % m) - b) % m = ((a - b) % m) + c
<1> DEFINE d == (a + c) % m
<1>1. (a - b) % m = IF a >= b THEN a - b ELSE a - b + m
  BY Distance
<1>2. c \in 0 .. m - 1
  BY <1>1
<1>3. /\ d = IF a + c < m THEN a + c ELSE a + c - m
      /\ d \in 0 .. m - 1
  BY <1>2, Advance
<1>4. (d - b) % m = IF d >= b THEN d - b ELSE d - b + m
  BY <1>3, Distance
<1> QED BY <1>1, <1>3, <1>4

(* One turn of the ring.                                                       *)
LEMMA ModTurn ==
  ASSUME NEW m \in Nat \ {0}, NEW x \in Int
  PROVE  (x - m) % m = x % m
<1>1. -1 \in Int
  OBVIOUS
<1>2. (x + m * (-1)) % m = x % m
  BY <1>1, ModTurns, Zenon
<1>3. x + m * (-1) = x - m
  BY SMTT(20)
<1> QED BY <1>2, <1>3

(* The distance to a counter that h was added to is h less.                    *)
LEMMA FurtherBack ==
  ASSUME NEW m \in Nat \ {0}, NEW a \in 0 .. m - 1, NEW r \in 0 .. m - 1, NEW h \in Nat,
         ((a - ((r + h) % m)) % m) + h < m
  PROVE  (a - r) % m = ((a - ((r + h) % m)) % m) + h
<1> DEFINE z == (r + h) % m
           x == (a - z) % m
           y == (a - r) % m
<1>1. h \in 0 .. m - 1
  <2>1. z \in Int
    BY ModRange
  <2> HIDE DEF z
  <2>2. x \in Nat
    BY <2>1, ModRange
  <2>3. x + h < m
    BY DEF z
  <2> HIDE DEF x
  <2> QED BY <2>2, <2>3
<1>2. (z = IF r + h < m THEN r + h ELSE r + h - m) /\ z \in 0 .. m - 1
  BY <1>1, Advance
<1>3. x + h < m
  OBVIOUS
<1> HIDE DEF z
<1>4. /\ x = IF a >= z THEN a - z ELSE a - z + m
      /\ y = IF a >= r THEN a - r ELSE a - r + m
  BY <1>2, Distance
<1> HIDE DEF x, y
<1>5. y = x + h
  BY <1>1, <1>2, <1>3, <1>4
<1> QED BY <1>5 DEF x, y, z

(* (x + 3) & ~0x03 is the next multiple of an int.                             *)
LEMMA AlignUpIs ==
  ASSUME NEW x \in Nat
  PROVE  /\ AlignUp(x) \in x .. x + WORD - 1
         /\ AlignUp(x) % WORD = 0
<1> DEFINE d == (x + WORD - 1) \div WORD
           s == (x + WORD - 1) % WORD
<1>1. WORD \in Nat \ {0}
  BY WordAssumption
<1>2. d \in Int /\ s \in 0 .. WORD - 1 /\ x + WORD - 1 = WORD * d + s
  BY <1>1, SMTT(20)
<1>3. AlignUp(x) = d * WORD
  BY DEF AlignUp
<1> HIDE DEF d, s
<1>4. d * WORD = 0 + WORD * d /\ d * WORD = x + WORD - 1 - s
  BY <1>1, <1>2
<1>5. (0 + WORD * d) % WORD = 0 % WORD
  BY <1>1, <1>2, ModTurns
<1>6. 0 % WORD = 0
  BY <1>1, ModBelow
<1> QED BY <1>1, <1>2, <1>3, <1>4, <1>5, <1>6

(* Two multiples of m less than m apart are the same.                          *)
LEMMA Multiples ==
  ASSUME NEW m \in Nat \ {0}, NEW x \in Int, NEW y \in Int,
         x % m = 0, y % m = 0, x - y < m
  PROVE  x <= y
<1> DEFINE a == x \div m
           b == y \div m
<1>1. a \in Int /\ b \in Int /\ x = m * a /\ y = m * b
  BY SMTT(20)
<1> HIDE DEF a, b
<1>2. m * (a - b) < m
  BY <1>1, SMTT(20)
<1>3. \A e \in Int : e >= 1 => m * e >= m
  BY SMTT(20)
<1>4. a - b <= 0
  BY <1>1, <1>2, <1>3
<1>5. \A e \in Int : e <= 0 => m * e <= 0
  BY SMTT(20)
<1>6. m * (a - b) <= 0
  BY <1>1, <1>4, <1>5
<1>7. m * (a - b) = x - y
  BY <1>1, SMTT(20)
<1> QED BY <1>6, <1>7

(* Sums and differences of multiples are multiples.                            *)
LEMMA MultipleSum ==
  ASSUME NEW m \in Nat \ {0}, NEW x \in Int, NEW y \in Int, x % m = 0, y % m = 0
  PROVE  (x + y) % m = 0 /\ (x - y) % m = 0
<1>1. ((x % m) + y) % m = (x + y) % m
  BY ModPlus
<1>2. ((x % m) - (y % m)) % m = (x - y) % m
  BY ModMinus
<1>3. 0 + y = y /\ 0 - 0 = 0 /\ 0 % m = 0
  BY ModBelow
<1> QED BY <1>1, <1>2, <1>3

(* A multiple at or above x is at or above x rounded up.                       *)
LEMMA AlignUpLeast ==
  ASSUME NEW x \in Nat, NEW y \in Nat, x <= y, y % WORD = 0
  PROVE  AlignUp(x) <= y
<1>1. WORD \in Nat \ {0} /\ AlignUp(x) \in x .. x + WORD - 1 /\ AlignUp(x) % WORD = 0
  BY WordAssumption, AlignUpIs
<1> DEFINE a == AlignUp(x)
<1> HIDE DEF a
<1>2. a \in Int /\ y \in Int /\ a % WORD = 0 /\ a - y < WORD
  BY <1>1 DEF a
<1>3. a <= y
  BY <1>1, <1>2, Multiples
<1> QED BY <1>3 DEF a

(* The remainder of a multiple is one, if the divisor is.                      *)
LEMMA MultipleMod ==
  ASSUME NEW m \in Nat \ {0}, NEW u \in Nat \ {0}, u % m = 0, NEW x \in Int, x % m = 0
  PROVE  (x % u) % m = 0
  BY WrapPlain

-----------------------------------------------------------------------------
(* The rings.                                                                  *)

Counts == variant.room # "offsets"

(* The fields of the ring under study, and what goes together in them.         *)
LEMMA VariantFields ==
  ASSUME variant \in Variants
  PROVE  /\ Size \in Nat \ {0} /\ Size % WORD = 0 /\ 2 * (Size + 2 * WORD) <= WRAP
         /\ variant.limit \in Nat /\ variant.room \in {"counted", "headerless", "sum", "capacity", "offsets"}
         /\ variant.empty \in {"equal", "past"}
         /\ variant.aligns \in BOOLEAN /\ variant.rounds \in BOOLEAN /\ variant.mirror \in BOOLEAN
         /\ variant.resets \in BOOLEAN /\ variant.erases \in BOOLEAN
         /\ variant.aligns <=> variant.room \in {"counted", "headerless"}
         /\ variant.rounds <=> variant.room = "capacity"
         /\ variant.rounds => WRAP % Size = 0
         /\ ~Counts => variant.empty = "equal" /\ ~variant.aligns /\ ~variant.rounds
         /\ variant.erases => ~variant.aligns
  BY VariantAssumption, RingAssumption DEF Variant, Size, Counts

(* An int fits the counters; so do two messages.                               *)
LEMMA Units ==
  /\ WORD \in Nat \ {0} /\ WRAP \in Nat \ {0} /\ WRAP % WORD = 0 /\ NIDS \in Nat \ {0}
  /\ \A len \in Lens : len \in Nat \ {0} /\ 2 * len < WRAP
<1>1. WORD \in Nat \ {0} /\ WRAP \in Nat \ {0} /\ WRAP % (2 * WORD) = 0
  BY WordAssumption
<1> DEFINE t == WRAP \div (2 * WORD)
<1>2. 2 * WORD \in Nat \ {0}
  BY <1>1
<1> DEFINE ww == 2 * WORD
<1>3. \A m \in Nat \ {0} : WRAP % m = 0 => WRAP \div m \in Int /\ WRAP = m * (WRAP \div m)
  BY <1>1, SMTT(20)
<1>4. t \in Int /\ WRAP = ww * t
  BY <1>1, <1>2, <1>3
<1> HIDE DEF t
<1>5. WRAP = 0 + WORD * (2 * t) /\ 2 * t \in Int
  BY <1>1, <1>4, SMTT(20)
<1>6. (0 + WORD * (2 * t)) % WORD = 0 % WORD
  <2>1. 0 \in Int
    OBVIOUS
  <2> QED BY <1>1, <1>5, <2>1, ModTurns, Zenon
<1>7. 0 % WORD = 0
  BY <1>1, ModBelow
<1> QED BY <1>1, <1>5, <1>6, <1>7, LengthAssumption, RingAssumption

(* The sign bit is a multiple of an int.                                       *)
LEMMA SignBit ==
  \E half \in Nat : WRAP = 2 * half /\ WRAP \div 2 = half /\ half % WORD = 0 /\ half >= WORD
<1>1. WORD \in Nat \ {0} /\ WRAP \in Nat \ {0} /\ WRAP % (2 * WORD) = 0
  BY WordAssumption
<1> DEFINE t == WRAP \div (2 * WORD)
           ww == 2 * WORD
<1>2. 2 * WORD \in Nat \ {0}
  BY <1>1
<1>3. \A m \in Nat \ {0} : WRAP % m = 0 => WRAP \div m \in Int /\ WRAP = m * (WRAP \div m)
  BY <1>1, SMTT(20)
<1>4. t \in Int /\ WRAP = ww * t
  BY <1>1, <1>2, <1>3
<1> HIDE DEF t
<1> DEFINE half == WORD * t
<1>5. WRAP = 2 * half /\ half \in Int
  BY <1>1, <1>4, SMTT(20)
<1>6. (0 + WORD * t) % WORD = 0 % WORD
  <2>1. 0 \in Int
    OBVIOUS
  <2> QED BY <1>1, <1>4, <2>1, ModTurns, Zenon
<1>7. half % WORD = 0 /\ 0 % WORD = 0
  <2>1. 0 % WORD = 0
    BY <1>1, ModBelow
  <2>2. half = 0 + WORD * t
    BY <1>5
  <2> QED BY <1>6, <2>1, <2>2
<1> HIDE DEF half
<1>8. half \in Nat \ {0} /\ WRAP \div 2 = half
  BY <1>1, <1>5
<1>9. half >= WORD
  <2>1. 0 \in Int /\ half \in Int /\ 0 % WORD = 0
    BY <1>7, <1>8
  <2>2. ~(half - 0 < WORD)
    BY <2>1, <1>1, <1>7, <1>8, Multiples
  <2> QED BY <2>2, <1>1, <1>8
<1> QED BY <1>5, <1>7, <1>8, <1>9

(* What rounding a counter up does.                                            *)
LEMMA AlignedIs ==
  ASSUME variant \in Variants, NEW x \in 0 .. WRAP - 1
  PROVE  /\ Aligned(x) \in 0 .. WRAP - 1
         /\ (Aligned(x) - x) % WRAP \in 0 .. WORD - 1
         /\ Aligned(x) = (x + ((Aligned(x) - x) % WRAP)) % WRAP
         /\ x % WORD = 0 \/ ~variant.aligns => Aligned(x) = x
         /\ x % WORD = 0 \/ variant.aligns => Aligned(x) % WORD = 0
         /\ Aligned(x) = x => (Aligned(x) - x) % WRAP = 0
<1>1. /\ WORD \in Nat \ {0} /\ WRAP \in Nat \ {0} /\ WRAP % WORD = 0 /\ WORD <= WRAP
      /\ variant.aligns \in BOOLEAN
  BY Units, VariantFields
<1> DEFINE a == AlignUp(x)
           b == Aligned(x)
           g == (b - x) % WRAP
<1>2. a \in x .. x + WORD - 1 /\ a % WORD = 0
  BY <1>1, AlignUpIs
<1> HIDE DEF a
<1>3. a \in Int /\ a - WRAP < WORD
  BY <1>1, <1>2
<1>4. a <= WRAP
  <2>1. WRAP \in Int
    BY <1>1
  <2> QED BY <1>1, <1>2, <1>3, <2>1, Multiples
<1>5. b = IF variant.aligns THEN IF a = WRAP THEN 0 ELSE a ELSE x
  <2>1. a # WRAP => a % WRAP = a
    BY <1>1, <1>2, <1>4, ModBelow
  <2>2. WRAP % WRAP = 0
    BY <1>1, ModOver
  <2> QED BY <2>1, <2>2 DEF Aligned, a
<1> HIDE DEF b
<1>6. b \in 0 .. WRAP - 1
  BY <1>1, <1>2, <1>4, <1>5
<1>7. g = IF b >= x THEN b - x ELSE b - x + WRAP
  BY <1>1, <1>6, Distance
<1>8. x % WORD = 0 => a = x
  <2>1. x \in Int /\ a - x < WORD
    BY <1>1, <1>2
  <2>2. x % WORD = 0 => a <= x
    BY <1>1, <1>2, <1>3, <2>1, Multiples
  <2> QED BY <1>1, <1>2, <2>2
<1>9. 0 % WORD = 0
  BY <1>1, ModBelow
<1> HIDE DEF g
<1>10. g \in 0 .. WORD - 1
  BY <1>1, <1>2, <1>4, <1>5, <1>6, <1>7
<1>11. b = (x + g) % WRAP
  <2>1. g \in 0 .. WRAP - 1
    BY <1>1, <1>10
  <2>2. (x + g) % WRAP = IF x + g < WRAP THEN x + g ELSE x + g - WRAP
    BY <1>1, <2>1, Advance
  <2> QED BY <1>1, <1>6, <1>7, <2>2
<1>12. x % WORD = 0 \/ ~variant.aligns => b = x
  BY <1>1, <1>5, <1>8
<1>13. x % WORD = 0 \/ variant.aligns => b % WORD = 0
  BY <1>1, <1>2, <1>5, <1>9, <1>12
<1>14. b = x => g = 0
  BY <1>1, <1>7
<1> QED BY <1>6, <1>10, <1>11, <1>12, <1>13, <1>14 DEF b, g

(* A message takes its header, its bytes, and what rounds them up.             *)
LEMMA TakesIs ==
  ASSUME variant \in Variants, NEW len \in Lens \cup {0}
  PROVE  /\ len \in Nat /\ Takes(len) \in Nat \ {0} /\ WORD + len <= Takes(len)
         /\ Takes(len) < WORD + len + WORD
         /\ ~variant.rounds => Takes(len) = WORD + len
         /\ variant.rounds => Takes(len) = WORD + AlignUp(len)
         /\ variant.rounds \/ len % WORD = 0 => Takes(len) % WORD = 0
<1>1. WORD \in Nat \ {0} /\ variant.rounds \in BOOLEAN /\ len \in Nat
  BY Units, VariantFields
<1>2. AlignUp(len) \in len .. len + WORD - 1 /\ AlignUp(len) % WORD = 0
  BY <1>1, AlignUpIs
<1>3. Takes(len) = WORD + IF variant.rounds THEN AlignUp(len) ELSE len
  BY DEF Takes
<1>4. WORD % WORD = 0
  BY <1>1, ModOver
<1>5. ASSUME NEW k \in Int, k % WORD = 0
      PROVE  (WORD + k) % WORD = 0
  <2>1. WORD \in Int
    BY <1>1
  <2> QED BY <1>1, <1>4, <1>5, <2>1, MultipleSum
<1>6. AlignUp(len) \in Int /\ len \in Int
  BY <1>1, <1>2
<1>7. (WORD + AlignUp(len)) % WORD = 0
  BY <1>2, <1>5, <1>6
<1>8. len % WORD = 0 => (WORD + len) % WORD = 0
  BY <1>5, <1>6
<1> QED BY <1>1, <1>2, <1>3, <1>7, <1>8

(* Where a counter goes, ...                                                   *)
LEMMA PastCounts ==
  ASSUME variant \in Variants, Counts, NEW x \in 0 .. WRAP - 1, NEW n \in Nat, n < WRAP
  PROVE  /\ Past(x, n) = (x + n) % WRAP
         /\ Past(x, n) = IF x + n < WRAP THEN x + n ELSE x + n - WRAP
         /\ Past(x, n) \in 0 .. WRAP - 1
<1>1. WRAP \in Nat \ {0} /\ n \in 0 .. WRAP - 1
  BY Units
<1>2. Past(x, n) = (x + n) % WRAP
  BY DEF Past, Counts
<1> QED BY <1>1, <1>2, Advance

(* ... and an offset.                                                          *)
LEMMA PastOffset ==
  ASSUME variant \in Variants, ~Counts, NEW x \in 0 .. Size, NEW n \in 0 .. Size
  PROVE  /\ Past(x, n) = IF x + n > Size THEN x + n - Size ELSE x + n
         /\ Past(x, n) \in 0 .. Size /\ Past(x, n) \in 0 .. WRAP - 1
<1>1. /\ Size \in Nat \ {0} /\ 2 * (Size + 2 * WORD) <= WRAP
      /\ WORD \in Nat \ {0} /\ WRAP \in Nat \ {0}
  BY Units, VariantFields
<1>2. Past(x, n) = IF x + n > Size THEN x + n - Size ELSE x + n
  BY DEF Past, Counts
<1> QED BY <1>1, <1>2

-----------------------------------------------------------------------------
(* The messages in the ring, one behind the other.                             *)

MessageType == [id : 1 .. NIDS, len : Lens, w : 0 .. WRAP - 1, gap : 0 .. WORD - 1, takes : Nat]

GoodMessage(m) ==
  /\ m \in MessageType /\ m.takes = Takes(m.len)
  /\ Counts /\ WRAP % Size # 0 => m.w + WORD + m.len < WRAP
  /\ ~Counts => m.w <= Size

(* Their distances o from the first one, in cells.                             *)
Offsets(L, o) ==
  /\ L \in Seq(MessageType)
  /\ o \in [1 .. Len(L) -> Nat]
  /\ L # <<>> => o[1] = 0
  /\ \A i \in 1 .. Len(L) - 1 : o[i + 1] = o[i] + L[i].takes + L[i + 1].gap

(* They fit into the ring, and none reaches into another.                      *)
Laid(L, o) ==
  /\ Offsets(L, o)
  /\ \A i \in 1 .. Len(L) : GoodMessage(L[i])
  /\ \A i \in 1 .. Len(L) - 1 : L[i + 1].w = Aligned(Past(L[i].w, L[i].takes))
  /\ \A i, j \in 1 .. Len(L) : i < j => o[i] + L[i].takes <= o[j]
  /\ \A i \in 1 .. Len(L) : o[i] + L[i].takes <= Size
  /\ \A i \in 1 .. Len(L) : L[i].w % Size = (L[1].w + o[i]) % Size
  /\ Counts => \A i \in 1 .. Len(L) : o[i] = (L[i].w - L[1].w) % WRAP

(* Where the last one ends.                                                    *)
End(L, o) == IF L = <<>> THEN 0 ELSE o[Len(L)] + L[Len(L)].takes

(* The parts of a row, for all the proofs below.                               *)
LEMMA RowParts ==
  ASSUME variant \in Variants, NEW L, NEW o, Laid(L, o)
  PROVE  /\ L \in Seq(MessageType) /\ Len(L) \in Nat /\ (L = <<>> <=> Len(L) = 0)
         /\ L # <<>> => Len(L) \in 1 .. Len(L) /\ 1 \in 1 .. Len(L)
         /\ \A i \in 1 .. Len(L) :
              /\ GoodMessage(L[i]) /\ L[i] \in MessageType
              /\ L[i].w \in 0 .. WRAP - 1 /\ L[i].len \in Lens /\ L[i].takes = Takes(L[i].len)
              /\ L[i].takes \in Nat \ {0} /\ WORD + L[i].len <= L[i].takes /\ L[i].takes <= Size
              /\ o[i] \in Nat /\ o[i] + L[i].takes <= Size
         /\ End(L, o) \in 0 .. Size
<1>1. L \in Seq(MessageType) /\ o \in [1 .. Len(L) -> Nat] /\ Len(L) \in Nat /\ (L = <<>> <=> Len(L) = 0)
  BY EmptySeq, LenProperties DEF Laid, Offsets
<1>2. \A i \in 1 .. Len(L) : L[i] \in MessageType
  BY <1>1, ElementOfSeq
<1>3. L # <<>> => Len(L) \in 1 .. Len(L) /\ 1 \in 1 .. Len(L)
  BY <1>1
<1>4. ASSUME NEW i \in 1 .. Len(L)
      PROVE  /\ GoodMessage(L[i]) /\ L[i].w \in 0 .. WRAP - 1 /\ L[i].len \in Lens
             /\ L[i].takes = Takes(L[i].len)
             /\ L[i].takes \in Nat \ {0} /\ WORD + L[i].len <= L[i].takes /\ L[i].takes <= Size
             /\ o[i] \in Nat /\ o[i] + L[i].takes <= Size
  <2>1. GoodMessage(L[i]) /\ o[i] + L[i].takes <= Size /\ o[i] \in Nat
    BY <1>1 DEF Laid
  <2>2. L[i].w \in 0 .. WRAP - 1 /\ L[i].len \in Lens /\ L[i].takes = Takes(L[i].len)
    BY <2>1 DEF GoodMessage, MessageType
  <2>3. Takes(L[i].len) \in Nat \ {0} /\ WORD + L[i].len <= Takes(L[i].len)
    BY <2>2, TakesIs
  <2>4. Size \in Nat
    BY VariantFields
  <2> QED BY <2>1, <2>2, <2>3, <2>4
<1>5. End(L, o) \in 0 .. Size
  <2>1. Size \in Nat
    BY VariantFields
  <2>2. CASE L = <<>>
    BY <2>1, <2>2 DEF End
  <2>3. CASE L # <<>>
    <3>1. /\ o[Len(L)] \in Nat /\ L[Len(L)].takes \in Nat
          /\ o[Len(L)] + L[Len(L)].takes <= Size
      BY <2>3, <1>3, <1>4
    <3> QED BY <2>1, <2>3, <3>1 DEF End
  <2> QED BY <2>2, <2>3
<1> QED BY <1>1, <1>2, <1>3, <1>4, <1>5

(* A cell of a message is where the counter past the cells before it points.   *)
LEMMA PastPlace ==
  ASSUME variant \in Variants, NEW m, GoodMessage(m), m.takes <= Size, NEW n \in 0 .. m.takes
  PROVE  /\ Past(m.w, n) % Size = (m.w + n) % Size
         /\ Past(m.w, n) \in 0 .. WRAP - 1
         /\ ~Counts => Past(m.w, n) \in 0 .. Size
         /\ Counts /\ WRAP % Size # 0 => Past(m.w, n) = m.w + n
<1>1. /\ Size \in Nat \ {0} /\ 2 * (Size + 2 * WORD) <= WRAP /\ variant.rounds \in BOOLEAN
      /\ variant.rounds => WRAP % Size = 0
      /\ WORD \in Nat \ {0} /\ WRAP \in Nat \ {0}
  BY Units, VariantFields
<1>2. /\ m.w \in 0 .. WRAP - 1 /\ m.len \in Lens /\ m.takes = Takes(m.len) /\ m.takes \in Nat
      /\ m.len \in Nat /\ (~variant.rounds => m.takes = WORD + m.len)
      /\ Counts /\ WRAP % Size # 0 => m.w + WORD + m.len < WRAP
      /\ ~Counts => m.w \in 0 .. Size
  BY <1>1, TakesIs DEF GoodMessage, MessageType
<1>3. n \in Nat /\ n <= Size /\ n < WRAP
  BY <1>1, <1>2
<1>4. CASE Counts
  <2>1. /\ Past(m.w, n) = (m.w + n) % WRAP
        /\ Past(m.w, n) = IF m.w + n < WRAP THEN m.w + n ELSE m.w + n - WRAP
        /\ Past(m.w, n) \in 0 .. WRAP - 1
    BY <1>2, <1>3, <1>4, PastCounts
  <2>2. CASE WRAP % Size = 0
    <3>1. m.w + n \in Int
      BY <1>2, <1>3
    <3>2. ((m.w + n) % WRAP) % Size = (m.w + n) % Size
      BY <1>1, <2>2, <3>1, WrapPlain, Zenon
    <3> QED BY <1>4, <2>1, <2>2, <3>2
  <2>3. CASE WRAP % Size # 0
    <3>1. m.w + n < WRAP
      BY <1>1, <1>2, <1>3, <1>4, <2>3
    <3> QED BY <1>4, <2>1, <3>1
  <2> QED BY <2>2, <2>3
<1>5. CASE ~Counts
  <2>1. n \in 0 .. Size
    BY <1>1, <1>3
  <2>2. /\ Past(m.w, n) = IF m.w + n > Size THEN m.w + n - Size ELSE m.w + n
        /\ Past(m.w, n) \in 0 .. Size /\ Past(m.w, n) \in 0 .. WRAP - 1
    BY <1>2, <1>5, <2>1, PastOffset
  <2>3. (m.w + n - Size) % Size = (m.w + n) % Size
    <3> DEFINE x == m.w + n
    <3>1. x \in Int /\ Size \in Nat \ {0}
      BY <1>1, <1>2, <1>3
    <3>2. m.w + n - Size = x - Size
      BY <1>1, <1>2, <1>3
    <3> HIDE DEF x
    <3>3. (x - Size) % Size = x % Size
      BY <3>1, ModTurn, Zenon
    <3> QED BY <3>2, <3>3 DEF x
  <2> QED BY <1>5, <2>2, <2>3
<1> QED BY <1>4, <1>5

(* Any message may follow, as far as offsets go, ...                           *)
Start(L, o, m) == IF L = <<>> THEN 0 ELSE End(L, o) + m.gap
Longer(L, o, m) == [i \in 1 .. Len(L) + 1 |-> IF i <= Len(L) THEN o[i] ELSE Start(L, o, m)]

LEMMA AppendParts ==
  ASSUME NEW L \in Seq(MessageType), NEW m \in MessageType
  PROVE  /\ Append(L, m) \in Seq(MessageType) /\ Append(L, m) # <<>>
         /\ Len(L) \in Nat /\ Len(Append(L, m)) = Len(L) + 1
         /\ \A i \in 1 .. Len(L) : Append(L, m)[i] = L[i]
         /\ Append(L, m)[Len(L) + 1] = m
  BY AppendProperties, LenProperties, EmptySeq

LEMMA MessageFields ==
  ASSUME NEW m \in MessageType
  PROVE  /\ m.id \in 1 .. NIDS /\ m.len \in Lens /\ m.w \in 0 .. WRAP - 1 /\ m.gap \in 0 .. WORD - 1
         /\ m.takes \in Nat /\ m.gap \in Nat
  BY Units DEF MessageType

LEMMA OffsetsAppend ==
  ASSUME NEW L, NEW o, Offsets(L, o), NEW m \in MessageType
  PROVE  /\ Offsets(Append(L, m), Longer(L, o, m))
         /\ End(Append(L, m), Longer(L, o, m)) = Start(L, o, m) + m.takes
<1> DEFINE K == Append(L, m)
           p == Longer(L, o, m)
           a == Start(L, o, m)
<1>1. L \in Seq(MessageType) /\ o \in [1 .. Len(L) -> Nat] /\ Len(L) \in Nat /\ (L = <<>> <=> Len(L) = 0)
  BY EmptySeq, LenProperties DEF Offsets
<1>2. /\ K \in Seq(MessageType) /\ K # <<>> /\ Len(K) = Len(L) + 1
      /\ \A i \in 1 .. Len(L) : K[i] = L[i]
      /\ K[Len(L) + 1] = m
  BY <1>1, AppendParts
<1>3. \A i \in 1 .. Len(L) : o[i] \in Nat /\ L[i].takes \in Nat
  <2>1. \A i \in 1 .. Len(L) : L[i] \in MessageType
    BY <1>1, ElementOfSeq
  <2> QED BY <1>1, <2>1 DEF MessageType
<1>4. m.gap \in Nat /\ m.takes \in Nat
  BY Units DEF MessageType
<1>5. L # <<>> => a = o[Len(L)] + L[Len(L)].takes + m.gap
  BY <1>1, <1>3 DEF Start, End
<1>6. L = <<>> => a = 0
  BY DEF Start
<1>7. a \in Nat
  BY <1>1, <1>3, <1>4, <1>5, <1>6
<1> HIDE DEF K, a
<1>8. /\ p \in [1 .. Len(K) -> Nat]
      /\ \A i \in 1 .. Len(L) : p[i] = o[i]
      /\ p[Len(L) + 1] = a
  BY <1>1, <1>2, <1>3, <1>7 DEF Longer, a
<1> HIDE DEF p
<1>9. p[1] = 0
  <2>1. CASE L = <<>>
    BY <2>1, <1>1, <1>6, <1>8
  <2>2. CASE L # <<>>
    BY <2>2, <1>1, <1>8 DEF Offsets
  <2> QED BY <2>1, <2>2
<1>10. ASSUME NEW i \in 1 .. Len(K) - 1
       PROVE  p[i + 1] = p[i] + K[i].takes + K[i + 1].gap
  <2>1. CASE i = Len(L)
    <3>1. L # <<>> /\ i \in 1 .. Len(L) /\ i + 1 = Len(L) + 1
      BY <2>1, <1>1, <1>2
    <3> QED BY <3>1, <2>1, <1>2, <1>5, <1>8
  <2>2. CASE i # Len(L)
    <3>1. i \in 1 .. Len(L) - 1 /\ i \in 1 .. Len(L) /\ i + 1 \in 1 .. Len(L)
      BY <2>2, <1>1, <1>2
    <3>2. o[i + 1] = o[i] + L[i].takes + L[i + 1].gap
      BY <3>1 DEF Offsets
    <3> QED BY <3>1, <3>2, <1>2, <1>8
  <2> QED BY <2>1, <2>2
<1>11. Offsets(K, p)
  BY <1>2, <1>8, <1>9, <1>10 DEF Offsets
<1>12. End(K, p) = a + m.takes
  BY <1>1, <1>2, <1>8 DEF End
<1> QED BY <1>11, <1>12 DEF K, p, a

(* ... and what they take up is where the last one ends. (The sums in          *)
(* Footprint are those of the offsets, one gap further.)                       *)
LEMMA FootprintIs ==
  ASSUME NEW L, NEW o, Offsets(L, o)
  PROVE  Footprint(L) = End(L, o)
<1>1. CASE L = <<>>
  BY <1>1 DEF Footprint, End
<1>2. CASE L # <<>>
  <2>1. L \in Seq(MessageType) /\ o \in [1 .. Len(L) -> Nat] /\ Len(L) \in Nat \ {0} /\ Head(L) = L[1]
    BY <1>2, EmptySeq, LenProperties DEF Offsets
  <2>2. \A i \in 1 .. Len(L) : o[i] \in Nat /\ L[i].takes \in Nat /\ L[i].gap \in Nat
    <3>1. \A i \in 1 .. Len(L) : L[i] \in MessageType
      BY <2>1, ElementOfSeq
    <3> QED BY <2>1, <3>1, MessageFields
  <2> DEFINE n == Len(L)
             f == [k \in 0 .. n |-> IF k = 0 THEN 0 ELSE o[k] + L[k].takes + L[1].gap]
             u == CHOOSE g : g = [k \in 0 .. n |-> IF k = 0 THEN 0 ELSE g[k - 1] + L[k].gap + L[k].takes]
  <2>3. \A k \in 0 .. n : f[k] = IF k = 0 THEN 0 ELSE f[k - 1] + L[k].gap + L[k].takes
    <3>1. o[1] = 0 /\ \A i \in 1 .. n - 1 : o[i + 1] = o[i] + L[i].takes + L[i + 1].gap
      BY <1>2 DEF Offsets
    <3>2. ASSUME NEW k \in 0 .. n
          PROVE  f[k] = IF k = 0 THEN 0 ELSE f[k - 1] + L[k].gap + L[k].takes
      <4>1. CASE k = 0
        BY <4>1, <2>1
      <4>2. CASE k = 1
        BY <4>2, <2>1, <2>2, <3>1
      <4>3. CASE k > 1
        <5>1. k - 1 \in 1 .. n - 1 /\ k - 1 \in 0 .. n /\ (k - 1) + 1 = k
              /\ k - 1 \in 1 .. n /\ k \in 1 .. n /\ 1 \in 1 .. n
          BY <4>3, <2>1
        <5>2. o[k] = o[k - 1] + L[k - 1].takes + L[k].gap
          BY <5>1, <3>1
        <5>3. f[k] = o[k] + L[k].takes + L[1].gap /\ f[k - 1] = o[k - 1] + L[k - 1].takes + L[1].gap
          BY <4>3, <5>1
        <5> HIDE DEF f
        <5> QED BY <4>3, <5>1, <5>2, <5>3, <2>2
      <4> QED BY <4>1, <4>2, <4>3, <2>1
    <3> QED BY <3>2
  <2>4. f = [k \in 0 .. n |-> IF k = 0 THEN 0 ELSE f[k - 1] + L[k].gap + L[k].takes]
    <3>1. DOMAIN f = 0 .. n /\ f = [k \in 0 .. n |-> f[k]]
      OBVIOUS
    <3> HIDE DEF f
    <3> QED BY <2>3, <3>1
  <2>5. u = [k \in 0 .. n |-> IF k = 0 THEN 0 ELSE u[k - 1] + L[k].gap + L[k].takes]
    <3> HIDE DEF f
    <3> QED BY <2>4
  <2>6. Footprint(L) = u[n] - L[1].gap
    BY <1>2, <2>1 DEF Footprint
  <2> HIDE DEF u
  <2>7. \A k \in 0 .. n : u[k] = f[k]
    <3> DEFINE Bad == {k \in 0 .. n : u[k] # f[k]}
    <3>1. CASE Bad = {}
      BY <3>1
    <3>2. CASE Bad # {}
      <4>1. Bad \subseteq Nat
        BY <2>1
      <4>2. PICK k \in Bad : \A l \in Bad : ~(<<l, k>> \in OpToRel(<, Nat))
        BY <3>2, <4>1, NatLessThanWellFounded, WFMin
      <4>3. k \in 0 .. n /\ u[k] # f[k] /\ \A l \in 0 .. n : l < k => u[l] = f[l]
        BY <4>1, <4>2, <2>1 DEF OpToRel
      <4>4. CASE k = 0
        <5>1. u[0] = 0 /\ f[0] = 0
          BY <2>1, <2>3, <2>5
        <5> QED BY <4>3, <4>4, <5>1
      <4>5. CASE k # 0
        <5>1. k - 1 \in 0 .. n /\ k - 1 < k
          BY <4>3, <4>5, <2>1
        <5>2. u[k - 1] = f[k - 1]
          BY <4>3, <5>1
        <5>3. u[k] = u[k - 1] + L[k].gap + L[k].takes
          BY <2>5, <4>3, <4>5
        <5>4. f[k] = f[k - 1] + L[k].gap + L[k].takes
          BY <2>3, <4>3, <4>5
        <5> HIDE DEF f
        <5> QED BY <4>3, <5>2, <5>3, <5>4
      <4> QED BY <4>4, <4>5
    <3> QED BY <3>1, <3>2
  <2>8. f[n] = o[n] + L[n].takes + L[1].gap
    BY <2>1
  <2> HIDE DEF f
  <2> QED BY <1>2, <2>1, <2>2, <2>6, <2>7, <2>8 DEF End
<1> QED BY <1>1, <1>2

(* So what a row takes up with one message more.                               *)
LEMMA FootprintAppend ==
  ASSUME NEW L, NEW o, Offsets(L, o), NEW m \in MessageType
  PROVE  Footprint(Append(L, m)) = Start(L, o, m) + m.takes
BY OffsetsAppend, FootprintIs

(* A message that fits and stands where the counter points is laid behind the  *)
(* others, ...                                                                 *)
Follows(L, m) ==
  L # <<>> => LET e == Past(L[Len(L)].w, L[Len(L)].takes)
              IN /\ m.w = Aligned(e) /\ m.gap = (m.w - e) % WRAP
                 /\ Counts /\ WRAP % Size # 0 => m.w >= e

LEMMA RowAppend ==
  ASSUME variant \in Variants, NEW L, NEW o, Laid(L, o), NEW m, GoodMessage(m), Follows(L, m),
         Footprint(Append(L, m)) <= Size
  PROVE  Laid(Append(L, m), Longer(L, o, m))
<1> DEFINE K == Append(L, m)
           p == Longer(L, o, m)
           a == Start(L, o, m)
           n == Len(L)
           l == L[n]
           e == Past(l.w, l.takes)
<1>1. /\ Size \in Nat \ {0} /\ 2 * (Size + 2 * WORD) <= WRAP /\ WORD \in Nat \ {0} /\ WRAP \in Nat \ {0}
      /\ (~Counts => ~variant.aligns) /\ variant.aligns \in BOOLEAN
  BY Units, VariantFields
<1>2. /\ n \in Nat /\ (L = <<>> <=> n = 0) /\ (L # <<>> => n \in 1 .. n)
      /\ \A i \in 1 .. n :
              /\ GoodMessage(L[i])
              /\ L[i].w \in 0 .. WRAP - 1 /\ L[i].takes \in Nat \ {0} /\ L[i].takes <= Size
              /\ o[i] \in Nat /\ o[i] + L[i].takes <= Size
      /\ End(L, o) \in 0 .. Size /\ L \in Seq(MessageType)
  BY RowParts
<1>3. /\ m \in MessageType /\ m.w \in 0 .. WRAP - 1 /\ m.gap \in 0 .. WORD - 1 /\ m.takes \in Nat
  <2>1. m \in MessageType
    BY DEF GoodMessage
  <2> QED BY <2>1, MessageFields
<1>4. /\ K # <<>> /\ Len(K) = n + 1 /\ K[n + 1] = m /\ \A i \in 1 .. n : K[i] = L[i]
  BY <1>2, <1>3, AppendParts
<1>5. Offsets(L, o)
  BY DEF Laid
<1>6. Offsets(K, p) /\ a + m.takes <= Size
  <2>1. Offsets(K, p) /\ End(K, p) = a + m.takes
    BY <1>3, <1>5, OffsetsAppend
  <2> QED BY <2>1, FootprintIs
<1>7. a = IF L = <<>> THEN 0 ELSE o[n] + l.takes + m.gap
  BY DEF Start, End
<1>8. a \in Nat
  BY <1>1, <1>2, <1>3, <1>7
<1>9. /\ \A i \in 1 .. n : p[i] = o[i]
      /\ p[n + 1] = a
  <2> HIDE DEF a
  <2> QED BY <1>2, <1>8 DEF Longer, a
<1>10. \A i \in 1 .. n + 1 : i \in 1 .. n \/ i = n + 1
  BY <1>2
<1> HIDE DEF K, p, a
<1>11. \A i \in 1 .. n + 1 : GoodMessage(K[i])
  BY <1>2, <1>4, <1>10
<1>12. ASSUME NEW i \in 1 .. n
       PROVE  K[i + 1].w = Aligned(Past(K[i].w, K[i].takes))
  <2>1. CASE i = n
    <3>1. L # <<>>
      BY <2>1, <1>2
    <3> QED BY <2>1, <3>1, <1>4 DEF Follows
  <2>2. CASE i # n
    <3>1. i \in 1 .. n - 1 /\ i + 1 \in 1 .. n
      BY <2>2, <1>2
    <3>2. L[i + 1].w = Aligned(Past(L[i].w, L[i].takes))
      BY <3>1 DEF Laid
    <3> QED BY <3>1, <3>2, <1>4
  <2> QED BY <2>1, <2>2
<1>13. ASSUME NEW i \in 1 .. n + 1, NEW j \in 1 .. n + 1, i < j
       PROVE  p[i] + K[i].takes <= p[j]
  <2>1. CASE j = n + 1
    <3>1. i \in 1 .. n /\ L # <<>>
      BY <2>1, <1>2, <1>13
    <3>2. i = n \/ o[i] + L[i].takes <= o[n]
      BY <3>1, <1>2 DEF Laid
    <3>3. p[i] + K[i].takes = o[i] + L[i].takes /\ p[j] = a
      BY <2>1, <3>1, <1>4, <1>9
    <3>4. o[i] \in Nat /\ L[i].takes \in Nat /\ o[n] \in Nat /\ l.takes \in Nat
      BY <3>1, <1>2
    <3> HIDE DEF l
    <3>5. a = o[n] + l.takes + m.gap
      BY <1>7, <3>1
    <3>6. i = n => L[i].takes = l.takes
      BY DEF l
    <3> QED BY <3>2, <3>3, <3>4, <3>5, <3>6, <1>3
  <2>2. CASE j # n + 1
    <3>1. i \in 1 .. n /\ j \in 1 .. n
      BY <2>2, <1>2, <1>13
    <3>2. o[i] + L[i].takes <= o[j]
      BY <3>1, <1>13 DEF Laid
    <3> QED BY <3>1, <3>2, <1>4, <1>9
  <2> QED BY <2>1, <2>2
<1>14. \A i \in 1 .. n + 1 : p[i] + K[i].takes <= Size
  BY <1>2, <1>4, <1>6, <1>9, <1>10
<1>15. L # <<>> =>
         /\ l.w \in 0 .. WRAP - 1 /\ l.takes \in Nat /\ l.takes <= Size /\ o[n] \in Nat
         /\ e % Size = (l.w + l.takes) % Size /\ e \in 0 .. WRAP - 1
         /\ l.w % Size = (L[1].w + o[n]) % Size /\ L[1].w \in 0 .. WRAP - 1
         /\ m.w = Aligned(e) /\ m.gap = (m.w - e) % WRAP
         /\ (Counts /\ WRAP % Size # 0 => m.w >= e)
         /\ m.w = (e + m.gap) % WRAP
         /\ (~Counts => m.w = e /\ m.gap = 0)
  <2> SUFFICES ASSUME L # <<>>
               PROVE  /\ l.w \in 0 .. WRAP - 1 /\ l.takes \in Nat /\ l.takes <= Size /\ o[n] \in Nat
                      /\ e % Size = (l.w + l.takes) % Size /\ e \in 0 .. WRAP - 1
                      /\ l.w % Size = (L[1].w + o[n]) % Size /\ L[1].w \in 0 .. WRAP - 1
                      /\ m.w = Aligned(e) /\ m.gap = (m.w - e) % WRAP
                      /\ (Counts /\ WRAP % Size # 0 => m.w >= e)
                      /\ m.w = (e + m.gap) % WRAP
                      /\ (~Counts => m.w = e /\ m.gap = 0)
    OBVIOUS
  <2>1. n \in 1 .. n /\ 1 \in 1 .. n
    BY <1>2
  <2>2. /\ GoodMessage(l) /\ l.w \in 0 .. WRAP - 1 /\ l.takes \in Nat /\ l.takes <= Size /\ o[n] \in Nat
        /\ L[1].w \in 0 .. WRAP - 1
    BY <1>2, <2>1
  <2>3. l.w % Size = (L[1].w + o[n]) % Size
    BY <2>1 DEF Laid
  <2>4. e % Size = (l.w + l.takes) % Size /\ e \in 0 .. WRAP - 1
    <3> HIDE DEF l
    <3>1. l.takes \in 0 .. l.takes
      BY <2>2
    <3> QED BY <2>2, <3>1, PastPlace
  <2>5. /\ m.w = Aligned(e) /\ m.gap = (m.w - e) % WRAP
        /\ (Counts /\ WRAP % Size # 0 => m.w >= e)
    BY DEF Follows
  <2> HIDE DEF e
  <2>6. m.w = (e + m.gap) % WRAP /\ (~Counts => m.w = e /\ m.gap = 0)
    BY <2>4, <2>5, <1>1, AlignedIs
  <2> QED BY <2>2, <2>3, <2>4, <2>5, <2>6
<1>16. m.w % Size = (K[1].w + a) % Size
  <2>1. CASE L = <<>>
    <3>1. K[1] = m /\ a = 0
      BY <2>1, <1>2, <1>4, <1>7
    <3> QED BY <3>1, <1>3
  <2>2. CASE L # <<>>
    <3> DEFINE b == L[1].w
               lw == l.w
               lt == l.takes
               on == o[n]
               g == m.gap
               mw == m.w
               s == Size
    <3>1. K[1].w = b /\ a = on + lt + g
      BY <2>2, <1>2, <1>4, <1>7
    <3> HIDE DEF l, e
    <3>2. /\ lw \in Int /\ lt \in Int /\ on \in Int /\ g \in Int /\ b \in Int /\ mw \in Int /\ e \in Int
          /\ s \in Nat \ {0} /\ g \in 0 .. WRAP - 1
      <4>1. /\ l.w \in 0 .. WRAP - 1 /\ l.takes \in Nat /\ o[n] \in Nat /\ e \in 0 .. WRAP - 1
            /\ L[1].w \in 0 .. WRAP - 1
        BY <2>2, <1>15, Zenon
      <4> QED BY <4>1, <1>1, <1>3
    <3>3. /\ K[1].w = b /\ a = on + lt + g
          /\ lw \in Int /\ lt \in Int /\ on \in Int /\ g \in Int /\ b \in Int /\ mw \in Int /\ e \in Int
          /\ s \in Nat \ {0}
          /\ e % s = (lw + lt) % s /\ lw % s = (b + on) % s
          /\ mw = (e + g) % WRAP /\ e \in 0 .. WRAP - 1 /\ g \in 0 .. WRAP - 1
          /\ (Counts /\ WRAP % s # 0 => mw >= e)
          /\ (~Counts => mw = e /\ g = 0)
      BY <2>2, <3>1, <3>2, <1>15, Zenon
    <3> HIDE DEF b, lw, lt, on, g, mw, s
    <3>4. mw % s = (e + g) % s
      <4>1. CASE WRAP % s = 0
        <5>1. e + g \in Int
          BY <3>3
        <5>2. ((e + g) % WRAP) % s = (e + g) % s
          BY <1>1, <3>3, <4>1, <5>1, WrapPlain, Zenon
        <5> QED BY <5>2, <3>3, Zenon
      <4>2. CASE Counts /\ WRAP % s # 0
        <5>1. mw = IF e + g < WRAP THEN e + g ELSE e + g - WRAP
          BY <1>1, <3>3, Advance
        <5>2. mw = e + g
          BY <1>1, <3>3, <4>2, <5>1
        <5> QED BY <5>2
      <4>3. CASE ~Counts
        BY <3>3, <4>3
      <4> QED BY <4>1, <4>2, <4>3
    <3>5. ((e % s) + g) % s = (e + g) % s
      BY <3>3, ModPlus, Zenon
    <3>6. (((lw + lt) % s) + g) % s = ((lw + lt) + g) % s
      <4>1. lw + lt \in Int
        BY <3>3
      <4> QED BY <3>3, <4>1, ModPlus, Zenon
    <3>7. ((lw % s) + (lt + g)) % s = (lw + (lt + g)) % s
      <4>1. lt + g \in Int
        BY <3>3
      <4> QED BY <3>3, <4>1, ModPlus, Zenon
    <3>8. (((b + on) % s) + (lt + g)) % s = ((b + on) + (lt + g)) % s
      <4>1. lt + g \in Int /\ b + on \in Int
        BY <3>3
      <4> QED BY <3>3, <4>1, ModPlus, Zenon
    <3>9. (lw + lt) + g = lw + (lt + g) /\ (b + on) + (lt + g) = b + a
      BY <3>3
    <3>10. mw % s = (b + a) % s
      BY <3>3, <3>4, <3>5, <3>6, <3>7, <3>8, <3>9, Zenon
    <3> QED BY <3>3, <3>10 DEF mw, s
  <2> QED BY <2>1, <2>2
<1>17. \A i \in 1 .. n + 1 : K[i].w % Size = (K[1].w + p[i]) % Size
  <2>1. ASSUME NEW i \in 1 .. n
        PROVE  K[i].w % Size = (K[1].w + p[i]) % Size
    <3>1. L[i].w % Size = (L[1].w + o[i]) % Size /\ 1 \in 1 .. n
      BY <1>2 DEF Laid
    <3> QED BY <3>1, <1>4, <1>9
  <2> QED BY <2>1, <1>4, <1>9, <1>10, <1>16
<1>18. ASSUME Counts
       PROVE  a = (m.w - K[1].w) % WRAP
  <2>1. CASE L = <<>>
    <3>1. K[1] = m /\ a = 0
      BY <2>1, <1>2, <1>4, <1>7
    <3>2. (m.w - m.w) % WRAP = m.w - m.w
      BY <1>1, <1>3, Distance
    <3> QED BY <3>1, <3>2, <1>3
  <2>2. CASE L # <<>>
    <3> DEFINE b == L[1].w
               lw == l.w
               lt == l.takes
               on == o[n]
               g == m.gap
               mw == m.w
               u == WRAP
    <3>1. n \in 1 .. n /\ K[1].w = b /\ a = on + lt + g /\ on + lt <= Size
      BY <2>2, <1>2, <1>4, <1>7
    <3> HIDE DEF l
    <3>2. e = (lw + lt) % u
      <4>1. lt < WRAP /\ lt \in Nat /\ lw \in 0 .. WRAP - 1
        BY <2>2, <1>1, <1>15
      <4> QED BY <4>1, <1>18, PastCounts
    <3> HIDE DEF e
    <3>3. /\ lw \in 0 .. u - 1 /\ lt \in Nat /\ on \in Nat /\ g \in 0 .. WORD - 1 /\ b \in 0 .. u - 1
          /\ e \in 0 .. u - 1 /\ u \in Nat \ {0} /\ mw = (e + g) % u
      BY <2>2, <1>1, <1>3, <1>15, Zenon
    <3>4. on + lt + g < u
      BY <3>1, <3>3, <1>1
    <3>5. /\ n \in 1 .. n /\ K[1].w = b /\ a = on + lt + g
          /\ lw \in 0 .. u - 1 /\ lt \in Nat /\ on \in Nat /\ g \in 0 .. WORD - 1 /\ b \in 0 .. u - 1
          /\ mw = (e + g) % u /\ e \in 0 .. u - 1
          /\ on + lt + g < u /\ u \in Nat \ {0}
      BY <3>1, <3>4, <3>3, Zenon
    <3>6. on = (lw - b) % u
      BY <3>1, <1>18 DEF Laid, l
    <3>7. e = (lw + lt) % u
      BY <3>2
    <3> HIDE DEF b, lw, lt, on, g, mw, u
    <3>8. (e - b) % u = on + lt
      <4>1. ((lw - b) % u) + lt < u
        BY <1>1, <3>5, <3>6
      <4> QED BY <3>5, <3>6, <3>7, <4>1, FrontAdvances
    <3>9. (mw - b) % u = on + lt + g
      <4>1. ((e - b) % u) + g < u /\ g \in Nat
        BY <1>1, <3>5, <3>8
      <4>2. (((e + g) % u) - b) % u = ((e - b) % u) + g
        BY <3>5, <4>1, FrontAdvances
      <4> QED BY <3>5, <3>8, <4>2
    <3> QED BY <3>5, <3>9 DEF mw, u
  <2> QED BY <2>1, <2>2
<1>19. Counts => \A i \in 1 .. n + 1 : p[i] = (K[i].w - K[1].w) % WRAP
  <2> SUFFICES ASSUME Counts
               PROVE  \A i \in 1 .. n + 1 : p[i] = (K[i].w - K[1].w) % WRAP
    OBVIOUS
  <2>1. ASSUME NEW i \in 1 .. n
        PROVE  p[i] = (K[i].w - K[1].w) % WRAP
    <3>1. o[i] = (L[i].w - L[1].w) % WRAP /\ 1 \in 1 .. n
      BY <1>2 DEF Laid
    <3> QED BY <3>1, <1>4, <1>9
  <2> QED BY <2>1, <1>4, <1>9, <1>10, <1>18
<1>20. (n + 1) - 1 = n
  BY <1>2
<1>21. Laid(K, p)
  BY <1>4, <1>6, <1>11, <1>12, <1>13, <1>14, <1>17, <1>19, <1>20 DEF Laid
<1> QED BY <1>21 DEF K, p

(* ... and without the first the others are laid still.                        *)
Shorter(L, o) == [i \in 1 .. Len(L) - 1 |-> o[i + 1] - o[2]]

LEMMA RowTail ==
  ASSUME variant \in Variants, NEW L, NEW o, Laid(L, o), L # <<>>
  PROVE  /\ Laid(Tail(L), Shorter(L, o))
         /\ Len(Tail(L)) = Len(L) - 1 /\ \A i \in 1 .. Len(L) - 1 : Tail(L)[i] = L[i + 1]
<1> DEFINE K == Tail(L)
           p == Shorter(L, o)
           n == Len(L) - 1
<1>1. /\ Len(L) \in Nat /\ 1 \in 1 .. Len(L) /\ n \in Nat /\ L \in Seq(MessageType)
      /\ \A i \in 1 .. Len(L) :
              /\ GoodMessage(L[i])
              /\ L[i].w \in 0 .. WRAP - 1 /\ L[i].takes \in Nat \ {0} /\ L[i].takes <= Size
              /\ o[i] \in Nat /\ o[i] + L[i].takes <= Size
  BY RowParts
<1>2. K \in Seq(MessageType) /\ Len(K) = n /\ \A i \in 1 .. n : K[i] = L[i + 1]
  BY <1>1, HeadTailProperties
<1>3. \A i \in 1 .. n : i + 1 \in 1 .. Len(L) /\ i \in 1 .. Len(L) /\ 2 \in 1 .. Len(L) /\ 1 \in 1 .. n
  BY <1>1
<1>4. \A i, j \in 1 .. Len(L) : i < j => o[i] + L[i].takes <= o[j]
  BY DEF Laid
<1>5. \A i \in 1 .. n : o[2] <= o[i + 1] /\ o[2] \in Nat /\ o[i + 1] \in Nat
  <2> SUFFICES ASSUME NEW i \in 1 .. n
               PROVE  o[2] <= o[i + 1] /\ o[2] \in Nat /\ o[i + 1] \in Nat
    OBVIOUS
  <2>1. /\ o[2] \in Nat /\ o[i + 1] \in Nat /\ L[2].takes \in Nat
        /\ (2 < i + 1 => o[2] + L[2].takes <= o[i + 1])
    BY <1>1, <1>3, <1>4
  <2>2. i = 1 \/ 2 < i + 1
    BY <1>1
  <2>3. i = 1 => o[2] = o[i + 1]
    OBVIOUS
  <2> QED BY <2>1, <2>2, <2>3
<1>6. p \in [1 .. n -> Nat] /\ \A i \in 1 .. n : p[i] = o[i + 1] - o[2]
  <2>1. \A i \in 1 .. n : o[i + 1] - o[2] \in Nat
    BY <1>5
  <2> QED BY <2>1 DEF Shorter
<1>7. \A i \in 1 .. Len(L) - 1 :
        /\ o[i + 1] = o[i] + L[i].takes + L[i + 1].gap
        /\ L[i + 1].w = Aligned(Past(L[i].w, L[i].takes))
  BY DEF Laid, Offsets
<1> HIDE DEF K, p
<1>8. Offsets(K, p)
  <2>1. K # <<>> => p[1] = 0
    <3> SUFFICES ASSUME K # <<>> PROVE p[1] = 0
      OBVIOUS
    <3>1. 1 \in 1 .. n
      BY <1>1, <1>2, EmptySeq
    <3>2. p[1] = o[2] - o[2] /\ o[2] \in Nat
      BY <1>5, <1>6, <3>1
    <3> QED BY <3>2
  <2>2. ASSUME NEW i \in 1 .. n - 1
        PROVE  p[i + 1] = p[i] + K[i].takes + K[i + 1].gap
    <3>1. i \in 1 .. n /\ i + 1 \in 1 .. n /\ i + 1 \in 1 .. Len(L) - 1
      BY <1>1
    <3>2. o[(i + 1) + 1] = o[i + 1] + L[i + 1].takes + L[(i + 1) + 1].gap
      BY <3>1, <1>7
    <3>3. /\ p[i + 1] = o[(i + 1) + 1] - o[2] /\ p[i] = o[i + 1] - o[2]
          /\ K[i] = L[i + 1] /\ K[i + 1] = L[(i + 1) + 1]
      BY <3>1, <1>2, <1>6
    <3>4. o[2] \in Nat /\ o[i + 1] \in Nat /\ o[(i + 1) + 1] \in Nat /\ L[i + 1].takes \in Nat
      BY <3>1, <1>1, <1>3, <1>5
    <3>5. L[(i + 1) + 1].gap \in Nat
      <4>1. (i + 1) + 1 \in 1 .. Len(L)
        BY <3>1, <1>3
      <4>2. L[(i + 1) + 1] \in MessageType
        BY <4>1, <1>1, ElementOfSeq
      <4> QED BY <4>2, MessageFields
    <3> QED BY <3>2, <3>3, <3>4, <3>5
  <2> QED BY <1>2, <1>6, <2>1, <2>2 DEF Offsets
<1>9. \A i \in 1 .. n : GoodMessage(K[i])
  BY <1>1, <1>2, <1>3
<1>10. ASSUME NEW i \in 1 .. n - 1
       PROVE  K[i + 1].w = Aligned(Past(K[i].w, K[i].takes))
  <2>1. i \in 1 .. n /\ i + 1 \in 1 .. n /\ i + 1 \in 1 .. Len(L) - 1
    BY <1>1
  <2>2. L[(i + 1) + 1].w = Aligned(Past(L[i + 1].w, L[i + 1].takes))
    BY <2>1, <1>7
  <2>3. K[i] = L[i + 1] /\ K[i + 1] = L[(i + 1) + 1]
    BY <2>1, <1>2
  <2> QED BY <2>2, <2>3
<1>11. ASSUME NEW i \in 1 .. n, NEW j \in 1 .. n, i < j
       PROVE  p[i] + K[i].takes <= p[j]
  <2>1. i + 1 \in 1 .. Len(L) /\ j + 1 \in 1 .. Len(L) /\ i + 1 < j + 1
    BY <1>3, <1>11
  <2>2. o[i + 1] + L[i + 1].takes <= o[j + 1]
    BY <2>1, <1>4
  <2>3. p[i] = o[i + 1] - o[2] /\ p[j] = o[j + 1] - o[2] /\ K[i] = L[i + 1]
    BY <1>2, <1>6
  <2>4. o[2] \in Nat /\ o[i + 1] \in Nat /\ o[j + 1] \in Nat /\ L[i + 1].takes \in Nat
    BY <2>1, <1>1, <1>5
  <2> QED BY <2>2, <2>3, <2>4
<1>12. ASSUME NEW i \in 1 .. n
       PROVE  p[i] + K[i].takes <= Size
  <2>1. /\ o[i + 1] + L[i + 1].takes <= Size /\ o[2] \in Nat /\ o[i + 1] \in Nat /\ L[i + 1].takes \in Nat
        /\ p[i] = o[i + 1] - o[2] /\ K[i] = L[i + 1] /\ Size \in Nat
    BY <1>1, <1>2, <1>3, <1>5, <1>6, VariantFields
  <2> QED BY <2>1
<1>13. ASSUME NEW i \in 1 .. n
       PROVE  K[i].w % Size = (K[1].w + p[i]) % Size
  <2> DEFINE b == L[1].w
             c == L[2].w
             w == L[i + 1].w
             oc == o[2]
             ow == o[i + 1]
             s == Size
  <2>1. /\ b \in Int /\ c \in Int /\ w \in Int /\ oc \in Int /\ ow \in Int /\ s \in Nat \ {0}
    BY <1>1, <1>3, <1>5, VariantFields
  <2>2. K[i].w = w /\ K[1].w = c /\ p[i] = ow - oc
    BY <1>2, <1>3, <1>6
  <2>3. w % s = (b + ow) % s /\ c % s = (b + oc) % s
    BY <1>3 DEF Laid
  <2> HIDE DEF b, c, w, oc, ow, s
  <2>4. ow - oc \in Int /\ b + oc \in Int
    BY <2>1
  <2>5. ((c % s) + (ow - oc)) % s = (c + (ow - oc)) % s
    BY <2>1, <2>4, ModPlus, Zenon
  <2>6. (((b + oc) % s) + (ow - oc)) % s = ((b + oc) + (ow - oc)) % s
    BY <2>1, <2>4, ModPlus, Zenon
  <2>7. (b + oc) + (ow - oc) = b + ow
    BY <2>1
  <2>8. w % s = (c + (ow - oc)) % s
    BY <2>3, <2>5, <2>6, <2>7, Zenon
  <2> QED BY <2>2, <2>8 DEF s
<1>14. ASSUME Counts, NEW i \in 1 .. n
       PROVE  p[i] = (K[i].w - K[1].w) % WRAP
  <2> DEFINE b == L[1].w
             c == L[2].w
             w == L[i + 1].w
             oc == o[2]
             ow == o[i + 1]
             u == WRAP
  <2>1. /\ b \in 0 .. u - 1 /\ c \in 0 .. u - 1 /\ w \in 0 .. u - 1 /\ oc \in Nat /\ ow \in Nat
        /\ u \in Nat \ {0} /\ oc <= ow
    BY <1>1, <1>3, <1>5, Units
  <2>2. K[i].w = w /\ K[1].w = c /\ p[i] = ow - oc
    BY <1>2, <1>3, <1>6
  <2>3. ow = (w - b) % u /\ oc = (c - b) % u
    BY <1>3, <1>14 DEF Laid
  <2> HIDE DEF b, c, w, oc, ow, u
  <2>4. /\ (w - b) % u = IF w >= b THEN w - b ELSE w - b + u
        /\ (c - b) % u = IF c >= b THEN c - b ELSE c - b + u
        /\ (w - c) % u = IF w >= c THEN w - c ELSE w - c + u
    BY <2>1, Distance
  <2>5. (w - c) % u = ow - oc
    BY <2>1, <2>3, <2>4
  <2> QED BY <2>2, <2>5 DEF u
<1>15. Laid(K, p)
  BY <1>2, <1>8, <1>9, <1>10, <1>11, <1>12, <1>13, <1>14 DEF Laid
<1> QED BY <1>2, <1>15 DEF K, p

(* How far nwrite, rounded up, is ahead of nread: by what is in the ring, and  *)
(* by what rounding hides from the reader.                                     *)
Hidden == (Aligned(nread) - nread) % WRAP
AtEnds(L) ==
  /\ L # <<>> => L[1].w = Aligned(nread) /\ nwrite = Past(L[Len(L)].w, L[Len(L)].takes)
  /\ L = <<>> => nwrite = nread

LEMMA RoomIs ==
  ASSUME variant \in Variants, Counts, NEW L, NEW o, Laid(L, o), AtEnds(L),
         nread \in 0 .. WRAP - 1, nwrite \in 0 .. WRAP - 1,
         NEW m, m.w = Aligned(nwrite), m.gap = (m.w - nwrite) % WRAP
  PROVE  (m.w - nread) % WRAP = Start(L, o, m) + Hidden
<1>1. /\ Size \in Nat \ {0} /\ 2 * (Size + 2 * WORD) <= WRAP /\ WORD \in Nat \ {0} /\ WRAP \in Nat \ {0}
  BY Units, VariantFields
<1>2. /\ m.w \in 0 .. WRAP - 1 /\ m.gap \in 0 .. WORD - 1 /\ m.w = (nwrite + m.gap) % WRAP
  BY AlignedIs
<1>3. /\ Aligned(nread) \in 0 .. WRAP - 1 /\ Hidden \in 0 .. WORD - 1
      /\ Aligned(nread) = (nread + Hidden) % WRAP
  BY AlignedIs DEF Hidden
<1>4. CASE L = <<>>
  <2>1. nwrite = nread /\ Start(L, o, m) = 0
    BY <1>4 DEF AtEnds, Start
  <2>2. (m.w - nread) % WRAP = Hidden
    BY <2>1 DEF Hidden
  <2> QED BY <2>1, <2>2, <1>3
<1>5. CASE L # <<>>
  <2> DEFINE l == L[Len(L)]
             u == WRAP
             b == Aligned(nread)
             e == nwrite
             g == m.gap
             mw == m.w
             h == Hidden
             r == nread
             on == o[Len(L)]
             lt == l.takes
             lw == l.w
  <2>1. /\ Len(L) \in 1 .. Len(L) /\ L[1].w = b /\ lw \in 0 .. u - 1 /\ lt \in Nat /\ on \in Nat
        /\ on + lt <= Size
    <3>1. Len(L) \in 1 .. Len(L)
      BY <1>5, RowParts
    <3>2. lw \in 0 .. u - 1 /\ lt \in Nat /\ on \in Nat /\ on + lt <= Size
      BY <3>1, RowParts
    <3>3. L[1].w = b
      BY <1>5 DEF AtEnds
    <3> QED BY <3>1, <3>2, <3>3
  <2>2. Start(L, o, m) = on + lt + g
    BY <1>5 DEF Start, End
  <2>3. on = (lw - b) % u
    <3>1. on = (l.w - L[1].w) % WRAP
      BY <2>1 DEF Laid
    <3> QED BY <3>1, <2>1
  <2>4. e = (lw + lt) % u
    <3>1. e = Past(l.w, l.takes)
      BY <1>5 DEF AtEnds
    <3> HIDE DEF l
    <3>2. lt < WRAP
      BY <2>1, <1>1
    <3> QED BY <3>1, <3>2, <2>1, PastCounts
  <2>5. /\ b \in 0 .. u - 1 /\ u \in Nat \ {0} /\ g \in 0 .. WORD - 1 /\ h \in 0 .. WORD - 1
        /\ mw \in 0 .. u - 1
        /\ r \in 0 .. u - 1 /\ b = (r + h) % u /\ mw = (e + g) % u /\ e \in 0 .. u - 1
    BY <1>1, <1>2, <1>3
  <2> HIDE DEF l, u, b, e, g, mw, h, r, on, lt, lw
  <2>6. /\ on + lt + g + h < u /\ on + lt < u
        /\ on \in Nat /\ lt \in Nat /\ g \in Nat /\ h \in Nat /\ u \in Nat
    <3>1. on \in Nat /\ lt \in Nat /\ on + lt <= Size
      BY <2>1
    <3>2. g \in 0 .. WORD - 1 /\ h \in 0 .. WORD - 1
      BY <2>5
    <3> QED BY <1>1, <3>1, <3>2 DEF u
  <2>7. (e - b) % u = on + lt
    <3>1. on + lt < u
      BY <2>6
    <3>2. ((lw - b) % u) + lt < u
      BY <2>3, <3>1, Zenon
    <3>3. lw \in 0 .. u - 1 /\ lt \in Nat /\ b \in 0 .. u - 1 /\ u \in Nat \ {0}
      BY <2>1, <2>5
    <3>4. (((lw + lt) % u) - b) % u = ((lw - b) % u) + lt
      BY <3>2, <3>3, FrontAdvances
    <3> QED BY <2>3, <2>4, <3>4, Zenon
  <2>8. (mw - b) % u = on + lt + g
    <3>1. ((e - b) % u) + g < u /\ g \in Nat
      BY <2>6, <2>7
    <3>2. (((e + g) % u) - b) % u = ((e - b) % u) + g
      BY <2>5, <3>1, FrontAdvances
    <3> QED BY <2>5, <2>7, <3>2
  <2>9. (mw - r) % u = (on + lt + g) + h
    <3> DEFINE d == on + lt + g
    <3>1. d \in Nat /\ h \in Nat /\ d + h < u /\ (mw - b) % u = d
      BY <2>6, <2>8
    <3> HIDE DEF d
    <3>2. (mw - ((r + h) % u)) % u = d
      BY <2>5, <3>1, Zenon
    <3>3. ((mw - ((r + h) % u)) % u) + h < u
      BY <3>1, <3>2, Zenon
    <3>4. (mw - r) % u = ((mw - ((r + h) % u)) % u) + h
      BY <2>5, <3>1, <3>3, FurtherBack
    <3>5. (mw - r) % u = d + h
      BY <3>2, <3>4, Zenon
    <3> QED BY <3>5 DEF d
  <2>10. (mw - r) % u = on + lt + g + h
    BY <2>9
  <2>11. Start(L, o, m) + h = on + lt + g + h
    BY <2>1, <2>2, <2>5
  <2> QED BY <2>10, <2>11 DEF u, mw, r, h
<1> QED BY <1>4, <1>5

-----------------------------------------------------------------------------
(* What the tests of buf_put and buf_get say about the row.                    *)

(* While no odd length was put, or where lengths are rounded, everything       *)
(* stands at multiples of an int.                                              *)
Straight == variant.rounds \/ ~odd
Even ==
  Straight => /\ nread % WORD = 0 /\ nwrite % WORD = 0
              /\ \A i \in 1 .. Len(queue) : queue[i].takes % WORD = 0

Positions ==
  /\ nread \in 0 .. WRAP - 1 /\ nwrite \in 0 .. WRAP - 1
  /\ ~Counts => nread \in 0 .. Size /\ nwrite \in 0 .. Size

(* The room between two counters, ...                                          *)
LEMMA RoomLeft ==
  ASSUME NEW m \in Nat \ {0}, NEW s \in 0 .. m - 1, NEW a \in 0 .. m - 1, NEW b \in 0 .. m - 1
  PROVE  (s - a + b) % m = IF (a - b) % m <= s THEN s - ((a - b) % m) ELSE s - ((a - b) % m) + m
<1> DEFINE e == (a - b) % m
           x == s - a + b
           y == x % m
<1>1. e = IF a >= b THEN a - b ELSE a - b + m
  BY Distance
<1>2. x \in 0 .. m - 1 => y = x
  BY ModBelow
<1>3. x \in m .. 2 * m - 1 => y = x - m
  BY ModOver
<1>4. x \in -m .. -1 => y = x + m
  BY ModUnder
<1> HIDE DEF e, y
<1>5. y = IF e <= s THEN s - e ELSE s - e + m
  BY <1>1, <1>2, <1>3, <1>4
<1> QED BY <1>5 DEF e, y

(* ... less an int, ...                                                        *)
LEMMA RoomLess ==
  ASSUME NEW m \in Nat \ {0}, NEW s \in 0 .. m - 1, NEW e \in 0 .. m - 1, NEW k \in Nat,
         e + k < m + s
  PROVE  (s - e - k) % m = IF e + k <= s THEN s - e - k ELSE s - e - k + m
<1>1. CASE e + k <= s
  BY <1>1, ModBelow
<1>2. CASE e + k > s
  BY <1>2, ModUnder
<1> QED BY <1>1, <1>2

(* ... and a distance and some.                                                *)
LEMMA Ahead ==
  ASSUME NEW m \in Nat \ {0}, NEW a \in 0 .. m - 1, NEW b \in 0 .. m - 1, NEW k \in Nat,
         ((a - b) % m) + k < m
  PROVE  (a - b + k) % m = ((a - b) % m) + k
<1> DEFINE e == (a - b) % m
           x == a - b + k
           y == x % m
<1>1. e = IF a >= b THEN a - b ELSE a - b + m
  BY Distance
<1>2. x \in 0 .. m - 1 => y = x
  BY ModBelow
<1>3. x \in -m .. -1 => y = x + m
  BY ModUnder
<1>4. e + k < m
  OBVIOUS
<1> HIDE DEF e, y
<1>5. y = e + k
  BY <1>1, <1>2, <1>3, <1>4
<1> QED BY <1>5 DEF e, y

(* The message that buf_put would write.                                       *)
LEMMA MessageIs ==
  ASSUME variant \in Variants, Positions, NEW id \in 1 .. NIDS, NEW len \in Lens,
         NEW m, m = Message(Aligned(nwrite), id, len)
  PROVE  /\ m \in MessageType /\ m.w = Aligned(nwrite) /\ m.gap = (m.w - nwrite) % WRAP
         /\ m.id = id /\ m.len = len /\ m.takes = Takes(len)
         /\ m.w \in 0 .. WRAP - 1 /\ m.gap \in 0 .. WORD - 1
<1>1. /\ Aligned(nwrite) \in 0 .. WRAP - 1
      /\ (Aligned(nwrite) - nwrite) % WRAP \in 0 .. WORD - 1
  BY AlignedIs DEF Positions
<1>2. Takes(len) \in Nat
  BY TakesIs
<1> DEFINE w == Aligned(nwrite)
           g == (w - nwrite) % WRAP
           t == Takes(len)
<1>3. m = [id |-> id, len |-> len, w |-> w, gap |-> g, takes |-> t]
  BY DEF Message
<1> HIDE DEF w, g, t
<1>4. m \in MessageType /\ m.w = w /\ m.gap = g /\ m.id = id /\ m.len = len /\ m.takes = t
  BY <1>1, <1>2, <1>3 DEF MessageType, w, g, t
<1> QED BY <1>1, <1>2, <1>4 DEF w, g, t

(* Nothing is hidden while everything is straight, or where nothing is         *)
(* rounded; then there are no gaps either.                                     *)
LEMMA HiddenIs ==
  ASSUME variant \in Variants, Positions, Even, odd \in BOOLEAN
  PROVE  /\ Hidden \in 0 .. WORD - 1
         /\ ~odd \/ ~variant.aligns => Hidden = 0 /\ Aligned(nread) = nread
         /\ ~odd \/ ~variant.aligns => Aligned(nwrite) = nwrite /\ (Aligned(nwrite) - nwrite) % WRAP = 0
<1>1. /\ Hidden \in 0 .. WORD - 1
      /\ nread % WORD = 0 \/ ~variant.aligns => Aligned(nread) = nread
      /\ Aligned(nread) = nread => Hidden = 0
  BY AlignedIs DEF Positions, Hidden
<1>2. /\ nwrite % WORD = 0 \/ ~variant.aligns => Aligned(nwrite) = nwrite
      /\ Aligned(nwrite) = nwrite => (Aligned(nwrite) - nwrite) % WRAP = 0
  BY AlignedIs DEF Positions
<1>3. ~odd => nread % WORD = 0 /\ nwrite % WORD = 0
  BY DEF Even, Straight
<1> QED BY <1>1, <1>2, <1>3

(* The five tests.                                                             *)
LEMMA Rooms ==
  ASSUME variant \in Variants, NEW w, NEW len
  PROVE  /\ variant.room = "counted" => (Room(w, len) <=> (Size - w + nread) % WRAP >= len + WORD)
         /\ variant.room = "headerless" => (Room(w, len) <=> (w - nread + len) % WRAP <= Size)
         /\ variant.room = "sum" => (Room(w, len) <=> (w + len + WORD) % WRAP <= (nread + Size) % WRAP)
         /\ variant.room = "capacity" =>
              (Room(w, len) <=> (Size - ((w - nread) % WRAP) - WORD) % WRAP >= len)
         /\ variant.room = "offsets" => (Room(w, len) <=> nread + Size - w >= len + WORD)
  BY Zenon DEF Room

(* Two offsets that far apart, round the end or not.                           *)
LEMMA OffsetTurns ==
  ASSUME NEW s \in Nat \ {0}, NEW a \in 0 .. s, NEW b \in 0 .. s, NEW d \in 0 .. s, a % s = (b + d) % s
  PROVE  a - b \in {d, d - s, d - 2 * s, d + s}
<1> DEFINE x == a % s
           c == b + d
           y == c % s
<1>1. (a < s => x = a) /\ (a = s => x = 0)
  BY ModBelow, ModOver
<1>2. x = y /\ c \in 0 .. 2 * s
  OBVIOUS
<1> HIDE DEF c
<1>3. /\ c < s => y = c
      /\ c >= s /\ c < 2 * s => y = c - s
  BY <1>2, ModBelow, ModOver
<1>4. c = 2 * s => y = 0
  <2> SUFFICES ASSUME c = 2 * s PROVE y = 0
    OBVIOUS
  <2>1. (c - s) % s = c % s
    <3>1. c \in Int
      BY <1>2
    <3> QED BY <3>1, ModTurn, Zenon
  <2>2. s % s = s - s
    BY ModOver
  <2>3. c - s = s /\ s - s = 0
    OBVIOUS
  <2> QED BY <2>1, <2>2, <2>3
<1> HIDE DEF x, y
<1>5. \/ a - b = d \/ a - b = d - s \/ a - b = d - 2 * s \/ a - b = d + s
  BY <1>1, <1>3, <1>4, <1>2 DEF c
<1> QED BY <1>5

(* Where a message would go, and what the row would take up with it.           *)
Gauge(o, m, len) ==
  /\ Footprint(Append(queue, m)) = Start(queue, o, m) + m.takes
  /\ Start(queue, o, m) \in 0 .. Size + WORD - 1
  /\ Start(queue, o, m) <= Size + m.gap
  /\ m.gap \in 0 .. WORD - 1 /\ m.w \in 0 .. WRAP - 1 /\ m.w = Aligned(nwrite)
  /\ m.takes \in Nat /\ WORD + len <= m.takes /\ m.takes < len + 2 * WORD
  /\ ~variant.rounds => m.takes = WORD + len
  /\ variant.rounds => m.takes = WORD + AlignUp(len)
  /\ Hidden \in 0 .. WORD - 1
  /\ ~odd \/ ~variant.aligns => Hidden = 0 /\ m.gap = 0 /\ m.w = nwrite
  /\ Counts => (m.w - nread) % WRAP = Start(queue, o, m) + Hidden
  /\ ~Counts => /\ m.w = nwrite /\ m.gap = 0
                /\ IF queue = <<>> THEN m.w = nread /\ Start(queue, o, m) = 0
                   ELSE Start(queue, o, m) \in 1 .. Size /\ m.w % Size = (nread + Start(queue, o, m)) % Size

LEMMA Gauged ==
  ASSUME variant \in Variants, Positions, Even, odd \in BOOLEAN, NEW o, Laid(queue, o), AtEnds(queue),
         NEW id \in 1 .. NIDS, NEW len \in Lens, NEW m, m = Message(Aligned(nwrite), id, len)
  PROVE  Gauge(o, m, len)
<1> DEFINE f == Start(queue, o, m)
           n == Len(queue)
<1>1. /\ Size \in Nat \ {0} /\ WORD \in Nat \ {0} /\ WRAP \in Nat \ {0} /\ 2 * (Size + 2 * WORD) <= WRAP
      /\ (~Counts => ~variant.aligns) /\ variant.aligns \in BOOLEAN
  BY Units, VariantFields
<1>2. /\ m \in MessageType /\ m.w = Aligned(nwrite) /\ m.gap = (m.w - nwrite) % WRAP /\ m.takes = Takes(len)
      /\ m.w \in 0 .. WRAP - 1 /\ m.gap \in 0 .. WORD - 1
  BY MessageIs
<1>3. Footprint(Append(queue, m)) = f + m.takes
  BY <1>2, FootprintAppend DEF Laid
<1>4. End(queue, o) \in 0 .. Size /\ (queue # <<>> => n \in 1 .. n /\ End(queue, o) > 0)
  <2>1. End(queue, o) \in 0 .. Size /\ (queue # <<>> => n \in 1 .. n)
    BY RowParts
  <2>2. ASSUME queue # <<>>
        PROVE  End(queue, o) > 0
    <3>1. o[n] \in Nat /\ queue[n].takes \in Nat \ {0}
      BY <2>1, <2>2, RowParts
    <3>2. End(queue, o) = o[n] + queue[n].takes
      BY <2>2 DEF End
    <3> QED BY <3>1, <3>2
  <2> QED BY <2>1, <2>2
<1>5. f = IF queue = <<>> THEN 0 ELSE End(queue, o) + m.gap
  BY DEF Start
<1> HIDE DEF f
<1>6. f \in 0 .. Size + WORD - 1 /\ f <= Size + m.gap
  <2> DEFINE e == End(queue, o)
             g == m.gap
  <2>1. e \in 0 .. Size /\ g \in 0 .. WORD - 1 /\ f = IF queue = <<>> THEN 0 ELSE e + g
    BY <1>2, <1>4, <1>5
  <2> HIDE DEF e, g
  <2>2. f \in 0 .. Size + WORD - 1 /\ f <= Size + g
    BY <1>1, <2>1
  <2> QED BY <2>2 DEF g
<1>7. /\ m.takes \in Nat /\ WORD + len <= m.takes /\ m.takes < len + 2 * WORD
      /\ (~variant.rounds => m.takes = WORD + len)
      /\ (variant.rounds => m.takes = WORD + AlignUp(len))
  <2>1. /\ len \in Nat /\ Takes(len) \in Nat \ {0} /\ WORD + len <= Takes(len)
        /\ Takes(len) < WORD + len + WORD
        /\ (~variant.rounds => Takes(len) = WORD + len)
        /\ (variant.rounds => Takes(len) = WORD + AlignUp(len))
    BY TakesIs
  <2>2. WORD + len + WORD = len + 2 * WORD
    BY <1>1, <2>1
  <2> QED BY <1>2, <2>1, <2>2
<1>8. /\ Hidden \in 0 .. WORD - 1
      /\ (~odd \/ ~variant.aligns => Hidden = 0 /\ Aligned(nread) = nread /\ m.gap = 0 /\ m.w = nwrite)
  BY <1>2, HiddenIs
<1>9. Counts => (m.w - nread) % WRAP = f + Hidden
  BY <1>2, RoomIs DEF Positions, f
<1>10. ASSUME ~Counts
       PROVE  /\ m.w = nwrite /\ m.gap = 0
              /\ IF queue = <<>> THEN m.w = nread /\ f = 0
                 ELSE f \in 1 .. Size /\ m.w % Size = (nread + f) % Size
  <2>1. m.w = nwrite /\ m.gap = 0 /\ Aligned(nread) = nread
    BY <1>1, <1>8, <1>10
  <2>2. CASE queue = <<>>
    BY <2>1, <2>2, <1>5 DEF AtEnds
  <2>3. CASE queue # <<>>
    <3> DEFINE l == queue[n]
               b == queue[1].w
               lw == l.w
               lt == l.takes
               on == o[n]
               s == Size
    <3>1. /\ b = nread /\ nwrite = Past(l.w, l.takes) /\ n \in 1 .. n /\ 1 \in 1 .. n
      BY <2>1, <2>3, <1>4 DEF AtEnds
    <3>2. /\ GoodMessage(l) /\ lw \in Nat /\ lt \in Nat /\ lt <= s /\ on \in Nat /\ f = on + lt
          /\ b \in Nat /\ s \in Nat \ {0}
      <4>1. /\ GoodMessage(l) /\ lw \in 0 .. WRAP - 1 /\ lt \in Nat \ {0} /\ lt <= s /\ on \in Nat
            /\ b \in 0 .. WRAP - 1
        BY <3>1, RowParts
      <4>2. End(queue, o) = on + lt
        BY <2>3 DEF End
      <4> QED BY <4>1, <4>2, <2>1, <2>3, <1>1, <1>5
    <3>3. lw % s = (b + on) % s
      BY <3>1 DEF Laid
    <3>4. nwrite % s = (lw + lt) % s
      <4> HIDE DEF l
      <4>1. lt \in 0 .. lt
        BY <3>2
      <4> QED BY <3>1, <3>2, <4>1, PastPlace
    <3> HIDE DEF l, b, lw, lt, on, s
    <3>5. ((lw % s) + lt) % s = (lw + lt) % s
      <4>1. lw \in Int /\ lt \in Int
        BY <3>2
      <4> QED BY <3>2, <4>1, ModPlus, Zenon
    <3>6. (((b + on) % s) + lt) % s = ((b + on) + lt) % s
      <4>1. b + on \in Int /\ lt \in Int
        BY <3>2
      <4> QED BY <3>2, <4>1, ModPlus, Zenon
    <3>7. (b + on) + lt = nread + f
      BY <3>1, <3>2
    <3>8. nwrite % s = (nread + f) % s
      BY <3>3, <3>4, <3>5, <3>6, <3>7, Zenon
    <3>9. f \in 1 .. s
      <4>1. f = End(queue, o)
        BY <2>1, <2>3, <1>4, <1>5
      <4> QED BY <4>1, <2>3, <1>4 DEF s
    <3> QED BY <2>1, <2>3, <3>8, <3>9 DEF s
  <2> QED BY <2>2, <2>3
<1> QED BY <1>2, <1>3, <1>6, <1>7, <1>8, <1>9, <1>10 DEF Gauge, f

(* What is refused does not fit.                                               *)
LEMMA Refuses ==
  ASSUME variant \in Variants, Positions, odd \in BOOLEAN, NEW o, NEW len \in Lens, NEW m,
         Gauge(o, m, len), ~Room(m.w, len)
  PROVE  \/ Footprint(Append(queue, m)) + (IF odd THEN WORD - 1 ELSE 0) > Size
         \/ variant.room = "sum" /\ nread + Size >= WRAP
<1> DEFINE f == Start(queue, o, m)
           t == m.takes
           w == m.w
           h == Hidden
           s == Size
           u == WRAP
           e == (w - nread) % u
           r == nread
<1>1. /\ s \in Nat \ {0} /\ WORD \in Nat \ {0} /\ u \in Nat \ {0} /\ 2 * (s + 2 * WORD) <= u
      /\ len \in Nat /\ 2 * len < u
  BY Units, VariantFields
<1>2. /\ f \in 0 .. s + WORD - 1 /\ w \in 0 .. u - 1 /\ r \in 0 .. u - 1
      /\ t \in Nat /\ WORD + len <= t /\ h \in 0 .. WORD - 1
      /\ (Counts => e = f + h) /\ (~odd => h = 0)
      /\ Footprint(Append(queue, m)) = f + t
  BY DEF Gauge, Positions
<1>3. /\ Counts <=> variant.room # "offsets"
      /\ variant.room \in {"counted", "headerless", "sum", "capacity", "offsets"}
  BY VariantFields DEF Counts
<1> SUFFICES \/ f + t + (IF odd THEN WORD - 1 ELSE 0) > s
             \/ variant.room = "sum" /\ r + s >= u
  BY <1>2
<1>4. Counts => f + h + t > s \/ (variant.room = "sum" /\ r + s >= u)
  <2>1. CASE variant.room = "counted"
    <3>1. ~((s - w + r) % u >= len + WORD) /\ e = f + h
      BY <2>1, <1>2, <1>3, Rooms
    <3>2. (s - w + r) % u = IF e <= s THEN s - e ELSE s - e + u
      <4>1. s \in 0 .. u - 1
        BY <1>1
      <4> QED BY <1>1, <1>2, <4>1, RoomLeft
    <3> DEFINE x == (s - w + r) % u
    <3> HIDE DEF e, x, f, t, w, h, s, u, r
    <3>3. x = (IF e <= s THEN s - e ELSE s - e + u) /\ ~(x >= len + WORD)
      BY <3>1, <3>2 DEF x
    <3> QED BY <1>1, <1>2, <3>1, <3>3
  <2>2. CASE variant.room = "headerless"
    <3>1. ~((w - r + len) % u <= s) /\ e = f + h
      BY <2>2, <1>2, <1>3, Rooms
    <3>2. f + h + len < u
      BY <1>1, <1>2
    <3>3. (w - r + len) % u = e + len
      <4>1. e + len < u
        <5> HIDE DEF e
        <5> QED BY <3>1, <3>2
      <4> QED BY <1>1, <1>2, <4>1, Ahead
    <3> DEFINE x == (w - r + len) % u
    <3> HIDE DEF e, x, f, t, w, h, s, u, r
    <3>4. x = e + len /\ ~(x <= s)
      BY <3>1, <3>3 DEF x
    <3> QED BY <1>1, <1>2, <3>1, <3>4
  <2>3. CASE variant.room = "capacity"
    <3>1. ~((s - e - WORD) % u >= len) /\ e = f + h
      BY <2>3, <1>2, <1>3, Rooms
    <3>2. (s - e - WORD) % u = IF e + WORD <= s THEN s - e - WORD ELSE s - e - WORD + u
      <4> HIDE DEF e, f, t, w, h, s, u, r
      <4>1. s \in 0 .. u - 1 /\ e \in 0 .. u - 1 /\ WORD \in Nat /\ e + WORD < u + s
        BY <1>1, <1>2, <3>1
      <4> QED BY <1>1, <4>1, RoomLess
    <3> DEFINE x == (s - e - WORD) % u
    <3>3. x = (IF e + WORD <= s THEN s - e - WORD ELSE s - e - WORD + u) /\ ~(x >= len)
      BY <3>1, <3>2 DEF x
    <3> HIDE DEF e, x, f, t, w, h, s, u, r
    <3> QED BY <1>1, <1>2, <3>1, <3>3
  <2>4. CASE variant.room = "sum"
    <3>1. ~((w + len + WORD) % u <= (r + s) % u) /\ e = f + h
      BY <2>4, <1>2, <1>3, Rooms
    <3>2. (r + s) % u = IF r + s < u THEN r + s ELSE r + s - u
      <4>1. s \in 0 .. u - 1
        BY <1>1
      <4> QED BY <1>1, <1>2, <4>1, Advance
    <3>3. (w + (len + WORD)) % u = IF w + (len + WORD) < u THEN w + (len + WORD) ELSE w + (len + WORD) - u
      <4>1. len + WORD \in 0 .. u - 1
        BY <1>1
      <4> QED BY <1>1, <1>2, <4>1, Advance
    <3>4. w + len + WORD = w + (len + WORD)
      BY <1>1, <1>2
    <3>5. e = IF w >= r THEN w - r ELSE w - r + u
      BY <1>1, <1>2, Distance
    <3> DEFINE x == (w + (len + WORD)) % u
               y == (r + s) % u
    <3>6. ~(x <= y)
      BY <3>1, <3>4
    <3> HIDE DEF e, x, y, f, t, w, h, s, u, r
    <3>7. r + s < u => f + h + t > s
      BY <1>1, <1>2, <3>1, <3>2, <3>3, <3>5, <3>6 DEF x, y
    <3> QED BY <1>1, <1>2, <2>4, <3>7
  <2> QED BY <1>3, <2>1, <2>2, <2>3, <2>4
<1>5. ~Counts => f + t > s
  <2> SUFFICES ASSUME ~Counts
               PROVE  f + t > s
    OBVIOUS
  <2>1. ~(r + s - w >= len + WORD)
    BY <1>3, Rooms
  <2>2. /\ w = nwrite
        /\ IF queue = <<>> THEN w = r /\ f = 0 ELSE f \in 1 .. s /\ w % s = (r + f) % s
        /\ w \in 0 .. s /\ r \in 0 .. s
    BY DEF Gauge, Positions
  <2>3. queue # <<>> => w - r \in {f, f - s, f - 2 * s, f + s}
    <3> SUFFICES ASSUME queue # <<>> PROVE w - r \in {f, f - s, f - 2 * s, f + s}
      OBVIOUS
    <3>1. f \in 0 .. s /\ w % s = (r + f) % s
      BY <2>2, <1>1
    <3> HIDE DEF f, w, r, s
    <3> QED BY <1>1, <2>2, <3>1, OffsetTurns
  <2> HIDE DEF f, t, w, h, s, u, r
  <2> QED BY <1>1, <1>2, <2>1, <2>2, <2>3
<1> HIDE DEF f, t, w, h, s, u, r
<1> QED BY <1>1, <1>2, <1>4, <1>5

(* More than fits is accepted only as NeverOverfull says.                      *)
LEMMA Overfills ==
  ASSUME variant \in Variants, Positions, Even, odd \in BOOLEAN, NEW o, NEW len \in Lens, NEW m,
         Gauge(o, m, len), Room(m.w, len), Footprint(Append(queue, m)) > Size
  PROVE  /\ variant.room = "headerless" => Footprint(Append(queue, m)) <= Size + WORD
         /\ variant.room = "capacity"   => (nwrite - nread) % WRAP = Size
         /\ variant.room = "offsets"    => m.w <= nread
         /\ variant.room = "counted"    => odd /\ (m.w - nread) % WRAP > Size
         /\ variant.room = "sum"        => m.w + WORD + len >= WRAP
<1> DEFINE f == Start(queue, o, m)
           t == m.takes
           w == m.w
           h == Hidden
           s == Size
           u == WRAP
           e == (w - nread) % u
           r == nread
<1>1. /\ s \in Nat \ {0} /\ WORD \in Nat \ {0} /\ u \in Nat \ {0} /\ 2 * (s + 2 * WORD) <= u
      /\ len \in Nat /\ 2 * len < u
  BY Units, VariantFields
<1>2. /\ f \in 0 .. s + WORD - 1 /\ f <= s + m.gap /\ w \in 0 .. u - 1 /\ r \in 0 .. u - 1
      /\ m.gap \in 0 .. WORD - 1
      /\ t \in Nat /\ WORD + len <= t /\ h \in 0 .. WORD - 1
      /\ (~variant.rounds => t = WORD + len)
      /\ (variant.rounds => t = WORD + AlignUp(len))
      /\ (Counts => e = f + h)
      /\ (~odd \/ ~variant.aligns => h = 0 /\ m.gap = 0 /\ w = nwrite)
      /\ Footprint(Append(queue, m)) = f + t
      /\ f + t > s
  BY DEF Gauge, Positions
<1>3. /\ Counts <=> variant.room # "offsets"
      /\ variant.aligns <=> variant.room \in {"counted", "headerless"}
      /\ variant.rounds <=> variant.room = "capacity"
      /\ variant.aligns \in BOOLEAN /\ variant.rounds \in BOOLEAN
  BY VariantFields DEF Counts
<1>4. ASSUME variant.room = "headerless"
      PROVE  f + t <= s + WORD
  <2>1. (w - r + len) % u <= s /\ e = f + h /\ t = WORD + len
    BY <1>2, <1>3, <1>4, Rooms
  <2>2. f + h + len < u
    BY <1>1, <1>2
  <2>3. (w - r + len) % u = e + len
    <3>1. e + len < u
      <4> HIDE DEF e
      <4> QED BY <2>1, <2>2
    <3> QED BY <1>1, <1>2, <3>1, Ahead
  <2> DEFINE x == (w - r + len) % u
  <2>4. x = e + len /\ x <= s
    BY <2>1, <2>3
  <2> HIDE DEF e, x, f, t, w, h, s, u, r
  <2> QED BY <1>1, <1>2, <2>1, <2>4
<1>5. ASSUME variant.room = "counted"
      PROVE  odd /\ e > s
  <2>1. (s - w + r) % u >= len + WORD /\ e = f + h /\ t = WORD + len
    BY <1>2, <1>3, <1>5, Rooms
  <2>2. (s - w + r) % u = IF e <= s THEN s - e ELSE s - e + u
    <3>1. s \in 0 .. u - 1
      BY <1>1
    <3> QED BY <1>1, <1>2, <3>1, RoomLeft
  <2> DEFINE x == (s - w + r) % u
  <2>3. x = (IF e <= s THEN s - e ELSE s - e + u) /\ x >= len + WORD
    BY <2>1, <2>2 DEF x
  <2> HIDE DEF e, x, f, t, w, h, s, u, r
  <2>4. e > s
    BY <1>1, <1>2, <2>1, <2>3
  <2>5. h > 0 \/ m.gap > 0
    BY <1>1, <1>2, <2>1, <2>4
  <2> QED BY <1>2, <2>4, <2>5
<1>6. ASSUME variant.room = "sum"
      PROVE  w + WORD + len >= u
  <2>1. (w + len + WORD) % u <= (r + s) % u /\ e = f + h /\ t = WORD + len /\ h = 0 /\ m.gap = 0
    BY <1>2, <1>3, <1>6, Rooms
  <2>2. (r + s) % u = IF r + s < u THEN r + s ELSE r + s - u
    <3>1. s \in 0 .. u - 1
      BY <1>1
    <3> QED BY <1>1, <1>2, <3>1, Advance
  <2>3. (w + (len + WORD)) % u = IF w + (len + WORD) < u THEN w + (len + WORD) ELSE w + (len + WORD) - u
    <3>1. len + WORD \in 0 .. u - 1
      BY <1>1
    <3> QED BY <1>1, <1>2, <3>1, Advance
  <2>4. w + len + WORD = w + (len + WORD)
    BY <1>1, <1>2
  <2>5. e = IF w >= r THEN w - r ELSE w - r + u
    BY <1>1, <1>2, Distance
  <2> DEFINE x == (w + (len + WORD)) % u
             y == (r + s) % u
  <2>6. x <= y
    BY <2>1, <2>4
  <2>7. w + (len + WORD) < u => FALSE
    <3>1. f <= s /\ e = f
      BY <1>1, <1>2, <2>1
    <3>2. x = (IF w + (len + WORD) < u THEN w + (len + WORD) ELSE w + (len + WORD) - u)
      BY <2>3
    <3>3. y = (IF r + s < u THEN r + s ELSE r + s - u)
      BY <2>2
    <3>4. /\ e = (IF w >= r THEN w - r ELSE w - r + u) /\ t = WORD + len
          /\ f \in Nat /\ w \in Nat /\ r \in Nat /\ f + t > s
      BY <1>1, <1>2, <2>1, <2>5
    <3> HIDE DEF e, x, y, f, t, w, h, s, u, r
    <3> QED BY <1>1, <2>6, <3>1, <3>2, <3>3, <3>4
  <2> HIDE DEF e, x, y, f, t, w, h, s, u, r
  <2> QED BY <1>1, <1>2, <2>7
<1>7. ASSUME variant.room = "capacity"
      PROVE  (nwrite - r) % u = s
  <2>1. (s - e - WORD) % u >= len /\ e = f + h /\ h = 0 /\ m.gap = 0 /\ w = nwrite /\ t = WORD + AlignUp(len)
    BY <1>2, <1>3, <1>7, Rooms
  <2>2. (s - e - WORD) % u = IF e + WORD <= s THEN s - e - WORD ELSE s - e - WORD + u
    <3> HIDE DEF e, f, t, w, h, s, u, r
    <3>1. s \in 0 .. u - 1 /\ e \in 0 .. u - 1 /\ WORD \in Nat /\ e + WORD < u + s
      BY <1>1, <1>2, <2>1
    <3> QED BY <1>1, <3>1, RoomLess
  <2> DEFINE x == (s - e - WORD) % u
  <2>3. x = (IF e + WORD <= s THEN s - e - WORD ELSE s - e - WORD + u) /\ x >= len
    BY <2>1, <2>2
  <2>4. e % WORD = 0 /\ s % WORD = 0
    <3>1. nread % WORD = 0 /\ nwrite % WORD = 0
      BY <1>3, <1>7 DEF Even, Straight
    <3>2. nread \in Int /\ nwrite \in Int /\ nwrite - nread \in Int
      BY DEF Positions
    <3>3. (nwrite - nread) % WORD = 0
      BY <1>1, <3>1, <3>2, MultipleSum
    <3>4. u % WORD = 0
      BY Units
    <3>5. ((nwrite - nread) % u) % WORD = 0
      BY <1>1, <3>2, <3>3, <3>4, MultipleMod, Zenon
    <3>6. e = (nwrite - nread) % u
      BY <2>1
    <3> QED BY <3>5, <3>6, VariantFields
  <2>5. e \in Nat /\ e <= s
    <3> HIDE DEF e, x, f, t, w, h, s, u, r
    <3> QED BY <1>1, <1>2, <2>1
  <2>6. ~(e + WORD <= s)
    <3> SUFFICES ASSUME e + WORD <= s PROVE FALSE
      OBVIOUS
    <3> DEFINE y == s - e - WORD
               a == AlignUp(len)
    <3>1. y \in Nat /\ y = x
      <4> HIDE DEF e, f, t, w, h, s, u, r, x
      <4> QED BY <1>1, <2>3, <2>5
    <3>2. y % WORD = 0
      <4>1. s \in Int /\ e \in Int /\ WORD \in Int /\ s - e \in Int
        BY <1>1, <2>5
      <4>2. WORD % WORD = 0
        BY Units, <1>1, ModOver
      <4>3. (s - e) % WORD = 0
        <5> HIDE DEF e, s
        <5> QED BY <1>1, <2>4, <4>1, MultipleSum, Zenon
      <4> HIDE DEF e, s
      <4> QED BY <1>1, <4>1, <4>2, <4>3, MultipleSum, Zenon
    <3>3. len <= y
      BY <2>3, <3>1
    <3> HIDE DEF y
    <3>4. a <= y /\ a \in Nat
      <4>1. a \in len .. len + WORD - 1
        BY <1>1, AlignUpIs
      <4>2. a <= y
        BY <1>1, <3>1, <3>2, <3>3, AlignUpLeast
      <4> HIDE DEF a
      <4> QED BY <1>1, <4>1, <4>2
    <3>5. t = WORD + a
      BY <2>1
    <3> HIDE DEF e, x, f, t, w, h, s, u, r, a
    <3>6. y = s - e - WORD
      BY DEF y
    <3> QED BY <1>1, <1>2, <2>1, <3>4, <3>5, <3>6
  <2>7. s <= e
    <3> HIDE DEF e, x, f, t, w, h, s, u, r
    <3>1. s - e < WORD /\ s \in Int /\ e \in Int
      BY <1>1, <2>5, <2>6
    <3> QED BY <1>1, <2>4, <3>1, Multiples
  <2>8. e = s
    <3> HIDE DEF e, s
    <3> QED BY <2>5, <2>7, <1>1
  <2> QED BY <2>1, <2>8
<1>8. ASSUME variant.room = "offsets"
      PROVE  w <= r
  <2>1. r + s - w >= len + WORD /\ ~Counts /\ t = WORD + len
    BY <1>2, <1>3, <1>8, Rooms
  <2>2. /\ w = nwrite
        /\ IF queue = <<>> THEN w = r /\ f = 0 ELSE f \in 1 .. s /\ w % s = (r + f) % s
        /\ w \in 0 .. s /\ r \in 0 .. s
    BY <2>1 DEF Gauge, Positions
  <2>3. queue # <<>> => w - r \in {f, f - s, f - 2 * s, f + s}
    <3> SUFFICES ASSUME queue # <<>> PROVE w - r \in {f, f - s, f - 2 * s, f + s}
      OBVIOUS
    <3>1. f \in 0 .. s /\ w % s = (r + f) % s
      BY <2>2, <1>1
    <3> HIDE DEF f, w, r, s
    <3> QED BY <1>1, <2>2, <3>1, OffsetTurns
  <2> HIDE DEF f, t, w, h, s, u, r
  <2> QED BY <1>1, <1>2, <2>1, <2>2, <2>3
<1> QED BY <1>2, <1>4, <1>5, <1>6, <1>7, <1>8

(* The two tests for an empty ring.                                            *)
LEMMA Empties ==
  ASSUME variant \in Variants, NEW r
  PROVE  /\ variant.empty = "equal" => (Empty(r) <=> r = nwrite)
         /\ variant.empty = "past"  => (Empty(r) <=> Signed(r) >= Signed(nwrite))
  BY Zenon DEF Empty

(* A ring with messages in it looks empty only as EmptyOnlyWhenNone says.      *)
LEMMA LooksEmpty ==
  ASSUME variant \in Variants, Positions, Even, odd \in BOOLEAN, NEW o, Laid(queue, o), AtEnds(queue),
         queue # <<>>, Empty(Aligned(nread))
  PROVE  \/ variant.room = "offsets" /\ Footprint(queue) = Size
         \/ variant.empty = "past" /\ nread < WRAP \div 2 /\ nwrite >= WRAP \div 2
<1> DEFINE n == Len(queue)
           b == queue[1].w
           lw == queue[n].w
           lt == queue[n].takes
           on == o[n]
           u == WRAP
           s == Size
<1>1. /\ s \in Nat \ {0} /\ WORD \in Nat \ {0} /\ u \in Nat \ {0} /\ 2 * (s + 2 * WORD) <= u
      /\ variant.empty \in {"equal", "past"} /\ variant.aligns \in BOOLEAN
      /\ (~Counts => variant.empty = "equal" /\ ~variant.aligns)
  BY Units, VariantFields
<1>2. /\ n \in 1 .. n /\ 1 \in 1 .. n /\ n \in Nat
      /\ b \in 0 .. u - 1 /\ lw \in 0 .. u - 1 /\ lt \in Nat \ {0} /\ on \in Nat /\ on + lt <= s
      /\ queue[1].len \in Lens
  BY RowParts
<1>3. b = Aligned(nread) /\ nwrite = Past(lw, lt)
  BY DEF AtEnds
<1>4. ASSUME Counts
      PROVE  variant.empty = "past" /\ nread < WRAP \div 2 /\ nwrite >= WRAP \div 2
  <2> DEFINE E == on + lt
  <2>1. (nwrite - b) % u = E
    <3>1. on = (lw - b) % u
      BY <1>2, <1>4 DEF Laid
    <3>2. nwrite = (lw + lt) % u
      <4>1. lt < u
        BY <1>1, <1>2
      <4> QED BY <1>2, <1>3, <1>4, <4>1, PastCounts
    <3>3. ((lw - b) % u) + lt < u
      <4> HIDE DEF on, lt, lw, b
      <4> QED BY <3>1, <1>1, <1>2
    <3> HIDE DEF on, lt, lw, b
    <3>4. (((lw + lt) % u) - b) % u = ((lw - b) % u) + lt
      BY <1>1, <1>2, <3>3, FrontAdvances
    <3> QED BY <3>1, <3>2, <3>4
  <2>2. E \in 1 .. s /\ nwrite \in 0 .. u - 1 /\ nread \in 0 .. u - 1
    BY <1>1, <1>2 DEF Positions
  <2> HIDE DEF E, b, on, lt, lw
  <2>3. (nwrite - b) % u = IF nwrite >= b THEN nwrite - b ELSE nwrite - b + u
    BY <1>1, <1>2, <2>2, Distance
  <2>4. E = IF nwrite >= b THEN nwrite - b ELSE nwrite - b + u
    BY <2>1, <2>3
  <2>5. b # nwrite
    BY <1>1, <1>2, <2>2, <2>4
  <2>6. variant.empty = "past" /\ Signed(b) >= Signed(nwrite)
    BY <1>1, <1>3, <2>5, Empties
  <2>7. PICK half \in Nat : WRAP = 2 * half /\ WRAP \div 2 = half /\ half % WORD = 0 /\ half >= WORD
    BY SignBit
  <2>8. /\ Signed(b) = IF b >= half THEN b - u ELSE b
        /\ Signed(nwrite) = IF nwrite >= half THEN nwrite - u ELSE nwrite
    BY <2>7 DEF Signed
  <2>9. b < half /\ nwrite >= half
    BY <1>1, <1>2, <2>2, <2>4, <2>6, <2>7, <2>8
  <2>10. nread < half
    <3>1. CASE variant.aligns
      <4> DEFINE a == AlignUp(nread)
      <4>1. b = a % u
        BY <1>3, <3>1 DEF Aligned
      <4>2. a \in nread .. nread + WORD - 1
        BY <2>2, AlignUpIs
      <4> HIDE DEF a
      <4>3. (a < u => b = a) /\ (a >= u => b = a - u)
        <5>1. (a < u => a \in 0 .. u - 1) /\ (a >= u => a \in u .. 2 * u - 1)
          BY <1>1, <2>2, <4>2
        <5> QED BY <1>1, <4>1, <5>1, ModBelow, ModOver
      <4>4. (a < u => b = a) /\ (a >= u => b < WORD)
        BY <1>1, <2>2, <4>2, <4>3
      <4> QED BY <1>1, <1>2, <2>2, <2>4, <2>7, <2>9, <4>2, <4>4
    <3>2. CASE ~variant.aligns
      BY <1>3, <2>9, <3>2 DEF Aligned
    <3> QED BY <1>1, <3>1, <3>2
  <2> QED BY <2>6, <2>7, <2>9, <2>10
<1>5. ASSUME ~Counts
      PROVE  variant.room = "offsets" /\ Footprint(queue) = Size
  <2>1. nread = nwrite
    <3>1. Aligned(nread) = nwrite
      BY <1>1, <1>5, Empties
    <3> QED BY <1>1, <1>5, <3>1 DEF Aligned
  <2> DEFINE m == Message(Aligned(nwrite), 1, queue[1].len)
             f == Start(queue, o, m)
  <2>2. Gauge(o, m, queue[1].len)
    <3>1. 1 \in 1 .. NIDS
      BY Units
    <3> QED BY <1>2, <3>1, Gauged
  <2> HIDE DEF m
  <2>3. /\ m.w = nwrite /\ m.gap = 0 /\ f \in 1 .. s /\ m.w % s = (nread + f) % s
    BY <1>5, <2>2 DEF Gauge
  <2>4. End(queue, o) \in Nat
    BY RowParts
  <2>5. f = End(queue, o)
    BY <2>3, <2>4 DEF Start
  <2>6. nread \in 0 .. s
    BY <1>5 DEF Positions
  <2>7. nread - nread \in {f, f - s, f - 2 * s, f + s}
    <3>1. nread % s = (nread + f) % s /\ f \in 0 .. s
      BY <2>1, <2>3
    <3> HIDE DEF f, s
    <3> QED BY <1>1, <2>6, <3>1, OffsetTurns
  <2>8. f = s
    <3> HIDE DEF f, s
    <3> QED BY <1>1, <2>3, <2>6, <2>7
  <2>9. Footprint(queue) = End(queue, o)
    BY FootprintIs DEF Laid
  <2> QED BY <1>5, <2>5, <2>8, <2>9 DEF Counts
<1> QED BY <1>4, <1>5

(* A ring without messages does not look so only as GetsOldest says.           *)
LEMMA LooksFull ==
  ASSUME variant \in Variants, Positions, Even, odd \in BOOLEAN, nwrite = nread, ~Empty(Aligned(nread))
  PROVE  odd /\ variant.aligns /\ (variant.empty = "equal" \/ Aligned(nread) = WRAP \div 2)
<1> DEFINE b == Aligned(nread)
           u == WRAP
<1>1. /\ WORD \in Nat \ {0} /\ u \in Nat \ {0} /\ variant.empty \in {"equal", "past"}
      /\ variant.aligns \in BOOLEAN
      /\ nread \in 0 .. u - 1
  BY Units, VariantFields DEF Positions
<1>2. ~odd \/ ~variant.aligns => b = nread
  BY HiddenIs
<1>3. PICK half \in Nat : WRAP = 2 * half /\ WRAP \div 2 = half /\ half % WORD = 0 /\ half >= WORD
  BY SignBit
<1>4. /\ (variant.empty = "equal" => b # nread)
      /\ (variant.empty = "past" => ~(Signed(b) >= Signed(nread)))
  BY Empties
<1>5. /\ Signed(b) = IF b >= half THEN b - u ELSE b
      /\ Signed(nread) = IF nread >= half THEN nread - u ELSE nread
  BY <1>3 DEF Signed
<1>6. b # nread
  <2> HIDE DEF b
  <2>1. b = nread => Signed(b) >= Signed(nread)
    BY <1>1, <1>3, <1>5
  <2> QED BY <1>1, <1>4, <2>1
<1>7. odd /\ variant.aligns
  BY <1>1, <1>2, <1>6
<1>8. ASSUME variant.empty = "past"
      PROVE  b = half
  <2> DEFINE a == AlignUp(nread)
  <2>1. b = a % u
    BY <1>7 DEF Aligned
  <2>2. a \in nread .. nread + WORD - 1
    BY <1>1, AlignUpIs
  <2>3. nread <= half => a <= half
    BY <1>1, <1>3, AlignUpLeast
  <2> HIDE DEF a
  <2>4. (a < u => b = a) /\ (a >= u => b = a - u)
    <3>1. (a < u => a \in 0 .. u - 1) /\ (a >= u => a \in u .. 2 * u - 1)
      BY <1>1, <1>3, <2>2
    <3> QED BY <1>1, <2>1, <3>1, ModBelow, ModOver
  <2>5. ~(Signed(b) >= Signed(nread))
    BY <1>4, <1>8
  <2> HIDE DEF b
  <2> QED BY <1>1, <1>3, <1>5, <2>2, <2>3, <2>4, <2>5
<1> QED BY <1>1, <1>3, <1>7, <1>8

-----------------------------------------------------------------------------
(* What is in the cells.                                                       *)

(* Cells a to b - 1 of message m are in c, a ring of s cells.                  *)
Stands(s, c, m, a, b) == \A n \in a .. b - 1 : c[(m.w + n) % s] = Cell(m.id, m.len, n)

(* A copy of N cells of the j-th message, from its k-th on, reaches those and  *)
(* no other cell of the row.                                                   *)
LEMMA Reach ==
  ASSUME variant \in Variants, NEW K, NEW p, Laid(K, p),
         NEW i \in 1 .. Len(K), NEW j \in 1 .. Len(K),
         NEW n \in 0 .. K[i].takes - 1, NEW k \in 0 .. K[j].takes, NEW N \in Nat, k + N <= K[j].takes,
         NEW d, d = (((K[i].w + n) % Size) - ((K[j].w + k) % Size)) % Size
  PROVE  /\ d < N <=> i = j /\ k <= n /\ n < k + N
         /\ i = j /\ k <= n => d = n - k
         /\ d \in 0 .. Size - 1
<1> DEFINE s == Size
           b == K[1].w
           wi == K[i].w
           wj == K[j].w
           ti == K[i].takes
           tj == K[j].takes
           pi == p[i]
           pj == p[j]
<1>1. /\ s \in Nat \ {0} /\ 1 \in 1 .. Len(K) /\ b \in Nat /\ i \in Nat /\ j \in Nat
      /\ wi \in Nat /\ ti \in Nat /\ pi \in Nat /\ pi + ti <= s
      /\ wj \in Nat /\ tj \in Nat /\ pj \in Nat /\ pj + tj <= s
  <2>1. Len(K) \in Nat /\ WRAP \in Nat /\ Size \in Nat \ {0}
    BY RowParts, VariantFields, Units
  <2>2. 1 \in 1 .. Len(K) /\ i \in Nat /\ j \in Nat
    BY <2>1
  <2>3. \A x \in 1 .. Len(K) :
          K[x].w \in 0 .. WRAP - 1 /\ K[x].takes \in Nat /\ p[x] \in Nat /\ p[x] + K[x].takes <= Size
    BY RowParts, Zenon
  <2>4. \A x \in 1 .. Len(K) :
          K[x].w \in Nat /\ K[x].takes \in Nat /\ p[x] \in Nat /\ p[x] + K[x].takes <= Size
    BY <2>1, <2>3
  <2> QED BY <2>1, <2>2, <2>4
<1>2. /\ wi % s = (b + pi) % s /\ wj % s = (b + pj) % s
      /\ i < j => pi + ti <= pj
      /\ j < i => pj + tj <= pi
  BY DEF Laid
<1> HIDE DEF s, b, wi, wj, ti, tj, pi, pj
<1>3. n \in 0 .. ti - 1 /\ k \in 0 .. tj /\ k + N <= tj
  BY DEF ti, tj
<1>4. d = ((wi + n) - (wj + k)) % s
  <2> DEFINE x == wi + n
             y == wj + k
  <2>1. x \in Int /\ y \in Int
    BY <1>1, <1>3
  <2>2. d = ((x % s) - (y % s)) % s
    BY DEF s, wi, wj
  <2>3. (x - y) % s = ((wi + n) - (wj + k)) % s
    OBVIOUS
  <2> HIDE DEF x, y
  <2>4. d = (x - y) % s
    BY <1>1, <2>1, <2>2, ModMinus
  <2> QED BY <2>3, <2>4
<1>5. (wi + n) % s = (b + pi + n) % s
  <2>1. wi \in Int /\ n \in Int /\ b + pi \in Int
    BY <1>1, <1>3
  <2>2. ((wi % s) + n) % s = (wi + n) % s /\ (((b + pi) % s) + n) % s = ((b + pi) + n) % s
    BY <1>1, <2>1, ModPlus, Zenon
  <2> QED BY <1>2, <2>2
<1>6. (wj + k) % s = (b + pj + k) % s
  <2>1. wj \in Int /\ k \in Int /\ b + pj \in Int
    BY <1>1, <1>3
  <2>2. ((wj % s) + k) % s = (wj + k) % s /\ (((b + pj) % s) + k) % s = ((b + pj) + k) % s
    BY <1>1, <2>1, ModPlus, Zenon
  <2> QED BY <1>2, <2>2
<1> DEFINE z == pi + n - pj - k
<1>7. d = z % s
  <2> DEFINE x == b + pi + n
             y == b + pj + k
  <2>1. x \in Int /\ y \in Int
    BY <1>1, <1>3
  <2>2. d = ((x % s) - (y % s)) % s
    BY <1>5, <1>6 DEF s, wi, wj
  <2>3. x - y = z
    BY <1>1, <1>3
  <2> HIDE DEF x, y, z
  <2>4. d = (x - y) % s
    BY <1>1, <2>1, <2>2, ModMinus
  <2> QED BY <2>3, <2>4
<1>8. z \in -s .. s - 1
  BY <1>1, <1>3
<1>9. d = IF z >= 0 THEN z ELSE z + s
  <2> HIDE DEF z
  <2>1. z >= 0 => z \in 0 .. s - 1
    BY <1>8, <1>1
  <2>2. ~(z >= 0) => z \in -s .. -1
    BY <1>8, <1>1
  <2> QED BY <1>1, <1>7, <2>1, <2>2, ModBelow, ModUnder
<1>10. CASE i = j
  <2>1. pi = pj /\ ti = tj
    BY <1>10 DEF pi, pj, ti, tj
  <2>2. /\ d < N <=> k <= n /\ n < k + N
        /\ k <= n => d = n - k
        /\ d \in 0 .. s - 1
    BY <1>1, <1>3, <1>9, <2>1
  <2> QED BY <1>10, <2>2 DEF s
<1>11. CASE i < j
  <2>1. ~(d < N) /\ d \in 0 .. s - 1
    BY <1>1, <1>2, <1>3, <1>9, <1>11
  <2> QED BY <1>1, <1>11, <2>1 DEF s
<1>12. CASE j < i
  <2>1. ~(d < N) /\ d \in 0 .. s - 1
    BY <1>1, <1>2, <1>3, <1>9, <1>12
  <2> QED BY <1>1, <1>12, <2>1 DEF s
<1> QED BY <1>1, <1>10, <1>11, <1>12

(* A cell of the row is a cell of the ring.                                    *)
LEMMA InRing ==
  ASSUME variant \in Variants, NEW x \in Nat
  PROVE  x % Size \in 0 .. Size - 1
<1>1. x \in Int
  OBVIOUS
<1> QED BY <1>1, VariantFields, ModRange

(* So a copy leaves what it does not overwrite, ...                            *)
LEMMA WritingKeeps ==
  ASSUME variant \in Variants, DOMAIN cells = 0 .. Size - 1, NEW K, NEW p, Laid(K, p),
         NEW i \in 1 .. Len(K), NEW j \in 1 .. Len(K),
         NEW k \in 0 .. K[j].takes, NEW N \in Nat, k + N <= K[j].takes, NEW id, NEW len,
         NEW a \in Nat, NEW b \in Int, b <= K[i].takes, i # j \/ b <= k,
         Stands(Size, cells, K[i], a, b)
  PROVE  Stands(Size, Stored((K[j].w + k) % Size, id, len, k, N), K[i], a, b)
<1> SUFFICES ASSUME NEW n \in a .. b - 1
             PROVE  Stored((K[j].w + k) % Size, id, len, k, N)[(K[i].w + n) % Size]
                      = Cell(K[i].id, K[i].len, n)
  BY DEF Stands
<1> DEFINE c == (K[i].w + n) % Size
           d == (c - ((K[j].w + k) % Size)) % Size
<1>1. K[i].w \in Nat /\ K[i].takes \in Nat /\ K[j].takes \in Nat
  BY RowParts, Units
<1>2. n \in 0 .. K[i].takes - 1 /\ n \in Nat
  BY <1>1
<1>3. c \in 0 .. Size - 1
  <2> DEFINE x == K[i].w + n
  <2>1. x \in Nat
    BY <1>1, <1>2
  <2> HIDE DEF x
  <2>2. x % Size \in 0 .. Size - 1
    BY <2>1, InRing
  <2> QED BY <2>2 DEF x
<1>4. ~(d < N)
  <2>1. d < N <=> i = j /\ k <= n /\ n < k + N
    <3> HIDE DEF d
    <3>1. d = (((K[i].w + n) % Size) - ((K[j].w + k) % Size)) % Size
      BY DEF d
    <3> QED BY <1>2, <3>1, Reach
  <2> HIDE DEF d
  <2> QED BY <2>1, <1>1
<1> HIDE DEF c
<1>5. Stored((K[j].w + k) % Size, id, len, k, N)[c] = cells[c]
  BY <1>3, <1>4 DEF Stored
<1>6. cells[c] = Cell(K[i].id, K[i].len, n)
  BY DEF Stands, c
<1> QED BY <1>5, <1>6 DEF c

(* ... and adds what it copies.                                                *)
LEMMA WritingGrows ==
  ASSUME variant \in Variants, DOMAIN cells = 0 .. Size - 1, NEW K, NEW p, Laid(K, p),
         NEW j \in 1 .. Len(K), NEW k \in 0 .. K[j].takes, NEW N \in Nat, k + N <= K[j].takes,
         Stands(Size, cells, K[j], 0, k)
  PROVE  Stands(Size, Stored((K[j].w + k) % Size, K[j].id, K[j].len, k, N), K[j], 0, k + N)
<1> SUFFICES ASSUME NEW n \in 0 .. k + N - 1
             PROVE  Stored((K[j].w + k) % Size, K[j].id, K[j].len, k, N)[(K[j].w + n) % Size]
                      = Cell(K[j].id, K[j].len, n)
  BY DEF Stands
<1> DEFINE c == (K[j].w + n) % Size
           d == (c - ((K[j].w + k) % Size)) % Size
<1>1. K[j].w \in Nat /\ K[j].takes \in Nat
  BY RowParts, Units
<1>2. n \in 0 .. K[j].takes - 1 /\ n \in Nat
  BY <1>1
<1>3. c \in 0 .. Size - 1
  <2> DEFINE x == K[j].w + n
  <2>1. x \in Nat
    BY <1>1, <1>2
  <2> HIDE DEF x
  <2>2. x % Size \in 0 .. Size - 1
    BY <2>1, InRing
  <2> QED BY <2>2 DEF x
<1>4. (d < N <=> k <= n /\ n < k + N) /\ (k <= n => d = n - k)
  <2> HIDE DEF d
  <2>1. d = (((K[j].w + n) % Size) - ((K[j].w + k) % Size)) % Size
    BY DEF d
  <2> QED BY <1>2, <2>1, Reach
<1> HIDE DEF c, d
<1>5. Stored((K[j].w + k) % Size, K[j].id, K[j].len, k, N)[c]
        = IF d < N THEN Cell(K[j].id, K[j].len, k + d) ELSE cells[c]
  BY <1>3 DEF Stored, d
<1>6. CASE k <= n
  <2>1. d < N /\ k + d = n
    BY <1>1, <1>4, <1>6
  <2> QED BY <1>5, <2>1 DEF c
<1>7. CASE ~(k <= n)
  <2>1. ~(d < N) /\ n \in 0 .. k - 1
    BY <1>1, <1>4, <1>7
  <2>2. cells[c] = Cell(K[j].id, K[j].len, n)
    BY <2>1 DEF Stands, c
  <2> QED BY <1>5, <2>1, <2>2 DEF c
<1> QED BY <1>6, <1>7

(* Clearing the first header leaves all but that.                              *)
LEMMA ErasingKeeps ==
  ASSUME variant \in Variants, DOMAIN cells = 0 .. Size - 1, NEW K, NEW p, Laid(K, p),
         NEW i \in 1 .. Len(K), NEW a \in Nat, NEW b \in Int, b <= K[i].takes,
         i # 1 \/ a >= WORD, Stands(Size, cells, K[i], a, b)
  PROVE  Stands(Size, [c \in DOMAIN cells |-> IF (c - (K[1].w % Size)) % Size < WORD THEN Zero ELSE cells[c]],
                K[i], a, b)
<1> DEFINE New == [c \in DOMAIN cells |-> IF (c - (K[1].w % Size)) % Size < WORD THEN Zero ELSE cells[c]]
<1> SUFFICES ASSUME NEW n \in a .. b - 1
             PROVE  New[(K[i].w + n) % Size] = Cell(K[i].id, K[i].len, n)
  BY DEF Stands
<1> DEFINE c1 == (K[i].w + n) % Size
           d == (c1 - (K[1].w % Size)) % Size
<1>1. 1 \in 1 .. Len(K) /\ WORD \in Nat
  <2>1. Len(K) \in Nat
    BY RowParts
  <2> QED BY <2>1, Units
<1>2. K[i].w \in Nat /\ K[i].takes \in Nat /\ K[1].w \in Nat /\ K[1].takes \in Nat
  BY <1>1, RowParts, Units
<1>3. n \in 0 .. K[i].takes - 1 /\ n \in Nat
  BY <1>2
<1>4. c1 \in 0 .. Size - 1
  <2> DEFINE x == K[i].w + n
  <2>1. x \in Nat
    BY <1>2, <1>3
  <2> HIDE DEF x
  <2>2. x % Size \in 0 .. Size - 1
    BY <2>1, InRing
  <2> QED BY <2>2 DEF x
<1>5. ~(d < WORD)
  <2>1. d < WORD <=> i = 1 /\ 0 <= n /\ n < 0 + WORD
    <3> HIDE DEF d
    <3>1. d = (((K[i].w + n) % Size) - ((K[1].w + 0) % Size)) % Size
      BY <1>2 DEF d
    <3>2. 0 \in 0 .. K[1].takes /\ 0 + WORD <= K[1].takes
      <4>1. WORD + K[1].len <= K[1].takes /\ K[1].len \in Nat
        BY <1>1, RowParts, Units
      <4> QED BY <4>1, <1>1, <1>2
    <3> QED BY <1>1, <1>3, <3>1, <3>2, Reach
  <2> HIDE DEF d
  <2> QED BY <2>1, <1>1, <1>2
<1> HIDE DEF c1
<1>6. New[c1] = cells[c1]
  BY <1>4, <1>5
<1>7. cells[c1] = Cell(K[i].id, K[i].len, n)
  BY DEF Stands, c1
<1> QED BY <1>6, <1>7 DEF c1

-----------------------------------------------------------------------------
(* The inductive invariant.                                                    *)

Running == cause = ""
Putting == put.at \in {"header", "bytes", "rest", "publish"}
Getting == get.at \in {"header", "erase", "bytes", "rest", "publish"}
Coming  == Message(put.w, put.id, put.len)

CellType(s) == [id : 0 .. NIDS, len : Lens \cup {0}, n : 0 .. s]

(* The types, and what the calls know of their own arguments.                  *)
Shape ==
  /\ variant \in Variants
  /\ cells \in [0 .. Size - 1 -> CellType(Size)]
  /\ Positions
  /\ attached \subseteq {"producer", "consumer"}
  /\ put \in [at : Places \cup {"refused"}, w : 0 .. WRAP - 1, id : 1 .. NIDS, len : Lens \cup {0}]
  /\ get \in [at : Places \cup {"none", "toolong", "erase"}, r : 0 .. WRAP - 1, len : Lens \cup {0},
              got : Seq(CellType(Size))]
  /\ Len(get.got) <= get.len
  /\ get.at \in {"header", "erase", "bytes"} => get.got = <<>>
  /\ get.at = "erase" => variant.erases
  /\ Putting => put.len \in Lens
  /\ odd \in BOOLEAN

Causes == cause \in {"", "overfull", "jump", "fault", "phantom", "reset"}

(* The unread messages are laid between the counters.                          *)
Rows ==
  /\ \E o : Laid(queue, o)
  /\ AtEnds(queue)
  /\ Even

(* The message that is being put fits behind them.                             *)
Fits ==
  /\ GoodMessage(Coming) /\ Follows(queue, Coming)
  /\ Footprint(Append(queue, Coming)) <= Size
  /\ put.w = Aligned(nwrite)
  /\ Straight => Coming.takes % WORD = 0

(* What of it has been copied.                                                 *)
PutFirst == First(Index(Past(put.w, WORD)), put.len)
Copied ==
  IF put.at = "bytes" THEN WORD
  ELSE IF put.at = "rest" THEN WORD + PutFirst
  ELSE IF put.at = "publish" THEN WORD + put.len ELSE 0

(* The first cell of the i-th message that buf_get has not erased.             *)
Erased  == variant.erases /\ get.at \in {"bytes", "rest", "publish"}
Kept(i) == IF i = 1 /\ Erased THEN WORD ELSE 0

(* The unread messages stand whole, the other as far as it has been copied.    *)
Intact ==
  /\ \A i \in 1 .. Len(queue) : Stands(Size, cells, queue[i], Kept(i), WORD + queue[i].len)
  /\ Stands(Size, cells, Coming, 0, Copied)
  /\ put.at = "rest" => PutFirst < put.len

(* What buf_get has found: the oldest message, unless a ring that was emptied  *)
(* did not look so.                                                            *)
Misled == odd /\ variant.aligns /\ (variant.empty = "equal" \/ get.r = WRAP \div 2)
Bytes(m, n) == [k \in 1 .. n |-> Cell(m.id, m.len, WORD + k - 1)]
GetFirst == First(Index(Past(get.r, WORD)), get.len)
Found ==
  Getting /\ ~Misled =>
    /\ queue # <<>>
    /\ get.at # "header" => get.len = queue[1].len
    /\ get.at = "rest" => GetFirst < get.len /\ get.got = Bytes(queue[1], GetFirst)
    /\ get.at = "publish" => get.got = Bytes(queue[1], get.len)

Sound ==
  /\ Rows
  /\ Putting => Fits
  /\ Getting => get.r = Aligned(nread)
  /\ Intact
  /\ Found

RingInv == Shape /\ Causes /\ (Running => Sound) /\ NeverOverfull /\ InBounds /\ GetsOldest

(* The parts of a call of buf_put, ...                                         *)
LEMMA PutFields ==
  ASSUME Shape
  PROVE  /\ put.at \in {"idle", "header", "bytes", "rest", "publish", "refused"}
         /\ put.w \in 0 .. WRAP - 1 /\ put.id \in 1 .. NIDS /\ put.len \in Lens \cup {0}
         /\ Coming.w = put.w /\ Coming.id = put.id /\ Coming.len = put.len /\ Coming.takes = Takes(put.len)
         /\ Coming.gap = (put.w - nwrite) % WRAP
  BY DEF Shape, Places, Coming, Message

(* ... and of one of buf_get.                                                  *)
LEMMA GetFields ==
  ASSUME Shape
  PROVE  /\ get.at \in {"idle", "header", "erase", "bytes", "rest", "publish", "none", "toolong"}
         /\ get.r \in 0 .. WRAP - 1 /\ get.len \in Lens \cup {0}
         /\ get.got \in Seq(CellType(Size))
  BY DEF Shape, Places

(* While nothing has gone wrong there is nothing to say of what went wrong.    *)
LEMMA Continues ==
  ASSUME Running, cause' = cause
  PROVE  Running' /\ (NeverOverfull /\ InBounds /\ GetsOldest /\ Causes)'
  BY Zenon DEF Running, NeverOverfull, InBounds, GetsOldest, Causes

(* The ring is the same, so are the rules by which messages are laid in it.    *)
LEMMA SameRing ==
  ASSUME variant' = variant
  PROVE  /\ Size' = Size /\ (Counts' <=> Counts)
         /\ \A x : Aligned(x)' = Aligned(x)
         /\ \A x, n : Past(x, n)' = Past(x, n)
         /\ \A x : Index(x)' = Index(x)
         /\ \A x, n : First(x, n)' = First(x, n)
         /\ \A x : Takes(x)' = Takes(x)
  BY DEF Size, Counts, Aligned, Past, Index, Takes, First

LEMMA SameRow ==
  ASSUME variant' = variant
  PROVE  /\ \A m : GoodMessage(m)' <=> GoodMessage(m)
         /\ \A L, o : Laid(L, o)' <=> Laid(L, o)
         /\ \A L, m : Follows(L, m)' <=> Follows(L, m)
<1>1. /\ Size' = Size /\ (Counts' <=> Counts)
      /\ \A x : Aligned(x)' = Aligned(x)
      /\ \A x, n : Past(x, n)' = Past(x, n)
      /\ \A x : Takes(x)' = Takes(x)
  BY SameRing
<1>2. \A m : GoodMessage(m)' <=> GoodMessage(m)
  BY <1>1 DEF GoodMessage
<1>3. ASSUME NEW L, NEW o
      PROVE  Laid(L, o)' <=> Laid(L, o)
  BY <1>1, <1>2 DEF Laid
<1>4. ASSUME NEW L, NEW m
      PROVE  Follows(L, m)' <=> Follows(L, m)
  BY <1>1 DEF Follows
<1> QED BY <1>2, <1>3, <1>4

(* What a step leaves as it was.                                               *)
LEMMA RowsStay ==
  ASSUME Rows, UNCHANGED <<queue, nread, nwrite, variant, odd>>
  PROVE  Rows'
<1>1. PICK o : Laid(queue, o)
  BY DEF Rows
<1>2. Laid(queue, o)'
  BY <1>1, SameRow
<1>3. AtEnds(queue)'
  BY SameRing DEF Rows, AtEnds
<1>4. Even'
  BY DEF Rows, Even, Straight
<1> QED BY <1>2, <1>3, <1>4 DEF Rows

LEMMA FitsStay ==
  ASSUME Fits, UNCHANGED <<queue, nwrite, variant, odd>>,
         put'.w = put.w, put'.id = put.id, put'.len = put.len
  PROVE  Fits'
<1>1. Coming' = Coming
  BY SameRing DEF Coming, Message
<1>2. GoodMessage(Coming)' /\ Follows(queue, Coming)'
  BY <1>1, SameRow DEF Fits
<1>3. (put.w = Aligned(nwrite))'
  BY SameRing DEF Fits
<1>4. (Straight => Coming.takes % WORD = 0)'
  BY <1>1 DEF Fits, Straight
<1>5. (Footprint(Append(queue, Coming)) <= Size)'
  BY <1>1, SameRing DEF Fits
<1> QED BY <1>2, <1>3, <1>4, <1>5 DEF Fits

LEMMA FoundStays ==
  ASSUME Found, UNCHANGED <<get, variant>>, odd => odd', queue # <<>> => queue' # <<>> /\ queue'[1] = queue[1]
  PROVE  Found'
<1>1. GetFirst' = GetFirst /\ (Getting' <=> Getting) /\ (Misled => Misled')
  BY SameRing DEF GetFirst, Getting, Misled
<1>2. \A m, n : Bytes(m, n)' = Bytes(m, n)
  BY DEF Bytes
<1> QED BY <1>1, <1>2 DEF Found

(* A step of buf_get that only notes something.                                *)
LEMMA Notes ==
  ASSUME Sound, UNCHANGED <<cells, nread, nwrite, put, variant, queue, odd>>, Erased' = Erased
  PROVE  Rows' /\ (Putting => Fits)' /\ Intact'
<1>1. Rows'
  BY RowsStay DEF Sound
<1>2. (Putting => Fits)'
  BY FitsStay DEF Sound, Putting
<1>3. Intact'
  <2>1. Coming' = Coming /\ Size' = Size /\ PutFirst' = PutFirst
    BY SameRing DEF Coming, Message, PutFirst
  <2>2. \A i : Kept(i)' = Kept(i)
    BY DEF Kept
  <2>3. Copied' = Copied
    BY <2>1 DEF Copied
  <2> QED BY <2>1, <2>2, <2>3 DEF Sound, Intact
<1> QED BY <1>1, <1>2, <1>3

(* A step of buf_put that only copies.                                         *)
LEMMA Copies ==
  ASSUME Sound, Putting, UNCHANGED <<nread, nwrite, get, variant, queue, odd>>,
         put'.w = put.w, put'.id = put.id, put'.len = put.len
  PROVE  /\ Rows' /\ (Putting => Fits)' /\ (Getting => get.r = Aligned(nread))' /\ Found'
         /\ Coming' = Coming /\ Size' = Size /\ PutFirst' = PutFirst /\ \A i : Kept(i)' = Kept(i)
<1>1. Rows'
  BY RowsStay DEF Sound
<1>2. (Putting => Fits)'
  BY FitsStay DEF Sound, Putting
<1>3. (Getting => get.r = Aligned(nread))'
  BY SameRing DEF Sound, Getting
<1>4. Found'
  BY FoundStays DEF Sound
<1>5. Coming' = Coming /\ Size' = Size /\ PutFirst' = PutFirst
  BY SameRing DEF Coming, Message, PutFirst
<1>6. \A i : Kept(i)' = Kept(i)
  BY DEF Kept, Erased
<1> QED BY <1>1, <1>2, <1>3, <1>4, <1>5, <1>6

-----------------------------------------------------------------------------
(* The steps, one by one. Two of them refuse, ...                              *)

LEMMA PutRefuseKeeps ==
  ASSUME RingInv, Running, NEW len \in Lens, PutRefuse(len)
  PROVE  RingInv'
<1>1. /\ put.at \in {"idle", "refused"} /\ put' = [put EXCEPT !.at = "refused", !.len = len]
      /\ UNCHANGED <<cells, nread, nwrite, attached, get, variant, queue, odd>> /\ cause' = cause
  BY DEF PutRefuse, CanPut
<1>2. Shape /\ Sound
  BY DEF RingInv
<1>3. Running' /\ (NeverOverfull /\ InBounds /\ GetsOldest /\ Causes)'
  BY <1>1, Continues
<1>4. put'.at = "refused" /\ ~Putting'
  BY <1>1, <1>2 DEF Shape, Putting
<1>5. Shape'
  BY <1>1, <1>2, <1>4, SameRing DEF Shape, Places, Positions
<1>6. Rows' /\ Found' /\ (Getting => get.r = Aligned(nread))'
  <2>1. Rows'
    BY <1>1, <1>2, RowsStay DEF Sound
  <2>2. Found'
    BY <1>1, <1>2, FoundStays DEF Sound
  <2>3. (Getting => get.r = Aligned(nread))'
    BY <1>1, <1>2, SameRing DEF Sound, Getting
  <2> QED BY <2>1, <2>2, <2>3
<1>7. Intact'
  <2>1. Copied' = 0 /\ put'.at # "rest"
    BY <1>4 DEF Copied
  <2>2. \A i : Kept(i)' = Kept(i)
    BY <1>1 DEF Kept, Erased
  <2>3. Stands(Size, cells, Coming, 0, Copied)'
    BY <2>1 DEF Stands
  <2> QED BY <1>1, <1>2, <2>1, <2>2, <2>3, SameRing DEF Sound, Intact
<1> QED BY <1>3, <1>4, <1>5, <1>6, <1>7 DEF RingInv, Sound

LEMMA GetNoneKeeps ==
  ASSUME RingInv, Running, GetNone
  PROVE  RingInv'
<1>1. /\ get.at \in {"idle", "none", "toolong"} /\ get' = [get EXCEPT !.at = "none"]
      /\ UNCHANGED <<cells, nread, nwrite, attached, put, variant, queue, odd>> /\ cause' = cause
  BY DEF GetNone, CanGet
<1>2. Shape /\ Sound
  BY DEF RingInv
<1>3. Running' /\ (NeverOverfull /\ InBounds /\ GetsOldest /\ Causes)'
  BY <1>1, Continues
<1>4. /\ get'.at = "none" /\ ~Getting' /\ Erased' = FALSE /\ Erased = FALSE
  BY <1>1, <1>2 DEF Shape, Getting, Erased
<1>5. Shape'
  BY <1>1, <1>2, <1>4, SameRing DEF Shape, Places, Positions, Putting
<1>6. Rows' /\ (Putting => Fits)' /\ Intact'
  BY <1>1, <1>2, <1>4, Notes
<1>7. Found'
  BY <1>4 DEF Found
<1> QED BY <1>3, <1>4, <1>5, <1>6, <1>7 DEF RingInv, Sound

LEMMA GetTooLongKeeps ==
  ASSUME RingInv, Running, GetTooLong
  PROVE  RingInv'
<1>1. /\ get.at = "header" /\ get' = [get EXCEPT !.at = "toolong"]
      /\ UNCHANGED <<cells, nread, nwrite, attached, put, variant, queue, odd>> /\ cause' = cause
  BY DEF GetTooLong
<1>2. Shape /\ Sound
  BY DEF RingInv
<1>3. Running' /\ (NeverOverfull /\ InBounds /\ GetsOldest /\ Causes)'
  BY <1>1, Continues
<1>4. /\ get'.at = "toolong" /\ ~Getting' /\ Erased' = FALSE /\ Erased = FALSE
  BY <1>1, <1>2 DEF Shape, Getting, Erased
<1>5. Shape'
  BY <1>1, <1>2, <1>4, SameRing DEF Shape, Places, Positions, Putting
<1>6. Rows' /\ (Putting => Fits)' /\ Intact'
  BY <1>1, <1>2, <1>4, Notes
<1>7. Found'
  BY <1>4 DEF Found
<1> QED BY <1>3, <1>4, <1>5, <1>6, <1>7 DEF RingInv, Sound

(* ... and one attaches.                                                       *)
LEMMA SetupKeeps ==
  ASSUME RingInv, Running, NEW p \in {"producer", "consumer"}, Setup(p)
  PROVE  RingInv'
<1>1. /\ attached' = attached \cup {p}
      /\ UNCHANGED <<cells, put, get, variant, odd>>
  BY DEF Setup
<1>2. Shape /\ Sound
  BY DEF RingInv
<1>3. CASE ~variant.resets
  <2>1. UNCHANGED <<nread, nwrite, queue>> /\ cause' = cause
    BY <1>3 DEF Setup
  <2>2. Running' /\ (NeverOverfull /\ InBounds /\ GetsOldest /\ Causes)'
    BY <2>1, Continues
  <2>3. Shape'
    BY <1>1, <1>2, <2>1, SameRing DEF Shape, Positions, Putting
  <2>4. Rows' /\ (Putting => Fits)' /\ Intact'
    <3>1. Erased' = Erased
      BY <1>1 DEF Erased
    <3> QED BY <1>1, <1>2, <2>1, <3>1, Notes
  <2>5. Found'
    BY <1>1, <1>2, <2>1, FoundStays DEF Sound
  <2>6. (Getting => get.r = Aligned(nread))'
    BY <1>1, <1>2, <2>1, SameRing DEF Sound, Getting
  <2> QED BY <2>2, <2>3, <2>4, <2>5, <2>6 DEF RingInv, Sound
<1>4. CASE variant.resets
  <2>1. /\ nread' = 0 /\ nwrite' = 0 /\ queue' = <<>>
        /\ cause' = IF queue # <<>> \/ Busy THEN "reset" ELSE cause
    BY <1>4 DEF Setup
  <2>2. Shape'
    <3>1. Positions'
      <4>1. 0 \in 0 .. WRAP - 1 /\ 0 \in 0 .. Size
        BY <1>2, Units, VariantFields DEF Shape
      <4> QED BY <1>1, <2>1, <4>1, SameRing DEF Positions
    <3> QED BY <1>1, <1>2, <3>1, SameRing DEF Shape, Putting
  <2>3. CASE queue # <<>> \/ Busy
    <3>1. cause' = "reset"
      BY <2>1, <2>3, Zenon
    <3>2. ~Running' /\ (NeverOverfull /\ InBounds /\ GetsOldest /\ Causes)'
      BY <3>1, Zenon DEF Running, NeverOverfull, InBounds, GetsOldest, Causes
    <3> QED BY <2>2, <3>2 DEF RingInv
  <2>4. CASE queue = <<>> /\ ~Busy
    <3>1. cause' = cause
      BY <2>1, <2>4, Zenon
    <3>2. Running' /\ (NeverOverfull /\ InBounds /\ GetsOldest /\ Causes)'
      BY <3>1, Continues
    <3>3. ~Putting' /\ ~Getting' /\ ~Erased' /\ Copied' = 0 /\ put'.at # "rest"
      BY <1>1, <2>4 DEF Busy, Putting, Getting, Erased, Copied
    <3>4. Rows'
      <4>1. PICK o : Laid(queue, o)
        BY <1>2 DEF Sound, Rows
      <4>2. Laid(queue, o)'
        <5>1. queue' = queue
          BY <2>1, <2>4
        <5> QED BY <1>1, <4>1, <5>1, SameRow
      <4>3. AtEnds(queue)' /\ Even'
        <5>1. Len(queue') = 0 /\ 0 % WORD = 0
          BY <2>1, EmptySeq, Units, ModBelow
        <5> QED BY <2>1, <5>1 DEF AtEnds, Even
      <4> QED BY <4>2, <4>3 DEF Rows
    <3>5. Intact'
      <4>1. Stands(Size, cells, Coming, 0, Copied)'
        BY <3>3 DEF Stands
      <4>2. Len(queue') = 0
        BY <2>1, EmptySeq
      <4> QED BY <3>3, <4>1, <4>2 DEF Intact
    <3>6. Found'
      BY <3>3 DEF Found
    <3> QED BY <2>2, <3>2, <3>3, <3>4, <3>5, <3>6 DEF RingInv, Sound
  <2> QED BY <2>3, <2>4
<1> QED BY <1>3, <1>4

(* A call of buf_put that finds room.                                          *)
LEMMA PutCallKeeps ==
  ASSUME RingInv, Running, NEW len \in Lens, PutCall(len)
  PROVE  RingInv'
<1> DEFINE w == Aligned(nwrite)
           id == (put.id % NIDS) + 1
<1>1. PICK m : m = Message(w, id, len)
  OBVIOUS
<1>2. /\ put.at \in {"idle", "refused"} /\ Room(w, len)
      /\ put' = [at |-> "header", w |-> w, id |-> id, len |-> len]
      /\ odd' = (odd \/ len % WORD # 0)
      /\ cause' = IF Footprint(Append(queue, m)) > Size THEN "overfull"
                  ELSE IF Jumps(w, len) THEN "jump" ELSE cause
      /\ UNCHANGED <<cells, nread, nwrite, attached, get, variant, queue>>
  BY <1>1 DEF PutCall, CanPut
<1>3. Shape /\ Sound /\ variant \in Variants /\ Positions /\ odd \in BOOLEAN
  BY DEF RingInv, Shape
<1>4. id \in 1 .. NIDS
  <2> DEFINE x == put.id
             r == x % NIDS
  <2>1. x \in Int /\ NIDS \in Nat \ {0}
    BY <1>3, PutFields, Units
  <2> HIDE DEF x
  <2>2. r \in 0 .. NIDS - 1
    BY <2>1, ModRange
  <2> HIDE DEF r
  <2>3. r + 1 \in 1 .. NIDS
    BY <2>1, <2>2
  <2> QED BY <2>3 DEF r, x
<1> HIDE DEF id
<1>5. PICK o : Laid(queue, o)
  BY <1>3 DEF Sound, Rows
<1>6. Even /\ AtEnds(queue)
  BY <1>3 DEF Sound, Rows
<1> HIDE DEF w
<1>7. /\ m \in MessageType /\ m.w = w /\ m.gap = (m.w - nwrite) % WRAP
      /\ m.id = id /\ m.len = len /\ m.takes = Takes(len)
      /\ m.w \in 0 .. WRAP - 1
  BY <1>1, <1>3, <1>4, MessageIs DEF w
<1>8. Gauge(o, m, len)
  BY <1>1, <1>3, <1>4, <1>5, <1>6, Gauged DEF w
<1>9. /\ odd' \in BOOLEAN /\ odd => odd'
      /\ ~odd' => ~odd /\ len % WORD = 0
  BY <1>2, <1>3
<1>10. Coming' = m /\ Size' = Size
  BY <1>1, <1>2, SameRing DEF Coming, Message
<1>11. Shape'
  <2>1. w \in 0 .. WRAP - 1
    BY <1>7
  <2>2. /\ Putting'
        /\ put' \in [at : Places \cup {"refused"}, w : 0 .. WRAP - 1, id : 1 .. NIDS, len : Lens \cup {0}]
    BY <1>2, <1>4, <2>1 DEF Putting, Places
  <2> QED BY <1>2, <1>3, <1>9, <2>2, SameRing DEF Shape, Positions
<1>12. CASE Footprint(Append(queue, m)) > Size
  <2>1. cause' = "overfull"
    BY <1>2, <1>12, Zenon
  <2>2. ~Running' /\ (InBounds /\ GetsOldest /\ Causes)'
    BY <2>1, Zenon DEF Running, InBounds, GetsOldest, Causes
  <2>3. NeverOverfull'
    <3> DEFINE F == Footprint(Append(queue, m))
    <3>1. /\ variant.room = "headerless" => F <= Size + WORD
          /\ variant.room = "capacity"   => (nwrite - nread) % WRAP = Size
          /\ variant.room = "offsets"    => w <= nread
          /\ variant.room = "counted"    => odd' /\ (w - nread) % WRAP > Size
          /\ variant.room = "sum"        => w + WORD + len >= WRAP
      BY <1>2, <1>3, <1>5, <1>6, <1>7, <1>8, <1>9, <1>12, Overfills
    <3>2. /\ Footprint(Append(queue', Coming')) = F
          /\ put'.w = w /\ put'.len = len /\ nwrite' = nwrite /\ nread' = nread /\ variant' = variant
      BY <1>2, <1>10
    <3>3. variant.room \in {"counted", "headerless", "sum", "capacity", "offsets"}
      BY <1>3, VariantFields
    <3> HIDE DEF F
    <3>4. LET taken == Footprint(Append(queue', Coming'))
          IN  CASE variant'.room = "headerless" -> taken <= Size' + WORD
                [] variant'.room = "capacity"   -> (nwrite' - nread') % WRAP = Size'
                [] variant'.room = "offsets"    -> put'.w <= nread'
                [] variant'.room = "counted"    -> odd' /\ (put'.w - nread') % WRAP > Size'
                [] variant'.room = "sum"        -> put'.w + WORD + put'.len >= WRAP
      BY <1>10, <3>1, <3>2, <3>3, Zenon
    <3> QED BY <3>4, Zenon DEF NeverOverfull, Coming
  <2> QED BY <1>11, <2>2, <2>3 DEF RingInv
<1>13. CASE ~(Footprint(Append(queue, m)) > Size) /\ Jumps(w, len)
  <2>1. cause' = "jump"
    BY <1>2, <1>13, Zenon
  <2>2. ~Running' /\ (NeverOverfull /\ InBounds /\ GetsOldest /\ Causes)'
    BY <2>1, Zenon DEF Running, NeverOverfull, InBounds, GetsOldest, Causes
  <2> QED BY <1>11, <2>2 DEF RingInv
<1>14. CASE ~(Footprint(Append(queue, m)) > Size) /\ ~Jumps(w, len)
  <2>1. cause' = cause
    BY <1>2, <1>14, Zenon
  <2>2. Running' /\ (NeverOverfull /\ InBounds /\ GetsOldest /\ Causes)'
    BY <2>1, Continues
  <2>3. Rows'
    <3>1. Laid(queue, o)' /\ AtEnds(queue)'
      BY <1>2, <1>5, <1>6, SameRow, SameRing DEF AtEnds
    <3>2. Even'
      BY <1>2, <1>6, <1>9 DEF Even, Straight
    <3> QED BY <3>1, <3>2 DEF Rows
  <2>4. Counts /\ WRAP % Size # 0 => w >= nwrite /\ w + WORD + len < WRAP
    <3>1. w \in Int /\ nwrite \in Int /\ WORD \in Int /\ WRAP \in Int /\ len \in Int
      BY <1>3, <1>7, Units DEF Positions
    <3>2. Counts /\ WRAP % Size # 0 => ~(w < nwrite) /\ ~(w + WORD + len >= WRAP)
      BY <1>14 DEF Jumps, Counts
    <3> QED BY <3>1, <3>2
  <2>5. GoodMessage(m)
    <3>1. ~Counts => w <= Size
      <4>1. ~Counts => m.w = nwrite
        BY <1>8 DEF Gauge
      <4> QED BY <1>3, <1>7, <4>1, VariantFields DEF Positions
    <3> QED BY <1>7, <2>4, <3>1 DEF GoodMessage
  <2>6. Follows(queue, m)
    <3>1. queue # <<>> => Past(queue[Len(queue)].w, queue[Len(queue)].takes) = nwrite
      BY <1>6 DEF AtEnds
    <3> QED BY <1>7, <2>4, <3>1 DEF Follows, w
  <2>7. Footprint(Append(queue, m)) <= Size
    <3>1. Footprint(Append(queue, m)) \in Int /\ Size \in Int
      <4>1. /\ Footprint(Append(queue, m)) = Start(queue, o, m) + m.takes /\ m.takes \in Nat
            /\ Start(queue, o, m) \in 0 .. Size + WORD - 1
        BY <1>8 DEF Gauge
      <4> QED BY <1>3, <4>1, VariantFields, Units
    <3> QED BY <1>14, <3>1
  <2>8. Fits'
    <3>1. GoodMessage(m)' /\ Follows(queue, m)'
      BY <1>2, <2>5, <2>6, SameRow
    <3>2. (Straight => m.takes % WORD = 0)'
      <4>1. variant.rounds \/ len % WORD = 0 => m.takes % WORD = 0
        BY <1>3, <1>7, TakesIs
      <4> QED BY <1>2, <1>9, <4>1 DEF Straight
    <3>3. (put.w = Aligned(nwrite))'
      BY <1>2, SameRing DEF w
    <3> QED BY <1>2, <1>10, <2>7, <3>1, <3>2, <3>3 DEF Fits
  <2>9. (Getting => get.r = Aligned(nread))' /\ Found'
    <3>1. (Getting => get.r = Aligned(nread))'
      BY <1>2, <1>3, SameRing DEF Sound, Getting
    <3>2. Found'
      BY <1>2, <1>3, <1>9, FoundStays DEF Sound
    <3> QED BY <3>1, <3>2
  <2>10. Intact'
    <3>1. Copied' = 0 /\ put'.at # "rest"
      BY <1>2 DEF Copied
    <3>2. \A i : Kept(i)' = Kept(i)
      BY <1>2 DEF Kept, Erased
    <3>3. Stands(Size, cells, Coming, 0, Copied)'
      BY <3>1 DEF Stands
    <3> QED BY <1>2, <1>3, <1>10, <3>1, <3>2, <3>3 DEF Sound, Intact
  <2> QED BY <1>11, <2>2, <2>3, <2>8, <2>9, <2>10 DEF RingInv, Sound
<1> QED BY <1>12, <1>13, <1>14

(* What goes before the end of the ring.                                       *)
LEMMA FirstIs ==
  ASSUME variant \in Variants, NEW x \in 0 .. Size - 1, NEW len \in Nat
  PROVE  /\ First(x, len) \in 0 .. len
         /\ ~variant.mirror => x + First(x, len) <= Size
<1>1. Size \in Nat \ {0} /\ variant.mirror \in BOOLEAN
  BY VariantFields
<1> QED BY <1>1 DEF First

(* The message that is being put, at the end of the row.                       *)
LEMMA AtTheEnd ==
  ASSUME Shape, Sound, Putting
  PROVE  /\ GoodMessage(Coming) /\ put.len \in Lens /\ put.len \in Nat \ {0}
         /\ Coming.takes \in Nat /\ WORD + put.len <= Coming.takes /\ Coming.takes <= Size
         /\ \E K, p : /\ Laid(K, p) /\ Len(queue) + 1 \in 1 .. Len(K) /\ K[Len(queue) + 1] = Coming
                      /\ \A i \in 1 .. Len(queue) : /\ i \in 1 .. Len(K) /\ i # Len(queue) + 1
                                                    /\ K[i] = queue[i]
<1> DEFINE K == Append(queue, Coming)
           n == Len(queue)
<1>1. variant \in Variants /\ put.len \in Lens /\ Fits
  BY DEF Shape, Sound
<1>2. PICK o : Laid(queue, o)
  BY DEF Sound, Rows
<1>3. Laid(K, Longer(queue, o, Coming))
  BY <1>1, <1>2, RowAppend DEF Fits
<1>4. queue \in Seq(MessageType) /\ Coming \in MessageType /\ n \in Nat
  BY <1>1, <1>2, RowParts DEF Fits, GoodMessage
<1> HIDE DEF n
<1>5. Len(K) = n + 1 /\ K[n + 1] = Coming /\ \A i \in 1 .. n : K[i] = queue[i]
  BY <1>4, AppendParts DEF n
<1>6. n + 1 \in 1 .. Len(K)
  BY <1>4, <1>5
<1> DEFINE p == Longer(queue, o, Coming)
<1> HIDE DEF p, K
<1>7. /\ K[n + 1].takes \in Nat \ {0} /\ K[n + 1].takes <= Size /\ WORD + K[n + 1].len <= K[n + 1].takes
  BY <1>1, <1>3, <1>6, RowParts DEF p
<1>8. put.len \in Nat \ {0} /\ Coming.len = put.len
  BY <1>1, Units, PutFields
<1>9. \A i \in 1 .. n : i \in 1 .. Len(K) /\ i # n + 1
  BY <1>4, <1>5
<1>10. GoodMessage(Coming)
  BY <1>1 DEF Fits
<1>11. \E L, q : /\ Laid(L, q) /\ n + 1 \in 1 .. Len(L) /\ L[n + 1] = Coming
                 /\ \A i \in 1 .. n : i \in 1 .. Len(L) /\ i # n + 1 /\ L[i] = queue[i]
  BY <1>3, <1>5, <1>6, <1>9 DEF p
<1>12. Coming.takes \in Nat /\ WORD + put.len <= Coming.takes /\ Coming.takes <= Size
  BY <1>5, <1>7, <1>8
<1> QED BY <1>1, <1>8, <1>10, <1>11, <1>12 DEF n

(* Copying N cells more of it.                                                 *)
LEMMA Copying ==
  ASSUME Shape, Sound, Putting, NEW k \in Nat, NEW N \in Nat, k + N <= WORD + put.len, Copied = k,
         NEW c, c = Stored((put.w + k) % Size, put.id, put.len, k, N)
  PROVE  /\ c \in [0 .. Size - 1 -> CellType(Size)]
         /\ \A i \in 1 .. Len(queue) : Stands(Size, c, queue[i], Kept(i), WORD + queue[i].len)
         /\ Stands(Size, c, Coming, 0, k + N)
<1> DEFINE j == Len(queue) + 1
<1>1. /\ variant \in Variants /\ DOMAIN cells = 0 .. Size - 1 /\ Size \in Nat \ {0} /\ WORD \in Nat \ {0}
      /\ cells \in [0 .. Size - 1 -> CellType(Size)]
  BY VariantFields, Units DEF Shape
<1>2. /\ put.w \in 0 .. WRAP - 1 /\ put.id \in 1 .. NIDS /\ put.len \in Lens \cup {0}
      /\ Coming.w = put.w /\ Coming.id = put.id /\ Coming.len = put.len
  BY PutFields
<1>3. put.len \in Nat /\ Coming.takes \in Nat /\ WORD + put.len <= Coming.takes /\ Coming.takes <= Size
  BY AtTheEnd
<1>4. PICK K, p : /\ Laid(K, p) /\ j \in 1 .. Len(K) /\ K[j] = Coming
                  /\ \A i \in 1 .. Len(queue) : /\ i \in 1 .. Len(K) /\ i # j /\ K[i] = queue[i]
  BY AtTheEnd
<1> HIDE DEF j
<1>5. k \in 0 .. K[j].takes /\ k + N <= K[j].takes
  <2>1. k \in 0 .. Coming.takes /\ k + N <= Coming.takes
    BY <1>1, <1>3
  <2> QED BY <1>4, <2>1
<1>6. c = Stored((K[j].w + k) % Size, K[j].id, K[j].len, k, N)
  BY <1>2, <1>4
<1>7. c \in [0 .. Size - 1 -> CellType(Size)]
  <2> DEFINE x == (put.w + k) % Size
  <2> SUFFICES ASSUME NEW a \in 0 .. Size - 1
               PROVE  (LET d == (a - x) % Size IN IF d < N THEN Cell(put.id, put.len, k + d) ELSE cells[a])
                        \in CellType(Size)
    BY <1>1 DEF Stored
  <2> DEFINE d == (a - x) % Size
  <2>1. d \in 0 .. Size - 1
    <3>1. x \in 0 .. Size - 1
      <4> DEFINE y == put.w + k
      <4>1. y \in Nat
        BY <1>2, Units
      <4> HIDE DEF y
      <4>2. y % Size \in 0 .. Size - 1
        BY <1>1, <4>1, InRing
      <4> QED BY <4>2 DEF y
    <3> DEFINE z == a - x
    <3> HIDE DEF x
    <3>2. z \in Int
      BY <1>1, <3>1
    <3> HIDE DEF z
    <3>3. z % Size \in 0 .. Size - 1
      BY <1>1, <3>2, ModRange
    <3> QED BY <3>3 DEF z
  <2> HIDE DEF d
  <2>2. d < N => k + d \in 0 .. Size
    BY <1>1, <1>3, <2>1
  <2>3. d < N => Cell(put.id, put.len, k + d) \in CellType(Size)
    BY <1>2, <2>2 DEF Cell, CellType
  <2> QED BY <1>1, <2>3 DEF d
<1>8. Stands(Size, c, Coming, 0, k + N)
  <2>1. Stands(Size, cells, K[j], 0, k)
    BY <1>4 DEF Sound, Intact
  <2> QED BY <1>1, <1>4, <1>5, <1>6, <2>1, WritingGrows
<1>9. ASSUME NEW i \in 1 .. Len(queue)
      PROVE  Stands(Size, c, queue[i], Kept(i), WORD + queue[i].len)
  <2>1. i \in 1 .. Len(K) /\ i # j /\ K[i] = queue[i]
    BY <1>4
  <2>2. Stands(Size, cells, K[i], Kept(i), WORD + K[i].len)
    BY <2>1 DEF Sound, Intact
  <2> DEFINE a == Kept(i)
             b == WORD + K[i].len
  <2>3. a \in Nat /\ b \in Int /\ b <= K[i].takes
    <3>1. /\ WORD + K[i].len <= K[i].takes /\ K[i].len \in Nat
      BY <1>1, <1>4, <2>1, RowParts, Units
    <3> QED BY <1>1, <3>1 DEF Kept
  <2> HIDE DEF a, b
  <2>4. Stands(Size, cells, K[i], a, b)
    BY <2>2 DEF a, b
  <2>5. Stands(Size, Stored((K[j].w + k) % Size, K[j].id, K[j].len, k, N), K[i], a, b)
    BY <1>1, <1>4, <1>5, <2>1, <2>3, <2>4, WritingKeeps
  <2> QED BY <1>6, <2>1, <2>5 DEF a, b
<1> QED BY <1>7, <1>8, <1>9

(* The copies of buf_put: the header, ...                                      *)
LEMMA PutHeaderKeeps ==
  ASSUME RingInv, Running, PutHeader
  PROVE  RingInv'
<1>1. /\ put.at = "header" /\ UNCHANGED <<nread, nwrite, attached, get, variant, queue, odd>>
  BY DEF PutHeader
<1>2. Shape /\ Sound /\ variant \in Variants /\ Positions /\ odd \in BOOLEAN /\ Putting
  BY <1>1 DEF RingInv, Shape, Putting
<1>3. /\ Size \in Nat \ {0} /\ WORD \in Nat \ {0} /\ put.len \in Nat /\ put.w \in Nat
  BY <1>2, VariantFields, Units, PutFields, AtTheEnd
<1>4. CASE Outside(Index(put.w), WORD)
  <2>1. cause' = "fault" /\ UNCHANGED <<cells, put>>
    BY <1>4 DEF PutHeader
  <2>2. Shape'
    BY <1>1, <1>2, <2>1, SameRing DEF Shape, Positions, Putting
  <2>3. variant.limit < Size \/ (odd /\ ~variant.aligns)
    <3> SUFFICES ASSUME ~(variant.limit < Size)
                 PROVE  odd /\ ~variant.aligns
      OBVIOUS
    <3> DEFINE x == put.w % Size
    <3>1. x \in 0 .. Size - 1 /\ x + WORD > Size
      <4>1. x \in 0 .. Size - 1
        BY <1>2, <1>3, InRing
      <4>2. x + WORD > variant.limit /\ variant.limit \in Nat
        BY <1>2, <1>4, VariantFields DEF Outside, Index
      <4> HIDE DEF x
      <4> QED BY <1>3, <4>1, <4>2
    <3>2. ~(put.w % WORD = 0)
      <4> SUFFICES ASSUME put.w % WORD = 0 PROVE FALSE
        OBVIOUS
      <4>1. Size % WORD = 0
        BY <1>2, VariantFields
      <4>2. x % WORD = 0
        <5>1. put.w \in Int
          BY <1>3
        <5> QED BY <1>3, <4>1, <5>1, MultipleMod
      <4> DEFINE y == Size - WORD
      <4>3. y % WORD = 0
        <5>1. WORD % WORD = 0
          BY Units, <1>3, ModOver
        <5>2. Size \in Int /\ WORD \in Int
          BY <1>3
        <5> QED BY <1>3, <4>1, <5>1, <5>2, MultipleSum
      <4> HIDE DEF x
      <4>4. y \in Int /\ x \in Int /\ x - y < WORD
        BY <1>3, <3>1
      <4> HIDE DEF y
      <4>5. x <= y
        BY <1>3, <4>2, <4>3, <4>4, Multiples
      <4> QED BY <1>3, <3>1, <4>5 DEF y
    <3>3. /\ put.w = Aligned(nwrite) /\ nwrite \in 0 .. WRAP - 1
      BY <1>2 DEF Sound, Fits, Positions
    <3>4. ~variant.aligns /\ ~(nwrite % WORD = 0)
      BY <1>2, <3>2, <3>3, AlignedIs
    <3>5. odd
      BY <1>2, <3>4 DEF Sound, Rows, Even, Straight
    <3> QED BY <3>4, <3>5
  <2>4. InBounds'
    <3>1. variant'.limit < Size' \/ (odd' /\ ~variant'.aligns)
      BY <1>1, <2>3, SameRing
    <3> QED BY <3>1, Zenon DEF InBounds
  <2>5. ~Running' /\ (NeverOverfull /\ GetsOldest /\ Causes)'
    BY <2>1, Zenon DEF Running, NeverOverfull, GetsOldest, Causes
  <2> QED BY <2>2, <2>4, <2>5 DEF RingInv
<1>5. CASE ~Outside(Index(put.w), WORD)
  <2>1. /\ cells' = Stored(Index(put.w), put.id, put.len, 0, WORD)
        /\ put' = [put EXCEPT !.at = "bytes"] /\ cause' = cause
    BY <1>5 DEF PutHeader
  <2>2. Running' /\ (NeverOverfull /\ InBounds /\ GetsOldest /\ Causes)'
    BY <2>1, Continues
  <2>3. put'.at = "bytes" /\ put'.w = put.w /\ put'.id = put.id /\ put'.len = put.len
    BY <1>2, <2>1 DEF Shape
  <2>4. cells' = Stored((put.w + 0) % Size, put.id, put.len, 0, WORD)
    BY <1>3, <2>1 DEF Index
  <2>5. Copied = 0 /\ 0 + WORD <= WORD + put.len
    BY <1>1, <1>3 DEF Copied
  <2>6. /\ cells' \in [0 .. Size - 1 -> CellType(Size)]
        /\ \A i \in 1 .. Len(queue) : Stands(Size, cells', queue[i], Kept(i), WORD + queue[i].len)
        /\ Stands(Size, cells', Coming, 0, 0 + WORD)
    BY <1>2, <1>3, <2>4, <2>5, Copying
  <2>7. /\ Rows' /\ (Putting => Fits)' /\ (Getting => get.r = Aligned(nread))' /\ Found'
        /\ Coming' = Coming /\ Size' = Size /\ PutFirst' = PutFirst /\ \A i : Kept(i)' = Kept(i)
    BY <1>1, <1>2, <2>3, Copies
  <2>8. Shape'
    BY <1>1, <1>2, <2>1, <2>3, <2>6, <2>7 DEF Shape, Positions, Putting, Places, Counts
  <2>9. Intact'
    <3>1. Copied' = 0 + WORD
      BY <1>3, <2>3 DEF Copied
    <3> QED BY <1>1, <2>3, <2>6, <2>7, <3>1 DEF Intact
  <2> QED BY <2>2, <2>7, <2>8, <2>9 DEF RingInv, Sound
<1> QED BY <1>4, <1>5

(* ... the bytes up to the end of the ring, ...                                *)
LEMMA PutBytesKeeps ==
  ASSUME RingInv, Running, PutBytes
  PROVE  RingInv'
<1> DEFINE x == Index(Past(put.w, WORD))
           n == First(x, put.len)
<1>1. /\ put.at = "bytes" /\ UNCHANGED <<nread, nwrite, attached, get, variant, queue, odd>>
      /\ IF Outside(x, n)
         THEN cause' = "fault" /\ UNCHANGED <<cells, put>>
         ELSE /\ cells' = Stored(x, put.id, put.len, WORD, n)
              /\ put' = [put EXCEPT !.at = IF n < put.len THEN "rest" ELSE "publish"]
              /\ UNCHANGED cause
  BY DEF PutBytes
<1>2. Shape /\ Sound /\ variant \in Variants /\ Positions /\ odd \in BOOLEAN /\ Putting
  BY <1>1 DEF RingInv, Shape, Putting
<1>3. /\ Size \in Nat \ {0} /\ WORD \in Nat \ {0} /\ put.len \in Nat /\ put.w \in Nat
      /\ GoodMessage(Coming) /\ Coming.takes \in Nat /\ Coming.takes <= Size /\ WORD + put.len <= Coming.takes
      /\ Coming.w = put.w /\ variant.limit \in Nat
  BY <1>2, VariantFields, Units, PutFields, AtTheEnd
<1>4. x = (put.w + WORD) % Size /\ x \in 0 .. Size - 1
  <2>1. WORD \in 0 .. Coming.takes
    BY <1>3
  <2>2. x = (put.w + WORD) % Size
    BY <1>2, <1>3, <2>1, PastPlace DEF Index
  <2>3. put.w + WORD \in Nat
    BY <1>3
  <2> QED BY <1>2, <2>2, <2>3, InRing
<1>5. n \in 0 .. put.len /\ (~variant.mirror => x + n <= Size)
  <2> HIDE DEF x
  <2> QED BY <1>2, <1>3, <1>4, FirstIs
<1>6. CASE Outside(x, n)
  <2>1. cause' = "fault" /\ UNCHANGED <<cells, put>>
    BY <1>1, <1>6
  <2>2. Shape'
    BY <1>1, <1>2, <2>1, SameRing DEF Shape, Positions, Putting
  <2>3. variant.limit < Size
    <3>1. ~variant.mirror /\ x + n > variant.limit
      BY <1>6 DEF Outside
    <3> HIDE DEF x, n
    <3> QED BY <1>3, <1>4, <1>5, <3>1
  <2>4. InBounds'
    <3>1. variant'.limit < Size'
      BY <1>1, <2>3, SameRing
    <3> QED BY <3>1, Zenon DEF InBounds
  <2>5. ~Running' /\ (NeverOverfull /\ GetsOldest /\ Causes)'
    BY <2>1, Zenon DEF Running, NeverOverfull, GetsOldest, Causes
  <2> QED BY <2>2, <2>4, <2>5 DEF RingInv
<1>7. CASE ~Outside(x, n)
  <2>1. /\ cells' = Stored(x, put.id, put.len, WORD, n)
        /\ put' = [put EXCEPT !.at = IF n < put.len THEN "rest" ELSE "publish"] /\ cause' = cause
    BY <1>1, <1>7
  <2>2. Running' /\ (NeverOverfull /\ InBounds /\ GetsOldest /\ Causes)'
    BY <2>1, Continues
  <2>3. /\ put'.at = (IF n < put.len THEN "rest" ELSE "publish")
        /\ put'.w = put.w /\ put'.id = put.id /\ put'.len = put.len
    BY <1>2, <2>1 DEF Shape
  <2>4. cells' = Stored((put.w + WORD) % Size, put.id, put.len, WORD, n)
    BY <1>4, <2>1
  <2>5. Copied = WORD /\ WORD + n <= WORD + put.len /\ n \in Nat /\ WORD \in Nat
    BY <1>1, <1>3, <1>5 DEF Copied
  <2>6. PutFirst = n
    BY DEF PutFirst
  <2> HIDE DEF n, x
  <2>7. /\ cells' \in [0 .. Size - 1 -> CellType(Size)]
        /\ \A i \in 1 .. Len(queue) : Stands(Size, cells', queue[i], Kept(i), WORD + queue[i].len)
        /\ Stands(Size, cells', Coming, 0, WORD + n)
    BY <1>2, <2>4, <2>5, Copying
  <2>8. /\ Rows' /\ (Putting => Fits)' /\ (Getting => get.r = Aligned(nread))' /\ Found'
        /\ Coming' = Coming /\ Size' = Size /\ PutFirst' = PutFirst /\ \A i : Kept(i)' = Kept(i)
    BY <1>1, <1>2, <2>3, Copies
  <2>9. Shape'
    BY <1>1, <1>2, <2>1, <2>3, <2>7, <2>8 DEF Shape, Positions, Putting, Places, Counts
  <2>10. Intact'
    <3>1. Copied' = WORD + n /\ (put'.at = "rest" => PutFirst' < put'.len)
      <4>1. ~(n < put.len) => n = put.len
        BY <1>3, <1>5
      <4> QED BY <2>3, <2>6, <2>8, <4>1 DEF Copied
    <3> QED BY <1>1, <2>7, <2>8, <3>1 DEF Intact
  <2> QED BY <2>2, <2>8, <2>9, <2>10 DEF RingInv, Sound
<1> QED BY <1>6, <1>7

(* ... and those from its start on.                                            *)
LEMMA PutRestKeeps ==
  ASSUME RingInv, Running, PutRest
  PROVE  RingInv'
<1> DEFINE n == PutFirst
           k == WORD + n
           N == put.len - n
<1>1. /\ put.at = "rest" /\ UNCHANGED <<nread, nwrite, attached, get, variant, queue, odd>> /\ cause' = cause
      /\ cells' = Stored(Index(Past(put.w, k)), put.id, put.len, k, N)
      /\ put' = [put EXCEPT !.at = "publish"]
  BY DEF PutRest, PutFirst
<1>2. Shape /\ Sound /\ variant \in Variants /\ Positions /\ odd \in BOOLEAN /\ Putting
  BY <1>1 DEF RingInv, Shape, Putting
<1>3. /\ Size \in Nat \ {0} /\ WORD \in Nat \ {0} /\ put.len \in Nat /\ put.w \in Nat
      /\ GoodMessage(Coming) /\ Coming.takes \in Nat /\ Coming.takes <= Size /\ WORD + put.len <= Coming.takes
      /\ Coming.w = put.w
  BY <1>2, VariantFields, Units, PutFields, AtTheEnd
<1>4. n \in 0 .. put.len
  <2> DEFINE y == Past(put.w, WORD)
             x == y % Size
  <2>1. WORD \in 0 .. Coming.takes
    BY <1>3
  <2>2. y \in Nat
    BY <1>2, <1>3, <2>1, PastPlace, Units
  <2> HIDE DEF y
  <2>3. x \in 0 .. Size - 1
    BY <1>2, <2>2, InRing
  <2> HIDE DEF x
  <2>4. First(x, put.len) \in 0 .. put.len
    BY <1>2, <1>3, <2>3, FirstIs
  <2> QED BY <2>4 DEF x, y, PutFirst, Index
<1> HIDE DEF n
<1>5. /\ k \in Nat /\ N \in Nat /\ k \in 0 .. Coming.takes /\ k + N = WORD + put.len
      /\ k + N <= WORD + put.len /\ Copied = k
  BY <1>1, <1>3, <1>4 DEF Copied, n
<1> HIDE DEF k, N
<1>6. Index(Past(put.w, k)) = (put.w + k) % Size
  BY <1>2, <1>3, <1>5, PastPlace DEF Index
<1>7. /\ cells' \in [0 .. Size - 1 -> CellType(Size)]
      /\ \A i \in 1 .. Len(queue) : Stands(Size, cells', queue[i], Kept(i), WORD + queue[i].len)
      /\ Stands(Size, cells', Coming, 0, k + N)
  BY <1>1, <1>2, <1>5, <1>6, Copying
<1>8. Running' /\ (NeverOverfull /\ InBounds /\ GetsOldest /\ Causes)'
  BY <1>1, Continues
<1>9. put'.at = "publish" /\ put'.w = put.w /\ put'.id = put.id /\ put'.len = put.len
  BY <1>1, <1>2 DEF Shape
<1>10. /\ Rows' /\ (Putting => Fits)' /\ (Getting => get.r = Aligned(nread))' /\ Found'
       /\ Coming' = Coming /\ Size' = Size /\ PutFirst' = PutFirst /\ \A i : Kept(i)' = Kept(i)
  BY <1>1, <1>2, <1>9, Copies
<1>11. Shape'
  BY <1>1, <1>2, <1>7, <1>9, <1>10 DEF Shape, Positions, Putting, Places, Counts
<1>12. Intact'
  <2>1. Copied' = k + N
    BY <1>5, <1>9 DEF Copied
  <2> QED BY <1>1, <1>7, <1>9, <1>10, <2>1 DEF Intact
<1> QED BY <1>8, <1>10, <1>11, <1>12 DEF RingInv, Sound

(* Straight counters go on straight.                                           *)
LEMMA PastStraight ==
  ASSUME variant \in Variants, NEW m, GoodMessage(m), m.takes <= Size, m.w % WORD = 0, m.takes % WORD = 0
  PROVE  Past(m.w, m.takes) % WORD = 0
<1> DEFINE w == m.w
           t == m.takes
           x == w + t
<1>1. /\ WORD \in Nat \ {0} /\ WRAP \in Nat \ {0} /\ WRAP % WORD = 0 /\ Size \in Nat \ {0} /\ Size % WORD = 0
      /\ 2 * (Size + 2 * WORD) <= WRAP
  BY Units, VariantFields
<1>2. w \in 0 .. WRAP - 1 /\ t \in Nat /\ (~Counts => w <= Size)
  BY DEF GoodMessage, MessageType
<1> HIDE DEF w, t
<1>3. x \in Int /\ x % WORD = 0
  <2>1. w \in Int /\ t \in Int /\ w % WORD = 0 /\ t % WORD = 0
    BY <1>2 DEF w, t
  <2>2. w + t \in Int
    BY <2>1
  <2>3. (w + t) % WORD = 0
    BY <1>1, <2>1, MultipleSum, Zenon
  <2> QED BY <2>2, <2>3
<1>4. t <= Size
  BY DEF t
<1>5. CASE Counts
  <2>1. Past(w, t) = x % WRAP
    <3>1. t < WRAP
      BY <1>1, <1>2, <1>4
    <3> QED BY <1>2, <1>5, <3>1, PastCounts
  <2> HIDE DEF x
  <2>2. (x % WRAP) % WORD = 0
    BY <1>1, <1>3, MultipleMod
  <2> QED BY <2>1, <2>2 DEF w, t
<1>6. CASE ~Counts
  <2>1. Past(w, t) = IF x > Size THEN x - Size ELSE x
    <3>1. w \in 0 .. Size /\ t \in 0 .. Size
      BY <1>1, <1>2, <1>4, <1>6
    <3>2. Past(w, t) = IF w + t > Size THEN w + t - Size ELSE w + t
      BY <1>6, <3>1, PastOffset
    <3> QED BY <1>1, <3>1, <3>2
  <2> HIDE DEF x
  <2>2. (x - Size) % WORD = 0
    <3>1. Size \in Int
      BY <1>1
    <3> QED BY <1>1, <1>3, <3>1, MultipleSum
  <2> QED BY <1>3, <2>1, <2>2 DEF w, t
<1> QED BY <1>5, <1>6

(* buf_put stores nwrite.                                                      *)
LEMMA PutPublishKeeps ==
  ASSUME RingInv, Running, PutPublish
  PROVE  RingInv'
<1>1. PICK m : m = Coming
  OBVIOUS
<1> DEFINE n == Len(queue)
           K == Append(queue, m)
<1>2. /\ put.at = "publish" /\ nwrite' = Past(put.w, Takes(put.len)) /\ queue' = Append(queue, m)
      /\ put' = [put EXCEPT !.at = "idle"]
      /\ UNCHANGED <<cells, nread, attached, get, variant, odd>> /\ cause' = cause
  BY <1>1 DEF PutPublish, NewWrite, Coming
<1>3. Shape /\ Sound /\ variant \in Variants /\ Positions /\ odd \in BOOLEAN /\ Putting
  BY <1>2 DEF RingInv, Shape, Putting
<1>4. /\ GoodMessage(m) /\ Follows(queue, m) /\ Footprint(Append(queue, m)) <= Size
      /\ m.w = Aligned(nwrite) /\ (Straight => m.takes % WORD = 0)
      /\ m.w = put.w /\ m.takes = Takes(put.len) /\ m.len = put.len /\ m.id = put.id
      /\ m.takes \in Nat /\ m.takes <= Size /\ m \in MessageType
  BY <1>1, <1>3, PutFields, AtTheEnd DEF Sound, Fits, GoodMessage
<1>5. PICK o : Laid(queue, o)
  BY <1>3 DEF Sound, Rows
<1>6. /\ AtEnds(queue) /\ Even /\ queue \in Seq(MessageType) /\ n \in Nat
      /\ (queue = <<>> <=> n = 0)
  BY <1>3, <1>5, RowParts DEF Sound, Rows
<1>7. Laid(K, Longer(queue, o, m))
  BY <1>3, <1>4, <1>5, RowAppend
<1>8. /\ K # <<>> /\ Len(K) = n + 1 /\ K[n + 1] = m
      /\ \A i \in 1 .. n : K[i] = queue[i]
  BY <1>4, <1>6, AppendParts
<1>9. nwrite' = Past(m.w, m.takes)
  BY <1>2, <1>4
<1> HIDE DEF n, K
<1>10. queue' = K
  BY <1>2 DEF K
<1>11. Running' /\ (NeverOverfull /\ InBounds /\ GetsOldest /\ Causes)'
  BY <1>2, Continues
<1>12. put'.at = "idle" /\ ~Putting' /\ Copied' = 0
  BY <1>2, <1>3 DEF Shape, Putting, Copied
<1>13. /\ Past(m.w, m.takes) \in 0 .. WRAP - 1
       /\ ~Counts => Past(m.w, m.takes) \in 0 .. Size
  <2>1. m.takes \in 0 .. m.takes
    BY <1>4
  <2> QED BY <1>3, <1>4, <2>1, PastPlace
<1>14. Shape'
  <2>1. Positions'
    BY <1>2, <1>3, <1>9, <1>13, SameRing DEF Positions
  <2> QED BY <1>2, <1>3, <1>12, <2>1, SameRing DEF Shape, Places
<1>15. Rows'
  <2>1. (\E q : Laid(queue, q))'
    <3>1. PICK q : Laid(K, q)
      BY <1>7
    <3>2. PICK L : L = K
      OBVIOUS
    <3>3. Laid(L, q)'
      BY <1>2, <3>1, <3>2, SameRow
    <3>4. queue' = L
      BY <1>10, <3>2
    <3> QED BY <3>3, <3>4
  <2>2. AtEnds(queue)'
    <3>1. K[1].w = Aligned(nread)
      <4>1. CASE n = 0
        <5>1. queue = <<>> /\ nwrite = nread
          BY <1>6, <4>1 DEF AtEnds
        <5>2. n + 1 = 1
          BY <4>1
        <5> QED BY <1>4, <1>8, <5>1, <5>2
      <4>2. CASE n # 0
        <5>1. 1 \in 1 .. n
          BY <1>6, <4>2
        <5> QED BY <1>6, <1>8, <4>2, <5>1 DEF AtEnds
      <4> QED BY <4>1, <4>2
    <3>2. nwrite' = Past(K[Len(K)].w, K[Len(K)].takes)
      BY <1>8, <1>9
    <3> QED BY <1>2, <1>8, <1>10, <3>1, <3>2, SameRing DEF AtEnds
  <2>3. Even'
    <3> SUFFICES ASSUME Straight
                 PROVE  /\ nread % WORD = 0 /\ Past(m.w, m.takes) % WORD = 0
                        /\ \A i \in 1 .. Len(K) : K[i].takes % WORD = 0
      BY <1>2, <1>9, <1>10 DEF Even, Straight
    <3>1. nread % WORD = 0 /\ nwrite % WORD = 0 /\ \A i \in 1 .. n : queue[i].takes % WORD = 0
      BY <1>6 DEF Even, n
    <3>2. m.w % WORD = 0
      BY <1>3, <1>4, <3>1, AlignedIs DEF Positions
    <3>3. Past(m.w, m.takes) % WORD = 0
      BY <1>3, <1>4, <3>2, PastStraight
    <3>4. ASSUME NEW i \in 1 .. Len(K)
          PROVE  K[i].takes % WORD = 0
      <4>1. i \in 1 .. n \/ i = n + 1
        BY <1>6, <1>8
      <4> QED BY <1>4, <1>8, <3>1, <4>1
    <3> QED BY <3>1, <3>3, <3>4
  <2> QED BY <2>1, <2>2, <2>3 DEF Rows
<1>16. Intact'
  <2>1. \A i : Kept(i)' = Kept(i)
    BY <1>2 DEF Kept, Erased
  <2>2. Size' = Size
    BY <1>2, SameRing
  <2>3. Stands(Size, cells, Coming, 0, Copied)'
    BY <1>12 DEF Stands
  <2>4. ASSUME NEW i \in 1 .. Len(K)
        PROVE  Stands(Size, cells, K[i], Kept(i), WORD + K[i].len)
    <3>1. CASE i \in 1 .. n
      BY <1>3, <1>8, <3>1 DEF Sound, Intact, n
    <3>2. CASE i = n + 1
      <4>1. Stands(Size, cells, m, 0, WORD + m.len)
        BY <1>1, <1>2, <1>3, <1>4 DEF Sound, Intact, Copied
      <4>2. Kept(i) \in Nat
        BY Units DEF Kept
      <4> DEFINE b == WORD + m.len
      <4>3. b \in Int
        BY <1>4, Units DEF MessageType
      <4> HIDE DEF b
      <4>4. Stands(Size, cells, m, Kept(i), b)
        <5> SUFFICES ASSUME NEW k \in Kept(i) .. b - 1
                     PROVE  cells[(m.w + k) % Size] = Cell(m.id, m.len, k)
          BY DEF Stands
        <5>1. k \in 0 .. b - 1
          BY <4>2, <4>3
        <5> QED BY <4>1, <5>1 DEF Stands, b
      <4>5. K[i] = m
        BY <1>8, <3>2
      <4> QED BY <4>4, <4>5 DEF b
    <3> QED BY <1>6, <1>8, <3>1, <3>2
  <2> QED BY <1>2, <1>10, <1>12, <2>1, <2>2, <2>3, <2>4 DEF Intact
<1>17. Found'
  <2>1. queue # <<>> => queue' # <<>> /\ queue'[1] = queue[1]
    <3>1. queue # <<>> => 1 \in 1 .. n
      BY <1>6
    <3> QED BY <1>8, <1>10, <3>1
  <2> QED BY <1>2, <1>3, <2>1, FoundStays DEF Sound
<1>18. (Getting => get.r = Aligned(nread))'
  BY <1>2, <1>3, SameRing DEF Sound, Getting
<1> QED BY <1>11, <1>12, <1>14, <1>15, <1>16, <1>17, <1>18 DEF RingInv, Sound

(* A call of buf_get that finds the ring not empty.                            *)
LEMMA GetCallKeeps ==
  ASSUME RingInv, Running, GetCall
  PROVE  RingInv'
<1>1. /\ get.at \in {"idle", "none", "toolong"} /\ ~Empty(Aligned(nread))
      /\ get' = [at |-> "header", r |-> Aligned(nread), len |-> 0, got |-> <<>>]
      /\ UNCHANGED <<cells, nread, nwrite, attached, put, variant, queue, odd>> /\ cause' = cause
  BY DEF GetCall, CanGet
<1>2. Shape /\ Sound /\ variant \in Variants /\ Positions /\ odd \in BOOLEAN
  BY DEF RingInv, Shape
<1>3. Running' /\ (NeverOverfull /\ InBounds /\ GetsOldest /\ Causes)'
  BY <1>1, Continues
<1>4. Erased' = FALSE /\ Erased = FALSE
  BY <1>1 DEF Erased
<1>5. Aligned(nread) \in 0 .. WRAP - 1
  BY <1>2, AlignedIs DEF Positions
<1>6. Shape'
  <2>1. <<>> \in Seq(CellType(Size)) /\ Len(<<>>) = 0
    BY EmptySeq
  <2>2. get' \in [at : Places \cup {"none", "toolong", "erase"}, r : 0 .. WRAP - 1, len : Lens \cup {0},
                  got : Seq(CellType(Size))]
    BY <1>1, <1>5, <2>1 DEF Places
  <2>3. get'.got = <<>> /\ get'.len = 0 /\ get'.at = "header" /\ Len(get'.got) <= get'.len
    BY <1>1, <2>1
  <2> QED BY <1>1, <1>2, <2>2, <2>3, SameRing DEF Shape, Positions, Putting
<1>7. Rows' /\ (Putting => Fits)' /\ Intact'
  BY <1>1, <1>2, <1>4, Notes
<1>8. (Getting => get.r = Aligned(nread))'
  BY <1>1, SameRing
<1>9. Found'
  <2>1. queue = <<>> => Misled'
    <3> SUFFICES ASSUME queue = <<>> PROVE Misled'
      OBVIOUS
    <3>1. Even /\ nwrite = nread
      BY <1>2 DEF Sound, Rows, AtEnds
    <3>2. odd /\ variant.aligns /\ (variant.empty = "equal" \/ Aligned(nread) = WRAP \div 2)
      BY <1>1, <1>2, <3>1, LooksFull
    <3> QED BY <1>1, <3>2 DEF Misled
  <2> QED BY <1>1, <2>1 DEF Found
<1> QED BY <1>3, <1>6, <1>7, <1>8, <1>9 DEF RingInv, Sound

-----------------------------------------------------------------------------
(* What buf_get reads.                                                         *)

LEMMA PastNat ==
  ASSUME variant \in Variants, NEW x \in Nat, NEW n \in Nat
  PROVE  Past(x, n) \in Nat /\ Index(Past(x, n)) \in 0 .. Size - 1
<1> DEFINE y == x + n
<1>1. y \in Nat /\ Size \in Nat \ {0} /\ WRAP \in Nat \ {0}
  BY VariantFields, Units
<1>2. y % WRAP \in 0 .. WRAP - 1
  <2> HIDE DEF y
  <2>1. y \in Int
    BY <1>1
  <2> QED BY <1>1, <2>1, ModRange
<1>3. Past(x, n) \in Nat
  BY <1>1, <1>2 DEF Past
<1>4. Past(x, n) % Size \in 0 .. Size - 1
  BY <1>3, InRing
<1> QED BY <1>3, <1>4 DEF Index

(* The oldest message is where the reader looks.                               *)
LEMMA Oldest ==
  ASSUME Shape, Sound, Getting, queue # <<>>, NEW m, m = queue[1]
  PROVE  /\ GoodMessage(m) /\ m.w = get.r /\ m.w \in Nat /\ m.len \in Nat /\ m.id \in 1 .. NIDS
         /\ m.takes \in Nat /\ WORD + m.len <= m.takes /\ m.takes <= Size /\ m.takes = Takes(m.len)
         /\ Head(queue) = m /\ 1 \in 1 .. Len(queue)
         /\ Stands(Size, cells, m, Kept(1), WORD + m.len)
         /\ \A n \in 0 .. m.takes : Index(Past(get.r, n)) = (m.w + n) % Size
<1>1. variant \in Variants
  BY DEF Shape
<1>2. PICK o : Laid(queue, o)
  BY DEF Sound, Rows
<1>3. queue \in Seq(MessageType) /\ 1 \in 1 .. Len(queue)
  BY <1>1, <1>2, RowParts
<1>4. /\ GoodMessage(m) /\ m.w \in 0 .. WRAP - 1 /\ m.len \in Lens /\ m.takes = Takes(m.len)
      /\ m.takes \in Nat \ {0} /\ WORD + m.len <= m.takes /\ m.takes <= Size
  BY <1>1, <1>2, <1>3, RowParts
<1>5. m.w = get.r
  BY DEF Sound, Rows, AtEnds
<1>6. m.len \in Nat /\ m.w \in Nat /\ m.id \in 1 .. NIDS
  BY <1>4, Units DEF GoodMessage, MessageType
<1>7. Stands(Size, cells, m, Kept(1), WORD + m.len)
  BY <1>3 DEF Sound, Intact
<1>8. Head(queue) = m
  BY <1>3
<1>9. \A n \in 0 .. m.takes : Index(Past(get.r, n)) = (m.w + n) % Size
  BY <1>1, <1>4, <1>5, PastPlace DEF Index
<1> QED BY <1>3, <1>4, <1>5, <1>6, <1>7, <1>8, <1>9

(* A cell of it, from the k-th on.                                             *)
LEMMA OldestCell ==
  ASSUME Shape, NEW m, m.w \in Nat, NEW k \in Nat, NEW i \in Nat
  PROVE  (((m.w + k) % Size) + i) % Size = (m.w + (k + i)) % Size
<1> DEFINE x == m.w + k
<1>1. x \in Int /\ i \in Int /\ Size \in Nat \ {0}
  BY VariantFields DEF Shape
<1>2. x + i = m.w + (k + i)
  OBVIOUS
<1> HIDE DEF x
<1>3. ((x % Size) + i) % Size = (x + i) % Size
  BY <1>1, ModPlus, Zenon
<1> QED BY <1>2, <1>3 DEF x

(* What is fetched is cells, ...                                               *)
LEMMA FetchedIs ==
  ASSUME Shape, NEW x \in Nat, NEW n \in Nat
  PROVE  /\ Fetched(x, n) \in Seq(CellType(Size)) /\ Len(Fetched(x, n)) = n
         /\ \A k \in 1 .. n : Fetched(x, n)[k] = cells[(x + k - 1) % Size]
<1>1. ASSUME NEW k \in 1 .. n
      PROVE  cells[(x + k - 1) % Size] \in CellType(Size)
  <2> DEFINE y == x + k - 1
  <2>1. y \in Nat
    OBVIOUS
  <2> HIDE DEF y
  <2>2. y % Size \in 0 .. Size - 1
    BY <2>1, InRing DEF Shape
  <2>3. cells[y % Size] \in CellType(Size)
    BY <2>2 DEF Shape
  <2> QED BY <2>3 DEF y
<1> DEFINE f == Fetched(x, n)
<1>2. f = [k \in 1 .. n |-> cells[(x + k - 1) % Size]]
  BY DEF Fetched
<1>3. f \in [1 .. n -> CellType(Size)]
  BY <1>1, <1>2
<1>4. \A k \in 1 .. n : f[k] = cells[(x + k - 1) % Size]
  BY <1>2
<1> HIDE DEF f
<1>5. f \in Seq(CellType(Size)) /\ Len(f) = n
  BY <1>3, SeqDef, LenProperties
<1> QED BY <1>4, <1>5 DEF f

(* ... those of the oldest message, if it is that.                             *)
LEMMA FetchedBytes ==
  ASSUME Shape, Sound, Getting, queue # <<>>, NEW m, m = queue[1],
         NEW i \in Nat, NEW N \in Nat, i + N <= m.len
  PROVE  \A k \in 1 .. N : Fetched((m.w + (WORD + i)) % Size, N)[k] = Cell(m.id, m.len, WORD + (i + k) - 1)
<1>1. /\ m.w \in Nat /\ m.len \in Nat /\ Stands(Size, cells, m, Kept(1), WORD + m.len)
      /\ WORD \in Nat \ {0}
  BY Oldest, Units
<1> SUFFICES ASSUME NEW k \in 1 .. N
             PROVE  Fetched((m.w + (WORD + i)) % Size, N)[k] = Cell(m.id, m.len, WORD + (i + k) - 1)
  OBVIOUS
<1> DEFINE x == (m.w + (WORD + i)) % Size
           a == WORD + (i + k) - 1
<1>2. x \in Nat
  <2> DEFINE y == m.w + (WORD + i)
  <2>1. y \in Nat
    BY <1>1
  <2> HIDE DEF y
  <2>2. y % Size \in 0 .. Size - 1
    BY <2>1, InRing DEF Shape
  <2>3. y % Size \in Nat
    BY <2>2
  <2> QED BY <2>3 DEF y
<1>3. (x + (k - 1)) % Size = (m.w + a) % Size
  <2>1. WORD + i \in Nat /\ k - 1 \in Nat /\ (WORD + i) + (k - 1) = a
    BY <1>1
  <2>2. (x + (k - 1)) % Size = (m.w + ((WORD + i) + (k - 1))) % Size
    BY <1>1, <2>1, OldestCell
  <2> QED BY <2>1, <2>2
<1>4. a \in Kept(1) .. WORD + m.len - 1
  BY <1>1, Units DEF Kept
<1> HIDE DEF x, a
<1>5. Fetched(x, N)[k] = cells[(x + k - 1) % Size]
  BY <1>2, FetchedIs
<1>6. x + k - 1 = x + (k - 1)
  BY <1>2
<1>7. cells[(m.w + a) % Size] = Cell(m.id, m.len, a)
  <2> DEFINE b == WORD + m.len
  <2>1. b \in Int /\ b - 1 = WORD + m.len - 1
    BY <1>1
  <2>2. Stands(Size, cells, m, Kept(1), b)
    BY <1>1
  <2> HIDE DEF b
  <2>3. a \in Kept(1) .. b - 1
    BY <1>4, <2>1
  <2> QED BY <2>2, <2>3 DEF Stands
<1>8. Fetched(x, N)[k] = Cell(m.id, m.len, a)
  BY <1>3, <1>5, <1>6, <1>7
<1> QED BY <1>8 DEF x, a

(* The int that is read is the length of the oldest message, if it is that.    *)
LEMMA LengthIs ==
  ASSUME Shape, Sound, get.at = "header"
  PROVE  /\ LengthsAt(Index(get.r)) \subseteq Lens \cup {0}
         /\ queue # <<>> => LengthsAt(Index(get.r)) = {queue[1].len}
<1> DEFINE x == Index(get.r)
           h == HeaderAt(x)
<1>1. /\ WORD \in Nat \ {0} /\ Size \in Nat \ {0} /\ variant \in Variants /\ get.r \in Nat
      /\ cells \in [0 .. Size - 1 -> CellType(Size)] /\ 0 \in 0 .. WORD - 1
  BY Units, VariantFields, GetFields DEF Shape
<1>2. x \in 0 .. Size - 1 /\ x = get.r % Size
  BY <1>1, InRing DEF Index
<1>3. h = [k \in 0 .. WORD - 1 |-> cells[(x + k) % Size]]
  BY DEF HeaderAt
<1>4. h[0].len \in Lens \cup {0}
  <2> HIDE DEF x
  <2>1. (x + 0) % Size \in 0 .. Size - 1
    <3>1. x + 0 = x
      BY <1>2
    <3>2. x \in Nat
      BY <1>2
    <3> QED BY <1>1, <3>1, <3>2, InRing
  <2>2. h[0] = cells[(x + 0) % Size]
    BY <1>1, <1>3
  <2> QED BY <1>1, <2>1, <2>2 DEF CellType
<1>5. LengthsAt(x) =
        IF h = [k \in 0 .. WORD - 1 |-> Cell(h[0].id, h[0].len, k)] THEN {h[0].len}
        ELSE IF h = [k \in 0 .. WORD - 1 |-> Zero] THEN {0}
        ELSE Lens
  BY DEF LengthsAt
<1>6. ASSUME queue # <<>>
      PROVE  LengthsAt(x) = {queue[1].len}
  <2>1. PICK m : m = queue[1]
    OBVIOUS
  <2>2. Getting /\ Kept(1) = 0
    BY DEF Getting, Kept, Erased
  <2>3. /\ m.w = get.r /\ m.w \in Nat /\ m.len \in Nat /\ Stands(Size, cells, m, 0, WORD + m.len)
    BY <1>6, <2>1, <2>2, Oldest
  <2>4. ASSUME NEW k \in 0 .. WORD - 1
        PROVE  cells[(x + k) % Size] = Cell(m.id, m.len, k)
    <3> DEFINE b == WORD + m.len
    <3>1. k \in 0 .. b - 1 /\ k \in Nat
      BY <1>1, <2>3
    <3> HIDE DEF b
    <3>2. cells[(m.w + k) % Size] = Cell(m.id, m.len, k)
      BY <2>3, <3>1 DEF Stands, b
    <3>3. (x + k) % Size = (m.w + k) % Size
      <4>1. m.w + 0 = m.w /\ 0 + k = k /\ 0 \in Nat
        BY <2>3, <3>1
      <4>2. (((m.w + 0) % Size) + k) % Size = (m.w + (0 + k)) % Size
        BY <2>3, <3>1, <4>1, OldestCell
      <4> QED BY <1>2, <2>3, <4>1, <4>2
    <3> QED BY <3>2, <3>3
  <2>5. h = [k \in 0 .. WORD - 1 |-> Cell(m.id, m.len, k)]
    BY <1>3, <2>4
  <2> HIDE DEF h
  <2>6. h[0] = Cell(m.id, m.len, 0)
    BY <1>1, <2>5
  <2>7. h[0].id = m.id /\ h[0].len = m.len
    BY <2>6 DEF Cell
  <2> QED BY <1>5, <2>1, <2>5, <2>7
<1> HIDE DEF h
<1>7. LengthsAt(x) \subseteq Lens \cup {0}
  BY <1>4, <1>5
<1> QED BY <1>6, <1>7 DEF x

LEMMA GetHeaderKeeps ==
  ASSUME RingInv, Running, GetHeader
  PROVE  RingInv'
<1>1. /\ get.at = "header"
      /\ UNCHANGED <<cells, nread, nwrite, attached, put, variant, queue, odd>> /\ cause' = cause
  BY DEF GetHeader
<1>2. PICK len \in LengthsAt(Index(get.r)) :
        get' = [get EXCEPT !.len = len, !.at = IF variant.erases THEN "erase" ELSE "bytes"]
  BY DEF GetHeader
<1>3. Shape /\ Sound /\ variant \in Variants
  BY DEF RingInv, Shape
<1>4. Running' /\ (NeverOverfull /\ InBounds /\ GetsOldest /\ Causes)'
  BY <1>1, Continues
<1>5. len \in Lens \cup {0} /\ (queue # <<>> => len = queue[1].len)
  BY <1>1, <1>2, <1>3, LengthIs
<1>6. /\ get'.at = (IF variant.erases THEN "erase" ELSE "bytes") /\ get'.len = len
      /\ get'.r = get.r /\ get'.got = get.got /\ get.got = <<>> /\ Getting
  BY <1>1, <1>2, <1>3 DEF Shape, Getting
<1>7. Erased' = FALSE /\ Erased = FALSE
  BY <1>1, <1>6 DEF Erased
<1>8. Shape'
  <2>1. Len(<<>>) = 0 /\ len \in Nat
    BY <1>5, EmptySeq, Units
  <2>2. get' \in [at : Places \cup {"none", "toolong", "erase"}, r : 0 .. WRAP - 1, len : Lens \cup {0},
                  got : Seq(CellType(Size))]
    BY <1>2, <1>3, <1>5 DEF Shape, Places
  <2>3. Len(get'.got) <= get'.len /\ (get'.at = "erase" => variant.erases)
    BY <1>6, <2>1
  <2> QED BY <1>1, <1>3, <1>6, <2>2, <2>3, SameRing DEF Shape, Positions, Putting
<1>9. Rows' /\ (Putting => Fits)' /\ Intact'
  BY <1>1, <1>3, <1>7, Notes
<1>10. (Getting => get.r = Aligned(nread))'
  BY <1>1, <1>3, <1>6, SameRing DEF Sound
<1>11. Found'
  <2>1. Misled' = Misled
    BY <1>1, <1>6 DEF Misled
  <2> QED BY <1>1, <1>3, <1>5, <1>6, <2>1 DEF Found, Sound
<1> QED BY <1>4, <1>8, <1>9, <1>10, <1>11 DEF RingInv, Sound

(* anthonyw's consumer clears the header, and nothing else.                    *)
LEMMA GetEraseKeeps ==
  ASSUME RingInv, Running, GetErase
  PROVE  RingInv'
<1>1. /\ get.at = "erase" /\ get' = [get EXCEPT !.at = "bytes"]
      /\ cells' = [c \in DOMAIN cells |-> IF (c - Index(get.r)) % Size < WORD THEN Zero ELSE cells[c]]
      /\ UNCHANGED <<nread, nwrite, attached, put, variant, queue, odd>> /\ cause' = cause
  BY DEF GetErase
<1>2. Shape /\ Sound /\ variant \in Variants /\ DOMAIN cells = 0 .. Size - 1 /\ Getting
  BY <1>1 DEF RingInv, Shape, Getting
<1>3. Running' /\ (NeverOverfull /\ InBounds /\ GetsOldest /\ Causes)'
  BY <1>1, Continues
<1>4. /\ get'.at = "bytes" /\ get'.r = get.r /\ get'.len = get.len /\ get'.got = get.got /\ get.got = <<>>
      /\ variant.erases /\ ~variant.aligns
  BY <1>1, <1>2, VariantFields DEF Shape
<1>5. ~Misled /\ Misled' = Misled /\ queue # <<>>
  BY <1>1, <1>2, <1>4 DEF Misled, Sound, Found
<1>6. PICK m : m = queue[1]
  OBVIOUS
<1>7. m.w = get.r /\ 1 \in 1 .. Len(queue)
  BY <1>2, <1>5, <1>6, Oldest
<1>8. ASSUME NEW K, NEW p, Laid(K, p), NEW i \in 1 .. Len(K), K[1] = m, NEW a \in Nat, NEW b \in Int,
             b <= K[i].takes, i # 1 \/ a >= WORD, Stands(Size, cells, K[i], a, b)
      PROVE  Stands(Size, cells', K[i], a, b)
  <2>1. cells' = [c \in DOMAIN cells |-> IF (c - (K[1].w % Size)) % Size < WORD THEN Zero ELSE cells[c]]
    BY <1>1, <1>7, <1>8 DEF Index
  <2>2. Stands(Size, [c \in DOMAIN cells |-> IF (c - (K[1].w % Size)) % Size < WORD THEN Zero ELSE cells[c]],
               K[i], a, b)
    BY <1>2, <1>8, ErasingKeeps
  <2> QED BY <2>1, <2>2
<1>9. Size' = Size /\ Coming' = Coming /\ PutFirst' = PutFirst
  BY <1>1, SameRing DEF Coming, Message, PutFirst
<1>10. Copied' = Copied
  BY <1>1, <1>9 DEF Copied
<1>11. ASSUME NEW i \in 1 .. Len(queue)
       PROVE  Stands(Size, cells', queue[i], IF i = 1 THEN WORD ELSE 0, WORD + queue[i].len)
  <2>1. PICK o : Laid(queue, o)
    BY <1>2 DEF Sound, Rows
  <2> DEFINE b == WORD + queue[i].len
             a == IF i = 1 THEN WORD ELSE 0
  <2>2. b <= queue[i].takes /\ b \in Int /\ a \in Nat /\ (i # 1 \/ a >= WORD)
    BY <1>2, <2>1, RowParts, Units
  <2>3. Stands(Size, cells, queue[i], 0, b)
    <3>1. Kept(i) = 0
      BY <1>1 DEF Kept, Erased
    <3> QED BY <1>2, <3>1 DEF Sound, Intact
  <2>4. Stands(Size, cells, queue[i], a, b)
    <3>1. \A k \in a .. b - 1 : k \in 0 .. b - 1
      BY <2>2
    <3> HIDE DEF a, b
    <3> QED BY <2>3, <3>1 DEF Stands
  <2> HIDE DEF a, b
  <2>5. Stands(Size, cells', queue[i], a, b)
    BY <1>6, <1>8, <2>1, <2>2, <2>4
  <2> QED BY <2>5 DEF a, b
<1>12. Stands(Size, cells', Coming, 0, Copied)
  <2>1. CASE ~Putting
    <3>1. Copied = 0
      BY <2>1 DEF Copied, Putting
    <3> QED BY <3>1 DEF Stands
  <2>2. CASE Putting
    <3> DEFINE j == Len(queue) + 1
    <3>1. PICK K, p : /\ Laid(K, p) /\ j \in 1 .. Len(K) /\ K[j] = Coming
                      /\ \A i \in 1 .. Len(queue) : /\ i \in 1 .. Len(K) /\ i # j /\ K[i] = queue[i]
      BY <1>2, <2>2, AtTheEnd
    <3>2. K[1] = m /\ j # 1
      BY <1>6, <1>7, <3>1
    <3>3. Copied \in Nat /\ Copied <= Coming.takes
      <4>1. /\ put.len \in Nat /\ Coming.takes \in Nat /\ WORD + put.len <= Coming.takes /\ WORD \in Nat
        BY <1>2, <2>2, AtTheEnd, Units
      <4>2. put.at = "rest" => PutFirst \in 0 .. put.len
        <5> DEFINE x == Index(Past(put.w, WORD))
        <5>1. x \in 0 .. Size - 1
          <6>1. put.w \in Nat
            BY <1>2, PutFields, Units
          <6> QED BY <1>2, <4>1, <6>1, PastNat
        <5> HIDE DEF x
        <5> QED BY <1>2, <4>1, <5>1, FirstIs DEF PutFirst, x
      <4> QED BY <4>1, <4>2 DEF Copied
    <3>4. Stands(Size, cells, K[j], 0, Copied)
      BY <1>2, <3>1 DEF Sound, Intact
    <3> HIDE DEF j
    <3> DEFINE b == Copied
    <3>5. b \in Int /\ b <= K[j].takes /\ 0 \in Nat /\ Stands(Size, cells, K[j], 0, b)
      BY <3>1, <3>3, <3>4
    <3> HIDE DEF b
    <3>6. Stands(Size, cells', K[j], 0, b)
      BY <1>8, <3>1, <3>2, <3>5
    <3> QED BY <3>1, <3>6 DEF b
  <2> QED BY <2>1, <2>2
<1>13. Intact'
  <2>1. \A i : Kept(i)' = IF i = 1 THEN WORD ELSE 0
    BY <1>1, <1>4 DEF Kept, Erased
  <2>2. put'.at = "rest" => PutFirst' < put'.len
    BY <1>1, <1>2, <1>9 DEF Sound, Intact
  <2> QED BY <1>1, <1>9, <1>10, <1>11, <1>12, <2>1, <2>2 DEF Intact
<1>14. Shape'
  <2>1. cells' \in [0 .. Size - 1 -> CellType(Size)]
    <3>1. Zero \in CellType(Size)
      <4>1. 0 \in 0 .. NIDS /\ 0 \in 0 .. Size
        BY <1>2, Units, VariantFields
      <4> QED BY <4>1 DEF Zero, CellType
    <3> QED BY <1>1, <1>2, <3>1 DEF Shape
  <2>2. get' \in [at : Places \cup {"none", "toolong", "erase"}, r : 0 .. WRAP - 1, len : Lens \cup {0},
                  got : Seq(CellType(Size))]
    BY <1>1, <1>2 DEF Shape, Places
  <2> QED BY <1>1, <1>2, <1>4, <1>9, <2>1, <2>2, SameRing DEF Shape, Positions, Putting
<1>15. Rows' /\ (Putting => Fits)'
  BY <1>1, <1>2, RowsStay, FitsStay DEF Sound, Putting
<1>16. (Getting => get.r = Aligned(nread))'
  BY <1>1, <1>2, <1>4, SameRing DEF Sound
<1>17. Found'
  BY <1>1, <1>2, <1>4, <1>5 DEF Found, Sound
<1> QED BY <1>3, <1>13, <1>14, <1>15, <1>16, <1>17 DEF RingInv, Sound

(* The bytes up to the end of the ring, ...                                    *)
LEMMA GetBytesKeeps ==
  ASSUME RingInv, Running, GetBytes
  PROVE  RingInv'
<1> DEFINE x == Index(Past(get.r, WORD))
           n == First(x, get.len)
<1>1. /\ get.at = "bytes"
      /\ get' = [get EXCEPT !.got = Fetched(x, n), !.at = IF n < get.len THEN "rest" ELSE "publish"]
      /\ UNCHANGED <<cells, nread, nwrite, attached, put, variant, queue, odd>> /\ cause' = cause
  BY DEF GetBytes
<1>2. Shape /\ Sound /\ variant \in Variants /\ Getting
  BY <1>1 DEF RingInv, Shape, Getting
<1>3. Running' /\ (NeverOverfull /\ InBounds /\ GetsOldest /\ Causes)'
  BY <1>1, Continues
<1>4. /\ get.r \in Nat /\ get.len \in Nat /\ WORD \in Nat \ {0} /\ Size \in Nat \ {0}
  BY <1>2, GetFields, Units, VariantFields
<1>5. x \in 0 .. Size - 1 /\ x \in Nat
  <2>1. WORD \in Nat
    BY <1>4
  <2>2. x \in 0 .. Size - 1
    BY <1>2, <1>4, <2>1, PastNat
  <2> HIDE DEF x
  <2> QED BY <2>2
<1>6. GetFirst = n
  BY DEF GetFirst
<1> HIDE DEF x
<1>7. n \in 0 .. get.len /\ n \in Nat
  BY <1>2, <1>4, <1>5, FirstIs
<1> HIDE DEF n
<1>8. Fetched(x, n) \in Seq(CellType(Size)) /\ Len(Fetched(x, n)) = n
  BY <1>2, <1>5, <1>7, FetchedIs
<1>9. /\ get'.at = (IF n < get.len THEN "rest" ELSE "publish") /\ get'.got = Fetched(x, n)
      /\ get'.r = get.r /\ get'.len = get.len
  BY <1>1, <1>2 DEF Shape
<1>10. Shape'
  <2>1. get' \in [at : Places \cup {"none", "toolong", "erase"}, r : 0 .. WRAP - 1, len : Lens \cup {0},
                  got : Seq(CellType(Size))]
    BY <1>1, <1>2, <1>8 DEF Shape, Places
  <2>2. Len(get'.got) <= get'.len
    BY <1>7, <1>8, <1>9
  <2> QED BY <1>1, <1>2, <1>9, <2>1, <2>2, SameRing DEF Shape, Positions, Putting
<1>11. Rows' /\ (Putting => Fits)' /\ Intact'
  <2>1. Erased' = Erased
    BY <1>1, <1>9 DEF Erased
  <2> QED BY <1>1, <1>2, <2>1, Notes
<1>12. (Getting => get.r = Aligned(nread))'
  BY <1>1, <1>2, <1>9, SameRing DEF Sound
<1>13. Found'
  <2>1. Misled' = Misled /\ GetFirst' = n
    BY <1>1, <1>6, <1>9, SameRing DEF Misled, GetFirst
  <2>2. SUFFICES ASSUME ~Misled
                 PROVE  /\ queue # <<>> /\ get.len = queue[1].len
                        /\ Fetched(x, n) = Bytes(queue[1], n)
    <3>1. ~(n < get.len) => n = get.len
      BY <1>4, <1>7
    <3>2. \A m, k : Bytes(m, k)' = Bytes(m, k)
      BY DEF Bytes
    <3> QED BY <1>1, <1>9, <2>1, <3>1, <3>2 DEF Found
  <2>3. queue # <<>> /\ get.len = queue[1].len
    BY <1>1, <1>2, <2>2 DEF Sound, Found
  <2>4. PICK m : m = queue[1]
    OBVIOUS
  <2>5. /\ m.w \in Nat /\ m.len \in Nat /\ m.takes \in Nat /\ WORD + m.len <= m.takes
        /\ \A k \in 0 .. m.takes : Index(Past(get.r, k)) = (m.w + k) % Size
    BY <1>2, <2>3, <2>4, Oldest
  <2>6. x = (m.w + (WORD + 0)) % Size
    <3>1. WORD \in 0 .. m.takes /\ WORD + 0 = WORD
      BY <1>4, <2>5
    <3> QED BY <2>5, <3>1 DEF x
  <2>7. \A k \in 1 .. n : Fetched(x, n)[k] = Cell(m.id, m.len, WORD + (0 + k) - 1)
    <3>1. 0 \in Nat /\ 0 + n <= m.len
      BY <1>7, <2>3, <2>4
    <3> QED BY <1>2, <1>7, <2>3, <2>4, <2>6, <3>1, FetchedBytes
  <2>8. \A k \in 1 .. n : Fetched(x, n)[k] = Cell(m.id, m.len, WORD + k - 1)
    BY <2>7
  <2>9. Fetched(x, n) = Bytes(m, n)
    BY <2>8 DEF Fetched, Bytes
  <2> QED BY <2>3, <2>4, <2>9
<1> QED BY <1>3, <1>10, <1>11, <1>12, <1>13 DEF RingInv, Sound

(* ... and those from its start on.                                            *)
LEMMA GetRestKeeps ==
  ASSUME RingInv, Running, GetRest
  PROVE  RingInv'
<1> DEFINE n == Len(get.got)
           x == Index(Past(get.r, WORD + n))
           N == get.len - n
           f == Fetched(x, N)
<1>1. /\ get.at = "rest"
      /\ get' = [get EXCEPT !.got = get.got \o f, !.at = "publish"]
      /\ UNCHANGED <<cells, nread, nwrite, attached, put, variant, queue, odd>> /\ cause' = cause
  BY DEF GetRest
<1>2. Shape /\ Sound /\ variant \in Variants /\ Getting
  BY <1>1 DEF RingInv, Shape, Getting
<1>3. Running' /\ (NeverOverfull /\ InBounds /\ GetsOldest /\ Causes)'
  BY <1>1, Continues
<1>4. /\ get.r \in Nat /\ get.len \in Nat /\ WORD \in Nat \ {0} /\ Size \in Nat \ {0}
      /\ get.got \in Seq(CellType(Size)) /\ n \in Nat /\ n <= get.len
  BY <1>2, GetFields, Units, VariantFields, LenProperties DEF Shape
<1> HIDE DEF n
<1>5. N \in Nat /\ WORD + n \in Nat /\ n + N = get.len
  BY <1>4
<1>6. x \in Nat
  <2> DEFINE y == WORD + n
  <2> HIDE DEF y
  <2>1. Index(Past(get.r, y)) \in 0 .. Size - 1
    BY <1>2, <1>4, <1>5, PastNat DEF y
  <2>2. Index(Past(get.r, y)) \in Nat
    BY <2>1
  <2> QED BY <2>2 DEF y
<1> HIDE DEF x, N
<1>7. f \in Seq(CellType(Size)) /\ Len(f) = N
  BY <1>2, <1>5, <1>6, FetchedIs
<1> DEFINE g == get.got \o f
<1>8. /\ g \in Seq(CellType(Size)) /\ Len(g) = get.len
      /\ \A k \in 1 .. Len(g) : g[k] = IF k <= n THEN get.got[k] ELSE f[k - n]
  <2> HIDE DEF f
  <2>1. /\ g \in Seq(CellType(Size)) /\ Len(g) = Len(get.got) + Len(f)
        /\ \A k \in 1 .. Len(get.got) + Len(f) :
             g[k] = IF k <= Len(get.got) THEN get.got[k] ELSE f[k - Len(get.got)]
    BY <1>4, <1>7, ConcatProperties
  <2> QED BY <1>5, <1>7, <2>1 DEF n
<1>9. /\ get'.at = "publish" /\ get'.got = g
      /\ get'.r = get.r /\ get'.len = get.len
  BY <1>1, <1>2 DEF Shape
<1>10. Shape'
  <2>1. get' \in [at : Places \cup {"none", "toolong", "erase"}, r : 0 .. WRAP - 1, len : Lens \cup {0},
                  got : Seq(CellType(Size))]
    BY <1>1, <1>2, <1>8 DEF Shape, Places
  <2>2. Len(get'.got) <= get'.len
    BY <1>4, <1>8, <1>9
  <2> QED BY <1>1, <1>2, <1>9, <2>1, <2>2, SameRing DEF Shape, Positions, Putting
<1>11. Rows' /\ (Putting => Fits)' /\ Intact'
  <2>1. Erased' = Erased
    BY <1>1, <1>9 DEF Erased
  <2> QED BY <1>1, <1>2, <2>1, Notes
<1>12. (Getting => get.r = Aligned(nread))'
  BY <1>1, <1>2, <1>9, SameRing DEF Sound
<1>13. Found'
  <2>1. Misled' = Misled
    BY <1>1, <1>9 DEF Misled
  <2>2. SUFFICES ASSUME ~Misled
                 PROVE  queue # <<>> /\ get.len = queue[1].len /\ g = Bytes(queue[1], get.len)
    <3>1. Bytes(queue[1], get.len)' = Bytes(queue[1], get.len)
      BY <1>1, <1>9 DEF Bytes
    <3> QED BY <1>1, <1>9, <2>1, <3>1 DEF Found
  <2>3. queue # <<>> /\ get.len = queue[1].len /\ get.got = Bytes(queue[1], GetFirst)
    BY <1>1, <1>2, <2>2 DEF Sound, Found
  <2>4. PICK m : m = queue[1]
    OBVIOUS
  <2>5. /\ m.w \in Nat /\ m.len \in Nat /\ m.takes \in Nat /\ WORD + m.len <= m.takes
        /\ \A k \in 0 .. m.takes : Index(Past(get.r, k)) = (m.w + k) % Size
    BY <1>2, <2>3, <2>4, Oldest
  <2>6. \A k \in 1 .. n : get.got[k] = Cell(m.id, m.len, WORD + k - 1)
    <3>1. DOMAIN get.got = 1 .. n
      BY <1>4, LenProperties DEF n
    <3>2. DOMAIN Bytes(m, GetFirst) = 1 .. GetFirst
      BY DEF Bytes
    <3>3. 1 .. n = 1 .. GetFirst
      BY <2>3, <2>4, <3>1, <3>2
    <3>4. \A k \in 1 .. GetFirst : get.got[k] = Cell(m.id, m.len, WORD + k - 1)
      BY <2>3, <2>4 DEF Bytes
    <3> QED BY <3>3, <3>4
  <2>7. x = (m.w + (WORD + n)) % Size
    <3> DEFINE y == WORD + n
    <3>1. y \in 0 .. m.takes
      BY <1>4, <2>3, <2>4, <2>5
    <3> HIDE DEF y
    <3> QED BY <2>5, <3>1 DEF x, y
  <2>8. \A k \in 1 .. N : f[k] = Cell(m.id, m.len, WORD + (n + k) - 1)
    <3>1. n + N <= m.len
      BY <1>4, <1>5, <2>3, <2>4
    <3> QED BY <1>2, <1>4, <1>5, <2>3, <2>4, <2>7, <3>1, FetchedBytes
  <2>9. ASSUME NEW k \in 1 .. get.len
        PROVE  g[k] = Cell(m.id, m.len, WORD + k - 1)
    <3> HIDE DEF g, f
    <3>1. CASE k <= n
      <4>1. k \in 1 .. n /\ k \in 1 .. Len(g)
        BY <1>4, <1>8, <3>1
      <4> QED BY <1>8, <2>6, <3>1, <4>1
    <3>2. CASE ~(k <= n)
      <4>1. k - n \in 1 .. N /\ n + (k - n) = k /\ k \in 1 .. Len(g)
        BY <1>4, <1>5, <1>8, <3>2
      <4>2. g[k] = f[k - n]
        BY <1>8, <3>2, <4>1
      <4>3. f[k - n] = Cell(m.id, m.len, WORD + (n + (k - n)) - 1)
        BY <2>8, <4>1
      <4> QED BY <4>1, <4>2, <4>3
    <3> QED BY <3>1, <3>2
  <2>10. g = Bytes(m, get.len)
    <3>1. g = [k \in 1 .. Len(g) |-> g[k]]
      <4> HIDE DEF g
      <4> QED BY <1>8, SeqDef, LenProperties
    <3> HIDE DEF g
    <3> QED BY <1>8, <2>9, <3>1 DEF Bytes
  <2> QED BY <2>3, <2>4, <2>10
<1> QED BY <1>3, <1>10, <1>11, <1>12, <1>13 DEF RingInv, Sound

(* Without the first message there is more room.                               *)
LEMMA FitsTail ==
  ASSUME variant \in Variants, NEW L, NEW o, Laid(L, o), L # <<>>, NEW m \in MessageType,
         Footprint(Append(L, m)) <= Size
  PROVE  Footprint(Append(Tail(L), m)) <= Size
<1> DEFINE n == Len(L)
           K == Tail(L)
           p == Shorter(L, o)
<1>1. /\ Laid(K, p) /\ Len(K) = n - 1 /\ \A i \in 1 .. n - 1 : K[i] = L[i + 1]
  BY RowTail
<1>2. /\ n \in Nat /\ 1 \in 1 .. n
      /\ \A i \in 1 .. n : o[i] \in Nat /\ L[i].takes \in Nat
  BY RowParts
<1>3. K \in Seq(MessageType) /\ (K = <<>> <=> Len(K) = 0)
  BY <1>1, RowParts
<1>4. m.gap \in Nat /\ m.takes \in Nat /\ Size \in Nat
  BY MessageFields, VariantFields
<1>5. Footprint(Append(L, m)) = End(L, o) + m.gap + m.takes
  <2>1. Footprint(Append(L, m)) = Start(L, o, m) + m.takes
    BY FootprintAppend DEF Laid
  <2> QED BY <2>1 DEF Start
<1>6. End(L, o) = o[n] + L[n].takes
  BY DEF End
<1>7. Footprint(Append(K, m)) = Start(K, p, m) + m.takes
  BY <1>1, FootprintAppend DEF Laid
<1>8. CASE K = <<>>
  <2>1. Footprint(Append(K, m)) = 0 + m.takes
    BY <1>7, <1>8 DEF Start
  <2>2. o[n] \in Nat /\ L[n].takes \in Nat
    BY <1>2
  <2> QED BY <1>4, <1>5, <1>6, <2>1, <2>2
<1>9. CASE K # <<>>
  <2>1. n - 1 \in 1 .. n - 1 /\ (n - 1) + 1 = n /\ 2 \in 1 .. n /\ n \in 1 .. n
    BY <1>1, <1>2, <1>3, <1>9
  <2>2. p[n - 1] = o[n] - o[2] /\ K[n - 1] = L[n]
    BY <1>1, <2>1 DEF Shorter
  <2>3. Footprint(Append(K, m)) = (o[n] - o[2] + L[n].takes) + m.gap + m.takes
    <3>1. Start(K, p, m) = End(K, p) + m.gap
      BY <1>9 DEF Start
    <3>2. End(K, p) = p[n - 1] + K[n - 1].takes
      BY <1>1, <1>9 DEF End
    <3> QED BY <1>7, <2>2, <3>1, <3>2
  <2>4. o[n] \in Nat /\ L[n].takes \in Nat /\ o[2] \in Nat
    BY <1>2, <2>1
  <2> DEFINE on == o[n]
             ot == o[2]
             lt == L[n].takes
  <2> HIDE DEF on, ot, lt
  <2>5. /\ Footprint(Append(K, m)) = (on - ot + lt) + m.gap + m.takes
        /\ Footprint(Append(L, m)) = (on + lt) + m.gap + m.takes
        /\ on \in Nat /\ ot \in Nat /\ lt \in Nat
    BY <1>5, <1>6, <2>3, <2>4 DEF on, ot, lt
  <2> QED BY <1>4, <2>5
<1> QED BY <1>8, <1>9

(* buf_get stores nread.                                                       *)
LEMMA GetPublishKeeps ==
  ASSUME RingInv, Running, GetPublish
  PROVE  RingInv'
<1>1. /\ get.at = "publish" /\ nread' = Past(get.r, Takes(get.len)) /\ get' = [get EXCEPT !.at = "idle"]
      /\ UNCHANGED <<cells, nwrite, attached, put, variant, odd>>
      /\ IF IsOldest(get.len, get.got) THEN queue' = Tail(queue) /\ UNCHANGED cause
                                       ELSE cause' = "phantom" /\ UNCHANGED queue
  BY DEF GetPublish, NewRead
<1>2. Shape /\ Sound /\ variant \in Variants /\ Positions /\ odd \in BOOLEAN /\ Getting
  BY <1>1 DEF RingInv, Shape, Getting
<1>3. /\ get'.at = "idle" /\ get'.r = get.r /\ get'.len = get.len /\ get'.got = get.got
      /\ ~Getting' /\ ~Erased'
      /\ get' \in [at : Places \cup {"none", "toolong", "erase"}, r : 0 .. WRAP - 1, len : Lens \cup {0},
                  got : Seq(CellType(Size))]
  BY <1>1, <1>2 DEF Shape, Getting, Places, Erased
<1>4. ~Misled => queue # <<>> /\ IsOldest(get.len, get.got)
  <2> SUFFICES ASSUME ~Misled PROVE queue # <<>> /\ IsOldest(get.len, get.got)
    OBVIOUS
  <2>1. queue # <<>> /\ get.len = queue[1].len /\ get.got = Bytes(queue[1], get.len)
    BY <1>1, <1>2 DEF Sound, Found
  <2>2. Head(queue) = queue[1]
    BY <1>2, <2>1, Oldest
  <2> QED BY <2>1, <2>2 DEF IsOldest, Bytes
<1>5. /\ WORD \in Nat \ {0} /\ WRAP \in Nat \ {0} /\ Size \in Nat \ {0} /\ 2 * (Size + 2 * WORD) <= WRAP
      /\ variant.aligns \in BOOLEAN /\ (~Counts => ~variant.aligns)
  BY <1>2, Units, VariantFields
<1>6. Positions'
  <2>1. CASE ~Counts
    <3>1. queue # <<>> /\ IsOldest(get.len, get.got)
      BY <1>4, <1>5, <2>1 DEF Misled
    <3>2. PICK m : m = queue[1]
      OBVIOUS
    <3>3. /\ GoodMessage(m) /\ m.w = get.r /\ m.takes \in Nat /\ m.takes <= Size /\ m.takes = Takes(m.len)
          /\ Head(queue) = m
      BY <1>2, <3>1, <3>2, Oldest
    <3>4. nread' = Past(m.w, m.takes)
      BY <1>1, <3>1, <3>3 DEF IsOldest
    <3>5. Past(m.w, m.takes) \in 0 .. WRAP - 1 /\ Past(m.w, m.takes) \in 0 .. Size
      <4>1. m.takes \in 0 .. m.takes
        BY <3>3
      <4> QED BY <1>2, <2>1, <3>3, <4>1, PastPlace
    <3> QED BY <1>1, <1>2, <3>4, <3>5, SameRing DEF Positions
  <2>2. CASE Counts
    <3>1. get.len \in Lens \cup {0} /\ get.r \in 0 .. WRAP - 1
      BY <1>2, GetFields
    <3>2. Takes(get.len) \in Nat /\ Takes(get.len) < WORD + get.len + WORD /\ get.len \in Nat
      BY <1>2, <3>1, TakesIs
    <3>3. 2 * get.len < WRAP
      BY <1>5, <3>1, Units
    <3>4. Takes(get.len) < WRAP
      BY <1>5, <3>2, <3>3
    <3>5. Past(get.r, Takes(get.len)) \in 0 .. WRAP - 1
      BY <1>2, <2>2, <3>1, <3>2, <3>4, PastCounts
    <3> QED BY <1>1, <1>2, <2>2, <3>5, SameRing DEF Positions
  <2> QED BY <2>1, <2>2
<1>7. Shape'
  BY <1>1, <1>2, <1>3, <1>6, SameRing DEF Shape, Putting
<1>8. CASE ~IsOldest(get.len, get.got)
  <2>1. cause' = "phantom"
    BY <1>1, <1>8, Zenon
  <2>2. ~Running' /\ (NeverOverfull /\ InBounds /\ Causes)'
    BY <2>1, Zenon DEF Running, NeverOverfull, InBounds, Causes
  <2>3. odd' /\ variant'.aligns /\ (variant'.empty = "equal" \/ get'.r = WRAP \div 2)
    BY <1>1, <1>3, <1>4, <1>8 DEF Misled
  <2>4. GetsOldest'
    BY <2>3, Zenon DEF GetsOldest
  <2> QED BY <1>7, <2>2, <2>4 DEF RingInv
<1>9. CASE IsOldest(get.len, get.got)
  <2>1. queue' = Tail(queue) /\ cause' = cause
    BY <1>1, <1>9
  <2>2. Running' /\ (NeverOverfull /\ InBounds /\ GetsOldest /\ Causes)'
    BY <2>1, Continues
  <2>3. PICK m : m = queue[1]
    OBVIOUS
  <2>4. queue # <<>>
    BY <1>9 DEF IsOldest
  <2>5. /\ GoodMessage(m) /\ m.w = get.r /\ m.takes \in Nat /\ m.takes <= Size /\ m.takes = Takes(m.len)
        /\ Head(queue) = m
    BY <1>2, <2>3, <2>4, Oldest
  <2>6. nread' = Past(m.w, m.takes) /\ m.w = Aligned(nread)
    BY <1>1, <1>2, <1>9, <2>5 DEF IsOldest, Sound
  <2>7. PICK o : Laid(queue, o)
    BY <1>2 DEF Sound, Rows
  <2>8. AtEnds(queue) /\ Even
    BY <1>2 DEF Sound, Rows
  <2> DEFINE n == Len(queue)
  <2>9. PICK K : K = Tail(queue)
    OBVIOUS
  <2>10. /\ Laid(K, Shorter(queue, o)) /\ Len(K) = n - 1
         /\ \A i \in 1 .. n - 1 : K[i] = queue[i + 1]
    BY <1>2, <2>4, <2>7, <2>9, RowTail
  <2>11. /\ n \in Nat /\ 1 \in 1 .. n /\ (K = <<>> <=> n - 1 = 0)
    <3>1. n \in Nat /\ 1 \in 1 .. n
      BY <1>2, <2>4, <2>7, RowParts
    <3>2. K = <<>> <=> Len(K) = 0
      BY <1>2, <2>10, RowParts
    <3> QED BY <2>10, <3>1, <3>2
  <2> HIDE DEF n
  <2>12. K # <<>> => K[1] = queue[2] /\ K[Len(K)] = queue[n]
    <3>1. n - 1 # 0 => 1 \in 1 .. n - 1 /\ n - 1 \in 1 .. n - 1 /\ (n - 1) + 1 = n /\ 1 + 1 = 2
      BY <2>11
    <3> QED BY <2>10, <2>11, <3>1
  <2>13. queue' = K
    BY <2>1, <2>9
  <2>14. Rows'
    <3>1. (\E q : Laid(queue, q))'
      <4>1. PICK q : Laid(K, q)
        BY <2>10
      <4>2. Laid(K, q)'
        BY <1>1, <4>1, SameRow
      <4> QED BY <2>13, <4>2
    <3>2. AtEnds(queue)'
      <4>1. K # <<>> => K[1].w = Aligned(nread')
        <5> SUFFICES ASSUME K # <<>> PROVE K[1].w = Aligned(nread')
          OBVIOUS
        <5>1. 1 \in 1 .. n - 1 /\ 1 + 1 = 2
          BY <2>11
        <5>2. queue[2].w = Aligned(Past(queue[1].w, queue[1].takes))
          BY <2>7, <5>1 DEF Laid, n
        <5> QED BY <2>3, <2>6, <2>12, <5>2
      <4>2. K # <<>> => nwrite = Past(K[Len(K)].w, K[Len(K)].takes)
        BY <2>4, <2>8, <2>12 DEF AtEnds, n
      <4>3. K = <<>> => nwrite = nread'
        <5>1. nwrite = Past(queue[n].w, queue[n].takes)
          BY <2>4, <2>8 DEF AtEnds, n
        <5>2. K = <<>> => n = 1
          BY <2>11
        <5> QED BY <2>3, <2>6, <5>1, <5>2
      <4>4. PICK r : r = nread'
        OBVIOUS
      <4>5. Aligned(r)' = Aligned(r)
        BY <1>1, SameRing
      <4>6. (Aligned(nread))' = Aligned(nread')
        BY <1>1, <4>4, <4>5 DEF Aligned
      <4> QED BY <1>1, <2>13, <4>1, <4>2, <4>3, <4>6, SameRing DEF AtEnds
    <3>3. Even'
      <4> SUFFICES ASSUME Straight
                   PROVE  /\ Past(m.w, m.takes) % WORD = 0 /\ nwrite % WORD = 0
                          /\ \A i \in 1 .. Len(K) : K[i].takes % WORD = 0
        BY <1>1, <2>6, <2>13 DEF Even, Straight
      <4>1. nread % WORD = 0 /\ nwrite % WORD = 0 /\ \A i \in 1 .. n : queue[i].takes % WORD = 0
        BY <2>8 DEF Even, n
      <4>2. m.w % WORD = 0 /\ m.takes % WORD = 0
        <5>1. m.w % WORD = 0
          BY <1>2, <2>6, <4>1, AlignedIs DEF Positions
        <5> QED BY <2>3, <2>11, <4>1, <5>1
      <4>3. Past(m.w, m.takes) % WORD = 0
        BY <1>2, <2>5, <4>2, PastStraight
      <4>4. ASSUME NEW i \in 1 .. Len(K)
            PROVE  K[i].takes % WORD = 0
        <5>1. i \in 1 .. n - 1 /\ i + 1 \in 1 .. n
          BY <2>10, <2>11
        <5> QED BY <2>10, <4>1, <5>1
      <4> QED BY <4>1, <4>3, <4>4
    <3> QED BY <3>1, <3>2, <3>3 DEF Rows
  <2>15. (Putting => Fits)'
    <3> SUFFICES ASSUME Putting
                 PROVE  Fits'
      BY <1>1 DEF Putting
    <3>1. PICK c : c = Coming
      OBVIOUS
    <3>2. /\ GoodMessage(c) /\ Follows(queue, c) /\ Footprint(Append(queue, c)) <= Size
          /\ put.w = Aligned(nwrite) /\ (Straight => c.takes % WORD = 0)
      BY <1>2, <3>1 DEF Sound, Fits
    <3>3. Coming' = c /\ Size' = Size
      BY <1>1, <3>1, SameRing DEF Coming, Message
    <3>4. GoodMessage(c)'
      BY <1>1, <3>2, SameRow
    <3>5. Follows(queue, c)'
      <4>1. Follows(K, c)
        <5>1. K # <<>> => K[Len(K)] = queue[Len(queue)] /\ queue # <<>>
          BY <2>4, <2>12 DEF n
        <5> QED BY <3>2, <5>1 DEF Follows
      <4>2. Follows(K, c)'
        BY <1>1, <4>1, SameRow
      <4> QED BY <2>13, <4>2
    <3>6. Footprint(Append(K, c)) <= Size
      BY <1>2, <2>4, <2>7, <2>9, <3>2, FitsTail DEF GoodMessage
    <3>7. (put.w = Aligned(nwrite))'
      BY <1>1, <3>2, SameRing
    <3>8. (Straight => c.takes % WORD = 0)'
      BY <1>1, <3>2 DEF Straight
    <3> QED BY <2>13, <3>3, <3>4, <3>5, <3>6, <3>7, <3>8 DEF Fits
  <2>16. Intact'
    <3>1. Size' = Size /\ Coming' = Coming /\ PutFirst' = PutFirst
      BY <1>1, SameRing DEF Coming, Message, PutFirst
    <3>2. Copied' = Copied
      BY <1>1, <3>1 DEF Copied
    <3>3. \A i : Kept(i)' = 0
      BY <1>3 DEF Kept
    <3>4. ASSUME NEW i \in 1 .. Len(K)
          PROVE  Stands(Size, cells, K[i], 0, WORD + K[i].len)
      <4>1. i \in 1 .. n - 1 /\ i + 1 \in 1 .. n /\ i + 1 # 1
        BY <2>10, <2>11
      <4>2. Stands(Size, cells, queue[i + 1], Kept(i + 1), WORD + queue[i + 1].len)
        BY <1>2, <4>1 DEF Sound, Intact, n
      <4>3. Kept(i + 1) = 0
        BY <4>1 DEF Kept
      <4> QED BY <2>10, <4>1, <4>2, <4>3
    <3> QED BY <1>1, <1>2, <2>13, <3>1, <3>2, <3>3, <3>4 DEF Intact, Sound
  <2>17. Found'
    BY <1>3 DEF Found
  <2> QED BY <1>3, <1>7, <2>2, <2>14, <2>15, <2>16, <2>17 DEF RingInv, Sound
<1> QED BY <1>8, <1>9

-----------------------------------------------------------------------------
(* What holds of the ring.                                                     *)

LEMMA RingStarts ==
  ASSUME Init
  PROVE  RingInv
<1>1. /\ variant \in Variants /\ cells = [c \in 0 .. Size - 1 |-> Zero] /\ nread = 0 /\ nwrite = 0
      /\ attached = {} /\ queue = <<>> /\ odd = FALSE
      /\ put = [at |-> "idle", w |-> 0, id |-> NIDS, len |-> 0]
      /\ get = [at |-> "idle", r |-> 0, len |-> 0, got |-> <<>>]
  BY DEF Init, Size
<1>2. cause = ""
  BY Zenon DEF Init
<1>3. Running /\ Causes /\ NeverOverfull /\ InBounds /\ GetsOldest
  BY <1>2, Zenon DEF Running, Causes, NeverOverfull, InBounds, GetsOldest
<1>4. Size \in Nat \ {0} /\ WRAP \in Nat \ {0} /\ NIDS \in Nat \ {0} /\ WORD \in Nat \ {0}
  BY <1>1, Units, VariantFields
<1>5. /\ 0 \in 0 .. WRAP - 1 /\ 0 \in 0 .. NIDS /\ NIDS \in 1 .. NIDS /\ 0 \in 0 .. Size
      /\ <<>> \in Seq(CellType(Size)) /\ <<>> \in Seq(MessageType) /\ Len(<<>>) = 0
  BY <1>4, EmptySeq
<1>6. ~Putting /\ ~Getting /\ Copied = 0
  BY <1>1 DEF Putting, Getting, Copied
<1>7. Shape
  <2>1. Zero \in CellType(Size)
    BY <1>5 DEF Zero, CellType
  <2>2. put \in [at : Places \cup {"refused"}, w : 0 .. WRAP - 1, id : 1 .. NIDS, len : Lens \cup {0}]
    BY <1>1, <1>5 DEF Places
  <2>3. get \in [at : Places \cup {"none", "toolong", "erase"}, r : 0 .. WRAP - 1, len : Lens \cup {0},
                 got : Seq(CellType(Size))]
    BY <1>1, <1>5 DEF Places
  <2>4. Len(get.got) <= get.len /\ get.at = "idle"
    BY <1>1, <1>5
  <2>5. Positions
    BY <1>1, <1>5 DEF Positions
  <2> QED BY <1>1, <1>6, <2>1, <2>2, <2>3, <2>4, <2>5 DEF Shape
<1>8. Rows
  <2>1. Laid(<<>>, [i \in 1 .. 0 |-> 0])
    <3>1. [i \in 1 .. 0 |-> 0] \in [1 .. 0 -> Nat]
      OBVIOUS
    <3>2. \A i : i \notin 1 .. 0 /\ i \notin 1 .. 0 - 1
      OBVIOUS
    <3> QED BY <1>5, <3>1, <3>2 DEF Laid, Offsets
  <2>2. 0 % WORD = 0
    BY <1>4, ModBelow
  <2> QED BY <1>1, <1>5, <2>1, <2>2 DEF Rows, AtEnds, Even
<1>9. Intact
  <2>1. Stands(Size, cells, Coming, 0, Copied)
    BY <1>6 DEF Stands
  <2> QED BY <1>1, <1>5, <2>1 DEF Intact
<1>10. Found
  BY <1>6 DEF Found
<1> QED BY <1>3, <1>6, <1>7, <1>8, <1>9, <1>10 DEF RingInv, Sound

LEMMA RingStays ==
  ASSUME RingInv, UNCHANGED vars
  PROVE  RingInv'
<1>1. /\ UNCHANGED <<cells, nread, nwrite, attached, put, get, variant, queue, odd>> /\ cause' = cause
  BY DEF vars
<1>2. Shape'
  BY <1>1, SameRing DEF RingInv, Shape, Positions, Putting
<1>3. (Running => Sound)'
  <2> SUFFICES ASSUME Sound PROVE Sound'
    BY <1>1, Zenon DEF RingInv, Running
  <2>1. Rows' /\ (Putting => Fits)' /\ Intact'
    <3>1. Erased' = Erased
      BY <1>1 DEF Erased
    <3> QED BY <1>1, <3>1, Notes
  <2>2. (Getting => get.r = Aligned(nread))'
    BY <1>1, SameRing DEF Sound, Getting
  <2>3. Found'
    BY <1>1, FoundStays DEF Sound
  <2> QED BY <2>1, <2>2, <2>3 DEF Sound
<1>4. Causes'
  BY <1>1, Zenon DEF RingInv, Causes
<1>5. InBounds' /\ GetsOldest'
  <2>1. Size' = Size
    BY <1>1, SameRing
  <2> QED BY <1>1, <2>1, Zenon DEF RingInv, InBounds, GetsOldest
<1>6. NeverOverfull'
  <2>1. Size' = Size /\ Message(put.w, put.id, put.len)' = Message(put.w, put.id, put.len)
    BY <1>1, SameRing DEF Message
  <2> QED BY <1>1, <2>1, Zenon DEF RingInv, NeverOverfull
<1> QED BY <1>2, <1>3, <1>4, <1>5, <1>6 DEF RingInv

LEMMA RingSteps ==
  ASSUME RingInv, [Next]_vars
  PROVE  RingInv'
<1>1. CASE cause = "" /\ Step
  <2>1. Running
    BY <1>1, Zenon DEF Running
  <2>2. Step
    BY <1>1, Zenon
  <2>3. ASSUME NEW p \in {"producer", "consumer"}, Setup(p)
        PROVE  RingInv'
    BY <2>1, <2>3, SetupKeeps
  <2>4. ASSUME NEW len \in Lens, PutRefuse(len)
        PROVE  RingInv'
    BY <2>1, <2>4, PutRefuseKeeps
  <2>5. ASSUME NEW len \in Lens, PutCall(len)
        PROVE  RingInv'
    BY <2>1, <2>5, PutCallKeeps
  <2>6. CASE PutHeader
    BY <2>1, <2>6, PutHeaderKeeps
  <2>7. CASE PutBytes
    BY <2>1, <2>7, PutBytesKeeps
  <2>8. CASE PutRest
    BY <2>1, <2>8, PutRestKeeps
  <2>9. CASE PutPublish
    BY <2>1, <2>9, PutPublishKeeps
  <2>10. CASE GetNone
    BY <2>1, <2>10, GetNoneKeeps
  <2>11. CASE GetCall
    BY <2>1, <2>11, GetCallKeeps
  <2>12. CASE GetTooLong
    BY <2>1, <2>12, GetTooLongKeeps
  <2>13. CASE GetHeader
    BY <2>1, <2>13, GetHeaderKeeps
  <2>14. CASE GetErase
    BY <2>1, <2>14, GetEraseKeeps
  <2>15. CASE GetBytes
    BY <2>1, <2>15, GetBytesKeeps
  <2>16. CASE GetRest
    BY <2>1, <2>16, GetRestKeeps
  <2>17. CASE GetPublish
    BY <2>1, <2>17, GetPublishKeeps
  <2> QED BY <2>2, <2>3, <2>4, <2>5, <2>6, <2>7, <2>8, <2>9, <2>10, <2>11, <2>12, <2>13, <2>14,
             <2>15, <2>16, <2>17, Zenon DEF Step
<1>2. CASE UNCHANGED vars
  BY <1>2, RingStays
<1> QED BY <1>1, <1>2, Zenon DEF Next

(* The invariant: while nothing has gone wrong the unread messages, and the    *)
(* one that is being put, are laid out one behind the other between the        *)
(* counters, and what has been copied of them stands in the cells.             *)
THEOREM RingInvariant == Spec => []RingInv
<1>1. Init => RingInv
  BY RingStarts
<1>2. RingInv /\ [Next]_vars => RingInv'
  BY RingSteps
<1> QED BY <1>1, <1>2, PTL DEF Spec

(* The counters stay within an unsigned int (willghatch's within the ring),    *)
(* the cells and the two calls have their types.                               *)
THEOREM TypeCorrect == Spec => []TypeOK
<1>1. RingInv => TypeOK
  <2> SUFFICES ASSUME RingInv PROVE TypeOK
    OBVIOUS
  <2>1. cause \in {"", "overfull", "jump", "fault", "phantom", "reset"}
    BY Zenon DEF RingInv, Causes
  <2>2. Shape
    BY DEF RingInv
  <2>3. /\ variant \in Variants
        /\ cells \in [0 .. Size - 1 -> [id : 0 .. NIDS, len : Lens \cup {0}, n : 0 .. Size]]
        /\ nread \in 0 .. WRAP - 1 /\ nwrite \in 0 .. WRAP - 1
        /\ variant.room = "offsets" => nread <= Size /\ nwrite <= Size
    BY <2>2, VariantFields DEF Shape, CellType, Positions, Counts
  <2>4. /\ attached \subseteq {"producer", "consumer"}
        /\ put \in [at : Places \cup {"refused"}, w : 0 .. WRAP - 1, id : 1 .. NIDS, len : Lens \cup {0}]
        /\ odd \in BOOLEAN
    BY <2>2 DEF Shape
  <2>5. /\ get.at \in Places \cup {"none", "toolong", "erase"} /\ get.len \in Lens \cup {0}
        /\ get.r \in 0 .. WRAP - 1 /\ Len(get.got) <= get.len
    BY <2>2 DEF Shape
  <2> QED BY <2>1, <2>3, <2>4, <2>5, Zenon DEF TypeOK
<1> QED BY <1>1, RingInvariant, PTL

(* Whatever the producer is copying, every message that is put and not yet got *)
(* stands whole in the ring where buf_get will look for it.                    *)
THEOREM UnreadIntactHolds == Spec => []UnreadIntact
<1>1. RingInv => UnreadIntact
  <2> SUFFICES ASSUME RingInv, Running PROVE
          \A i \in DOMAIN queue : \A n \in 0 .. WORD + queue[i].len - 1 :
            \/ cells[(queue[i].w + n) % Size] = Cell(queue[i].id, queue[i].len, n)
            \/ i = 1 /\ n < WORD /\ variant.erases /\ get.at \in {"bytes", "rest", "publish"}
    BY Zenon DEF UnreadIntact, Running
  <2>1. Shape /\ Sound /\ variant \in Variants
    BY DEF RingInv, Shape
  <2>2. PICK o : Laid(queue, o)
    BY <2>1 DEF Sound, Rows
  <2>3. queue \in Seq(MessageType) /\ DOMAIN queue = 1 .. Len(queue)
    BY <2>1, <2>2, RowParts, LenProperties
  <2> SUFFICES ASSUME NEW i \in 1 .. Len(queue), NEW n \in 0 .. WORD + queue[i].len - 1
               PROVE  \/ cells[(queue[i].w + n) % Size] = Cell(queue[i].id, queue[i].len, n)
                      \/ i = 1 /\ n < WORD /\ Erased
    BY <2>3 DEF Erased
  <2> DEFINE b == WORD + queue[i].len
  <2>4. b \in Int /\ n \in 0 .. b - 1 /\ WORD \in Nat
    <3>1. queue[i].len \in Nat /\ WORD \in Nat
      BY <2>1, <2>2, RowParts, Units
    <3> QED BY <3>1
  <2>5. Stands(Size, cells, queue[i], Kept(i), b)
    BY <2>1 DEF Sound, Intact
  <2> HIDE DEF b
  <2>6. CASE i = 1 /\ Erased /\ n < WORD
    BY <2>6
  <2>7. CASE ~(i = 1 /\ Erased /\ n < WORD)
    <3>1. n \in Kept(i) .. b - 1
      BY <2>4, <2>7 DEF Kept
    <3> QED BY <2>5, <3>1 DEF Stands
  <2> QED BY <2>6, <2>7
<1> QED BY <1>1, RingInvariant, PTL

(* buf_put accepts more than fits only where its test leaves room for it, and  *)
(* no copy leaves the pages but in alanhumphrey's ring and, for lengths that   *)
(* are no multiple of an int, in anthonyw's.                                   *)
THEOREM CopiesStayInsideHolds == Spec => []CopiesStayInside
<1>1. RingInv => CopiesStayInside
  BY DEF RingInv, CopiesStayInside
<1> QED BY <1>1, RingInvariant, PTL

(* What buf_get returns is the oldest message, whole, once, but after a length *)
(* that is no multiple of an int in the rings that round their counters up.    *)
THEOREM GetsOldestHolds == Spec => []GetsOldest
<1>1. RingInv => GetsOldest
  BY DEF RingInv
<1> QED BY <1>1, RingInvariant, PTL

(* buf_put refuses only what does not fit beside the unread messages, but for  *)
(* what the reader's rounding hides, and anthonyw's sum that overflows.        *)
THEOREM RefusedOnlyWhenFullHolds == Spec => []RefusedOnlyWhenFull
<1>1. RingInv => RefusedOnlyWhenFull
  <2> SUFFICES ASSUME RingInv, Running, CanPut, NEW len \in Lens
               PROVE  \/ Room(Aligned(nwrite), len)
                      \/ Footprint(Append(queue, Message(Aligned(nwrite), 1, len)))
                           + (IF odd THEN WORD - 1 ELSE 0) > Size
                      \/ variant.room = "sum" /\ nread + Size >= WRAP
    BY Zenon DEF RefusedOnlyWhenFull, Running
  <2>1. Shape /\ Sound /\ variant \in Variants /\ Positions /\ odd \in BOOLEAN
    BY DEF RingInv, Shape
  <2>2. PICK o : Laid(queue, o)
    BY <2>1 DEF Sound, Rows
  <2>3. Even /\ AtEnds(queue)
    BY <2>1 DEF Sound, Rows
  <2>4. PICK m : m = Message(Aligned(nwrite), 1, len)
    OBVIOUS
  <2>5. 1 \in 1 .. NIDS
    BY Units
  <2>6. Gauge(o, m, len)
    BY <2>1, <2>2, <2>3, <2>4, <2>5, Gauged
  <2>7. m.w = Aligned(nwrite)
    BY <2>6 DEF Gauge
  <2>8. CASE Room(m.w, len)
    BY <2>7, <2>8
  <2>9. CASE ~Room(m.w, len)
    BY <2>1, <2>4, <2>6, <2>9, Refuses
  <2> QED BY <2>8, <2>9
<1> QED BY <1>1, RingInvariant, PTL

(* buf_get finds the ring empty only when there is no message, but for         *)
(* willghatch's when it is full, and those that compare signed ints once the   *)
(* writer has passed 2^31.                                                     *)
THEOREM EmptyOnlyWhenNoneHolds == Spec => []EmptyOnlyWhenNone
<1>1. RingInv => EmptyOnlyWhenNone
  <2> SUFFICES ASSUME RingInv, Running, Empty(Aligned(nread)), queue # <<>>
               PROVE  \/ variant.room = "offsets" /\ Footprint(queue) = Size
                      \/ variant.empty = "past" /\ nread < WRAP \div 2 /\ nwrite >= WRAP \div 2
    BY Zenon DEF EmptyOnlyWhenNone, Running
  <2>1. Shape /\ Sound /\ variant \in Variants /\ Positions /\ odd \in BOOLEAN
    BY DEF RingInv, Shape
  <2>2. PICK o : Laid(queue, o)
    BY <2>1 DEF Sound, Rows
  <2>3. Even /\ AtEnds(queue)
    BY <2>1 DEF Sound, Rows
  <2> QED BY <2>1, <2>2, <2>3, LooksEmpty
<1> QED BY <1>1, RingInvariant, PTL
=============================================================================
