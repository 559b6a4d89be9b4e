--------------------------- MODULE SeqArithProofs ---------------------------
(***************************************************************************)
(* Facts about 16-bit sequence arithmetic that the proofs of the receive   *)
(* paths cite.  Only the first lemma looks at the modulus itself; the      *)
(* others use no more of it than that it is even and a multiple of eight.  *)
(***************************************************************************)
EXTENDS SeqArith, TLAPS

(* All that the proofs use of the modulus.                                 *)
LEMMA SeqModFacts ==
  /\ SEQ_MOD \in Nat /\ HALF_SEQ \in Nat
  /\ SEQ_MOD > 128
  /\ SEQ_MOD = 2 * HALF_SEQ
  /\ \E k \in Nat : SEQ_MOD = 8 * k
<1>1. SEQ_MOD = 8 * 8192
  BY DEF SEQ_MOD
<1>2. SEQ_MOD = 2 * HALF_SEQ
  BY DEF SEQ_MOD, HALF_SEQ
<1>3. SEQ_MOD \in Nat /\ HALF_SEQ \in Nat
  BY DEF SEQ_MOD, HALF_SEQ
<1>4. SEQ_MOD > 128
  BY DEF SEQ_MOD
<1> QED  BY <1>1, <1>2, <1>3, <1>4

(* A distance is a 16-bit number, zero only between a number and itself,   *)
(* and it tells numbers apart.                                             *)
LEMMA DistanceType ==
  ASSUME NEW a \in Seq16, NEW b \in Seq16
  PROVE  /\ Distance(a, b) \in Seq16
         /\ Distance(a, b) \in Nat
         /\ Distance(a, b) = 0 <=> a = b
BY SeqModFacts DEF Distance, Seq16

(* Incrementing a sequence number stays on the circle and moves by one.    *)
LEMMA NextSeqType ==
  ASSUME NEW a \in Seq16
  PROVE  /\ NextSeq(a) \in Seq16
         /\ NextSeq(a) # a
         /\ Distance(a, NextSeq(a)) = 1
BY SeqModFacts DEF NextSeq, Distance, Seq16

(* Advancing the origin brings every other number one step nearer.         *)
LEMMA DistanceAfterAdvance ==
  ASSUME NEW a \in Seq16, NEW b \in Seq16, a # b
  PROVE  Distance(NextSeq(a), b) = Distance(a, b) - 1
BY SeqModFacts DEF NextSeq, Distance, Seq16

(* Numbers are told apart by their distance from a common origin.          *)
LEMMA DistanceInjective ==
  ASSUME NEW a \in Seq16, NEW b \in Seq16, NEW c \in Seq16,
         Distance(a, b) = Distance(a, c)
  PROVE  b = c
BY SeqModFacts DEF Distance, Seq16

(* Two numbers less than eight ahead of the same origin that fall in the   *)
(* same residue class modulo eight are the same number: the property that  *)
(* lets an eight-slot array be indexed by seq % 8.                         *)
LEMMA NoCollision ==
  ASSUME NEW a \in Seq16, NEW b \in Seq16, NEW c \in Seq16,
         Distance(a, b) < 8, Distance(a, c) < 8, b % 8 = c % 8
  PROVE  b = c
<1>1. PICK k \in Nat : SEQ_MOD = 8 * k
  BY SeqModFacts
<1>2. ASSUME NEW x \in Int, NEW y \in Int, 0 < x - y, x - y < 8
      PROVE  x % 8 # y % 8
  BY <1>2
<1>3. ASSUME NEW x \in Int  PROVE (x + SEQ_MOD) % 8 = x % 8
  BY <1>1, <1>3
<1>4. PICK u \in Int : (u = b \/ u = b + SEQ_MOD) /\ u = a + Distance(a, b)
  BY SeqModFacts DEF Distance, Seq16
<1>5. PICK v \in Int : (v = c \/ v = c + SEQ_MOD) /\ v = a + Distance(a, c)
  BY SeqModFacts DEF Distance, Seq16
<1>6. u % 8 = v % 8
  <2>1. b \in Int /\ c \in Int  BY DEF Seq16
  <2> QED  BY <1>3, <1>4, <1>5, <2>1
<1>7. u - v < 8 /\ v - u < 8
  <2>1. /\ a \in Int /\ Distance(a, b) \in Nat /\ Distance(a, c) \in Nat
    <3>1. a \in Int
      BY DEF Seq16
    <3> QED  BY <3>1, DistanceType
  <2> QED  BY <1>4, <1>5, <2>1
<1>8. u = v
  BY <1>2, <1>6, <1>7
<1> QED  BY <1>4, <1>5, <1>8, SeqModFacts DEF Seq16

(* Serial comparison never calls a number before itself.                   *)
LEMMA SeqBeforeIrreflexive ==
  ASSUME NEW a \in Seq16
  PROVE  ~ SeqBefore(a, a)
BY SeqModFacts, DistanceType DEF SeqBefore, Seq16

(* Among numbers less than half the circle ahead of the same origin,       *)
(* serial comparison is the comparison of the distances from it.           *)
LEMMA OrderFrom ==
  ASSUME NEW a \in Seq16, NEW b \in Seq16, NEW c \in Seq16,
         Distance(a, b) < HALF_SEQ, Distance(a, c) < HALF_SEQ
  PROVE  SeqBefore(b, c) <=> Distance(a, b) < Distance(a, c)
BY SeqModFacts DEF SeqBefore, Distance, Seq16

-----------------------------------------------------------------------------
(* A stream numbers its packets from some first number on.  Packets are    *)
(* told apart by how many came before them, a count that never wraps: the  *)
(* n-th packet has the number below.                                       *)
Numbered(first, n) == (first + n) % SEQ_MOD

(* Counting one packet is incrementing its number.                         *)
LEMMA NumberedNext ==
  ASSUME NEW first \in Seq16, NEW n \in Nat
  PROVE  /\ Numbered(first, n) \in Seq16
         /\ Numbered(first, 0) = first
         /\ NextSeq(Numbered(first, n)) = Numbered(first, n + 1)
<1>1. ASSUME NEW x \in Nat
      PROVE  /\ x % SEQ_MOD \in Seq16
             /\ (x + 1) % SEQ_MOD \in Seq16
             /\ \/ (x + 1) % SEQ_MOD = (x % SEQ_MOD) + 1
                \/ ((x + 1) % SEQ_MOD = 0 /\ (x % SEQ_MOD) + 1 = SEQ_MOD)
             /\ x < SEQ_MOD => x % SEQ_MOD = x
  <2>1. /\ x % 65536 \in Nat /\ x % 65536 <= 65535
        /\ (x + 1) % 65536 \in Nat /\ (x + 1) % 65536 <= 65535
        /\ \/ (x + 1) % 65536 = (x % 65536) + 1
           \/ ((x + 1) % 65536 = 0 /\ (x % 65536) + 1 = 65536)
        /\ x < 65536 => x % 65536 = x
    OBVIOUS
  <2>2. SEQ_MOD = 65536
    BY DEF SEQ_MOD
  <2>3. \A y \in Nat : y <= 65535 => y \in Seq16
    <3>1. \A y \in Nat : y < SEQ_MOD => y \in Seq16
      BY SeqModFacts DEF Seq16
    <3>2. \A y \in Nat : y <= 65535 => y < SEQ_MOD
      BY <2>2
    <3> QED  BY <3>1, <3>2
  <2> QED  BY <2>1, <2>2, <2>3
<1>2. ASSUME NEW a \in Seq16, NEW b \in Seq16,
             b = a + 1 \/ (b = 0 /\ a + 1 = SEQ_MOD)
      PROVE  NextSeq(a) = b
  BY <1>2, SeqModFacts DEF NextSeq, Seq16
<1>3. first \in Nat /\ first < SEQ_MOD
  BY SeqModFacts DEF Seq16
<1>4. NextSeq((first + n) % SEQ_MOD) = (first + n + 1) % SEQ_MOD
  <2>1. first + n \in Nat
    BY <1>3
  <2> QED  BY <1>1, <1>2, <2>1
<1>5. Numbered(first, n) \in Seq16
  BY <1>1, <1>3 DEF Numbered
<1>6. Numbered(first, 0) = first
  BY <1>1, <1>3 DEF Numbered
<1>7. first + n + 1 = first + (n + 1)
  BY <1>3
<1> QED  BY <1>4, <1>5, <1>6, <1>7 DEF Numbered

(* Counting i packets more moves the number by i.                          *)
LEMMA NumberedAdd ==
  ASSUME NEW first \in Seq16, NEW n \in Nat, NEW i \in Nat
  PROVE  (Numbered(first, n) + i) % SEQ_MOD = Numbered(first, n + i)
<1>1. ASSUME NEW x \in Nat
      PROVE  ((x % 65536) + i) % 65536 = (x + i) % 65536
  OBVIOUS
<1>2. first + n \in Nat /\ first + n + i = first + (n + i)
  BY SeqModFacts DEF Seq16
<1> QED  BY <1>1, <1>2 DEF Numbered, SEQ_MOD

(* Up to a circle later, the number is that much larger, or wrapped once.  *)
LEMMA NumberedLater ==
  ASSUME NEW first \in Seq16, NEW m \in Nat, NEW n \in Nat,
         m <= n, n - m <= SEQ_MOD
  PROVE  \/ Numbered(first, n) = Numbered(first, m) + (n - m)
         \/ Numbered(first, n) = Numbered(first, m) + (n - m) - SEQ_MOD
<1>1. ASSUME NEW x \in Nat, NEW k \in Nat, k <= 65536
      PROVE  \/ (x + k) % 65536 = (x % 65536) + k
             \/ (x + k) % 65536 = (x % 65536) + k - 65536
  BY <1>1
<1>2. /\ first + m \in Nat /\ n - m \in Nat
      /\ (first + m) + (n - m) = first + n
  BY SeqModFacts DEF Seq16
<1>3. n - m <= 65536
  BY DEF SEQ_MOD
<1> QED  BY <1>1, <1>2, <1>3 DEF Numbered, SEQ_MOD

(* A packet counted at most half a circle earlier is before a later one.   *)
LEMMA NumberedBefore ==
  ASSUME NEW first \in Seq16, NEW m \in Nat, NEW n \in Nat,
         m < n, n - m <= HALF_SEQ
  PROVE  SeqBefore(Numbered(first, m), Numbered(first, n))
<1> DEFINE u == Numbered(first, m)
           v == Numbered(first, n)
<1>1. u \in Seq16 /\ v \in Seq16
  BY NumberedNext
<1>2. v = u + (n - m) \/ v = u + (n - m) - SEQ_MOD
  BY NumberedLater, SeqModFacts
<1> HIDE DEF u, v
<1>3. Distance(v, u) >= HALF_SEQ
  BY <1>1, <1>2, SeqModFacts DEF Distance, Seq16
<1> QED  BY <1>3 DEF SeqBefore, u, v

(* The later of two packets less than a circle apart is as far ahead as    *)
(* the packets between them are many.                                      *)
LEMMA NumberedDistance ==
  ASSUME NEW first \in Seq16, NEW m \in Nat, NEW n \in Nat,
         m <= n, n - m < SEQ_MOD
  PROVE  Distance(Numbered(first, m), Numbered(first, n)) = n - m
<1> DEFINE u == Numbered(first, m)
           v == Numbered(first, n)
<1>1. u \in Seq16 /\ v \in Seq16
  BY NumberedNext
<1>2. v = u + (n - m) \/ v = u + (n - m) - SEQ_MOD
  BY NumberedLater, SeqModFacts
<1> HIDE DEF u, v
<1>3. Distance(u, v) = n - m
  BY <1>1, <1>2, SeqModFacts DEF Distance, Seq16
<1> QED  BY <1>3 DEF u, v

(* Two packets less than a circle apart have different numbers.            *)
LEMMA NumberedInjective ==
  ASSUME NEW first \in Seq16, NEW m \in Nat, NEW n \in Nat,
         m <= n, n - m < SEQ_MOD,
         Numbered(first, m) = Numbered(first, n)
  PROVE  m = n
<1>1. Distance(Numbered(first, m), Numbered(first, n)) = n - m
  BY NumberedDistance
<1>2. Distance(Numbered(first, m), Numbered(first, n)) = 0
  BY NumberedNext, SeqModFacts DEF Distance, Seq16
<1> QED  BY <1>1, <1>2

(* The number whose distance from the base is d is the d-th after it.      *)
LEMMA NumberedAtDistance ==
  ASSUME NEW a \in Seq16, NEW b \in Seq16, NEW d \in 0 .. 63
  PROVE  Numbered(a, d) = b <=> Distance(a, b) = d
<1>1. Numbered(a, d) \in Seq16 /\ Numbered(a, 0) = a
  BY NumberedNext
<1>2. Distance(Numbered(a, 0), Numbered(a, d)) = d - 0
  BY NumberedDistance, SeqModFacts
<1>3. Distance(a, Numbered(a, d)) = d
  BY <1>1, <1>2
<1> QED  BY <1>1, <1>3, DistanceInjective
=============================================================================
