------------------------- MODULE TaperHashMap_proofs -------------------------
(***************************************************************************)
(* Proofs about the table and TaperHashMap, for any keys, any hash          *)
(* function, any chunk size and any load threshold up to 1: facts about the *)
(* operators of TaperTable, the invariants of the map, its counts and the   *)
(* end of its probes, and the table of groups it implements.                *)
(***************************************************************************)
EXTENDS TaperHashMap, FiniteSetTheorems, TLAPS

-----------------------------------------------------------------------------
(* The operators of TaperTable: the closed form of the probe sequence is the *)
(* sequence the code walks, and the lookups of a chunk.                      *)

(* Quotient and remainder are determined by the division equation. *)
LEMMA ModUnique ==
    ASSUME NEW n \in Nat \ {0}, NEW q \in Nat, NEW r \in 0 .. n - 1
    PROVE  (n * q + r) % n = r
<1> DEFINE x == n * q + r
           q2 == x \div n
           r2 == x % n
<1>1. x \in Nat
  OBVIOUS
<1>2. /\ q2 \in Nat /\ r2 \in 0 .. n - 1
      /\ x = n * q2 + r2
  BY <1>1
<1> HIDE DEF q2, r2
<1>3. CASE q2 >= q + 1
  <2>1. n * q2 >= n * (q + 1)
    BY <1>2, <1>3, Z3
  <2> QED
    BY <2>1, <1>2
<1>4. CASE q >= q2 + 1
  <2>1. n * q >= n * (q2 + 1)
    BY <1>2, <1>4, Z3
  <2> QED
    BY <2>1, <1>2
<1>5. CASE q = q2
  BY <1>2, <1>5 DEF r2
<1> QED
  BY <1>2, <1>3, <1>4, <1>5

(* A position can be reduced before the stride is added to it. *)
LEMMA ModAdd ==
    ASSUME NEW n \in Nat \ {0}, NEW a \in Nat, NEW b \in Nat
    PROVE  ((a % n) + b) % n = (a + b) % n
<1> DEFINE q == a \div n
           r == a % n
           q2 == (r + b) \div n
           r2 == (r + b) % n
<1>1. q \in Nat /\ r \in 0 .. n - 1 /\ a = n * q + r
  OBVIOUS
<1> HIDE DEF q, r
<1>2. q2 \in Nat /\ r2 \in 0 .. n - 1 /\ r + b = n * q2 + r2
  BY <1>1
<1> HIDE DEF q2, r2
<1>3. a + b = n * (q + q2) + r2
  BY <1>1, <1>2
<1>4. \A m \in Nat : (n * m + r2) % n = r2
  BY <1>2, ModUnique
<1>5. q + q2 \in Nat
  BY <1>1, <1>2
<1>6. (a + b) % n = r2
  BY <1>3, <1>4, <1>5
<1> QED
  BY <1>6 DEF r, r2

LEMMA TriangleStep ==
    ASSUME NEW k \in Nat
    PROVE  /\ Triangle(k) \in Nat
           /\ Triangle(k + 1) = Triangle(k) + (k + 1)
<1>1. k * (k + 1) \in Nat /\ (k + 1) * (k + 2) = k * (k + 1) + 2 * (k + 1)
  OBVIOUS
<1>2. ASSUME NEW x \in Nat, NEW m \in Nat
      PROVE  (x + 2 * m) \div 2 = x \div 2 + m
  OBVIOUS
<1> QED
  BY <1>1, <1>2 DEF Triangle

(***************************************************************************)
(* Every probe starts at the hash's own chunk, ...                          *)
(***************************************************************************)
LEMMA ProbeStart ==
    ASSUME NEW n \in Nat \ {0}, NEW h \in Nat
    PROVE  Probe(n, h, 0) = ChunkPos(n, h)
BY DEF Probe, ChunkPos, Triangle

(***************************************************************************)
(* ... and the step RehashPos takes from its k-th chunk with a collision    *)
(* counter of k + 1 leads to the next one.                                  *)
(***************************************************************************)
LEMMA ProbeStep ==
    ASSUME NEW n \in Nat \ {0}, NEW h \in Nat, NEW k \in Nat
    PROVE  /\ Probe(n, h, k) \in 0 .. n - 1
           /\ RehashPos(n, k + 1, Probe(n, h, k)) = Probe(n, h, k + 1)
<1> DEFINE a == h + Triangle(k)
<1>1. a \in Nat /\ h + Triangle(k + 1) = a + (k + 1)
  BY TriangleStep
<1>2. Probe(n, h, k) = a % n /\ Probe(n, h, k + 1) = (h + Triangle(k + 1)) % n
  BY DEF Probe
<1> HIDE DEF a
<1>3. \A m \in Nat : ((a % n) + m) % n = (a + m) % n
  BY <1>1, ModAdd
<1>4. a % n \in 0 .. n - 1
  BY <1>1
<1>5. k + 1 \in Nat
  OBVIOUS
<1>6. ((a % n) + (k + 1)) % n = (a + (k + 1)) % n
  BY <1>3, <1>5
<1> QED
  BY <1>1, <1>2, <1>4, <1>6 DEF RehashPos

-----------------------------------------------------------------------------
(* Powers of two. *)

Powers ==
    {1, 2, 4, 8, 16, 32, 64, 128, 256, 512, 1024, 2048, 4096, 8192, 16384,
     32768, 65536, 131072, 262144, 524288, 1048576}

LEMMA PowersAre == {2 ^ e : e \in 0 .. 20} = Powers
<1>1. ASSUME NEW e \in 0 .. 20 PROVE 2 ^ e \in Powers
  <2>1. CASE e = 0
    BY <2>1, SMT DEF Powers
  <2>2. CASE e = 1
    BY <2>2, SMT DEF Powers
  <2>3. CASE e = 2
    BY <2>3, SMT DEF Powers
  <2>4. CASE e = 3
    BY <2>4, SMT DEF Powers
  <2>5. CASE e = 4
    BY <2>5, SMT DEF Powers
  <2>6. CASE e = 5
    BY <2>6, SMT DEF Powers
  <2>7. CASE e = 6
    BY <2>7, SMT DEF Powers
  <2>8. CASE e = 7
    BY <2>8, SMT DEF Powers
  <2>9. CASE e = 8
    BY <2>9, SMT DEF Powers
  <2>10. CASE e = 9
    BY <2>10, SMT DEF Powers
  <2>11. CASE e = 10
    BY <2>11, SMT DEF Powers
  <2>12. CASE e = 11
    BY <2>12, SMT DEF Powers
  <2>13. CASE e = 12
    BY <2>13, SMT DEF Powers
  <2>14. CASE e = 13
    BY <2>14, SMT DEF Powers
  <2>15. CASE e = 14
    BY <2>15, SMT DEF Powers
  <2>16. CASE e = 15
    BY <2>16, SMT DEF Powers
  <2>17. CASE e = 16
    BY <2>17, SMT DEF Powers
  <2>18. CASE e = 17
    BY <2>18, SMT DEF Powers
  <2>19. CASE e = 18
    BY <2>19, SMT DEF Powers
  <2>20. CASE e = 19
    BY <2>20, SMT DEF Powers
  <2>21. CASE e = 20
    BY <2>21, SMT DEF Powers
  <2> QED
    BY <2>1, <2>2, <2>3, <2>4, <2>5, <2>6, <2>7, <2>8, <2>9, <2>10, <2>11, <2>12, <2>13, <2>14, <2>15, <2>16, <2>17, <2>18, <2>19, <2>20, <2>21, SMT
<1>2. /\ 2 ^ 0 = 1
      /\ 2 ^ 1 = 2
      /\ 2 ^ 2 = 4
      /\ 2 ^ 3 = 8
      /\ 2 ^ 4 = 16
      /\ 2 ^ 5 = 32
      /\ 2 ^ 6 = 64
      /\ 2 ^ 7 = 128
      /\ 2 ^ 8 = 256
      /\ 2 ^ 9 = 512
      /\ 2 ^ 10 = 1024
      /\ 2 ^ 11 = 2048
      /\ 2 ^ 12 = 4096
      /\ 2 ^ 13 = 8192
      /\ 2 ^ 14 = 16384
      /\ 2 ^ 15 = 32768
      /\ 2 ^ 16 = 65536
      /\ 2 ^ 17 = 131072
      /\ 2 ^ 18 = 262144
      /\ 2 ^ 19 = 524288
      /\ 2 ^ 20 = 1048576
  BY SMT
<1>3. \A p \in Powers : \E e \in 0 .. 20 : p = 2 ^ e
  BY <1>2, SMT DEF Powers
<1> QED
  BY <1>1, <1>3

LEMMA PowerAbove ==
    ASSUME NEW n \in Nat, n <= MOST_CHUNKS
    PROVE  \E p \in Powers : p >= n /\ \A q \in Powers : q >= n => p <= q
BY SMTT(60) DEF Powers, MOST_CHUNKS

(* next_power_of_two does not round down, and reaches a power of two at once. *)
LEMMA NextPowerFacts ==
    ASSUME NEW n \in Nat, n <= MOST_CHUNKS
    PROVE  /\ NextPowerOfTwo(n) \in Nat \ {0} /\ NextPowerOfTwo(n) \in Powers
           /\ n <= NextPowerOfTwo(n) /\ NextPowerOfTwo(n) <= MOST_CHUNKS
<1> DEFINE Least(p) == p >= n /\ \A e \in 0 .. 20 : 2 ^ e >= n => p <= 2 ^ e
<1>1. PICK p \in Powers : p >= n /\ \A q \in Powers : q >= n => p <= q
  BY PowerAbove
<1>2. \A e \in 0 .. 20 : 2 ^ e \in Powers
  BY PowersAre
<1>3. p \in {2 ^ e : e \in 0 .. 20} /\ Least(p)
  BY <1>1, <1>2, PowersAre
<1>4. NextPowerOfTwo(n) = CHOOSE x \in {2 ^ e : e \in 0 .. 20} : Least(x)
  BY DEF NextPowerOfTwo
<1> DEFINE c == CHOOSE x \in {2 ^ e : e \in 0 .. 20} : Least(x)
<1>5. c \in {2 ^ e : e \in 0 .. 20} /\ Least(c)
  BY <1>3
<1> HIDE DEF c
<1>6. c \in Powers /\ c >= n
  BY <1>5, PowersAre
<1>7. \A q \in Powers : q \in Nat \ {0} /\ q <= MOST_CHUNKS
  BY SMT DEF Powers, MOST_CHUNKS
<1> QED
  BY <1>4, <1>6, <1>7 DEF c

(***************************************************************************)
(* Nothing but a multiple of n can be a multiple of n once an odd factor is *)
(* taken out: true of 1, and of 2n if of n, so of every power of two.       *)
(***************************************************************************)
Divides(n, m) == \E q \in Nat : m = n * q
OddFree(n) == \A a, b \in Nat : a % 2 = 1 /\ Divides(n, a * b) => Divides(n, b)

LEMMA EvenOrOdd ==
    ASSUME NEW n \in Nat
    PROVE  \E d \in Nat : n = 2 * d \/ n = 2 * d + 1
<1>1. n \div 2 \in Nat /\ (n = 2 * (n \div 2) \/ n = 2 * (n \div 2) + 1)
  OBVIOUS
<1> QED
  BY <1>1

LEMMA OddFreeDouble ==
    ASSUME NEW n \in Nat \ {0}, OddFree(n)
    PROVE  OddFree(2 * n)
<1> SUFFICES ASSUME NEW a \in Nat, NEW b \in Nat, a % 2 = 1, Divides(2 * n, a * b)
             PROVE  Divides(2 * n, b)
  BY DEF OddFree
<1>0. PICK q \in Nat : a * b = (2 * n) * q
  BY DEF Divides
<1>1. PICK c \in Nat : a = 2 * c + 1
  OBVIOUS
<1>2. PICK d \in Nat : b = 2 * d \/ b = 2 * d + 1
  BY EvenOrOdd
<1>3. b = 2 * d
  <2>1. SUFFICES ASSUME b = 2 * d + 1 PROVE FALSE
    BY <1>2
  <2>2. a * b = 2 * (c * (2 * d + 1) + d) + 1
    BY <1>1, <2>1, Z3
  <2>3. a * b = 2 * (n * q)
    BY <1>0, Z3
  <2>4. c * (2 * d + 1) + d \in Nat /\ n * q \in Nat
    OBVIOUS
  <2> HIDE <1>1, <1>2, <2>1
  <2> QED
    BY <2>2, <2>3, <2>4
<1>4. a * d = n * q
  <2>1. 2 * (a * d) = 2 * (n * q)
    BY <1>0, <1>3, Z3
  <2>2. a * d \in Nat /\ n * q \in Nat
    OBVIOUS
  <2> QED
    BY <2>1, <2>2
<1>5. PICK p \in Nat : d = n * p
  <2>1. Divides(n, a * d)
    BY <1>4 DEF Divides
  <2>2. Divides(n, d)
    BY <2>1 DEF OddFree
  <2> QED
    BY <2>2 DEF Divides
<1>6. b = (2 * n) * p
  BY <1>3, <1>5, Z3
<1> QED
  BY <1>6 DEF Divides

LEMMA PowersOddFree == \A p \in Powers : OddFree(p)
<1>1. OddFree(1)
  BY DEF OddFree, Divides
<1>2. OddFree(2)
  BY <1>1, OddFreeDouble, 2 * 1 = 2
<1>3. OddFree(4)
  BY <1>2, OddFreeDouble, 2 * 2 = 4
<1>4. OddFree(8)
  BY <1>3, OddFreeDouble, 2 * 4 = 8
<1>5. OddFree(16)
  BY <1>4, OddFreeDouble, 2 * 8 = 16
<1>6. OddFree(32)
  BY <1>5, OddFreeDouble, 2 * 16 = 32
<1>7. OddFree(64)
  BY <1>6, OddFreeDouble, 2 * 32 = 64
<1>8. OddFree(128)
  BY <1>7, OddFreeDouble, 2 * 64 = 128
<1>9. OddFree(256)
  BY <1>8, OddFreeDouble, 2 * 128 = 256
<1>10. OddFree(512)
  BY <1>9, OddFreeDouble, 2 * 256 = 512
<1>11. OddFree(1024)
  BY <1>10, OddFreeDouble, 2 * 512 = 1024
<1>12. OddFree(2048)
  BY <1>11, OddFreeDouble, 2 * 1024 = 2048
<1>13. OddFree(4096)
  BY <1>12, OddFreeDouble, 2 * 2048 = 4096
<1>14. OddFree(8192)
  BY <1>13, OddFreeDouble, 2 * 4096 = 8192
<1>15. OddFree(16384)
  BY <1>14, OddFreeDouble, 2 * 8192 = 16384
<1>16. OddFree(32768)
  BY <1>15, OddFreeDouble, 2 * 16384 = 32768
<1>17. OddFree(65536)
  BY <1>16, OddFreeDouble, 2 * 32768 = 65536
<1>18. OddFree(131072)
  BY <1>17, OddFreeDouble, 2 * 65536 = 131072
<1>19. OddFree(262144)
  BY <1>18, OddFreeDouble, 2 * 131072 = 262144
<1>20. OddFree(524288)
  BY <1>19, OddFreeDouble, 2 * 262144 = 524288
<1>21. OddFree(1048576)
  BY <1>20, OddFreeDouble, 2 * 524288 = 1048576
<1> QED
  BY <1>1, <1>2, <1>3, <1>4, <1>5, <1>6, <1>7, <1>8, <1>9, <1>10, <1>11, <1>12, <1>13, <1>14, <1>15, <1>16, <1>17, <1>18, <1>19, <1>20, <1>21 DEF Powers

LEMMA TriangleTwice ==
    ASSUME NEW k \in Nat
    PROVE  Triangle(k) \in Nat /\ 2 * Triangle(k) = k * (k + 1)
<1> DEFINE m == k * (k + 1)
<1>1. m \in Nat /\ m % 2 = 0
  <2>1. PICK d \in Nat : k = 2 * d \/ k = 2 * d + 1
    BY EvenOrOdd
  <2>2. CASE k = 2 * d
    <3>1. m = 2 * (d * (k + 1)) /\ d * (k + 1) \in Nat
      BY <2>2, Z3
    <3> HIDE DEF m
    <3> QED
      BY <3>1
  <2>3. CASE k = 2 * d + 1
    <3>1. m = 2 * (k * (d + 1)) /\ k * (d + 1) \in Nat
      BY <2>3, Z3
    <3> HIDE DEF m
    <3> QED
      BY <3>1
  <2> QED
    BY <2>1, <2>2, <2>3
<1>2. Triangle(k) = m \div 2
  BY DEF Triangle
<1> HIDE DEF m
<1>3. m \div 2 \in Nat /\ 2 * (m \div 2) = m
  BY <1>1
<1> QED
  BY <1>2, <1>3 DEF m

LEMMA SameRemainder ==
    ASSUME NEW n \in Nat \ {0}, NEW a \in Nat, NEW b \in Nat, a % n = b % n
    PROVE  \E i \in Int : b - a = n * i
<1> DEFINE qa == a \div n
           qb == b \div n
           r == a % n
<1>1. qa \in Nat /\ qb \in Nat /\ r \in Nat /\ a = n * qa + r /\ b = n * qb + r
  OBVIOUS
<1> HIDE DEF qa, qb, r
<1>2. b - a = n * (qb - qa)
  BY <1>1, Z3
<1> QED
  BY <1>1, <1>2

(***************************************************************************)
(* The first n steps of a probe sequence in a table of n chunks lead to n   *)
(* chunks: twice the distance of two tries is (k - j)(k + j + 1), and one   *)
(* of the two factors is odd.                                               *)
(***************************************************************************)
LEMMA ProbesDiffer ==
    ASSUME NEW n \in Nat \ {0}, OddFree(n), NEW h \in Nat,
           NEW j \in 0 .. n - 1, NEW k \in 0 .. n - 1, j < k
    PROVE  Probe(n, h, j) # Probe(n, h, k)
<1> SUFFICES ASSUME Probe(n, h, j) = Probe(n, h, k) PROVE FALSE
  OBVIOUS
<1> DEFINE x == Triangle(j)
           y == Triangle(k)
           d == k - j
           s == k + j + 1
<1>1. x \in Nat /\ y \in Nat /\ 2 * x = j * (j + 1) /\ 2 * y = k * (k + 1)
  BY TriangleTwice
<1>2. d \in Nat /\ s \in Nat /\ 0 < d /\ d < n /\ s < 2 * n /\ 0 < s
  OBVIOUS
<1>3. 2 * y - 2 * x = d * s
  BY <1>1, Z3
<1>4. (h + x) % n = (h + y) % n
  BY DEF Probe
<1> HIDE DEF x, y
<1>5. PICK q \in Int : (h + y) - (h + x) = n * q
  <2>1. h + x \in Nat /\ h + y \in Nat
    BY <1>1
  <2>2. \A a \in Nat, b \in Nat : a % n = b % n => \E i \in Int : b - a = n * i
    BY SameRemainder
  <2> QED
    BY <1>4, <2>1, <2>2
<1>6. d * s = (2 * n) * q
  <2>1. y - x = n * q
    BY <1>1, <1>5
  <2>2. 2 * (y - x) = 2 * (n * q)
    BY <2>1
  <2>3. 2 * (y - x) = 2 * y - 2 * x
    BY <1>1
  <2>4. 2 * (n * q) = (2 * n) * q
    BY Z3
  <2> QED
    BY <1>3, <2>2, <2>3, <2>4
<1>7. q \in Nat
  <2>1. d * s \in Nat /\ d * s > 0
    BY <1>2, Z3
  <2>2. q < 0 => (2 * n) * q < 0
    BY Z3
  <2> QED
    BY <1>6, <2>1, <2>2
<1>8. OddFree(2 * n)
  BY OddFreeDouble
<1>9. d % 2 = 1 \/ s % 2 = 1
  <2>1. s = d + 2 * j + 1
    OBVIOUS
  <2> HIDE DEF d, s
  <2> QED
    BY <1>2, <2>1
<1> HIDE DEF d, s
<1>10. CASE d % 2 = 1
  <2> Divides(2 * n, d * s)
    BY <1>6, <1>7 DEF Divides
  <2> Divides(2 * n, s)
    BY <1>2, <1>8, <1>10 DEF OddFree
  <2>1. PICK p \in Nat : s = (2 * n) * p
    BY DEF Divides
  <2>2. p >= 1 => (2 * n) * p >= 2 * n
    BY Z3
  <2>3. p = 0 => (2 * n) * p = 0
    OBVIOUS
  <2> QED
    BY <1>2, <2>1, <2>2, <2>3
<1>11. CASE s % 2 = 1
  <2>1. s * d = (2 * n) * q
    BY <1>2, <1>6, Z3
  <2> Divides(2 * n, s * d)
    BY <1>7, <2>1 DEF Divides
  <2> Divides(2 * n, d)
    BY <1>2, <1>8, <1>11 DEF OddFree
  <2>2. PICK p \in Nat : d = (2 * n) * p
    BY DEF Divides
  <2>3. p >= 1 => (2 * n) * p >= 2 * n
    BY Z3
  <2>4. p = 0 => (2 * n) * p = 0
    OBVIOUS
  <2> QED
    BY <1>2, <2>2, <2>3, <2>4
<1> QED
  BY <1>9, <1>10, <1>11

(* ... so they lead to every chunk. *)
LEMMA ProbesReachAll ==
    ASSUME NEW n \in Nat \ {0}, OddFree(n), NEW h \in Nat, NEW c \in 0 .. n - 1
    PROVE  \E k \in 0 .. n - 1 : Probe(n, h, k) = c
<1> DEFINE N == 0 .. n - 1
           f == [k \in N |-> Probe(n, h, k)]
<1>1. IsFiniteSet(N)
  BY FS_Interval
<1>2. f \in [N -> N]
  <2>1. \A k \in N : k \in Nat
    OBVIOUS
  <2>2. \A k \in N : Probe(n, h, k) \in N
    BY <2>1, ProbeStep
  <2> QED
    BY <2>2
<1>3. \A j, k \in N : f[j] = f[k] => j = k
  BY ProbesDiffer
<1> HIDE DEF f
<1>4. f \in Injection(N, N)
  BY <1>2, <1>3 DEF Injection, IsInjective
<1>5. f \in Surjection(N, N)
  BY <1>1, <1>4, FS_Injection
<1>6. PICK k \in N : f[k] = c
  BY <1>5 DEF Surjection
<1> QED
  BY <1>6 DEF f

-----------------------------------------------------------------------------
(* A tag never has the empty mark, whatever the hash. *)
LEMMA TagHashRange ==
    ASSUME NEW h \in Nat
    PROVE  TagHash(h) \in Nat /\ TagHash(h) # EMPTY_TAG
<1> DEFINE q == h \div TAG_DIV
<1>1. q \in Nat
  BY TableAssumption
<1> HIDE DEF q
<1>2. q % TAG_MOD \in 0 .. TAG_MOD - 1
  BY <1>1, TableAssumption
<1>3. TagHash(h) = q % TAG_MOD
  BY DEF TagHash, q
<1> QED
  BY <1>2, <1>3, TableAssumption DEF EMPTY_TAG

(***************************************************************************)
(* What a lookup reports is in use, the false matches of match_tag          *)
(* included: keys and values that are filler are never compared.            *)
(***************************************************************************)
THEOREM MatchInUse ==
    ASSUME NEW chunk, NEW h \in Nat, NEW s \in HashMatches(chunk, h)
    PROVE  s \in Slots /\ chunk[s].tag # EMPTY_TAG
<1> DEFINE t == TagHash(h)
<1>1. t \in 0 .. TAG_MOD - 1
  <2> DEFINE q == h \div TAG_DIV
  <2>1. q \in Nat
    BY TableAssumption
  <2> HIDE DEF q
  <2>2. q % TAG_MOD \in 0 .. TAG_MOD - 1
    BY <2>1, TableAssumption
  <2> QED
    BY <2>2 DEF TagHash, q
<1>2. s \in Slots /\ chunk[s].tag \in {t, Neighbour(t)}
  BY DEF HashMatches, MatchTag
<1> HIDE DEF t
<1>3. CASE t % 2 = 0
  <2>1. t + 1 # TAG_MOD
    BY <1>1, <1>3, TableAssumption, TagAssumption
  <2> QED
    BY <1>1, <1>2, <1>3, <2>1, TableAssumption DEF Neighbour, EMPTY_TAG
<1>4. CASE t % 2 # 0
  BY <1>1, <1>2, <1>4, TableAssumption DEF Neighbour, EMPTY_TAG
<1> QED
  BY <1>3, <1>4

(* A table as it is after alloc_chunks. *)
LEMMA AllocFacts ==
    ASSUME NEW n \in Nat \ {0}
    PROVE  /\ AllocChunks(n) \in [0 .. n - 1 -> [Slots -> Slot]]
           /\ Occupied(AllocChunks(n)) = {}
<1>1. EmptySlot \in Slot /\ EmptySlot.tag = EMPTY_TAG
  BY TableAssumption DEF EmptySlot, Slot, EMPTY_TAG
<1> QED
  BY <1>1 DEF AllocChunks, EmptyChunk, Occupied

(***************************************************************************)
(* D is the table C with x at l: l was empty, and neither a used slot nor a *)
(* full chunk is touched.                                                   *)
(***************************************************************************)
AddedAt(n, C, D, l, x) ==
    /\ D \in [0 .. n - 1 -> [Slots -> Slot]]
    /\ l \notin Occupied(C)
    /\ Occupied(D) = Occupied(C) \cup {l}
    /\ At(D, l) = x
    /\ \A m \in Occupied(C) : At(D, m) = At(C, m)
    /\ \A i \in 0 .. n - 1 : IsFull(C[i]) => D[i] = C[i]

LEMMA FillFacts ==
    ASSUME NEW n \in Nat \ {0}, NEW C \in [0 .. n - 1 -> [Slots -> Slot]],
           NEW c \in 0 .. n - 1, NEW s \in MatchEmpty(C[c]),
           NEW h \in Nat, NEW v \in Nat
    PROVE  AddedAt(n, C, Fill(C, c, s, h, v), <<c, s>>,
                   [tag |-> TagHash(h), key |-> h, value |-> v])
<1> DEFINE D == Fill(C, c, s, h, v)
<1> DEFINE x == [tag |-> TagHash(h), key |-> h, value |-> v]
<1>1. s \in Slots /\ C[c][s].tag = EMPTY_TAG
  BY DEF MatchEmpty
<1>2. x \in Slot /\ x.tag # EMPTY_TAG
  BY TagHashRange DEF Slot
<1>3. D = [C EXCEPT ![c] = [C[c] EXCEPT ![s] = x]]
  BY DEF Fill
<1> HIDE DEF x, D
<1>4. D \in [0 .. n - 1 -> [Slots -> Slot]]
  BY <1>1, <1>2, <1>3
<1>5. D[c][s] = x
  BY <1>1, <1>3
<1>6. \A i \in 0 .. n - 1, t \in Slots : <<i, t>> # <<c, s>> => D[i][t] = C[i][t]
  BY <1>1, <1>3
<1>7. Occupied(D) = Occupied(C) \cup {<<c, s>>}
  BY <1>1, <1>2, <1>4, <1>5, <1>6 DEF Occupied
<1>8. <<c, s>> \notin Occupied(C)
  BY <1>1 DEF Occupied
<1>9. \A l \in Occupied(C) : At(D, l) = At(C, l)
  BY <1>6, <1>8 DEF Occupied, At
<1>10. \A i \in 0 .. n - 1 : IsFull(C[i]) => D[i] = C[i]
  BY <1>1, <1>3 DEF IsFull, MatchEmpty
<1> QED
  BY <1>4, <1>5, <1>7, <1>8, <1>9, <1>10 DEF AddedAt, At, x, D

USE TableAssumption, HashAssumption

-----------------------------------------------------------------------------
(* Type correctness. *)

LEMMA ModRange ==
    ASSUME NEW n \in Nat \ {0}, NEW x \in Nat
    PROVE  x % n \in 0 .. n - 1
OBVIOUS

LEMMA NoEntriesType == DOMAIN NoEntries = {} /\ NoEntries = [l \in {} |-> EmptySlot]
BY DEF NoEntries

(* The call of expand types its locals. *)
LEMMA StartExpandType ==
    ASSUME TypeOK, NEW return \in {"idle", "locate"}, StartExpand(return)
    PROVE  /\ num_chunks' \in Nat \ {0}
           /\ chunks' \in [0 .. num_chunks' - 1 -> [Slots -> Slot]]
           /\ size' \in Nat
           /\ todo' \cup collided' \subseteq DOMAIN entries'
           /\ entries' \in [DOMAIN entries' -> Slot]
           /\ positions' \in [DOMAIN entries' -> 0 .. num_chunks' - 1]
           /\ rehash_batch' \in Nat \ {0}
           /\ pc' = "rehash"
           /\ after' \in {"idle", "locate"}
<1> DEFINE n == 2 * num_chunks
           old == Occupied(chunks)
<1>1. num_chunks \in Nat \ {0} /\ chunks \in [0 .. num_chunks - 1 -> [Slots -> Slot]]
  BY DEF TypeOK
<1>2. n \in Nat \ {0}
  BY <1>1
<1>3. \A l \in old : At(chunks, l) \in Slot
  BY <1>1 DEF Occupied, At
<1>4. \A l \in old : At(chunks, l).key \in Nat
  BY <1>3 DEF Slot
<1>5. AllocChunks(n) \in [0 .. n - 1 -> [Slots -> Slot]]
  BY <1>2, AllocFacts
<1>6. \A l \in old : ChunkPos(n, At(chunks, l).key) \in 0 .. n - 1
  BY <1>2, <1>4, ModRange DEF ChunkPos
<1> HIDE DEF n, old
<1>7. /\ num_chunks' = n /\ chunks' = AllocChunks(n) /\ size' = 0
      /\ entries' = [l \in old |-> At(chunks, l)]
      /\ positions' = [l \in old |-> ChunkPos(n, At(chunks, l).key)]
      /\ todo' = old /\ collided' = {} /\ rehash_batch' = 1
      /\ pc' = "rehash" /\ after' = return
  BY DEF StartExpand, EntryHome, n, old
<1> QED
  BY <1>2, <1>3, <1>5, <1>6, <1>7

LEMMA CapacityFacts ==
    ASSUME NEW r \in Requests
    PROVE  WithCapacity(r) \in Powers /\ WithCapacity(r) \in Nat \ {0}
<1>1. r \in Nat /\ r <= MOST_CHUNKS
  <2>1. MOST_CHUNKS \in Nat
    BY SMT DEF MOST_CHUNKS
  <2> QED
    BY <2>1, CapacityAssumption
<1> QED
  BY <1>1, NextPowerFacts DEF WithCapacity

LEMMA InitType == Init => TypeOK
<1> SUFFICES ASSUME Init PROVE TypeOK
  OBVIOUS
<1>1. PICK r \in Requests : ExpandInit(WithCapacity(r))
  BY DEF Init
<1>2. num_chunks \in Nat \ {0} /\ chunks = AllocChunks(num_chunks)
  BY <1>1, CapacityFacts DEF ExpandInit
<1>3. chunks \in [0 .. num_chunks - 1 -> [Slots -> Slot]]
  BY <1>2, AllocFacts
<1> QED
  BY <1>1, <1>2, <1>3, NoEntriesType DEF Init, ExpandInit, TypeOK, NoResult

(* The numbers a try of emplace starts from. *)
LEMMA ProbeTyped ==
    ASSUME TypeOK
    PROVE  /\ pos \in Nat /\ collision_batch \in Nat \ {0}
           /\ row \in Keys /\ rows \in Seq(Keys)
  BY DEF TypeOK

(* One try of emplace, whatever key_cmp accepts. *)
LEMMA ProbeTypes ==
    ASSUME TypeOK, NEW M, FoundIn(M) \/ InsertUnless(M) \/ NextUnless(M)
    PROVE  TypeOK'
<1> USE DEF tableVars, rehashVars
<1>1. num_chunks \in Nat \ {0} /\ chunks \in [0 .. num_chunks - 1 -> [Slots -> Slot]]
  BY DEF TypeOK
<1>2. CASE FoundIn(M)
  <2>1. PICK s \in Slots : result' = [value |-> chunks[pos][s].value, is_new |-> FALSE]
    BY <1>2 DEF FoundIn
  <2>2. chunks[pos][s].value \in Nat
    BY <1>1, <1>2 DEF FoundIn, TypeOK, Slot
  <2> QED
    BY <1>2, <2>1, <2>2 DEF FoundIn, TypeOK
<1>3. CASE InsertUnless(M)
  <2>1. PICK s \in MatchEmpty(chunks[pos]) :
          chunks' = Fill(chunks, pos, s, HashOf[row], Len(rows) + 1)
    BY <1>3 DEF InsertUnless, IsLowest
  <2>2. pos \in 0 .. num_chunks - 1 /\ HashOf[row] \in Nat /\ Len(rows) + 1 \in Nat
    BY <1>3 DEF InsertUnless, TypeOK
  <2>3. chunks' \in [0 .. num_chunks - 1 -> [Slots -> Slot]]
    BY <1>1, <2>1, <2>2, FillFacts DEF AddedAt
  <2>4. Append(rows, row) \in Seq(Keys)
    BY DEF TypeOK
  <2> QED
    BY <1>3, <2>2, <2>3, <2>4, SMTT(20) DEF InsertUnless, TypeOK
<1>4. CASE NextUnless(M)
  <2>1. pos + collision_batch \in Nat
    BY DEF TypeOK
  <2>2. RehashPos(num_chunks, collision_batch, pos) \in 0 .. num_chunks - 1
    BY <1>1, <2>1, ModRange DEF RehashPos
  <2>3. /\ pos' \in Nat /\ (pc' = "probe" => pos' < num_chunks')
        /\ collision_batch' \in Nat \ {0}
    BY <1>1, <1>4, <2>2, ProbeTyped DEF NextUnless
  <2> QED
    BY <1>4, <2>3 DEF NextUnless, TypeOK
<1> QED
  BY <1>2, <1>3, <1>4

LEMMA NextType == TypeOK /\ [Next]_vars => TypeOK'
<1> SUFFICES ASSUME TypeOK, [Next]_vars PROVE TypeOK'
  OBVIOUS
<1> USE DEF tableVars, rehashVars, emplaceVars
<1>n. num_chunks \in Nat \ {0} /\ chunks \in [0 .. num_chunks - 1 -> [Slots -> Slot]]
  BY DEF TypeOK
<1>1. ASSUME NEW k \in Keys, Emplace(k) PROVE TypeOK'
  <2>1. CASE StartExpand("locate")
    BY <1>1, <2>1, StartExpandType DEF Emplace, TypeOK
  <2>2. CASE /\ pc' = "locate" /\ UNCHANGED <<tableVars, rehashVars>>
    BY <1>1, <2>2 DEF Emplace, TypeOK
  <2> QED
    BY <1>1, <2>1, <2>2 DEF Emplace
<1>2. CASE Locate
  <2>1. HashOf[row] \in Nat
    BY DEF TypeOK
  <2>2. ChunkPos(num_chunks, HashOf[row]) \in 0 .. num_chunks - 1
    BY <1>n, <2>1, ModRange DEF ChunkPos
  <2> QED
    BY <1>2, <2>2 DEF Locate, TypeOK
<1>3. CASE ProbeFound \/ ProbeInsert \/ ProbeNext
  BY <1>3, ProbeTypes DEF ProbeFound, ProbeInsert, ProbeNext
<1>4. CASE RehashPlace /\ UNCHANGED emplaceVars
  <2>1. PICK l \in todo :
          /\ \E s \in Slots :
               /\ IsLowest(s, MatchEmpty(chunks[positions[l]]))
               /\ chunks' = Fill(chunks, positions[l], s, entries[l].key, entries[l].value)
          /\ todo' = todo \ {l}
    BY <1>4 DEF RehashPlace
  <2>2. PICK s \in MatchEmpty(chunks[positions[l]]) :
          chunks' = Fill(chunks, positions[l], s, entries[l].key, entries[l].value)
    BY <2>1 DEF IsLowest
  <2>3. positions[l] \in 0 .. num_chunks - 1 /\ entries[l] \in Slot
    BY DEF TypeOK
  <2>4. entries[l].key \in Nat /\ entries[l].value \in Nat
    BY <2>3 DEF Slot
  <2>5. chunks' \in [0 .. num_chunks - 1 -> [Slots -> Slot]]
    BY <1>n, <2>2, <2>3, <2>4, FillFacts DEF AddedAt
  <2>6. /\ size' = size + 1
        /\ UNCHANGED <<num_chunks, entries, positions, collided, rehash_batch, pc, after>>
        /\ UNCHANGED <<rows, row, pos, collision_batch, result>>
    BY <1>4 DEF RehashPlace
  <2>7. todo' \cup collided' \subseteq DOMAIN entries'
    BY <2>1, <2>6 DEF TypeOK
  <2> QED
    BY <2>5, <2>6, <2>7, SMTT(20) DEF TypeOK
<1>5. CASE RehashCollide /\ UNCHANGED emplaceVars
  <2>1. PICK l \in todo :
          /\ positions' = [positions EXCEPT ![l] = RehashPos(num_chunks, rehash_batch, positions[l])]
          /\ collided' = collided \cup {l}
          /\ todo' = todo \ {l}
    BY <1>5 DEF RehashCollide
  <2>2. positions[l] + rehash_batch \in Nat
    BY DEF TypeOK
  <2>3. RehashPos(num_chunks, rehash_batch, positions[l]) \in 0 .. num_chunks - 1
    BY <1>n, <2>2, ModRange DEF RehashPos
  <2>4. positions' \in [DOMAIN entries -> 0 .. num_chunks - 1]
    BY <2>1, <2>3 DEF TypeOK
  <2> QED
    BY <1>5, <2>1, <2>4 DEF RehashCollide, TypeOK
<1>6. CASE RehashRound /\ UNCHANGED emplaceVars
  BY <1>6 DEF RehashRound, TypeOK
<1>7. CASE RehashDone /\ UNCHANGED emplaceVars
  BY <1>7, NoEntriesType DEF RehashDone, TypeOK
<1>8. CASE UNCHANGED vars
  BY <1>8 DEF vars, TypeOK
<1> QED
  BY <1>1, <1>2, <1>3, <1>4, <1>5, <1>6, <1>7, <1>8
     DEF Next, Step, ExpandStep, EmplaceStep

(***************************************************************************)
(* The positions every step computes are positions of the table of that     *)
(* moment, and the locals of emplace and expand keep their ranges.          *)
(***************************************************************************)
THEOREM TypeCorrect == Spec => []TypeOK
<1>1. Init => TypeOK
  BY InitType
<1>2. TypeOK /\ [Next]_vars => TypeOK'
  BY NextType
<1> QED
  BY <1>1, <1>2, PTL DEF Spec

-----------------------------------------------------------------------------
(***************************************************************************)
(* The inductive invariant behind OneGroupPerKey.  The property alone is    *)
(* not inductive: that an insertion finds no group of its key anywhere in   *)
(* the table follows only from where the slots in use can be.               *)
(***************************************************************************)

(* c is the k-th chunk h is tried at, and the chunks before it are full. *)
OnPath(C, n, h, c, k) == c = Probe(n, h, k) /\ FullBefore(C, n, h, k)

Placed ==
    \A l \in Occupied(chunks) :
        \E k \in Nat : OnPath(chunks, num_chunks, At(chunks, l).key, l[1], k)

TagsRight ==
    \A l \in Occupied(chunks) : At(chunks, l).tag = TagHash(At(chunks, l).key)

(* x is the slot of a stored row, under the hash of that row's key. *)
OfRow(R, x) == x.value \in DOMAIN R /\ x.key = HashOf[R[x.value]]
RowsRight ==
    /\ \A l \in Occupied(chunks) : OfRow(rows, At(chunks, l))
    /\ \A l \in Pending : OfRow(rows, entries[l])

NoneLost ==
    \A v \in DOMAIN rows :
        \/ \E l \in Occupied(chunks) : At(chunks, l).value = v
        \/ \E l \in Pending : entries[l].value = v

NoneTwice ==
    /\ \A l, m \in Occupied(chunks) :
          At(chunks, l).value = At(chunks, m).value => l = m
    /\ \A l, m \in Pending : entries[l].value = entries[m].value => l = m
    /\ \A l \in Occupied(chunks), m \in Pending : At(chunks, l).value # entries[m].value

KeysDistinct == \A i, j \in DOMAIN rows : rows[i] = rows[j] => i = j

(* Each pending entry waits at the chunk its number of tries leads to. *)
RehashRight ==
    /\ todo \cap collided = {}
    /\ pc # "rehash" => Pending = {}
    /\ \A l \in todo :
          OnPath(chunks, num_chunks, entries[l].key, positions[l], rehash_batch - 1)
    /\ \A l \in collided :
          OnPath(chunks, num_chunks, entries[l].key, positions[l], rehash_batch)

(* emplace has looked at every chunk before the current one, in vain. *)
ScanRight ==
    pc = "probe" =>
        /\ OnPath(chunks, num_chunks, HashOf[row], pos, collision_batch - 1)
        /\ \A j \in 0 .. collision_batch - 2 :
              KeyMatches(chunks[Probe(num_chunks, HashOf[row], j)], row) = {}

IInv ==
    /\ Placed /\ TagsRight /\ RowsRight /\ NoneLost /\ NoneTwice
    /\ KeysDistinct /\ RehashRight /\ ScanRight

(* A path stays a path when full chunks stay as they are. *)
LEMMA PathKept ==
    ASSUME NEW n \in Nat \ {0}, NEW C, NEW D,
           \A i \in 0 .. n - 1 : IsFull(C[i]) => D[i] = C[i],
           NEW h \in Nat, NEW c, NEW k \in Nat, OnPath(C, n, h, c, k)
    PROVE  OnPath(D, n, h, c, k)
<1>1. ASSUME NEW j \in 0 .. k - 1 PROVE IsFull(D[Probe(n, h, j)])
  <2>1. j \in Nat /\ IsFull(C[Probe(n, h, j)])
    BY <1>1 DEF OnPath, FullBefore
  <2>2. Probe(n, h, j) \in 0 .. n - 1
    BY <2>1, ProbeStep
  <2> QED
    BY <2>1, <2>2
<1> QED
  BY <1>1 DEF OnPath, FullBefore

(* A path is extended past a full chunk by RehashPos. *)
LEMMA PathNext ==
    ASSUME NEW n \in Nat \ {0}, NEW C, NEW h \in Nat, NEW c, NEW k \in Nat,
           OnPath(C, n, h, c, k), IsFull(C[c])
    PROVE  OnPath(C, n, h, RehashPos(n, k + 1, c), k + 1)
<1>1. RehashPos(n, k + 1, c) = Probe(n, h, k + 1)
  BY ProbeStep DEF OnPath
<1>2. \A j \in 0 .. (k + 1) - 1 : j = k \/ j \in 0 .. k - 1
  OBVIOUS
<1> QED
  BY <1>1, <1>2 DEF OnPath, FullBefore

LEMMA PathStart ==
    ASSUME NEW n \in Nat \ {0}, NEW C, NEW h \in Nat
    PROVE  OnPath(C, n, h, ChunkPos(n, h), 0)
BY ProbeStart DEF OnPath, FullBefore

LEMMA MatchTagSelf ==
    ASSUME NEW C, NEW l \in Occupied(C), At(C, l).tag = TagHash(At(C, l).key)
    PROVE  l[2] \in HashMatches(C[l[1]], At(C, l).key)
BY DEF Occupied, At, HashMatches, MatchTag

(* Every pending entry and every used slot has a key and a value in Nat. *)
LEMMA HeldTypes ==
    ASSUME TypeOK
    PROVE  /\ num_chunks \in Nat \ {0}
           /\ chunks \in [0 .. num_chunks - 1 -> [Slots -> Slot]]
           /\ \A l \in Occupied(chunks) :
                 /\ l[1] \in 0 .. num_chunks - 1 /\ l[2] \in Slots
                 /\ At(chunks, l).key \in Nat /\ At(chunks, l).value \in Nat
           /\ \A l \in Pending :
                 /\ entries[l].key \in Nat /\ entries[l].value \in Nat
                 /\ positions[l] \in 0 .. num_chunks - 1
<1>1. num_chunks \in Nat \ {0} /\ chunks \in [0 .. num_chunks - 1 -> [Slots -> Slot]]
  BY DEF TypeOK
<1>2. \A l \in Occupied(chunks) : l[1] \in 0 .. num_chunks - 1 /\ l[2] \in Slots
  BY <1>1 DEF Occupied
<1>3. \A l \in Occupied(chunks) : At(chunks, l) \in Slot
  BY <1>1, <1>2 DEF At
<1>4. \A l \in Pending : entries[l] \in Slot /\ positions[l] \in 0 .. num_chunks - 1
  BY DEF TypeOK, Pending
<1> QED
  BY <1>1, <1>2, <1>3, <1>4 DEF Slot

-----------------------------------------------------------------------------
(***************************************************************************)
(* The part of it that also holds in a table that is made anew while rows   *)
(* are stored, or that gets a key twice.                                    *)
(***************************************************************************)
RowsInv == RowsRight /\ (pc # "rehash" => Pending = {})

(* What a match of tag and hash names is a stored row with that hash. *)
LEMMA HitRight ==
    ASSUME TypeOK, RowsRight, NEW p \in 0 .. num_chunks - 1, NEW h \in Nat,
           NEW s \in HashMatches(chunks[p], h)
    PROVE  /\ chunks[p][s].value \in Nat /\ chunks[p][s].value \in DOMAIN rows
           /\ HashOf[rows[chunks[p][s].value]] = h
<1> DEFINE l == <<p, s>>
<1>1. s \in Slots /\ chunks[p][s].tag # EMPTY_TAG /\ chunks[p][s].key = h
  BY MatchInUse DEF HashMatches
<1>2. DOMAIN chunks = 0 .. num_chunks - 1
  BY HeldTypes
<1>3. l \in Occupied(chunks) /\ At(chunks, l) = chunks[p][s]
  BY <1>1, <1>2 DEF Occupied, At
<1>4. OfRow(rows, At(chunks, l)) /\ At(chunks, l).value \in Nat
  BY <1>3, HeldTypes DEF RowsRight
<1> QED
  BY <1>1, <1>3, <1>4 DEF OfRow

LEMMA StartKeepsRows ==
    ASSUME TypeOK, RowsRight, NEW return, StartExpand(return), rows' = rows
    PROVE  RowsRight'
<1>1. num_chunks \in Nat \ {0} /\ 2 * num_chunks \in Nat \ {0}
  BY DEF TypeOK
<1>2. Occupied(chunks') = {}
  BY <1>1, AllocFacts DEF StartExpand
<1>3. /\ Pending' = Occupied(chunks)
      /\ \A l \in Occupied(chunks) : entries'[l] = At(chunks, l)
  BY DEF StartExpand, Pending
<1> QED
  BY <1>2, <1>3 DEF RowsRight

(* A rehash moves the slots of rows and changes none. *)
LEMMA ExpandKeepsRows ==
    ASSUME TypeOK, RowsRight, ExpandStep, rows' = rows
    PROVE  RowsRight'
<1>1. CASE RehashPlace
  <2>1. PICK p \in todo :
          /\ \E s \in Slots :
               /\ IsLowest(s, MatchEmpty(chunks[positions[p]]))
               /\ chunks' = Fill(chunks, positions[p], s, entries[p].key, entries[p].value)
          /\ todo' = todo \ {p}
    BY <1>1 DEF RehashPlace
  <2> DEFINE h == entries[p].key
             v == entries[p].value
             c == positions[p]
  <2>2. PICK s \in MatchEmpty(chunks[c]) : chunks' = Fill(chunks, c, s, h, v)
    BY <2>1 DEF IsLowest
  <2>3. /\ c \in 0 .. num_chunks - 1 /\ h \in Nat /\ v \in Nat /\ num_chunks \in Nat \ {0}
        /\ chunks \in [0 .. num_chunks - 1 -> [Slots -> Slot]] /\ p \in Pending
    BY HeldTypes DEF Pending
  <2> DEFINE x == [tag |-> TagHash(h), key |-> h, value |-> v]
  <2>4. AddedAt(num_chunks, chunks, chunks', <<c, s>>, x)
    <3> HIDE DEF h, v, c
    <3> QED
      BY <2>2, <2>3, FillFacts
  <2>5. OfRow(rows, x)
    BY <2>3 DEF RowsRight, OfRow
  <2>6. Pending' \subseteq Pending /\ entries' = entries
    BY <1>1, <2>1 DEF RehashPlace, Pending
  <2> HIDE DEF x, c
  <2> QED
    BY <2>4, <2>5, <2>6 DEF AddedAt, RowsRight
<1>2. CASE RehashCollide
  BY <1>2 DEF RehashCollide, tableVars, RowsRight, Pending
<1>3. CASE RehashRound
  BY <1>3 DEF RehashRound, tableVars, RowsRight, Pending
<1>4. CASE RehashDone
  BY <1>4 DEF RehashDone, tableVars, RowsRight, Pending
<1> QED
  BY <1>1, <1>2, <1>3, <1>4 DEF ExpandStep

(* A slot is taken for a new row. *)
LEMMA InsertKeepsRows ==
    ASSUME TypeOK, RowsRight, NEW key \in Keys, rows' = Append(rows, key),
           NEW c \in 0 .. num_chunks - 1, NEW s \in MatchEmpty(chunks[c]),
           chunks' = Fill(chunks, c, s, HashOf[key], Len(rows) + 1),
           UNCHANGED <<todo, collided, entries>>
    PROVE  /\ RowsRight'
           /\ AddedAt(num_chunks, chunks, chunks', <<c, s>>,
                      [tag |-> TagHash(HashOf[key]), key |-> HashOf[key], value |-> Len(rows) + 1])
           /\ rows' \in Seq(Keys) /\ Len(rows') = Len(rows) + 1
           /\ DOMAIN rows' = 1 .. Len(rows) + 1 /\ rows'[Len(rows) + 1] = key
           /\ \A i \in DOMAIN rows : i \in DOMAIN rows' /\ rows'[i] = rows[i]
<1> DEFINE h == HashOf[key]
           v == Len(rows) + 1
           x == [tag |-> TagHash(h), key |-> h, value |-> v]
<1>1. /\ rows \in Seq(Keys) /\ Len(rows) \in Nat /\ DOMAIN rows = 1 .. Len(rows)
      /\ num_chunks \in Nat \ {0} /\ v \in Nat /\ h \in Nat
      /\ chunks \in [0 .. num_chunks - 1 -> [Slots -> Slot]]
  BY DEF TypeOK
<1>2. /\ rows' \in Seq(Keys) /\ Len(rows') = v /\ DOMAIN rows' = 1 .. v /\ rows'[v] = key
      /\ v \in DOMAIN rows'
      /\ \A i \in DOMAIN rows : i \in DOMAIN rows' /\ rows'[i] = rows[i]
  BY <1>1
<1> HIDE DEF v
<1>3. AddedAt(num_chunks, chunks, chunks', <<c, s>>, x)
  <2>1. chunks' = Fill(chunks, c, s, h, v)
    BY DEF v
  <2>2. h \in Nat /\ v \in Nat
    BY <1>1
  <2> HIDE DEF h
  <2>3. AddedAt(num_chunks, chunks, chunks', <<c, s>>,
                [tag |-> TagHash(h), key |-> h, value |-> v])
    BY ONLY <1>1, <2>1, <2>2, FillFacts, c \in 0 .. num_chunks - 1, s \in MatchEmpty(chunks[c])
  <2> QED
    BY <2>3
<1>4. RowsRight'
  <2>1. x.value = v /\ x.key = h
    OBVIOUS
  <2> HIDE DEF x
  <2>2. OfRow(rows', x)
    BY <1>2, <2>1 DEF OfRow
  <2>3. ASSUME NEW y, OfRow(rows, y) PROVE OfRow(rows', y)
    BY <1>2, <2>3 DEF OfRow
  <2>4. Pending' = Pending /\ entries' = entries
    BY DEF Pending
  <2>5. \A l \in Occupied(chunks') : OfRow(rows', At(chunks', l))
    BY <1>3, <2>2, <2>3 DEF AddedAt, RowsRight
  <2> QED
    BY <2>3, <2>4, <2>5 DEF RowsRight
<1> QED
  BY <1>2, <1>3, <1>4 DEF v

(* One try of emplace, whatever key_cmp accepts. *)
LEMMA ProbeRowsInv ==
    ASSUME TypeOK, RowsInv, NEW M, FoundIn(M) \/ InsertUnless(M) \/ NextUnless(M)
    PROVE  RowsInv'
<1> USE DEF tableVars, rehashVars
<1>1. CASE FoundIn(M) \/ NextUnless(M)
  BY <1>1 DEF FoundIn, NextUnless, RowsInv, RowsRight, Pending
<1>2. CASE InsertUnless(M)
  <2>1. PICK s \in MatchEmpty(chunks[pos]) :
          chunks' = Fill(chunks, pos, s, HashOf[row], Len(rows) + 1)
    BY <1>2 DEF InsertUnless, IsLowest
  <2>2. pos \in 0 .. num_chunks - 1 /\ row \in Keys
    BY <1>2 DEF InsertUnless, TypeOK
  <2>3. rows' = Append(rows, row) /\ UNCHANGED <<todo, collided, entries>>
    BY <1>2 DEF InsertUnless
  <2>4. RowsRight'
    BY <2>1, <2>2, <2>3, InsertKeepsRows DEF RowsInv
  <2>5. Pending' = {}
    BY <1>2, <2>3 DEF InsertUnless, RowsInv, Pending
  <2> QED
    BY <2>4, <2>5 DEF RowsInv
<1> QED
  BY <1>1, <1>2

LEMMA EmplaceRowsInv ==
    ASSUME TypeOK, RowsInv, NEW k, Emplace(k)
    PROVE  RowsInv'
<1>1. CASE StartExpand("locate")
  <2>1. rows' = rows /\ pc' = "rehash"
    BY <1>1 DEF Emplace, StartExpand
  <2> QED
    BY <1>1, <2>1, StartKeepsRows DEF RowsInv
<1>2. CASE pc' = "locate" /\ UNCHANGED <<tableVars, rehashVars>>
  BY <1>2 DEF Emplace, tableVars, rehashVars, RowsInv, RowsRight, Pending
<1> QED
  BY <1>1, <1>2 DEF Emplace

LEMMA ExpandRowsInv ==
    ASSUME TypeOK, RowsInv, ExpandStep, rows' = rows
    PROVE  RowsInv'
<1>1. RowsRight'
  BY ExpandKeepsRows DEF RowsInv
<1>2. pc = "rehash" /\ (pc' # "rehash" => Pending' = {})
  BY DEF ExpandStep, RehashPlace, RehashCollide, RehashRound, RehashDone, Pending
<1> QED
  BY <1>1, <1>2 DEF RowsInv

LEMMA SameRowsInv ==
    ASSUME RowsInv, UNCHANGED <<chunks, rows, todo, collided, entries, pc>>
    PROVE  RowsInv'
BY DEF RowsInv, RowsRight, Pending

LEMMA NextRowsInv == TypeOK /\ RowsInv /\ [Next]_vars => RowsInv'
<1> SUFFICES ASSUME TypeOK, RowsInv, [Next]_vars PROVE RowsInv'
  OBVIOUS
<1>1. ASSUME NEW k \in Keys, Emplace(k) PROVE RowsInv'
  BY <1>1, EmplaceRowsInv
<1>2. CASE Locate
  BY <1>2, SameRowsInv DEF Locate, tableVars, rehashVars, RowsInv, RowsRight, Pending
<1>3. CASE ProbeFound \/ ProbeInsert \/ ProbeNext
  BY <1>3, ProbeRowsInv DEF ProbeFound, ProbeInsert, ProbeNext
<1>4. CASE ExpandStep /\ UNCHANGED emplaceVars
  BY <1>4, ExpandRowsInv DEF emplaceVars
<1>5. CASE UNCHANGED vars
  BY <1>5, SameRowsInv DEF vars, tableVars, rehashVars, emplaceVars
<1> QED
  BY <1>1, <1>2, <1>3, <1>4, <1>5 DEF Next, Step, EmplaceStep

LEMMA InitIInv == Init => IInv
<1> SUFFICES ASSUME Init PROVE IInv
  OBVIOUS
<1>1. num_chunks \in Nat \ {0} /\ chunks = AllocChunks(num_chunks)
  BY InitType DEF Init, ExpandInit, TypeOK
<1>2. Occupied(chunks) = {} /\ Pending = {} /\ rows = <<>> /\ pc = "idle"
  BY <1>1, AllocFacts DEF Init, ExpandInit, Pending
<1>3. DOMAIN rows = {}
  BY <1>2
<1> QED
  BY <1>2, <1>3 DEF IInv, Placed, TagsRight, RowsRight, NoneLost, NoneTwice,
     KeysDistinct, RehashRight, ScanRight, Pending

(* expand takes every group out of the table and leaves it pending. *)
LEMMA StartExpandIInv ==
    ASSUME TypeOK, IInv, Pending = {}, NEW return, StartExpand(return), rows' = rows
    PROVE  IInv'
<1> USE DEF tableVars, rehashVars
<1> DEFINE n == 2 * num_chunks
           old == Occupied(chunks)
<1>1. n \in Nat \ {0} /\ num_chunks' = n /\ chunks' = AllocChunks(n)
  BY HeldTypes DEF StartExpand
<1>2. /\ entries' = [l \in old |-> At(chunks, l)]
      /\ positions' = [l \in old |-> ChunkPos(n, At(chunks, l).key)]
      /\ todo' = old /\ collided' = {} /\ rehash_batch' = 1 /\ pc' = "rehash"
  BY DEF StartExpand, EntryHome
<1>3. Occupied(chunks') = {} /\ Pending' = old
  BY <1>1, <1>2, AllocFacts DEF Pending
<1>4. \A l \in old : At(chunks, l).key \in Nat
  BY HeldTypes
<1>5. \A l \in old : OnPath(chunks', n, At(chunks, l).key, ChunkPos(n, At(chunks, l).key), 0)
  BY <1>1, <1>4, PathStart
<1> HIDE DEF n, old
<1>6. \A l \in old : entries'[l] = At(chunks, l)
                     /\ positions'[l] = ChunkPos(n, At(chunks, l).key)
  BY <1>2
<1>7. Placed' /\ TagsRight'
  BY <1>3 DEF Placed, TagsRight
<1>8. RowsRight'
  BY <1>3, <1>6 DEF RowsRight, IInv, OfRow, old
<1>9. NoneLost'
  BY <1>3, <1>6 DEF NoneLost, IInv, old
<1>10. NoneTwice'
  BY <1>3, <1>6 DEF NoneTwice, IInv, old
<1>11. KeysDistinct'
  BY DEF KeysDistinct, IInv
<1>12. RehashRight'
  BY <1>1, <1>2, <1>5, <1>6 DEF RehashRight
<1>13. ScanRight'
  BY <1>2 DEF ScanRight
<1> QED
  BY <1>7, <1>8, <1>9, <1>10, <1>11, <1>12, <1>13 DEF IInv

LEMMA EmplaceIInv ==
    ASSUME TypeOK, IInv, NEW k \in Keys, Emplace(k)
    PROVE  IInv'
<1> USE DEF tableVars, rehashVars
<1>p. pc = "idle" /\ Pending = {} /\ rows' = rows
  BY DEF Emplace, IInv, RehashRight
<1>1. CASE StartExpand("locate")
  BY <1>1, <1>p, StartExpandIInv
<1>2. CASE pc' = "locate" /\ UNCHANGED <<tableVars, rehashVars>>
  <2>1. Placed' /\ TagsRight' /\ RowsRight' /\ NoneLost' /\ NoneTwice' /\ KeysDistinct'
    BY <1>2, <1>p DEF IInv, Placed, TagsRight, RowsRight, NoneLost, NoneTwice,
       KeysDistinct, Pending, OfRow
  <2>2. RehashRight' /\ ScanRight'
    BY <1>2, <1>p DEF IInv, RehashRight, ScanRight, Pending
  <2> QED
    BY <2>1, <2>2 DEF IInv
<1> QED
  BY <1>1, <1>2 DEF Emplace

(* The scan starts with nothing behind it. *)
LEMMA LocateIInv ==
    ASSUME TypeOK, IInv, Locate
    PROVE  IInv'
<1> USE DEF tableVars, rehashVars
<1>1. Placed' /\ TagsRight' /\ RowsRight' /\ NoneLost' /\ NoneTwice' /\ KeysDistinct'
  BY DEF Locate, IInv, Placed, TagsRight, RowsRight, NoneLost, NoneTwice,
     KeysDistinct, Pending, OfRow
<1>2. RehashRight'
  BY DEF Locate, IInv, RehashRight, Pending
<1>3. HashOf[row] \in Nat
  BY DEF TypeOK
<1>4. OnPath(chunks, num_chunks, HashOf[row], ChunkPos(num_chunks, HashOf[row]), 0)
  BY <1>3, HeldTypes, PathStart
<1>5. ScanRight'
  BY <1>4 DEF Locate, ScanRight
<1> QED
  BY <1>1, <1>2, <1>5 DEF IInv

LEMMA ProbeFoundIInv ==
    ASSUME TypeOK, IInv, ProbeFound
    PROVE  IInv'
BY DEF ProbeFound, FoundIn, tableVars, rehashVars, IInv, Placed, TagsRight, RowsRight, NoneLost,
   NoneTwice, KeysDistinct, RehashRight, ScanRight, Pending, OfRow

LEMMA ProbeNextIInv ==
    ASSUME TypeOK, IInv, ProbeNext
    PROVE  IInv'
<1> USE DEF tableVars, rehashVars
<1>1. Placed' /\ TagsRight' /\ RowsRight' /\ NoneLost' /\ NoneTwice' /\ KeysDistinct'
  BY DEF ProbeNext, NextUnless, IInv, Placed, TagsRight, RowsRight, NoneLost, NoneTwice,
     KeysDistinct, Pending, OfRow
<1>2. RehashRight'
  BY DEF ProbeNext, NextUnless, IInv, RehashRight, Pending
<1> DEFINE h == HashOf[row]
           k == collision_batch - 1
<1>3. /\ h \in Nat /\ k \in Nat
      /\ k + 1 = collision_batch /\ k - 1 = collision_batch - 2
  BY ProbeTyped
<1>4. OnPath(chunks, num_chunks, h, pos, k)
  BY DEF IInv, ScanRight, ProbeNext, NextUnless
<1>5. \A j \in 0 .. k - 1 : KeyMatches(chunks[Probe(num_chunks, h, j)], row) = {}
  BY <1>3 DEF IInv, ScanRight, ProbeNext, NextUnless
<1>6. pos = Probe(num_chunks, h, k)
  BY <1>4 DEF OnPath
<1> HIDE DEF h, k
<1>7. OnPath(chunks, num_chunks, h, RehashPos(num_chunks, k + 1, pos), k + 1)
  BY <1>3, <1>4, HeldTypes, PathNext DEF ProbeNext, NextUnless
<1>8. \A j \in 0 .. k : KeyMatches(chunks[Probe(num_chunks, h, j)], row) = {}
  <2>1. \A j \in 0 .. k : j = k \/ j \in 0 .. k - 1
    BY <1>3
  <2> QED
    BY <1>5, <1>6, <2>1 DEF ProbeNext, NextUnless
<1>9. /\ chunks' = chunks /\ num_chunks' = num_chunks /\ row' = row /\ rows' = rows
      /\ pos' = RehashPos(num_chunks, k + 1, pos) /\ collision_batch' = k + 2
  BY <1>3 DEF ProbeNext, NextUnless
<1>10. collision_batch' - 1 = k + 1 /\ collision_batch' - 2 = k
  BY <1>3, <1>9
<1>11. ScanRight'
  BY <1>7, <1>8, <1>9, <1>10 DEF ScanRight, h, KeyMatches
<1> QED
  BY <1>1, <1>2, <1>11 DEF IInv

(***************************************************************************)
(* A scan that ends at a chunk with room and without a match has seen every *)
(* chunk the key's group could be in.                                       *)
(***************************************************************************)
LEMMA PathComplete ==
    ASSUME TypeOK, IInv, Pending = {}, NEW key \in Keys, NEW c, NEW t \in Nat,
           OnPath(chunks, num_chunks, HashOf[key], c, t),
           \A j \in 0 .. t - 1 : KeyMatches(chunks[Probe(num_chunks, HashOf[key], j)], key) = {},
           KeyMatches(chunks[c], key) = {}, ~IsFull(chunks[c])
    PROVE  \A i \in DOMAIN rows : rows[i] # key
<1> SUFFICES ASSUME NEW i \in DOMAIN rows, rows[i] = key PROVE FALSE
  OBVIOUS
<1> DEFINE h == HashOf[key]
<1>1. PICK l \in Occupied(chunks) : At(chunks, l).value = i
  BY DEF IInv, NoneLost
<1>2. At(chunks, l).key = h
  BY <1>1 DEF IInv, RowsRight, OfRow
<1>3. l[2] \in HashMatches(chunks[l[1]], h)
  BY <1>2, MatchTagSelf DEF IInv, TagsRight
<1>4. l[2] \in KeyMatches(chunks[l[1]], key)
  BY <1>1, <1>3 DEF KeyMatches, At
<1>5. PICK k \in Nat : OnPath(chunks, num_chunks, h, l[1], k)
  BY <1>2 DEF IInv, Placed
<1>6. c = Probe(num_chunks, h, t)
  BY DEF OnPath
<1> HIDE DEF h
<1>7. CASE k < t
  <2>1. k \in 0 .. t - 1
    BY <1>7
  <2> QED
    BY <2>1, <1>4, <1>5 DEF OnPath, h
<1>8. CASE k = t
  BY <1>4, <1>5, <1>6, <1>8 DEF OnPath
<1>9. CASE k > t
  <2>1. t \in 0 .. k - 1
    BY <1>9
  <2> QED
    BY <2>1, <1>5, <1>6 DEF OnPath, FullBefore
<1> QED
  BY <1>7, <1>8, <1>9

LEMMA ScanComplete ==
    ASSUME TypeOK, IInv, pc = "probe", KeyMatches(chunks[pos], row) = {},
           ~IsFull(chunks[pos])
    PROVE  \A i \in DOMAIN rows : rows[i] # row
<1> DEFINE t == collision_batch - 1
<1>1. Pending = {} /\ row \in Keys
  BY DEF IInv, RehashRight, TypeOK
<1>2. t \in Nat /\ t - 1 = collision_batch - 2
  BY ProbeTyped
<1>3. /\ OnPath(chunks, num_chunks, HashOf[row], pos, t)
      /\ \A j \in 0 .. t - 1 : KeyMatches(chunks[Probe(num_chunks, HashOf[row], j)], row) = {}
  BY <1>2 DEF IInv, ScanRight
<1> HIDE DEF t
<1> QED
  BY <1>1, <1>2, <1>3, PathComplete

(***************************************************************************)
(* A new row of a key without a group, stored at the end of its path, keeps *)
(* everything the invariant says of the table and its rows.                 *)
(***************************************************************************)
LEMMA InsertIInv ==
    ASSUME TypeOK, IInv, Pending = {}, Pending' = {}, num_chunks' = num_chunks,
           NEW key \in Keys, NEW c \in 0 .. num_chunks - 1, NEW t \in Nat,
           OnPath(chunks, num_chunks, HashOf[key], c, t),
           \A i \in DOMAIN rows : rows[i] # key,
           rows' = Append(rows, key), NEW s,
           AddedAt(num_chunks, chunks, chunks', <<c, s>>,
                   [tag |-> TagHash(HashOf[key]), key |-> HashOf[key], value |-> Len(rows) + 1])
    PROVE  Placed' /\ TagsRight' /\ RowsRight' /\ NoneLost' /\ NoneTwice' /\ KeysDistinct'
<1> DEFINE h == HashOf[key]
           v == Len(rows) + 1
           n == num_chunks
<1>1. AddedAt(n, chunks, chunks', <<c, s>>, [tag |-> TagHash(h), key |-> h, value |-> v])
  OBVIOUS
<1>2. /\ c \in 0 .. n - 1 /\ h \in Nat /\ v \in Nat /\ n \in Nat \ {0}
      /\ chunks \in [0 .. n - 1 -> [Slots -> Slot]]
  <2>1. /\ c \in 0 .. n - 1 /\ n \in Nat \ {0}
        /\ chunks \in [0 .. n - 1 -> [Slots -> Slot]]
    BY DEF TypeOK
  <2> QED
    BY <2>1, ProbeTyped
<1>3. Pending = {} /\ Pending' = {} /\ n' = n
  OBVIOUS
<1>4. /\ rows' = Append(rows, key)
      /\ DOMAIN rows = 1 .. Len(rows) /\ DOMAIN rows' = 1 .. v
      /\ rows'[v] = key /\ \A i \in DOMAIN rows : rows'[i] = rows[i]
  <2>1. rows' = Append(rows, key) /\ rows \in Seq(Keys) /\ key \in Keys
    BY DEF TypeOK
  <2> QED
    BY <2>1
<1>5. \A i \in DOMAIN rows : rows[i] # key
  OBVIOUS
<1>6. OnPath(chunks, n, h, c, t)
  OBVIOUS
<1> DEFINE new == <<c, s>>
<1> HIDE DEF h, v, n
<1>7. /\ new \notin Occupied(chunks)
      /\ Occupied(chunks') = Occupied(chunks) \cup {new}
      /\ At(chunks', new) = [tag |-> TagHash(h), key |-> h, value |-> v]
      /\ \A l \in Occupied(chunks) : At(chunks', l) = At(chunks, l)
      /\ \A i \in 0 .. n - 1 : IsFull(chunks[i]) => chunks'[i] = chunks[i]
  BY <1>1 DEF AddedAt
<1>8. new[1] = c
  OBVIOUS
<1> HIDE DEF new
<1>9. Placed'
  <2>1. OnPath(chunks', n, h, c, t)
    BY <1>2, <1>6, <1>7, PathKept
  <2>2. ASSUME NEW l \in Occupied(chunks)
        PROVE  \E k \in Nat : OnPath(chunks', n, At(chunks, l).key, l[1], k)
    <3>1. PICK k \in Nat : OnPath(chunks, n, At(chunks, l).key, l[1], k)
      BY DEF IInv, Placed, n
    <3>2. At(chunks, l).key \in Nat
      BY HeldTypes
    <3>3. OnPath(chunks', n, At(chunks, l).key, l[1], k)
      BY <1>2, <1>7, <3>1, <3>2, PathKept
    <3> QED
      BY <3>3
  <2>3. \E k \in Nat : OnPath(chunks', n, At(chunks', new).key, new[1], k)
    BY <1>2, <1>7, <1>8, <2>1
  <2>4. \A l \in Occupied(chunks') :
           \E k \in Nat : OnPath(chunks', n, At(chunks', l).key, l[1], k)
    BY <1>7, <2>2, <2>3
  <2> QED
    BY <1>3, <2>4 DEF Placed, n
<1>10. TagsRight'
  BY <1>7 DEF IInv, TagsRight
<1>11. RowsRight'
  <2>1. \A l \in Occupied(chunks) : OfRow(rows, At(chunks, l))
    BY DEF IInv, RowsRight
  <2>3. \A l \in Occupied(chunks) : OfRow(rows', At(chunks', l))
    BY <1>4, <1>7, <2>1 DEF OfRow, v
  <2>4. OfRow(rows', At(chunks', new))
    BY <1>2, <1>4, <1>7 DEF OfRow, h, v
  <2> QED
    BY <1>3, <1>7, <2>3, <2>4 DEF RowsRight
<1>12. NoneLost'
  <2>1. \A i \in DOMAIN rows' : i = v \/ i \in DOMAIN rows
    BY <1>4 DEF v
  <2>2. At(chunks', new).value = v
    BY <1>7
  <2> QED
    BY <1>3, <1>7, <2>1, <2>2 DEF IInv, NoneLost
<1>13. NoneTwice'
  <2>1. \A l \in Occupied(chunks) : At(chunks', l).value \in DOMAIN rows
    BY <1>7 DEF IInv, RowsRight, OfRow
  <2>2. At(chunks', new).value = v /\ v \notin DOMAIN rows
    BY <1>2, <1>4, <1>7 DEF v
  <2> QED
    BY <1>3, <1>7, <2>1, <2>2 DEF IInv, NoneTwice
<1>14. KeysDistinct'
  <2>1. \A i \in DOMAIN rows' : i = v \/ i \in DOMAIN rows
    BY <1>4 DEF v
  <2> QED
    BY <1>4, <1>5, <2>1 DEF IInv, KeysDistinct
<1> QED
  BY <1>9, <1>10, <1>11, <1>12, <1>13, <1>14

LEMMA ProbeInsertIInv ==
    ASSUME TypeOK, IInv, ProbeInsert
    PROVE  IInv'
<1> USE DEF tableVars, rehashVars
<1> DEFINE t == collision_batch - 1
<1>1. PICK s \in MatchEmpty(chunks[pos]) :
        chunks' = Fill(chunks, pos, s, HashOf[row], Len(rows) + 1)
  BY DEF ProbeInsert, InsertUnless, IsLowest
<1>2. pos \in 0 .. num_chunks - 1 /\ row \in Keys /\ t \in Nat
  BY DEF ProbeInsert, InsertUnless, TypeOK
<1>3. /\ Pending = {} /\ Pending' = {} /\ num_chunks' = num_chunks
      /\ rows' = Append(rows, row)
  BY DEF IInv, RehashRight, ProbeInsert, InsertUnless, Pending
<1>4. \A i \in DOMAIN rows : rows[i] # row
  BY <1>1, ScanComplete DEF ProbeInsert, InsertUnless, IsFull
<1>5. OnPath(chunks, num_chunks, HashOf[row], pos, t)
  BY DEF IInv, ScanRight, ProbeInsert, InsertUnless
<1> HIDE DEF t
<1>6. AddedAt(num_chunks, chunks, chunks', <<pos, s>>,
              [tag |-> TagHash(HashOf[row]), key |-> HashOf[row], value |-> Len(rows) + 1])
  <2>1. HashOf[row] \in Nat /\ Len(rows) + 1 \in Nat
    BY <1>2 DEF TypeOK
  <2> QED
    BY <1>1, <1>2, <2>1, HeldTypes, FillFacts
<1>7. Placed' /\ TagsRight' /\ RowsRight' /\ NoneLost' /\ NoneTwice' /\ KeysDistinct'
  BY <1>2, <1>3, <1>4, <1>5, <1>6, InsertIInv
<1>8. RehashRight' /\ ScanRight'
  BY <1>3 DEF ProbeInsert, InsertUnless, IInv, RehashRight, ScanRight, Pending
<1> QED
  BY <1>7, <1>8 DEF IInv

(* A pending entry moves to the table, at the end of its path. *)
LEMMA RehashPlaceIInv ==
    ASSUME TypeOK, IInv, RehashPlace, UNCHANGED emplaceVars
    PROVE  IInv'
<1> USE DEF emplaceVars
<1>1. PICK p \in todo :
        /\ \E s \in Slots :
             /\ IsLowest(s, MatchEmpty(chunks[positions[p]]))
             /\ chunks' = Fill(chunks, positions[p], s, entries[p].key, entries[p].value)
        /\ todo' = todo \ {p}
  BY DEF RehashPlace
<1> DEFINE h == entries[p].key
           v == entries[p].value
           n == num_chunks
           c == positions[p]
<1>2. PICK s \in MatchEmpty(chunks[c]) : chunks' = Fill(chunks, c, s, h, v)
  BY <1>1 DEF IsLowest
<1>3. /\ c \in 0 .. n - 1 /\ h \in Nat /\ v \in Nat /\ n \in Nat \ {0}
      /\ chunks \in [0 .. n - 1 -> [Slots -> Slot]]
      /\ rehash_batch \in Nat /\ rehash_batch - 1 \in Nat
  <2>1. p \in Pending
    BY DEF Pending
  <2>2. c \in 0 .. n - 1 /\ h \in Nat /\ v \in Nat
    BY <2>1, HeldTypes
  <2>3. n \in Nat \ {0} /\ chunks \in [0 .. n - 1 -> [Slots -> Slot]]
    BY HeldTypes
  <2>4. rehash_batch \in Nat \ {0}
    BY DEF TypeOK
  <2>5. rehash_batch - 1 \in Nat
    BY <2>4
  <2> QED
    BY <2>2, <2>3, <2>4, <2>5
<1>4. /\ Pending' = Pending \ {p} /\ p \in Pending /\ p \notin collided
      /\ todo' = todo \ {p} /\ collided' = collided /\ n' = n
      /\ entries' = entries /\ positions' = positions /\ rehash_batch' = rehash_batch
      /\ rows' = rows /\ row' = row /\ pc' = pc /\ pc = "rehash"
  BY <1>1 DEF RehashPlace, Pending, IInv, RehashRight
<1> DEFINE new == <<c, s>>
<1>5. OnPath(chunks, n, h, c, rehash_batch - 1)
  BY DEF IInv, RehashRight
<1>6. OfRow(rows, entries[p]) /\ h = entries[p].key /\ v = entries[p].value
  BY <1>4 DEF IInv, RowsRight
<1> HIDE DEF h, v, n, c
<1>7. /\ new \notin Occupied(chunks)
      /\ Occupied(chunks') = Occupied(chunks) \cup {new}
      /\ At(chunks', new) = [tag |-> TagHash(h), key |-> h, value |-> v]
      /\ \A l \in Occupied(chunks) : At(chunks', l) = At(chunks, l)
      /\ \A i \in 0 .. n - 1 : IsFull(chunks[i]) => chunks'[i] = chunks[i]
  <2>1. AddedAt(n, chunks, Fill(chunks, c, s, h, v), new,
                [tag |-> TagHash(h), key |-> h, value |-> v])
    BY <1>3, FillFacts
  <2> QED
    BY <1>2, <2>1 DEF AddedAt
<1>8. new[1] = c
  OBVIOUS
<1> HIDE DEF new
<1>9. Placed'
  <2>1. OnPath(chunks', n, h, c, rehash_batch - 1)
    BY <1>3, <1>5, <1>7, PathKept
  <2>2. ASSUME NEW l \in Occupied(chunks)
        PROVE  \E k \in Nat : OnPath(chunks', n, At(chunks, l).key, l[1], k)
    <3>1. PICK k \in Nat : OnPath(chunks, n, At(chunks, l).key, l[1], k)
      BY DEF IInv, Placed, n
    <3>2. At(chunks, l).key \in Nat
      BY HeldTypes
    <3>3. OnPath(chunks', n, At(chunks, l).key, l[1], k)
      BY <1>3, <1>7, <3>1, <3>2, PathKept
    <3> QED
      BY <3>3
  <2>3. \E k \in Nat : OnPath(chunks', n, At(chunks', new).key, new[1], k)
    BY <1>3, <1>7, <1>8, <2>1
  <2>4. \A l \in Occupied(chunks') :
           \E k \in Nat : OnPath(chunks', n, At(chunks', l).key, l[1], k)
    BY <1>7, <2>2, <2>3
  <2> QED
    BY <1>4, <2>4 DEF Placed, n
<1>10. TagsRight'
  BY <1>7 DEF IInv, TagsRight
<1>11. RowsRight'
  <2>1. OfRow(rows, At(chunks', new))
    BY <1>6, <1>7 DEF OfRow
  <2> QED
    BY <1>4, <1>7, <2>1 DEF IInv, RowsRight
<1>12. NoneLost'
  <2>1. At(chunks', new).value = entries[p].value
    BY <1>6, <1>7
  <2> QED
    BY <1>4, <1>7, <2>1 DEF IInv, NoneLost
<1>13. NoneTwice'
  <2>1. At(chunks', new).value = entries[p].value
    BY <1>6, <1>7
  <2>2. \A l, m \in Occupied(chunks') :
           At(chunks', l).value = At(chunks', m).value => l = m
    BY <1>4, <1>7, <2>1 DEF IInv, NoneTwice
  <2>3. \A l \in Occupied(chunks'), m \in Pending \ {p} :
           At(chunks', l).value # entries[m].value
    BY <1>4, <1>7, <2>1 DEF IInv, NoneTwice
  <2> QED
    BY <1>4, <2>2, <2>3 DEF IInv, NoneTwice
<1>14. KeysDistinct'
  BY <1>4 DEF IInv, KeysDistinct
<1>15. RehashRight'
  <2>1. \A l \in todo \ {p} : OnPath(chunks', n, entries[l].key, positions[l], rehash_batch - 1)
    <3> TAKE l \in todo \ {p}
    <3>1. entries[l].key \in Nat
      BY HeldTypes DEF Pending
    <3>2. OnPath(chunks, n, entries[l].key, positions[l], rehash_batch - 1)
      BY DEF IInv, RehashRight, n
    <3> QED
      BY <1>3, <1>7, <3>1, <3>2, PathKept
  <2>2. \A l \in collided : OnPath(chunks', n, entries[l].key, positions[l], rehash_batch)
    <3> TAKE l \in collided
    <3>1. entries[l].key \in Nat
      BY HeldTypes DEF Pending
    <3>2. OnPath(chunks, n, entries[l].key, positions[l], rehash_batch)
      BY DEF IInv, RehashRight, n
    <3> QED
      BY <1>3, <1>7, <3>1, <3>2, PathKept
  <2> QED
    BY <1>4, <2>1, <2>2 DEF IInv, RehashRight, n
<1>16. ScanRight'
  BY <1>4 DEF ScanRight
<1> QED
  BY <1>9, <1>10, <1>11, <1>12, <1>13, <1>14, <1>15, <1>16 DEF IInv

(* A pending entry finds its chunk full and moves on along its path. *)
LEMMA RehashCollideIInv ==
    ASSUME TypeOK, IInv, RehashCollide, UNCHANGED emplaceVars
    PROVE  IInv'
<1> USE DEF emplaceVars, tableVars
<1>1. PICK p \in todo :
        /\ IsFull(chunks[positions[p]])
        /\ positions' = [positions EXCEPT ![p] = RehashPos(num_chunks, rehash_batch, positions[p])]
        /\ collided' = collided \cup {p}
        /\ todo' = todo \ {p}
  BY DEF RehashCollide
<1>2. /\ Pending' = Pending /\ p \in Pending /\ p \notin collided
      /\ num_chunks' = num_chunks /\ chunks' = chunks
      /\ entries' = entries /\ rehash_batch' = rehash_batch
      /\ rows' = rows /\ row' = row /\ pc' = pc /\ pc = "rehash"
  BY <1>1 DEF RehashCollide, Pending, IInv, RehashRight
<1>3. Placed' /\ TagsRight' /\ RowsRight' /\ NoneLost' /\ NoneTwice' /\ KeysDistinct'
  BY <1>2 DEF IInv, Placed, TagsRight, RowsRight, NoneLost, NoneTwice, KeysDistinct
<1>4. /\ entries[p].key \in Nat /\ num_chunks \in Nat \ {0}
      /\ rehash_batch - 1 \in Nat /\ (rehash_batch - 1) + 1 = rehash_batch
  <2>1. num_chunks \in Nat \ {0} /\ rehash_batch \in Nat \ {0}
    BY DEF TypeOK
  <2>2. rehash_batch - 1 \in Nat /\ (rehash_batch - 1) + 1 = rehash_batch
    BY <2>1
  <2>3. entries[p].key \in Nat
    BY <1>2, HeldTypes
  <2> QED
    BY <2>1, <2>2, <2>3
<1>5. OnPath(chunks, num_chunks, entries[p].key, positions[p], rehash_batch - 1)
  BY DEF IInv, RehashRight
<1>6. OnPath(chunks, num_chunks, entries[p].key,
             RehashPos(num_chunks, rehash_batch, positions[p]), rehash_batch)
  <2>1. OnPath(chunks, num_chunks, entries[p].key,
               RehashPos(num_chunks, (rehash_batch - 1) + 1, positions[p]),
               (rehash_batch - 1) + 1)
    BY <1>1, <1>4, <1>5, PathNext
  <2> QED
    BY <1>4, <2>1
<1>7. \A l \in Pending : l \in DOMAIN positions
  BY DEF TypeOK, Pending
<1>8. RehashRight'
  <2>1. \A l \in Pending \ {p} : positions'[l] = positions[l]
    BY <1>1, <1>7
  <2>2. positions'[p] = RehashPos(num_chunks, rehash_batch, positions[p])
    BY <1>1, <1>2, <1>7
  <2>3. \A l \in todo' : l \in todo /\ l \in Pending \ {p}
    BY <1>1 DEF Pending
  <2>4. \A l \in collided' : l = p \/ (l \in collided /\ l \in Pending \ {p})
    BY <1>1, <1>2 DEF Pending
  <2>5. \A l \in todo' :
           OnPath(chunks, num_chunks, entries[l].key, positions'[l], rehash_batch - 1)
    BY <2>1, <2>3 DEF IInv, RehashRight
  <2>6. \A l \in collided' :
           OnPath(chunks, num_chunks, entries[l].key, positions'[l], rehash_batch)
    BY <1>6, <2>1, <2>2, <2>4 DEF IInv, RehashRight
  <2>7. todo' \cap collided' = {}
    BY <1>1 DEF IInv, RehashRight
  <2> QED
    BY <1>2, <2>5, <2>6, <2>7 DEF RehashRight
<1>9. ScanRight'
  BY <1>2 DEF ScanRight
<1> QED
  BY <1>3, <1>8, <1>9 DEF IInv

LEMMA RehashRoundIInv ==
    ASSUME TypeOK, IInv, RehashRound, UNCHANGED emplaceVars
    PROVE  IInv'
<1> USE DEF emplaceVars, tableVars
<1>1. /\ todo' = collided /\ collided' = {} /\ Pending' = Pending
      /\ rehash_batch' = rehash_batch + 1 /\ rehash_batch \in Nat
      /\ num_chunks' = num_chunks /\ chunks' = chunks
      /\ entries' = entries /\ positions' = positions
      /\ rows' = rows /\ pc' = pc /\ pc = "rehash"
  BY DEF RehashRound, Pending, TypeOK
<1>2. Placed' /\ TagsRight' /\ RowsRight' /\ NoneLost' /\ NoneTwice' /\ KeysDistinct'
  BY <1>1 DEF IInv, Placed, TagsRight, RowsRight, NoneLost, NoneTwice, KeysDistinct
<1>3. (rehash_batch + 1) - 1 = rehash_batch
  BY <1>1
<1>4. RehashRight' /\ ScanRight'
  BY <1>1, <1>3 DEF IInv, RehashRight, ScanRight
<1> QED
  BY <1>2, <1>4 DEF IInv

LEMMA RehashDoneIInv ==
    ASSUME TypeOK, IInv, RehashDone, UNCHANGED emplaceVars
    PROVE  IInv'
<1> USE DEF emplaceVars, tableVars
<1>1. /\ todo = {} /\ collided = {} /\ todo' = {} /\ collided' = {}
      /\ num_chunks' = num_chunks /\ chunks' = chunks
      /\ rows' = rows /\ pc' # "probe"
  BY DEF RehashDone, TypeOK
<1>2. Pending = {} /\ Pending' = {}
  BY <1>1 DEF Pending
<1>3. Placed' /\ TagsRight' /\ RowsRight' /\ NoneLost' /\ NoneTwice' /\ KeysDistinct'
  BY <1>1, <1>2 DEF IInv, Placed, TagsRight, RowsRight, NoneLost, NoneTwice, KeysDistinct
<1>4. RehashRight' /\ ScanRight'
  BY <1>1, <1>2 DEF RehashRight, ScanRight
<1> QED
  BY <1>3, <1>4 DEF IInv

LEMMA NextIInv == TypeOK /\ IInv /\ [Next]_vars => IInv'
<1> SUFFICES ASSUME TypeOK, IInv, [Next]_vars PROVE IInv'
  OBVIOUS
<1>1. ASSUME NEW k \in Keys, Emplace(k) PROVE IInv'
  BY <1>1, EmplaceIInv
<1>2. CASE EmplaceStep
  BY <1>2, LocateIInv, ProbeFoundIInv, ProbeInsertIInv, ProbeNextIInv DEF EmplaceStep
<1>3. CASE ExpandStep /\ UNCHANGED emplaceVars
  BY <1>3, RehashPlaceIInv, RehashCollideIInv, RehashRoundIInv, RehashDoneIInv
     DEF ExpandStep
<1>4. CASE UNCHANGED vars
  BY <1>4 DEF vars, tableVars, rehashVars, emplaceVars, IInv, Placed, TagsRight,
     RowsRight, NoneLost, NoneTwice, KeysDistinct, RehashRight, ScanRight, Pending,
     KeyMatches
<1> QED
  BY <1>1, <1>2, <1>3, <1>4 DEF Next, Step

LEMMA IInvCorrect == Spec => [](TypeOK /\ IInv)
<1>1. Init => TypeOK /\ IInv
  BY InitType, InitIInv
<1>2. TypeOK /\ IInv /\ [Next]_vars => (TypeOK /\ IInv)'
  BY NextType, NextIInv
<1> QED
  BY <1>1, <1>2, PTL DEF Spec

LEMMA IInvOneGroup == TypeOK /\ IInv => OneGroupPerKey
<1> SUFFICES ASSUME TypeOK, IInv PROVE OneGroupPerKey
  OBVIOUS
<1>1. DOMAIN rows = 1 .. Len(rows)
  BY DEF TypeOK
<1>2. {x.value : x \in Held} \subseteq DOMAIN rows
  BY DEF IInv, RowsRight, OfRow, Held
<1>3. DOMAIN rows \subseteq {x.value : x \in Held}
  BY DEF IInv, NoneLost, Held
<1> QED
  BY <1>1, <1>2, <1>3 DEF OneGroupPerKey, IInv, NoneTwice, KeysDistinct

(***************************************************************************)
(* emplace never makes a second group for a key, and neither an insertion   *)
(* nor any moment of a rehash loses a group or holds it twice.              *)
(***************************************************************************)
THEOREM OneGroup == Spec => []OneGroupPerKey
<1>1. Spec => [](TypeOK /\ IInv)
  BY IInvCorrect
<1> QED
  BY <1>1, IInvOneGroup, PTL

-----------------------------------------------------------------------------
(* What the callbacks of a call are given. *)

(* Control only comes back to the caller at the end of a lookup. *)
OwnInv == OwnGroup /\ (pc = "rehash" => after = "locate")

LEMMA InitOwn == Init => OwnInv
BY DEF Init, ExpandInit, OwnInv, OwnGroup

LEMMA NextOwn == TypeOK /\ OwnInv /\ [Next]_vars => OwnInv'
<1> SUFFICES ASSUME TypeOK, OwnInv, [Next]_vars PROVE OwnInv'
  OBVIOUS
<1> USE DEF tableVars, rehashVars, emplaceVars
<1>1. ASSUME NEW k \in Keys, Emplace(k) PROVE OwnInv'
  BY <1>1 DEF Emplace, StartExpand, OwnInv, OwnGroup
<1>2. CASE Locate
  BY <1>2 DEF Locate, OwnInv, OwnGroup
<1>3. CASE ProbeFound
  <2>1. PICK s \in KeyMatches(chunks[pos], row) :
          result' = [value |-> chunks[pos][s].value, is_new |-> FALSE]
    BY <1>3 DEF ProbeFound, FoundIn, IsLowest
  <2>2. rows[chunks[pos][s].value] = row
    BY <2>1 DEF KeyMatches
  <2> QED
    BY <1>3, <2>1, <2>2 DEF ProbeFound, FoundIn, OwnInv, OwnGroup
<1>4. CASE ProbeInsert
  <2>1. rows' = Append(rows, row) /\ rows \in Seq(Keys) /\ row \in Keys
    BY <1>4 DEF ProbeInsert, InsertUnless, TypeOK
  <2>2. rows'[Len(rows) + 1] = row
    BY <2>1
  <2> QED
    BY <1>4, <2>2 DEF ProbeInsert, InsertUnless, OwnInv, OwnGroup
<1>5. CASE ProbeNext
  BY <1>5 DEF ProbeNext, NextUnless, OwnInv, OwnGroup
<1>6. CASE ExpandStep /\ UNCHANGED emplaceVars
  BY <1>6 DEF ExpandStep, RehashPlace, RehashCollide, RehashRound, RehashDone,
     OwnInv, OwnGroup
<1>7. CASE UNCHANGED vars
  BY <1>7 DEF vars, OwnInv, OwnGroup
<1> QED
  BY <1>1, <1>2, <1>3, <1>4, <1>5, <1>6, <1>7 DEF Next, Step, EmplaceStep

(***************************************************************************)
(* on_update is called with the slot of the row's own key, whatever keys    *)
(* share its hash or its tag.                                               *)
(***************************************************************************)
THEOREM OwnGroupOnly == Spec => []OwnGroup
<1>1. Init => TypeOK /\ OwnInv
  BY InitType, InitOwn
<1>2. TypeOK /\ OwnInv /\ [Next]_vars => (TypeOK /\ OwnInv)'
  BY NextType, NextOwn
<1>3. OwnInv => OwnGroup
  BY DEF OwnInv
<1> QED
  BY <1>1, <1>2, <1>3, PTL DEF Spec

-----------------------------------------------------------------------------
(* What a step may never do to a table. *)

LEMMA NextKeeps ==
    ASSUME TypeOK, [Next]_vars, num_chunks' = num_chunks
    PROVE  \A l \in Occupied(chunks) : At(chunks', l) = At(chunks, l)
<1> USE DEF tableVars, rehashVars, emplaceVars
<1>0. num_chunks \in Nat \ {0} /\ chunks \in [0 .. num_chunks - 1 -> [Slots -> Slot]]
  BY DEF TypeOK
<1>1. ASSUME NEW k \in Keys, Emplace(k) PROVE chunks' = chunks
  <2>1. 2 * num_chunks # num_chunks
    BY <1>0
  <2> QED
    BY <1>1, <2>1 DEF Emplace, StartExpand
<1>2. CASE ProbeInsert
  <2>1. PICK s \in MatchEmpty(chunks[pos]) :
          chunks' = Fill(chunks, pos, s, HashOf[row], Len(rows) + 1)
    BY <1>2 DEF ProbeInsert, InsertUnless, IsLowest
  <2>2. pos \in 0 .. num_chunks - 1 /\ HashOf[row] \in Nat /\ Len(rows) + 1 \in Nat
    BY <1>2 DEF ProbeInsert, InsertUnless, TypeOK
  <2>3. AddedAt(num_chunks, chunks, Fill(chunks, pos, s, HashOf[row], Len(rows) + 1), <<pos, s>>,
                [tag |-> TagHash(HashOf[row]), key |-> HashOf[row], value |-> Len(rows) + 1])
    BY <1>0, <2>2, FillFacts
  <2> QED
    BY <2>1, <2>3 DEF AddedAt
<1>3. CASE RehashPlace
  <2>1. PICK p \in todo :
          \E s \in Slots :
            /\ IsLowest(s, MatchEmpty(chunks[positions[p]]))
            /\ chunks' = Fill(chunks, positions[p], s, entries[p].key, entries[p].value)
    BY <1>3 DEF RehashPlace
  <2>2. PICK s \in MatchEmpty(chunks[positions[p]]) :
          chunks' = Fill(chunks, positions[p], s, entries[p].key, entries[p].value)
    BY <2>1 DEF IsLowest
  <2>3. /\ positions[p] \in 0 .. num_chunks - 1
        /\ entries[p].key \in Nat /\ entries[p].value \in Nat
    BY HeldTypes DEF Pending
  <2>4. AddedAt(num_chunks, chunks,
                Fill(chunks, positions[p], s, entries[p].key, entries[p].value),
                <<positions[p], s>>,
                [tag |-> TagHash(entries[p].key), key |-> entries[p].key,
                 value |-> entries[p].value])
    BY <1>0, <2>3, FillFacts
  <2> QED
    BY <2>2, <2>4 DEF AddedAt
<1>4. CASE chunks' = chunks
  BY <1>4
<1>5. ASSUME Locate \/ ProbeFound \/ ProbeNext \/ RehashCollide \/ RehashRound \/ RehashDone
               \/ UNCHANGED vars
      PROVE  chunks' = chunks
  BY <1>5 DEF Locate, ProbeFound, FoundIn, ProbeNext, NextUnless, RehashCollide, RehashRound, RehashDone, vars
<1> QED
  BY <1>1, <1>2, <1>3, <1>4, <1>5 DEF Next, Step, EmplaceStep, ExpandStep

(***************************************************************************)
(* Between two expansions a slot in use keeps its tag, hash and row, so a   *)
(* pointer to a group's slot stays good.                                    *)
(***************************************************************************)
THEOREM SlotsKept == Spec => UsedSlotsKept
<1>1. TypeOK /\ [Next]_vars =>
        [num_chunks' = num_chunks =>
           \A l \in Occupied(chunks) : At(chunks', l) = At(chunks, l)]_vars
  BY NextKeeps
<1>2. Spec => []TypeOK
  BY TypeCorrect
<1> QED
  BY <1>1, <1>2, PTL DEF Spec, UsedSlotsKept

-----------------------------------------------------------------------------
(* Counting. *)

LEMMA CapacityType ==
    ASSUME NEW n \in Nat \ {0}
    PROVE  Capacity(n) \in Nat \ {0} /\ Capacity(2 * n) = 2 * Capacity(n)
BY TableAssumption, SMT DEF Capacity

LEMMA OccupiedFinite ==
    ASSUME NEW n \in Nat \ {0}, NEW C \in [0 .. n - 1 -> [Slots -> Slot]]
    PROVE  /\ IsFiniteSet(Occupied(C))
           /\ Cardinality(Occupied(C)) \in Nat
           /\ Cardinality(Occupied(C)) <= Capacity(n)
<1>1. IsFiniteSet(0 .. n - 1) /\ Cardinality(0 .. n - 1) = n
  BY FS_Interval
<1>2. IsFiniteSet(Slots) /\ Cardinality(Slots) = SLOTS_PER_CHUNK
  BY TableAssumption, FS_Interval DEF Slots
<1>3. /\ IsFiniteSet((0 .. n - 1) \X Slots)
      /\ Cardinality((0 .. n - 1) \X Slots) = Capacity(n)
  BY <1>1, <1>2, FS_Product DEF Capacity
<1>4. Occupied(C) \subseteq (0 .. n - 1) \X Slots
  BY DEF Occupied
<1> QED
  BY <1>3, <1>4, FS_Subset, FS_CardinalityType

(* Below the threshold there is an empty slot, whatever the rounding of it. *)
LEMMA RoomBelowThreshold ==
    ASSUME NEW n \in Nat \ {0}, NEW sz \in Nat, ~ShouldExpand(n, sz)
    PROVE  sz < Capacity(n)
<1> DEFINE cap == Capacity(n)
<1>1. cap \in Nat
  BY CapacityType
<1>2. LOAD_DEN * sz + LOAD_SLACK < LOAD_NUM * cap
  BY <1>1, LoadAssumption DEF ShouldExpand
<1> HIDE DEF cap
<1>3. LOAD_NUM * cap <= LOAD_DEN * cap
  BY <1>1, LoadAssumption, Z3
<1>4. LOAD_DEN * sz < LOAD_DEN * cap
  BY <1>1, <1>2, <1>3, LoadAssumption
<1>5. sz >= cap => LOAD_DEN * sz >= LOAD_DEN * cap
  BY <1>1, LoadAssumption, Z3
<1>6. LOAD_DEN * sz \in Nat /\ LOAD_DEN * cap \in Nat
  BY <1>1, LoadAssumption
<1> QED
  BY <1>1, <1>4, <1>5, <1>6 DEF cap

(* An insertion takes one slot more ... *)
LEMMA InsertTakesOne ==
    ASSUME TypeOK, ProbeInsert
    PROVE  \E l : l \notin Occupied(chunks) /\ Occupied(chunks') = Occupied(chunks) \cup {l}
<1>1. PICK s \in MatchEmpty(chunks[pos]) :
        chunks' = Fill(chunks, pos, s, HashOf[row], Len(rows) + 1)
  BY DEF ProbeInsert, InsertUnless, IsLowest
<1>2. pos \in 0 .. num_chunks - 1 /\ HashOf[row] \in Nat /\ Len(rows) + 1 \in Nat
  BY HashAssumption DEF ProbeInsert, InsertUnless, TypeOK
<1>3. num_chunks \in Nat \ {0} /\ chunks \in [0 .. num_chunks - 1 -> [Slots -> Slot]]
  BY DEF TypeOK
<1>4. AddedAt(num_chunks, chunks, Fill(chunks, pos, s, HashOf[row], Len(rows) + 1), <<pos, s>>,
              [tag |-> TagHash(HashOf[row]), key |-> HashOf[row], value |-> Len(rows) + 1])
  BY <1>2, <1>3, FillFacts
<1> QED
  BY <1>1, <1>4 DEF AddedAt

(* ... and so does an entry that finds its place again. *)
LEMMA PlaceTakesOne ==
    ASSUME TypeOK, RehashPlace
    PROVE  /\ \E l : l \notin Occupied(chunks) /\ Occupied(chunks') = Occupied(chunks) \cup {l}
           /\ \E p \in todo : todo' = todo \ {p} /\ collided' = collided
<1>1. PICK p \in todo :
        /\ \E s \in Slots :
             /\ IsLowest(s, MatchEmpty(chunks[positions[p]]))
             /\ chunks' = Fill(chunks, positions[p], s, entries[p].key, entries[p].value)
        /\ todo' = todo \ {p}
  BY DEF RehashPlace
<1>2. PICK s \in MatchEmpty(chunks[positions[p]]) :
        chunks' = Fill(chunks, positions[p], s, entries[p].key, entries[p].value)
  BY <1>1 DEF IsLowest
<1>3. /\ positions[p] \in 0 .. num_chunks - 1
      /\ entries[p].key \in Nat /\ entries[p].value \in Nat
      /\ num_chunks \in Nat \ {0} /\ chunks \in [0 .. num_chunks - 1 -> [Slots -> Slot]]
  BY HeldTypes DEF Pending
<1>4. AddedAt(num_chunks, chunks,
              Fill(chunks, positions[p], s, entries[p].key, entries[p].value),
              <<positions[p], s>>,
              [tag |-> TagHash(entries[p].key), key |-> entries[p].key,
               value |-> entries[p].value])
  BY <1>3, FillFacts
<1>5. \E l : l \notin Occupied(chunks) /\ Occupied(chunks') = Occupied(chunks) \cup {l}
  BY <1>2, <1>4 DEF AddedAt
<1>6. collided' = collided
  BY DEF RehashPlace
<1> QED
  BY <1>1, <1>5, <1>6

(***************************************************************************)
(* The inductive invariant of the counts.  The two properties need each     *)
(* other: the room after a rehash is that of the entries it started with.   *)
(***************************************************************************)
CountInv == SizeExact /\ RoomToProbe /\ IsFiniteSet(Pending)

LEMMA CountTypes ==
    ASSUME TypeOK, CountInv
    PROVE  /\ size \in Nat /\ Len(rows) \in Nat
           /\ IsFiniteSet(Occupied(chunks)) /\ Cardinality(Occupied(chunks)) \in Nat
           /\ Cardinality(Pending) \in Nat
           /\ num_chunks \in Nat \ {0} /\ Capacity(num_chunks) \in Nat \ {0}
<1>1. /\ size \in Nat /\ Len(rows) \in Nat /\ num_chunks \in Nat \ {0}
      /\ chunks \in [0 .. num_chunks - 1 -> [Slots -> Slot]]
  BY DEF TypeOK
<1> QED
  BY <1>1, OccupiedFinite, CapacityType, FS_CardinalityType DEF CountInv

LEMMA InitCount == Init => CountInv
<1> SUFFICES ASSUME Init PROVE CountInv
  OBVIOUS
<1>1. num_chunks \in Nat \ {0} /\ chunks = AllocChunks(num_chunks)
  BY InitType DEF Init, ExpandInit, TypeOK
<1>2. Occupied(chunks) = {} /\ Pending = {} /\ Len(rows) = 0 /\ pc = "idle" /\ size = 0
  BY <1>1, AllocFacts DEF Init, ExpandInit, Pending
<1> QED
  BY <1>2, FS_EmptySet DEF CountInv, SizeExact, RoomToProbe

(* The call: either there is room already, or the table is doubled. *)
LEMMA EmplaceCount ==
    ASSUME TypeOK, IInv, CountInv, NEW k \in Keys, Emplace(k)
    PROVE  CountInv'
<1> USE DEF tableVars, rehashVars
<1>p. pc = "idle" /\ Pending = {} /\ Cardinality(Pending) = 0 /\ rows' = rows
  BY FS_EmptySet DEF Emplace, IInv, RehashRight
<1>1. CASE StartExpand("locate")
  <2> DEFINE n == 2 * num_chunks
             old == Occupied(chunks)
  <2>1. n \in Nat \ {0} /\ num_chunks' = n /\ chunks' = AllocChunks(n)
    BY <1>1, HeldTypes DEF StartExpand
  <2>2. todo' = old /\ collided' = {} /\ pc' = "rehash" /\ size' = 0
    BY <1>1 DEF StartExpand
  <2>3. Occupied(chunks') = {} /\ Pending' = old
    BY <2>1, <2>2, AllocFacts DEF Pending
  <2>4. Cardinality(old) = size /\ size = Len(rows) /\ size \in Nat
    BY <1>p, CountTypes DEF CountInv, SizeExact
  <2>5. IsFiniteSet(old) /\ Cardinality(old) <= Capacity(num_chunks)
    BY HeldTypes, OccupiedFinite
  <2>6. Capacity(n) = 2 * Capacity(num_chunks) /\ Capacity(num_chunks) \in Nat
    BY HeldTypes, CapacityType
  <2> HIDE DEF n, old
  <2>7. SizeExact'
    BY <1>p, <2>2, <2>3, <2>4, FS_EmptySet DEF SizeExact
  <2>8. RoomToProbe'
    BY <2>1, <2>2, <2>3, <2>4, <2>5, <2>6 DEF RoomToProbe
  <2> QED
    BY <2>3, <2>5, <2>7, <2>8 DEF CountInv
<1>2. CASE ~ShouldExpand(num_chunks, size) /\ pc' = "locate" /\ UNCHANGED <<tableVars, rehashVars>>
  <2>1. size < Capacity(num_chunks)
    BY <1>2, CountTypes, RoomBelowThreshold
  <2>2. Pending' = Pending
    BY <1>2 DEF Pending
  <2> QED
    BY <1>2, <1>p, <2>1, <2>2 DEF CountInv, SizeExact, RoomToProbe
<1> QED
  BY <1>1, <1>2 DEF Emplace

LEMMA PlaceCount ==
    ASSUME TypeOK, IInv, CountInv, RehashPlace, UNCHANGED emplaceVars
    PROVE  CountInv'
<1> USE DEF emplaceVars
<1>1. /\ size' = size + 1 /\ num_chunks' = num_chunks /\ rows' = rows
      /\ pc = "rehash" /\ pc' = pc
  BY DEF RehashPlace
<1>2. PICK l : l \notin Occupied(chunks) /\ Occupied(chunks') = Occupied(chunks) \cup {l}
  BY PlaceTakesOne
<1>3. PICK p \in todo : todo' = todo \ {p} /\ collided' = collided
  BY PlaceTakesOne
<1>4. Pending' = Pending \ {p} /\ p \in Pending
  BY <1>3 DEF Pending, IInv, RehashRight
<1>5. Cardinality(Occupied(chunks')) = Cardinality(Occupied(chunks)) + 1
  BY <1>2, CountTypes, FS_AddElement
<1>6. Cardinality(Pending') = Cardinality(Pending) - 1 /\ IsFiniteSet(Pending')
  BY <1>4, FS_RemoveElement DEF CountInv
<1>7. SizeExact'
  BY <1>1, <1>5, <1>6, CountTypes DEF CountInv, SizeExact
<1>8. size' + Cardinality(Pending') = size + Cardinality(Pending)
  BY <1>1, <1>6, CountTypes
<1>9. RoomToProbe'
  BY <1>1, <1>8 DEF CountInv, RoomToProbe
<1> QED
  BY <1>6, <1>7, <1>9 DEF CountInv

LEMMA InsertCount ==
    ASSUME TypeOK, IInv, CountInv, ProbeInsert
    PROVE  CountInv'
<1>1. /\ size' = size + 1 /\ rows' = Append(rows, row) /\ pc' = "idle"
      /\ Pending' = Pending
  BY DEF ProbeInsert, InsertUnless, rehashVars, Pending
<1>2. Len(rows') = Len(rows) + 1
  BY <1>1 DEF TypeOK
<1>3. PICK l : l \notin Occupied(chunks) /\ Occupied(chunks') = Occupied(chunks) \cup {l}
  BY InsertTakesOne
<1>4. Cardinality(Occupied(chunks')) = Cardinality(Occupied(chunks)) + 1
  BY <1>3, CountTypes, FS_AddElement
<1>5. SizeExact'
  <2>1. size = Cardinality(Occupied(chunks)) /\ size + Cardinality(Pending) = Len(rows)
    BY DEF CountInv, SizeExact
  <2>2. size' = Cardinality(Occupied(chunks'))
    BY <1>1, <1>4, <2>1
  <2>3. size' + Cardinality(Pending) = Len(rows')
    BY <1>1, <1>2, <2>1, CountTypes
  <2> QED
    BY <1>1, <2>2, <2>3 DEF SizeExact
<1> QED
  BY <1>1, <1>5 DEF CountInv, RoomToProbe

(* A rehash ends with every entry placed, in a table at most half full. *)
LEMMA DoneCount ==
    ASSUME TypeOK, CountInv, RehashDone, UNCHANGED emplaceVars
    PROVE  CountInv'
<1>1. /\ todo = {} /\ collided = {} /\ todo' = {} /\ collided' = {}
      /\ UNCHANGED <<num_chunks, chunks, size, rows>>
      /\ pc = "rehash" /\ pc' \in {"idle", "locate"}
  BY DEF RehashDone, TypeOK, tableVars, emplaceVars
<1>2. Pending = {} /\ Pending' = {} /\ Cardinality(Pending) = 0
  BY <1>1, FS_EmptySet DEF Pending
<1>3. size < Capacity(num_chunks)
  BY <1>1, <1>2, CountTypes DEF CountInv, RoomToProbe
<1> QED
  BY <1>1, <1>2, <1>3 DEF CountInv, SizeExact, RoomToProbe

LEMMA NextCount == TypeOK /\ IInv /\ CountInv /\ [Next]_vars => CountInv'
<1> SUFFICES ASSUME TypeOK, IInv, CountInv, [Next]_vars PROVE CountInv'
  OBVIOUS
<1> USE DEF tableVars, rehashVars, emplaceVars
<1>1. ASSUME NEW k \in Keys, Emplace(k) PROVE CountInv'
  BY <1>1, EmplaceCount
<1>2. CASE ProbeInsert
  BY <1>2, InsertCount
<1>3. CASE Locate \/ ProbeFound \/ ProbeNext
  <2>1. /\ UNCHANGED <<num_chunks, chunks, size, rows, todo, collided>>
        /\ pc \in {"locate", "probe"}
    BY <1>3 DEF Locate, ProbeFound, FoundIn, ProbeNext, NextUnless
  <2>2. Pending' = Pending
    BY <2>1 DEF Pending
  <2>3. pc' # "rehash"
    BY <1>3, <2>1 DEF Locate, ProbeFound, FoundIn, ProbeNext, NextUnless
  <2> QED
    BY <2>1, <2>2, <2>3 DEF CountInv, SizeExact, RoomToProbe
<1>4. CASE RehashPlace /\ UNCHANGED emplaceVars
  BY <1>4, PlaceCount
<1>5. CASE (RehashCollide \/ RehashRound) /\ UNCHANGED emplaceVars
  <2>1. UNCHANGED <<num_chunks, chunks, size, rows, pc>>
    BY <1>5 DEF RehashCollide, RehashRound
  <2>2. Pending' = Pending
    BY <1>5 DEF RehashCollide, RehashRound, Pending
  <2> QED
    BY <2>1, <2>2 DEF CountInv, SizeExact, RoomToProbe
<1>6. CASE RehashDone /\ UNCHANGED emplaceVars
  BY <1>6, DoneCount
<1>7. CASE UNCHANGED vars
  BY <1>7 DEF vars, CountInv, SizeExact, RoomToProbe, Pending
<1> QED
  BY <1>1, <1>2, <1>3, <1>4, <1>5, <1>6, <1>7 DEF Next, Step, EmplaceStep, ExpandStep

LEMMA CountInvCorrect == Spec => []CountInv
<1>1. Init => CountInv
  BY InitCount
<1>2. TypeOK /\ IInv /\ CountInv /\ [Next]_vars => CountInv'
  BY NextCount
<1>3. Spec => [](TypeOK /\ IInv)
  BY IInvCorrect
<1> QED
  BY <1>1, <1>2, <1>3, PTL DEF Spec

(***************************************************************************)
(* size counts the slots in use at every moment, and with the entries a     *)
(* rehash has still to place it is the number of rows stored.               *)
(***************************************************************************)
THEOREM SizeIsExact == Spec => []SizeExact
<1>1. CountInv => SizeExact
  BY DEF CountInv
<1> QED
  BY <1>1, CountInvCorrect, PTL

(***************************************************************************)
(* emplace only ever searches a table with an empty slot, and a rehash runs *)
(* in a table it leaves at most half full: what the end of every probe      *)
(* sequence rests on.                                                       *)
(***************************************************************************)
THEOREM RoomAhead == Spec => []RoomToProbe
<1>1. CountInv => RoomToProbe
  BY DEF CountInv
<1> QED
  BY <1>1, CountInvCorrect, PTL

-----------------------------------------------------------------------------
(* Where used slots are found, and how long a probe can get. *)

(* The number of chunks stays a power of two. *)
LEMMA InitPower == Init => OddFree(num_chunks)
BY CapacityFacts, PowersOddFree DEF Init, ExpandInit

LEMMA NextChunks ==
    ASSUME TypeOK, [Next]_vars
    PROVE  num_chunks' \in {num_chunks, 2 * num_chunks}
<1> USE DEF tableVars, rehashVars, emplaceVars
<1>1. ASSUME NEW k \in Keys, Emplace(k) PROVE num_chunks' \in {num_chunks, 2 * num_chunks}
  BY <1>1 DEF Emplace, StartExpand
<1>2. CASE Step
  BY <1>2 DEF Step, EmplaceStep, Locate, ProbeFound, FoundIn, ProbeInsert, InsertUnless,
     ProbeNext, NextUnless, ExpandStep, RehashPlace, RehashCollide, RehashRound, RehashDone
<1>3. CASE UNCHANGED vars
  BY <1>3 DEF vars
<1> QED
  BY <1>1, <1>2, <1>3 DEF Next

LEMMA NextPower == TypeOK /\ OddFree(num_chunks) /\ [Next]_vars => OddFree(num_chunks)'
<1> SUFFICES ASSUME TypeOK, OddFree(num_chunks), [Next]_vars PROVE OddFree(num_chunks')
  OBVIOUS
<1>1. num_chunks \in Nat \ {0}
  BY DEF TypeOK
<1> QED
  BY <1>1, NextChunks, OddFreeDouble

(* A path that is longer than the table is one chunk of it, found earlier. *)
LEMMA PathShort ==
    ASSUME NEW n \in Nat \ {0}, OddFree(n), NEW C, NEW h \in Nat,
           NEW c \in 0 .. n - 1, NEW k \in Nat, OnPath(C, n, h, c, k)
    PROVE  \E j \in 0 .. n - 1 : OnPath(C, n, h, c, j)
<1>1. CASE k < n
  BY <1>1
<1>2. CASE k >= n
  <2>1. PICK j \in 0 .. n - 1 : Probe(n, h, j) = c
    BY ProbesReachAll
  <2>2. \A i \in 0 .. j - 1 : i \in 0 .. k - 1
    BY <1>2
  <2> QED
    BY <2>1, <2>2 DEF OnPath, FullBefore
<1> QED
  BY <1>1, <1>2

(***************************************************************************)
(* Whatever is in the table is found within as many tries as it has chunks. *)
(***************************************************************************)
THEOREM ReachableAlways == Spec => []Reachable
<1>1. TypeOK /\ IInv /\ OddFree(num_chunks) => Reachable
  <2> SUFFICES ASSUME TypeOK, IInv, OddFree(num_chunks), NEW l \in Occupied(chunks)
               PROVE  \E k \in 0 .. num_chunks - 1 :
                         OnPath(chunks, num_chunks, At(chunks, l).key, l[1], k)
    BY DEF Reachable, OnPath
  <2>1. num_chunks \in Nat \ {0} /\ At(chunks, l).key \in Nat /\ l[1] \in 0 .. num_chunks - 1
    BY HeldTypes DEF TypeOK, Occupied
  <2>2. PICK k \in Nat : OnPath(chunks, num_chunks, At(chunks, l).key, l[1], k)
    BY DEF IInv, Placed
  <2> QED
    BY <2>1, <2>2, PathShort
<1>2. TypeOK /\ OddFree(num_chunks) /\ [Next]_vars => OddFree(num_chunks)'
  BY NextPower
<1> QED
  BY <1>1, <1>2, InitPower, IInvCorrect, PTL DEF Spec

(* Where the first n tries found full chunks, the table is full. *)
LEMMA AllFull ==
    ASSUME NEW n \in Nat \ {0}, OddFree(n), NEW C \in [0 .. n - 1 -> [Slots -> Slot]],
           NEW h \in Nat, NEW k \in Nat, n <= k, FullBefore(C, n, h, k)
    PROVE  Cardinality(Occupied(C)) = Capacity(n)
<1>1. ASSUME NEW c \in 0 .. n - 1 PROVE IsFull(C[c])
  <2>1. PICK j \in 0 .. n - 1 : Probe(n, h, j) = c
    BY ProbesReachAll
  <2>2. j \in 0 .. k - 1
    OBVIOUS
  <2> QED
    BY <2>1, <2>2 DEF FullBefore
<1>2. Occupied(C) = (0 .. n - 1) \X Slots
  BY <1>1 DEF Occupied, IsFull, MatchEmpty
<1>3. IsFiniteSet(0 .. n - 1) /\ Cardinality(0 .. n - 1) = n
  BY FS_Interval
<1>4. IsFiniteSet(Slots) /\ Cardinality(Slots) = SLOTS_PER_CHUNK
  BY TableAssumption, FS_Interval DEF Slots
<1> QED
  BY <1>2, <1>3, <1>4, FS_Product DEF Capacity

(* With an empty slot in the table a probe is not at its last chunk yet. *)
LEMMA ProbeNotOver ==
    ASSUME TypeOK, CountInv, OddFree(num_chunks), size < Capacity(num_chunks),
           NEW h \in Nat, NEW c, NEW t \in Nat,
           OnPath(chunks, num_chunks, h, c, t), IsFull(chunks[c])
    PROVE  t + 1 < num_chunks
<1> SUFFICES ASSUME num_chunks <= t + 1 PROVE FALSE
  BY DEF TypeOK
<1>1. num_chunks \in Nat \ {0} /\ chunks \in [0 .. num_chunks - 1 -> [Slots -> Slot]]
  BY DEF TypeOK
<1>2. \A j \in 0 .. (t + 1) - 1 : j = t \/ j \in 0 .. t - 1
  OBVIOUS
<1>3. FullBefore(chunks, num_chunks, h, t + 1)
  BY <1>2 DEF OnPath, FullBefore
<1>4. Cardinality(Occupied(chunks)) = Capacity(num_chunks)
  BY <1>1, <1>3, AllFull
<1> QED
  BY <1>4, CountTypes DEF CountInv, SizeExact

(* A round of a rehash that leaves entries over is not the last possible. *)
TriesInv ==
    /\ TriesBounded
    /\ pc = "rehash" /\ collided # {} => rehash_batch < num_chunks

LEMMA TriesNext ==
    TypeOK /\ IInv /\ CountInv /\ OddFree(num_chunks) /\ TriesInv /\ [Next]_vars => TriesInv'
<1> SUFFICES ASSUME TypeOK, IInv, CountInv, OddFree(num_chunks), TriesInv, [Next]_vars
             PROVE  TriesInv'
  OBVIOUS
<1> USE DEF tableVars, rehashVars, emplaceVars
<1>t. /\ num_chunks \in Nat \ {0} /\ collision_batch \in Nat \ {0}
      /\ rehash_batch \in Nat \ {0} /\ HashOf[row] \in Nat
  BY DEF TypeOK
<1>1. ASSUME NEW k \in Keys, Emplace(k) PROVE TriesInv'
  BY <1>1, <1>t DEF Emplace, StartExpand, TriesInv, TriesBounded
<1>2. CASE Locate \/ ProbeFound \/ ProbeInsert
  BY <1>2, <1>t DEF Locate, ProbeFound, FoundIn, ProbeInsert, InsertUnless, TriesInv, TriesBounded
<1>3. CASE ProbeNext
  <2>1. /\ pc = "probe" /\ pc' = pc /\ num_chunks' = num_chunks
        /\ IsFull(chunks[pos]) /\ collision_batch' = collision_batch + 1
    BY <1>3 DEF ProbeNext, NextUnless
  <2>2. OnPath(chunks, num_chunks, HashOf[row], pos, collision_batch - 1)
    BY <2>1 DEF IInv, ScanRight
  <2>3. (collision_batch - 1) + 1 < num_chunks
    BY <1>t, <2>1, <2>2, ProbeNotOver DEF CountInv, RoomToProbe
  <2> QED
    BY <1>t, <2>1, <2>3 DEF TriesInv, TriesBounded
<1>4. CASE RehashPlace /\ UNCHANGED emplaceVars
  BY <1>4 DEF RehashPlace, TriesInv, TriesBounded
<1>5. CASE RehashCollide /\ UNCHANGED emplaceVars
  <2>1. PICK l \in todo : IsFull(chunks[positions[l]])
    BY <1>5 DEF RehashCollide
  <2>2. pc = "rehash" /\ pc' = pc /\ UNCHANGED <<num_chunks, rehash_batch>>
    BY <1>5 DEF RehashCollide
  <2>3. entries[l].key \in Nat
    BY HeldTypes DEF Pending
  <2>4. OnPath(chunks, num_chunks, entries[l].key, positions[l], rehash_batch - 1)
    BY DEF IInv, RehashRight
  <2>5. Pending # {} /\ Cardinality(Pending) # 0
    BY FS_EmptySet DEF Pending, CountInv
  <2>6. size < Capacity(num_chunks)
    BY <2>2, <2>5, CountTypes DEF CountInv, RoomToProbe
  <2>7. (rehash_batch - 1) + 1 < num_chunks
    BY <1>t, <2>1, <2>3, <2>4, <2>6, ProbeNotOver
  <2> QED
    BY <1>t, <2>2, <2>7 DEF TriesInv, TriesBounded
<1>6. CASE RehashRound /\ UNCHANGED emplaceVars
  BY <1>6, <1>t DEF RehashRound, TriesInv, TriesBounded
<1>7. CASE RehashDone /\ UNCHANGED emplaceVars
  BY <1>7, <1>t DEF RehashDone, TriesInv, TriesBounded, TypeOK
<1>8. CASE UNCHANGED vars
  BY <1>8 DEF vars, TriesInv, TriesBounded
<1> QED
  BY <1>1, <1>2, <1>3, <1>4, <1>5, <1>6, <1>7, <1>8 DEF Next, Step, EmplaceStep, ExpandStep

(***************************************************************************)
(* The unbounded loops of emplace and of expand end within as many tries,   *)
(* or rounds, as the table has chunks.                                      *)
(***************************************************************************)
THEOREM TriesEnd == Spec => []TriesBounded
<1>1. Init => TriesInv
  BY InitType DEF Init, ExpandInit, TypeOK, TriesInv, TriesBounded
<1>2. TriesInv => TriesBounded
  BY DEF TriesInv
<1>3. TypeOK /\ OddFree(num_chunks) /\ [Next]_vars => OddFree(num_chunks)'
  BY NextPower
<1> QED
  BY <1>1, <1>2, <1>3, TriesNext, InitPower, IInvCorrect, CountInvCorrect, PTL DEF Spec

-----------------------------------------------------------------------------
(* The map implements the table of groups. *)

(* The groups of a sequence of rows. *)
GroupsOf(R) == {[key |-> R[i], id |-> i] : i \in DOMAIN R}
MapGroups == {[key |-> rows[e.value], id |-> e.value] : e \in Held}

LEMMA GroupsAreRows ==
    ASSUME NEW R \in Seq(Keys), NEW H, {e.value : e \in H} = 1 .. Len(R)
    PROVE  {[key |-> R[e.value], id |-> e.value] : e \in H} = GroupsOf(R)
<1>1. DOMAIN R = 1 .. Len(R)
  OBVIOUS
<1> QED
  BY <1>1 DEF GroupsOf

LEMMA GroupsCounted ==
    ASSUME NEW R \in Seq(Keys)
    PROVE  Cardinality(GroupsOf(R)) = Len(R)
<1> DEFINE f == [i \in 1 .. Len(R) |-> [key |-> R[i], id |-> i]]
<1>1. DOMAIN R = 1 .. Len(R) /\ Len(R) \in Nat
  OBVIOUS
<1>2. f \in [1 .. Len(R) -> GroupsOf(R)]
  BY <1>1 DEF GroupsOf
<1>3. \A i, j \in 1 .. Len(R) : f[i] = f[j] => i = j
  OBVIOUS
<1>4. \A g \in GroupsOf(R) : \E i \in 1 .. Len(R) : f[i] = g
  BY <1>1 DEF GroupsOf
<1>5. f \in Bijection(1 .. Len(R), GroupsOf(R))
  BY <1>2, <1>3, <1>4 DEF Bijection, Injection, Surjection, IsInjective
<1>6. IsFiniteSet(1 .. Len(R)) /\ Cardinality(1 .. Len(R)) = Len(R)
  <2>1. 1 \in Int /\ Len(R) \in Int
    BY <1>1
  <2>2. IsFiniteSet(1 .. Len(R)) /\ Cardinality(1 .. Len(R)) = IF 1 > Len(R) THEN 0 ELSE Len(R) - 1 + 1
    BY <2>1, FS_Interval
  <2> QED
    BY <1>1, <2>2
<1> QED
  BY <1>5, <1>6, FS_Bijection DEF ExistsBijection

LEMMA AppendGroups ==
    ASSUME NEW R \in Seq(Keys), NEW k \in Keys
    PROVE  GroupsOf(Append(R, k)) = GroupsOf(R) \cup {[key |-> k, id |-> Len(R) + 1]}
<1> DEFINE S == Append(R, k)
<1>1. /\ DOMAIN R = 1 .. Len(R) /\ Len(R) \in Nat /\ DOMAIN S = 1 .. Len(R) + 1
      /\ S[Len(R) + 1] = k /\ \A i \in DOMAIN R : S[i] = R[i]
  OBVIOUS
<1>2. DOMAIN S = DOMAIN R \cup {Len(R) + 1}
  BY <1>1
<1> HIDE DEF S
<1>3. GroupsOf(S) = GroupsOf(R) \cup {[key |-> k, id |-> Len(R) + 1]}
  BY <1>1, <1>2 DEF GroupsOf
<1> QED
  BY <1>3 DEF S

(* The steps a caller does not see. *)
LEMMA HiddenStep ==
    ASSUME MapGroups' = MapGroups, row' = row, pc # "idle", pc' # "idle", result' = result
    PROVE  UNCHANGED Groups!gvars
BY DEF Groups!gvars, MapGroups

LEMMA FoundIsAnswer ==
    ASSUME TypeOK, IInv, MapGroups = GroupsOf(rows), MapGroups' = MapGroups, ProbeFound
    PROVE  Groups!AnswerOld
<1>1. PICK s \in KeyMatches(chunks[pos], row) :
        result' = [value |-> chunks[pos][s].value, is_new |-> FALSE]
  BY DEF ProbeFound, FoundIn, IsLowest
<1> DEFINE v == chunks[pos][s].value
<1>2. pos \in 0 .. num_chunks - 1 /\ HashOf[row] \in Nat
  BY HashAssumption DEF TypeOK, ProbeFound, FoundIn
<1>3. s \in Slots /\ chunks[pos][s].tag # EMPTY_TAG /\ rows[v] = row
  BY <1>1, <1>2, MatchInUse DEF KeyMatches
<1>4. <<pos, s>> \in Occupied(chunks) /\ At(chunks, <<pos, s>>).value = v
  BY <1>2, <1>3, HeldTypes DEF Occupied, At
<1>5. v \in DOMAIN rows
  BY <1>4 DEF IInv, RowsRight, OfRow
<1>6. [key |-> row, id |-> v] \in MapGroups
  BY <1>3, <1>5 DEF GroupsOf
<1>7. result' = [value |-> v, is_new |-> FALSE] /\ pc # "idle" /\ pc' = "idle" /\ row' = row
  BY <1>1 DEF ProbeFound, FoundIn
<1> HIDE DEF v
<1> QED
  BY <1>6, <1>7 DEF Groups!AnswerOld, MapGroups

LEMMA InsertIsAnswer ==
    ASSUME TypeOK, IInv, MapGroups = GroupsOf(rows), MapGroups' = GroupsOf(rows'), ProbeInsert
    PROVE  Groups!AnswerNew
<1>1. /\ rows' = Append(rows, row) /\ rows \in Seq(Keys) /\ row \in Keys
      /\ result' = [value |-> Len(rows) + 1, is_new |-> TRUE]
      /\ pc # "idle" /\ pc' = "idle" /\ row' = row
  BY DEF ProbeInsert, InsertUnless, TypeOK
<1>2. \A i \in DOMAIN rows : rows[i] # row
  BY ScanComplete DEF ProbeInsert, InsertUnless, IsFull, IsLowest
<1>3. \A g \in MapGroups : g.key # row
  BY <1>2 DEF GroupsOf
<1>4. Cardinality(MapGroups) = Len(rows)
  BY <1>1, GroupsCounted
<1>5. MapGroups' = MapGroups \cup {[key |-> row, id |-> Len(rows) + 1]}
  BY <1>1, AppendGroups
<1> DEFINE id == Cardinality(MapGroups) + 1
<1>6. /\ MapGroups' = MapGroups \cup {[key |-> row, id |-> id]}
      /\ result' = [value |-> id, is_new |-> TRUE]
  BY <1>1, <1>4, <1>5
<1>7. Groups!Cardinality(MapGroups) = Cardinality(MapGroups)
  BY DEF Groups!Cardinality, Cardinality
<1> QED
  BY <1>1, <1>3, <1>6, <1>7 DEF Groups!AnswerNew, MapGroups

LEMMA StepIsAnswer ==
    ASSUME TypeOK, IInv, OwnInv, OneGroupPerKey, TypeOK', OneGroupPerKey', [Next]_vars
    PROVE  [Groups!Next]_(Groups!gvars)
<1> USE DEF tableVars, rehashVars, emplaceVars
<1>1. MapGroups = GroupsOf(rows) /\ MapGroups' = GroupsOf(rows')
  <2>1. rows \in Seq(Keys) /\ rows' \in Seq(Keys)
    BY DEF TypeOK
  <2>2. {e.value : e \in Held} = 1 .. Len(rows) /\ {e.value : e \in Held'} = 1 .. Len(rows')
    BY DEF OneGroupPerKey
  <2> QED
    BY <2>1, <2>2, GroupsAreRows DEF MapGroups
<1>2. ASSUME NEW k \in Keys, Emplace(k) PROVE Groups!Next
  <2>1. rows' = rows /\ pc = "idle" /\ pc' # "idle" /\ row' \in Keys /\ result' = result
    BY <1>2 DEF Emplace, StartExpand
  <2>2. MapGroups' = MapGroups
    BY <1>1, <2>1
  <2> QED
    BY <2>1, <2>2 DEF Groups!Next, Groups!Call, MapGroups
<1>3. ASSUME ProbeFound PROVE Groups!Next
  <2>1. rows' = rows
    BY <1>3 DEF ProbeFound, FoundIn
  <2> QED
    BY <1>1, <1>3, <2>1, FoundIsAnswer DEF Groups!Next, Groups!Answer
<1>4. ASSUME ProbeInsert PROVE Groups!Next
  BY <1>1, <1>4, InsertIsAnswer DEF Groups!Next, Groups!Answer
<1>5. ASSUME Locate \/ ProbeNext PROVE UNCHANGED Groups!gvars
  <2>1. rows' = rows /\ row' = row /\ result' = result /\ pc # "idle" /\ pc' # "idle"
    BY <1>5 DEF Locate, ProbeNext, NextUnless
  <2> QED
    BY <1>1, <2>1, HiddenStep
<1>6. ASSUME ExpandStep /\ UNCHANGED emplaceVars PROVE UNCHANGED Groups!gvars
  <2>1. rows' = rows /\ row' = row /\ result' = result /\ pc # "idle" /\ pc' # "idle"
    BY <1>6 DEF ExpandStep, RehashPlace, RehashCollide, RehashRound, RehashDone, OwnInv
  <2> QED
    BY <1>1, <2>1, HiddenStep
<1>7. ASSUME UNCHANGED vars PROVE UNCHANGED Groups!gvars
  <2>1. rows' = rows /\ row' = row /\ result' = result /\ pc' = pc
    BY <1>7 DEF vars
  <2> QED
    BY <1>1, <2>1 DEF Groups!gvars, MapGroups
<1> QED
  BY <1>2, <1>3, <1>4, <1>5, <1>6, <1>7 DEF Next, Step, EmplaceStep

LEMMA InitGroups == Init => Groups!Init
<1> SUFFICES ASSUME Init PROVE Groups!Init
  OBVIOUS
<1>1. chunks = AllocChunks(num_chunks) /\ num_chunks \in Nat \ {0}
  BY InitType DEF Init, ExpandInit, TypeOK
<1>2. Held = {}
  BY <1>1, AllocFacts DEF Init, ExpandInit, Pending, Held
<1> QED
  BY <1>2 DEF Init, ExpandInit, Groups!Init, NoResult

(***************************************************************************)
(* Whatever the hashes, the tags and the rehashes do, a caller of emplace   *)
(* sees a table that answers a key with its group, makes one when there is  *)
(* none, and numbers the groups in the order they are made.                 *)
(***************************************************************************)
THEOREM Implements == Spec => FindsOrCreates
<1>1. Init => Groups!Init
  BY InitGroups
<1>2. TypeOK /\ IInv /\ OwnInv /\ OneGroupPerKey /\ TypeOK' /\ OneGroupPerKey' /\ [Next]_vars
        => [Groups!Next]_(Groups!gvars)
  BY StepIsAnswer
<1>3. Spec => [](TypeOK /\ IInv /\ OneGroupPerKey)
  BY IInvCorrect, IInvOneGroup, PTL
<1>4. Spec => []OwnInv
  <2>1. Init => OwnInv
    BY InitOwn
  <2>2. TypeOK /\ OwnInv /\ [Next]_vars => OwnInv'
    BY NextOwn
  <2> QED
    BY <2>1, <2>2, TypeCorrect, PTL DEF Spec
<1> QED
  BY <1>1, <1>2, <1>3, <1>4, PTL DEF Spec, FindsOrCreates, Groups!Spec
=============================================================================
