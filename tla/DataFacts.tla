----------------------------- MODULE DataFacts -----------------------------
(***************************************************************************)
(* Facts that the proofs about several components need: induction over the  *)
(* natural numbers, what the swap partition of BatchCompare does to a list, *)
(* counting, and sums.                                                      *)
(***************************************************************************)
EXTENDS BatchCompare, Sums, FiniteSetTheorems, WellFoundedInduction, TLAPS

-----------------------------------------------------------------------------
(* Induction. *)

LEMMA LeastNat ==
    ASSUME NEW T \in SUBSET Nat, T # {}
    PROVE  \E x \in T : \A y \in T : x <= y
<1> DEFINE R == {p \in Nat \X Nat : p[1] < p[2]}
<1>1. IsWellFoundedOn(R, Nat)
  BY NatLessThanWellFounded DEF OpToRel
<1> HIDE DEF R
<1>2. PICK x \in T : \A y \in T : <<y, x>> \notin R
  BY <1>1, WFMin
<1>3. \A y \in T : ~(y < x)
  BY <1>2 DEF R
<1> QED
  BY <1>2, <1>3

(* A set of naturals with 0 that is closed under adding one is Nat. *)
LEMMA NatInd ==
    ASSUME NEW S \in SUBSET Nat, 0 \in S, \A n \in S : n + 1 \in S
    PROVE  S = Nat
<1> SUFFICES ASSUME Nat \ S # {} PROVE FALSE
  OBVIOUS
<1>1. PICK x \in Nat \ S : \A y \in Nat \ S : x <= y
  BY LeastNat
<1>2. x - 1 \in Nat \ S
  BY <1>1
<1> QED
  BY <1>1, <1>2

-----------------------------------------------------------------------------
(* The rows of a list of n entries. *)
RowsIn(q, n) == {q[k] : k \in 1 .. n}

(* A list of n entries that names no row twice. *)
Listing(q, n) ==
    /\ q \in [1 .. n -> RowsIn(q, n)]
    /\ \A k, m \in 1 .. n : q[k] = q[m] => k = m

(***************************************************************************)
(* The swap partition.  Partitioned(p, n, j, F, E, U): p lists n different  *)
(* rows, its front consists of rows of F, what is behind the front is       *)
(* outside E, and the part of it before j outside U.                        *)
(***************************************************************************)
Partitioned(p, n, j, F, E, U) ==
    /\ p = [indices |-> p.indices, from |-> p.from]
    /\ Listing(p.indices, n)
    /\ p.from \in Nat /\ p.from < j
    /\ \A k \in 1 .. p.from : p.indices[k] \in F
    /\ \A k \in p.from + 1 .. n : p.indices[k] \notin E
    /\ \A k \in p.from + 1 .. j - 1 : p.indices[k] \notin U

(* A swap leaves the other entries alone and keeps the rows of the list. *)
LEMMA SwapFacts ==
    ASSUME NEW n \in Nat, NEW q, Listing(q, n), NEW x \in 1 .. n, NEW y \in 1 .. n
    PROVE  /\ Listing(Swap(q, x, y), n)
           /\ Swap(q, x, y)[x] = q[y] /\ Swap(q, x, y)[y] = q[x]
           /\ \A k \in 1 .. n : k # x /\ k # y => Swap(q, x, y)[k] = q[k]
           /\ RowsIn(Swap(q, x, y), n) = RowsIn(q, n)
<1> DEFINE R == RowsIn(q, n)
           r == Swap(q, x, y)
<1>1. q \in [1 .. n -> R] /\ \A k, m \in 1 .. n : q[k] = q[m] => k = m
  BY DEF Listing
<1> HIDE DEF R
<1>2. r \in [1 .. n -> R]
  BY <1>1 DEF Swap
<1>3. r[x] = q[y] /\ r[y] = q[x] /\ \A k \in 1 .. n : k # x /\ k # y => r[k] = q[k]
  BY <1>1 DEF Swap
<1> HIDE DEF r
<1>4. \A k \in 1 .. n : \E m \in 1 .. n : r[m] = q[k]
  BY <1>3
<1>5. \A k \in 1 .. n : \E m \in 1 .. n : r[k] = q[m]
  BY <1>3
<1>6. RowsIn(r, n) = R
  <2>1. ASSUME NEW v \in RowsIn(r, n) PROVE v \in RowsIn(q, n)
    <3>1. PICK k \in 1 .. n : v = r[k]
      BY DEF RowsIn
    <3>2. PICK m \in 1 .. n : r[k] = q[m]
      BY <1>5
    <3> QED
      BY <3>1, <3>2 DEF RowsIn
  <2>2. ASSUME NEW v \in RowsIn(q, n) PROVE v \in RowsIn(r, n)
    <3>1. PICK k \in 1 .. n : v = q[k]
      BY DEF RowsIn
    <3>2. PICK m \in 1 .. n : r[m] = q[k]
      BY <1>4
    <3> QED
      BY <3>1, <3>2 DEF RowsIn
  <2> QED
    BY <2>1, <2>2 DEF R
<1>7. ASSUME NEW k \in 1 .. n, NEW m \in 1 .. n, r[k] = r[m] PROVE k = m
  BY <1>1, <1>3, <1>7
<1> QED
  BY <1>2, <1>3, <1>6, <1>7 DEF Listing, r, R

(* One entry more is partitioned, and the entries behind it are untouched. *)
LEMMA OneMore ==
    ASSUME NEW n \in Nat, NEW j \in 1 .. n, NEW p, NEW F, NEW E, NEW U, U \subseteq F,
           Partitioned(p, n, j, F, E, U),
           NEW differ, j \in differ <=> p.indices[j] \in U
    PROVE  /\ Partitioned(MoveLane(p, j, differ), n, j + 1, F, E, U)
           /\ \A k \in j + 1 .. n : MoveLane(p, j, differ).indices[k] = p.indices[k]
           /\ RowsIn(MoveLane(p, j, differ).indices, n) = RowsIn(p.indices, n)
<1> DEFINE q == p.indices
           f == p.from
<1>1. /\ Listing(q, n) /\ f \in Nat /\ f < j
      /\ \A k \in 1 .. f : q[k] \in F
      /\ \A k \in f + 1 .. n : q[k] \notin E
      /\ \A k \in f + 1 .. j - 1 : q[k] \notin U
      /\ p = [indices |-> q, from |-> f]
      /\ j \in differ <=> q[j] \in U
  BY DEF Partitioned
<1> DEFINE m == MoveLane(p, j, differ)
<1>2. CASE j \notin differ
  <2>1. m = p
    BY <1>2 DEF MoveLane
  <2> HIDE DEF m, q, f
  <2>2. ASSUME NEW k \in f + 1 .. j PROVE q[k] \notin U
    <3>1. CASE k = j
      BY <1>1, <1>2, <3>1
    <3>2. CASE k # j
      <4>1. k \in f + 1 .. j - 1
        BY <1>1, <3>2
      <4> QED
        BY <1>1, <4>1
    <3> QED
      BY <3>1, <3>2
  <2>3. f < j + 1 /\ (j + 1) - 1 = j
    BY <1>1
  <2>4. Partitioned(p, n, j + 1, F, E, U)
    BY <1>1, <2>2, <2>3 DEF Partitioned, q, f
  <2> QED
    BY <2>1, <2>4 DEF m
<1>3. CASE j \in differ
  <2> DEFINE r == Swap(q, j, f + 1)
  <2>1. m = [indices |-> r, from |-> f + 1]
    BY <1>3 DEF MoveLane, ToFront
  <2>2. f + 1 \in 1 .. n
    BY <1>1
  <2> HIDE DEF m, q, f
  <2>3. /\ Listing(r, n)
        /\ r[j] = q[f + 1] /\ r[f + 1] = q[j]
        /\ \A k \in 1 .. n : k # j /\ k # f + 1 => r[k] = q[k]
        /\ RowsIn(r, n) = RowsIn(q, n)
    <3>1. Listing(q, n)
      BY <1>1
    <3> QED
      BY <2>2, <3>1, SwapFacts
  <2> HIDE DEF r
  <2>4. ASSUME NEW k \in 1 .. f + 1 PROVE r[k] \in F
    <3>1. q[j] \in F
      BY <1>1, <1>3
    <3>2. CASE k = f + 1
      BY <2>3, <3>1, <3>2
    <3>3. CASE k # f + 1
      <4>1. k \in 1 .. f /\ k \in 1 .. n /\ k # j
        BY <1>1, <2>2, <3>3
      <4> QED
        BY <1>1, <2>3, <3>3, <4>1
    <3> QED
      BY <3>2, <3>3
  <2>5. ASSUME NEW G, \A k \in f + 1 .. j - 1 : q[k] \notin G,
               NEW k \in f + 2 .. j, k = j => f + 1 <= j - 1 PROVE r[k] \notin G
    <3>1. CASE k = j
      <4>1. f + 1 \in f + 1 .. j - 1
        BY <1>1, <2>5, <3>1
      <4> QED
        BY <2>3, <2>5, <3>1, <4>1
    <3>2. CASE k # j
      <4>1. f \in Nat /\ j \in Nat /\ j <= n
        BY <1>1
      <4>2. k \in f + 1 .. j - 1 /\ k \in 1 .. n /\ k # f + 1
        BY <3>2, <4>1
      <4> QED
        BY <2>3, <2>5, <3>2, <4>2
    <3> QED
      BY <3>1, <3>2
  <2>6. \A k \in f + 2 .. j : k = j => f + 1 <= j - 1
    BY <1>1
  <2>7. \A k \in f + 2 .. j : r[k] \notin U
    BY <1>1, <2>5, <2>6
  <2>8. \A k \in j + 1 .. n : r[k] = q[k]
    BY <1>1, <2>2, <2>3
  <2>9. ASSUME NEW k \in f + 2 .. n PROVE r[k] \notin E
    <3>1. \A x \in f + 1 .. j - 1 : q[x] \notin E
      BY <1>1
    <3>2. CASE k \in j + 1 .. n
      <4>1. k \in f + 1 .. n
        BY <1>1, <3>2
      <4> QED
        BY <1>1, <2>8, <3>2, <4>1
    <3>3. CASE k \in f + 2 .. j
      BY <2>5, <2>6, <3>1, <3>3
    <3> QED
      BY <1>1, <3>2, <3>3
  <2>10. m.indices = r /\ m.from = f + 1 /\ m = [indices |-> m.indices, from |-> m.from]
    BY <2>1
  <2>11. f + 1 \in Nat /\ f + 1 < j + 1 /\ (f + 1) + 1 = f + 2 /\ (j + 1) - 1 = j
    BY <1>1
  <2>12. Partitioned(m, n, j + 1, F, E, U)
    <3>1. m.from + 1 = f + 2 /\ 1 .. m.from = 1 .. f + 1
      BY <1>1, <2>10, <2>11
    <3>2. /\ \A k \in 1 .. m.from : m.indices[k] \in F
          /\ \A k \in m.from + 1 .. n : m.indices[k] \notin E
          /\ \A k \in m.from + 1 .. (j + 1) - 1 : m.indices[k] \notin U
      BY <2>4, <2>7, <2>9, <2>10, <2>11, <3>1
    <3> QED
      BY <1>1, <2>3, <2>10, <2>11, <3>2 DEF Partitioned
  <2> QED
    BY <2>3, <2>8, <2>10, <2>12 DEF m, q
<1> QED
  BY <1>2, <1>3

(* A scalar iteration is a loop of one lane. *)
LEMMA VisitIsLane ==
    ASSUME NEW p, NEW j, NEW U
    PROVE  VisitOne(p, j, U) = MoveLane(p, j, {k \in {j} : p.indices[k] \in U})
BY DEF VisitOne, MoveLane

(* The entries that ComparePass visits one after the other. *)
VisitedFrom(v, q, base, U, m) ==
    v = [n \in 0 .. m |-> IF n = 0 THEN [indices |-> q, from |-> base]
                          ELSE VisitOne(v[n - 1], base + n, U)]

LEMMA VisitedExists ==
    ASSUME NEW q, NEW base, NEW U, NEW m \in Nat
    PROVE  \E v : VisitedFrom(v, q, base, U, m)
<1> DEFINE T == {n \in Nat : \E v : VisitedFrom(v, q, base, U, n)}
<1>1. 0 \in T
  <2> DEFINE v == [n \in 0 .. 0 |-> [indices |-> q, from |-> base]]
  <2>1. VisitedFrom(v, q, base, U, 0)
    BY DEF VisitedFrom
  <2> QED
    BY <2>1
<1>2. ASSUME NEW n \in T PROVE n + 1 \in T
  <2>1. PICK v : VisitedFrom(v, q, base, U, n)
    OBVIOUS
  <2> DEFINE w == [k \in 0 .. n + 1 |-> IF k = n + 1 THEN VisitOne(v[n], base + (n + 1), U)
                                        ELSE v[k]]
  <2>2. ASSUME NEW k \in 0 .. n + 1
        PROVE  w[k] = IF k = 0 THEN [indices |-> q, from |-> base]
                      ELSE VisitOne(w[k - 1], base + k, U)
    <3>1. n \in Nat /\ k \in Nat
      OBVIOUS
    <3>2. CASE k = 0
      BY <2>1, <3>1, <3>2 DEF VisitedFrom
    <3>3. CASE k # 0 /\ k # n + 1
      <4>1. k \in 0 .. n /\ k - 1 \in 0 .. n /\ k - 1 \in 0 .. n + 1 /\ k - 1 # n + 1
        BY <3>1, <3>3
      <4>2. w[k] = v[k] /\ w[k - 1] = v[k - 1]
        BY <3>3, <4>1
      <4>3. v[k] = VisitOne(v[k - 1], base + k, U)
        BY <2>1, <3>3, <4>1 DEF VisitedFrom
      <4> QED
        BY <3>3, <4>2, <4>3
    <3>4. CASE k = n + 1
      <4>1. k - 1 = n /\ n \in 0 .. n + 1 /\ n # n + 1 /\ k # 0
        BY <3>1, <3>4
      <4>2. w[n] = v[n] /\ w[k] = VisitOne(v[n], base + (n + 1), U)
        BY <3>4, <4>1
      <4> QED
        BY <3>4, <4>1, <4>2
    <3> QED
      BY <3>2, <3>3, <3>4
  <2>3. w = [k \in 0 .. n + 1 |-> w[k]]
    OBVIOUS
  <2> HIDE DEF w
  <2>4. VisitedFrom(w, q, base, U, n + 1)
    BY <2>2, <2>3 DEF VisitedFrom
  <2> QED
    BY <2>4
<1>3. T = Nat
  BY <1>1, <1>2, NatInd
<1> QED
  BY <1>3

(***************************************************************************)
(* A column's pass partitions the whole list: the front grows by rows that  *)
(* differ in it, and none is left behind the front.                         *)
(***************************************************************************)
LEMMA PassPartitions ==
    ASSUME NEW n \in Nat, NEW q, Len(q) = n, NEW base \in 0 .. n,
           NEW F, NEW E, NEW U, U \subseteq F,
           Partitioned([indices |-> q, from |-> base], n, base + 1, F, E, U)
    PROVE  /\ Partitioned(ComparePass(q, base, U), n, n + 1, F, E, U)
           /\ RowsIn(ComparePass(q, base, U).indices, n) = RowsIn(q, n)
<1> DEFINE m == n - base
           v == CHOOSE v : VisitedFrom(v, q, base, U, m)
<1>1. m \in Nat
  OBVIOUS
<1>2. VisitedFrom(v, q, base, U, m)
  BY <1>1, VisitedExists
<1>3. ComparePass(q, base, U) = v[m]
  BY DEF ComparePass, VisitedFrom
<1> HIDE DEF v
<1> DEFINE Good(k) == /\ Partitioned(v[k], n, base + k + 1, F, E, U)
                      /\ RowsIn(v[k].indices, n) = RowsIn(q, n)
           T == {k \in Nat : k <= m => Good(k)}
<1>4. 0 \in T
  BY <1>1, <1>2 DEF VisitedFrom
<1>5. ASSUME NEW k \in T PROVE k + 1 \in T
  <2> SUFFICES ASSUME k + 1 <= m PROVE Good(k + 1)
    OBVIOUS
  <2>1. k \in Nat /\ k + 1 \in 0 .. m /\ (k + 1) - 1 = k /\ k + 1 # 0 /\ k <= m
    BY <1>1
  <2>2. Good(k)
    BY <2>1
  <2> DEFINE j == base + (k + 1)
             lane == {x \in {j} : v[k].indices[x] \in U}
  <2>3. v[k + 1] = MoveLane(v[k], j, lane)
    BY <1>2, <2>1, VisitIsLane DEF VisitedFrom
  <2>4. j \in 1 .. n /\ j = base + k + 1 /\ j + 1 = base + (k + 1) + 1
    BY <1>1, <2>1
  <2>5. j \in lane <=> v[k].indices[j] \in U
    OBVIOUS
  <2> HIDE DEF j, lane
  <2>6. Partitioned(v[k], n, j, F, E, U)
    BY <2>2, <2>4
  <2>7. /\ Partitioned(MoveLane(v[k], j, lane), n, j + 1, F, E, U)
        /\ RowsIn(MoveLane(v[k], j, lane).indices, n) = RowsIn(v[k].indices, n)
    BY <2>4, <2>5, <2>6, OneMore
  <2> QED
    BY <2>2, <2>3, <2>4, <2>7
<1>6. T = Nat
  <2> HIDE DEF Good
  <2> QED
    BY <1>4, <1>5, NatInd
<1>7. Good(m) /\ base + m + 1 = n + 1
  BY <1>1, <1>6
<1> QED
  BY <1>3, <1>7

-----------------------------------------------------------------------------
(* Counting. *)

(* A one-to-one naming has as many names as places. *)
LEMMA NamedOnce ==
    ASSUME NEW n \in Nat, NEW S \in SUBSET (1 .. n), NEW f, NEW T,
           T = {f[i] : i \in S},
           \A i, j \in S : f[i] = f[j] => i = j
    PROVE  Cardinality(T) = Cardinality(S) /\ IsFiniteSet(T)
<1>1. IsFiniteSet(S)
  <2>1. IsFiniteSet(1 .. n)
    BY FS_Interval
  <2> QED
    BY <2>1, FS_Subset
<1> DEFINE g == [i \in S |-> f[i]]
<1>2. g \in Bijection(S, T)
  <2>1. g \in [S -> T]
    OBVIOUS
  <2>2. \A i, j \in S : g[i] = g[j] => i = j
    OBVIOUS
  <2>3. \A t \in T : \E i \in S : g[i] = t
    OBVIOUS
  <2> HIDE DEF g
  <2> QED
    BY <2>1, <2>2, <2>3 DEF Bijection, Injection, Surjection, IsInjective
<1> HIDE DEF g
<1>3. ExistsBijection(S, T)
  BY <1>2 DEF ExistsBijection
<1>4. IsFiniteSet(T) /\ Cardinality(T) = Cardinality(S)
  BY <1>1, <1>3, FS_Bijection, Zenon
<1> QED
  BY <1>4

-----------------------------------------------------------------------------
(* Sums. *)

(* The partial sums of f up to the m-th. *)
PartialSums(s, f, m) == s = [k \in 0 .. m |-> IF k = 0 THEN 0 ELSE s[k - 1] + f[k]]

LEMMA PartialSumsExist ==
    ASSUME NEW f, NEW m \in Nat
    PROVE  \E s : PartialSums(s, f, m)
<1> DEFINE T == {n \in Nat : \E s : PartialSums(s, f, n)}
<1>1. 0 \in T
  <2> DEFINE s == [k \in 0 .. 0 |-> 0]
  <2>1. PartialSums(s, f, 0)
    BY DEF PartialSums
  <2> QED
    BY <2>1
<1>2. ASSUME NEW n \in T PROVE n + 1 \in T
  <2>1. PICK s : PartialSums(s, f, n)
    OBVIOUS
  <2> DEFINE t == [k \in 0 .. n + 1 |-> IF k = n + 1 THEN s[n] + f[n + 1] ELSE s[k]]
  <2>2. ASSUME NEW k \in 0 .. n + 1
        PROVE  t[k] = IF k = 0 THEN 0 ELSE t[k - 1] + f[k]
    <3>1. n \in Nat /\ k \in Nat
      OBVIOUS
    <3>2. CASE k = 0
      BY <2>1, <3>1, <3>2 DEF PartialSums
    <3>3. CASE k # 0 /\ k # n + 1
      <4>1. k \in 0 .. n /\ k - 1 \in 0 .. n /\ k - 1 \in 0 .. n + 1 /\ k - 1 # n + 1
        BY <3>1, <3>3
      <4>2. t[k] = s[k] /\ t[k - 1] = s[k - 1]
        BY <3>3, <4>1
      <4>3. s[k] = s[k - 1] + f[k]
        BY <2>1, <3>3, <4>1 DEF PartialSums
      <4> QED
        BY <3>3, <4>2, <4>3
    <3>4. CASE k = n + 1
      <4>1. k - 1 = n /\ n \in 0 .. n + 1 /\ n # n + 1 /\ k # 0
        BY <3>1, <3>4
      <4>2. t[n] = s[n] /\ t[k] = s[n] + f[n + 1]
        BY <3>4, <4>1
      <4> QED
        BY <3>4, <4>1, <4>2
    <3> QED
      BY <3>2, <3>3, <3>4
  <2>3. t = [k \in 0 .. n + 1 |-> t[k]]
    OBVIOUS
  <2> HIDE DEF t
  <2>4. PartialSums(t, f, n + 1)
    BY <2>2, <2>3 DEF PartialSums
  <2> QED
    BY <2>4
<1>3. T = Nat
  BY <1>1, <1>2, NatInd
<1> QED
  BY <1>3

LEMMA SumIsPartial ==
    ASSUME NEW f, NEW m \in Nat
    PROVE  \E s : PartialSums(s, f, m) /\ SumTo(f, m) = s[m]
<1> DEFINE s == CHOOSE s : PartialSums(s, f, m)
<1>1. PartialSums(s, f, m)
  BY PartialSumsExist
<1>2. SumTo(f, m) = s[m]
  BY DEF SumTo, PartialSums
<1> QED
  BY <1>1, <1>2

(* Two lists of partial sums agree where both are. *)
LEMMA PartialSumsAgree ==
    ASSUME NEW f, NEW m \in Nat, NEW n \in Nat, NEW s, NEW t,
           PartialSums(s, f, m), PartialSums(t, f, n), NEW k \in Nat, k <= m, k <= n
    PROVE  s[k] = t[k]
<1> DEFINE T == {x \in Nat : x <= k => s[x] = t[x]}
<1>1. 0 \in T
  BY DEF PartialSums
<1>2. ASSUME NEW x \in T PROVE x + 1 \in T
  <2> SUFFICES ASSUME x + 1 <= k PROVE s[x + 1] = t[x + 1]
    OBVIOUS
  <2>1. x + 1 \in 0 .. m /\ x + 1 \in 0 .. n /\ x + 1 # 0 /\ (x + 1) - 1 = x /\ x <= k
    OBVIOUS
  <2>2. s[x + 1] = s[x] + f[x + 1]
    BY <2>1 DEF PartialSums
  <2>3. t[x + 1] = t[x] + f[x + 1]
    BY <2>1 DEF PartialSums
  <2> QED
    BY <2>1, <2>2, <2>3
<1>3. T = Nat
  BY <1>1, <1>2, NatInd
<1> QED
  BY <1>3

LEMMA SumZero ==
    ASSUME NEW f
    PROVE  SumTo(f, 0) = 0
<1>1. PICK s : PartialSums(s, f, 0) /\ SumTo(f, 0) = s[0]
  BY SumIsPartial
<1> QED
  BY <1>1 DEF PartialSums

LEMMA SumStep ==
    ASSUME NEW f, NEW n \in Nat
    PROVE  SumTo(f, n + 1) = SumTo(f, n) + f[n + 1]
<1>1. PICK s : PartialSums(s, f, n) /\ SumTo(f, n) = s[n]
  BY SumIsPartial
<1>2. PICK t : PartialSums(t, f, n + 1) /\ SumTo(f, n + 1) = t[n + 1]
  BY SumIsPartial
<1>3. s[n] = t[n]
  BY <1>1, <1>2, PartialSumsAgree
<1>4. n + 1 \in 0 .. n + 1 /\ n + 1 # 0 /\ (n + 1) - 1 = n
  OBVIOUS
<1>5. t[n + 1] = t[n] + f[n + 1]
  BY <1>2, <1>4 DEF PartialSums
<1> QED
  BY <1>1, <1>2, <1>3, <1>5

(* f is a number up to its n-th place. *)
NumbersTo(f, n) == \A k \in 1 .. n : f[k] \in Nat

LEMMA SumNat ==
    ASSUME NEW f, NEW n \in Nat, NumbersTo(f, n)
    PROVE  SumTo(f, n) \in Nat
<1> DEFINE T == {k \in Nat : k <= n => SumTo(f, k) \in Nat}
<1>1. 0 \in T
  BY SumZero
<1>2. ASSUME NEW k \in T PROVE k + 1 \in T
  <2> SUFFICES ASSUME k + 1 <= n PROVE SumTo(f, k + 1) \in Nat
    OBVIOUS
  <2>1. k \in Nat /\ k <= n /\ k + 1 \in 1 .. n
    OBVIOUS
  <2>2. SumTo(f, k) \in Nat /\ f[k + 1] \in Nat
    BY <2>1 DEF NumbersTo
  <2> QED
    BY <2>1, <2>2, SumStep
<1>3. T = Nat
  BY <1>1, <1>2, NatInd
<1> QED
  BY <1>3

LEMMA SumGrows ==
    ASSUME NEW f, NEW n \in Nat, NumbersTo(f, n), NEW k \in 0 .. n
    PROVE  SumTo(f, k) \in Nat /\ SumTo(f, n) \in Nat /\ SumTo(f, k) <= SumTo(f, n)
<1>1. ASSUME NEW x \in 0 .. n PROVE SumTo(f, x) \in Nat
  <2>1. x \in Nat /\ NumbersTo(f, x)
    BY DEF NumbersTo
  <2> QED
    BY <2>1, SumNat
<1> DEFINE T == {x \in Nat : k + x <= n => SumTo(f, k) <= SumTo(f, k + x)}
<1>2. 0 \in T
  BY <1>1
<1>3. ASSUME NEW x \in T PROVE x + 1 \in T
  <2> SUFFICES ASSUME k + (x + 1) <= n PROVE SumTo(f, k) <= SumTo(f, k + (x + 1))
    OBVIOUS
  <2>1. x \in Nat /\ k \in Nat /\ k + x \in 0 .. n /\ (k + x) + 1 \in 1 .. n
    OBVIOUS
  <2>2. SumTo(f, k) <= SumTo(f, k + x) /\ f[(k + x) + 1] \in Nat
    BY <2>1 DEF NumbersTo
  <2>3. SumTo(f, (k + x) + 1) = SumTo(f, k + x) + f[(k + x) + 1]
    BY <2>1, SumStep
  <2>4. k + (x + 1) = (k + x) + 1
    BY <2>1
  <2>5. SumTo(f, k + x) \in Nat /\ SumTo(f, k) \in Nat
    BY <1>1, <2>1
  <2> QED
    BY <2>2, <2>3, <2>4, <2>5
<1>4. T = Nat
  BY <1>2, <1>3, NatInd
<1>5. n - k \in Nat /\ k + (n - k) = n
  OBVIOUS
<1>6. n - k \in T
  BY <1>4, <1>5
<1> QED
  BY <1>1, <1>5, <1>6

LEMMA SumSame ==
    ASSUME NEW f, NEW g, NEW n \in Nat, \A k \in 1 .. n : f[k] = g[k]
    PROVE  SumTo(f, n) = SumTo(g, n)
<1> DEFINE T == {k \in Nat : k <= n => SumTo(f, k) = SumTo(g, k)}
<1>1. 0 \in T
  BY SumZero
<1>2. ASSUME NEW k \in T PROVE k + 1 \in T
  <2> SUFFICES ASSUME k + 1 <= n PROVE SumTo(f, k + 1) = SumTo(g, k + 1)
    OBVIOUS
  <2>1. k \in Nat /\ k <= n /\ k + 1 \in 1 .. n
    OBVIOUS
  <2> QED
    BY <2>1, SumStep
<1>3. T = Nat
  BY <1>1, <1>2, NatInd
<1> QED
  BY <1>3

(* A number added to one of the terms is added to the sum. *)
LEMMA SumChange ==
    ASSUME NEW f, NEW g, NEW n \in Nat, NumbersTo(f, n), NEW x \in 1 .. n, NEW d \in Nat,
           g[x] = f[x] + d, \A k \in 1 .. n : k # x => g[k] = f[k]
    PROVE  SumTo(g, n) = SumTo(f, n) + d
<1>1. ASSUME NEW k \in 0 .. n PROVE SumTo(f, k) \in Nat
  BY SumGrows
<1> DEFINE T == {k \in Nat : k <= n => SumTo(g, k) = SumTo(f, k) + (IF k < x THEN 0 ELSE d)}
<1>2. 0 \in T
  BY SumZero
<1>3. ASSUME NEW k \in T PROVE k + 1 \in T
  <2> SUFFICES ASSUME k + 1 <= n
               PROVE  SumTo(g, k + 1) = SumTo(f, k + 1) + (IF k + 1 < x THEN 0 ELSE d)
    OBVIOUS
  <2>1. k \in Nat /\ k <= n /\ k + 1 \in 1 .. n /\ k \in 0 .. n
    OBVIOUS
  <2>2. /\ SumTo(g, k + 1) = SumTo(g, k) + g[k + 1]
        /\ SumTo(f, k + 1) = SumTo(f, k) + f[k + 1]
    BY <2>1, SumStep
  <2>3. f[k + 1] \in Nat /\ SumTo(f, k) \in Nat
    BY <1>1, <2>1 DEF NumbersTo
  <2>4. CASE k + 1 = x
    BY <2>1, <2>2, <2>3, <2>4
  <2>5. CASE k + 1 # x
    BY <2>1, <2>2, <2>3, <2>5
  <2> QED
    BY <2>4, <2>5
<1>4. T = Nat
  BY <1>2, <1>3, NatInd
<1> QED
  BY <1>4


LEMMA SumNothing ==
    ASSUME NEW f, NEW n \in Nat, \A k \in 1 .. n : f[k] = 0
    PROVE  SumTo(f, n) = 0
<1> DEFINE T == {k \in Nat : k <= n => SumTo(f, k) = 0}
<1>1. 0 \in T
  BY SumZero
<1>2. ASSUME NEW k \in T PROVE k + 1 \in T
  <2> SUFFICES ASSUME k + 1 <= n PROVE SumTo(f, k + 1) = 0
    OBVIOUS
  <2>1. k \in Nat /\ k <= n /\ k + 1 \in 1 .. n
    OBVIOUS
  <2> QED
    BY <2>1, SumStep
<1>3. T = Nat
  BY <1>1, <1>2, NatInd
<1> QED
  BY <1>3
=============================================================================
