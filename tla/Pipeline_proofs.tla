-------------------------- MODULE Pipeline_proofs --------------------------
(***************************************************************************)
(* Proofs about the group-by pipelines, the Rust one of SerializeHandler    *)
(* and the C++ one of CppSerializeHandler, and their callers, for any       *)
(* columns, any keys and hash function, any aggregates and any number and   *)
(* kind of batches.                                                         *)
(***************************************************************************)
EXTENDS CppPipelineWorkload, EmplaceBatchFull_proofs

USE TableAssumption, HashAssumption

-----------------------------------------------------------------------------
(* Sums over the rows of a key. *)

(* A multiple of w does not show in a remainder by w. *)
LEMMA MultipleGone ==
    ASSUME NEW w \in Nat \ {0}, NEW a \in Nat, NEW q \in Nat
    PROVE  (a + w * q) % w = a % w
<1> DEFINE p == a \div w
           r == a % w
<1>1. p \in Nat /\ r \in 0 .. w - 1 /\ a = w * p + r
  OBVIOUS
<1> HIDE DEF p, r
<1>2. a + w * q = w * (p + q) + r /\ p + q \in Nat
  BY <1>1
<1>3. (w * (p + q) + r) % w = r
  BY <1>1, <1>2, ModUnique
<1> QED
  BY <1>2, <1>3 DEF r

(* A term that is increased modulo w increases the sum modulo w. *)
Wrapped(f, g, n, x, d, w) ==
    g[x] = (f[x] + d) % w /\ \A k \in 1 .. n : k # x => g[k] = f[k]

LEMMA SumWraps ==
    ASSUME NEW f, NEW g, NEW n \in Nat, NumbersTo(f, n), NEW x \in 1 .. n, NEW d \in Nat,
           NEW w \in Nat \ {0}, Wrapped(f, g, n, x, d, w)
    PROVE  SumTo(g, n) \in Nat /\ SumTo(g, n) % w = (SumTo(f, n) + d) % w
<1>w. g[x] = (f[x] + d) % w /\ \A k \in 1 .. n : k # x => g[k] = f[k]
  BY DEF Wrapped
<1> DEFINE a == f[x] + d
           q == a \div w
           h == [k \in 1 .. n |-> IF k = x THEN a ELSE f[k]]
<1>1. a \in Nat /\ q \in Nat /\ a % w \in Nat /\ a = (a % w) + w * q /\ w * q \in Nat
  <2>1. a \in Nat
    BY DEF NumbersTo
  <2> HIDE DEF a
  <2> QED
    BY <2>1
<1>2. h[x] = a /\ \A k \in 1 .. n : k # x => h[k] = f[k]
  OBVIOUS
<1>3. g[x] = a % w
  BY <1>w
<1> HIDE DEF q, h
<1>4. SumTo(h, n) = SumTo(f, n) + d
  BY <1>2, SumChange DEF a
<1> HIDE DEF a
<1>5. NumbersTo(g, n)
  BY <1>1, <1>3, <1>w DEF NumbersTo
<1>6. SumTo(h, n) = SumTo(g, n) + w * q
  <2> DEFINE e == w * q
  <2>1. e \in Nat /\ h[x] = g[x] + e /\ \A k \in 1 .. n : k # x => h[k] = g[k]
    BY <1>1, <1>2, <1>3, <1>w
  <2> HIDE DEF e
  <2>2. SumTo(h, n) = SumTo(g, n) + e
    BY <1>5, <2>1, SumChange
  <2> QED
    BY <2>2 DEF e
<1>7. SumTo(g, n) \in Nat
  BY <1>5, SumNat
<1>8. q \in Nat
  BY <1>1
<1>9. \A z \in Nat : (z + w * q) % w = z % w
  BY <1>8, MultipleGone
<1>10. (SumTo(g, n) + w * q) % w = SumTo(g, n) % w
  BY <1>7, <1>9
<1> QED
  BY <1>4, <1>6, <1>7, <1>10

(* The values v of the rows of q that belong to key k and are in S. *)
Terms(q, v, S, k) == [i \in DOMAIN q |-> IF i \in S /\ q[i] = k THEN v[i] ELSE 0]
TermsTotal(q, v, S, k) == SumTo(Terms(q, v, S, k), Len(q))

(* What one row brings to key k. *)
Share(key, value, k) == IF key = k THEN value ELSE 0

Valued(q, v) == \A i \in DOMAIN q : v[i] \in Nat

LEMMA TermsNumbers ==
    ASSUME NEW K, NEW q \in Seq(K), NEW v, Valued(q, v), NEW S, NEW k
    PROVE  /\ Len(q) \in Nat /\ DOMAIN q = 1 .. Len(q)
           /\ NumbersTo(Terms(q, v, S, k), Len(q))
           /\ TermsTotal(q, v, S, k) \in Nat
<1>1. Len(q) \in Nat /\ DOMAIN q = 1 .. Len(q)
  OBVIOUS
<1>2. NumbersTo(Terms(q, v, S, k), Len(q))
  BY <1>1 DEF NumbersTo, Terms, Valued
<1> QED
  BY <1>1, <1>2, SumNat DEF TermsTotal

(* The total is that of the rows in S, however the rest is spelled. *)
LEMMA TermsSame ==
    ASSUME NEW K, NEW q \in Seq(K), NEW v, NEW u, NEW S, NEW T, NEW k,
           \A i \in DOMAIN q : (i \in S <=> i \in T) /\ (i \in S => v[i] = u[i])
    PROVE  TermsTotal(q, v, S, k) = TermsTotal(q, u, T, k)
<1>1. Len(q) \in Nat /\ DOMAIN q = 1 .. Len(q)
  OBVIOUS
<1>2. \A i \in 1 .. Len(q) : Terms(q, v, S, k)[i] = Terms(q, u, T, k)[i]
  BY <1>1 DEF Terms
<1> QED
  BY <1>1, <1>2, SumSame DEF TermsTotal

LEMMA TermsNothing ==
    ASSUME NEW K, NEW q \in Seq(K), NEW v, NEW S, NEW k, \A i \in DOMAIN q : i \notin S
    PROVE  TermsTotal(q, v, S, k) = 0
<1>1. Len(q) \in Nat /\ DOMAIN q = 1 .. Len(q)
  OBVIOUS
<1>2. \A i \in 1 .. Len(q) : Terms(q, v, S, k)[i] = 0
  BY <1>1 DEF Terms
<1> QED
  BY <1>1, <1>2, SumNothing DEF TermsTotal

(* A row that leaves S takes its share with it. *)
LEMMA TermsTaken ==
    ASSUME NEW K, NEW q \in Seq(K), NEW v, Valued(q, v), NEW S, NEW T, NEW k,
           NEW r \in DOMAIN q, r \in S, r \notin T,
           \A i \in DOMAIN q : i # r => (i \in S <=> i \in T)
    PROVE  TermsTotal(q, v, S, k) = TermsTotal(q, v, T, k) + Share(q[r], v[r], k)
<1>1. /\ Len(q) \in Nat /\ DOMAIN q = 1 .. Len(q) /\ r \in 1 .. Len(q)
      /\ NumbersTo(Terms(q, v, T, k), Len(q))
  BY TermsNumbers
<1> DEFINE d == Share(q[r], v[r], k)
           f == Terms(q, v, T, k)
           g == Terms(q, v, S, k)
<1>2. d \in Nat /\ f[r] = 0 /\ g[r] = d
  BY DEF Share, Valued, Terms
<1>3. \A i \in 1 .. Len(q) : i # r => g[i] = f[i]
  BY <1>1 DEF Terms
<1> HIDE DEF d, f, g
<1>4. g[r] = f[r] + d
  BY <1>2
<1>5. NumbersTo(f, Len(q))
  BY <1>1 DEF f
<1>6. SumTo(g, Len(q)) = SumTo(f, Len(q)) + d
  BY <1>1, <1>2, <1>3, <1>4, <1>5, SumChange
<1> QED
  BY <1>6 DEF TermsTotal, d, f, g

(* A row at the end brings its share. *)
Alike(q, v, u) == \A i \in DOMAIN q : u[i] = v[i]

LEMMA TermsAppend ==
    ASSUME NEW K, NEW q \in Seq(K), NEW key \in K, NEW v, NEW u, Alike(q, v, u)
    PROVE  \A k : TermsTotal(Append(q, key), u, DOMAIN Append(q, key), k)
                    = TermsTotal(q, v, DOMAIN q, k) + Share(key, u[Len(q) + 1], k)
<1> TAKE k
<1> DEFINE p == Append(q, key)
           n == Len(q)
           f == Terms(q, v, DOMAIN q, k)
           g == Terms(p, u, DOMAIN p, k)
<1>1. /\ n \in Nat /\ DOMAIN q = 1 .. n /\ Len(p) = n + 1 /\ DOMAIN p = 1 .. n + 1
      /\ p[n + 1] = key /\ \A i \in 1 .. n : p[i] = q[i]
  OBVIOUS
<1>2. \A i \in 1 .. n : g[i] = f[i]
  BY <1>1 DEF Terms, Alike
<1>3. g[n + 1] = Share(key, u[n + 1], k)
  BY <1>1 DEF Terms, Share
<1>4. TermsTotal(q, v, DOMAIN q, k) = SumTo(f, n) /\ TermsTotal(p, u, DOMAIN p, k) = SumTo(g, n + 1)
  BY <1>1 DEF TermsTotal
<1> HIDE DEF f, g, p, n
<1>5. SumTo(g, n + 1) = SumTo(g, n) + g[n + 1]
  BY <1>1, SumStep
<1>6. SumTo(g, n) = SumTo(f, n)
  BY <1>1, <1>2, SumSame
<1> QED
  BY <1>3, <1>4, <1>5, <1>6 DEF n, p

(* A value added to one row's, modulo w. *)
RaisedAt(q, v, u, x, d, w) ==
    /\ x \in DOMAIN q /\ u[x] = (v[x] + d) % w
    /\ \A i \in DOMAIN q : i # x => u[i] = v[i]

LEMMA TermsAdded ==
    ASSUME NEW K, NEW q \in Seq(K), NEW v, Valued(q, v), NEW u, NEW x,
           NEW d \in Nat, NEW w \in Nat \ {0}, RaisedAt(q, v, u, x, d, w)
    PROVE  \A k : /\ TermsTotal(q, u, DOMAIN q, k) \in Nat
                  /\ TermsTotal(q, u, DOMAIN q, k) % w
                       = (TermsTotal(q, v, DOMAIN q, k) + Share(q[x], d, k)) % w
<1> TAKE k
<1>r. x \in DOMAIN q /\ u[x] = (v[x] + d) % w /\ \A i \in DOMAIN q : i # x => u[i] = v[i]
  BY DEF RaisedAt
<1> DEFINE n == Len(q)
           f == Terms(q, v, DOMAIN q, k)
           g == Terms(q, u, DOMAIN q, k)
<1>1. n \in Nat /\ DOMAIN q = 1 .. n /\ NumbersTo(f, n) /\ SumTo(f, n) \in Nat
  BY TermsNumbers DEF TermsTotal
<1>2. \A i \in 1 .. n : i # x => g[i] = f[i]
  BY <1>1, <1>r DEF Terms
<1>3. TermsTotal(q, v, DOMAIN q, k) = SumTo(f, n) /\ TermsTotal(q, u, DOMAIN q, k) = SumTo(g, n)
  BY DEF TermsTotal
<1>4. CASE q[x] = k
  <2>1. f[x] = v[x] /\ g[x] = u[x] /\ Share(q[x], d, k) = d
    BY <1>4, <1>r DEF Terms, Share
  <2> HIDE DEF f, g, n
  <2>2. g[x] = (f[x] + d) % w /\ x \in 1 .. n
    BY <1>1, <1>r, <2>1
  <2>3. SumTo(g, n) \in Nat /\ SumTo(g, n) % w = (SumTo(f, n) + d) % w
    <3>1. n \in Nat /\ NumbersTo(f, n) /\ Wrapped(f, g, n, x, d, w)
      BY <1>1, <1>2, <2>2 DEF Wrapped
    <3> QED
      BY <2>2, <3>1, SumWraps
  <2> QED
    BY <1>3, <2>1, <2>3
<1>5. CASE q[x] # k
  <2>1. f[x] = 0 /\ g[x] = 0 /\ Share(q[x], d, k) = 0
    BY <1>5, <1>r DEF Terms, Share
  <2> HIDE DEF f, g, n
  <2>2. SumTo(g, n) = SumTo(f, n)
    <3>1. \A i \in 1 .. n : g[i] = f[i]
      BY <1>2, <2>1
    <3> QED
      BY <1>1, <3>1, SumSame
  <2> QED
    BY <1>1, <1>3, <2>1, <2>2
<1> QED
  BY <1>4, <1>5


-----------------------------------------------------------------------------
(***************************************************************************)
(* The inductive invariant of the pipeline.  A handler may replace the map  *)
(* by an empty one while rows are stored, so of the map only that is known  *)
(* which does not need every row to be in it.                               *)
(***************************************************************************)

(* The batches for which there are aggregates and a table large enough. *)
Fits(B) ==
    /\ B \in Seq(Keys) /\ 2 * Len(B) <= Capacity(MOST_CHUNKS)
    /\ \A c \in DOMAIN AggValues : Len(B) <= Len(AggValues[c])

(* A list of different rows of S. *)
OnceIn(q, S) == q \in Seq(S) /\ \A i, j \in DOMAIN q : q[i] = q[j] => i = j

(* The map, and what emplace is doing in the second stage. *)
MapPart ==
    /\ BatchTypeOK /\ RowsInv /\ Ranges /\ Named /\ Injective /\ ServedRight
    /\ step # "groups" => Control
    /\ step # "sized" => Parts
    /\ step # "batch" => phase = "none"
    /\ step = "groups" =>
         /\ pc # "idle" => ui <= idx_from /\ row = batch[InputRow]
         /\ pc = "rehash" => after = "locate"

Cursors ==
    /\ step \in {"ready", "sized", "batch", "compare", "groups"}
    /\ Fits(batch)
    /\ calls \in 0 .. MaxCalls
    /\ step = "sized" => calls < MaxCalls
    /\ step \in {"batch", "compare", "groups"} => calls # 0
    /\ idx_from \in 0 .. Len(working_indices)
    /\ col \in 1 .. Len(Columns) + 1
    /\ ui \in 1 .. Len(working_indices) + 1
    /\ step = "compare" => ui = 1

Lists ==
    /\ step # "ready" => OnceIn(update_indices, Served)
    /\ OnceIn(working_indices, Served)
    /\ step \in {"ready", "sized", "batch"} => working_indices = <<>>
    /\ step \in {"sized", "compare", "groups"} => update_indices = <<>>

Aggregates ==
    /\ agg \in Seq(0 .. AGG_WRAP - 1) /\ Len(agg) = Len(rows)
    /\ input_total \in [Keys -> Nat]

(* The rows whose candidate is another key's group, and those for which one *)
(* of the first columns has shown it.                                       *)
Others == {r \in DOMAIN batch : served[r] # 0 /\ rows[served[r]] # batch[r]}
DiffersBefore(c) == UNION {Differing(d) : d \in 1 .. c - 1}

Sorting ==
    step = "compare" =>
        Partitioned([indices |-> working_indices, from |-> idx_from], Len(working_indices),
                    Len(working_indices) + 1, Others, DiffersBefore(col), {})

(* The stages of a call, before what the second one knows of the candidates. *)
StagesInv == MapPart /\ Cursors /\ Lists /\ Aggregates /\ Sorting
HInv == StagesInv /\ CandidatesSorted

USE DEF HInv

LEMMA HandlerFacts ==
    ASSUME StagesInv
    PROVE  /\ BatchTypeOK /\ TypeOK /\ RowsInv /\ batch \in Seq(Keys) /\ Fits(batch)
           /\ rows \in Seq(Keys) /\ DOMAIN rows = 1 .. Len(rows) /\ Len(rows) \in Nat
           /\ served \in [DOMAIN batch -> 0 .. Len(rows)]
           /\ Served \subseteq DOMAIN batch
           /\ \A r \in Served : served[r] \in DOMAIN rows
           /\ num_chunks \in Nat \ {0}
           /\ step \notin {"sized", "groups"} => AInv
           /\ step \notin {"batch", "groups"} => phase = "none" /\ pc = "idle"
<1>1. BatchTypeOK /\ TypeOK /\ RowsInv /\ ServedRight /\ Fits(batch)
  BY DEF StagesInv, MapPart, Cursors, BatchTypeOK
<1>2. /\ batch \in Seq(Keys) /\ served \in [DOMAIN batch -> 0 .. Len(rows)]
      /\ rows \in Seq(Keys) /\ num_chunks \in Nat \ {0}
  BY <1>1 DEF BatchTypeOK, TypeOK
<1>3. DOMAIN rows = 1 .. Len(rows) /\ Len(rows) \in Nat
  BY <1>2
<1>4. Served \subseteq DOMAIN batch /\ \A r \in Served : served[r] \in DOMAIN rows
  BY <1>1 DEF Served, ServedRight
<1>5. step \notin {"sized", "groups"} => AInv
  BY DEF StagesInv, MapPart, AInv
<1>6. step \notin {"batch", "groups"} => phase = "none" /\ pc = "idle"
  BY DEF StagesInv, MapPart, Control
<1> QED
  BY <1>1, <1>2, <1>3, <1>4, <1>5, <1>6

(* Every row of a call has an aggregate. *)
LEMMA AggTypes ==
    ASSUME StagesInv, step # "ready", NEW r \in DOMAIN batch
    PROVE  AggValue(r) \in 0 .. AGG_WRAP - 1 /\ AggValue(r) \in Nat
<1> DEFINE c == IF step = "sized" THEN calls + 1 ELSE calls
<1>1. c \in 1 .. MaxCalls
  BY BatchAssumption DEF StagesInv, Cursors
<1> HIDE DEF c
<1>2. c \in DOMAIN AggValues /\ AggValues[c] \in Seq(0 .. AGG_WRAP - 1)
  BY <1>1, HandlerAssumption
<1>3. r \in 1 .. Len(batch) /\ Len(batch) <= Len(AggValues[c]) /\ Len(batch) \in Nat
  BY <1>2, HandlerFacts DEF Fits
<1>4. r \in 1 .. Len(AggValues[c])
  BY <1>2, <1>3
<1>5. AggValues[c][r] \in 0 .. AGG_WRAP - 1
  <2>1. \A T : \A q \in Seq(T) : \A i \in 1 .. Len(q) : q[i] \in T
    OBVIOUS
  <2> QED
    BY <1>2, <1>4, <2>1, Zenon
<1>6. AGG_WRAP \in Nat
  BY HandlerAssumption
<1> QED
  BY <1>5, <1>6 DEF AggValue, c

LEMMA OnceInGrows ==
    ASSUME NEW q, NEW S, NEW T, S \subseteq T, OnceIn(q, S)
    PROVE  OnceIn(q, T)
<1>1. q \in Seq(S)
  BY DEF OnceIn
<1>2. q \in Seq(T)
  <2>1. Len(q) \in Nat /\ q \in [1 .. Len(q) -> S]
    BY <1>1
  <2>2. q \in [1 .. Len(q) -> T]
    BY <2>1
  <2> QED
    BY <2>1, <2>2
<1> QED
  BY <1>2 DEF OnceIn

(***************************************************************************)
(* While no batch is under way the map may do what it wants with its table, *)
(* as long as the rows keep their places.                                   *)
(***************************************************************************)
RowsGrow ==
    Len(rows) <= Len(rows') /\ \A i \in DOMAIN rows : i \in DOMAIN rows' /\ rows'[i] = rows[i]

LEMMA QuietKept ==
    ASSUME StagesInv, step # "sized", phase = "none", UNCHANGED batchVars,
           TypeOK', RowsInv', RowsGrow
    PROVE  BatchTypeOK' /\ Ranges' /\ Named' /\ Injective' /\ ServedRight' /\ Parts'
<1>1. UNCHANGED <<batch, phase, resume, idx, cur_count, emplace_hash_vals,
                  emplace_positions, emplace_collisions, batch_collisions, batch_round,
                  retry_idx, retry_count, served, dropped>>
  BY DEF batchVars, arrays, retryVars
<1>2. Served' = Served /\ NumRows' = NumRows
  BY <1>1 DEF Served, NumRows
<1>3. BatchTypeOK'
  <2>1. Len(rows') \in Nat /\ Len(rows) \in Nat
    BY HandlerFacts DEF TypeOK
  <2>2. served' \in [DOMAIN batch' -> 0 .. Len(rows')]
    <3>1. served \in [DOMAIN batch -> 0 .. Len(rows)] /\ 0 .. Len(rows) \subseteq 0 .. Len(rows')
      BY <2>1, HandlerFacts DEF RowsGrow
    <3>2. served \in [DOMAIN batch -> 0 .. Len(rows')]
      BY <3>1, Zenon
    <3> QED
      BY <1>1, <3>2
  <2>3. BatchTypeOK
    BY HandlerFacts
  <2> QED
    BY <1>1, <1>2, <2>2, <2>3 DEF BatchTypeOK
<1>4. Ranges' /\ Named' /\ Injective'
  BY <1>1 DEF StagesInv, MapPart, Ranges, Named, Injective, InArrays
<1>5. ServedRight'
  BY <1>1, <1>2 DEF StagesInv, MapPart, ServedRight, RowsGrow, H
<1>6. Parts'
  BY <1>1, <1>2 DEF StagesInv, MapPart, Parts, InArrays
<1> QED
  BY <1>3, <1>4, <1>5, <1>6


-----------------------------------------------------------------------------
(* The call. *)

(* A table made for a batch is larger, and small enough to be made. *)
LEMMA PresizeFacts ==
    ASSUME NEW n \in Nat \ {0}, NEW B, Fits(B), Capacity(n) < Len(B)
    PROVE  LET new == WithCapacity(NextPowerOfTwo(Max({2 * n, Len(B) \div SLOTS_PER_CHUNK + 1})))
           IN  new \in Nat \ {0} /\ n <= new /\ Len(B) <= Capacity(new)
<1> DEFINE S == SLOTS_PER_CHUNK
           q == Len(B) \div S
           want == Max({2 * n, q + 1})
<1>1. /\ S \in Nat \ {0} /\ Len(B) \in Nat /\ n * S < Len(B)
      /\ 2 * Len(B) <= MOST_CHUNKS * S /\ MOST_CHUNKS = 1048576
  BY DEF Fits, Capacity, MOST_CHUNKS
<1>2. q \in Nat /\ S * q <= Len(B) /\ Len(B) < S * q + S
  <2> HIDE DEF S
  <2> QED
    BY <1>1, QuotientBounds
<1> HIDE DEF q
<1>3. 2 * n < MOST_CHUNKS
  <2> HIDE DEF S
  <2>1. 2 * (n * S) < MOST_CHUNKS * S
    BY <1>1
  <2>2. ASSUME MOST_CHUNKS <= 2 * n PROVE FALSE
    <3>1. MOST_CHUNKS * S <= (2 * n) * S
      BY <1>1, <2>2, Z3
    <3>2. (2 * n) * S = 2 * (n * S)
      BY <1>1, Z3
    <3> QED
      BY <1>1, <2>1, <3>1, <3>2
  <2> QED
    BY <1>1, <2>2
<1>4. 2 * q <= MOST_CHUNKS
  <2> HIDE DEF S
  <2>1. 2 * (S * q) <= MOST_CHUNKS * S
    BY <1>1, <1>2
  <2>2. ASSUME MOST_CHUNKS + 1 <= 2 * q PROVE FALSE
    <3>1. (MOST_CHUNKS + 1) * S <= (2 * q) * S
      BY <1>1, <1>2, <2>2, Z3
    <3>2. (2 * q) * S = 2 * (S * q) /\ (MOST_CHUNKS + 1) * S = MOST_CHUNKS * S + S
      BY <1>1, <1>2, Z3
    <3> QED
      BY <1>1, <1>2, <2>1, <3>1, <3>2
  <2> QED
    BY <1>1, <1>2, <2>2
<1>5. want \in {2 * n, q + 1} /\ \A y \in {2 * n, q + 1} : y <= want
  <2> DEFINE m == IF 2 * n < q + 1 THEN q + 1 ELSE 2 * n
  <2>1. m \in {2 * n, q + 1} /\ \A y \in {2 * n, q + 1} : m >= y
    BY <1>2
  <2> HIDE DEF m
  <2>2. want \in {2 * n, q + 1} /\ \A y \in {2 * n, q + 1} : want >= y
    BY <2>1 DEF Max
  <2> QED
    BY <1>2, <2>2
<1> HIDE DEF want
<1>6. want \in Nat /\ n <= want /\ want <= MOST_CHUNKS
  BY <1>1, <1>2, <1>3, <1>4, <1>5
<1>7. /\ NextPowerOfTwo(want) \in Nat /\ want <= NextPowerOfTwo(want)
      /\ NextPowerOfTwo(want) <= MOST_CHUNKS
  BY <1>6, NextPowerFacts
<1>8. /\ WithCapacity(NextPowerOfTwo(want)) \in Nat \ {0}
      /\ NextPowerOfTwo(want) <= WithCapacity(NextPowerOfTwo(want))
  BY <1>7, NextPowerFacts DEF WithCapacity
<1>9. ASSUME NEW w \in Nat, q + 1 <= w PROVE Len(B) <= Capacity(w)
  <2> HIDE DEF S
  <2>1. S * (q + 1) <= S * w /\ S * (q + 1) = S * q + S
    BY <1>1, <1>2, <1>9, Z3
  <2>2. S * w = w * S /\ S * w \in Nat /\ S * q \in Nat
    BY <1>1, <1>2
  <2>3. Len(B) <= w * S
    BY <1>1, <1>2, <2>1, <2>2
  <2> QED
    BY <2>3 DEF Capacity, S
<1>10. q + 1 <= want
  BY <1>5
<1>11. q + 1 <= WithCapacity(NextPowerOfTwo(want))
  BY <1>2, <1>6, <1>7, <1>8, <1>10
<1>12. Len(B) <= Capacity(WithCapacity(NextPowerOfTwo(want)))
  BY <1>8, <1>9, <1>11
<1> QED
  BY <1>6, <1>7, <1>8, <1>12 DEF want, q, S

(* What a call brings, as a total. *)
LEMMA PassedFacts ==
    ASSUME NEW B, Fits(B), calls \in 0 .. MaxCalls, calls < MaxCalls
    PROVE  /\ Valued(B, AggValues[calls + 1])
           /\ \A k : /\ PassedIn(B, k) = TermsTotal(B, AggValues[calls + 1], DOMAIN B, k)
                     /\ PassedIn(B, k) \in Nat
<1> DEFINE c == calls + 1
<1>1. c \in DOMAIN AggValues /\ AggValues[c] \in Seq(0 .. AGG_WRAP - 1)
  <2>1. c \in 1 .. MaxCalls
    BY BatchAssumption
  <2> QED
    BY <2>1, HandlerAssumption
<1>2. B \in Seq(Keys) /\ Len(B) <= Len(AggValues[c])
  BY <1>1 DEF Fits
<1> HIDE DEF c
<1>3. Valued(B, AggValues[c])
  <2>1. \A T : \A q \in Seq(T) : \A i \in 1 .. Len(q) : q[i] \in T
    OBVIOUS
  <2>2. ASSUME NEW r \in DOMAIN B PROVE AggValues[c][r] \in 0 .. AGG_WRAP - 1
    <3>1. r \in 1 .. Len(AggValues[c])
      BY <1>1, <1>2
    <3> QED
      BY <1>1, <2>1, <3>1, Zenon
  <2> QED
    BY <2>2, HandlerAssumption DEF Valued
<1>4. ASSUME NEW k
      PROVE  PassedIn(B, k) = TermsTotal(B, AggValues[c], DOMAIN B, k) /\ PassedIn(B, k) \in Nat
  <2>1. PassedIn(B, k) = TermsTotal(B, AggValues[c], DOMAIN B, k)
    BY DEF PassedIn, TermsTotal, Terms, c
  <2> QED
    BY <1>2, <1>3, <2>1, TermsNumbers
<1> QED
  BY <1>3, <1>4 DEF c

(* No list is an empty one of no rows. *)
LEMMA OnceInEmpty == \A S : OnceIn(<<>>, S)
BY DEF OnceIn

(* The chunks of a table are among those of one that is not smaller. *)
LEMMA FewerChunks ==
    ASSUME NEW n \in Nat \ {0}, NEW m \in Nat \ {0}, n <= m
    PROVE  0 .. n - 1 \subseteq 0 .. m - 1
OBVIOUS

LEMMA TableCallHInv ==
    ASSUME HInv, NEW B, Fits(B), EmplaceTableWithDecode(B)
    PROVE  HInv'
<1>1. /\ step = "ready" /\ calls < MaxCalls /\ step' = "sized"
      /\ batch' = B /\ served' = [r \in DOMAIN B |-> 0] /\ dropped' = {}
      /\ update_indices' = <<>>
      /\ input_total' = [k \in Keys |-> input_total[k] + PassedIn(B, k)]
  BY DEF EmplaceTableWithDecode, FreshUpdates
<1>2. UNCHANGED <<entries, positions, todo, collided, rehash_batch, after, pc, rows, row, pos,
                  collision_batch, result, phase, resume, idx, cur_count, emplace_hash_vals,
                  emplace_positions, emplace_collisions, batch_collisions, batch_round,
                  retry_idx, retry_count, calls, working_indices, idx_from, col, ui, agg>>
  BY DEF EmplaceTableWithDecode, rehashVars, emplaceVars, arrays, retryVars, stageVars
<1>3. /\ TypeOK /\ BatchTypeOK /\ RowsInv /\ phase = "none" /\ pc = "idle"
      /\ num_chunks \in Nat \ {0} /\ calls \in 0 .. MaxCalls
  BY <1>1, HandlerFacts DEF StagesInv, Cursors
<1>4. idx = 1 /\ cur_count = 0 /\ batch_collisions = 0 /\ batch_round = 1
  BY <1>3 DEF StagesInv, MapPart, Ranges
<1>5. working_indices = <<>> /\ idx_from = 0 /\ ui = 1 /\ col \in 1 .. Len(Columns) + 1
  BY <1>1 DEF StagesInv, Lists, Cursors
<1>6. /\ num_chunks' \in Nat \ {0} /\ num_chunks <= num_chunks' /\ size' \in Nat
      /\ chunks' \in [0 .. num_chunks' - 1 -> [Slots -> Slot]]
      /\ chunks' = chunks \/ Occupied(chunks') = {}
  <2>1. CASE Capacity(num_chunks) < Len(B)
    <3> DEFINE n == WithCapacity(NextPowerOfTwo(
                        Max({2 * num_chunks, Len(B) \div SLOTS_PER_CHUNK + 1})))
    <3>1. n \in Nat \ {0} /\ num_chunks <= n
      BY <1>3, <2>1, PresizeFacts
    <3>2. num_chunks' = n /\ chunks' = AllocChunks(n) /\ size' = 0
      BY <2>1 DEF EmplaceTableWithDecode
    <3> HIDE DEF n
    <3> QED
      BY <3>1, <3>2, AllocFacts
  <2>2. CASE ~(Capacity(num_chunks) < Len(B))
    BY <1>3, <2>2 DEF EmplaceTableWithDecode, tableVars, TypeOK
  <2> QED
    BY <2>1, <2>2
<1>7. TypeOK'
  <2>1. positions' \in [DOMAIN entries' -> 0 .. num_chunks' - 1]
    <3>1. positions \in [DOMAIN entries -> 0 .. num_chunks - 1]
      BY <1>3 DEF TypeOK
    <3>2. 0 .. num_chunks - 1 \subseteq 0 .. num_chunks' - 1
      BY <1>3, <1>6, FewerChunks
    <3>3. positions \in [DOMAIN entries -> 0 .. num_chunks' - 1]
      BY <3>1, <3>2, Zenon
    <3> QED
      BY <1>2, <3>3
  <2> QED
    BY <1>2, <1>3, <1>6, <2>1 DEF TypeOK
<1>8. RowsInv'
  BY <1>2, <1>3, <1>6 DEF RowsInv, RowsRight, Pending
<1>9. /\ B \in Seq(Keys) /\ Len(B) \in Nat /\ NumRows' = Len(B) /\ DOMAIN B = 1 .. Len(B)
      /\ Served' = {} /\ Len(rows) \in Nat
  BY <1>1, <1>3 DEF Fits, NumRows, Served, TypeOK
<1>10. BatchTypeOK'
  <2>1. served' \in [DOMAIN batch' -> 0 .. Len(rows')]
    BY <1>1, <1>2, <1>9
  <2>2. idx' \in 1 .. NumRows' + 1 /\ cur_count' \in 0 .. NumRows' /\ batch_collisions' \in 0 .. NumRows'
    BY <1>2, <1>4, <1>9
  <2>3. BatchTypeOK
    BY <1>3
  <2> QED
    BY <1>1, <1>2, <1>3, <1>7, <1>9, <2>1, <2>2, <2>3 DEF BatchTypeOK
<1>11. MapPart'
  <2>1. Ranges' /\ Named' /\ Injective' /\ ServedRight' /\ Control'
    BY <1>2, <1>3, <1>4, <1>9 DEF Ranges, Named, Injective, InArrays, ServedRight, Control
  <2> QED
    BY <1>1, <1>2, <1>3, <1>8, <1>10, <2>1 DEF MapPart
<1>12. Cursors'
  BY <1>1, <1>2, <1>3, <1>5 DEF Cursors, StagesInv, Fits
<1>13. Lists'
  BY <1>1, <1>2, <1>5, OnceInEmpty DEF Lists
<1>14. Aggregates'
  <2>1. \A k : PassedIn(B, k) \in Nat
    BY <1>1, <1>3, PassedFacts
  <2>2. input_total \in [Keys -> Nat]
    BY DEF StagesInv, Aggregates
  <2> QED
    BY <1>1, <1>2, <2>1, <2>2 DEF StagesInv, Aggregates
<1>15. Sorting' /\ CandidatesSorted'
  BY <1>1 DEF Sorting, CandidatesSorted
<1> QED
  BY <1>11, <1>12, <1>13, <1>14, <1>15 DEF StagesInv


-----------------------------------------------------------------------------
(* The batch insertion. *)

LEMMA StartHInv ==
    ASSUME HInv, StartBatch
    PROVE  HInv'
<1>1. /\ step = "sized" /\ step' = "batch" /\ EmplaceBatch(batch)
      /\ UNCHANGED <<update_indices, working_indices, idx_from, col, ui, agg, input_total>>
  BY DEF StartBatch, stageVars
<1>2. /\ batch' = batch /\ served' = [i \in DOMAIN batch |-> 0] /\ rows' = rows
      /\ calls < MaxCalls /\ calls' = calls + 1
  BY <1>1 DEF EmplaceBatch, vars, emplaceVars
<1>3. AInv'
  <2>1. BatchTypeOK /\ RowsInv /\ Control /\ Ranges /\ batch \in Seq(Keys)
    BY <1>1, HandlerFacts DEF StagesInv, MapPart
  <2> QED
    BY <1>1, <2>1, CallKept DEF BKept
<1>4. MapPart'
  BY <1>1, <1>3 DEF AInv, MapPart
<1>5. Cursors'
  BY <1>1, <1>2, BatchAssumption DEF StagesInv, Cursors, Fits
<1>6. Lists'
  <2>1. update_indices = <<>> /\ working_indices = <<>>
    BY <1>1 DEF StagesInv, Lists
  <2> QED
    BY <1>1, <2>1, OnceInEmpty DEF Lists
<1>7. Aggregates' /\ Sorting' /\ CandidatesSorted'
  BY <1>1, <1>2 DEF StagesInv, Aggregates, Sorting, CandidatesSorted
<1> QED
  BY <1>4, <1>5, <1>6, <1>7 DEF StagesInv

(* What the callbacks note of a step. *)
NothingNoted == NoGroupGiven /\ Served' = Served /\ UNCHANGED <<agg, update_indices>>
GroupMade(r) ==
    /\ rows' = Append(rows, batch[r]) /\ agg' = Append(agg, AggValue(r))
    /\ UNCHANGED update_indices
GroupMet(r) == rows' = rows /\ update_indices' = Append(update_indices, r) /\ UNCHANGED agg

CallbackNotes ==
    IF \E r \in DOMAIN batch : served'[r] # served[r]
      THEN LET r == CHOOSE r \in DOMAIN batch : served'[r] # served[r] IN
           IF rows' # rows
             THEN agg' = Append(agg, AggValue(r)) /\ UNCHANGED update_indices
             ELSE update_indices' = Append(update_indices, r) /\ UNCHANGED agg
      ELSE UNCHANGED <<agg, update_indices>>

CallbackDone ==
    /\ AInv' /\ step = "batch"
    /\ UNCHANGED <<batch, calls, step, working_indices, idx_from, col, ui, input_total>>
    /\ \/ NothingNoted
       \/ \E r \in DOMAIN batch : /\ GroupGiven(r)
                                  /\ r \notin Served /\ Served' = Served \cup {r}
                                  /\ GroupMade(r) \/ GroupMet(r)

LEMMA CallbackEffect ==
    ASSUME AInv', step = "batch", CallbackNotes,
           UNCHANGED <<batch, calls, step, working_indices, idx_from, col, ui, input_total>>,
           NoGroupGiven \/ \E r \in DOMAIN batch : GroupGiven(r)
    PROVE  CallbackDone
<1>1. CASE NoGroupGiven
  <2>1. served' = served /\ UNCHANGED <<agg, update_indices>>
    BY <1>1 DEF CallbackNotes, NoGroupGiven
  <2>2. Served' = Served
    BY <2>1 DEF Served
  <2> QED
    BY <1>1, <2>1, <2>2 DEF NothingNoted, CallbackDone
<1>2. ASSUME NEW r \in DOMAIN batch, GroupGiven(r)
      PROVE  /\ r \notin Served /\ Served' = Served \cup {r}
             /\ GroupMade(r) \/ GroupMet(r)
  <2>1. /\ served[r] = 0 /\ served'[r] # 0
        /\ \A q \in DOMAIN batch \ {r} : served'[q] = served[q]
        /\ rows' = rows \/ rows' = Append(rows, batch[r])
    BY <1>2 DEF GroupGiven
  <2>2. r \notin Served /\ Served' = Served \cup {r}
    BY <2>1 DEF Served
  <2>3. \A x \in DOMAIN batch : served'[x] # served[x] <=> x = r
    BY <2>1
  <2>4. (CHOOSE x \in DOMAIN batch : served'[x] # served[x]) = r
    BY <2>3
  <2>5. IF rows' # rows THEN agg' = Append(agg, AggValue(r)) /\ UNCHANGED update_indices
                        ELSE update_indices' = Append(update_indices, r) /\ UNCHANGED agg
    BY <2>3, <2>4 DEF CallbackNotes
  <2> QED
    BY <2>1, <2>2, <2>5 DEF GroupMade, GroupMet
<1> QED
  BY <1>1, <1>2 DEF CallbackDone

LEMMA CallbackCalled ==
    ASSUME HInv, BatchCallback
    PROVE  CallbackDone
<1>1. /\ step = "batch" /\ BatchStep /\ CallbackNotes
      /\ UNCHANGED <<step, working_indices, idx_from, col, ui, input_total>>
  BY DEF BatchCallback, stageVars, CallbackNotes
<1>2. AInv
  BY <1>1, HandlerFacts
<1>3. AInv'
  BY <1>1, <1>2, BatchStepKept DEF BKept
<1> QED
  BY <1>1, <1>2, <1>3, StepGives, CallbackEffect

(* One row more in a list of rows. *)
LEMMA OnceInAppend ==
    ASSUME NEW q, NEW S, OnceIn(q, S), NEW r, r \notin S
    PROVE  OnceIn(Append(q, r), S \cup {r})
<1> DEFINE T == S \cup {r}
           n == Len(q)
           p == Append(q, r)
<1>1. q \in Seq(S) /\ n \in Nat /\ \A i \in 1 .. n : q[i] \in S
  BY DEF OnceIn
<1>2. OnceIn(q, T)
  BY OnceInGrows
<1> HIDE DEF T
<1>3. q \in Seq(T) /\ r \in T
  BY <1>2 DEF OnceIn, T
<1>4. /\ p \in Seq(T) /\ DOMAIN p = 1 .. n + 1 /\ p[n + 1] = r
      /\ DOMAIN q = 1 .. n /\ \A i \in 1 .. n : p[i] = q[i]
  BY <1>1, <1>3
<1> HIDE DEF p, n
<1>5. ASSUME NEW i \in 1 .. n + 1, NEW j \in 1 .. n + 1, p[i] = p[j] PROVE i = j
  <2>1. \A x \in 1 .. n + 1 : x = n + 1 \/ x \in 1 .. n
    BY <1>1
  <2>2. CASE i \in 1 .. n /\ j \in 1 .. n
    BY <1>4, <1>5, <2>2 DEF OnceIn
  <2>3. CASE i = n + 1 \/ j = n + 1
    BY <1>1, <1>4, <1>5, <2>1, <2>3
  <2> QED
    BY <2>1, <2>2, <2>3
<1> QED
  BY <1>4, <1>5 DEF OnceIn, p, T

LEMMA CallbackHInv ==
    ASSUME HInv, CallbackDone
    PROVE  HInv'
<1>1. /\ AInv' /\ step = "batch" /\ step' = "batch"
      /\ UNCHANGED <<batch, calls, step, working_indices, idx_from, col, ui, input_total>>
  BY DEF CallbackDone
<1>2. MapPart'
  BY <1>1 DEF AInv, MapPart
<1>3. Cursors'
  BY <1>1 DEF StagesInv, Cursors, Fits
<1>4. Sorting' /\ CandidatesSorted'
  BY <1>1 DEF Sorting, CandidatesSorted
<1>5. /\ OnceIn(update_indices, Served) /\ working_indices = <<>>
      /\ agg \in Seq(0 .. AGG_WRAP - 1) /\ Len(agg) = Len(rows) /\ input_total \in [Keys -> Nat]
      /\ rows \in Seq(Keys) /\ Served \subseteq DOMAIN batch
  BY <1>1, HandlerFacts DEF StagesInv, Lists, Aggregates
<1>6. CASE NothingNoted
  <2>1. Lists'
    BY <1>1, <1>5, <1>6, OnceInEmpty DEF NothingNoted, Lists
  <2>2. Aggregates'
    BY <1>1, <1>5, <1>6 DEF NothingNoted, NoGroupGiven, Aggregates
  <2> QED
    BY <1>2, <1>3, <1>4, <2>1, <2>2 DEF StagesInv
<1>7. ASSUME NEW r \in DOMAIN batch, r \notin Served, Served' = Served \cup {r}, GroupMade(r)
      PROVE  HInv'
  <2>1. Lists'
    <3>1. OnceIn(update_indices', Served')
      BY <1>5, <1>7, OnceInGrows DEF GroupMade
    <3> QED
      BY <1>1, <1>5, <3>1, OnceInEmpty DEF Lists
  <2>2. Aggregates'
    <3> DEFINE v == AggValue(r)
    <3>1. v \in 0 .. AGG_WRAP - 1 /\ batch[r] \in Keys
      BY <1>1, AggTypes, HandlerFacts
    <3>2. agg' = Append(agg, v) /\ rows' = Append(rows, batch[r])
      BY <1>7 DEF GroupMade
    <3> HIDE DEF v
    <3>3. agg' \in Seq(0 .. AGG_WRAP - 1)
      BY <1>5, <3>1, <3>2
    <3>4. Len(agg') = Len(agg) + 1 /\ Len(rows') = Len(rows) + 1
      BY <1>5, <3>1, <3>2
    <3> QED
      BY <1>1, <1>5, <3>3, <3>4 DEF Aggregates
  <2> QED
    BY <1>2, <1>3, <1>4, <2>1, <2>2 DEF StagesInv
<1>8. ASSUME NEW r \in DOMAIN batch, r \notin Served, Served' = Served \cup {r}, GroupMet(r)
      PROVE  HInv'
  <2>1. Lists'
    <3>1. OnceIn(update_indices', Served')
      BY <1>5, <1>8, OnceInAppend DEF GroupMet
    <3> QED
      BY <1>1, <1>5, <3>1, OnceInEmpty DEF Lists
  <2>2. Aggregates'
    BY <1>1, <1>5, <1>8 DEF GroupMet, Aggregates
  <2> QED
    BY <1>2, <1>3, <1>4, <2>1, <2>2 DEF StagesInv
<1> QED
  BY <1>6, <1>7, <1>8 DEF CallbackDone

-----------------------------------------------------------------------------
(* The comparison, which leaves the map alone. *)

LEMMA QuietFacts ==
    ASSUME UNCHANGED allVars
    PROVE  /\ UNCHANGED <<num_chunks, chunks, size, rows, row, pos, collision_batch, result,
                          after, pc, entries, positions, todo, collided, rehash_batch>>
           /\ UNCHANGED <<batch, phase, resume, idx, cur_count, emplace_hash_vals,
                          emplace_positions, emplace_collisions, batch_collisions, batch_round,
                          retry_idx, retry_count, served, dropped, calls>>
           /\ UNCHANGED batchVars /\ UNCHANGED vars
           /\ Served' = Served /\ Others' = Others
           /\ \A c : Differing(c)' = Differing(c)
BY DEF allVars, vars, tableVars, rehashVars, emplaceVars, batchVars, arrays, retryVars,
       Served, Others, Differing

LEMMA QuietMap ==
    ASSUME StagesInv, UNCHANGED allVars, step # "sized", step' # "sized", phase = "none",
           step = "groups" => pc = "idle"
    PROVE  MapPart'
<1>1. /\ BatchTypeOK /\ RowsInv /\ Ranges /\ Named /\ Injective /\ ServedRight /\ Parts
  BY DEF StagesInv, MapPart
<1>2. Control /\ pc = "idle"
  BY DEF StagesInv, MapPart, Control
<1>3. AInv' /\ phase' = "none" /\ pc' = "idle"
  BY <1>1, <1>2, SameAllVars, QuietFacts DEF AInv, BKept
<1> QED
  BY <1>3 DEF AInv, MapPart

LEMMA NothingHInv ==
    ASSUME HInv, NothingToCompare
    PROVE  HInv'
<1>1. /\ step = "batch" /\ step' = "ready" /\ phase = "none" /\ UNCHANGED allVars
      /\ UNCHANGED <<update_indices, working_indices, idx_from, col, ui, agg, input_total>>
  BY DEF NothingToCompare, stageVars
<1>2. MapPart'
  BY <1>1, QuietMap
<1>3. UNCHANGED <<batch, calls, rows>> /\ Served' = Served
  BY <1>1, QuietFacts
<1>4. Cursors' /\ Lists' /\ Aggregates' /\ Sorting' /\ CandidatesSorted'
  BY <1>1, <1>3 DEF StagesInv, Cursors, Fits, Lists, Aggregates, Sorting, CandidatesSorted
<1> QED
  BY <1>2, <1>4 DEF StagesInv

(* A list of rows, as the partition sees it. *)
LEMMA OnceInLists ==
    ASSUME NEW q, NEW S, OnceIn(q, S)
    PROVE  /\ Len(q) \in Nat /\ DOMAIN q = 1 .. Len(q) /\ Listing(q, Len(q))
           /\ RowsIn(q, Len(q)) \subseteq S
<1>1. q \in Seq(S)
  BY DEF OnceIn
<1>2. Len(q) \in Nat /\ DOMAIN q = 1 .. Len(q) /\ q \in [1 .. Len(q) -> S]
  BY <1>1
<1>3. q = [i \in 1 .. Len(q) |-> q[i]]
  BY <1>2
<1>4. q \in [1 .. Len(q) -> RowsIn(q, Len(q))]
  BY <1>3 DEF RowsIn
<1>5. \A i, j \in 1 .. Len(q) : q[i] = q[j] => i = j
  BY <1>2 DEF OnceIn
<1> QED
  BY <1>2, <1>4, <1>5 DEF Listing, RowsIn

LEMMA StartCompareHInv ==
    ASSUME HInv, StartCompare
    PROVE  HInv'
<1>1. /\ step = "batch" /\ step' = "compare" /\ phase = "none" /\ UNCHANGED allVars
      /\ working_indices' = update_indices /\ update_indices' = <<>>
      /\ idx_from' = 0 /\ col' = 1 /\ UNCHANGED <<ui, agg, input_total>>
  BY DEF StartCompare
<1>2. MapPart'
  BY <1>1, QuietMap
<1>3. UNCHANGED <<batch, calls, rows>> /\ Served' = Served
  BY <1>1, QuietFacts
<1>4. OnceIn(update_indices, Served) /\ working_indices = <<>>
  BY <1>1 DEF StagesInv, Lists
<1>5. Lists'
  BY <1>1, <1>3, <1>4, OnceInEmpty DEF Lists
<1>6. Cursors'
  <2>1. Len(update_indices) \in Nat /\ ui = 1 /\ Len(Columns) \in Nat
    BY <1>1, <1>4, OnceInLists, HandlerAssumption DEF StagesInv, Cursors
  <2> QED
    BY <1>1, <1>3, <2>1 DEF StagesInv, Cursors, Fits
<1>7. Aggregates' /\ CandidatesSorted'
  BY <1>1, <1>3 DEF StagesInv, Aggregates, CandidatesSorted
<1>8. Sorting'
  <2> DEFINE n == Len(update_indices)
  <2>1. n \in Nat /\ Listing(update_indices, n)
    BY <1>4, OnceInLists
  <2>2. DiffersBefore(1)' = {}
    BY DEF DiffersBefore
  <2> HIDE DEF n
  <2>3. Partitioned([indices |-> update_indices, from |-> 0], n, n + 1, Others', {}, {})
    BY <2>1 DEF Partitioned
  <2> QED
    BY <1>1, <2>2, <2>3 DEF Sorting, n
<1> QED
  BY <1>2, <1>5, <1>6, <1>7, <1>8 DEF StagesInv

(* A column's pass permutes the list. *)
LEMMA CompareLists ==
    ASSUME StagesInv, CompareColumn
    PROVE  LET q == working_indices
               n == Len(q)
               part == ComparePass(q, idx_from, Differing(col)) IN
           /\ n \in Nat
           /\ Partitioned(part, n, n + 1, Others, DiffersBefore(col), Differing(col))
           /\ RowsIn(part.indices, n) = RowsIn(q, n) /\ RowsIn(q, n) \subseteq Served
           /\ Len(part.indices) = n /\ part.indices \in Seq(Served) /\ DOMAIN part.indices = 1 .. n
           /\ part = [indices |-> part.indices, from |-> part.from]
           /\ Listing(part.indices, n) /\ part.from \in 0 .. n
<1> DEFINE q == working_indices
           n == Len(q)
           part == ComparePass(q, idx_from, Differing(col))
<1>1. step = "compare"
  BY DEF CompareColumn
<1>2. /\ OnceIn(q, Served) /\ idx_from \in 0 .. n
      /\ Partitioned([indices |-> q, from |-> idx_from], n, n + 1, Others, DiffersBefore(col), {})
  BY <1>1 DEF StagesInv, Lists, Cursors, Sorting
<1>3. n \in Nat /\ RowsIn(q, n) \subseteq Served
  BY <1>2, OnceInLists
<1>4. Differing(col) \subseteq Others
  BY DEF Differing, Others
<1>5. /\ Partitioned(part, n, n + 1, Others, DiffersBefore(col), Differing(col))
      /\ RowsIn(part.indices, n) = RowsIn(q, n)
  <2> HIDE DEF q, n
  <2>1. Partitioned([indices |-> q, from |-> idx_from], n, idx_from + 1, Others,
                    DiffersBefore(col), Differing(col))
    BY <1>2, <1>3 DEF Partitioned
  <2>2. Len(q) = n
    BY DEF n
  <2> QED
    BY <1>2, <1>3, <1>4, <2>1, <2>2, PassPartitions
<1> HIDE DEF part, n, q
<1>6. /\ part = [indices |-> part.indices, from |-> part.from]
      /\ Listing(part.indices, n) /\ part.from \in 0 .. n
  BY <1>3, <1>5 DEF Partitioned
<1>7. Len(part.indices) = n /\ part.indices \in Seq(Served) /\ DOMAIN part.indices = 1 .. n
  <2>1. part.indices \in [1 .. n -> RowsIn(q, n)]
    BY <1>5, <1>6 DEF Listing
  <2>2. part.indices \in [1 .. n -> Served]
    BY <1>3, <2>1
  <2> QED
    BY <1>3, <2>2
<1> QED
  BY <1>3, <1>5, <1>6, <1>7 DEF part, n, q

LEMMA CompareHInv ==
    ASSUME HInv, CompareColumn
    PROVE  HInv'
<1> DEFINE q == working_indices
           n == Len(q)
           part == ComparePass(q, idx_from, Differing(col))
<1>1. /\ step = "compare" /\ step' = "compare" /\ col <= Len(Columns) /\ idx_from < n
      /\ working_indices' = part.indices /\ idx_from' = part.from /\ col' = col + 1
      /\ UNCHANGED allVars /\ UNCHANGED <<update_indices, ui, agg, input_total>>
  BY DEF CompareColumn, ColumnFrom
<1>2. MapPart'
  BY <1>1, HandlerFacts, QuietMap
<1>3. /\ UNCHANGED <<batch, calls, rows>> /\ Served' = Served /\ Others' = Others
      /\ \A c : Differing(c)' = Differing(c)
  BY <1>1, QuietFacts
<1>4. col \in 1 .. Len(Columns) + 1 /\ ui = 1 /\ Len(Columns) \in Nat
  BY <1>1, HandlerAssumption DEF StagesInv, Cursors
<1>5. /\ n \in Nat
      /\ Partitioned(part, n, n + 1, Others, DiffersBefore(col), Differing(col))
      /\ Len(part.indices) = n /\ part.indices \in Seq(Served) /\ DOMAIN part.indices = 1 .. n
      /\ part = [indices |-> part.indices, from |-> part.from]
      /\ Listing(part.indices, n) /\ part.from \in 0 .. n
  BY CompareLists
<1> HIDE DEF part, n, q
<1>6. Lists'
  <2>1. OnceIn(part.indices, Served)
    BY <1>5 DEF OnceIn, Listing
  <2> QED
    BY <1>1, <1>3, <2>1 DEF StagesInv, Lists
<1>7. Cursors'
  <2>1. Fits(batch)' /\ calls' \in 0 .. MaxCalls /\ calls' # 0
    BY <1>1, <1>3 DEF StagesInv, Cursors, Fits
  <2>2. idx_from' \in 0 .. Len(working_indices')
    BY <1>1, <1>5
  <2>3. col' \in 1 .. Len(Columns) + 1
    BY <1>1, <1>4
  <2>4. ui' = 1 /\ ui' \in 1 .. Len(working_indices') + 1
    BY <1>1, <1>4, <1>5
  <2> QED
    BY <1>1, <2>1, <2>2, <2>3, <2>4 DEF Cursors
<1>8. Aggregates' /\ CandidatesSorted'
  BY <1>1, <1>3 DEF StagesInv, Aggregates, CandidatesSorted
<1>9. Sorting'
  <2>1. DiffersBefore(col)' = DiffersBefore(col) \cup Differing(col)
    <3>1. 1 .. col' - 1 = (1 .. col - 1) \cup {col}
      BY <1>1, <1>4
    <3>2. DiffersBefore(col)' = UNION {Differing(d)' : d \in 1 .. col' - 1}
      BY DEF DiffersBefore
    <3>3. DiffersBefore(col)' = UNION {Differing(d) : d \in 1 .. col' - 1}
      BY <1>3, <3>2
    <3> QED
      BY <3>1, <3>3 DEF DiffersBefore
  <2>2. Partitioned(part, n, n + 1, Others, DiffersBefore(col) \cup Differing(col), {})
    BY <1>5 DEF Partitioned
  <2> QED
    BY <1>1, <1>3, <1>5, <2>1, <2>2 DEF Sorting
<1> QED
  BY <1>2, <1>6, <1>7, <1>8, <1>9 DEF StagesInv

(* A key is the tuple of its columns. *)
LEMMA KeyIsColumns ==
    ASSUME NEW j \in Keys, NEW k \in Keys, \A c \in DOMAIN Columns : j[c] = k[c]
    PROVE  j = k
<1>1. [c \in DOMAIN Columns |-> j[c]] = [c \in DOMAIN Columns |-> k[c]]
  OBVIOUS
<1>2. j = [c \in DOMAIN Columns |-> j[c]] /\ k = [c \in DOMAIN Columns |-> k[c]]
  <2>1. \A x \in Keys : x = [c \in DOMAIN Columns |-> x[c]]
    BY HandlerAssumption
  <2> QED
    BY <2>1, Zenon
<1> QED
  BY <1>1, <1>2, Zenon

(***************************************************************************)
(* When the columns are through, what is behind the front differs in none,  *)
(* and a key is the tuple of its columns.                                   *)
(***************************************************************************)
LEMMA CompareDoneHInv ==
    ASSUME HInv, CompareDone
    PROVE  HInv'
<1> DEFINE q == working_indices
           n == Len(q)
<1>1. /\ step = "compare" /\ step' = "groups" /\ ui' = 1 /\ col' = 1
      /\ col > Len(Columns) \/ idx_from >= n
      /\ UNCHANGED allVars
      /\ UNCHANGED <<update_indices, working_indices, idx_from, agg, input_total>>
  BY DEF CompareDone
<1>2. UNCHANGED <<batch, calls, rows, served, phase, pc>> /\ Served' = Served
  BY <1>1, QuietFacts
<1>3. phase = "none" /\ pc = "idle"
  BY <1>1, HandlerFacts
<1>4. MapPart'
  <2>1. BatchTypeOK /\ RowsInv /\ Control /\ Ranges /\ Named /\ Injective /\ ServedRight /\ Parts
    BY <1>1 DEF StagesInv, MapPart
  <2>2. AInv'
    BY <1>1, <2>1, SameAllVars DEF AInv, BKept
  <2> QED
    BY <1>1, <1>2, <1>3, <2>2 DEF AInv, MapPart
<1>5. /\ OnceIn(q, Served) /\ idx_from \in 0 .. n /\ col \in 1 .. Len(Columns) + 1
      /\ Len(Columns) \in Nat /\ DOMAIN Columns = 1 .. Len(Columns)
      /\ Partitioned([indices |-> q, from |-> idx_from], n, n + 1, Others, DiffersBefore(col), {})
  BY <1>1, HandlerAssumption DEF StagesInv, Lists, Cursors, Sorting
<1>6. n \in Nat /\ DOMAIN q = 1 .. n /\ RowsIn(q, n) \subseteq Served
  BY <1>5, OnceInLists
<1>7. Cursors' /\ Lists' /\ Aggregates' /\ Sorting'
  BY <1>1, <1>2, <1>5, <1>6 DEF StagesInv, Cursors, Fits, Lists, Aggregates, Sorting
<1>8. /\ \A i \in 1 .. idx_from : q[i] \in Others
      /\ \A i \in idx_from + 1 .. n : q[i] \notin DiffersBefore(col)
  BY <1>5 DEF Partitioned
<1>9. ASSUME NEW i \in 1 .. n
      PROVE  i <= idx_from <=> rows[served[q[i]]] # batch[q[i]]
  <2> DEFINE r == q[i]
  <2>1. r \in Served /\ r \in DOMAIN batch /\ served[r] # 0
    BY <1>6 DEF RowsIn, Served
  <2>2. CASE i <= idx_from
    BY <1>5, <1>8, <2>2 DEF Others
  <2>3. CASE ~(i <= idx_from)
    <3>1. col = Len(Columns) + 1 /\ i \in idx_from + 1 .. n
      BY <1>1, <1>5, <1>6, <2>3
    <3>2. r \notin DiffersBefore(col)
      BY <1>8, <3>1
    <3> HIDE DEF r
    <3>3. \A c \in DOMAIN Columns : rows[served[r]][c] = batch[r][c]
      <4>1. \A c \in DOMAIN Columns : c \in 1 .. col - 1
        BY <1>5, <3>1
      <4>2. \A c \in DOMAIN Columns : r \notin Differing(c)
        BY <3>2, <4>1 DEF DiffersBefore
      <4> QED
        BY <2>1, <4>2 DEF Differing
    <3>4. rows[served[r]] \in Keys /\ batch[r] \in Keys
      BY <2>1, HandlerFacts
    <3>5. rows[served[r]] = batch[r]
      BY <3>3, <3>4, KeyIsColumns
    <3> QED
      BY <2>3, <3>5 DEF r
  <2> QED
    BY <2>2, <2>3
<1>10. CandidatesSorted'
  BY <1>1, <1>2, <1>6, <1>9 DEF CandidatesSorted
<1> QED
  BY <1>4, <1>7, <1>10 DEF StagesInv

-----------------------------------------------------------------------------
(* The second stage. *)

(* The row that is visited. *)
LEMMA VisitFacts ==
    ASSUME StagesInv, Visiting
    PROVE  /\ step = "groups" /\ phase = "none" /\ ui \in Nat /\ ui + 1 \in 1 .. Len(working_indices) + 1
           /\ ui \in DOMAIN working_indices
           /\ InputRow \in Served /\ InputRow \in DOMAIN batch /\ batch[InputRow] \in Keys
           /\ served[InputRow] \in DOMAIN rows /\ DOMAIN rows = DOMAIN agg
           /\ AggValue(InputRow) \in 0 .. AGG_WRAP - 1 /\ AggValue(InputRow) \in Nat
           /\ update_indices = <<>> /\ OnceIn(working_indices, Served)
<1>1. step = "groups" /\ ui <= Len(working_indices)
  BY DEF Visiting
<1>2. /\ OnceIn(working_indices, Served) /\ ui \in 1 .. Len(working_indices) + 1
      /\ phase = "none" /\ update_indices = <<>>
  BY <1>1 DEF StagesInv, Lists, Cursors, MapPart
<1>3. /\ Len(working_indices) \in Nat /\ DOMAIN working_indices = 1 .. Len(working_indices)
      /\ RowsIn(working_indices, Len(working_indices)) \subseteq Served
  BY <1>2, OnceInLists
<1>4. ui \in 1 .. Len(working_indices) /\ ui \in Nat
  BY <1>1, <1>2, <1>3
<1>5. InputRow \in Served
  BY <1>3, <1>4 DEF RowsIn, InputRow
<1>6. /\ InputRow \in DOMAIN batch /\ batch[InputRow] \in Keys /\ served[InputRow] \in DOMAIN rows
      /\ DOMAIN rows = 1 .. Len(rows)
  BY <1>5, HandlerFacts
<1>7. DOMAIN agg = 1 .. Len(rows)
  BY DEF StagesInv, Aggregates
<1>8. AggValue(InputRow) \in 0 .. AGG_WRAP - 1 /\ AggValue(InputRow) \in Nat
  BY <1>1, <1>6, AggTypes
<1> QED
  BY <1>1, <1>2, <1>3, <1>4, <1>5, <1>6, <1>7, <1>8

(* The lists stay as they are while the rows on them are visited. *)
VisitKept ==
    /\ UNCHANGED batchVars
    /\ UNCHANGED <<step, update_indices, working_indices, idx_from, col, input_total>>
    /\ TypeOK' /\ RowsInv' /\ RowsGrow

LEMMA VisitStages ==
    ASSUME StagesInv, Visiting, VisitKept, ui' \in {ui, ui + 1}, Aggregates',
           pc' # "idle" => ui' = ui /\ ui <= idx_from /\ row' = batch[InputRow],
           pc' = "rehash" => after' = "locate"
    PROVE  /\ StagesInv'
           /\ \A i \in DOMAIN working_indices :
                 rows'[served'[working_indices[i]]] = rows[served[working_indices[i]]]
<1>1. /\ step = "groups" /\ phase = "none" /\ ui \in Nat /\ ui + 1 \in 1 .. Len(working_indices) + 1
      /\ update_indices = <<>> /\ OnceIn(working_indices, Served) /\ step' = "groups"
  BY VisitFacts DEF VisitKept
<1>2. UNCHANGED <<batch, served, phase, calls>> /\ Served' = Served
  BY DEF VisitKept, batchVars, Served
<1>3. BatchTypeOK' /\ Ranges' /\ Named' /\ Injective' /\ ServedRight' /\ Parts'
  BY <1>1, QuietKept DEF VisitKept
<1>4. MapPart'
  BY <1>1, <1>2, <1>3 DEF MapPart, VisitKept, InputRow
<1>5. Cursors'
  BY <1>1, <1>2 DEF StagesInv, Cursors, Fits, VisitKept
<1>6. Lists' /\ Sorting'
  BY <1>1, <1>2 DEF StagesInv, Lists, Sorting, VisitKept
<1>7. ASSUME NEW i \in DOMAIN working_indices
      PROVE  rows'[served[working_indices[i]]] = rows[served[working_indices[i]]]
  <2>1. working_indices[i] \in Served
    BY <1>1, OnceInLists DEF RowsIn
  <2>2. served[working_indices[i]] \in DOMAIN rows
    BY <2>1, HandlerFacts
  <2> QED
    BY <2>2 DEF VisitKept, RowsGrow
<1> QED
  BY <1>2, <1>4, <1>5, <1>6, <1>7 DEF StagesInv

LEMMA VisitHInv ==
    ASSUME HInv, Visiting, VisitKept, ui' \in {ui, ui + 1}, Aggregates',
           pc' # "idle" => ui' = ui /\ ui <= idx_from /\ row' = batch[InputRow],
           pc' = "rehash" => after' = "locate"
    PROVE  HInv'
<1>1. /\ StagesInv'
      /\ \A i \in DOMAIN working_indices :
            rows'[served'[working_indices[i]]] = rows[served[working_indices[i]]]
  BY VisitStages
<1>2. CandidatesSorted'
  <2>1. UNCHANGED <<step, batch, working_indices, idx_from>> /\ step = "groups"
    BY DEF VisitKept, batchVars, Visiting
  <2> QED
    BY <1>1, <2>1 DEF CandidatesSorted
<1> QED
  BY <1>1, <1>2

LEMMA RowsStay ==
    ASSUME StagesInv, rows' = rows
    PROVE  RowsGrow
BY HandlerFacts DEF RowsGrow

LEMMA ReemplaceCallHInv ==
    ASSUME HInv, ReemplaceCall
    PROVE  HInv'
<1>1. /\ Visiting /\ ui <= idx_from /\ pc = "idle" /\ Emplace(batch[InputRow])
      /\ UNCHANGED batchVars
      /\ UNCHANGED <<step, update_indices, working_indices, idx_from, col, ui, agg, input_total>>
  BY DEF ReemplaceCall, handlerVars
<1>2. TypeOK /\ RowsInv /\ batch[InputRow] \in Keys
  BY <1>1, HandlerFacts, VisitFacts
<1>3. TypeOK' /\ RowsInv'
  <2>1. [Next]_vars
    BY <1>1, <1>2 DEF Next
  <2> QED
    BY <1>1, <1>2, <2>1, NextType, EmplaceRowsInv
<1>4. rows' = rows /\ row' = batch[InputRow] /\ (pc' = "rehash" => after' = "locate")
  BY <1>1 DEF Emplace, StartExpand
<1>5. VisitKept
  BY <1>1, <1>3, <1>4, RowsStay DEF VisitKept
<1>6. Aggregates'
  BY <1>1, <1>4 DEF StagesInv, Aggregates
<1> QED
  BY <1>1, <1>4, <1>5, <1>6, VisitHInv

LEMMA ReemplaceProbeHInv ==
    ASSUME HInv, ReemplaceProbe
    PROVE  HInv'
<1>1. /\ Visiting /\ pc # "idle"
      /\ (ExpandStep /\ UNCHANGED emplaceVars) \/ Locate \/ NextUnless(ColumnMatches)
      /\ UNCHANGED batchVars
      /\ UNCHANGED <<step, update_indices, working_indices, idx_from, col, ui, agg, input_total>>
  BY DEF ReemplaceProbe, handlerVars
<1>2. TypeOK /\ RowsInv /\ step = "groups"
  BY <1>1, HandlerFacts, VisitFacts
<1>3. ui <= idx_from /\ row = batch[InputRow] /\ (pc = "rehash" => after = "locate")
  BY <1>1, <1>2 DEF StagesInv, MapPart
<1>4. TypeOK' /\ RowsInv'
  <2>1. CASE NextUnless(ColumnMatches)
    BY <1>2, <2>1, ProbeTypes, ProbeRowsInv
  <2>2. CASE (ExpandStep /\ UNCHANGED emplaceVars) \/ Locate
    <3>1. [Next]_vars
      BY <2>2 DEF Next, Step, EmplaceStep
    <3> QED
      BY <1>2, <3>1, NextType, NextRowsInv
  <2> QED
    BY <1>1, <2>1, <2>2
<1>5. rows' = rows /\ row' = row /\ (pc' = "rehash" => after' = "locate")
  <2>1. CASE ExpandStep /\ UNCHANGED emplaceVars
    BY <1>3, <2>1 DEF ExpandStep, RehashPlace, RehashCollide, RehashRound, RehashDone, emplaceVars
  <2>2. CASE Locate \/ NextUnless(ColumnMatches)
    BY <2>2 DEF Locate, NextUnless
  <2> QED
    BY <1>1, <2>1, <2>2
<1>6. VisitKept
  BY <1>1, <1>4, <1>5, RowsStay DEF VisitKept
<1>7. Aggregates'
  BY <1>1, <1>5 DEF StagesInv, Aggregates
<1> QED
  BY <1>1, <1>3, <1>5, <1>6, <1>7, VisitHInv

(* What += leaves is an aggregate. *)
LEMMA AddAggType ==
    ASSUME NEW a \in Nat, NEW v \in Nat
    PROVE  AddAgg(a, v) \in 0 .. AGG_WRAP - 1
<1>1. AGG_WRAP \in Nat \ {0} /\ a + v \in Nat
  BY HandlerAssumption
<1> QED
  BY <1>1, ModRange DEF AddAgg

(* One aggregate is added to. *)
AddedTo(x, d) == agg' = [agg EXCEPT ![x] = AddAgg(@, d)]

LEMMA AddedFacts ==
    ASSUME StagesInv, rows' = rows, input_total' = input_total, NEW x \in DOMAIN rows,
           NEW d \in Nat, AddedTo(x, d)
    PROVE  /\ Aggregates' /\ agg[x] \in Nat /\ agg[x] < AGG_WRAP
           /\ agg'[x] = (agg[x] + d) % AGG_WRAP
           /\ \A i \in DOMAIN rows : i # x => agg'[i] = agg[i]
<1> DEFINE W == 0 .. AGG_WRAP - 1
           n == Len(rows)
<1>1. /\ agg \in Seq(W) /\ Len(agg) = n /\ input_total \in [Keys -> Nat] /\ AGG_WRAP \in Nat
      /\ n \in Nat /\ DOMAIN rows = 1 .. n
  BY HandlerFacts, HandlerAssumption DEF StagesInv, Aggregates
<1>2. ASSUME NEW a \in W PROVE AddAgg(a, d) \in W
  <2>1. a \in Nat
    BY <1>1
  <2> HIDE DEF W
  <2>2. AddAgg(a, d) \in 0 .. AGG_WRAP - 1
    BY <2>1, AddAggType
  <2> QED
    BY <2>2 DEF W
<1>3. agg' = [agg EXCEPT ![x] = AddAgg(agg[x], d)] /\ x \in 1 .. n
  BY <1>1 DEF AddedTo
<1>w. \A a \in W : a \in Nat /\ a < AGG_WRAP
  BY <1>1
<1> HIDE DEF W, n
<1>4. agg \in [1 .. n -> W] /\ agg[x] \in W
  BY <1>1, <1>3
<1>5. agg' \in [1 .. n -> W]
  BY <1>2, <1>3, <1>4
<1>6. agg' \in Seq(W) /\ Len(agg') = n
  BY <1>1, <1>5
<1>7. agg'[x] = AddAgg(agg[x], d) /\ \A i \in 1 .. n : i # x => agg'[i] = agg[i]
  BY <1>3, <1>4
<1>8. Aggregates'
  BY <1>1, <1>6 DEF Aggregates, W, n
<1> QED
  BY <1>1, <1>4, <1>7, <1>8, <1>w DEF AddAgg

(* emplace finds a stored row, of the same key. *)
LEMMA FoundKey ==
    ASSUME TypeOK, RowsInv, FoundIn(ColumnMatches)
    PROVE  result'.value \in DOMAIN rows /\ rows[result'.value] = row
<1>1. PICK s \in Slots : /\ IsLowest(s, ColumnMatches)
                         /\ result' = [value |-> chunks[pos][s].value, is_new |-> FALSE]
  BY DEF FoundIn
<1>2. /\ s \in HashMatches(chunks[pos], HashOf[row])
      /\ CompareKeysWithDecode(row, rows[chunks[pos][s].value])
  BY <1>1 DEF IsLowest, ColumnMatches
<1>3. pos \in 0 .. num_chunks - 1 /\ HashOf[row] \in Nat /\ row \in Keys /\ rows \in Seq(Keys)
  BY DEF TypeOK, FoundIn
<1>4. result'.value \in DOMAIN rows
  BY <1>1, <1>2, <1>3, HitRight DEF RowsInv
<1> DEFINE x == rows[result'.value]
<1>5. x \in Keys
  BY <1>3, <1>4
<1>6. \A c \in DOMAIN Columns : row[c] = x[c]
  BY <1>1, <1>2 DEF CompareKeysWithDecode
<1> HIDE DEF x
<1>7. x = row
  BY <1>3, <1>5, <1>6, KeyIsColumns
<1> QED
  BY <1>4, <1>7 DEF x

LEMMA FoundIsRow ==
    ASSUME HInv, ReemplaceOld
    PROVE  /\ Visiting /\ result'.value \in DOMAIN rows /\ rows' = rows
           /\ AddedTo(result'.value, AggValue(InputRow))
           /\ UNCHANGED batchVars /\ ui' = ui + 1 /\ pc' = "idle"
           /\ UNCHANGED <<step, update_indices, working_indices, idx_from, col, input_total>>
           /\ TypeOK' /\ RowsInv'
           /\ rows[result'.value] = row /\ pc = "probe"
<1>1. Visiting /\ FoundIn(ColumnMatches) /\ rows' = rows /\ pc = "probe" /\ pc' = "idle"
  BY DEF ReemplaceOld, FoundIn
<1>2. TypeOK /\ RowsInv
  BY HandlerFacts
<1>3. TypeOK' /\ RowsInv'
  BY <1>1, <1>2, ProbeTypes, ProbeRowsInv
<1> QED
  BY <1>1, <1>2, <1>3, FoundKey DEF ReemplaceOld, AddedTo

LEMMA ReemplaceOldHInv ==
    ASSUME HInv, ReemplaceOld
    PROVE  HInv'
<1>1. /\ Visiting /\ result'.value \in DOMAIN rows /\ rows' = rows
      /\ AddedTo(result'.value, AggValue(InputRow))
      /\ UNCHANGED batchVars /\ ui' = ui + 1 /\ pc' = "idle"
      /\ UNCHANGED <<step, update_indices, working_indices, idx_from, col, input_total>>
      /\ TypeOK' /\ RowsInv'
  BY FoundIsRow
<1>2. Aggregates'
  BY <1>1, VisitFacts, AddedFacts
<1>3. VisitKept
  BY <1>1, RowsStay DEF VisitKept
<1> QED
  BY <1>1, <1>2, <1>3, VisitHInv

(* emplace makes a new row, for the key it was called with. *)
LEMMA InsertIsNew ==
    ASSUME HInv, ReemplaceNew
    PROVE  /\ Visiting /\ row = batch[InputRow] /\ rows' = Append(rows, row) /\ RowsGrow
           /\ agg' = Append(agg, AggValue(InputRow))
           /\ UNCHANGED batchVars /\ ui' = ui + 1 /\ pc' = "idle"
           /\ UNCHANGED <<step, update_indices, working_indices, idx_from, col, input_total>>
           /\ TypeOK' /\ RowsInv'
<1>1. /\ Visiting /\ InsertUnless(ColumnMatches) /\ pc = "probe" /\ pc' = "idle"
      /\ rows' = Append(rows, row)
  BY DEF ReemplaceNew, InsertUnless
<1>2. TypeOK /\ RowsInv /\ rows \in Seq(Keys) /\ step = "groups"
  BY <1>1, HandlerFacts, VisitFacts
<1>3. TypeOK' /\ RowsInv'
  BY <1>1, <1>2, ProbeTypes, ProbeRowsInv
<1>4. row = batch[InputRow]
  BY <1>1, <1>2 DEF StagesInv, MapPart
<1>5. RowsGrow
  BY <1>1, <1>2 DEF RowsGrow
<1> QED
  BY <1>1, <1>3, <1>4, <1>5 DEF ReemplaceNew

LEMMA ReemplaceNewHInv ==
    ASSUME HInv, ReemplaceNew
    PROVE  HInv'
<1>1. /\ Visiting /\ rows' = Append(rows, row) /\ RowsGrow
      /\ agg' = Append(agg, AggValue(InputRow))
      /\ UNCHANGED batchVars /\ ui' = ui + 1 /\ pc' = "idle"
      /\ UNCHANGED <<step, update_indices, working_indices, idx_from, col, input_total>>
      /\ TypeOK' /\ RowsInv'
  BY InsertIsNew
<1>2. Aggregates'
  <2> DEFINE v == AggValue(InputRow)
  <2>1. v \in 0 .. AGG_WRAP - 1 /\ rows \in Seq(Keys)
    BY <1>1, VisitFacts, HandlerFacts
  <2>2. /\ agg \in Seq(0 .. AGG_WRAP - 1) /\ Len(agg) = Len(rows)
        /\ input_total' \in [Keys -> Nat]
    BY <1>1 DEF StagesInv, Aggregates
  <2>3. agg' = Append(agg, v)
    BY <1>1
  <2> HIDE DEF v
  <2>4. agg' \in Seq(0 .. AGG_WRAP - 1)
    BY <2>1, <2>2, <2>3
  <2>5. Len(agg') = Len(agg) + 1 /\ Len(rows') = Len(rows) + 1
    BY <1>1, <2>1, <2>2, <2>3
  <2> QED
    BY <2>2, <2>4, <2>5 DEF Aggregates
<1>3. VisitKept
  BY <1>1 DEF VisitKept
<1> QED
  BY <1>1, <1>2, <1>3, VisitHInv

LEMMA AccumulateFacts ==
    ASSUME StagesInv, Accumulate
    PROVE  /\ Visiting /\ ui > idx_from /\ UNCHANGED allVars /\ UNCHANGED batchVars
           /\ AddedTo(served[InputRow], AggValue(InputRow))
           /\ UNCHANGED <<step, update_indices, working_indices, idx_from, col, input_total>>
           /\ ui' = ui + 1 /\ rows' = rows /\ pc' = "idle" /\ pc = "idle"
<1>1. /\ Visiting /\ ui > idx_from /\ UNCHANGED allVars
  BY DEF Accumulate
<1>2. UNCHANGED batchVars /\ rows' = rows /\ pc' = pc
  BY <1>1, QuietFacts
<1>3. pc = "idle"
  <2>1. step = "groups" /\ ui \in Nat /\ idx_from \in 0 .. Len(working_indices)
    BY <1>1, VisitFacts DEF StagesInv, Cursors
  <2>2. Len(working_indices) \in Nat
    BY <1>1, VisitFacts, OnceInLists
  <2>3. pc # "idle" => ui <= idx_from
    BY <2>1 DEF StagesInv, MapPart
  <2> QED
    BY <1>1, <2>1, <2>2, <2>3
<1> QED
  BY <1>1, <1>2, <1>3 DEF Accumulate, AddedTo

LEMMA AccumulateHInv ==
    ASSUME HInv, Accumulate
    PROVE  HInv'
<1>1. /\ Visiting /\ UNCHANGED allVars /\ UNCHANGED batchVars
      /\ AddedTo(served[InputRow], AggValue(InputRow))
      /\ UNCHANGED <<step, update_indices, working_indices, idx_from, col, input_total>>
      /\ ui' = ui + 1 /\ rows' = rows /\ pc' = "idle"
  BY AccumulateFacts
<1>2. Aggregates'
  BY <1>1, VisitFacts, AddedFacts
<1>3. TypeOK' /\ RowsInv'
  BY <1>1, HandlerFacts, SameVars, QuietFacts
<1>4. VisitKept
  BY <1>1, <1>3, RowsStay DEF VisitKept
<1> QED
  BY <1>1, <1>2, <1>4, VisitHInv

LEMMA CallReturnsStages ==
    ASSUME StagesInv, CallReturns
    PROVE  StagesInv' /\ step' = "ready"
<1>1. /\ step = "groups" /\ step' = "ready" /\ ui > Len(working_indices) /\ UNCHANGED allVars
      /\ update_indices' = working_indices /\ working_indices' = <<>>
      /\ idx_from' = 0 /\ ui' = 1 /\ UNCHANGED <<col, agg, input_total>>
  BY DEF CallReturns
<1>2. UNCHANGED <<batch, calls, rows>> /\ Served' = Served
  BY <1>1, QuietFacts
<1>3. phase = "none" /\ pc = "idle"
  <2>1. OnceIn(working_indices, Served) /\ idx_from \in 0 .. Len(working_indices) /\ ui \in Nat
    BY DEF StagesInv, Lists, Cursors
  <2>2. Len(working_indices) \in Nat
    BY <2>1, OnceInLists
  <2>3. phase = "none" /\ (pc # "idle" => ui <= idx_from)
    BY <1>1 DEF StagesInv, MapPart
  <2> QED
    BY <1>1, <2>1, <2>2, <2>3
<1>4. MapPart'
  BY <1>1, <1>3, QuietMap
<1>5. Cursors' /\ Lists' /\ Aggregates' /\ Sorting'
  BY <1>1, <1>2, OnceInEmpty DEF StagesInv, Cursors, Fits, Lists, Aggregates, Sorting
<1> QED
  BY <1>1, <1>4, <1>5 DEF StagesInv

LEMMA CallReturnsHInv ==
    ASSUME HInv, CallReturns
    PROVE  HInv'
BY CallReturnsStages DEF CandidatesSorted


-----------------------------------------------------------------------------
(* The invariant is inductive. *)

LEMMA HandlerKept ==
    ASSUME HInv, HandlerStep
    PROVE  HInv'
BY StartHInv, CallbackHInv, CallbackCalled, NothingHInv, StartCompareHInv, CompareHInv, CompareDoneHInv,
   ReemplaceCallHInv, ReemplaceProbeHInv, ReemplaceOldHInv, ReemplaceNewHInv, AccumulateHInv,
   CallReturnsHInv DEF HandlerStep

LEMMA SameStages ==
    ASSUME StagesInv, UNCHANGED pipelineVars
    PROVE  StagesInv'
<1>1. /\ UNCHANGED <<num_chunks, chunks, size, rows, row, pos, collision_batch, result,
                     after, pc, entries, positions, todo, collided, rehash_batch>>
      /\ UNCHANGED <<batch, phase, resume, idx, cur_count, emplace_hash_vals,
                     emplace_positions, emplace_collisions, batch_collisions, batch_round,
                     retry_idx, retry_count, served, dropped, calls>>
      /\ UNCHANGED <<step, update_indices, working_indices, idx_from, col, ui, agg, input_total>>
      /\ UNCHANGED vars
  BY QuietFacts DEF pipelineVars, handlerVars
<1>2. /\ Served' = Served /\ Others' = Others /\ \A c : Differing(c)' = Differing(c)
      /\ NumRows' = NumRows /\ WaitingAt' = WaitingAt /\ UnvisitedAt' = UnvisitedAt
      /\ RetryAt' = RetryAt /\ InFirstPass' = InFirstPass /\ LastAt' = LastAt
      /\ \A i : RowOf(i)' = RowOf(i) /\ \A r : H(r)' = H(r)
  BY <1>1 DEF Served, Others, Differing, NumRows, WaitingAt, UnvisitedAt, PassEnd, RetryAt,
     InFirstPass, LastAt, RowOf, H
<1>3. TypeOK' /\ RowsInv'
  BY <1>1, HandlerFacts, SameVars
<1>4. BatchTypeOK'
  <2>1. BatchTypeOK
    BY HandlerFacts
  <2> QED
    BY <1>1, <1>2, <1>3, <2>1 DEF BatchTypeOK
<1>5. Ranges' /\ Named' /\ Injective' /\ ServedRight'
  BY <1>1, <1>2 DEF StagesInv, MapPart, Ranges, Named, Injective, InArrays, ServedRight
<1>6. step # "groups" => Control'
  BY <1>1, <1>2 DEF StagesInv, MapPart, Control
<1>7. step # "sized" => Parts'
  <2>1. Waiting' = Waiting /\ Unvisited' = Unvisited /\ ToRetry' = ToRetry
    BY <1>1, <1>2 DEF Waiting, Unvisited, ToRetry
  <2> QED
    BY <1>1, <1>2, <2>1 DEF StagesInv, MapPart, Parts, InArrays, Partition
<1>8. MapPart'
  BY <1>1, <1>3, <1>4, <1>5, <1>6, <1>7 DEF StagesInv, MapPart, InputRow
<1>9. Cursors' /\ Lists' /\ Aggregates'
  BY <1>1, <1>2 DEF StagesInv, Cursors, Fits, Lists, Aggregates
<1>10. Sorting'
  BY <1>1, <1>2 DEF StagesInv, Sorting, DiffersBefore
<1> QED
  BY <1>8, <1>9, <1>10 DEF StagesInv

LEMMA SameHInv ==
    ASSUME HInv, UNCHANGED pipelineVars
    PROVE  HInv'
<1>1. UNCHANGED <<step, working_indices, idx_from, served, rows, batch>>
  BY QuietFacts DEF pipelineVars, handlerVars
<1>2. CandidatesSorted'
  BY <1>1 DEF CandidatesSorted
<1> QED
  BY <1>2, SameStages

LEMMA InitHInv == HandlerInit => HInv
<1> SUFFICES ASSUME HandlerInit PROVE HInv
  OBVIOUS
<1>1. /\ BatchInit /\ step = "ready" /\ update_indices = <<>> /\ working_indices = <<>>
      /\ idx_from = 0 /\ col = 1 /\ ui = 1 /\ agg = <<>> /\ input_total = [k \in Keys |-> 0]
  BY DEF HandlerInit
<1>2. BInv
  BY <1>1, InitBInv
<1>3. batch = <<>> /\ phase = "none" /\ calls = 0 /\ rows = <<>>
  BY <1>1 DEF BatchInit, Init
<1>4. MapPart
  BY <1>1, <1>2, <1>3 DEF BInv, AInv, MapPart
<1>5. Cursors
  <2>1. Fits(batch)
    <3>1. Len(batch) = 0 /\ batch \in Seq(Keys) /\ Capacity(MOST_CHUNKS) \in Nat
      BY <1>3, TableAssumption DEF Capacity, MOST_CHUNKS
    <3>2. \A c \in DOMAIN AggValues : Len(AggValues[c]) \in Nat
      BY HandlerAssumption
    <3> QED
      BY <3>1, <3>2 DEF Fits
  <2>2. Len(Columns) \in Nat /\ MaxCalls \in Nat
    BY HandlerAssumption, BatchAssumption
  <2> QED
    BY <1>1, <1>3, <2>1, <2>2 DEF Cursors
<1>6. Lists /\ Sorting /\ CandidatesSorted
  BY <1>1, OnceInEmpty DEF Lists, Sorting, CandidatesSorted
<1>7. Aggregates
  BY <1>1, <1>3 DEF Aggregates
<1> QED
  BY <1>4, <1>5, <1>6, <1>7 DEF StagesInv

-----------------------------------------------------------------------------
(* The callers. *)

WInv ==
    /\ HInv
    /\ driver # "any" => data \in Seq(DriverKeys) /\ batch_idx \in Nat

(* A driver's rows are the keys of the table, and the probes after them. *)
LEMMA DataFrom ==
    ASSUME NEW B \in Seq(DriverKeys), NEW num_hits, NEW D,
           D \in GenData(B, num_hits, DriverKeys)
    PROVE  D \in Seq(DriverKeys)
<1>1. PICK p \in [1 .. NUM_PROBE_ROWS -> DriverKeys] : D = B \o p
  BY DEF GenData
<1>2. NUM_PROBE_ROWS \in Nat
  BY WorkloadAssumption
<1>3. p \in Seq(DriverKeys)
  BY <1>2
<1> QED
  BY <1>1, <1>3

LEMMA SliceFits ==
    ASSUME NEW D \in Seq(DriverKeys), NEW b \in Nat, b < NumBatches(Len(D))
    PROVE  Fits(BatchOf(D, b))
<1> DEFINE B == BatchOf(D, b)
<1>1. B \in Seq(DriverKeys) /\ Len(B) \in Nat /\ Len(B) <= BATCH_SIZE
  BY SliceFacts
<1> HIDE DEF B
<1>2. BATCH_SIZE \in Nat /\ Capacity(MOST_CHUNKS) \in Nat /\ DriverKeys \subseteq Keys
  BY WorkloadAssumption, DriverAssumption, TableAssumption DEF Capacity, MOST_CHUNKS
<1>3. B \in Seq(Keys)
  BY <1>1, <1>2
<1>4. 2 * Len(B) <= Capacity(MOST_CHUNKS)
  <2>1. 2 * BATCH_SIZE <= Capacity(MOST_CHUNKS)
    BY DriverAssumption
  <2> QED
    BY <1>1, <1>2, <2>1
<1>5. ASSUME NEW c \in DOMAIN AggValues PROVE Len(B) <= Len(AggValues[c])
  <2>1. BATCH_SIZE <= Len(AggValues[c])
    BY DriverAssumption
  <2>2. Len(AggValues[c]) \in Nat
    BY HandlerAssumption
  <2> QED
    BY <1>1, <1>2, <2>1, <2>2
<1> QED
  BY <1>3, <1>4, <1>5 DEF Fits, B

LEMMA BatchFits == \A B \in Batches : Fits(B)
<1>1. \A B \in Batches : B \in Seq(Keys)
  BY BatchAssumption
<1>2. \A B \in Batches : 2 * Len(B) <= Capacity(MOST_CHUNKS)
  BY HandlerAssumption
<1>3. \A B \in Batches : \A c \in DOMAIN AggValues : Len(B) <= Len(AggValues[c])
  BY HandlerAssumption
<1> QED
  BY <1>1, <1>2, <1>3 DEF Fits

(* Every step is one of the pipeline. *)
PipelineNext ==
    \/ \E B : Fits(B) /\ EmplaceTableWithDecode(B)
    \/ HandlerStep
    \/ UNCHANGED pipelineVars

LEMMA WorkIsPipeline ==
    ASSUME WInv, [WorkNext]_workVars
    PROVE  PipelineNext
<1>1. ASSUME NEW B \in Batches, AnyCall(B) PROVE PipelineNext
  BY <1>1, BatchFits DEF AnyCall, PipelineNext
<1>2. CASE RunWorkload
  <2>1. /\ driver # "any" /\ batch_idx < NumBatches(Len(data))
        /\ EmplaceTableWithDecode(BatchOf(data, batch_idx))
    BY <1>2 DEF RunWorkload
  <2>2. data \in Seq(DriverKeys) /\ batch_idx \in Nat
    BY <2>1 DEF WInv
  <2> QED
    BY <2>1, <2>2, SliceFits DEF PipelineNext
<1>3. CASE PipelineStep
  BY <1>3 DEF PipelineStep, PipelineNext
<1>4. CASE UNCHANGED workVars
  BY <1>4 DEF workVars, PipelineNext
<1> QED
  BY <1>1, <1>2, <1>3, <1>4 DEF WorkNext

LEMMA InitWInv == WorkInit => WInv
<1> SUFFICES ASSUME WorkInit PROVE WInv
  OBVIOUS
<1>1. HInv /\ batch_idx = 0
  BY InitHInv DEF WorkInit
<1>2. CASE StartRunWorkload
  <2>1. PICK B \in Builds, num_hits \in 0 .. NUM_PROBE_ROWS : data \in GenData(B, num_hits, DriverKeys)
    BY <1>2 DEF StartRunWorkload
  <2>2. B \in Seq(DriverKeys)
    BY DriverAssumption
  <2> QED
    BY <1>1, <2>1, <2>2, DataFrom DEF WInv
<1>3. CASE driver = "any"
  BY <1>1, <1>3 DEF WInv
<1> QED
  BY <1>2, <1>3 DEF WorkInit

LEMMA NextWInv == WInv /\ [WorkNext]_workVars => WInv'
<1> SUFFICES ASSUME WInv, [WorkNext]_workVars PROVE WInv'
  OBVIOUS
<1>1. HInv'
  BY WorkIsPipeline, TableCallHInv, HandlerKept, SameHInv DEF WInv, PipelineNext
<1>2. UNCHANGED <<driver, data>> /\ (batch_idx' = batch_idx \/ batch_idx' = batch_idx + 1)
  BY DEF WorkNext, AnyCall, RunWorkload, PipelineStep, driverVars, workVars
<1> QED
  BY <1>1, <1>2 DEF WInv

LEMMA StagesTyped == StagesInv => HandlerTypeOK
<1> SUFFICES ASSUME StagesInv PROVE HandlerTypeOK
  OBVIOUS
<1>1. TypeOK /\ BatchTypeOK /\ Served \subseteq DOMAIN batch
  BY HandlerFacts
<1>2. step # "ready" => update_indices \in Seq(DOMAIN batch)
  BY <1>1, OnceInGrows DEF StagesInv, Lists, OnceIn
<1>3. working_indices \in Seq(DOMAIN batch)
  BY <1>1, OnceInGrows DEF StagesInv, Lists, OnceIn
<1> QED
  BY <1>1, <1>2, <1>3 DEF StagesInv, Cursors, Aggregates, HandlerTypeOK

LEMMA WInvCorrect == WorkSpec => []WInv
<1>1. WorkInit => WInv
  BY InitWInv
<1>2. WInv /\ [WorkNext]_workVars => WInv'
  BY NextWInv
<1> QED
  BY <1>1, <1>2, PTL DEF WorkSpec

(***************************************************************************)
(* Whoever calls, with whatever batches: the lists of rows that go back and *)
(* forth between the handler and a call name rows of that call, the cursors *)
(* stay on them through the swaps, and there is one aggregate per row that  *)
(* was stored, also after the presizing made the table anew.                *)
(***************************************************************************)
THEOREM HandlerTypeCorrect == WorkSpec => []HandlerTypeOK
<1>1. WInv => HandlerTypeOK
  BY StagesTyped DEF WInv
<1> QED
  BY <1>1, WInvCorrect, PTL

(***************************************************************************)
(* The partition over all columns and the two stages fit together: when the *)
(* second stage starts, and as long as it adds groups, the rows before      *)
(* idx_from are exactly the ones whose candidate is another key's group.    *)
(***************************************************************************)
THEOREM SortedAlways == WorkSpec => []CandidatesSorted
<1>1. WInv => CandidatesSorted
  BY DEF WInv, StagesInv
<1> QED
  BY <1>1, WInvCorrect, PTL

-----------------------------------------------------------------------------
(* The totals. *)

(* The aggregates of the current call, and what is in groups and what is not. *)
Values == AggValues[IF step = "sized" THEN calls + 1 ELSE calls]
Grouped(k) == TermsTotal(rows, agg, DOMAIN rows, k)
Open(k) == TermsTotal(batch, Values, ToAdd, k)

TotalsRight ==
    /\ rows \in Seq(Keys) /\ batch \in Seq(Keys)
    /\ Valued(rows, agg)
    /\ step # "ready" => Valued(batch, Values)
    /\ \A k \in Keys : /\ GroupTotal(k) = Grouped(k) /\ Grouped(k) \in Nat
                       /\ StillToAdd(k) = Open(k) /\ Open(k) \in Nat
                       /\ input_total[k] \in Nat

LEMMA TotalFacts == StagesInv => TotalsRight
<1> SUFFICES ASSUME StagesInv PROVE TotalsRight
  OBVIOUS
<1>1. rows \in Seq(Keys) /\ batch \in Seq(Keys) /\ DOMAIN rows = 1 .. Len(rows)
  BY HandlerFacts
<1>2. Valued(rows, agg)
  <2>1. \A T : \A q \in Seq(T) : \A i \in 1 .. Len(q) : q[i] \in T
    OBVIOUS
  <2>2. agg \in Seq(0 .. AGG_WRAP - 1) /\ Len(agg) = Len(rows)
    BY DEF StagesInv, Aggregates
  <2>3. \A i \in 1 .. Len(rows) : agg[i] \in 0 .. AGG_WRAP - 1
    BY <2>1, <2>2, Zenon
  <2> QED
    BY <1>1, <2>3, HandlerAssumption DEF Valued
<1>3. step # "ready" => Valued(batch, Values)
  BY AggTypes DEF Valued, Values, AggValue
<1>4. ASSUME NEW k \in Keys
      PROVE  /\ GroupTotal(k) = Grouped(k) /\ Grouped(k) \in Nat
             /\ StillToAdd(k) = Open(k) /\ Open(k) \in Nat
             /\ input_total[k] \in Nat
  <2>1. GroupTotal(k) = Grouped(k)
    <3>1. [i \in DOMAIN rows |-> IF rows[i] = k THEN agg[i] ELSE 0]
            = Terms(rows, agg, DOMAIN rows, k)
      BY DEF Terms
    <3> QED
      BY <3>1 DEF GroupTotal, Grouped, TermsTotal
  <2>2. StillToAdd(k) = Open(k)
    BY DEF StillToAdd, Open, TermsTotal, Terms, AggValue, Values
  <2>3. Grouped(k) \in Nat
    BY <1>1, <1>2, TermsNumbers DEF Grouped
  <2>4. Open(k) \in Nat
    <3>1. CASE step = "ready"
      <4>1. ToAdd = {}
        BY <3>1 DEF ToAdd
      <4> QED
        BY <1>1, <4>1, TermsNothing DEF Open
    <3>2. CASE step # "ready"
      BY <1>1, <1>3, <3>2, TermsNumbers DEF Open
    <3> QED
      BY <3>1, <3>2
  <2>5. input_total[k] \in Nat
    BY DEF StagesInv, Aggregates
  <2> QED
    BY <2>1, <2>2, <2>3, <2>4, <2>5
<1> QED
  BY <1>1, <1>2, <1>3, <1>4 DEF TotalsRight

Conserved == \A k \in Keys : (Grouped(k) + Open(k)) % AGG_WRAP = input_total[k] % AGG_WRAP

LEMMA ConservedIs == TotalsRight => (ValuesConserved <=> Conserved)
BY DEF TotalsRight, ValuesConserved, Conserved

(* Nothing is added, and the open rows stay the same ones. *)
LEMMA OpenKept ==
    ASSUME TotalsRight, Conserved, UNCHANGED <<rows, agg, input_total, batch>>,
           \A i \in DOMAIN batch : i \in ToAdd <=> i \in ToAdd',
           \A i \in DOMAIN batch : i \in ToAdd => Values'[i] = Values[i]
    PROVE  Conserved'
<1>1. ASSUME NEW k \in Keys PROVE Grouped(k)' = Grouped(k) /\ Open(k)' = Open(k)
  <2>1. Grouped(k)' = Grouped(k)
    BY DEF Grouped
  <2>2. TermsTotal(batch, Values, ToAdd, k) = TermsTotal(batch, Values', ToAdd', k)
    BY TermsSame DEF TotalsRight
  <2> QED
    BY <2>1, <2>2 DEF Open
<1> QED
  BY <1>1 DEF Conserved

(* An open row is closed. *)
Closed(r) ==
    /\ r \in DOMAIN batch /\ r \in ToAdd /\ r \notin ToAdd'
    /\ \A i \in DOMAIN batch : i # r => (i \in ToAdd <=> i \in ToAdd')
    /\ step # "ready" /\ Values' = Values /\ UNCHANGED <<batch, input_total>>

LEMMA ClosedTotal ==
    ASSUME TotalsRight, NEW r, Closed(r), NEW k \in Keys
    PROVE  Open(k) = Open(k)' + Share(batch[r], Values[r], k) /\ Values[r] \in Nat
<1>1. /\ Valued(batch, Values) /\ batch \in Seq(Keys) /\ r \in DOMAIN batch
      /\ r \in ToAdd /\ r \notin ToAdd'
      /\ \A i \in DOMAIN batch : i # r => (i \in ToAdd <=> i \in ToAdd')
  BY DEF TotalsRight, Closed
<1>2. TermsTotal(batch, Values, ToAdd, k)
        = TermsTotal(batch, Values, ToAdd', k) + Share(batch[r], Values[r], k)
  BY <1>1, TermsTaken
<1> QED
  BY <1>1, <1>2 DEF Open, Closed, Valued

(* It is the first of a new group. *)
LEMMA MadeKept ==
    ASSUME TotalsRight, TotalsRight', Conserved, NEW r, Closed(r), Len(agg) = Len(rows),
           agg \in Seq(0 .. AGG_WRAP - 1), Values[r] \in 0 .. AGG_WRAP - 1,
           rows' = Append(rows, batch[r]), agg' = Append(agg, Values[r])
    PROVE  Conserved'
<1> DEFINE d == Values[r]
           key == batch[r]
<1>1. rows \in Seq(Keys) /\ key \in Keys /\ DOMAIN rows = 1 .. Len(rows) /\ Len(rows) \in Nat
  BY DEF TotalsRight, Closed
<1>2. agg'[Len(rows) + 1] = d /\ \A i \in DOMAIN rows : agg'[i] = agg[i]
  <2> HIDE DEF d
  <2>1. agg' = Append(agg, d)
    BY DEF d
  <2> QED
    BY <1>1, <2>1
<1>3. ASSUME NEW k \in Keys PROVE Grouped(k)' + Open(k)' = Grouped(k) + Open(k)
  <2>1. Open(k) = Open(k)' + Share(key, d, k)
    BY ClosedTotal
  <2>2. Grouped(k)' = Grouped(k) + Share(key, agg'[Len(rows) + 1], k)
    <3> HIDE DEF key, d
    <3>1. rows' = Append(rows, key)
      BY DEF key
    <3>2. \A i \in DOMAIN rows : agg'[i] = agg[i]
      BY <1>2
    <3> DEFINE u == agg'
    <3>3. rows \in Seq(Keys) /\ key \in Keys /\ Alike(rows, agg, u)
      BY <1>1, <3>2 DEF Alike
    <3> HIDE DEF u
    <3>4. TermsTotal(Append(rows, key), u, DOMAIN Append(rows, key), k)
            = TermsTotal(rows, agg, DOMAIN rows, k) + Share(key, u[Len(rows) + 1], k)
      BY <3>3, TermsAppend
    <3> QED
      BY <3>1, <3>4 DEF Grouped, u
  <2>3. /\ Grouped(k) \in Nat /\ Open(k) \in Nat /\ Open(k)' \in Nat /\ Grouped(k)' \in Nat
    BY DEF TotalsRight
  <2>4. Share(key, d, k) \in Nat
    BY ClosedTotal DEF Share
  <2> HIDE DEF key, d
  <2> QED
    BY <1>2, <2>1, <2>2, <2>3, <2>4
<1>4. ASSUME NEW k \in Keys
      PROVE  (Grouped(k)' + Open(k)') % AGG_WRAP = input_total'[k] % AGG_WRAP
  BY <1>3 DEF Conserved, Closed
<1> QED
  BY <1>4 DEF Conserved

(* Or it is added to the group of its key. *)
LEMMA AddedKept ==
    ASSUME TotalsRight, TotalsRight', Conserved, NEW r, Closed(r), rows' = rows,
           NEW x \in DOMAIN rows, rows[x] = batch[r],
           agg[x] < AGG_WRAP, agg'[x] = (agg[x] + Values[r]) % AGG_WRAP,
           \A i \in DOMAIN rows : i # x => agg'[i] = agg[i]
    PROVE  Conserved'
<1> DEFINE d == Values[r]
           w == AGG_WRAP
<1>1. w \in Nat \ {0}
  BY HandlerAssumption
<1>2. ASSUME NEW k \in Keys
      PROVE  (Grouped(k)' + Open(k)') % w = (Grouped(k) + Open(k)) % w
  <2>1. Open(k) = Open(k)' + Share(rows[x], d, k) /\ d \in Nat
    BY ClosedTotal
  <2>2. /\ rows \in Seq(Keys) /\ Valued(rows, agg)
        /\ Grouped(k) \in Nat /\ Open(k) \in Nat /\ Open(k)' \in Nat /\ Grouped(k)' \in Nat
    BY DEF TotalsRight
  <2> HIDE DEF d, w
  <2>3. Grouped(k)' % w = (Grouped(k) + Share(rows[x], d, k)) % w
    <3>1. agg[x] < w /\ agg'[x] = (agg[x] + d) % w
      BY DEF d, w
    <3>2. TermsTotal(rows, agg', DOMAIN rows, k) % w
            = (TermsTotal(rows, agg, DOMAIN rows, k) + Share(rows[x], d, k)) % w
      <4> DEFINE u == agg'
      <4>1. /\ w \in Nat \ {0} /\ d \in Nat /\ rows \in Seq(Keys) /\ Valued(rows, agg)
            /\ RaisedAt(rows, agg, u, x, d, w)
        BY <1>1, <2>1, <2>2, <3>1 DEF RaisedAt
      <4> HIDE DEF u
      <4>2. TermsTotal(rows, u, DOMAIN rows, k) % w
              = (TermsTotal(rows, agg, DOMAIN rows, k) + Share(rows[x], d, k)) % w
        BY <4>1, TermsAdded
      <4> QED
        BY <4>2 DEF u
    <3> QED
      BY <3>2 DEF Grouped
  <2>4. Share(rows[x], d, k) \in Nat
    BY <2>1 DEF Share
  <2> DEFINE a == Grouped(k)' b == Open(k)' c == Grouped(k) e == Share(rows[x], d, k)
  <2>5. a \in Nat /\ b \in Nat /\ c \in Nat /\ e \in Nat /\ a % w = (c + e) % w /\ Open(k) = b + e
    BY <2>1, <2>2, <2>3, <2>4
  <2> HIDE DEF a, b, c, e
  <2>6. \A y, z \in Nat : ((y % w) + z) % w = (y + z) % w
    BY <1>1, ModAdd
  <2>7. (a + b) % w = ((c + e) + b) % w
    <3>1. c + e \in Nat
      BY <2>5
    <3>2. (a + b) % w = ((a % w) + b) % w
      BY <2>5, <2>6
    <3>3. (((c + e) % w) + b) % w = ((c + e) + b) % w
      BY <2>5, <2>6, <3>1
    <3> QED
      BY <2>5, <3>2, <3>3
  <2>8. (c + e) + b = c + (b + e)
    BY <2>5
  <2> QED
    BY <2>5, <2>7, <2>8 DEF a, b, c
<1> QED
  BY <1>2 DEF Conserved, Closed, w


(* A call brings open rows. *)
CallBrings(B) ==
    /\ step = "ready" /\ step' = "sized" /\ batch' = B /\ calls < MaxCalls
    /\ UNCHANGED <<rows, agg, calls>>
    /\ input_total' = [k \in Keys |-> input_total[k] + PassedIn(B, k)]

LEMMA TableCallConserved ==
    ASSUME StagesInv, Conserved, NEW B, Fits(B), CallBrings(B)
    PROVE  Conserved'
<1>1. /\ step = "ready" /\ step' = "sized" /\ batch' = B /\ calls < MaxCalls
      /\ UNCHANGED <<rows, agg, calls>>
      /\ input_total' = [k \in Keys |-> input_total[k] + PassedIn(B, k)]
  BY DEF CallBrings
<1>2. TotalsRight /\ calls \in 0 .. MaxCalls
  BY TotalFacts DEF StagesInv, Cursors
<1>3. AGG_WRAP \in Nat \ {0} /\ batch \in Seq(Keys)
  BY HandlerAssumption, HandlerFacts
<1>4. ASSUME NEW k \in Keys
      PROVE  (Grouped(k)' + Open(k)') % AGG_WRAP = input_total'[k] % AGG_WRAP
  <2>1. Grouped(k)' = Grouped(k)
    BY <1>1 DEF Grouped
  <2>2. Open(k) = 0
    <3>1. ToAdd = {}
      BY <1>1 DEF ToAdd
    <3> QED
      BY <1>3, <3>1, TermsNothing DEF Open
  <2>3. Open(k)' = PassedIn(B, k) /\ PassedIn(B, k) \in Nat
    <3>1. ToAdd' = DOMAIN B /\ Values' = AggValues[calls + 1]
      BY <1>1 DEF ToAdd, Values
    <3> QED
      BY <1>1, <1>2, <3>1, PassedFacts DEF Open
  <2>4. Grouped(k) \in Nat /\ input_total[k] \in Nat
    BY <1>2 DEF TotalsRight
  <2>5. Grouped(k) % AGG_WRAP = input_total[k] % AGG_WRAP
    BY <2>2, <2>4 DEF Conserved
  <2>6. input_total'[k] = input_total[k] + PassedIn(B, k)
    BY <1>1
  <2> DEFINE a == Grouped(k) b == PassedIn(B, k) c == input_total[k] w == AGG_WRAP
  <2>7. /\ a \in Nat /\ b \in Nat /\ c \in Nat /\ w \in Nat \ {0} /\ a % w = c % w
        /\ Grouped(k)' = a /\ Open(k)' = b /\ input_total'[k] = c + b
    BY <1>3, <2>1, <2>3, <2>4, <2>5, <2>6
  <2> HIDE DEF a, b, c, w
  <2>8. \A y, z \in Nat : ((y % w) + z) % w = (y + z) % w
    BY <2>7, ModAdd
  <2>9. (a + b) % w = (c + b) % w
    <3>1. (a + b) % w = ((a % w) + b) % w /\ (c + b) % w = ((c % w) + b) % w
      BY <2>7, <2>8
    <3> QED
      BY <2>7, <3>1
  <2> QED
    BY <2>7, <2>9 DEF w
<1> QED
  BY <1>4 DEF Conserved

(* A call without the rows that a retry forgot. *)
NothingDropped == dropped = {}

(* When the batch insertion is through, the open rows are the ones on the list. *)
LEMMA OpenAreListed ==
    ASSUME StagesInv, NothingDropped, step = "batch", phase = "none"
    PROVE  ToAdd = RowsIn(update_indices, Len(update_indices))
<1>1. Served = DOMAIN batch
  BY DEF StagesInv, MapPart, Parts, NothingDropped
<1>2. {r \in DOMAIN batch : served[r] = 0} = {}
  BY <1>1 DEF Served
<1>3. DOMAIN update_indices = 1 .. Len(update_indices)
  BY OnceInLists DEF StagesInv, Lists
<1> QED
  BY <1>2, <1>3 DEF ToAdd, RowsIn

LEMMA CallbackConserved ==
    ASSUME StagesInv, StagesInv', Conserved, CallbackDone
    PROVE  Conserved'
<1>1. /\ step = "batch" /\ step' = "batch" /\ TotalsRight /\ TotalsRight'
      /\ UNCHANGED <<batch, calls, step, input_total>>
  <2>1. step = "batch" /\ step' = "batch" /\ UNCHANGED <<batch, calls, step, input_total>>
    BY DEF CallbackDone
  <2>2. TotalsRight /\ TotalsRight'
    BY TotalFacts, PTL
  <2> QED
    BY <2>1, <2>2
<1>2. Values' = Values
  BY <1>1 DEF Values
<1>3. /\ OnceIn(update_indices, Served) /\ DOMAIN update_indices = 1 .. Len(update_indices)
      /\ update_indices \in Seq(Served) /\ Served \subseteq DOMAIN batch
  BY <1>1, OnceInLists, HandlerFacts DEF StagesInv, Lists, OnceIn
<1> DEFINE Listed == {update_indices[i] : i \in DOMAIN update_indices}
<1>4. /\ ToAdd = {r \in DOMAIN batch : served[r] = 0} \cup Listed
      /\ ToAdd' = {r \in DOMAIN batch : served'[r] = 0} \cup Listed'
      /\ Listed \subseteq Served
  <2>1. Listed \subseteq Served
    BY <1>3
  <2> QED
    BY <1>1, <2>1 DEF ToAdd
<1>5. CASE NothingNoted
  <2>1. UNCHANGED <<rows, agg, served, update_indices>>
    BY <1>5 DEF NothingNoted, NoGroupGiven
  <2>2. ToAdd' = ToAdd
    BY <1>4, <2>1
  <2> QED
    BY <1>1, <1>2, <2>1, <2>2, OpenKept
<1>6. ASSUME NEW r \in DOMAIN batch, GroupGiven(r), r \notin Served, GroupMade(r)
      PROVE  Conserved'
  <2>1. /\ served[r] = 0 /\ served'[r] # 0
        /\ \A q \in DOMAIN batch \ {r} : served'[q] = served[q]
    BY <1>6 DEF GroupGiven
  <2>2. /\ rows' = Append(rows, batch[r]) /\ agg' = Append(agg, Values[r])
        /\ update_indices' = update_indices /\ Listed' = Listed
    BY <1>6 DEF GroupMade, AggValue, Values
  <2>3. r \in ToAdd /\ r \notin ToAdd'
    BY <1>4, <1>6, <2>1, <2>2
  <2>4. \A i \in DOMAIN batch : i # r => (i \in ToAdd <=> i \in ToAdd')
    BY <1>4, <2>1, <2>2
  <2>5. Closed(r)
    BY <1>1, <1>2, <2>3, <2>4 DEF Closed
  <2>6. Values[r] \in 0 .. AGG_WRAP - 1
    BY <1>1, AggTypes DEF AggValue, Values
  <2>7. Len(agg) = Len(rows) /\ agg \in Seq(0 .. AGG_WRAP - 1)
    BY DEF StagesInv, Aggregates
  <2> QED
    BY <1>1, <2>2, <2>5, <2>6, <2>7, MadeKept
<1>7. ASSUME NEW r \in DOMAIN batch, GroupGiven(r), r \notin Served, GroupMet(r)
      PROVE  Conserved'
  <2>1. /\ served[r] = 0 /\ served'[r] # 0
        /\ \A q \in DOMAIN batch \ {r} : served'[q] = served[q]
    BY <1>7 DEF GroupGiven
  <2>2. UNCHANGED <<rows, agg>> /\ update_indices' = Append(update_indices, r)
    BY <1>7 DEF GroupMet
  <2>3. Listed' = Listed \cup {r}
    <3> DEFINE q == update_indices
               p == Append(q, r)
               n == Len(q)
    <3>1. /\ n \in Nat /\ DOMAIN q = 1 .. n /\ DOMAIN p = 1 .. n + 1
          /\ p[n + 1] = r /\ \A i \in 1 .. n : p[i] = q[i]
      BY <1>3
    <3>2. Listed = {q[i] : i \in 1 .. n} /\ Listed' = {p[i] : i \in 1 .. n + 1}
      BY <2>2, <3>1
    <3> HIDE DEF p, q, n, Listed
    <3>3. 1 .. n + 1 = (1 .. n) \cup {n + 1}
      BY <3>1
    <3> QED
      BY <3>1, <3>2, <3>3
  <2>4. \A i \in DOMAIN batch : i \in ToAdd <=> i \in ToAdd'
    <3> HIDE DEF Listed
    <3> QED
      BY <1>4, <2>1, <2>3
  <2> QED
    BY <1>1, <1>2, <2>2, <2>4, OpenKept
<1> QED
  BY <1>5, <1>6, <1>7 DEF CallbackDone

(* Between the two stages only the order of the rows changes. *)
LEMMA QuietConserved ==
    ASSUME StagesInv, Conserved, NothingDropped,
           StartBatch \/ NothingToCompare \/ StartCompare \/ CompareColumn \/ CompareDone
    PROVE  Conserved'
<1>1. TotalsRight
  BY TotalFacts
<1>2. UNCHANGED <<rows, agg, input_total, batch>>
  <2>1. CASE StartBatch
    BY <2>1 DEF StartBatch, EmplaceBatch, vars, emplaceVars
  <2>2. CASE ~StartBatch
    <3>1. UNCHANGED allVars /\ UNCHANGED <<agg, input_total>>
      BY <2>2 DEF NothingToCompare, StartCompare, CompareColumn, CompareDone
    <3> QED
      BY <3>1, QuietFacts
  <2> QED
    BY <2>1, <2>2
<1>3. CASE StartBatch
  <2>1. /\ step = "sized" /\ step' = "batch" /\ calls' = calls + 1
        /\ served' = [i \in DOMAIN batch |-> 0]
    BY <1>3 DEF StartBatch, EmplaceBatch
  <2>2. Values' = Values
    BY <2>1 DEF Values
  <2>3. \A i \in DOMAIN batch : i \in ToAdd /\ i \in ToAdd'
    BY <1>2, <2>1 DEF ToAdd
  <2> QED
    BY <1>1, <1>2, <2>2, <2>3, OpenKept
<1>4. CASE NothingToCompare
  <2>1. /\ step = "batch" /\ step' = "ready" /\ phase = "none" /\ update_indices = <<>>
    BY <1>4 DEF NothingToCompare
  <2>2. ToAdd = {}
    BY <2>1, OpenAreListed DEF RowsIn
  <2>3. ToAdd' = {}
    BY <2>1 DEF ToAdd
  <2> QED
    BY <1>1, <1>2, <2>2, <2>3, OpenKept
<1>5. CASE StartCompare
  <2>1. /\ step = "batch" /\ step' = "compare" /\ phase = "none" /\ UNCHANGED allVars
        /\ working_indices' = update_indices /\ ui' = ui
    BY <1>5 DEF StartCompare
  <2>2. ui' = 1 /\ Values' = Values
    BY <2>1, QuietFacts DEF StagesInv, Cursors, Lists, Values
  <2>3. ToAdd' = RowsIn(update_indices, Len(update_indices))
    BY <2>1, <2>2 DEF ToAdd, RowsIn
  <2>4. ToAdd' = ToAdd
    BY <2>1, <2>3, OpenAreListed
  <2> QED
    BY <1>1, <1>2, <2>2, <2>4, OpenKept
<1>6. CASE CompareColumn
  <2> DEFINE q == working_indices
             n == Len(q)
             part == ComparePass(q, idx_from, Differing(col))
  <2>1. /\ step = "compare" /\ step' = "compare" /\ UNCHANGED allVars
        /\ q' = part.indices /\ ui' = ui
    BY <1>6 DEF CompareColumn
  <2>2. ui = 1 /\ Values' = Values
    BY <2>1, QuietFacts DEF StagesInv, Cursors, Values
  <2>3. RowsIn(part.indices, n) = RowsIn(q, n) /\ Len(part.indices) = n
    BY <1>6, CompareLists
  <2> HIDE DEF part
  <2>4. ToAdd = RowsIn(q, n) /\ ToAdd' = RowsIn(part.indices, n)
    BY <2>1, <2>2, <2>3 DEF ToAdd, RowsIn
  <2> QED
    BY <1>1, <1>2, <2>2, <2>3, <2>4, OpenKept
<1>7. CASE CompareDone
  <2>1. /\ step = "compare" /\ step' = "groups" /\ UNCHANGED allVars
        /\ ui' = 1 /\ working_indices' = working_indices
    BY <1>7 DEF CompareDone
  <2>2. ui = 1 /\ Values' = Values
    BY <2>1, QuietFacts DEF StagesInv, Cursors, Values
  <2>3. ToAdd' = ToAdd
    BY <2>1, <2>2 DEF ToAdd
  <2> QED
    BY <1>1, <1>2, <2>2, <2>3, OpenKept
<1> QED
  BY <1>3, <1>4, <1>5, <1>6, <1>7

(* A visit closes the row it is at: no other place names it. *)
LEMMA VisitCloses ==
    ASSUME StagesInv, Visiting, ui' = ui + 1,
           UNCHANGED <<batch, calls, step, working_indices, input_total>>
    PROVE  Closed(InputRow) /\ Values[InputRow] = AggValue(InputRow)
<1> DEFINE q == working_indices
           n == Len(q)
           r == InputRow
<1>1. /\ step = "groups" /\ step' = "groups" /\ ui \in 1 .. n /\ ui \in Nat /\ n \in Nat
      /\ OnceIn(q, Served) /\ DOMAIN q = 1 .. n /\ r \in DOMAIN batch /\ r = q[ui]
      /\ UNCHANGED <<batch, calls, input_total>>
  <2>1. OnceIn(q, Served) /\ ui \in DOMAIN q
    BY VisitFacts
  <2>2. DOMAIN q = 1 .. n /\ n \in Nat
    BY <2>1, OnceInLists
  <2> QED
    BY <2>1, <2>2, VisitFacts DEF InputRow
<1>2. ToAdd = {q[i] : i \in ui .. n} /\ ToAdd' = {q[i] : i \in ui + 1 .. n}
  BY <1>1 DEF ToAdd
<1>3. ui .. n = {ui} \cup (ui + 1 .. n) /\ ui + 1 .. n \subseteq 1 .. n /\ ui \notin ui + 1 .. n
  BY <1>1
<1>4. \A i \in 1 .. n : q[i] = r => i = ui
  BY <1>1 DEF OnceIn
<1> HIDE DEF q, n, r
<1>5. r \in ToAdd /\ r \notin ToAdd' /\ \A i : i # r => (i \in ToAdd <=> i \in ToAdd')
  BY <1>1, <1>2, <1>3, <1>4
<1>6. Values' = Values /\ Values[r] = AggValue(r)
  BY <1>1 DEF Values, AggValue
<1> QED
  BY <1>1, <1>5, <1>6 DEF Closed, r

LEMMA VisitConserved ==
    ASSUME HInv, HInv', Conserved,
           ReemplaceCall \/ ReemplaceProbe \/ ReemplaceOld \/ ReemplaceNew \/ Accumulate
    PROVE  Conserved'
<1>1. TotalsRight /\ TotalsRight'
  BY TotalFacts, PTL
<1>2. CASE ReemplaceCall \/ ReemplaceProbe
  <2>1. UNCHANGED batchVars /\ UNCHANGED handlerVars /\ rows' = rows
    BY <1>2 DEF ReemplaceCall, ReemplaceProbe, Emplace, Locate, NextUnless, emplaceVars
  <2>2. UNCHANGED <<batch, served, calls, step, agg, input_total, working_indices, ui, update_indices>>
    BY <2>1 DEF batchVars, handlerVars
  <2>3. Values' = Values /\ ToAdd' = ToAdd
    BY <2>2 DEF Values, ToAdd
  <2> QED
    BY <1>1, <2>1, <2>2, <2>3, OpenKept
<1>3. CASE ReemplaceOld
  <2> DEFINE x == result'.value
             r == InputRow
  <2>1. /\ Visiting /\ x \in DOMAIN rows /\ rows' = rows /\ AddedTo(x, AggValue(r))
        /\ UNCHANGED batchVars /\ ui' = ui + 1
        /\ UNCHANGED <<step, working_indices, input_total>>
        /\ rows[x] = row /\ pc = "probe"
    BY <1>3, FoundIsRow
  <2>2. row = batch[r] /\ AggValue(r) \in Nat
    BY <2>1, VisitFacts DEF StagesInv, MapPart
  <2>3. Closed(r) /\ Values[r] = AggValue(r)
    BY <2>1, VisitCloses DEF batchVars
  <2> HIDE DEF x, r
  <2>4. /\ agg[x] < AGG_WRAP /\ agg'[x] = (agg[x] + Values[r]) % AGG_WRAP
        /\ \A i \in DOMAIN rows : i # x => agg'[i] = agg[i]
    BY <2>1, <2>2, <2>3, AddedFacts
  <2> QED
    BY <1>1, <2>1, <2>2, <2>3, <2>4, AddedKept
<1>4. CASE ReemplaceNew
  <2> DEFINE r == InputRow
  <2>1. /\ Visiting /\ row = batch[r] /\ rows' = Append(rows, row)
        /\ agg' = Append(agg, AggValue(r))
        /\ UNCHANGED batchVars /\ ui' = ui + 1 /\ UNCHANGED <<step, working_indices, input_total>>
    BY <1>4, InsertIsNew
  <2>2. Closed(r) /\ Values[r] = AggValue(r) /\ AggValue(r) \in 0 .. AGG_WRAP - 1
    BY <2>1, VisitCloses, VisitFacts DEF batchVars
  <2>3. Len(agg) = Len(rows) /\ agg \in Seq(0 .. AGG_WRAP - 1)
    BY DEF StagesInv, Aggregates
  <2> HIDE DEF r
  <2> QED
    BY <1>1, <2>1, <2>2, <2>3, MadeKept
<1>5. CASE Accumulate
  <2> DEFINE r == InputRow
             x == served[r]
  <2>1. /\ Visiting /\ ui > idx_from /\ UNCHANGED batchVars /\ AddedTo(x, AggValue(r))
        /\ UNCHANGED <<step, working_indices, input_total>> /\ ui' = ui + 1 /\ rows' = rows
    BY <1>5, AccumulateFacts
  <2>2. x \in DOMAIN rows /\ AggValue(r) \in Nat /\ ui \in DOMAIN working_indices /\ step = "groups"
        /\ ui \in Nat
    BY <2>1, VisitFacts
  <2>3. rows[x] = batch[r]
    <3>1. ui <= idx_from <=> rows[x] # batch[r]
      BY <2>2 DEF StagesInv, CandidatesSorted, InputRow
    <3>2. idx_from \in Nat
      BY <2>1, VisitFacts, OnceInLists DEF StagesInv, Cursors
    <3> QED
      BY <2>1, <2>2, <3>1, <3>2
  <2>4. Closed(r) /\ Values[r] = AggValue(r)
    BY <2>1, VisitCloses DEF batchVars
  <2> HIDE DEF x, r
  <2>5. /\ agg[x] < AGG_WRAP /\ agg'[x] = (agg[x] + Values[r]) % AGG_WRAP
        /\ \A i \in DOMAIN rows : i # x => agg'[i] = agg[i]
    BY <2>1, <2>2, <2>4, AddedFacts
  <2> QED
    BY <1>1, <2>1, <2>2, <2>3, <2>4, <2>5, AddedKept
<1> QED
  BY <1>2, <1>3, <1>4, <1>5

LEMMA ReturnsConserved ==
    ASSUME StagesInv, Conserved, CallReturns \/ UNCHANGED pipelineVars
    PROVE  Conserved'
<1>1. TotalsRight
  BY TotalFacts
<1>2. CASE CallReturns
  <2>1. /\ step = "groups" /\ step' = "ready" /\ ui > Len(working_indices)
        /\ UNCHANGED allVars /\ UNCHANGED <<agg, input_total>>
    BY <1>2 DEF CallReturns
  <2>2. UNCHANGED <<rows, batch, calls>>
    BY <2>1, QuietFacts
  <2>3. Values' = Values /\ ToAdd' = {}
    BY <2>1, <2>2 DEF Values, ToAdd
  <2>4. ToAdd = {}
    <3>1. Len(working_indices) \in Nat /\ ui \in Nat
      BY OnceInLists DEF StagesInv, Lists, Cursors
    <3>2. ui .. Len(working_indices) = {}
      BY <2>1, <3>1
    <3> QED
      BY <2>1, <3>2 DEF ToAdd
  <2> QED
    BY <1>1, <2>1, <2>2, <2>3, <2>4, OpenKept
<1>3. CASE UNCHANGED pipelineVars
  <2>1. UNCHANGED <<rows, batch, calls, served>>
    BY <1>3, QuietFacts DEF pipelineVars
  <2>2. UNCHANGED <<step, update_indices, working_indices, ui, agg, input_total>>
    BY <1>3 DEF pipelineVars, handlerVars
  <2>3. Values' = Values /\ ToAdd' = ToAdd
    BY <2>1, <2>2 DEF Values, ToAdd
  <2> QED
    BY <1>1, <2>1, <2>2, <2>3, OpenKept
<1> QED
  BY <1>2, <1>3

LEMMA InitConserved == WorkInit => ValuesConserved
<1> SUFFICES ASSUME WorkInit PROVE ValuesConserved
  OBVIOUS
<1>1. HInv /\ TotalsRight
  BY InitWInv, TotalFacts DEF WInv
<1>2. step = "ready" /\ rows = <<>> /\ agg = <<>> /\ input_total = [k \in Keys |-> 0]
  BY DEF WorkInit, HandlerInit, BatchInit, Init
<1>3. ASSUME NEW k \in Keys PROVE Grouped(k) = 0 /\ Open(k) = 0 /\ input_total[k] = 0
  <2>1. Open(k) = 0
    <3>1. ToAdd = {} /\ batch \in Seq(Keys)
      BY <1>1, <1>2 DEF ToAdd, TotalsRight
    <3> QED
      BY <3>1, TermsNothing DEF Open
  <2>2. Grouped(k) = 0
    <3>1. rows \in Seq(Keys) /\ \A i \in DOMAIN rows : i \notin DOMAIN rows
      BY <1>2
    <3> QED
      BY <3>1, TermsNothing DEF Grouped
  <2> QED
    BY <1>2, <2>1, <2>2
<1>4. Conserved
  BY <1>3 DEF Conserved
<1> QED
  BY <1>1, <1>4, ConservedIs

(***************************************************************************)
(* Whoever calls and however often the table is doubled or made anew: every *)
(* value passed in has been added to a group of its own key, and once, or   *)
(* its row is still on its way, unless a retry of the batch insertion       *)
(* forgets a row.                                                           *)
(***************************************************************************)
THEOREM ValuesKept == WorkSpec /\ [](dropped = {}) => []ValuesConserved
<1>1. WorkInit => ValuesConserved
  BY InitConserved
<1>2. WInv /\ WInv' /\ dropped = {} /\ ValuesConserved /\ [WorkNext]_workVars => ValuesConserved'
  <2> SUFFICES ASSUME WInv, WInv', NothingDropped, ValuesConserved, [WorkNext]_workVars
               PROVE  ValuesConserved'
    BY DEF NothingDropped
  <2>1. HInv /\ HInv' /\ TotalsRight /\ TotalsRight'
    <3>1. HInv /\ HInv'
      BY DEF WInv
    <3> QED
      BY <3>1, TotalFacts, PTL
  <2>2. Conserved
    BY <2>1, ConservedIs
  <2>3. PipelineNext
    BY WorkIsPipeline
  <2>4. Conserved'
    <3>1. CASE HandlerStep
      BY <2>1, <2>2, <3>1, CallbackCalled, CallbackConserved, QuietConserved, VisitConserved, ReturnsConserved
         DEF HandlerStep
    <3>2. ASSUME NEW B, Fits(B), EmplaceTableWithDecode(B) PROVE Conserved'
      <4>1. CallBrings(B)
        BY <3>2 DEF EmplaceTableWithDecode, emplaceVars, CallBrings
      <4> QED
        BY <2>1, <2>2, <3>2, <4>1, TableCallConserved
    <3> QED
      BY <2>1, <2>2, <2>3, <3>1, <3>2, ReturnsConserved DEF PipelineNext
  <2> QED
    BY <2>1, <2>4, ConservedIs, PTL
<1> QED
  BY <1>1, <1>2, WInvCorrect, PTL DEF WorkSpec

-----------------------------------------------------------------------------
(***************************************************************************)
(* What a driver can count on: a table made for its keys, in which every    *)
(* row it stored is found, and a group for every row of the slices that     *)
(* have been through the batch insertion.                                   *)
(***************************************************************************)
DataKeys == {data[i] : i \in DOMAIN data}
HasGroup(k) == \E v \in DOMAIN rows : rows[v] = k
SlicesDone == IF step \in {"sized", "batch"} THEN batch_idx - 1 ELSE batch_idx

SlicesInv ==
    /\ data \in Seq(DriverKeys) /\ batch_idx \in 0 .. NumBatches(Len(data))
    /\ PathsInv
    /\ step # "batch" => pc = "idle"
    /\ batch_idx = 0 => rows = <<>> /\ step = "ready"
    /\ batch_idx # 0 => batch = BatchOf(data, batch_idx - 1)
    /\ \A i \in DOMAIN data : i <= SlicesDone * BATCH_SIZE => HasGroup(data[i])

RowsOfData == \A i \in DOMAIN rows : rows[i] \in DataKeys

DInv ==
    /\ SlicesInv
    /\ \E K : K = DataKeys /\ KeptFor(K)
    /\ batch_idx # 0 => Len(BatchOf(data, 0)) <= Capacity(num_chunks)

DriverInv == driver # "any" => DInv

LEMMA DInvRows == DInv => RowsOfData /\ dropped = {}
BY DEF DInv, RowsOfData, KeptFor

(* No slice is longer than the first, and all are rows of the driver. *)
LEMMA SliceOfData ==
    ASSUME data \in Seq(DriverKeys), NEW b \in Nat, b < NumBatches(Len(data))
    PROVE  /\ Len(BatchOf(data, b)) <= Len(BatchOf(data, 0))
           /\ \A i \in DOMAIN BatchOf(data, b) : BatchOf(data, b)[i] \in DataKeys
<1>1. Len(data) \in Nat /\ DOMAIN data = 1 .. Len(data) /\ NumBatches(Len(data)) \in Nat
  BY NumBatchesFacts
<1>2. BATCH_SIZE \in Nat \ {0}
  BY WorkloadAssumption
<1>3. \A i \in DOMAIN BatchOf(data, b) : BatchOf(data, b)[i] \in DataKeys
  <2>1. DOMAIN BatchOf(data, b) = 1 .. Len(BatchOf(data, b))
    BY SliceFacts
  <2>2. \A i \in 1 .. Len(BatchOf(data, b)) :
           /\ b * BATCH_SIZE + i \in 1 .. Len(data)
           /\ BatchOf(data, b)[i] = data[b * BATCH_SIZE + i]
    BY SliceFacts
  <2> QED
    BY <1>1, <2>1, <2>2 DEF DataKeys
<1>4. CASE b = 0
  <2>1. Len(BatchOf(data, b)) \in Nat
    BY SliceFacts
  <2> QED
    BY <1>3, <1>4, <2>1
<1>5. CASE b # 0
  <2>1. 0 \in Nat /\ 0 < NumBatches(Len(data)) /\ 0 + 1 < NumBatches(Len(data))
    BY <1>1, <1>5
  <2>2. Len(BatchOf(data, 0)) = BATCH_SIZE
    BY <2>1, SliceFacts
  <2>3. Len(BatchOf(data, b)) <= BATCH_SIZE
    BY SliceFacts
  <2> QED
    BY <1>3, <2>2, <2>3
<1> QED
  BY <1>4, <1>5

LEMMA DriverBatch ==
    ASSUME SlicesInv, batch_idx # 0
    PROVE  /\ batch_idx - 1 \in Nat /\ batch_idx - 1 < NumBatches(Len(data))
           /\ batch = BatchOf(data, batch_idx - 1)
           /\ \A r \in DOMAIN batch : batch[r] \in DataKeys
<1>1. NumBatches(Len(data)) \in Nat /\ data \in Seq(DriverKeys)
  BY NumBatchesFacts DEF SlicesInv
<1>2. batch_idx - 1 \in Nat /\ batch_idx - 1 < NumBatches(Len(data))
  BY <1>1 DEF SlicesInv
<1> QED
  BY <1>1, <1>2, SliceOfData DEF SlicesInv

(* Where hashes tell the keys apart, a candidate is the row's own group. *)
LEMMA CandidateRight ==
    ASSUME StagesInv, SlicesInv, RowsOfData, batch_idx # 0, NEW r \in Served
    PROVE  served[r] \in DOMAIN rows /\ rows[served[r]] = batch[r]
<1>1. /\ served[r] \in DOMAIN rows /\ HashOf[rows[served[r]]] = HashOf[batch[r]]
      /\ r \in DOMAIN batch
  BY DEF StagesInv, MapPart, ServedRight, H, Served
<1>2. DataKeys \subseteq DriverKeys
  <2>1. \A i \in DOMAIN data : data[i] \in DriverKeys
    BY DEF SlicesInv
  <2> QED
    BY <2>1 DEF DataKeys
<1>3. \A i \in DOMAIN rows : rows[i] \in DataKeys
  BY DEF RowsOfData
<1>4. rows[served[r]] \in DriverKeys /\ batch[r] \in DriverKeys
  BY <1>1, <1>2, <1>3, DriverBatch
<1> QED
  BY <1>1, <1>4, DriverAssumption

(* The comparison sets no row apart. *)
LEMMA NoneDiffers ==
    ASSUME StagesInv, SlicesInv, RowsOfData
    PROVE  step # "groups" \/ CandidatesSorted => idx_from = 0
<1>1. CASE step \in {"ready", "sized", "batch"}
  BY <1>1 DEF StagesInv, Lists, Cursors
<1>2. CASE step \in {"compare", "groups"}
  <2> SUFFICES ASSUME step # "groups" \/ CandidatesSorted, idx_from # 0 PROVE FALSE
    OBVIOUS
  <2>1. batch_idx # 0
    BY <1>2 DEF SlicesInv
  <2>2. OnceIn(working_indices, Served) /\ idx_from \in 0 .. Len(working_indices)
    BY DEF StagesInv, Lists, Cursors
  <2>3. Len(working_indices) \in Nat /\ DOMAIN working_indices = 1 .. Len(working_indices)
    BY <2>2, OnceInLists
  <2>4. 1 \in DOMAIN working_indices /\ 1 <= idx_from /\ 1 \in 1 .. idx_from
    BY <2>2, <2>3
  <2> DEFINE r == working_indices[1]
  <2>5. r \in Served
    BY <2>2, <2>4 DEF OnceIn
  <2>6. rows[served[r]] = batch[r]
    BY <2>1, <2>5, CandidateRight
  <2>7. CASE step = "compare"
    BY <2>4, <2>6, <2>7 DEF StagesInv, Sorting, Partitioned, Others
  <2>8. CASE step = "groups"
    BY <2>4, <2>6, <2>8 DEF CandidatesSorted
  <2> QED
    BY <1>2, <2>7, <2>8
<1> QED
  BY <1>1, <1>2 DEF StagesInv, Cursors

(* When the batch insertion is through, the slice has its groups. *)
LEMMA SliceServed ==
    ASSUME StagesInv, SlicesInv, RowsOfData, dropped = {}, step = "batch", phase = "none"
    PROVE  \A i \in DOMAIN data : i <= batch_idx * BATCH_SIZE => HasGroup(data[i])
<1> DEFINE b == batch_idx - 1
           S == BATCH_SIZE
           n == Len(data)
           s == b * S
           nb == NumBatches(n)
<1>1. batch_idx # 0 /\ batch_idx \in Nat /\ n \in Nat /\ DOMAIN data = 1 .. n /\ S \in Nat \ {0}
  BY WorkloadAssumption, NumBatchesFacts DEF SlicesInv
<1>2. b \in Nat /\ b < nb /\ batch = BatchOf(data, b) /\ nb \in Nat
  BY <1>1, DriverBatch, NumBatchesFacts
<1>3. /\ s \in Nat /\ Len(batch) \in Nat /\ s + Len(batch) <= n
      /\ b + 1 < nb => Len(batch) = S
      /\ b + 1 = nb => s + Len(batch) = n
      /\ \A i \in 1 .. Len(batch) : batch[i] = data[s + i]
  BY <1>2, SliceFacts DEF SlicesInv
<1>4. Served = DOMAIN batch /\ DOMAIN batch = 1 .. Len(batch)
  <2>1. dropped = {} /\ Served \cup dropped = DOMAIN batch
    BY DEF StagesInv, MapPart, Parts
  <2> QED
    BY <2>1, HandlerFacts
<1>5. batch_idx * S = s + S
  BY <1>1
<1> SUFFICES ASSUME NEW i \in 1 .. n, i <= s + S PROVE HasGroup(data[i])
  BY <1>1, <1>5
<1>6. SlicesDone = b
  BY DEF SlicesDone
<1>7. CASE i <= s
  BY <1>1, <1>6, <1>7 DEF SlicesInv
<1>8. CASE ~(i <= s)
  <2> HIDE DEF s, S, nb, n, b
  <2>1. i - s \in 1 .. Len(batch) /\ s + (i - s) = i
    BY <1>1, <1>2, <1>3, <1>8
  <2>2. batch[i - s] = data[i] /\ i - s \in Served
    BY <1>3, <1>4, <2>1
  <2>3. served[i - s] \in DOMAIN rows /\ rows[served[i - s]] = batch[i - s]
    BY <1>1, <2>2, CandidateRight
  <2> QED
    BY <2>2, <2>3 DEF HasGroup
<1> QED
  BY <1>7, <1>8

(* Between two calls and in the second stage nothing is looked for. *)
LEMMA NoPaths == phase = "none" => OnPaths
BY DEF OnPaths, RetryAt

LEMMA DriverAInv ==
    ASSUME HInv, DInv, step # "sized"
    PROVE  AInv
<1>1. MapPart
  BY DEF StagesInv
<1>2. Control
  <2>1. CASE step = "groups"
    BY <1>1, <2>1 DEF MapPart, DInv, SlicesInv, Control
  <2> QED
    BY <1>1, <2>1 DEF MapPart
<1> QED
  BY <1>1, <1>2 DEF MapPart, AInv

LEMMA InitSlices ==
    ASSUME WorkInit, driver # "any"
    PROVE  SlicesInv /\ RowsOfData /\ batch_idx = 0 /\ step = "ready"
<1>1. BatchInit /\ batch_idx = 0 /\ step = "ready"
  BY DEF WorkInit, HandlerInit
<1>2. data \in Seq(DriverKeys)
  BY InitWInv DEF WInv
<1>3. PathsInv
  BY <1>1, InitBInv DEF BInv
<1>4. pc = "idle" /\ rows = <<>>
  BY <1>1 DEF BatchInit, Init, ExpandInit
<1>5. \A i \in DOMAIN data : ~(i <= SlicesDone * BATCH_SIZE)
  <2>1. SlicesDone * BATCH_SIZE = 0
    BY <1>1, WorkloadAssumption DEF SlicesDone
  <2> QED
    BY <1>2, <2>1
<1>6. NumBatches(Len(data)) \in Nat
  BY <1>2, NumBatchesFacts
<1> QED
  BY <1>1, <1>2, <1>3, <1>4, <1>5, <1>6 DEF SlicesInv, RowsOfData

(* The tables of the drivers have room for the keys of their rows. *)
DriversHaveRoom ==
    \A B \in Builds, num_hits \in 0 .. NUM_PROBE_ROWS : HasRoomFor(DistinctKeys(Len(B), num_hits))

LEMMA InitKept ==
    ASSUME DriversHaveRoom, WorkInit, driver # "any"
    PROVE  \E K : K = DataKeys /\ KeptFor(K)
<1>1. BatchInit /\ StartRunWorkload
  BY DEF WorkInit, HandlerInit
<1>2. PICK B \in Builds, num_hits \in 0 .. NUM_PROBE_ROWS :
         /\ num_chunks = WithCapacity(MainChunks(DistinctKeys(Len(B), num_hits)))
         /\ data \in GenData(B, num_hits, DriverKeys)
  BY <1>1 DEF StartRunWorkload
<1> DEFINE d == DistinctKeys(Len(B), num_hits)
<1>3. B \in Seq(DriverKeys) /\ ChunksFor(MinSlots(d)) <= MOST_CHUNKS
  BY DriverAssumption
<1>4. \E K : K = DataKeys /\ IsFiniteSet(K) /\ Cardinality(K) <= d /\ d \in Nat
  <2>1. data \in GenData(B, num_hits, DriverKeys)
    BY <1>2
  <2>2. ASSUME NEW D, D \in GenData(B, num_hits, DriverKeys)
        PROVE  LET K == {D[i] : i \in DOMAIN D} IN
               /\ D \in Seq(DriverKeys) /\ K \subseteq DriverKeys /\ IsFiniteSet(K)
               /\ Cardinality(K) <= DistinctKeys(Len(B), num_hits)
               /\ DistinctKeys(Len(B), num_hits) \in Nat
    BY <1>3, <2>2, GenDataKeys, Zenon
  <2> QED
    BY <2>1, <2>2 DEF DataKeys
<1>5. num_chunks = WithCapacity(MainChunks(d)) /\ HasRoomFor(d)
  BY <1>2 DEF DriversHaveRoom
<1> HIDE DEF d
<1>6. PICK K : K = DataKeys /\ IsFiniteSet(K) /\ Cardinality(K) <= d /\ d \in Nat
  BY <1>4
<1>7. /\ pc = "idle" /\ rows = <<>> /\ phase = "none" /\ dropped = {} /\ size = 0
  BY <1>1 DEF BatchInit, Init, ExpandInit
<1>8. KeptFor(K)
  <2>1. Cardinality(K) \in Nat
    BY <1>6, FS_CardinalityType
  <2>2. ASSUME NEW sz \in 0 .. Cardinality(K) PROVE ~ShouldExpand(num_chunks, sz)
    <3>1. sz \in 0 .. d
      BY <1>6, <2>1
    <3> QED
      BY <1>3, <1>5, <1>6, <3>1, TableHoldsKeys
  <2> QED
    BY <1>6, <1>7, <2>2 DEF KeptFor, HoldsAll
<1> QED
  BY <1>6, <1>8

LEMMA RoomForDrivers == RoomForKeys => DriversHaveRoom
<1>1. ASSUME NEW B \in Builds, NEW num_hits \in 0 .. NUM_PROBE_ROWS
      PROVE  DistinctKeys(Len(B), num_hits) \in Nat
  <2>1. B \in Seq(DriverKeys) /\ NUM_PROBE_ROWS \in Nat
    BY DriverAssumption, WorkloadAssumption
  <2> QED
    BY <2>1 DEF DistinctKeys
<1> QED
  BY <1>1 DEF RoomForKeys, DriversHaveRoom

LEMMA InitDInv ==
    ASSUME RoomForKeys, WorkInit, driver # "any"
    PROVE  DInv
BY InitSlices, InitKept, RoomForDrivers DEF DInv

(* An empty table is right as long as there are no rows. *)
LEMMA EmptyIInv ==
    Occupied(chunks) = {} /\ Pending = {} /\ pc = "idle" /\ rows = <<>> => IInv
<1> SUFFICES ASSUME Occupied(chunks) = {}, Pending = {}, pc = "idle", rows = <<>>
             PROVE  IInv
  OBVIOUS
<1>1. DOMAIN rows = {}
  OBVIOUS
<1> QED
  BY <1>1 DEF IInv, Placed, TagsRight, RowsRight, NoneLost, NoneTwice,
     KeysDistinct, RehashRight, ScanRight, Pending

(* The first slice may find a table smaller than a batch, and no later one. *)
LEMMA DriverTable ==
    ASSUME HInv, DInv, RunWorkload
    PROVE  LET B == BatchOf(data, batch_idx) IN
           /\ num_chunks' \in Nat \ {0} /\ num_chunks <= num_chunks' /\ size' = size
           /\ PathsInv'
           /\ num_chunks' # num_chunks => batch_idx = 0
           /\ Len(BatchOf(data, 0)) <= Capacity(num_chunks')
<1> DEFINE B == BatchOf(data, batch_idx)
<1>1. /\ batch_idx < NumBatches(Len(data)) /\ EmplaceTableWithDecode(B)
      /\ step = "ready" /\ data \in Seq(DriverKeys) /\ batch_idx \in Nat
  BY NumBatchesFacts DEF RunWorkload, DInv, SlicesInv, EmplaceTableWithDecode
<1>2. phase = "none" /\ pc = "idle" /\ num_chunks \in Nat \ {0} /\ TypeOK
  BY <1>1, HandlerFacts
<1>3. Fits(B) /\ Len(B) \in Nat /\ Len(B) <= Len(BatchOf(data, 0)) /\ Len(BatchOf(data, 0)) \in Nat
  <2>1. 0 < NumBatches(Len(data)) /\ 0 \in Nat
    BY <1>1, NumBatchesFacts
  <2> QED
    BY <1>1, <2>1, SliceFits, SliceOfData, SliceFacts
<1>4. UNCHANGED <<rehashVars, pc, emplaceVars, phase, retryVars>>
  BY <1>1 DEF EmplaceTableWithDecode
<1>5. phase' = "none"
  BY <1>2, <1>4
<1>6. OnPaths'
  <2>1. (phase = "none" => OnPaths)'
    BY NoPaths, PTL
  <2> QED
    BY <1>5, <2>1
<1>7. Capacity(num_chunks) \in Nat
  BY <1>2, TableAssumption DEF Capacity
<1>8. CASE Capacity(num_chunks) < Len(B)
  <2>1. batch_idx = 0
    <3> HIDE DEF B
    <3>1. batch_idx # 0 => Len(BatchOf(data, 0)) <= Capacity(num_chunks)
      BY DEF DInv, SlicesInv
    <3> QED
      BY <1>1, <1>3, <1>7, <1>8, <3>1
  <2>2. rows = <<>> /\ size = 0
    <3>1. rows = <<>>
      BY <2>1 DEF DInv, SlicesInv
    <3>2. size = Len(rows)
      BY DEF DInv, SlicesInv, KeptFor
    <3> QED
      BY <3>1, <3>2
  <2> DEFINE n == WithCapacity(NextPowerOfTwo(
                      Max({2 * num_chunks, Len(B) \div SLOTS_PER_CHUNK + 1})))
  <2>3. n \in Nat \ {0} /\ num_chunks <= n /\ Len(B) <= Capacity(n)
    BY <1>2, <1>3, <1>8, PresizeFacts
  <2>4. num_chunks' = n /\ chunks' = AllocChunks(n) /\ size' = 0
    BY <1>1, <1>8 DEF EmplaceTableWithDecode
  <2> HIDE DEF n
  <2>5. Occupied(chunks') = {} /\ pc' = "idle" /\ rows' = <<>>
    BY <1>2, <1>4, <2>2, <2>3, <2>4, AllocFacts DEF emplaceVars
  <2>6. IInv'
    <3>1. Occupied(chunks)' = {}
      BY <2>5 DEF Occupied
    <3>2. (Occupied(chunks) = {} /\ Pending = {} /\ pc = "idle" /\ rows = <<>> => IInv)'
      BY EmptyIInv, PTL
    <3>3. Pending' = {}
      <4>1. Pending = {}
        BY <1>2 DEF DInv, SlicesInv, PathsInv, IInv, RehashRight
      <4> QED
        BY <1>4, <4>1 DEF Pending, rehashVars
    <3> QED
      BY <2>5, <3>1, <3>2, <3>3
  <2> QED
    BY <1>6, <2>1, <2>2, <2>3, <2>4, <2>6 DEF PathsInv
<1>9. CASE ~(Capacity(num_chunks) < Len(B))
  <2>1. UNCHANGED tableVars
    BY <1>1, <1>9 DEF EmplaceTableWithDecode
  <2>2. UNCHANGED vars
    BY <1>4, <2>1 DEF vars
  <2>3. IInv'
    <3>1. IInv /\ RowsInv
      BY HandlerFacts DEF DInv, SlicesInv, PathsInv
    <3> QED
      BY <1>2, <2>2, <3>1, SameVars
  <2>4. Len(BatchOf(data, 0)) <= Capacity(num_chunks)
    <3>1. batch_idx # 0 => Len(BatchOf(data, 0)) <= Capacity(num_chunks)
      BY DEF DInv, SlicesInv
    <3>2. batch_idx = 0 => B = BatchOf(data, 0)
      OBVIOUS
    <3> HIDE DEF B
    <3> QED
      BY <1>3, <1>7, <1>9, <3>1, <3>2
  <2> QED
    BY <1>2, <1>6, <2>1, <2>3, <2>4 DEF PathsInv, tableVars
<1> QED
  BY <1>8, <1>9

LEMMA DriverCall ==
    ASSUME HInv, DInv, RunWorkload
    PROVE  DInv' /\ (num_chunks' # num_chunks => size = 0)
<1> DEFINE B == BatchOf(data, batch_idx)
<1>1. /\ batch_idx < NumBatches(Len(data)) /\ EmplaceTableWithDecode(B) /\ step = "ready"
      /\ batch_idx' = batch_idx + 1 /\ data' = data /\ step' = "sized" /\ batch' = B
      /\ dropped' = {} /\ UNCHANGED <<pc, rows, phase>>
  BY DEF RunWorkload, EmplaceTableWithDecode, emplaceVars
<1>2. /\ data \in Seq(DriverKeys) /\ batch_idx \in Nat /\ batch_idx \in 0 .. NumBatches(Len(data))
      /\ NumBatches(Len(data)) \in Nat /\ pc = "idle" /\ phase = "none"
  BY <1>1, NumBatchesFacts, HandlerFacts DEF DInv, SlicesInv
<1> HIDE DEF B
<1>3. /\ num_chunks \in Nat \ {0} /\ num_chunks' \in Nat \ {0} /\ num_chunks <= num_chunks'
      /\ size' = size /\ PathsInv' /\ (num_chunks' # num_chunks => batch_idx = 0)
      /\ Len(BatchOf(data, 0)) <= Capacity(num_chunks')
  BY DriverTable, HandlerFacts
<1>4. PICK K : K = DataKeys /\ KeptFor(K)
  BY DEF DInv
<1>5. K = DataKeys' /\ KeptFor(K)'
  <2>1. HoldsAll(K, num_chunks')
    <3>1. HoldsAll(K, num_chunks)
      BY <1>4 DEF KeptFor
    <3>2. IsFiniteSet(K) /\ Cardinality(K) \in Nat
      BY <3>1, FS_CardinalityType DEF HoldsAll
    <3>3. ASSUME NEW sz \in 0 .. Cardinality(K) PROVE ~ShouldExpand(num_chunks', sz)
      <4>1. sz \in Nat /\ ~ShouldExpand(num_chunks, sz)
        BY <3>1, <3>2 DEF HoldsAll
      <4> QED
        BY <1>3, <4>1, LargerTable
    <3> QED
      BY <3>2, <3>3 DEF HoldsAll
  <2> QED
    BY <1>1, <1>2, <1>3, <1>4, <2>1 DEF KeptFor, DataKeys
<1>6. batch_idx' - 1 = batch_idx /\ batch_idx' # 0 /\ batch_idx' \in 0 .. NumBatches(Len(data))
  BY <1>1, <1>2
<1>7. SlicesDone' = SlicesDone
  BY <1>1, <1>6 DEF SlicesDone
<1>8. \A i \in DOMAIN data : i <= SlicesDone * BATCH_SIZE => HasGroup(data[i])'
  BY <1>1 DEF DInv, SlicesInv, HasGroup
<1>9. num_chunks' # num_chunks => size = 0
  <2>1. batch_idx = 0 => rows = <<>>
    BY DEF DInv, SlicesInv
  <2>2. size = Len(rows)
    BY <1>4 DEF KeptFor
  <2> QED
    BY <1>3, <2>1, <2>2
<1> QED
  BY <1>1, <1>2, <1>3, <1>5, <1>6, <1>7, <1>8, <1>9 DEF DInv, SlicesInv, B

(* A step that leaves the map alone. *)
LEMMA DriverQuiet ==
    ASSUME HInv, DInv, step # "sized", UNCHANGED allVars, UNCHANGED driverVars,
           pc = "idle", batch_idx # 0,
           \A i \in DOMAIN data : i <= SlicesDone' * BATCH_SIZE => HasGroup(data[i])
    PROVE  DInv' /\ num_chunks' = num_chunks
<1>1. UNCHANGED <<num_chunks, size, rows, pc, batch, phase, dropped, data, batch_idx>>
  BY QuietFacts DEF driverVars
<1>2. PathsInv'
  BY DriverAInv, SameAllVars DEF DInv, SlicesInv, BKept
<1>3. PICK K : K = DataKeys /\ KeptFor(K)
  BY DEF DInv
<1>4. K = DataKeys' /\ KeptFor(K)'
  BY <1>1, <1>3 DEF DataKeys, KeptFor
<1>5. \A i \in DOMAIN data : i <= SlicesDone' * BATCH_SIZE => HasGroup(data[i])'
  BY <1>1 DEF HasGroup
<1> QED
  BY <1>1, <1>2, <1>4, <1>5 DEF DInv, SlicesInv

LEMMA DriverStart ==
    ASSUME HInv, DInv, StartBatch, UNCHANGED driverVars
    PROVE  DInv' /\ num_chunks' = num_chunks
<1>1. /\ step = "sized" /\ step' = "batch" /\ EmplaceBatch(batch)
      /\ UNCHANGED <<data, batch_idx>>
  BY DEF StartBatch, driverVars
<1>2. /\ batch' = batch /\ UNCHANGED <<num_chunks, size, rows, pc>>
      /\ phase' \in {"direct", "first"} /\ dropped' = {} /\ pc = "idle"
  BY <1>1 DEF EmplaceBatch, vars, tableVars, emplaceVars
<1>3. PathsInv'
  <2>1. BatchTypeOK /\ RowsInv /\ Control /\ Ranges /\ batch \in Seq(Keys)
    BY <1>1, HandlerFacts DEF StagesInv, MapPart
  <2> QED
    BY <1>1, <2>1, CallKept DEF BKept, DInv, SlicesInv
<1>4. PICK K : K = DataKeys /\ KeptFor(K)
  BY DEF DInv
<1>5. K = DataKeys' /\ KeptFor(K)'
  BY <1>1, <1>2, <1>4 DEF DataKeys, KeptFor
<1>6. SlicesDone' = SlicesDone /\ batch_idx # 0
  BY <1>1 DEF SlicesDone, DInv, SlicesInv
<1>7. \A i \in DOMAIN data : i <= SlicesDone' * BATCH_SIZE => HasGroup(data[i])'
  BY <1>1, <1>2, <1>6 DEF HasGroup, DInv, SlicesInv
<1> QED
  BY <1>1, <1>2, <1>3, <1>5, <1>6, <1>7 DEF DInv, SlicesInv

LEMMA DriverCallback ==
    ASSUME HInv, DInv, BatchCallback, UNCHANGED driverVars
    PROVE  DInv' /\ num_chunks' = num_chunks
<1>1. /\ step = "batch" /\ step' = "batch" /\ BatchStep /\ UNCHANGED <<data, batch_idx>>
  BY DEF BatchCallback, driverVars
<1>2. AInv /\ batch_idx # 0
  BY <1>1, DriverAInv DEF DInv, SlicesInv
<1>3. PathsInv'
  BY <1>1, <1>2, BatchStepKept DEF BKept, DInv, SlicesInv
<1>4. PICK K : K = DataKeys /\ KeptFor(K)
  BY DEF DInv
<1>5. KeptFor(K)' /\ num_chunks' = num_chunks
  <2>1. \A r \in DOMAIN batch : batch[r] \in K
    BY <1>2, <1>4, DriverBatch DEF DInv
  <2> QED
    BY <1>1, <1>2, <1>4, <2>1, KeptForStep DEF DInv, SlicesInv
<1>6. K = DataKeys'
  BY <1>1, <1>4 DEF DataKeys
<1>7. batch' = batch /\ (rows' = rows \/ \E r \in DOMAIN batch : rows' = Append(rows, batch[r]))
  BY <1>1, <1>2, StepGives DEF NoGroupGiven, GroupGiven
<1>8. \A v \in DOMAIN rows : v \in DOMAIN rows' /\ rows'[v] = rows[v]
  <2>1. rows \in Seq(Keys) /\ \A r \in DOMAIN batch : batch[r] \in Keys
    BY HandlerFacts
  <2> QED
    BY <1>7, <2>1
<1>9. \A i \in DOMAIN data : i <= SlicesDone' * BATCH_SIZE => HasGroup(data[i])'
  <2>1. SlicesDone' = SlicesDone
    BY <1>1 DEF SlicesDone
  <2> QED
    BY <1>1, <1>8, <2>1 DEF HasGroup, DInv, SlicesInv
<1> QED
  BY <1>1, <1>2, <1>3, <1>5, <1>6, <1>7, <1>9 DEF DInv, SlicesInv

(* The second stage has no row to look up again. *)
LEMMA NoSecondLookup ==
    ASSUME HInv, DInv
    PROVE  ~(ReemplaceCall \/ ReemplaceProbe \/ ReemplaceOld \/ ReemplaceNew)
<1>1. idx_from = 0 /\ ui \in Nat \ {0}
  <2>1. ui \in 1 .. Len(working_indices) + 1 /\ OnceIn(working_indices, Served)
    BY DEF StagesInv, Cursors, Lists
  <2>2. Len(working_indices) \in Nat
    BY <2>1, OnceInLists
  <2> QED
    BY <2>1, <2>2, NoneDiffers, DInvRows DEF DInv
<1>2. step = "groups" => pc = "idle"
  BY DEF DInv, SlicesInv
<1> QED
  BY <1>1, <1>2 DEF ReemplaceCall, ReemplaceProbe, ReemplaceOld, ReemplaceNew, Visiting,
     FoundIn, InsertUnless

LEMMA DriverStep ==
    ASSUME HInv, DInv, HandlerStep, UNCHANGED driverVars
    PROVE  DInv' /\ num_chunks' = num_chunks
<1>1. UNCHANGED batch_idx /\ UNCHANGED data
  BY DEF driverVars
<1>2. step # "ready" => batch_idx # 0
  BY DEF DInv, SlicesInv
<1>3. CASE NothingToCompare \/ StartCompare
  <2>1. /\ step = "batch" /\ phase = "none" /\ step' \in {"ready", "compare"} /\ UNCHANGED allVars
    BY <1>3 DEF NothingToCompare, StartCompare
  <2>2. pc = "idle"
    BY <2>1, DriverAInv DEF AInv, Control
  <2>3. SlicesDone' = batch_idx
    BY <1>1, <2>1 DEF SlicesDone
  <2>4. \A i \in DOMAIN data : i <= SlicesDone' * BATCH_SIZE => HasGroup(data[i])
    BY <2>1, <2>3, SliceServed, DInvRows DEF DInv
  <2> QED
    BY <1>2, <2>1, <2>2, <2>4, DriverQuiet
<1>4. CASE CompareColumn \/ CompareDone \/ Accumulate \/ CallReturns
  <2>1. step \in {"compare", "groups"} /\ step' \in {"compare", "groups", "ready"} /\ UNCHANGED allVars
    BY <1>4 DEF CompareColumn, CompareDone, Accumulate, CallReturns, Visiting
  <2>2. SlicesDone' = SlicesDone /\ pc = "idle"
    BY <1>1, <2>1 DEF SlicesDone, DInv, SlicesInv
  <2>3. \A i \in DOMAIN data : i <= SlicesDone' * BATCH_SIZE => HasGroup(data[i])
    BY <2>2 DEF DInv, SlicesInv
  <2> QED
    BY <1>2, <2>1, <2>2, <2>3, DriverQuiet
<1> QED
  BY <1>3, <1>4, DriverStart, DriverCallback, NoSecondLookup DEF HandlerStep

LEMMA DriverSame ==
    ASSUME HInv, DInv, UNCHANGED workVars
    PROVE  DInv' /\ num_chunks' = num_chunks
<1>1. /\ UNCHANGED <<allVars, step, data, batch_idx>> /\ UNCHANGED driverVars
      /\ UNCHANGED <<num_chunks, size, rows, pc, batch, phase, dropped>>
  <2>1. UNCHANGED allVars
    BY DEF workVars, pipelineVars
  <2> QED
    BY <2>1, QuietFacts DEF workVars, pipelineVars, handlerVars, driverVars
<1>2. PathsInv'
  <2>1. IInv'
    <3>1. TypeOK /\ RowsInv /\ IInv /\ UNCHANGED vars
      BY <1>1, HandlerFacts, QuietFacts DEF DInv, SlicesInv, PathsInv
    <3> QED
      BY <3>1, SameVars
  <2>2. CASE step # "sized"
    BY <1>1, <2>2, DriverAInv, SameAllVars DEF DInv, SlicesInv, BKept
  <2>3. CASE step = "sized"
    <3>1. phase' = "none"
      BY <1>1, <2>3, HandlerFacts
    <3>2. (phase = "none" => OnPaths)'
      BY NoPaths, PTL
    <3> QED
      BY <2>1, <3>1, <3>2 DEF PathsInv
  <2> QED
    BY <2>2, <2>3
<1>3. PICK K : K = DataKeys /\ KeptFor(K)
  BY DEF DInv
<1>4. K = DataKeys' /\ KeptFor(K)'
  BY <1>1, <1>3 DEF DataKeys, KeptFor
<1>5. \A i \in DOMAIN data : i <= SlicesDone' * BATCH_SIZE => HasGroup(data[i])'
  BY <1>1 DEF SlicesDone, HasGroup, DInv, SlicesInv
<1> QED
  BY <1>1, <1>2, <1>4, <1>5 DEF DInv, SlicesInv

(***************************************************************************)
(* The driver's invariant, and what its steps do to the table.              *)
(***************************************************************************)
LEMMA InitDriver == RoomForKeys /\ WorkInit => DriverInv
BY InitDInv DEF DriverInv

KeptStep == driver # "any" /\ num_chunks' # num_chunks => size = 0

LEMMA NextDriver ==
    ASSUME WInv, DriverInv, [WorkNext]_workVars
    PROVE  DriverInv' /\ KeptStep
<1>1. driver' = driver /\ HInv
  BY DEF WorkNext, AnyCall, RunWorkload, PipelineStep, driverVars, workVars, WInv
<1>2. CASE driver = "any"
  BY <1>1, <1>2 DEF DriverInv, KeptStep
<1>3. CASE driver # "any"
  <2>1. DInv
    BY <1>3 DEF DriverInv
  <2>2. CASE RunWorkload
    BY <1>1, <2>1, <2>2, DriverCall DEF DriverInv, KeptStep
  <2>3. CASE PipelineStep
    BY <1>1, <2>1, <2>3, DriverStep DEF DriverInv, KeptStep, PipelineStep
  <2>4. CASE UNCHANGED workVars
    BY <1>1, <2>1, <2>4, DriverSame DEF DriverInv, KeptStep
  <2> QED
    BY <1>3, <2>2, <2>3, <2>4 DEF WorkNext, AnyCall
<1> QED
  BY <1>2, <1>3

LEMMA DriverInvCorrect ==
    ASSUME RoomForKeys
    PROVE  WorkSpec => []DriverInv
<1>1. WorkInit => DriverInv
  BY InitDriver
<1>2. WInv /\ DriverInv /\ [WorkNext]_workVars => DriverInv'
  BY NextDriver
<1> QED
  BY <1>1, <1>2, WInvCorrect, PTL DEF WorkSpec

(***************************************************************************)
(* A driver's table is made anew at most before its first row, by a         *)
(* presizing that has nothing to lose, and it is never expanded: the        *)
(* margin of main and the threshold of the map fit together.                *)
(***************************************************************************)
THEOREM TablesKept ==
    ASSUME RoomForKeys
    PROVE  WorkSpec => TableKept
<1>1. WInv /\ DriverInv /\ [WorkNext]_workVars
        => [driver # "any" /\ num_chunks' # num_chunks => size = 0]_workVars
  BY NextDriver DEF KeptStep
<1> QED
  BY <1>1, WInvCorrect, DriverInvCorrect, PTL DEF WorkSpec, TableKept

(***************************************************************************)
(* What a driver reports: as many groups as there are keys in its rows, and *)
(* every group found by the batch insertion alone.                          *)
(***************************************************************************)
THEOREM ReportsRight ==
    ASSUME RoomForKeys
    PROVE  WorkSpec => []ResultRight
<1>1. WInv /\ DriverInv => ResultRight
  <2> SUFFICES ASSUME WInv, DriverInv, driver # "any"
               PROVE  /\ idx_from = 0
                      /\ step = "ready" /\ batch_idx = NumBatches(Len(data)) =>
                           /\ NumGroups = Cardinality({data[i] : i \in DOMAIN data})
                           /\ {rows[i] : i \in DOMAIN rows} = {data[i] : i \in DOMAIN data}
                           /\ size = NumGroups
    BY DEF ResultRight
  <2>1. HInv /\ DInv
    BY DEF WInv, DriverInv
  <2>2. ASSUME step = "ready", batch_idx = NumBatches(Len(data))
        PROVE  /\ NumGroups = Cardinality({data[i] : i \in DOMAIN data})
               /\ {rows[i] : i \in DOMAIN rows} = {data[i] : i \in DOMAIN data}
               /\ size = NumGroups
    <3>1. PICK K : K = DataKeys /\ KeptFor(K)
      BY <2>1 DEF DInv
    <3>2. \A i \in DOMAIN data : HasGroup(data[i])
      <4>1. SlicesDone = NumBatches(Len(data)) /\ data \in Seq(DriverKeys)
        BY <2>1, <2>2 DEF SlicesDone, DInv, SlicesInv
      <4>2. Len(data) \in Nat /\ DOMAIN data = 1 .. Len(data)
        BY <4>1
      <4>3. /\ NumBatches(Len(data)) \in Nat /\ BATCH_SIZE \in Nat
            /\ Len(data) <= NumBatches(Len(data)) * BATCH_SIZE
        BY <4>2, NumBatchesFacts, WorkloadAssumption
      <4>4. \A i \in DOMAIN data : i <= SlicesDone * BATCH_SIZE
        BY <4>1, <4>2, <4>3
      <4> QED
        BY <2>1, <4>4 DEF DInv, SlicesInv
    <3>3. {rows[i] : i \in DOMAIN rows} = DataKeys
      BY <3>1, <3>2 DEF HasGroup, DataKeys, KeptFor
    <3>4. Cardinality({rows[i] : i \in DOMAIN rows}) = Len(rows)
      <4>1. rows \in Seq(Keys) /\ KeysDistinct /\ IsFiniteSet(K)
        BY <2>1, <3>1, HandlerFacts DEF DInv, SlicesInv, PathsInv, IInv, KeptFor, HoldsAll
      <4> QED
        BY <3>1, <4>1, FewRows DEF KeptFor
    <3> QED
      BY <3>1, <3>3, <3>4 DEF NumGroups, DataKeys, KeptFor
  <2> QED
    BY <2>1, <2>2, NoneDiffers, DInvRows DEF DInv
<1> QED
  BY <1>1, WInvCorrect, DriverInvCorrect, PTL

(***************************************************************************)
(* As its table is never expanded, a driver's batch insertion forgets no    *)
(* row: every value a driver passes in is counted.                          *)
(***************************************************************************)
THEOREM DriversCount ==
    ASSUME RoomForKeys
    PROVE  WorkSpec => [](driver # "any" => ValuesConserved)
<1>1. DriverInv /\ driver # "any" => dropped = {}
  BY DEF DriverInv, DInv, KeptFor
<1>2. [WorkNext]_workVars => (driver # "any" <=> (driver # "any")')
  BY DEF WorkNext, AnyCall, RunWorkload, PipelineStep, driverVars, workVars
<1> QED
  BY <1>1, <1>2, DriverInvCorrect, ValuesKept, PTL DEF WorkSpec

-----------------------------------------------------------------------------
(***************************************************************************)
(* The C++ table.  What it holds does not depend on how its lookups compare *)
(* keys: every row stored is in one slot or waits in a rehash once, and     *)
(* size counts the slots.                                                   *)
(***************************************************************************)
Counted ==
    /\ SizeExact /\ IsFiniteSet(Pending)
    /\ pc = "rehash" => 2 * (size + Cardinality(Pending)) <= Capacity(num_chunks)

TableInv == NoneLost /\ NoneTwice /\ todo \cap collided = {} /\ Counted

LEMMA TableTypes ==
    ASSUME TypeOK, TableInv
    PROVE  /\ size \in Nat /\ Len(rows) \in Nat /\ DOMAIN rows = 1 .. Len(rows)
           /\ IsFiniteSet(Occupied(chunks)) /\ size = Cardinality(Occupied(chunks))
           /\ IsFiniteSet(Pending) /\ Cardinality(Pending) \in Nat
           /\ size + Cardinality(Pending) = Len(rows)
           /\ num_chunks \in Nat \ {0} /\ Capacity(num_chunks) \in Nat \ {0}
           /\ size <= Capacity(num_chunks)
<1>1. /\ size \in Nat /\ rows \in Seq(Keys) /\ num_chunks \in Nat \ {0}
      /\ chunks \in [0 .. num_chunks - 1 -> [Slots -> Slot]]
  BY DEF TypeOK
<1>2. Len(rows) \in Nat /\ DOMAIN rows = 1 .. Len(rows)
  BY <1>1
<1>3. /\ IsFiniteSet(Pending) /\ size = Cardinality(Occupied(chunks))
      /\ size + Cardinality(Pending) = Len(rows)
  BY DEF TableInv, Counted, SizeExact
<1> QED
  BY <1>1, <1>2, <1>3, OccupiedFinite, CapacityType, FS_CardinalityType

LEMMA TableSame ==
    ASSUME TableInv, UNCHANGED <<num_chunks, chunks, size, rows, entries>>,
           Pending' = Pending, todo' \cap collided' = {}, pc' = "rehash" => pc = "rehash"
    PROVE  TableInv'
BY DEF TableInv, NoneLost, NoneTwice, Counted, SizeExact

LEMMA TableStarts ==
    ASSUME TypeOK, RowsInv, TableInv, pc # "rehash", NEW return, StartExpand(return), rows' = rows
    PROVE  TableInv'
<1> DEFINE n == 2 * num_chunks
           old == Occupied(chunks)
<1>1. n \in Nat \ {0} /\ num_chunks' = n /\ chunks' = AllocChunks(n)
  BY HeldTypes DEF StartExpand
<1>2. /\ todo' = old /\ collided' = {} /\ size' = 0
      /\ entries' = [l \in old |-> At(chunks, l)]
  BY DEF StartExpand
<1>3. Occupied(chunks') = {} /\ Pending' = old /\ Pending = {}
  BY <1>1, <1>2, AllocFacts DEF Pending, RowsInv
<1>4. \A l \in old : entries'[l] = At(chunks, l)
  BY <1>2
<1>5. size = Cardinality(old) /\ size = Len(rows) /\ size \in Nat /\ IsFiniteSet(old)
      /\ size <= Capacity(num_chunks) /\ Capacity(n) = 2 * Capacity(num_chunks)
      /\ Capacity(num_chunks) \in Nat
  BY <1>3, TableTypes, CapacityType, FS_EmptySet
<1> HIDE DEF n, old
<1>6. NoneLost'
  BY <1>3, <1>4 DEF NoneLost, TableInv, old
<1>7. NoneTwice'
  BY <1>3, <1>4 DEF NoneTwice, TableInv, old
<1>8. Counted'
  BY <1>1, <1>2, <1>3, <1>5, FS_EmptySet DEF Counted, SizeExact
<1> QED
  BY <1>2, <1>6, <1>7, <1>8 DEF TableInv

LEMMA TablePlaces ==
    ASSUME TypeOK, RowsInv, TableInv, RehashPlace, rows' = rows
    PROVE  TableInv'
<1>1. PICK p \in todo :
        /\ \E s \in Slots :
             /\ IsLowest(s, MatchEmpty(chunks[positions[p]]))
             /\ chunks' = Fill(chunks, positions[p], s, entries[p].key, entries[p].value)
        /\ todo' = todo \ {p}
  BY DEF RehashPlace
<1>2. PICK s \in MatchEmpty(chunks[positions[p]]) :
        chunks' = Fill(chunks, positions[p], s, entries[p].key, entries[p].value)
  BY <1>1 DEF IsLowest
<1> DEFINE new == <<positions[p], s>>
           v == entries[p].value
<1>3. /\ num_chunks \in Nat \ {0} /\ chunks \in [0 .. num_chunks - 1 -> [Slots -> Slot]]
      /\ positions[p] \in 0 .. num_chunks - 1 /\ entries[p].key \in Nat /\ v \in Nat
  BY HeldTypes DEF Pending
<1>4. AddedAt(num_chunks, chunks, chunks', new,
              [tag |-> TagHash(entries[p].key), key |-> entries[p].key, value |-> v])
  BY <1>2, <1>3, FillFacts
<1>5. /\ new \notin Occupied(chunks) /\ Occupied(chunks') = Occupied(chunks) \cup {new}
      /\ At(chunks', new).value = v /\ \A l \in Occupied(chunks) : At(chunks', l) = At(chunks, l)
  BY <1>4 DEF AddedAt
<1>6. /\ Pending' = Pending \ {p} /\ p \in Pending /\ todo' \cap collided' = {}
      /\ entries' = entries /\ num_chunks' = num_chunks /\ size' = size + 1
      /\ pc' = pc /\ pc = "rehash"
  BY <1>1 DEF RehashPlace, Pending, TableInv
<1> HIDE DEF new
<1>7. NoneLost'
  BY <1>5, <1>6 DEF TableInv, NoneLost
<1>8. NoneTwice'
  <2>1. \A l, m \in Occupied(chunks') :
           At(chunks', l).value = At(chunks', m).value => l = m
    BY <1>5, <1>6 DEF TableInv, NoneTwice
  <2>2. \A l \in Occupied(chunks'), m \in Pending \ {p} :
           At(chunks', l).value # entries[m].value
    BY <1>5, <1>6 DEF TableInv, NoneTwice
  <2> QED
    BY <1>6, <2>1, <2>2 DEF TableInv, NoneTwice
<1>9. Counted'
  <2>1. Cardinality(Occupied(chunks')) = Cardinality(Occupied(chunks)) + 1
    BY <1>5, TableTypes, FS_AddElement
  <2>2. Cardinality(Pending') = Cardinality(Pending) - 1 /\ IsFiniteSet(Pending')
    BY <1>6, TableTypes, FS_RemoveElement
  <2>3. /\ size' = Cardinality(Occupied(chunks'))
        /\ size' + Cardinality(Pending') = size + Cardinality(Pending)
        /\ size + Cardinality(Pending) = Len(rows)
    BY <1>6, <2>1, <2>2, TableTypes
  <2> QED
    BY <1>6, <2>2, <2>3 DEF TableInv, Counted, SizeExact
<1> QED
  BY <1>6, <1>7, <1>8, <1>9 DEF TableInv

LEMMA TableRehashes ==
    ASSUME TypeOK, RowsInv, TableInv, ExpandStep, rows' = rows
    PROVE  TableInv'
<1> USE DEF tableVars
<1>1. CASE RehashPlace
  BY <1>1, TablePlaces
<1>2. CASE RehashCollide
  <2>1. PICK p \in todo : collided' = collided \cup {p} /\ todo' = todo \ {p}
    BY <1>2 DEF RehashCollide
  <2>2. /\ UNCHANGED <<num_chunks, chunks, size, rows, entries, pc>>
        /\ Pending' = Pending /\ todo' \cap collided' = {}
    BY <1>2, <2>1 DEF RehashCollide, Pending, TableInv
  <2> QED
    BY <2>2, TableSame
<1>3. CASE RehashRound
  BY <1>3, TableSame DEF RehashRound, Pending
<1>4. CASE RehashDone
  <2>1. /\ UNCHANGED <<num_chunks, chunks, size, rows>> /\ Pending = {} /\ Pending' = {}
        /\ todo' \cap collided' = {} /\ pc' # "rehash"
    BY <1>4 DEF RehashDone, Pending, TypeOK
  <2>2. NoneLost' /\ NoneTwice' /\ Counted'
    BY <2>1 DEF TableInv, NoneLost, NoneTwice, Counted, SizeExact
  <2> QED
    BY <2>1, <2>2 DEF TableInv
<1> QED
  BY <1>1, <1>2, <1>3, <1>4 DEF ExpandStep

(* A row more, in a slot of its own. *)
LEMMA TableAdds ==
    ASSUME TypeOK, RowsInv, TableInv, NEW key \in Keys, rows' = Append(rows, key),
           size' = size + 1, num_chunks' = num_chunks, UNCHANGED <<todo, collided, entries>>,
           pc # "rehash", pc' # "rehash",
           NEW c \in 0 .. num_chunks - 1, NEW s \in MatchEmpty(chunks[c]),
           chunks' = Fill(chunks, c, s, HashOf[key], Len(rows) + 1)
    PROVE  TableInv'
<1> DEFINE new == <<c, s>>
           v == Len(rows) + 1
<1>1. /\ AddedAt(num_chunks, chunks, chunks', new,
                 [tag |-> TagHash(HashOf[key]), key |-> HashOf[key], value |-> v])
      /\ Len(rows') = v /\ DOMAIN rows' = 1 .. v
  BY InsertKeepsRows DEF RowsInv
<1>2. /\ new \notin Occupied(chunks) /\ Occupied(chunks') = Occupied(chunks) \cup {new}
      /\ At(chunks', new).value = v /\ \A l \in Occupied(chunks) : At(chunks', l) = At(chunks, l)
  BY <1>1 DEF AddedAt
<1>3. Pending = {} /\ Pending' = {}
  BY DEF RowsInv, Pending
<1>4. Len(rows) \in Nat /\ DOMAIN rows = 1 .. Len(rows)
  BY TableTypes
<1>5. \A i \in DOMAIN rows' : i = v \/ i \in DOMAIN rows
  BY <1>1, <1>4
<1>6. v \notin DOMAIN rows /\ \A l \in Occupied(chunks) : At(chunks, l).value \in DOMAIN rows
  BY <1>4 DEF RowsInv, RowsRight, OfRow
<1>7. size' = Cardinality(Occupied(chunks'))
  <2>1. IsFiniteSet(Occupied(chunks)) /\ size = Cardinality(Occupied(chunks))
    BY TableTypes
  <2> HIDE DEF new
  <2> QED
    BY <1>2, <2>1, FS_AddElement
<1>8. size' + Cardinality(Pending') = Len(rows')
  BY <1>1, <1>3, TableTypes, FS_EmptySet
<1> HIDE DEF new, v
<1>9. NoneLost'
  BY <1>2, <1>3, <1>5 DEF TableInv, NoneLost
<1>10. NoneTwice'
  BY <1>2, <1>3, <1>6 DEF TableInv, NoneTwice
<1>11. Counted'
  BY <1>3, <1>7, <1>8, FS_EmptySet DEF Counted, SizeExact
<1> QED
  BY <1>9, <1>10, <1>11 DEF TableInv

-----------------------------------------------------------------------------
(* Its lookups, whatever slots they take for hits. *)

LEMMA LookupCases ==
    ASSUME NEW M, CppProbe(M)
    PROVE  \/ ExpandStep /\ UNCHANGED emplaceVars
           \/ Locate
           \/ pc = "probe" /\ M = {} /\ StartExpand("locate") /\ UNCHANGED emplaceVars
           \/ NextUnless(M)
           \/ FoundIn(M)
           \/ InsertUnless(M)
BY DEF CppProbe, CppSearch, ExpandCapacity, CppExpandAt, CppNextUnless

LEMMA LookupTypes ==
    ASSUME TypeOK, RowsInv, NEW M, CppProbe(M)
    PROVE  TypeOK' /\ RowsInv'
<1>1. CASE ExpandStep /\ UNCHANGED emplaceVars
  BY <1>1, NextType, NextRowsInv DEF Next, Step
<1>2. CASE Locate
  BY <1>2, NextType, NextRowsInv DEF Next, Step, EmplaceStep
<1>3. CASE pc = "probe" /\ StartExpand("locate") /\ UNCHANGED emplaceVars
  <2>1. rows' = rows /\ row' = row /\ pos' = pos /\ collision_batch' = collision_batch
        /\ result' = result
    BY <1>3 DEF emplaceVars
  <2>2. TypeOK'
    BY <1>3, <2>1, StartExpandType DEF TypeOK
  <2>3. RowsInv'
    BY <1>3, <2>1, StartKeepsRows DEF RowsInv, StartExpand
  <2> QED
    BY <2>2, <2>3
<1>4. CASE NextUnless(M) \/ FoundIn(M) \/ InsertUnless(M)
  BY <1>4, ProbeTypes, ProbeRowsInv
<1> QED
  BY <1>1, <1>2, <1>3, <1>4, LookupCases

LEMMA LookupTable ==
    ASSUME TypeOK, RowsInv, TableInv, NEW M, CppProbe(M)
    PROVE  TableInv'
<1> USE DEF tableVars, rehashVars, emplaceVars
<1>0. Pending = {} \/ pc = "rehash"
  BY DEF RowsInv
<1>1. CASE ExpandStep /\ UNCHANGED emplaceVars
  BY <1>1, TableRehashes
<1>2. CASE Locate
  BY <1>2, TableSame DEF Locate, Pending, TableInv
<1>3. CASE pc = "probe" /\ StartExpand("locate") /\ UNCHANGED emplaceVars
  BY <1>3, TableStarts
<1>4. CASE NextUnless(M)
  BY <1>4, TableSame DEF NextUnless, Pending, TableInv
<1>5. CASE FoundIn(M)
  BY <1>5, TableSame DEF FoundIn, Pending, TableInv
<1>6. CASE InsertUnless(M)
  <2>1. PICK s \in MatchEmpty(chunks[pos]) :
          chunks' = Fill(chunks, pos, s, HashOf[row], Len(rows) + 1)
    BY <1>6 DEF InsertUnless, IsLowest
  <2>2. pos \in 0 .. num_chunks - 1 /\ row \in Keys
    BY <1>6 DEF InsertUnless, TypeOK
  <2>3. /\ rows' = Append(rows, row) /\ size' = size + 1 /\ num_chunks' = num_chunks
        /\ UNCHANGED <<todo, collided, entries>> /\ pc # "rehash" /\ pc' # "rehash"
    BY <1>6 DEF InsertUnless
  <2> QED
    BY <2>1, <2>2, <2>3, TableAdds
<1> QED
  BY <1>1, <1>2, <1>3, <1>4, <1>5, <1>6, LookupCases

LEMMA FoundIInv ==
    ASSUME TypeOK, IInv, NEW M, FoundIn(M)
    PROVE  IInv'
BY DEF FoundIn, tableVars, rehashVars, IInv, Placed, TagsRight, RowsRight, NoneLost,
   NoneTwice, KeysDistinct, RehashRight, ScanRight, Pending, OfRow

(* A lookup that passes no slot of its key keeps the paths. *)
LEMMA LookupIInv ==
    ASSUME TypeOK, IInv, NEW M, CppProbe(M),
           pc = "probe" /\ M = {} => KeyMatches(chunks[pos], row) = {}
    PROVE  IInv'
<1> DEFINE K == KeyMatches(chunks[pos], row)
<1>1. CASE ExpandStep /\ UNCHANGED emplaceVars
  BY <1>1, NextIInv DEF Next, Step
<1>2. CASE Locate
  BY <1>2, NextIInv DEF Next, Step, EmplaceStep
<1>3. CASE pc = "probe" /\ StartExpand("locate") /\ UNCHANGED emplaceVars
  <2>1. Pending = {} /\ rows' = rows
    BY <1>3 DEF IInv, RehashRight, emplaceVars
  <2> QED
    BY <1>3, <2>1, StartExpandIInv
<1>4. CASE NextUnless(M)
  <2>1. M = K /\ K = {}
    BY <1>4 DEF NextUnless
  <2> HIDE DEF K
  <2>2. NextUnless(K)
    BY <1>4, <2>1
  <2> QED
    BY <2>2, ProbeNextIInv DEF ProbeNext, K
<1>5. CASE FoundIn(M)
  BY <1>5, FoundIInv
<1>6. CASE InsertUnless(M)
  <2>1. M = K /\ K = {}
    BY <1>6 DEF InsertUnless
  <2> HIDE DEF K
  <2>2. InsertUnless(K)
    BY <1>6, <2>1
  <2> QED
    BY <2>2, ProbeInsertIInv DEF ProbeInsert, K
<1> QED
  BY <1>1, <1>2, <1>3, <1>4, <1>5, <1>6, LookupCases

(* What a step of a lookup among the slots with the hash leaves to know. *)
LEMMA LookupFacts ==
    ASSUME TypeOK, RowsInv, NEW M, CppProbe(M),
           pc = "probe" => M \subseteq HashMatches(chunks[pos], HashOf[row])
    PROVE  /\ pc # "idle" /\ row' = row
           /\ pc' = "rehash" => after' = "locate" \/ (pc = "rehash" /\ after' = after)
           /\ ~(pc = "probe" /\ pc' = "idle") => rows' = rows
           /\ pc = "probe" /\ pc' = "idle" =>
                /\ result'.value \in DOMAIN rows' /\ HashOf[rows'[result'.value]] = HashOf[row]
                /\ result'.value \in 1 .. Len(rows') /\ Len(rows) <= Len(rows')
                /\ \A i \in DOMAIN rows : i \in DOMAIN rows' /\ rows'[i] = rows[i]
                /\ \/ rows' = rows
                   \/ rows' = Append(rows, row) /\ result'.value = Len(rows) + 1
<1>1. /\ rows \in Seq(Keys) /\ row \in Keys /\ Len(rows) \in Nat /\ DOMAIN rows = 1 .. Len(rows)
      /\ HashOf[row] \in Nat
  BY DEF TypeOK
<1>2. CASE ExpandStep /\ UNCHANGED emplaceVars
  BY <1>2, StepFacts DEF Step, emplaceVars
<1>3. CASE Locate
  BY <1>3 DEF Locate
<1>4. CASE pc = "probe" /\ StartExpand("locate") /\ UNCHANGED emplaceVars
  BY <1>4 DEF StartExpand, emplaceVars
<1>5. CASE NextUnless(M)
  BY <1>5 DEF NextUnless
<1>6. CASE FoundIn(M)
  <2>1. PICK s \in M : result' = [value |-> chunks[pos][s].value, is_new |-> FALSE]
    BY <1>6 DEF FoundIn, IsLowest
  <2> DEFINE v == chunks[pos][s].value
  <2>2. pc = "probe" /\ pc' = "idle" /\ row' = row /\ rows' = rows
    BY <1>6 DEF FoundIn
  <2>3. s \in HashMatches(chunks[pos], HashOf[row]) /\ pos \in 0 .. num_chunks - 1
    BY <2>2 DEF TypeOK
  <2>4. v \in DOMAIN rows /\ HashOf[rows[v]] = HashOf[row]
    BY <1>1, <2>3, HitRight DEF RowsInv
  <2>5. result'.value = v
    BY <2>1
  <2> HIDE DEF v
  <2> QED
    BY <1>1, <2>2, <2>4, <2>5
<1>7. CASE InsertUnless(M)
  <2>1. /\ pc = "probe" /\ pc' = "idle" /\ row' = row /\ rows' = Append(rows, row)
        /\ result' = [value |-> Len(rows) + 1, is_new |-> TRUE]
    BY <1>7 DEF InsertUnless
  <2>2. /\ Len(rows') = Len(rows) + 1 /\ DOMAIN rows' = 1 .. Len(rows) + 1
        /\ rows'[Len(rows) + 1] = row
        /\ \A i \in DOMAIN rows : i \in DOMAIN rows' /\ rows'[i] = rows[i]
    BY <1>1, <2>1
  <2>3. result'.value = Len(rows) + 1
    BY <2>1
  <2> QED
    BY <1>1, <2>1, <2>2, <2>3
<1> QED
  BY <1>2, <1>3, <1>4, <1>5, <1>6, <1>7, LookupCases

LEMMA CallTyped ==
    ASSUME TypeOK, RowsInv, NEW k \in Keys, CppEmplace(k)
    PROVE  TypeOK' /\ RowsInv' /\ (TableInv => TableInv') /\ (IInv => IInv')
<1> USE DEF CppEmplace, tableVars, rehashVars
<1>1. TypeOK'
  BY DEF TypeOK
<1>2. RowsInv'
  BY SameRowsInv DEF RowsInv, RowsRight, Pending
<1>3. TableInv => TableInv'
  BY TableSame DEF Pending, TableInv
<1>4. ASSUME IInv PROVE IInv'
  <2>1. Placed' /\ TagsRight' /\ RowsRight' /\ NoneLost' /\ NoneTwice' /\ KeysDistinct'
    BY <1>4 DEF IInv, Placed, TagsRight, RowsRight, NoneLost, NoneTwice, KeysDistinct,
       Pending, OfRow
  <2>2. RehashRight' /\ ScanRight'
    BY <1>4 DEF IInv, RehashRight, ScanRight, Pending
  <2> QED
    BY <2>1, <2>2 DEF IInv
<1> QED
  BY <1>1, <1>2, <1>3, <1>4

-----------------------------------------------------------------------------
(* Its batches. *)

LEMMA CppDirectCallKept ==
    ASSUME AInv, CppDirectCall
    PROVE  BKept
<1>1. phase = "direct" /\ pc = "idle" /\ idx <= NumRows /\ CppEmplace(batch[idx]) /\ UNCHANGED batchVars
  BY DEF CppDirectCall
<1>2. idx \in DOMAIN batch /\ batch \in Seq(Keys)
  BY <1>1, BatchTypes DEF AInv
<1>3. batch[idx] \in Keys
  BY <1>2
<1>4. TypeOK' /\ RowsInv' /\ (IInv => IInv')
  BY <1>1, <1>3, CallTyped DEF AInv, BatchTypeOK
<1>5. /\ rows' = rows /\ row' = batch[idx] /\ pc' = "locate"
      /\ UNCHANGED <<batch, phase, resume, idx, cur_count,
               emplace_hash_vals, emplace_positions, emplace_collisions, batch_collisions,
               batch_round, retry_idx, retry_count, served, dropped>>
  BY <1>1 DEF CppEmplace, batchVars, arrays, retryVars
<1>6. BatchTypeOK' /\ Ranges' /\ Named' /\ Injective' /\ Parts' /\ ServedRight'
  BY <1>1, <1>4, <1>5, SameBatch
<1>7. Control'
  BY <1>1, <1>5 DEF Control, NumRows
<1>8. OnPaths'
  BY <1>1, <1>5 DEF OnPaths, RetryAt
<1> QED
  BY <1>4, <1>6, <1>7, <1>8 DEF BKept, AInv, PathsInv

LEMMA DirectLooks ==
    ASSUME TypeOK
    PROVE  /\ pc = "probe" => DirectMatches \subseteq HashMatches(chunks[pos], HashOf[row])
           /\ pc = "probe" /\ DirectMatches = {} => KeyMatches(chunks[pos], row) = {}
BY DEF DirectMatches, KeyMatches

LEMMA CppDirectStepKept ==
    ASSUME AInv, CppDirectStep
    PROVE  BKept
<1>1. /\ phase = "direct" /\ CppProbe(DirectMatches)
      /\ UNCHANGED <<batch, phase, resume, cur_count, emplace_hash_vals, emplace_positions,
                     emplace_collisions, batch_collisions, batch_round, retry_idx,
                     retry_count, dropped>>
  BY DEF CppDirectStep, arrays, retryVars
<1>2. /\ TypeOK /\ RowsInv /\ BatchTypeOK
      /\ TypeOK' /\ RowsInv' /\ (IInv => IInv')
  BY <1>1, LookupTypes, LookupIInv, DirectLooks DEF AInv, BatchTypeOK
<1>3. /\ pc # "idle" /\ row' = row
      /\ pc' = "rehash" => after' = "locate" \/ (pc = "rehash" /\ after' = after)
  BY <1>1, <1>2, LookupFacts, DirectLooks
<1>4. /\ idx <= NumRows /\ row = batch[idx] /\ (pc = "rehash" => after = "locate")
  BY <1>1, <1>3 DEF AInv, Control
<1>5. OnPaths'
  BY <1>1 DEF OnPaths, RetryAt
<1>6. CASE ~(pc = "probe" /\ pc' = "idle")
  <2>1. rows' = rows /\ idx' = idx /\ served' = served
    BY <1>1, <1>2, <1>6, LookupFacts, DirectLooks DEF CppDirectStep
  <2>2. BatchTypeOK' /\ Ranges' /\ Named' /\ Injective' /\ Parts' /\ ServedRight'
    BY <1>1, <1>2, <2>1, SameBatch
  <2>3. Control'
    BY <1>1, <1>3, <1>4, <2>1 DEF Control, NumRows
  <2> QED
    BY <1>2, <1>5, <2>2, <2>3 DEF BKept, AInv, PathsInv
<1>7. CASE pc = "probe" /\ pc' = "idle"
  <2> DEFINE v == result'.value
  <2>1. /\ v \in DOMAIN rows' /\ HashOf[rows'[v]] = HashOf[row] /\ v \in 1 .. Len(rows')
        /\ Len(rows) <= Len(rows')
        /\ \A i \in DOMAIN rows : i \in DOMAIN rows' /\ rows'[i] = rows[i]
    BY <1>1, <1>2, <1>7, LookupFacts, DirectLooks
  <2>2. served' = [served EXCEPT ![idx] = v] /\ idx' = idx + 1
    BY <1>7 DEF CppDirectStep
  <2> HIDE DEF v
  <2>3. /\ idx \in Nat \ {0} /\ NumRows \in Nat /\ DOMAIN batch = 1 .. NumRows
        /\ NumRows' = NumRows /\ idx \in DOMAIN batch /\ Len(rows) \in Nat /\ Len(rows') \in Nat
        /\ served \in [DOMAIN batch -> 0 .. Len(rows)]
    <3>1. /\ idx \in Nat \ {0} /\ NumRows \in Nat /\ DOMAIN batch = 1 .. NumRows
          /\ Len(rows) \in Nat /\ served \in [DOMAIN batch -> 0 .. Len(rows)]
      BY <1>2, BatchTypes
    <3>2. NumRows' = NumRows /\ Len(rows') \in Nat
      BY <1>1, <1>2 DEF NumRows, TypeOK
    <3> QED
      BY <1>4, <3>1, <3>2
  <2>4. /\ served' \in [DOMAIN batch -> 0 .. Len(rows')] /\ served'[idx] = v /\ v # 0
        /\ \A q \in DOMAIN batch \ {idx} : served'[q] = served[q]
    BY <2>1, <2>2, <2>3
  <2>5. Served' = Served \cup {idx} /\ Served = 1 .. idx - 1 /\ dropped = {}
    <3>1. Served = 1 .. idx - 1 /\ dropped = {}
      BY <1>1 DEF AInv, Parts
    <3> QED
      BY <1>1, <2>3, <2>4, <3>1 DEF Served
  <2>6. BatchTypeOK'
    <3>1. idx' \in 1 .. NumRows' + 1
      BY <1>4, <2>2, <2>3
    <3> QED
      BY <1>1, <1>2, <2>3, <2>4, <3>1 DEF BatchTypeOK
  <2>7. Control' /\ Ranges' /\ Named' /\ Injective'
    BY <1>1, <1>7 DEF AInv, Control, Ranges, Named, Injective, InArrays
  <2>8. Parts'
    <3>1. Served' = 1 .. idx' - 1
      BY <2>2, <2>3, <2>5
    <3> QED
      BY <1>1, <2>5, <3>1 DEF Parts, InArrays
  <2>9. ServedRight'
    <3>1. \A q \in Served : served[q] \in DOMAIN rows /\ HashOf[rows[served[q]]] = H(q) /\ q \in DOMAIN batch
      BY DEF AInv, ServedRight, Served
    <3>2. \A q : H(q)' = H(q)
      BY <1>1 DEF H
    <3>3. idx \notin Served
      BY <2>3, <2>5
    <3>4. HashOf[rows'[served'[idx]]] = H(idx) /\ served'[idx] \in DOMAIN rows'
      BY <1>4, <2>1, <2>4 DEF H
    <3>5. \A q \in Served : served'[q] \in DOMAIN rows' /\ HashOf[rows'[served'[q]]] = H(q)
      BY <2>1, <2>4, <3>1, <3>3
    <3> QED
      BY <2>5, <3>2, <3>4, <3>5 DEF ServedRight
  <2> QED
    BY <1>2, <1>5, <2>6, <2>7, <2>8, <2>9 DEF BKept, AInv, PathsInv
<1> QED
  BY <1>6, <1>7

LEMMA CppBatchKept ==
    ASSUME AInv, CppBatchStep
    PROVE  BKept
<1>1. CASE CppDirectCall \/ CppDirectStep
  BY <1>1, CppDirectCallKept, CppDirectStepKept
<1>2. CASE BatchStep
  BY <1>2, BatchStepKept
<1> QED
  BY <1>1, <1>2 DEF CppBatchStep, BatchStep

(* In the fallback the step that ends a lookup is the one that inserts. *)
LEMMA CppDirectGives ==
    ASSUME AInv, CppDirectStep
    PROVE  NoGroupGiven \/ \E r \in DOMAIN batch : GroupGiven(r)
<1>1. /\ phase = "direct" /\ CppProbe(DirectMatches) /\ TypeOK /\ RowsInv /\ BatchTypeOK
  BY DEF CppDirectStep, AInv, BatchTypeOK
<1>2. pc # "idle" /\ idx <= NumRows /\ row = batch[idx]
  BY <1>1, LookupFacts, DirectLooks DEF AInv, Control
<1>3. CASE ~(pc = "probe" /\ pc' = "idle")
  BY <1>1, <1>3, LookupFacts, DirectLooks DEF CppDirectStep, NoGroupGiven
<1>4. CASE pc = "probe" /\ pc' = "idle"
  <2> DEFINE v == result'.value
  <2>1. /\ v \in 1 .. Len(rows') /\ served' = [served EXCEPT ![idx] = v]
        /\ rows' = rows \/ (rows' = Append(rows, row) /\ v = Len(rows) + 1)
    BY <1>1, <1>4, LookupFacts, DirectLooks DEF CppDirectStep
  <2> HIDE DEF v
  <2>2. /\ idx \in DOMAIN batch /\ served \in [DOMAIN batch -> 0 .. Len(rows)]
        /\ idx \in Nat
    BY <1>1, <1>2, BatchTypes
  <2>3. idx \notin Served
    BY <1>1, <2>2 DEF AInv, Parts
  <2>4. served[idx] = 0 /\ served'[idx] = v /\ v # 0
    BY <2>1, <2>2, <2>3 DEF Served
  <2>5. \A q \in DOMAIN batch \ {idx} : served'[q] = served[q]
    BY <2>1, <2>2
  <2> QED
    BY <1>2, <2>1, <2>2, <2>4, <2>5 DEF GroupGiven
<1> QED
  BY <1>3, <1>4

LEMMA CppStepGives ==
    ASSUME AInv, CppBatchStep
    PROVE  /\ batch' = batch /\ calls' = calls
           /\ NoGroupGiven \/ \E r \in DOMAIN batch : GroupGiven(r)
<1>1. CASE CppDirectCall
  BY <1>1 DEF CppDirectCall, CppEmplace, NoGroupGiven, batchVars
<1>2. CASE CppDirectStep
  BY <1>2, CppDirectGives DEF CppDirectStep
<1>3. CASE BatchStep
  BY <1>3, StepGives
<1> QED
  BY <1>1, <1>2, <1>3 DEF CppBatchStep, BatchStep

LEMMA TableServes ==
    ASSUME TypeOK, RowsInv, TableInv, pc = "idle",
           UNCHANGED <<rehashVars, pc, row, pos, collision_batch, result>>,
           batch \in Seq(Keys), NEW r \in DOMAIN batch,
           NEW p \in 0 .. num_chunks - 1, TryEmplaceAtPos(H(r), p, r)
    PROVE  TableInv'
<1> USE DEF tableVars, rehashVars
<1>1. CASE UNCHANGED <<tableVars, rows>>
  BY <1>1, TableSame DEF Pending, TableInv
<1>2. CASE /\ \E s \in Slots :
                /\ IsLowest(s, MatchEmpty(chunks[p]))
                /\ chunks' = Fill(chunks, p, s, H(r), Len(rows) + 1)
           /\ size' = size + 1
           /\ rows' = Append(rows, batch[r])
           /\ UNCHANGED num_chunks
  <2>1. PICK s \in MatchEmpty(chunks[p]) :
           chunks' = Fill(chunks, p, s, H(r), Len(rows) + 1)
    BY <1>2 DEF IsLowest
  <2>2. batch[r] \in Keys /\ H(r) = HashOf[batch[r]]
    BY HashType DEF H
  <2> DEFINE key == batch[r]
  <2>3. key \in Keys /\ chunks' = Fill(chunks, p, s, HashOf[key], Len(rows) + 1)
    BY <2>1, <2>2
  <2>4. /\ rows' = Append(rows, key) /\ size' = size + 1 /\ num_chunks' = num_chunks
        /\ UNCHANGED <<todo, collided, entries>> /\ pc # "rehash" /\ pc' # "rehash"
    BY <1>2
  <2> HIDE DEF key
  <2> QED
    BY <2>1, <2>3, <2>4, TableAdds
<1> QED
  BY <1>1, <1>2 DEF TryEmplaceAtPos

LEMMA CppBatchTable ==
    ASSUME AInv, TableInv, CppBatchStep
    PROVE  TableInv'
<1> USE DEF vars, tableVars, rehashVars, emplaceVars, batchVars
<1>0. TypeOK /\ RowsInv /\ BatchTypeOK
  BY DEF AInv, BatchTypeOK
<1>1. CASE CppDirectCall
  <2>1. batch[idx] \in Keys
    BY <1>1, <1>0, BatchTypes, HashType DEF CppDirectCall
  <2> QED
    BY <1>0, <1>1, <2>1, CallTyped DEF CppDirectCall
<1>2. CASE CppDirectStep
  BY <1>0, <1>2, LookupTable DEF CppDirectStep
<1>3. CASE PassServe
  <2> DEFINE r == RowOf(idx)
  <2>1. InPass /\ idx <= PassEnd
    BY <1>3 DEF PassServe
  <2>2. /\ r \in DOMAIN batch /\ emplace_positions[idx] \in 0 .. num_chunks - 1
        /\ TryEmplaceAtPos(H(r), emplace_positions[idx], r) /\ pc = "idle"
    BY <1>3, <2>1, PassFacts DEF PassServe, InPass
  <2>3. batch \in Seq(Keys)
    BY <1>0, BatchTypes
  <2>4. UNCHANGED <<rehashVars, pc, row, pos, collision_batch, result>>
    BY <1>3 DEF PassServe
  <2> HIDE DEF r
  <2> QED
    BY <1>0, <2>2, <2>3, <2>4, TableServes
<1>4. CASE RetryServe
  <2> DEFINE r == emplace_collisions[retry_idx]
  <2>1. /\ phase = "retry" /\ retry_idx <= retry_count /\ retry_idx' = retry_idx + 1
        /\ TryEmplaceAtPos(H(r), emplace_positions[retry_idx], r)
    BY <1>4 DEF RetryServe, H
  <2>2. UNCHANGED <<rehashVars, pc, row, pos, collision_batch, result, batch, phase, resume,
                    idx, cur_count, emplace_hash_vals, emplace_positions, emplace_collisions,
                    batch_collisions, batch_round, retry_count>>
    BY <1>4 DEF RetryServe, arrays
  <2>3. r \in DOMAIN batch /\ emplace_positions[retry_idx] \in 0 .. num_chunks - 1 /\ pc = "idle"
    BY <2>1, <2>2, RetryPlace
  <2>4. batch \in Seq(Keys)
    BY <1>0, BatchTypes
  <2> HIDE DEF r
  <2> QED
    BY <1>0, <2>1, <2>2, <2>3, <2>4, TableServes
<1>5. CASE PassExpand
  BY <1>0, <1>5, TableStarts DEF PassExpand, InPass
<1>6. CASE ExpandInBatch
  BY <1>0, <1>6, TableRehashes DEF ExpandInBatch
<1>7. CASE UNCHANGED vars
  BY <1>7, TableSame DEF Pending, TableInv
<1>8. DirectReturn \/ PassCollide \/ RetryStart \/ RetryDrop \/ RetryEnd \/ NextRound \/ BatchReturn
      => UNCHANGED vars
  BY DEF DirectReturn, PassCollide, RetryStart, RetryDrop, RetryEnd, NextRound, BatchReturn, Return
<1> QED
  BY <1>1, <1>2, <1>3, <1>4, <1>5, <1>6, <1>7, <1>8 DEF CppBatchStep

-----------------------------------------------------------------------------
(***************************************************************************)
(* The C++ pipeline.  Its second stage writes the groups it finds over the  *)
(* candidates, so what is known of the candidates holds of the rows still   *)
(* to be visited, and every row that is through has the group of its key.   *)
(***************************************************************************)
CppSorted ==
    step = "groups" =>
        \A i \in ui .. Len(working_indices) :
            i <= idx_from <=> rows[served[working_indices[i]]] # batch[working_indices[i]]

GroupsTold == \A r \in Served : r \notin ToAdd => rows[served[r]] = batch[r]

CppInv == StagesInv /\ CppSorted /\ GroupsTold /\ TableInv

(* Away from the second stage it is the Rust handler's. *)
LEMMA FirstStage == StagesInv /\ step # "groups" => HInv
BY DEF CandidatesSorted

LEMMA CppTableCallKept ==
    ASSUME CppInv, NEW B, Fits(B), CppEmplaceTableWithDecode(B)
    PROVE  CppInv'
<1>1. /\ step = "ready" /\ calls < MaxCalls /\ step' = "sized"
      /\ batch' = B /\ served' = [r \in DOMAIN B |-> 0] /\ dropped' = {}
      /\ update_indices' = <<>>
      /\ input_total' = [k \in Keys |-> input_total[k] + PassedIn(B, k)]
  BY DEF CppEmplaceTableWithDecode, FreshUpdates
<1>2. UNCHANGED <<num_chunks, chunks, size, entries, positions, todo, collided, rehash_batch,
                  after, pc, rows, row, pos, collision_batch, result, phase, resume, idx,
                  cur_count, emplace_hash_vals, emplace_positions, emplace_collisions,
                  batch_collisions, batch_round, retry_idx, retry_count, calls,
                  working_indices, idx_from, col, ui, agg>>
  BY DEF CppEmplaceTableWithDecode, tableVars, rehashVars, emplaceVars, arrays, retryVars, stageVars
<1>3. /\ TypeOK /\ BatchTypeOK /\ RowsInv /\ phase = "none" /\ pc = "idle"
      /\ calls \in 0 .. MaxCalls /\ StagesInv
  BY <1>1, HandlerFacts DEF CppInv, StagesInv, Cursors
<1>4. idx = 1 /\ cur_count = 0 /\ batch_collisions = 0 /\ batch_round = 1
  BY <1>3 DEF StagesInv, MapPart, Ranges
<1>5. working_indices = <<>> /\ idx_from = 0 /\ ui = 1 /\ col \in 1 .. Len(Columns) + 1
  BY <1>1, <1>3 DEF StagesInv, Lists, Cursors
<1>6. TypeOK' /\ RowsInv'
  <2>1. UNCHANGED vars
    BY <1>2 DEF vars, tableVars, rehashVars, emplaceVars
  <2> QED
    BY <1>3, <2>1, SameVars
<1>7. /\ B \in Seq(Keys) /\ Len(B) \in Nat /\ NumRows' = Len(B) /\ DOMAIN B = 1 .. Len(B)
      /\ Served' = {} /\ Len(rows) \in Nat
  BY <1>1, <1>3 DEF Fits, NumRows, Served, TypeOK
<1>8. BatchTypeOK'
  <2>1. served' \in [DOMAIN batch' -> 0 .. Len(rows')]
    BY <1>1, <1>2, <1>7
  <2>2. idx' \in 1 .. NumRows' + 1 /\ cur_count' \in 0 .. NumRows' /\ batch_collisions' \in 0 .. NumRows'
    BY <1>2, <1>4, <1>7
  <2> QED
    BY <1>1, <1>2, <1>3, <1>6, <1>7, <2>1, <2>2 DEF BatchTypeOK
<1>9. MapPart'
  <2>1. Ranges' /\ Named' /\ Injective' /\ ServedRight' /\ Control'
    BY <1>2, <1>3, <1>4, <1>7 DEF Ranges, Named, Injective, InArrays, ServedRight, Control
  <2> QED
    BY <1>1, <1>2, <1>3, <1>6, <1>8, <2>1 DEF MapPart
<1>10. Cursors' /\ Lists'
  BY <1>1, <1>2, <1>3, <1>5, OnceInEmpty DEF Cursors, StagesInv, Fits, Lists
<1>11. Aggregates'
  <2>1. \A k : PassedIn(B, k) \in Nat
    BY <1>1, <1>3, PassedFacts
  <2>2. input_total \in [Keys -> Nat]
    BY <1>3 DEF StagesInv, Aggregates
  <2> QED
    BY <1>1, <1>2, <1>3, <2>1, <2>2 DEF StagesInv, Aggregates
<1>12. TableInv'
  BY <1>2, TableSame DEF CppInv, Pending, TableInv
<1>13. Sorting' /\ CppSorted' /\ GroupsTold'
  BY <1>1, <1>7 DEF Sorting, CppSorted, GroupsTold
<1> QED
  BY <1>9, <1>10, <1>11, <1>12, <1>13 DEF CppInv, StagesInv

LEMMA CppCallback ==
    ASSUME CppInv, CppBatchCallback
    PROVE  CallbackDone /\ CppInv'
<1>1. /\ step = "batch" /\ CppBatchStep /\ CallbackNotes
      /\ UNCHANGED <<step, working_indices, idx_from, col, ui, input_total>>
  BY DEF CppBatchCallback, stageVars, CallbackNotes
<1>2. AInv /\ TableInv /\ HInv
  BY <1>1, HandlerFacts, FirstStage DEF CppInv
<1>3. AInv' /\ TableInv'
  BY <1>1, <1>2, CppBatchKept, CppBatchTable DEF BKept
<1>4. CallbackDone
  BY <1>1, <1>2, <1>3, CppStepGives, CallbackEffect
<1>5. StagesInv'
  BY <1>2, <1>4, CallbackHInv
<1>6. /\ rows \in Seq(Keys) /\ served \in [DOMAIN batch -> 0 .. Len(rows)]
      /\ DOMAIN rows = 1 .. Len(rows) /\ Len(rows) \in Nat /\ Served \subseteq DOMAIN batch
      /\ batch \in Seq(Keys) /\ OnceIn(update_indices, Served)
      /\ \A r \in Served : served[r] \in DOMAIN rows
  BY <1>1, <1>2, HandlerFacts DEF StagesInv, Lists
<1>7. GroupsTold'
  <2> SUFFICES ASSUME NEW x \in Served', x \notin ToAdd' PROVE rows'[served'[x]] = batch'[x]
    BY DEF GroupsTold
  <2>1. batch' = batch /\ x \in DOMAIN batch /\ step' = "batch"
    BY <1>1, <1>4 DEF CallbackDone, Served
  <2>2. \A i \in DOMAIN update_indices' : update_indices'[i] # x
    BY <2>1 DEF ToAdd
  <2>3. CASE NothingNoted
    <3>1. UNCHANGED <<served, rows, update_indices>> /\ Served' = Served
      BY <2>3 DEF NothingNoted, NoGroupGiven
    <3>2. x \notin ToAdd
      BY <1>1, <2>1, <2>2, <3>1 DEF ToAdd, Served
    <3> QED
      BY <2>1, <3>1, <3>2 DEF CppInv, GroupsTold
  <2>4. ASSUME NEW r \in DOMAIN batch, GroupGiven(r), r \notin Served,
               Served' = Served \cup {r}, GroupMade(r)
        PROVE  rows'[served'[x]] = batch'[x]
    <3>1. /\ rows' = Append(rows, batch[r]) /\ update_indices' = update_indices
          /\ \A q \in DOMAIN batch \ {r} : served'[q] = served[q]
      BY <2>4 DEF GroupGiven, GroupMade
    <3>2. CASE x = r
      <4>1. rows' # rows
        <5> DEFINE key == batch[r]
        <5>1. key \in Keys /\ rows' = Append(rows, key)
          BY <1>6, <3>1
        <5> HIDE DEF key
        <5>2. Len(rows') = Len(rows) + 1
          BY <1>6, <5>1
        <5> QED
          BY <1>6, <5>2
      <4>2. served'[r] = Len(rows) + 1
        BY <2>4, <4>1 DEF GroupGiven
      <4> QED
        BY <1>6, <2>1, <3>1, <3>2, <4>2
    <3>3. CASE x # r
      <4>1. x \in Served /\ served'[x] = served[x]
        BY <2>1, <2>4, <3>1, <3>3
      <4>2. x \notin ToAdd
        BY <1>1, <2>2, <3>1, <4>1 DEF ToAdd, Served
      <4>3. rows[served[x]] = batch[x] /\ served[x] \in DOMAIN rows
        BY <1>6, <4>1, <4>2 DEF CppInv, GroupsTold
      <4> QED
        BY <1>6, <2>1, <3>1, <4>1, <4>3
    <3> QED
      BY <3>2, <3>3
  <2>5. ASSUME NEW r \in DOMAIN batch, GroupGiven(r), r \notin Served,
               Served' = Served \cup {r}, GroupMet(r)
        PROVE  rows'[served'[x]] = batch'[x]
    <3>1. /\ rows' = rows /\ update_indices' = Append(update_indices, r)
          /\ \A q \in DOMAIN batch \ {r} : served'[q] = served[q]
      BY <2>5 DEF GroupGiven, GroupMet
    <3>2. /\ update_indices \in Seq(Served) /\ Len(update_indices) \in Nat
          /\ DOMAIN update_indices = 1 .. Len(update_indices)
      BY <1>6 DEF OnceIn
    <3>3. /\ update_indices'[Len(update_indices) + 1] = r
          /\ DOMAIN update_indices' = 1 .. Len(update_indices) + 1
          /\ \A i \in 1 .. Len(update_indices) : update_indices'[i] = update_indices[i]
      BY <3>1, <3>2
    <3>4. x # r /\ \A i \in DOMAIN update_indices : update_indices[i] # x
      BY <2>2, <3>2, <3>3
    <3>5. x \in Served /\ served'[x] = served[x]
      BY <2>1, <2>5, <3>1, <3>4
    <3>6. x \notin ToAdd
      BY <1>1, <3>4, <3>5 DEF ToAdd, Served
    <3> QED
      BY <2>1, <3>1, <3>5, <3>6 DEF CppInv, GroupsTold
  <2> QED
    BY <1>4, <2>3, <2>4, <2>5 DEF CallbackDone
<1>8. CppSorted'
  BY <1>1 DEF CppSorted
<1> QED
  BY <1>3, <1>4, <1>5, <1>7, <1>8 DEF CppInv

(* Between the two stages. *)
LEMMA CppQuiet ==
    ASSUME CppInv, StartBatch \/ NothingToCompare \/ StartCompare \/ CompareColumn \/ CompareDone
    PROVE  CppInv'
<1>1. HInv /\ TableInv /\ StagesInv
  BY FirstStage DEF CppInv, StartBatch, NothingToCompare, StartCompare, CompareColumn, CompareDone
<1>2. HInv'
  BY <1>1, StartHInv, NothingHInv, StartCompareHInv, CompareHInv, CompareDoneHInv
<1>3. UNCHANGED vars
  <2>1. CASE StartBatch
    BY <2>1 DEF StartBatch, EmplaceBatch
  <2>2. CASE ~StartBatch
    <3>1. UNCHANGED allVars
      BY <2>2 DEF NothingToCompare, StartCompare, CompareColumn, CompareDone
    <3> QED
      BY <3>1, QuietFacts
  <2> QED
    BY <2>1, <2>2
<1>4. TableInv'
  BY <1>1, <1>3, TableSame DEF vars, tableVars, rehashVars, emplaceVars, Pending, TableInv
<1>5. CASE StartBatch
  <2>1. Served' = {} /\ step' = "batch"
    BY <1>5 DEF StartBatch, EmplaceBatch, Served
  <2> QED
    BY <1>2, <1>4, <2>1 DEF CppInv, CppSorted, GroupsTold
<1>6. CASE ~StartBatch
  <2>1. UNCHANGED allVars /\ step \in {"batch", "compare"}
    BY <1>6 DEF NothingToCompare, StartCompare, CompareColumn, CompareDone
  <2>2. UNCHANGED <<batch, served, rows>> /\ Served' = Served
    BY <2>1, QuietFacts
  <2>3. \A r \in Served : r \notin ToAdd' => r \notin ToAdd
    <3>1. CASE NothingToCompare
      BY <3>1 DEF NothingToCompare, ToAdd, Served
    <3>2. CASE StartCompare
      <4>1. ui' = 1 /\ step = "batch" /\ step' = "compare" /\ working_indices' = update_indices
        BY <1>1, <3>2 DEF StartCompare, StagesInv, Cursors, Lists
      <4>2. DOMAIN update_indices = 1 .. Len(update_indices)
        BY <1>1, <4>1, OnceInLists DEF StagesInv, Lists
      <4> QED
        BY <4>1, <4>2 DEF ToAdd, Served
    <3>3. CASE CompareColumn
      <4> DEFINE q == working_indices
                 n == Len(q)
                 part == ComparePass(q, idx_from, Differing(col))
      <4>1. /\ step = "compare" /\ step' = "compare" /\ q' = part.indices /\ ui = 1 /\ ui' = 1
        BY <1>1, <3>3 DEF CompareColumn, StagesInv, Cursors
      <4>2. RowsIn(part.indices, n) = RowsIn(q, n) /\ Len(part.indices) = n
        BY <1>1, <3>3, CompareLists
      <4> HIDE DEF part
      <4>3. ToAdd = RowsIn(q, n) /\ ToAdd' = RowsIn(part.indices, n)
        BY <4>1, <4>2 DEF ToAdd, RowsIn
      <4> QED
        BY <4>2, <4>3
    <3>4. CASE CompareDone
      BY <1>1, <3>4 DEF CompareDone, StagesInv, Cursors, ToAdd
    <3> QED
      BY <1>6, <3>1, <3>2, <3>3, <3>4
  <2>4. GroupsTold'
    BY <2>2, <2>3 DEF CppInv, GroupsTold
  <2>5. CppSorted'
    <3>1. ui' .. Len(working_indices') \subseteq DOMAIN working_indices' \/ step' # "groups"
      <4>1. OnceIn(working_indices', Served')
        BY <1>2 DEF StagesInv, Lists
      <4>2. DOMAIN working_indices' = 1 .. Len(working_indices') /\ Len(working_indices') \in Nat
        BY <4>1, OnceInLists
      <4>3. step' = "groups" => ui' = 1
        BY <1>6, <2>1 DEF NothingToCompare, StartCompare, CompareColumn, CompareDone
      <4> QED
        BY <4>2, <4>3
    <3> QED
      BY <1>2, <3>1 DEF CppSorted, CandidatesSorted
  <2> QED
    BY <1>2, <1>4, <2>4, <2>5 DEF CppInv
<1> QED
  BY <1>5, <1>6

(* The second stage, up to the step that ends a lookup. *)
LEMMA VisitSame ==
    ASSUME CppInv, Visiting, VisitKept, ui' = ui, Aggregates', TableInv',
           pc' # "idle" => ui <= idx_from /\ row' = batch[InputRow],
           pc' = "rehash" => after' = "locate"
    PROVE  CppInv'
<1>1. /\ StagesInv' /\ StagesInv
      /\ \A i \in DOMAIN working_indices :
            rows'[served'[working_indices[i]]] = rows[served[working_indices[i]]]
  BY VisitStages DEF CppInv
<1>2. /\ UNCHANGED <<step, batch, served, working_indices, idx_from, ui, update_indices>>
      /\ RowsGrow /\ step = "groups"
  BY DEF VisitKept, batchVars, Visiting
<1>3. ui .. Len(working_indices) \subseteq DOMAIN working_indices
  <2>1. ui \in Nat \ {0} /\ DOMAIN working_indices = 1 .. Len(working_indices)
    BY <1>1, OnceInLists DEF StagesInv, Cursors, Lists
  <2> QED
    BY <2>1
<1>4. CppSorted'
  BY <1>1, <1>2, <1>3 DEF CppInv, CppSorted
<1>5. GroupsTold'
  <2>1. Served' = Served /\ ToAdd' = ToAdd
    BY <1>2 DEF Served, ToAdd
  <2>2. \A r \in Served : served[r] \in DOMAIN rows
    BY <1>1, HandlerFacts
  <2> QED
    BY <1>2, <2>1, <2>2 DEF CppInv, GroupsTold, RowsGrow
<1> QED
  BY <1>1, <1>4, <1>5 DEF CppInv

LEMMA CppReemplaceCallKept ==
    ASSUME CppInv, CppReemplaceCall
    PROVE  CppInv'
<1>1. /\ Visiting /\ ui <= idx_from /\ CppEmplace(batch[InputRow]) /\ UNCHANGED batchVars
      /\ UNCHANGED <<step, update_indices, working_indices, idx_from, col, ui, agg, input_total>>
      /\ StagesInv /\ TableInv
  BY DEF CppReemplaceCall, handlerVars, CppInv
<1>2. TypeOK /\ RowsInv /\ batch[InputRow] \in Keys
  BY <1>1, HandlerFacts, VisitFacts
<1>3. TypeOK' /\ RowsInv' /\ TableInv'
  BY <1>1, <1>2, CallTyped
<1>4. rows' = rows /\ row' = batch[InputRow] /\ pc' = "locate"
  BY <1>1 DEF CppEmplace
<1>5. VisitKept /\ Aggregates'
  BY <1>1, <1>3, <1>4, RowsStay DEF VisitKept, StagesInv, Aggregates
<1> QED
  BY <1>1, <1>3, <1>4, <1>5, VisitSame

(* The lookups take slots of the row's hash for hits. *)
LEMMA MatchesHash ==
    pc = "probe" => Matches = ColumnMatches /\ Matches \subseteq HashMatches(chunks[pos], HashOf[row])
BY DEF Matches, ColumnMatches

LEMMA CppReemplaceProbeKept ==
    ASSUME CppInv, CppReemplaceProbe
    PROVE  CppInv' /\ rows' = rows
<1>1. /\ Visiting /\ CppProbe(Matches) /\ UNCHANGED batchVars
      /\ UNCHANGED <<step, update_indices, working_indices, idx_from, col, ui, agg, input_total>>
      /\ StagesInv /\ TableInv /\ pc # "idle"
  BY DEF CppReemplaceProbe, CppProbe, handlerVars, CppInv
<1>2. TypeOK /\ RowsInv /\ step = "groups"
  BY <1>1, HandlerFacts, VisitFacts
<1>3. ui <= idx_from /\ row = batch[InputRow] /\ (pc = "rehash" => after = "locate")
  BY <1>1, <1>2 DEF StagesInv, MapPart
<1>4. TypeOK' /\ RowsInv' /\ TableInv'
  BY <1>1, <1>2, LookupTypes, LookupTable
<1>5. /\ row' = row /\ (pc' = "rehash" => after' = "locate")
      /\ ~(pc = "probe" /\ pc' = "idle") => rows' = rows
  BY <1>1, <1>2, <1>3, MatchesHash, LookupFacts
<1>6. rows' = rows
  <2>1. CppSearch(Matches) => ~(pc = "probe" /\ pc' = "idle")
    BY DEF CppSearch, ExpandCapacity, ExpandStep, RehashPlace, RehashCollide, RehashRound,
       RehashDone, Locate, CppExpandAt, StartExpand, CppNextUnless, NextUnless
  <2> QED
    BY <1>5, <2>1 DEF CppReemplaceProbe
<1>7. VisitKept /\ Aggregates'
  BY <1>1, <1>4, <1>6, RowsStay DEF VisitKept, StagesInv, Aggregates
<1> QED
  BY <1>1, <1>3, <1>4, <1>5, <1>6, <1>7, VisitSame

(* The step that ends a lookup: the group of the row's key, found or made. *)
GroupNoted(x) ==
    /\ x \in DOMAIN rows' /\ rows'[x] = batch[InputRow] /\ RowsGrow
    /\ \/ rows' = rows /\ AddedTo(x, AggValue(InputRow))
       \/ rows' = Append(rows, batch[InputRow]) /\ agg' = Append(agg, AggValue(InputRow))
    /\ served' = [served EXCEPT ![InputRow] = x] /\ ui' = ui + 1
    /\ pc' = "idle" /\ TypeOK' /\ RowsInv' /\ TableInv'
    /\ UNCHANGED <<batch, phase, resume, idx, cur_count, emplace_hash_vals, emplace_positions,
                   emplace_collisions, batch_collisions, batch_round, retry_idx, retry_count,
                   dropped, calls, step, update_indices, working_indices, idx_from, col,
                   input_total>>

LEMMA CppGroupNoted ==
    ASSUME CppInv, CppGroupFound
    PROVE  Visiting /\ \E x \in DOMAIN rows' : GroupNoted(x)
<1>1. /\ Visiting /\ pc = "probe" /\ pc' = "idle" /\ CppProbe(Matches) /\ StagesInv /\ TableInv
  BY DEF CppGroupFound, CppProbe, FoundIn, InsertUnless, CppInv
<1>2. TypeOK /\ RowsInv /\ row = batch[InputRow] /\ rows \in Seq(Keys) /\ row \in Keys
  BY <1>1, HandlerFacts, VisitFacts DEF StagesInv, MapPart
<1>3. TypeOK' /\ RowsInv' /\ TableInv'
  BY <1>1, <1>2, LookupTypes, LookupTable
<1> DEFINE x == result'.value
<1>4. /\ x \in DOMAIN rows' /\ RowsGrow
      /\ rows' = rows \/ (rows' = Append(rows, row) /\ x = Len(rows) + 1)
  <2>1. /\ x \in DOMAIN rows' /\ Len(rows) <= Len(rows')
        /\ \A i \in DOMAIN rows : i \in DOMAIN rows' /\ rows'[i] = rows[i]
        /\ rows' = rows \/ (rows' = Append(rows, row) /\ x = Len(rows) + 1)
    BY <1>1, <1>2, MatchesHash, LookupFacts
  <2> QED
    BY <2>1 DEF RowsGrow
<1>5. CASE FoundIn(Matches) /\ agg' = [agg EXCEPT ![x] = AddAgg(@, AggValue(InputRow))]
  <2>1. FoundIn(ColumnMatches) /\ rows' = rows
    BY <1>1, <1>5, MatchesHash DEF FoundIn
  <2>2. rows[x] = row
    BY <1>2, <2>1, FoundKey
  <2>3. AddedTo(x, AggValue(InputRow)) /\ rows'[x] = batch[InputRow]
    BY <1>2, <1>5, <2>1, <2>2 DEF AddedTo
  <2> QED
    BY <1>1, <1>3, <1>4, <2>1, <2>3 DEF GroupNoted, CppGroupFound, GroupSet, arrays, retryVars
<1>6. CASE InsertUnless(Matches) /\ agg' = Append(agg, AggValue(InputRow))
  <2>1. rows' = Append(rows, row)
    BY <1>6 DEF InsertUnless
  <2>2. x = Len(rows) + 1
    BY <1>6 DEF InsertUnless
  <2>3. rows'[x] = batch[InputRow]
    BY <1>2, <2>1, <2>2
  <2> QED
    BY <1>1, <1>2, <1>3, <1>4, <1>6, <2>1, <2>3
       DEF GroupNoted, CppGroupFound, GroupSet, arrays, retryVars
<1> QED
  BY <1>1, <1>5, <1>6 DEF CppGroupFound

(* Of the list, what is after the row visited is left. *)
LEMMA VisitNext ==
    ASSUME StagesInv, Visiting, ui' = ui + 1, UNCHANGED <<step, working_indices>>
    PROVE  /\ ToAdd = {InputRow} \cup ToAdd' /\ InputRow \notin ToAdd'
           /\ \A i \in ui' .. Len(working_indices) :
                 i \in ui .. Len(working_indices) /\ working_indices[i] # InputRow
<1> DEFINE q == working_indices
           n == Len(q)
           r == InputRow
<1>1. /\ step = "groups" /\ ui \in 1 .. n /\ ui \in Nat /\ n \in Nat
      /\ OnceIn(q, Served) /\ DOMAIN q = 1 .. n /\ r = q[ui]
  <2>1. OnceIn(q, Served) /\ ui \in DOMAIN q /\ step = "groups" /\ ui \in Nat
    BY VisitFacts
  <2>2. DOMAIN q = 1 .. n /\ n \in Nat
    BY <2>1, OnceInLists
  <2> QED
    BY <2>1, <2>2 DEF InputRow
<1>2. ToAdd = {q[i] : i \in ui .. n} /\ ToAdd' = {q[i] : i \in ui + 1 .. n}
  BY <1>1 DEF ToAdd
<1>3. ui .. n = {ui} \cup (ui + 1 .. n) /\ ui + 1 .. n \subseteq 1 .. n /\ ui \notin ui + 1 .. n
  BY <1>1
<1>4. \A i \in 1 .. n : q[i] = r => i = ui
  BY <1>1 DEF OnceIn
<1> HIDE DEF q, n, r
<1>5. \A i \in ui + 1 .. n : i \in ui .. n /\ q[i] # r
  BY <1>3, <1>4
<1>6. r \notin ToAdd' /\ ToAdd = {r} \cup ToAdd'
  BY <1>1, <1>2, <1>3, <1>5
<1> QED
  BY <1>5, <1>6 DEF q, n, r

LEMMA CppGroupKept ==
    ASSUME CppInv, Visiting, NEW x, GroupNoted(x)
    PROVE  CppInv'
<1> DEFINE r == InputRow
<1>1. /\ x \in DOMAIN rows' /\ rows'[x] = batch[r] /\ RowsGrow
      /\ served' = [served EXCEPT ![r] = x] /\ ui' = ui + 1
      /\ pc' = "idle" /\ TypeOK' /\ RowsInv' /\ TableInv'
      /\ UNCHANGED <<batch, phase, resume, idx, cur_count, emplace_hash_vals, emplace_positions,
                     emplace_collisions, batch_collisions, batch_round, retry_idx, retry_count,
                     dropped, calls, step, update_indices, working_indices, idx_from, col,
                     input_total>>
  BY DEF GroupNoted
<1>2. /\ StagesInv /\ step = "groups" /\ phase = "none" /\ ui \in Nat
      /\ ui + 1 \in 1 .. Len(working_indices) + 1 /\ update_indices = <<>>
      /\ OnceIn(working_indices, Served) /\ r \in Served /\ r \in DOMAIN batch
      /\ AggValue(r) \in 0 .. AGG_WRAP - 1 /\ AggValue(r) \in Nat /\ batch[r] \in Keys
  BY VisitFacts DEF CppInv
<1>3. /\ BatchTypeOK /\ served \in [DOMAIN batch -> 0 .. Len(rows)] /\ rows \in Seq(Keys)
      /\ Len(rows) \in Nat /\ Served \subseteq DOMAIN batch
      /\ \A i \in Served : served[i] \in DOMAIN rows
  BY <1>2, HandlerFacts
<1>4. /\ Len(rows') \in Nat /\ Len(rows) <= Len(rows') /\ DOMAIN rows' = 1 .. Len(rows')
      /\ x \in 1 .. Len(rows') /\ x # 0
  <2>1. rows' \in Seq(Keys)
    BY <1>1 DEF TypeOK
  <2>2. Len(rows') \in Nat /\ DOMAIN rows' = 1 .. Len(rows')
    BY <2>1
  <2> QED
    BY <1>1, <2>2 DEF RowsGrow
<1> HIDE DEF r
<1>5. /\ served'[r] = x /\ \A i \in DOMAIN batch \ {r} : served'[i] = served[i]
      /\ served' \in [DOMAIN batch -> 0 .. Len(rows')]
  <2>1. 0 .. Len(rows) \subseteq 0 .. Len(rows') /\ x \in 0 .. Len(rows')
    BY <1>3, <1>4
  <2> DEFINE m == 0 .. Len(rows')
             l == 0 .. Len(rows)
  <2>2. l \subseteq m /\ x \in m /\ served \in [DOMAIN batch -> l]
    BY <1>3, <2>1
  <2> HIDE DEF m, l
  <2>3. served \in [DOMAIN batch -> m]
    BY <2>2
  <2>4. served'[r] = x /\ \A i \in DOMAIN batch \ {r} : served'[i] = served[i]
    BY <1>1, <1>2, <2>3
  <2>5. served' \in [DOMAIN batch -> m]
    BY <1>1, <2>2, <2>3
  <2> QED
    BY <2>4, <2>5 DEF m
<1>6. Served' = Served /\ NumRows' = NumRows
  BY <1>1, <1>2, <1>4, <1>5 DEF Served, NumRows
<1>7. BatchTypeOK'
  BY <1>1, <1>2, <1>3, <1>5, <1>6 DEF BatchTypeOK
<1>8. Ranges' /\ Named' /\ Injective' /\ Parts'
  BY <1>1, <1>2, <1>6 DEF StagesInv, MapPart, Ranges, Named, Injective, InArrays, Parts
<1>9. ServedRight'
  <2> SUFFICES ASSUME NEW i \in Served
               PROVE  served'[i] \in DOMAIN rows' /\ HashOf[rows'[served'[i]]] = HashOf[batch[i]]
    BY <1>1, <1>6 DEF ServedRight, H
  <2>1. CASE i = r
    BY <1>1, <1>5, <2>1
  <2>2. CASE i # r
    <3>1. served'[i] = served[i] /\ served[i] \in DOMAIN rows
      BY <1>3, <1>5, <2>2
    <3>2. HashOf[rows[served[i]]] = HashOf[batch[i]]
      BY <1>2 DEF StagesInv, MapPart, ServedRight, H
    <3> QED
      BY <1>1, <3>1, <3>2 DEF RowsGrow
  <2> QED
    BY <2>1, <2>2
<1>10. MapPart'
  BY <1>1, <1>2, <1>7, <1>8, <1>9 DEF MapPart
<1>11. Cursors' /\ Lists' /\ Sorting'
  BY <1>1, <1>2, <1>6 DEF StagesInv, Cursors, Fits, Lists, Sorting
<1>12. Aggregates'
  <2>1. CASE rows' = rows /\ AddedTo(x, AggValue(r))
    BY <1>1, <1>2, <2>1, AddedFacts
  <2>2. CASE rows' = Append(rows, batch[r]) /\ agg' = Append(agg, AggValue(r))
    <3> DEFINE v == AggValue(r)
               key == batch[r]
    <3>1. /\ agg \in Seq(0 .. AGG_WRAP - 1) /\ Len(agg) = Len(rows) /\ input_total \in [Keys -> Nat]
          /\ agg' = Append(agg, v) /\ rows' = Append(rows, key) /\ key \in Keys
          /\ v \in 0 .. AGG_WRAP - 1
      BY <1>2, <2>2 DEF StagesInv, Aggregates
    <3> HIDE DEF v, key
    <3>2. agg' \in Seq(0 .. AGG_WRAP - 1)
      BY <3>1
    <3>3. Len(agg') = Len(agg) + 1 /\ Len(rows') = Len(rows) + 1
      BY <1>3, <3>1
    <3> QED
      BY <1>1, <3>1, <3>2, <3>3 DEF Aggregates
  <2> QED
    BY <2>1, <2>2 DEF GroupNoted, r
<1>13. /\ ToAdd = {r} \cup ToAdd' /\ r \notin ToAdd'
       /\ \A i \in ui' .. Len(working_indices) :
             i \in ui .. Len(working_indices) /\ working_indices[i] # r
  BY <1>1, <1>2, VisitNext DEF r
<1>14. ASSUME NEW i \in Served, i # r
       PROVE  rows'[served'[i]] = rows[served[i]] /\ batch'[i] = batch[i]
  BY <1>1, <1>3, <1>5, <1>14 DEF RowsGrow
<1>15. GroupsTold'
  <2> SUFFICES ASSUME NEW i \in Served, i \notin ToAdd' PROVE rows'[served'[i]] = batch'[i]
    BY <1>6 DEF GroupsTold
  <2>1. CASE i = r
    BY <1>1, <1>5, <2>1 DEF r
  <2>2. CASE i # r
    BY <1>13, <1>14, <2>2 DEF CppInv, GroupsTold
  <2> QED
    BY <2>1, <2>2
<1>16. CppSorted'
  <2> SUFFICES ASSUME NEW i \in ui' .. Len(working_indices)
               PROVE  i <= idx_from <=>
                         rows'[served'[working_indices[i]]] # batch'[working_indices[i]]
    BY <1>1 DEF CppSorted
  <2>1. i \in ui .. Len(working_indices) /\ working_indices[i] # r
    BY <1>13
  <2>2. working_indices[i] \in Served
    <3>1. ui .. Len(working_indices) \subseteq DOMAIN working_indices
      <4>1. ui \in Nat \ {0} /\ DOMAIN working_indices = 1 .. Len(working_indices)
        BY <1>2, OnceInLists DEF StagesInv, Cursors
      <4> QED
        BY <4>1
    <3> QED
      BY <1>2, <2>1, <3>1 DEF OnceIn
  <2> QED
    BY <1>2, <1>14, <2>1, <2>2 DEF CppInv, CppSorted
<1> QED
  BY <1>1, <1>10, <1>11, <1>12, <1>15, <1>16 DEF CppInv, StagesInv

(* The rows that are equal to their candidate, and the return. *)
LEMMA CppCandidateRight ==
    ASSUME CppInv, Visiting, ui > idx_from
    PROVE  rows[served[InputRow]] = batch[InputRow]
<1>1. ui \in ui .. Len(working_indices) /\ step = "groups" /\ ~(ui <= idx_from)
  <2>1. /\ ui \in Nat /\ idx_from \in 0 .. Len(working_indices) /\ Len(working_indices) \in Nat
        /\ step = "groups" /\ ui <= Len(working_indices)
    BY VisitFacts, OnceInLists DEF CppInv, StagesInv, Cursors, Visiting
  <2> QED
    BY <2>1
<1> QED
  BY <1>1 DEF CppInv, CppSorted, InputRow

LEMMA CppAccumulateKept ==
    ASSUME CppInv, Accumulate
    PROVE  CppInv'
<1>1. /\ Visiting /\ ui > idx_from /\ UNCHANGED allVars /\ UNCHANGED batchVars
      /\ AddedTo(served[InputRow], AggValue(InputRow))
      /\ UNCHANGED <<step, update_indices, working_indices, idx_from, col, input_total>>
      /\ ui' = ui + 1 /\ rows' = rows /\ pc' = "idle" /\ StagesInv
  BY AccumulateFacts DEF CppInv
<1>2. Aggregates'
  BY <1>1, VisitFacts, AddedFacts
<1>3. TypeOK' /\ RowsInv' /\ UNCHANGED vars
  BY <1>1, HandlerFacts, SameVars, QuietFacts
<1>4. VisitKept
  BY <1>1, <1>3, RowsStay DEF VisitKept
<1>5. StagesInv'
  BY <1>1, <1>2, <1>4, VisitStages
<1>6. /\ ToAdd = {InputRow} \cup ToAdd'
      /\ \A i \in ui' .. Len(working_indices) : i \in ui .. Len(working_indices)
  BY <1>1, VisitNext
<1>7. UNCHANGED <<batch, served, rows>> /\ Served' = Served /\ step = "groups"
  BY <1>1, QuietFacts DEF Visiting
<1>8. CppSorted'
  BY <1>1, <1>6, <1>7 DEF CppInv, CppSorted
<1>9. GroupsTold'
  BY <1>1, <1>6, <1>7, CppCandidateRight DEF CppInv, GroupsTold
<1>10. TableInv'
  BY <1>3, TableSame DEF CppInv, vars, tableVars, rehashVars, emplaceVars, Pending, TableInv
<1> QED
  BY <1>5, <1>8, <1>9, <1>10 DEF CppInv

LEMMA CppReturnsKept ==
    ASSUME CppInv, CallReturns
    PROVE  CppInv'
<1>1. StagesInv' /\ step' = "ready" /\ step = "groups" /\ UNCHANGED allVars /\ StagesInv
      /\ ui > Len(working_indices)
  BY CallReturnsStages DEF CppInv, CallReturns
<1>2. UNCHANGED <<batch, served, rows, num_chunks, chunks, size, entries>> /\ UNCHANGED vars
      /\ Served' = Served
  BY <1>1, QuietFacts
<1>3. TableInv'
  BY <1>2, TableSame DEF CppInv, vars, tableVars, rehashVars, emplaceVars, Pending, TableInv
<1>4. ToAdd = {}
  <2>1. ui \in Nat /\ Len(working_indices) \in Nat
    BY <1>1, OnceInLists DEF StagesInv, Cursors, Lists
  <2> QED
    BY <1>1, <2>1 DEF ToAdd
<1> QED
  BY <1>1, <1>2, <1>3, <1>4 DEF CppInv, CppSorted, GroupsTold

LEMMA CppSame ==
    ASSUME CppInv, UNCHANGED pipelineVars
    PROVE  CppInv'
<1>1. /\ UNCHANGED <<step, working_indices, update_indices, idx_from, ui, served, rows, batch>>
      /\ UNCHANGED vars /\ Served' = Served /\ ToAdd' = ToAdd
  BY QuietFacts DEF pipelineVars, handlerVars, Served, ToAdd
<1>2. StagesInv' /\ CppSorted' /\ GroupsTold'
  BY <1>1, SameStages DEF CppInv, CppSorted, GroupsTold
<1>3. TableInv'
  BY <1>1, TableSame DEF CppInv, vars, tableVars, rehashVars, emplaceVars, Pending, TableInv
<1> QED
  BY <1>2, <1>3 DEF CppInv

LEMMA InitCppInv == HandlerInit => CppInv
<1> SUFFICES ASSUME HandlerInit PROVE CppInv
  OBVIOUS
<1>1. HInv /\ step = "ready" /\ Init /\ batch = <<>>
  BY InitHInv DEF HandlerInit, BatchInit
<1>2. rows = <<>> /\ size = 0 /\ Pending = {} /\ pc = "idle" /\ todo = {} /\ collided = {}
      /\ Occupied(chunks) = {}
  <2>1. PICK q \in Requests : ExpandInit(WithCapacity(q))
    BY <1>1 DEF Init
  <2>2. chunks = AllocChunks(num_chunks) /\ size = 0 /\ todo = {} /\ collided = {}
    BY <2>1 DEF ExpandInit
  <2> QED
    BY <1>1, <2>2, HandlerFacts, AllocFacts DEF Init, Pending
<1>3. TableInv
  <2>1. IInv /\ DOMAIN rows = {} /\ Len(rows) = 0
    BY <1>2, EmptyIInv
  <2> QED
    BY <1>2, <2>1, FS_EmptySet DEF IInv, TableInv, Counted, SizeExact
<1>4. Served = {}
  BY <1>1 DEF Served
<1> QED
  BY <1>1, <1>3, <1>4 DEF CppInv, CppSorted, GroupsTold

(* The callers. *)
CppWInv ==
    /\ CppInv
    /\ driver # "any" => data \in Seq(DriverKeys) /\ batch_idx \in Nat

CppPipelineNext ==
    \/ \E B : Fits(B) /\ CppEmplaceTableWithDecode(B)
    \/ CppHandlerStep
    \/ UNCHANGED pipelineVars

LEMMA CppWorkIsPipeline ==
    ASSUME CppWInv, [CppWorkNext]_workVars
    PROVE  CppPipelineNext
<1>1. ASSUME NEW B \in Batches, CppAnyCall(B) PROVE CppPipelineNext
  BY <1>1, BatchFits DEF CppAnyCall, CppPipelineNext
<1>2. CASE CppRunWorkload
  <2>1. /\ driver # "any" /\ batch_idx < NumBatches(Len(data))
        /\ CppEmplaceTableWithDecode(BatchOf(data, batch_idx))
    BY <1>2 DEF CppRunWorkload
  <2>2. data \in Seq(DriverKeys) /\ batch_idx \in Nat
    BY <2>1 DEF CppWInv
  <2> QED
    BY <2>1, <2>2, SliceFits DEF CppPipelineNext
<1>3. CASE CppPipelineStep
  BY <1>3 DEF CppPipelineStep, CppPipelineNext
<1>4. CASE UNCHANGED workVars
  BY <1>4 DEF workVars, CppPipelineNext
<1> QED
  BY <1>1, <1>2, <1>3, <1>4 DEF CppWorkNext

LEMMA CppHandlerKept ==
    ASSUME CppInv, CppHandlerStep
    PROVE  CppInv'
<1>1. CppGroupFound => CppInv'
  BY CppGroupNoted, CppGroupKept
<1> QED
  BY <1>1, CppQuiet, CppCallback, CppReemplaceCallKept, CppReemplaceProbeKept, CppAccumulateKept,
     CppReturnsKept DEF CppHandlerStep, GetUnequalsNumWithDecode

LEMMA NextCppWInv == CppWInv /\ [CppWorkNext]_workVars => CppWInv'
<1> SUFFICES ASSUME CppWInv, [CppWorkNext]_workVars PROVE CppWInv'
  OBVIOUS
<1>1. CppInv'
  BY CppWorkIsPipeline, CppTableCallKept, CppHandlerKept, CppSame DEF CppWInv, CppPipelineNext
<1>2. UNCHANGED <<driver, data>> /\ (batch_idx' = batch_idx \/ batch_idx' = batch_idx + 1)
  BY DEF CppWorkNext, CppAnyCall, CppRunWorkload, CppPipelineStep, driverVars, workVars
<1> QED
  BY <1>1, <1>2 DEF CppWInv

LEMMA CppWInvCorrect == CppWorkSpec => []CppWInv
<1>1. WorkInit => CppWInv
  BY InitWInv, InitCppInv DEF WInv, CppWInv, WorkInit
<1>2. CppWInv /\ [CppWorkNext]_workVars => CppWInv'
  BY NextCppWInv
<1> QED
  BY <1>1, <1>2, PTL DEF CppWorkSpec

(***************************************************************************)
(* The lists, the cursors and the aggregates of the C++ handler are those   *)
(* of rows of the current call and of rows that are stored, whoever calls   *)
(* and however the lookups of the second stage compare the keys.            *)
(***************************************************************************)
THEOREM CppHandlerTypeCorrect == CppWorkSpec => []HandlerTypeOK
<1>1. CppWInv => HandlerTypeOK
  BY StagesTyped DEF CppWInv, CppInv
<1> QED
  BY <1>1, CppWInvCorrect, PTL

(***************************************************************************)
(* No probe of the C++ table is without an empty slot before it that it     *)
(* does not grow for, in the batch insertion and in the second stage, and   *)
(* a rehash has twice the room it needs: whatever was dropped, and whatever *)
(* the comparison of the columns takes for equal.                           *)
(***************************************************************************)
THEOREM CppRoomAhead == CppWorkSpec => []CppRoomToProbe
<1>1. CppWInv => CppRoomToProbe
  <2> SUFFICES ASSUME CppWInv PROVE CppRoomToProbe
    OBVIOUS
  <2>1. TypeOK /\ TableInv
    BY HandlerFacts DEF CppWInv, CppInv
  <2> QED
    BY <2>1, TableTypes, RoomBelowThreshold DEF CppRoomToProbe, TableInv, Counted
<1> QED
  BY <1>1, CppWInvCorrect, PTL

(* The totals, with the group of a visited row found or made. *)
LEMMA CppVisitConserved ==
    ASSUME CppInv, StagesInv', Conserved,
           CppReemplaceCall \/ CppReemplaceProbe \/ CppGroupFound \/ Accumulate
    PROVE  Conserved'
<1>1. TotalsRight /\ TotalsRight' /\ StagesInv
  BY TotalFacts, PTL DEF CppInv
<1>2. CASE CppReemplaceCall \/ CppReemplaceProbe
  <2>1. UNCHANGED batchVars /\ UNCHANGED handlerVars /\ rows' = rows
    BY <1>2, CppReemplaceProbeKept DEF CppReemplaceCall, CppReemplaceProbe, CppEmplace
  <2>2. UNCHANGED <<batch, served, calls, step, agg, input_total, working_indices, ui, update_indices>>
    BY <2>1 DEF batchVars, handlerVars
  <2>3. Values' = Values /\ ToAdd' = ToAdd
    BY <2>2 DEF Values, ToAdd
  <2> QED
    BY <1>1, <2>1, <2>2, <2>3, OpenKept
<1>3. CASE CppGroupFound
  <2> DEFINE r == InputRow
  <2>1. PICK x \in DOMAIN rows' : GroupNoted(x)
    BY <1>3, CppGroupNoted
  <2>2. /\ Visiting /\ ui' = ui + 1 /\ rows'[x] = batch[r]
        /\ UNCHANGED <<batch, calls, step, working_indices, input_total>>
        /\ \/ rows' = rows /\ AddedTo(x, AggValue(r))
           \/ rows' = Append(rows, batch[r]) /\ agg' = Append(agg, AggValue(r))
    BY <1>3, <2>1, CppGroupNoted DEF GroupNoted
  <2>3. /\ Closed(r) /\ Values[r] = AggValue(r) /\ AggValue(r) \in 0 .. AGG_WRAP - 1
        /\ AggValue(r) \in Nat
    BY <1>1, <2>2, VisitCloses, VisitFacts
  <2>4. Len(agg) = Len(rows) /\ agg \in Seq(0 .. AGG_WRAP - 1)
    BY <1>1 DEF StagesInv, Aggregates
  <2> HIDE DEF r
  <2>5. CASE rows' = rows /\ AddedTo(x, AggValue(r))
    <3>1. x \in DOMAIN rows /\ rows[x] = batch[r]
      BY <2>1, <2>2, <2>5
    <3>2. /\ agg[x] < AGG_WRAP /\ agg'[x] = (agg[x] + Values[r]) % AGG_WRAP
          /\ \A i \in DOMAIN rows : i # x => agg'[i] = agg[i]
      BY <1>1, <2>2, <2>3, <2>5, <3>1, AddedFacts
    <3> QED
      BY <1>1, <2>3, <2>5, <3>1, <3>2, AddedKept
  <2>6. CASE rows' = Append(rows, batch[r]) /\ agg' = Append(agg, AggValue(r))
    BY <1>1, <2>3, <2>4, <2>6, MadeKept
  <2> QED
    BY <2>2, <2>5, <2>6
<1>4. CASE Accumulate
  <2> DEFINE r == InputRow
             x == served[r]
  <2>1. /\ Visiting /\ ui > idx_from /\ UNCHANGED batchVars /\ AddedTo(x, AggValue(r))
        /\ UNCHANGED <<step, working_indices, input_total>> /\ ui' = ui + 1 /\ rows' = rows
    BY <1>1, <1>4, AccumulateFacts
  <2>2. x \in DOMAIN rows /\ AggValue(r) \in Nat
    BY <1>1, <2>1, VisitFacts
  <2>3. rows[x] = batch[r]
    BY <2>1, CppCandidateRight
  <2>4. Closed(r) /\ Values[r] = AggValue(r)
    BY <1>1, <2>1, VisitCloses DEF batchVars
  <2> HIDE DEF x, r
  <2>5. /\ agg[x] < AGG_WRAP /\ agg'[x] = (agg[x] + Values[r]) % AGG_WRAP
        /\ \A i \in DOMAIN rows : i # x => agg'[i] = agg[i]
    BY <1>1, <2>1, <2>2, <2>4, AddedFacts
  <2> QED
    BY <1>1, <2>1, <2>2, <2>3, <2>4, <2>5, AddedKept
<1> QED
  BY <1>2, <1>3, <1>4

(***************************************************************************)
(* In C++ as in Rust every value passed in is in a group of its own key,    *)
(* once, or its row is on its way, unless a retry forgets a row: also where *)
(* lookups that compare the columns make a second group for a key, and      *)
(* although the second stage writes over the candidates it was given.       *)
(***************************************************************************)
THEOREM CppValuesKept == CppWorkSpec /\ [](dropped = {}) => []ValuesConserved
<1>1. WorkInit => ValuesConserved
  BY InitConserved
<1>2. CppWInv /\ CppWInv' /\ dropped = {} /\ ValuesConserved /\ [CppWorkNext]_workVars
        => ValuesConserved'
  <2> SUFFICES ASSUME CppWInv, CppWInv', NothingDropped, ValuesConserved, [CppWorkNext]_workVars
               PROVE  ValuesConserved'
    BY DEF NothingDropped
  <2>1. CppInv /\ StagesInv /\ StagesInv' /\ TotalsRight /\ TotalsRight'
    <3>1. CppInv /\ StagesInv /\ StagesInv'
      BY DEF CppWInv, CppInv
    <3> QED
      BY <3>1, TotalFacts, PTL
  <2>2. Conserved
    BY <2>1, ConservedIs
  <2>3. CppPipelineNext
    BY CppWorkIsPipeline
  <2>4. Conserved'
    <3>1. CASE CppHandlerStep
      BY <2>1, <2>2, <3>1, CppCallback, CallbackConserved, QuietConserved, CppVisitConserved,
         ReturnsConserved DEF CppHandlerStep, GetUnequalsNumWithDecode
    <3>2. ASSUME NEW B, Fits(B), CppEmplaceTableWithDecode(B) PROVE Conserved'
      <4>1. CallBrings(B)
        BY <3>2 DEF CppEmplaceTableWithDecode, emplaceVars, CallBrings
      <4> QED
        BY <2>1, <2>2, <3>2, <4>1, TableCallConserved
    <3> QED
      BY <2>1, <2>2, <2>3, <3>1, <3>2, ReturnsConserved DEF CppPipelineNext
  <2> QED
    BY <2>1, <2>4, ConservedIs, PTL
<1> QED
  BY <1>1, <1>2, CppWInvCorrect, PTL DEF CppWorkSpec

(* Lookups by the columns find a key's group where each varchar has its slot. *)
LEMMA CppLooksRight ==
    ASSUME ~UseMerged
    PROVE  pc = "probe" /\ Matches = {} => KeyMatches(chunks[pos], row) = {}
<1>1. \A k : CompareKeysWithDecode(k, k)
  BY DEF CompareKeysWithDecode, HasPointer
<1>2. KeyMatches(chunks[pos], row) \subseteq ColumnMatches
  BY <1>1 DEF KeyMatches, ColumnMatches
<1> QED
  BY <1>2 DEF Matches

(* So its second stage does, and every other step does anyway. *)
LEMMA CppPathsKept ==
    ASSUME ~UseMerged \/ ~(CppReemplaceProbe \/ CppGroupFound), CppInv, CppInv', PathsInv, CppPipelineNext
    PROVE  PathsInv'
<1>1. StagesInv /\ TypeOK /\ RowsInv /\ IInv /\ OnPaths /\ BatchTypeOK /\ batch \in Seq(Keys)
  BY HandlerFacts DEF CppInv, PathsInv
<1>2. step' # "batch" => phase' = "none"
  BY DEF CppInv, StagesInv, MapPart
<1>3. step' # "batch" /\ IInv' => PathsInv'
  <2>1. phase' = "none" => OnPaths'
    BY DEF OnPaths, RetryAt
  <2> QED
    BY <1>2, <2>1 DEF PathsInv
<1>4. ASSUME NEW B, CppEmplaceTableWithDecode(B) PROVE PathsInv'
  <2>1. step' # "batch" /\ UNCHANGED vars
    BY <1>4 DEF CppEmplaceTableWithDecode, vars, tableVars, rehashVars, emplaceVars
  <2> QED
    BY <1>1, <1>3, <2>1, SameVars
<1>5. CASE StartBatch
  <2>1. step = "sized" /\ EmplaceBatch(batch)
    BY <1>5 DEF StartBatch
  <2>2. Control /\ Ranges
    BY <1>1, <2>1 DEF StagesInv, MapPart
  <2> QED
    BY <1>1, <2>1, <2>2, CallKept DEF BKept, PathsInv
<1>6. CASE CppBatchCallback
  <2>1. AInv /\ CppBatchStep
    BY <1>1, <1>6, HandlerFacts DEF CppBatchCallback
  <2> QED
    BY <2>1, CppBatchKept DEF BKept
<1>7. CASE NothingToCompare \/ StartCompare \/ CompareColumn \/ CompareDone \/ Accumulate \/ CallReturns
  <2>1. UNCHANGED allVars /\ step' # "batch"
    BY <1>7 DEF NothingToCompare, StartCompare, CompareColumn, CompareDone, Accumulate, CallReturns,
       Visiting
  <2>2. UNCHANGED vars
    BY <2>1, QuietFacts
  <2> QED
    BY <1>1, <1>3, <2>1, <2>2, SameVars
<1>8. CASE CppReemplaceCall
  <2>1. step' # "batch" /\ CppEmplace(batch[InputRow]) /\ Visiting
    BY <1>8 DEF CppReemplaceCall, handlerVars, Visiting
  <2> QED
    BY <1>1, <1>3, <2>1, VisitFacts, CallTyped
<1>9. CASE CppReemplaceProbe \/ CppGroupFound
  <2>1. step' # "batch" /\ CppProbe(Matches)
    BY <1>9 DEF CppReemplaceProbe, CppGroupFound, CppProbe, handlerVars, Visiting
  <2> QED
    BY <1>1, <1>3, <1>9, <2>1, CppLooksRight, LookupIInv
<1>10. CASE UNCHANGED pipelineVars
  <2>1. UNCHANGED allVars /\ UNCHANGED vars /\ step' = step
    BY <1>10, QuietFacts DEF pipelineVars, handlerVars
  <2>2. CASE step = "batch"
    BY <1>1, <2>1, <2>2, HandlerFacts, SameAllVars DEF BKept
  <2>3. CASE step # "batch"
    BY <1>1, <1>3, <2>1, <2>3, SameVars
  <2> QED
    BY <2>2, <2>3
<1> QED
  BY <1>4, <1>5, <1>6, <1>7, <1>8, <1>9, <1>10
     DEF CppPipelineNext, CppHandlerStep, GetUnequalsNumWithDecode

LEMMA GroupsAre == CppWInv /\ PathsInv /\ dropped = {} => GroupsRight
<1> SUFFICES ASSUME CppWInv, PathsInv, dropped = {} PROVE GroupsRight
  OBVIOUS
<1>1. CppInv /\ StagesInv /\ KeysDistinct
  BY DEF CppWInv, CppInv, PathsInv, IInv
<1>2. CASE step = "ready"
  <2>1. Served = DOMAIN batch /\ ToAdd = {}
    BY <1>1, <1>2 DEF StagesInv, MapPart, Parts, ToAdd
  <2> QED
    BY <1>1, <2>1 DEF CppInv, GroupsTold, GroupsRight, KeysDistinct
<1> QED
  BY <1>1, <1>2 DEF GroupsRight, KeysDistinct

(***************************************************************************)
(* Where no more than one column is a varchar, groups_ names, when a C++    *)
(* call returns, every row's own group, whether the batch insertion found   *)
(* it or a lookup after the comparison, and no key has two: from any table, *)
(* and through the expansions on both ways, unless a retry forgets a row.   *)
(***************************************************************************)
THEOREM CppGroupsRight ==
    ASSUME ~UseMerged
    PROVE  CppWorkSpec /\ [](dropped = {}) => []GroupsRight
<1>1. WorkInit => PathsInv
  <2>1. WorkInit => BInv
    BY InitBInv DEF WorkInit, HandlerInit
  <2> QED
    BY <2>1 DEF BInv
<1>2. CppWInv /\ CppWInv' /\ PathsInv /\ [CppWorkNext]_workVars => PathsInv'
  <2>1. CppWInv /\ CppWInv' => CppInv /\ CppInv'
    BY DEF CppWInv
  <2> QED
    BY <2>1, CppWorkIsPipeline, CppPathsKept
<1> QED
  BY <1>1, <1>2, GroupsAre, CppWInvCorrect, PTL DEF CppWorkSpec

-----------------------------------------------------------------------------
(* Sums that wrap around, over the slots of a table and over the keys. *)

LEMMA SumMod ==
    ASSUME NEW f, NEW g, NEW n \in Nat, NumbersTo(f, n), NumbersTo(g, n), NEW w \in Nat \ {0},
           \A k \in 1 .. n : f[k] % w = g[k] % w
    PROVE  SumTo(f, n) % w = SumTo(g, n) % w
<1> DEFINE T == {k \in Nat : k <= n => SumTo(f, k) % w = SumTo(g, k) % w}
<1>1. 0 \in T
  BY SumZero
<1>2. ASSUME NEW k \in T PROVE k + 1 \in T
  <2> SUFFICES ASSUME k + 1 <= n PROVE SumTo(f, k + 1) % w = SumTo(g, k + 1) % w
    OBVIOUS
  <2> DEFINE a == SumTo(f, k)
             b == SumTo(g, k)
             c == f[k + 1]
             d == g[k + 1]
  <2>1. k \in 0 .. n /\ k + 1 \in 1 .. n
    OBVIOUS
  <2>2. a \in Nat /\ b \in Nat /\ c \in Nat /\ d \in Nat
    BY <2>1, SumGrows DEF NumbersTo
  <2>3. a % w = b % w /\ c % w = d % w
    BY <2>1
  <2>4. SumTo(f, k + 1) = a + c /\ SumTo(g, k + 1) = b + d
    BY <2>1, SumStep
  <2> HIDE DEF a, b, c, d
  <2>5. \A y, z \in Nat : ((y % w) + z) % w = (y + z) % w
    BY ModAdd
  <2>6. (a + c) % w = (b + c) % w
    <3>1. (a + c) % w = ((a % w) + c) % w /\ (b + c) % w = ((b % w) + c) % w
      BY <2>2, <2>5
    <3> QED
      BY <2>3, <3>1
  <2>7. (c + b) % w = (d + b) % w
    <3>1. (c + b) % w = ((c % w) + b) % w /\ (d + b) % w = ((d % w) + b) % w
      BY <2>2, <2>5
    <3> QED
      BY <2>3, <3>1
  <2>8. b + c = c + b /\ b + d = d + b
    BY <2>2
  <2> QED
    BY <2>4, <2>6, <2>7, <2>8
<1>3. T = Nat
  BY <1>1, <1>2, NatInd
<1> QED
  BY <1>3

(* v numbers places with the entries 1 .. n they hold, 0 where they hold none. *)
Covers(v, m, n) ==
    /\ \A j \in 1 .. m : v[j] \in 0 .. n
    /\ \A i, j \in 1 .. m : v[i] = v[j] /\ v[i] # 0 => i = j
    /\ \A x \in 1 .. n : \E j \in 1 .. m : v[j] = x

LEMMA SumCovers ==
    ASSUME NEW f, NEW m \in Nat, NEW g, NEW n \in Nat, NumbersTo(g, n), NEW v, Covers(v, m, n),
           \A j \in 1 .. m : f[j] = IF v[j] = 0 THEN 0 ELSE g[v[j]]
    PROVE  SumTo(f, m) = SumTo(g, n)
<1> DEFINE Met(k, x) == \E j \in 1 .. k : v[j] = x
           G(k) == [x \in 1 .. n |-> IF Met(k, x) THEN g[x] ELSE 0]
           T == {k \in Nat : k <= m => SumTo(f, k) = SumTo(G(k), n)}
<1>1. 0 \in T
  <2>1. \A x \in 1 .. n : G(0)[x] = 0
    OBVIOUS
  <2> HIDE DEF G
  <2>2. SumTo(G(0), n) = 0
    BY <2>1, SumNothing
  <2> QED
    BY <2>2, SumZero
<1>2. ASSUME NEW k \in T PROVE k + 1 \in T
  <2> SUFFICES ASSUME k + 1 <= m PROVE SumTo(f, k + 1) = SumTo(G(k + 1), n)
    OBVIOUS
  <2>1. k \in Nat /\ k + 1 \in 1 .. m /\ SumTo(f, k) = SumTo(G(k), n)
    OBVIOUS
  <2>2. NumbersTo(G(k), n)
    BY DEF NumbersTo
  <2>3. SumTo(G(k), n) \in Nat
    BY <2>2, SumNat
  <2>4. SumTo(f, k + 1) = SumTo(f, k) + f[k + 1]
    BY <2>1, SumStep
  <2>5. \A x : Met(k + 1, x) <=> Met(k, x) \/ v[k + 1] = x
    <3>1. 1 .. k + 1 = (1 .. k) \cup {k + 1}
      BY <2>1
    <3> QED
      BY <3>1
  <2>6. CASE v[k + 1] = 0
    <3>1. \A x \in 1 .. n : Met(k + 1, x) <=> Met(k, x)
      BY <2>5, <2>6
    <3>2. \A x \in 1 .. n : G(k)[x] = G(k + 1)[x]
      BY <3>1
    <3> HIDE DEF G
    <3>3. SumTo(G(k), n) = SumTo(G(k + 1), n)
      BY <3>2, SumSame
    <3>4. f[k + 1] = 0
      BY <2>1, <2>6
    <3> QED
      BY <2>1, <2>3, <2>4, <3>3, <3>4
  <2>7. CASE v[k + 1] # 0
    <3> DEFINE x == v[k + 1]
    <3>1. x \in 1 .. n /\ f[k + 1] = g[x] /\ g[x] \in Nat
      BY <2>1, <2>7 DEF Covers, NumbersTo
    <3>2. ~Met(k, x) /\ Met(k + 1, x)
      <4>1. \A j \in 1 .. k : j \in 1 .. m /\ j # k + 1
        BY <2>1
      <4>2. ~Met(k, x)
        BY <2>1, <2>7, <4>1 DEF Covers
      <4> QED
        BY <2>5, <4>2
    <3>3. G(k)[x] = 0 /\ G(k + 1)[x] = g[x]
      BY <3>1, <3>2
    <3>4. \A y \in 1 .. n : y # x => G(k + 1)[y] = G(k)[y]
      BY <2>5
    <3> HIDE DEF G, x
    <3>5. G(k + 1)[x] = G(k)[x] + g[x]
      BY <3>1, <3>3
    <3>6. SumTo(G(k + 1), n) = SumTo(G(k), n) + g[x]
      BY <2>2, <3>1, <3>4, <3>5, SumChange
    <3> QED
      BY <2>1, <2>4, <3>1, <3>6
  <2> QED
    BY <2>6, <2>7
<1>3. T = Nat
  <2> HIDE DEF T
  <2>1. T \subseteq Nat
    BY DEF T
  <2> QED
    BY <1>1, <1>2, <2>1, NatInd
<1>4. SumTo(f, m) = SumTo(G(m), n)
  BY <1>3
<1>5. \A x \in 1 .. n : G(m)[x] = g[x]
  BY DEF Covers
<1> HIDE DEF G
<1>6. SumTo(G(m), n) = SumTo(g, n)
  BY <1>5, SumSame
<1> QED
  BY <1>4, <1>6

(* The terms of class x. *)
OfClass(f, c, m, x) == [j \in 1 .. m |-> IF c[j] = x THEN f[j] ELSE 0]
ClassSums(f, c, m, p) == [x \in 1 .. p |-> SumTo(OfClass(f, c, m, x), m)]

LEMMA SumByClass ==
    ASSUME NEW f, NEW m \in Nat, NumbersTo(f, m), NEW p \in Nat, NEW c,
           \A j \in 1 .. m : c[j] \in 1 .. p
    PROVE  SumTo(f, m) = SumTo(ClassSums(f, c, m, p), p)
<1> DEFINE part(x) == OfClass(f, c, m, x)
           S(k) == [x \in 1 .. p |-> SumTo(part(x), k)]
           T == {k \in Nat : k <= m => SumTo(f, k) = SumTo(S(k), p)}
<1>p. \A x : NumbersTo(part(x), m)
  BY DEF NumbersTo, OfClass
<1>q. \A x : \A j \in 1 .. m : part(x)[j] = IF c[j] = x THEN f[j] ELSE 0
  BY DEF OfClass
<1> HIDE DEF part
<1>1. 0 \in T
  <2>1. \A x \in 1 .. p : S(0)[x] = 0
    BY SumZero
  <2> HIDE DEF S
  <2>2. SumTo(S(0), p) = 0
    BY <2>1, SumNothing
  <2> QED
    BY <2>2, SumZero
<1>2. ASSUME NEW k \in T PROVE k + 1 \in T
  <2> SUFFICES ASSUME k + 1 <= m PROVE SumTo(f, k + 1) = SumTo(S(k + 1), p)
    OBVIOUS
  <2>1. k \in Nat /\ k \in 0 .. m /\ k + 1 \in 1 .. m /\ SumTo(f, k) = SumTo(S(k), p)
    OBVIOUS
  <2>2. \A x : SumTo(part(x), k) \in Nat
    BY <1>p, <2>1, SumGrows
  <2>3. NumbersTo(S(k), p)
    BY <2>2 DEF NumbersTo
  <2>4. \A x \in 1 .. p : S(k + 1)[x] = S(k)[x] + part(x)[k + 1]
    BY <2>1, SumStep
  <2> DEFINE x == c[k + 1]
  <2>5. x \in 1 .. p /\ f[k + 1] \in Nat
    BY <2>1 DEF NumbersTo
  <2>6. S(k + 1)[x] = S(k)[x] + f[k + 1]
    BY <1>q, <2>1, <2>4, <2>5
  <2>7. \A y \in 1 .. p : y # x => S(k + 1)[y] = S(k)[y]
    <3>1. \A y \in 1 .. p : y # x => part(y)[k + 1] = 0 /\ S(k)[y] \in Nat
      BY <1>q, <2>1, <2>2
    <3> HIDE DEF S
    <3> QED
      BY <2>4, <3>1
  <2> HIDE DEF S, x
  <2>8. SumTo(S(k + 1), p) = SumTo(S(k), p) + f[k + 1]
    BY <2>3, <2>5, <2>6, <2>7, SumChange
  <2> QED
    BY <2>1, <2>8, SumStep
<1>3. T = Nat
  <2> HIDE DEF T
  <2>1. T \subseteq Nat
    BY DEF T
  <2> QED
    BY <1>1, <1>2, <2>1, NatInd
<1>4. SumTo(f, m) = SumTo(S(m), p)
  BY <1>3
<1> QED
  BY <1>4 DEF part, ClassSums

(* Slot j of the walk over the table. *)
PlaceOf(j) == <<(j - 1) \div SLOTS_PER_CHUNK, (j - 1) % SLOTS_PER_CHUNK>>
WalkRow(j) ==
    IF At(chunks, PlaceOf(j)).tag # EMPTY_TAG THEN At(chunks, PlaceOf(j)).value ELSE 0

LEMMA WalkFacts ==
    ASSUME NEW n \in Nat \ {0}
    PROVE  /\ \A j \in 1 .. Capacity(n) : PlaceOf(j) \in (0 .. n - 1) \X Slots
           /\ \A i, j \in 1 .. Capacity(n) : PlaceOf(i) = PlaceOf(j) => i = j
           /\ \A l \in (0 .. n - 1) \X Slots : \E j \in 1 .. Capacity(n) : PlaceOf(j) = l
<1> DEFINE w == SLOTS_PER_CHUNK
           q(j) == (j - 1) \div w
           s(j) == (j - 1) % w
<1>1. w \in Nat \ {0} /\ Capacity(n) = n * w /\ Slots = 0 .. w - 1
  BY TableAssumption DEF Capacity, Slots
<1>2. \A j : PlaceOf(j) = <<q(j), s(j)>>
  BY DEF PlaceOf
<1> HIDE DEF w
<1>3. ASSUME NEW j \in 1 .. n * w
      PROVE  j = w * q(j) + s(j) + 1 /\ q(j) \in 0 .. n - 1 /\ s(j) \in 0 .. w - 1
  <2> DEFINE a == j - 1
  <2>0. n * w \in Nat
    BY <1>1
  <2>1. a \in Nat /\ a < n * w /\ j = a + 1
    BY <2>0
  <2> HIDE DEF a
  <2>2. a = w * (a \div w) + (a % w) /\ a \div w \in Nat /\ a % w \in 0 .. w - 1
    BY <1>1, <2>1
  <2>3. a \div w < n
    <3> SUFFICES ASSUME n <= a \div w PROVE FALSE
      BY <2>2
    <3> DEFINE b == a \div w
    <3>1. b \in Nat /\ n <= b /\ w * b <= a
      BY <1>1, <2>2
    <3> HIDE DEF b
    <3>2. n * w <= w * b
      BY <1>1, <3>1, Z3
    <3>3. w * b \in Nat
      BY <1>1, <3>1
    <3> QED
      BY <2>0, <2>1, <3>1, <3>2, <3>3
  <2>4. q(j) = a \div w /\ s(j) = a % w
    BY DEF a
  <2> DEFINE b == a \div w
             c == a % w
  <2>5. a = w * b + c /\ b \in Nat /\ b < n /\ c \in 0 .. w - 1 /\ q(j) = b /\ s(j) = c
    BY <2>2, <2>3, <2>4
  <2> HIDE DEF b, c, q, s
  <2> QED
    BY <2>1, <2>5
<1>4. ASSUME NEW x \in 0 .. n - 1, NEW y \in 0 .. w - 1
      PROVE  \E j \in 1 .. n * w : q(j) = x /\ s(j) = y
  <2> DEFINE a == w * x + y
  <2>1. a \in Nat /\ w * x \in Nat
    BY <1>1
  <2>2. w * x + w <= n * w
    BY <1>1, Z3
  <2>3. n * w \in Nat /\ a + 1 \in 1 .. n * w
    BY <1>1, <2>1, <2>2
  <2>4. a \div w = x /\ a % w = y
    <3> DEFINE b == a \div w
               c == a % w
    <3>1. a = w * b + c /\ b \in Nat /\ c \in 0 .. w - 1
      BY <1>1, <2>1
    <3>2. a = w * x + y
      OBVIOUS
    <3> HIDE DEF a, b, c
    <3>3. b = x
      <4>1. CASE b < x
        <5>1. w * b + w <= w * x /\ w * b \in Nat
          BY <1>1, <3>1, <4>1, Z3
        <5> QED
          BY <1>1, <2>1, <3>1, <3>2, <5>1
      <4>2. CASE x < b
        <5>1. w * x + w <= w * b /\ w * b \in Nat
          BY <1>1, <3>1, <4>2, Z3
        <5> QED
          BY <1>1, <2>1, <3>1, <3>2, <5>1
      <4> QED
        BY <3>1, <4>1, <4>2
    <3>4. c = y
      BY <1>1, <2>1, <3>1, <3>2, <3>3
    <3> QED
      BY <3>3, <3>4 DEF b, c
  <2>5. q(a + 1) = x /\ s(a + 1) = y
    <3>1. (a + 1) - 1 = a
      BY <2>1
    <3> QED
      BY <2>4, <3>1
  <2> QED
    BY <2>3, <2>5
<1> HIDE DEF q, s
<1>5. \A j \in 1 .. Capacity(n) : PlaceOf(j) \in (0 .. n - 1) \X Slots
  BY <1>1, <1>2, <1>3
<1>6. \A i, j \in 1 .. Capacity(n) : PlaceOf(i) = PlaceOf(j) => i = j
  <2> SUFFICES ASSUME NEW i \in 1 .. Capacity(n), NEW j \in 1 .. Capacity(n),
                      PlaceOf(i) = PlaceOf(j)
               PROVE  i = j
    OBVIOUS
  <2>1. q(i) = q(j) /\ s(i) = s(j)
    BY <1>2
  <2>2. i = w * q(i) + s(i) + 1 /\ j = w * q(j) + s(j) + 1
    BY <1>1, <1>3
  <2> QED
    BY <2>1, <2>2
<1>7. \A l \in (0 .. n - 1) \X Slots : \E j \in 1 .. Capacity(n) : PlaceOf(j) = l
  <2> SUFFICES ASSUME NEW x \in 0 .. n - 1, NEW y \in Slots
               PROVE  \E j \in 1 .. Capacity(n) : PlaceOf(j) = <<x, y>>
    OBVIOUS
  <2>1. PICK j \in 1 .. n * w : q(j) = x /\ s(j) = y
    BY <1>1, <1>4
  <2> QED
    BY <1>1, <1>2, <2>1
<1> QED
  BY <1>5, <1>6, <1>7

(* The walk meets every row once. *)
LEMMA WalkTotal ==
    ASSUME StagesInv, TableInv, pc = "idle"
    PROVE  SlotsTotal(num_chunks) = SumTo(agg, Len(rows)) % AGG_WRAP
<1> DEFINE m == Capacity(num_chunks)
           n == Len(rows)
           v == [j \in 1 .. m |-> WalkRow(j)]
           f == [j \in 1 .. m |-> SlotAgg(j)]
<1>1. /\ TypeOK /\ RowsInv /\ num_chunks \in Nat \ {0} /\ m \in Nat /\ n \in Nat
      /\ DOMAIN rows = 1 .. n /\ DOMAIN chunks = 0 .. num_chunks - 1
  BY HandlerFacts, CapacityType DEF TypeOK
<1>2. Pending = {} /\ \A l \in Occupied(chunks) : At(chunks, l).value \in 1 .. n
  BY <1>1 DEF RowsInv, RowsRight, OfRow
<1>3. \A j \in 1 .. m : \/ PlaceOf(j) \in Occupied(chunks) /\ WalkRow(j) = At(chunks, PlaceOf(j)).value
                           /\ WalkRow(j) \in 1 .. n
                        \/ PlaceOf(j) \notin Occupied(chunks) /\ WalkRow(j) = 0
  BY <1>1, <1>2, WalkFacts DEF WalkRow, Occupied, At
<1>4. \A j \in 1 .. m : v[j] = WalkRow(j)
  OBVIOUS
<1> HIDE DEF v
<1>5. \A j \in 1 .. m : v[j] \in 0 .. n /\ (v[j] # 0 => PlaceOf(j) \in Occupied(chunks)
                           /\ v[j] = At(chunks, PlaceOf(j)).value)
  BY <1>1, <1>3, <1>4
<1>6. \A i, j \in 1 .. m : v[i] = v[j] /\ v[i] # 0 => i = j
  <2> SUFFICES ASSUME NEW i \in 1 .. m, NEW j \in 1 .. m, v[i] = v[j], v[i] # 0
               PROVE  i = j
    OBVIOUS
  <2>1. PlaceOf(i) = PlaceOf(j)
    BY <1>5 DEF TableInv, NoneTwice
  <2> QED
    BY <1>1, <2>1, WalkFacts
<1>7. \A x \in 1 .. n : \E j \in 1 .. m : v[j] = x
  <2> SUFFICES ASSUME NEW x \in 1 .. n PROVE \E j \in 1 .. m : v[j] = x
    OBVIOUS
  <2>1. PICK l \in Occupied(chunks) : At(chunks, l).value = x
    BY <1>1, <1>2 DEF TableInv, NoneLost
  <2>2. l \in (0 .. num_chunks - 1) \X Slots
    BY <1>1, <2>1 DEF Occupied
  <2>3. PICK j \in 1 .. m : PlaceOf(j) = l
    BY <1>1, <2>2, WalkFacts
  <2> QED
    BY <1>3, <1>4, <2>1, <2>3
<1>8. Covers(v, m, n)
  BY <1>5, <1>6, <1>7 DEF Covers
<1>9. NumbersTo(agg, n)
  <2>1. Valued(rows, agg)
    BY TotalFacts DEF TotalsRight
  <2> QED
    BY <1>1, <2>1 DEF Valued, NumbersTo
<1>10. \A j \in 1 .. m : f[j] = IF v[j] = 0 THEN 0 ELSE agg[v[j]]
  <2> SUFFICES ASSUME NEW j \in 1 .. m PROVE SlotAgg(j) = IF v[j] = 0 THEN 0 ELSE agg[v[j]]
    OBVIOUS
  <2>1. SlotAgg(j) = IF At(chunks, PlaceOf(j)).tag # EMPTY_TAG
                       THEN agg[At(chunks, PlaceOf(j)).value] ELSE 0
    BY DEF SlotAgg, At, PlaceOf
  <2>2. CASE At(chunks, PlaceOf(j)).tag # EMPTY_TAG
    <3>1. WalkRow(j) = At(chunks, PlaceOf(j)).value /\ PlaceOf(j) \in Occupied(chunks)
      BY <1>1, <2>2, WalkFacts DEF WalkRow, Occupied, At
    <3>2. v[j] # 0
      BY <1>3, <1>4, <3>1
    <3> QED
      BY <1>4, <2>1, <2>2, <3>1, <3>2
  <2>3. CASE At(chunks, PlaceOf(j)).tag = EMPTY_TAG
    BY <1>4, <2>1, <2>3 DEF WalkRow
  <2> QED
    BY <2>2, <2>3
<1>11. SlotsTotal(num_chunks) = SumTo(f, m) % AGG_WRAP
  BY DEF SlotsTotal
<1> HIDE DEF f, m, n
<1>12. SumTo(f, m) = SumTo(agg, n)
  BY <1>1, <1>8, <1>9, <1>10, SumCovers
<1> QED
  BY <1>11, <1>12 DEF n

(* Every key has its place in the order. *)
LEMMA OrderFacts ==
    ASSUME IsFiniteSet(Keys)
    PROVE  /\ Cardinality(Keys) \in Nat
           /\ \A i \in 1 .. Cardinality(Keys) : KeyOrder[i] \in Keys
           /\ \A i, j \in 1 .. Cardinality(Keys) : KeyOrder[i] = KeyOrder[j] => i = j
           /\ \A k \in Keys : \E i \in 1 .. Cardinality(Keys) : KeyOrder[i] = k
<1> DEFINE n == Cardinality(Keys)
           Right(q) == \A i, j \in 1 .. n : q[i] = q[j] => i = j
<1>1. n \in Nat /\ ExistsBijection(1 .. n, Keys)
  BY FS_CardinalityType
<1>2. PICK p : p \in Bijection(1 .. n, Keys)
  BY <1>1 DEF ExistsBijection
<1>3. p \in [1 .. n -> Keys] /\ Right(p)
  BY <1>2 DEF Bijection, Injection, IsInjective
<1>4. KeyOrder = CHOOSE q \in [1 .. n -> Keys] : Right(q)
  BY DEF KeyOrder
<1> HIDE DEF n
<1>5. KeyOrder \in [1 .. n -> Keys] /\ Right(KeyOrder)
  BY <1>3, <1>4
<1>6. KeyOrder \in Injection(1 .. n, Keys)
  BY <1>5 DEF Injection, IsInjective
<1>7. IsFiniteSet(1 .. n) /\ Cardinality(1 .. n) = n
  BY <1>1, FS_Interval
<1>8. KeyOrder \in Surjection(1 .. n, Keys)
  BY <1>6, <1>7, FS_Injection DEF n
<1>9. \A k \in Keys : \E i \in 1 .. n : KeyOrder[i] = k
  BY <1>8 DEF Surjection
<1> QED
  BY <1>1, <1>5, <1>9 DEF n

(* Of the groups, each is its key's. *)
LEMMA GroupsTotal ==
    ASSUME StagesInv, IsFiniteSet(Keys)
    PROVE  SumTo(agg, Len(rows))
             = SumTo([i \in 1 .. Cardinality(Keys) |-> Grouped(KeyOrder[i])], Cardinality(Keys))
<1> DEFINE n == Len(rows)
           p == Cardinality(Keys)
           c == [j \in 1 .. n |-> CHOOSE x \in 1 .. p : KeyOrder[x] = rows[j]]
<1>1. /\ rows \in Seq(Keys) /\ n \in Nat /\ DOMAIN rows = 1 .. n /\ Valued(rows, agg)
  BY HandlerFacts, TotalFacts DEF TotalsRight
<1>2. NumbersTo(agg, n)
  BY <1>1 DEF Valued, NumbersTo
<1>3. /\ p \in Nat
      /\ \A i, j \in 1 .. p : KeyOrder[i] = KeyOrder[j] => i = j
      /\ \A k \in Keys : \E i \in 1 .. p : KeyOrder[i] = k
  BY OrderFacts
<1>4. \A j \in 1 .. n : rows[j] \in Keys
  BY <1>1
<1>5. \A j \in 1 .. n : c[j] \in 1 .. p /\ KeyOrder[c[j]] = rows[j]
  BY <1>3, <1>4
<1> HIDE DEF c, p
<1>6. ASSUME NEW x \in 1 .. p
      PROVE  SumTo(OfClass(agg, c, n, x), n) = Grouped(KeyOrder[x])
  <2>1. \A j \in 1 .. n : c[j] = x <=> rows[j] = KeyOrder[x]
    BY <1>3, <1>5
  <2>2. \A j \in 1 .. n : OfClass(agg, c, n, x)[j] = Terms(rows, agg, DOMAIN rows, KeyOrder[x])[j]
    BY <1>1, <2>1 DEF OfClass, Terms
  <2> QED
    BY <1>1, <2>2, SumSame DEF Grouped, TermsTotal
<1> HIDE DEF n
<1>7. SumTo(agg, n) = SumTo(ClassSums(agg, c, n, p), p)
  <2>1. n \in Nat /\ p \in Nat /\ \A j \in 1 .. n : c[j] \in 1 .. p
    BY <1>1, <1>3, <1>5
  <2> QED
    BY <1>2, <2>1, SumByClass
<1>8. ClassSums(agg, c, n, p) = [i \in 1 .. p |-> Grouped(KeyOrder[i])]
  BY <1>6 DEF ClassSums
<1> QED
  BY <1>7, <1>8 DEF n, p

LEMMA ChecksumIs ==
    ASSUME IsFiniteSet(Keys)
    PROVE  CppWInv /\ ValuesConserved => ChecksumRight
<1> SUFFICES ASSUME CppWInv, ValuesConserved, step = "ready"
             PROVE  AggChecksum = PassedTotal % AGG_WRAP
  BY DEF ChecksumRight
<1> DEFINE p == Cardinality(Keys)
           f == [i \in 1 .. p |-> Grouped(KeyOrder[i])]
           g == [i \in 1 .. p |-> input_total[KeyOrder[i]]]
<1>1. StagesInv /\ TableInv /\ pc = "idle" /\ TotalsRight /\ AGG_WRAP \in Nat \ {0}
  BY HandlerFacts, TotalFacts, HandlerAssumption DEF CppWInv, CppInv
<1>2. Conserved
  BY <1>1, ConservedIs
<1>3. \A k \in Keys : Open(k) = 0
  <2>1. ToAdd = {} /\ batch \in Seq(Keys)
    BY <1>1 DEF ToAdd, TotalsRight
  <2> QED
    BY <2>1, TermsNothing DEF Open
<1>4. \A k \in Keys : /\ Grouped(k) % AGG_WRAP = input_total[k] % AGG_WRAP
                      /\ Grouped(k) \in Nat /\ input_total[k] \in Nat
  BY <1>1, <1>2, <1>3 DEF Conserved, TotalsRight
<1>5. p \in Nat /\ \A i \in 1 .. p : KeyOrder[i] \in Keys
  BY OrderFacts
<1> HIDE DEF p
<1>6. /\ NumbersTo(f, p) /\ NumbersTo(g, p)
      /\ \A i \in 1 .. p : f[i] % AGG_WRAP = g[i] % AGG_WRAP
  BY <1>4, <1>5 DEF NumbersTo
<1>7. AggChecksum = SumTo(f, p) % AGG_WRAP
  BY <1>1, WalkTotal, GroupsTotal DEF AggChecksum, p
<1>8. PassedTotal = SumTo(g, p)
  BY DEF PassedTotal, p
<1> HIDE DEF f, g
<1> QED
  BY <1>1, <1>5, <1>6, <1>7, <1>8, SumMod

(***************************************************************************)
(* The walk over the slots adds up, modulo the word, every value that was   *)
(* passed in: each row is in one slot, through the expansions and where the *)
(* second stage has made groups, and each value in one row, unless a retry  *)
(* forgets a row.                                                           *)
(***************************************************************************)
THEOREM CppChecksumRight ==
    ASSUME IsFiniteSet(Keys)
    PROVE  CppWorkSpec /\ [](dropped = {}) => []ChecksumRight
BY ChecksumIs, CppWInvCorrect, CppValuesKept, PTL

-----------------------------------------------------------------------------
(***************************************************************************)
(* What a C++ driver reports.  Its slices have the groups they need when    *)
(* the batch insertion is through, so its second stage looks nothing up,    *)
(* and how that stage compares keys does not matter.                        *)
(***************************************************************************)
CppDInv == SlicesInv /\ RowsOfData /\ (step = "groups" => idx_from = 0)

CppDriverInv == driver # "any" => CppDInv

(* Where the visits begin, no candidate is another key's group. *)
CppNoneDiffers ==
    (step = "groups" => ui = 1) /\ StagesInv /\ CppSorted /\ SlicesInv /\ RowsOfData
        => idx_from = 0

LEMMA CppNoVisits == CppNoneDiffers
<1> SUFFICES ASSUME step = "groups" => ui = 1, StagesInv, CppSorted, SlicesInv, RowsOfData
             PROVE  idx_from = 0
  BY DEF CppNoneDiffers
<1>1. Len(working_indices) \in Nat
  BY OnceInLists DEF StagesInv, Lists
<1>2. step = "groups" => CandidatesSorted
  <2>1. DOMAIN working_indices = 1 .. Len(working_indices)
    BY OnceInLists DEF StagesInv, Lists
  <2> QED
    BY <1>1, <2>1 DEF CppSorted, CandidatesSorted
<1> QED
  BY <1>2, NoneDiffers

LEMMA CppNoSecondLookup ==
    ASSUME StagesInv, CppDInv
    PROVE  ~(CppReemplaceCall \/ CppReemplaceProbe \/ CppGroupFound)
<1>1. ui \in Nat \ {0}
  <2>1. ui \in 1 .. Len(working_indices) + 1 /\ OnceIn(working_indices, Served)
    BY DEF StagesInv, Cursors, Lists
  <2>2. Len(working_indices) \in Nat
    BY <2>1, OnceInLists
  <2> QED
    BY <2>1, <2>2
<1>2. step = "groups" => pc = "idle" /\ idx_from = 0
  BY DEF CppDInv, SlicesInv
<1> QED
  BY <1>1, <1>2 DEF CppReemplaceCall, CppReemplaceProbe, CppGroupFound, Visiting,
     FoundIn, InsertUnless

(* A step within a slice. *)
LEMMA CppSliceStep ==
    ASSUME SlicesInv, PathsInv', UNCHANGED <<data, batch_idx, batch>>, step # "ready",
           step' # "batch" => pc' = "idle",
           \A v \in DOMAIN rows : v \in DOMAIN rows' /\ rows'[v] = rows[v],
           \A i \in DOMAIN data : i <= SlicesDone' * BATCH_SIZE => HasGroup(data[i])
    PROVE  SlicesInv'
<1>1. batch_idx # 0
  BY DEF SlicesInv
<1>2. \A i \in DOMAIN data : i <= SlicesDone' * BATCH_SIZE => HasGroup(data[i])'
  BY DEF HasGroup
<1> QED
  BY <1>1, <1>2 DEF SlicesInv

LEMMA CppDriverCall ==
    ASSUME CppDInv, PathsInv', pc' = pc, CppRunWorkload
    PROVE  CppDInv'
<1> DEFINE B == BatchOf(data, batch_idx)
<1>1. /\ batch_idx < NumBatches(Len(data)) /\ step = "ready" /\ batch_idx' = batch_idx + 1
      /\ data' = data /\ step' = "sized" /\ batch' = B /\ rows' = rows
  BY DEF CppRunWorkload, CppEmplaceTableWithDecode, emplaceVars
<1>2. /\ data \in Seq(DriverKeys) /\ batch_idx \in 0 .. NumBatches(Len(data))
      /\ NumBatches(Len(data)) \in Nat /\ pc = "idle"
  BY <1>1, NumBatchesFacts DEF CppDInv, SlicesInv
<1> HIDE DEF B
<1>3. batch_idx' - 1 = batch_idx /\ batch_idx' # 0 /\ batch_idx' \in 0 .. NumBatches(Len(data))
  BY <1>1, <1>2
<1>4. SlicesDone' = SlicesDone
  BY <1>1, <1>3 DEF SlicesDone
<1>5. \A i \in DOMAIN data : i <= SlicesDone * BATCH_SIZE => HasGroup(data[i])'
  BY <1>1 DEF CppDInv, SlicesInv, HasGroup
<1>6. SlicesInv'
  BY <1>1, <1>2, <1>3, <1>4, <1>5 DEF SlicesInv, B
<1>7. RowsOfData'
  BY <1>1 DEF CppDInv, RowsOfData, DataKeys
<1> QED
  BY <1>1, <1>6, <1>7 DEF CppDInv

(* A step that leaves the map alone. *)
LEMMA CppDriverQuiet ==
    ASSUME CppDInv, PathsInv', UNCHANGED allVars, UNCHANGED driverVars, step # "ready",
           pc = "idle", step' # "groups" \/ (step = "groups" /\ idx_from' = idx_from),
           \A i \in DOMAIN data : i <= SlicesDone' * BATCH_SIZE => HasGroup(data[i])
    PROVE  CppDInv'
<1>1. UNCHANGED <<rows, pc, batch, data, batch_idx>>
  BY QuietFacts DEF driverVars
<1>2. SlicesInv'
  BY <1>1, CppSliceStep DEF CppDInv
<1>3. RowsOfData'
  BY <1>1 DEF CppDInv, RowsOfData, DataKeys
<1> QED
  BY <1>2, <1>3 DEF CppDInv

LEMMA CppDriverStart ==
    ASSUME CppDInv, PathsInv', StartBatch, UNCHANGED driverVars
    PROVE  CppDInv'
<1>1. /\ step = "sized" /\ step' = "batch" /\ EmplaceBatch(batch)
      /\ UNCHANGED <<data, batch_idx>>
  BY DEF StartBatch, driverVars
<1>2. batch' = batch /\ rows' = rows
  BY <1>1 DEF EmplaceBatch, vars, tableVars, emplaceVars
<1>3. SlicesDone' = SlicesDone
  BY <1>1 DEF SlicesDone
<1>4. \A i \in DOMAIN data : i <= SlicesDone' * BATCH_SIZE => HasGroup(data[i])
  BY <1>3 DEF CppDInv, SlicesInv
<1>5. SlicesInv'
  BY <1>1, <1>2, <1>4, CppSliceStep DEF CppDInv
<1>6. RowsOfData'
  BY <1>1, <1>2 DEF CppDInv, RowsOfData, DataKeys
<1> QED
  BY <1>1, <1>5, <1>6 DEF CppDInv

LEMMA CppDriverCallback ==
    ASSUME StagesInv, CppDInv, PathsInv', CppBatchCallback, UNCHANGED driverVars
    PROVE  CppDInv'
<1>1. /\ step = "batch" /\ step' = "batch" /\ CppBatchStep /\ UNCHANGED <<data, batch_idx>>
  BY DEF CppBatchCallback, driverVars
<1>2. AInv /\ batch_idx # 0 /\ rows \in Seq(Keys) /\ \A r \in DOMAIN batch : batch[r] \in Keys
  BY <1>1, HandlerFacts DEF CppDInv, SlicesInv
<1>3. batch' = batch /\ (rows' = rows \/ \E r \in DOMAIN batch : rows' = Append(rows, batch[r]))
  BY <1>1, <1>2, CppStepGives DEF NoGroupGiven, GroupGiven
<1>4. \A r \in DOMAIN batch : batch[r] \in DataKeys
  BY <1>2, DriverBatch DEF CppDInv
<1>5. /\ \A v \in DOMAIN rows : v \in DOMAIN rows' /\ rows'[v] = rows[v]
      /\ \A v \in DOMAIN rows' : rows'[v] \in DataKeys
  <2>1. \A v \in DOMAIN rows : rows[v] \in DataKeys
    BY DEF CppDInv, RowsOfData
  <2>2. ASSUME NEW k, k \in Keys, k \in DataKeys, rows' = Append(rows, k)
        PROVE  /\ \A v \in DOMAIN rows : v \in DOMAIN rows' /\ rows'[v] = rows[v]
               /\ \A v \in DOMAIN rows' : rows'[v] \in DataKeys
    <3>1. /\ Len(rows) \in Nat /\ DOMAIN rows = 1 .. Len(rows)
          /\ DOMAIN rows' = 1 .. Len(rows) + 1 /\ rows'[Len(rows) + 1] = k
          /\ \A v \in 1 .. Len(rows) : rows'[v] = rows[v]
      BY <1>2, <2>2
    <3>2. \A v \in 1 .. Len(rows) + 1 : v = Len(rows) + 1 \/ v \in 1 .. Len(rows)
      BY <3>1
    <3> QED
      BY <2>1, <2>2, <3>1, <3>2
  <2> QED
    BY <1>2, <1>3, <1>4, <2>1, <2>2
<1>6. SlicesDone' = SlicesDone
  BY <1>1 DEF SlicesDone
<1>7. \A i \in DOMAIN data : i <= SlicesDone' * BATCH_SIZE => HasGroup(data[i])
  BY <1>6 DEF CppDInv, SlicesInv
<1>8. SlicesInv'
  BY <1>1, <1>3, <1>5, <1>7, CppSliceStep DEF CppDInv
<1>9. RowsOfData'
  BY <1>1, <1>5 DEF RowsOfData, DataKeys
<1> QED
  BY <1>1, <1>8, <1>9 DEF CppDInv

LEMMA CppDriverStep ==
    ASSUME CppInv, CppInv', CppDInv, PathsInv', dropped = {}, CppHandlerStep, UNCHANGED driverVars
    PROVE  CppDInv'
<1>1. UNCHANGED batch_idx /\ UNCHANGED data /\ StagesInv /\ StagesInv' /\ CppSorted'
  BY DEF driverVars, CppInv
<1>2. CASE NothingToCompare \/ StartCompare
  <2>1. /\ step = "batch" /\ phase = "none" /\ step' \in {"ready", "compare"} /\ UNCHANGED allVars
    BY <1>2 DEF NothingToCompare, StartCompare
  <2>2. pc = "idle"
    BY <1>1, <2>1, HandlerFacts DEF AInv, Control
  <2>3. SlicesDone' = batch_idx
    BY <1>1, <2>1 DEF SlicesDone
  <2>4. \A i \in DOMAIN data : i <= SlicesDone' * BATCH_SIZE => HasGroup(data[i])
    BY <1>1, <2>1, <2>3, SliceServed DEF CppDInv
  <2> QED
    BY <2>1, <2>2, <2>4, CppDriverQuiet
<1>3. CASE CompareColumn \/ CompareDone \/ Accumulate \/ CallReturns
  <2>1. /\ step \in {"compare", "groups"} /\ step' \in {"compare", "groups", "ready"}
        /\ UNCHANGED allVars
    BY <1>3 DEF CompareColumn, CompareDone, Accumulate, CallReturns, Visiting
  <2>2. SlicesDone' = SlicesDone /\ pc = "idle"
    BY <1>1, <2>1 DEF SlicesDone, CppDInv, SlicesInv
  <2>3. \A i \in DOMAIN data : i <= SlicesDone' * BATCH_SIZE => HasGroup(data[i])
    BY <2>2 DEF CppDInv, SlicesInv
  <2>4. CASE CompareDone
    <3>1. UNCHANGED <<rows, pc, batch, data, batch_idx>>
      BY <1>1, <2>1, QuietFacts
    <3>2. SlicesInv'
      BY <2>1, <2>2, <2>3, <3>1, CppSliceStep DEF CppDInv
    <3>3. RowsOfData'
      BY <3>1 DEF CppDInv, RowsOfData, DataKeys
    <3>4. CppNoneDiffers'
      BY CppNoVisits, PTL
    <3>5. ui' = 1
      BY <2>4 DEF CompareDone
    <3> QED
      BY <1>1, <3>2, <3>3, <3>4, <3>5 DEF CppNoneDiffers, CppDInv
  <2>5. CASE CompareColumn \/ Accumulate \/ CallReturns
    <3>1. step' # "groups" \/ (step = "groups" /\ idx_from' = idx_from)
      BY <2>5 DEF CompareColumn, Accumulate, CallReturns, Visiting
    <3> QED
      BY <2>1, <2>2, <2>3, <3>1, CppDriverQuiet
  <2> QED
    BY <1>3, <2>4, <2>5
<1> QED
  BY <1>1, <1>2, <1>3, CppDriverStart, CppDriverCallback, CppNoSecondLookup
     DEF CppHandlerStep, GetUnequalsNumWithDecode

LEMMA CppDriverSame ==
    ASSUME CppDInv, PathsInv', UNCHANGED workVars
    PROVE  CppDInv'
<1>1. /\ UNCHANGED <<step, idx_from, data, batch_idx>> /\ UNCHANGED <<rows, pc, batch>>
  <2>1. UNCHANGED allVars
    BY DEF workVars, pipelineVars
  <2> QED
    BY <2>1, QuietFacts DEF workVars, pipelineVars, handlerVars, driverVars, stageVars
<1>2. \A i \in DOMAIN data : i <= SlicesDone' * BATCH_SIZE => HasGroup(data[i])'
  BY <1>1 DEF CppDInv, SlicesDone, HasGroup, SlicesInv
<1>3. SlicesInv'
  BY <1>1, <1>2 DEF CppDInv, SlicesInv
<1> QED
  BY <1>1, <1>3 DEF CppDInv, RowsOfData, DataKeys

LEMMA NextCppDriver ==
    ASSUME CppWInv, CppWInv', CppDriverInv, dropped = {}, [CppWorkNext]_workVars
    PROVE  CppDriverInv'
<1>1. driver' = driver /\ CppInv /\ CppInv' /\ StagesInv
  BY DEF CppWorkNext, CppAnyCall, CppRunWorkload, CppPipelineStep, driverVars, workVars,
     CppWInv, CppInv
<1>2. CASE driver = "any"
  BY <1>1, <1>2 DEF CppDriverInv
<1>3. CASE driver # "any"
  <2>1. CppDInv /\ PathsInv
    BY <1>3 DEF CppDriverInv, CppDInv, SlicesInv
  <2>2. PathsInv'
    BY <1>1, <2>1, CppWorkIsPipeline, CppPathsKept, CppNoSecondLookup
  <2>3. CASE CppRunWorkload
    <3>1. pc' = pc
      BY <2>3 DEF CppRunWorkload, CppEmplaceTableWithDecode
    <3> QED
      BY <1>1, <2>1, <2>2, <2>3, <3>1, CppDriverCall DEF CppDriverInv
  <2>4. CASE CppPipelineStep
    BY <1>1, <2>1, <2>2, <2>4, CppDriverStep DEF CppDriverInv, CppPipelineStep
  <2>5. CASE UNCHANGED workVars
    BY <1>1, <2>1, <2>2, <2>5, CppDriverSame DEF CppDriverInv
  <2> QED
    BY <1>3, <2>3, <2>4, <2>5 DEF CppWorkNext, CppAnyCall
<1> QED
  BY <1>2, <1>3

LEMMA InitCppDriver == WorkInit => CppDriverInv
BY InitSlices DEF CppDriverInv, CppDInv

LEMMA CppReportIs == CppWInv /\ CppDriverInv => ResultRight
<1> SUFFICES ASSUME CppWInv, CppDriverInv, driver # "any"
             PROVE  /\ idx_from = 0
                    /\ step = "ready" /\ batch_idx = NumBatches(Len(data)) =>
                         /\ NumGroups = Cardinality({data[i] : i \in DOMAIN data})
                         /\ {rows[i] : i \in DOMAIN rows} = {data[i] : i \in DOMAIN data}
                         /\ size = NumGroups
  BY DEF ResultRight
<1>1. StagesInv /\ TableInv /\ CppDInv /\ SlicesInv /\ RowsOfData
  BY DEF CppWInv, CppInv, CppDriverInv, CppDInv
<1>2. data \in Seq(DriverKeys) /\ Len(data) \in Nat /\ DOMAIN data = 1 .. Len(data)
  <2>1. data \in Seq(DriverKeys)
    BY <1>1 DEF SlicesInv
  <2> QED
    BY <2>1
<1>3. IsFiniteSet(DataKeys)
  <2>1. IsFiniteSet(1 .. Len(data))
    BY <1>2, FS_Interval
  <2> DEFINE f == [i \in 1 .. Len(data) |-> data[i]]
  <2>2. f \in Surjection(1 .. Len(data), DataKeys)
    BY <1>2 DEF Surjection, DataKeys
  <2> HIDE DEF f
  <2> QED
    BY <2>1, <2>2, FS_Surjection
<1>4. ASSUME step = "ready", batch_idx = NumBatches(Len(data))
      PROVE  /\ NumGroups = Cardinality({data[i] : i \in DOMAIN data})
             /\ {rows[i] : i \in DOMAIN rows} = {data[i] : i \in DOMAIN data}
             /\ size = NumGroups
  <2>1. \A i \in DOMAIN data : HasGroup(data[i])
    <3>1. SlicesDone = NumBatches(Len(data))
      BY <1>4 DEF SlicesDone
    <3>2. /\ NumBatches(Len(data)) \in Nat /\ BATCH_SIZE \in Nat
          /\ Len(data) <= NumBatches(Len(data)) * BATCH_SIZE
      BY <1>2, NumBatchesFacts, WorkloadAssumption
    <3>3. \A i \in DOMAIN data : i <= SlicesDone * BATCH_SIZE
      BY <1>2, <3>1, <3>2
    <3> QED
      BY <1>1, <3>3 DEF SlicesInv
  <2>2. {rows[i] : i \in DOMAIN rows} = DataKeys
    BY <1>1, <2>1 DEF HasGroup, DataKeys, RowsOfData
  <2>3. Cardinality({rows[i] : i \in DOMAIN rows}) = Len(rows)
    <3>1. rows \in Seq(Keys) /\ KeysDistinct
      BY <1>1, HandlerFacts DEF SlicesInv, PathsInv, IInv
    <3> QED
      BY <1>1, <1>3, <3>1, FewRows DEF RowsOfData
  <2>4. size = Len(rows)
    <3>1. TypeOK /\ RowsInv /\ pc = "idle"
      BY <1>1, <1>4, HandlerFacts
    <3>2. Pending = {}
      BY <3>1 DEF RowsInv
    <3>3. Cardinality(Pending) = 0
      BY <3>2, FS_EmptySet
    <3> QED
      BY <1>1, <3>1, <3>3, TableTypes
  <2> QED
    BY <2>2, <2>3, <2>4 DEF NumGroups, DataKeys
<1>5. idx_from = 0
  <2>1. step # "groups" => idx_from = 0
    BY <1>1, NoneDiffers
  <2> QED
    BY <1>1, <2>1 DEF CppDInv
<1> QED
  BY <1>4, <1>5

(***************************************************************************)
(* A C++ driver reports as many groups as there are keys in its rows, and   *)
(* finds each of them in the batch insertion: from a table of any size,     *)
(* through its expansions, unless a retry forgets a row.                    *)
(***************************************************************************)
THEOREM CppReportsRight == CppWorkSpec /\ [](dropped = {}) => []ResultRight
<1>1. CppWInv /\ CppWInv' /\ CppDriverInv /\ dropped = {} /\ [CppWorkNext]_workVars
        => CppDriverInv'
  BY NextCppDriver
<1> QED
  BY <1>1, CppReportIs, InitCppDriver, CppWInvCorrect, PTL DEF CppWorkSpec

-----------------------------------------------------------------------------
(***************************************************************************)
(* Where the tables of the drivers have room for their keys, the C++ table  *)
(* is not expanded for a driver, and so no retry forgets a row of one.      *)
(***************************************************************************)
LEMMA CppStepStores ==
    ASSUME AInv, CppBatchStep, ~ShouldExpand(num_chunks, size),
           phase \notin {"expand", "retry"}, pc # "rehash", dropped = {}
    PROVE  Stores
<1>1. CASE CppDirectCall
  BY <1>1 DEF CppDirectCall, CppEmplace, Stores, batchVars, tableVars
<1>2. CASE CppDirectStep
  <2>1. phase = "direct" /\ phase' = phase /\ dropped' = dropped /\ CppProbe(DirectMatches)
    BY <1>2 DEF CppDirectStep
  <2>2. /\ Locate \/ FoundIn(DirectMatches) \/ NextUnless(DirectMatches)
        \/ InsertUnless(DirectMatches)
    BY <2>1 DEF CppProbe, CppSearch, ExpandCapacity, CppExpandAt, CppNextUnless, ExpandStep,
       RehashPlace, RehashCollide, RehashRound, RehashDone
  <2>3. CASE Locate \/ FoundIn(DirectMatches) \/ NextUnless(DirectMatches)
    BY <2>1, <2>3 DEF Stores, Locate, FoundIn, NextUnless, tableVars, rehashVars
  <2>4. CASE InsertUnless(DirectMatches)
    <3>1. pc = "probe" /\ rows' = Append(rows, row) /\ size' = size + 1 /\ num_chunks' = num_chunks
          /\ pc' = "idle"
      BY <2>4 DEF InsertUnless
    <3>2. idx \in DOMAIN batch /\ row = batch[idx]
      <4>1. idx <= NumRows /\ row = batch[idx]
        BY <2>1, <3>1 DEF AInv, Control
      <4> QED
        BY <4>1, BatchTypes DEF AInv
    <3> QED
      BY <2>1, <3>1, <3>2 DEF Stores
  <2> QED
    BY <2>2, <2>3, <2>4
<1>3. CASE BatchStep
  BY <1>3, StepStores
<1> QED
  BY <1>1, <1>2, <1>3 DEF CppBatchStep, BatchStep

LEMMA CppKeptForStep ==
    ASSUME AInv, PathsInv, CppBatchStep, NEW K, KeptFor(K), \A r \in DOMAIN batch : batch[r] \in K
    PROVE  KeptFor(K)' /\ num_chunks' = num_chunks
<1>1. TypeOK /\ KeysDistinct
  BY DEF AInv, BatchTypeOK, PathsInv, IInv
<1>2. Stores
  BY <1>1, NeverLoaded, CppStepStores DEF KeptFor
<1>3. rows \in Seq(Keys) /\ batch \in Seq(Keys)
  BY <1>1 DEF TypeOK, AInv, BatchTypeOK
<1> QED
  BY <1>2, <1>3, KeptForStores

CppKept == driver # "any" => CppDInv /\ \E K : K = DataKeys /\ KeptFor(K)

LEMMA CppKeptStep ==
    ASSUME StagesInv, CppDInv, NEW K, K = DataKeys, KeptFor(K),
           CppRunWorkload \/ (CppHandlerStep /\ UNCHANGED driverVars) \/ UNCHANGED workVars
    PROVE  KeptFor(K)' /\ num_chunks' = num_chunks
<1>1. CASE CppRunWorkload
  <2>1. UNCHANGED <<num_chunks, size, rows, phase, pc>> /\ dropped' = {}
    BY <1>1 DEF CppRunWorkload, CppEmplaceTableWithDecode, tableVars, emplaceVars
  <2> QED
    BY <2>1 DEF KeptFor
<1>2. CASE StartBatch
  <2>1. /\ UNCHANGED <<num_chunks, size, rows, pc>>
        /\ phase' \in {"direct", "first"} /\ dropped' = {}
    BY <1>2 DEF StartBatch, EmplaceBatch, vars, tableVars, emplaceVars
  <2> QED
    BY <2>1 DEF KeptFor
<1>3. CASE CppBatchCallback
  <2>1. step = "batch" /\ CppBatchStep
    BY <1>3 DEF CppBatchCallback
  <2>2. AInv /\ PathsInv /\ batch_idx # 0
    BY <2>1, HandlerFacts DEF CppDInv, SlicesInv
  <2>3. \A r \in DOMAIN batch : batch[r] \in K
    BY <2>2, DriverBatch DEF CppDInv
  <2> QED
    BY <2>1, <2>2, <2>3, CppKeptForStep
<1>4. ASSUME UNCHANGED allVars PROVE KeptFor(K)' /\ num_chunks' = num_chunks
  <2>1. UNCHANGED <<num_chunks, size, rows, phase, pc, dropped>>
    BY <1>4, QuietFacts
  <2> QED
    BY <2>1 DEF KeptFor
<1>5. NothingToCompare \/ StartCompare \/ CompareColumn \/ CompareDone \/ Accumulate
        \/ CallReturns \/ UNCHANGED workVars => UNCHANGED allVars
  BY DEF NothingToCompare, StartCompare, CompareColumn, CompareDone, Accumulate, CallReturns,
     workVars, pipelineVars
<1> QED
  BY <1>1, <1>2, <1>3, <1>4, <1>5, CppNoSecondLookup DEF CppHandlerStep, GetUnequalsNumWithDecode

LEMMA NextCppKept ==
    ASSUME CppWInv, CppWInv', CppKept, [CppWorkNext]_workVars
    PROVE  CppKept' /\ (driver # "any" => num_chunks' = num_chunks)
<1>1. driver' = driver /\ data' = data /\ StagesInv
  BY DEF CppWorkNext, CppAnyCall, CppRunWorkload, CppPipelineStep, driverVars, workVars,
     CppWInv, CppInv
<1>2. CASE driver = "any"
  BY <1>1, <1>2 DEF CppKept
<1>3. CASE driver # "any"
  <2>1. CppDInv /\ CppDriverInv
    BY <1>3 DEF CppKept, CppDriverInv
  <2>2. PICK K : K = DataKeys /\ KeptFor(K)
    BY <1>3 DEF CppKept
  <2>3. CppDInv'
    <3>1. dropped = {}
      BY <2>2 DEF KeptFor
    <3> QED
      BY <1>1, <1>3, <2>1, <3>1, NextCppDriver DEF CppDriverInv
  <2>4. KeptFor(K)' /\ num_chunks' = num_chunks
    BY <1>1, <1>3, <2>1, <2>2, CppKeptStep DEF CppWorkNext, CppAnyCall, CppPipelineStep
  <2>5. K = DataKeys'
    BY <1>1, <2>2 DEF DataKeys
  <2> QED
    BY <1>3, <2>3, <2>4, <2>5 DEF CppKept
<1> QED
  BY <1>2, <1>3

LEMMA CppKeptCorrect ==
    ASSUME DriversHaveRoom
    PROVE  CppWorkSpec => []CppKept
<1>1. WorkInit => CppKept
  BY InitSlices, InitKept DEF CppKept, CppDInv
<1>2. CppWInv /\ CppWInv' /\ CppKept /\ [CppWorkNext]_workVars => CppKept'
  BY NextCppKept
<1> QED
  BY <1>1, <1>2, CppWInvCorrect, PTL DEF CppWorkSpec

(***************************************************************************)
(* A C++ driver whose table has room for its keys passes every row through  *)
(* a table that is never expanded, nothing is forgotten, and it reports the *)
(* groups of its rows.                                                      *)
(***************************************************************************)
THEOREM CppDriversReport ==
    ASSUME DriversHaveRoom
    PROVE  CppWorkSpec => []ResultRight /\ TableKept
<1>1. CppWInv /\ CppKept => ResultRight
  BY CppReportIs DEF CppKept, CppDriverInv
<1>2. CppWInv /\ CppWInv' /\ CppKept /\ [CppWorkNext]_workVars
        => [driver # "any" /\ num_chunks' # num_chunks => size = 0]_workVars
  BY NextCppKept
<1> QED
  BY <1>1, <1>2, CppWInvCorrect, CppKeptCorrect, PTL DEF CppWorkSpec, TableKept

(***************************************************************************)
(* And when it returns, groups_ names every row's own group, whichever way  *)
(* the second stage would compare keys, the groups' totals are those of all *)
(* the values passed in, and so is what the slots of the table add up to.   *)
(***************************************************************************)
THEOREM CppDriversCount ==
    ASSUME DriversHaveRoom, IsFiniteSet(Keys)
    PROVE  CppWorkSpec => [](driver # "any" => ValuesConserved /\ GroupsRight /\ ChecksumRight)
<1>1. CppKept /\ driver # "any" => dropped = {} /\ PathsInv
  BY DEF CppKept, KeptFor, CppDInv, SlicesInv
<1>2. [CppWorkNext]_workVars => (driver # "any" <=> (driver # "any")')
  BY DEF CppWorkNext, CppAnyCall, CppRunWorkload, CppPipelineStep, driverVars, workVars
<1> QED
  BY <1>1, <1>2, CppKeptCorrect, CppWInvCorrect, CppValuesKept, GroupsAre, ChecksumIs, PTL
     DEF CppWorkSpec

=============================================================================
