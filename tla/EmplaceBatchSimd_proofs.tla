------------------------ MODULE EmplaceBatchSimd_proofs ------------------------
(***************************************************************************)
(* Invariance proofs about EmplaceBatchSimd.  What it does with the rows of *)
(* a batch is proved for any batches, repeated keys and shared hashes       *)
(* included; that it makes one group per key only for batches without them. *)
(***************************************************************************)
EXTENDS EmplaceBatchSimd, TaperHashMap_proofs

USE TableAssumption, HashAssumption

-----------------------------------------------------------------------------
(* Queues of rows. *)

Elem(q) == {q[i] : i \in DOMAIN q}
Once(q) == \A i, j \in DOMAIN q : q[i] = q[j] => i = j

LEMMA EmptyQueue == DOMAIN <<>> = {} /\ Elem(<<>>) = {} /\ Once(<<>>)
<1>1. DOMAIN <<>> = {}
  OBVIOUS
<1> QED
  BY <1>1 DEF Elem, Once

LEMMA SameQueue ==
    ASSUME NEW S, NEW p \in Seq(S), NEW q \in Seq(S), Len(p) = Len(q),
           \A i \in 1 .. Len(p) : p[i] = q[i]
    PROVE  p = q
OBVIOUS

LEMMA FunctionIsQueue ==
    ASSUME NEW S, NEW m \in Nat, NEW f \in [1 .. m -> S]
    PROVE  f \in Seq(S) /\ Len(f) = m
OBVIOUS

LEMMA TakeHead ==
    ASSUME NEW S, NEW q \in Seq(S), q # <<>>
    PROVE  /\ Head(q) \in S /\ Tail(q) \in Seq(S) /\ Head(q) \in Elem(q)
           /\ Elem(q) = Elem(Tail(q)) \cup {Head(q)}
           /\ Once(q) => Once(Tail(q)) /\ Head(q) \notin Elem(Tail(q))
<1>1. /\ Head(q) \in S /\ Tail(q) \in Seq(S) /\ Head(q) = q[1]
      /\ Len(q) \in Nat \ {0} /\ DOMAIN q = 1 .. Len(q) /\ DOMAIN Tail(q) = 1 .. Len(q) - 1
      /\ \A i \in 1 .. Len(q) - 1 : Tail(q)[i] = q[i + 1]
  OBVIOUS
<1> DEFINE t == Tail(q)
           n == Len(q)
<1> HIDE DEF t, n
<1>2. /\ q[1] \in Elem(q) /\ n \in Nat \ {0} /\ DOMAIN q = 1 .. n /\ DOMAIN t = 1 .. n - 1
      /\ \A i \in 1 .. n - 1 : t[i] = q[i + 1]
  BY <1>1 DEF Elem, t, n
<1>3. Elem(q) = Elem(t) \cup {q[1]}
  <2>1. ASSUME NEW x \in Elem(q) PROVE x \in Elem(t) \cup {q[1]}
    <3>1. PICK i \in 1 .. n : x = q[i]
      BY <1>2 DEF Elem
    <3>2. CASE i = 1
      BY <3>1, <3>2
    <3>3. CASE i # 1
      <4>1. i - 1 \in DOMAIN t /\ t[i - 1] = q[i]
        BY <1>2, <3>3
      <4> QED
        BY <3>1, <4>1 DEF Elem
    <3> QED
      BY <3>2, <3>3
  <2>2. ASSUME NEW x \in Elem(t) PROVE x \in Elem(q)
    <3>1. PICK i \in 1 .. n - 1 : x = t[i]
      BY <1>2 DEF Elem
    <3>2. i + 1 \in DOMAIN q /\ q[i + 1] = x
      BY <1>2, <3>1
    <3> QED
      BY <3>2 DEF Elem
  <2> QED
    BY <1>2, <2>1, <2>2
<1>4. ASSUME Once(q) PROVE Once(t) /\ q[1] \notin Elem(t)
  <2>1. \A i, j \in 1 .. n : q[i] = q[j] => i = j
    BY <1>2, <1>4 DEF Once
  <2>2. ASSUME NEW i \in 1 .. n - 1, NEW j \in 1 .. n - 1, t[i] = t[j] PROVE i = j
    <3>1. i + 1 \in 1 .. n /\ j + 1 \in 1 .. n /\ q[i + 1] = q[j + 1]
      BY <1>2, <2>2
    <3>2. i + 1 = j + 1
      BY <2>1, <3>1
    <3> QED
      BY <3>2
  <2>3. ASSUME NEW i \in 1 .. n - 1 PROVE t[i] # q[1]
    <3>1. i + 1 \in 1 .. n /\ 1 \in 1 .. n /\ i + 1 # 1 /\ t[i] = q[i + 1]
      BY <1>2
    <3> QED
      BY <2>1, <3>1
  <2> QED
    BY <1>2, <2>2, <2>3 DEF Once, Elem
<1> QED
  BY <1>1, <1>2, <1>3, <1>4 DEF t

LEMMA AddLast ==
    ASSUME NEW S, NEW q \in Seq(S), NEW x \in S
    PROVE  /\ Append(q, x) \in Seq(S)
           /\ Elem(Append(q, x)) = Elem(q) \cup {x}
           /\ Once(q) /\ x \notin Elem(q) => Once(Append(q, x))
<1> DEFINE a == Append(q, x)
           n == Len(q)
<1>1. /\ a \in Seq(S) /\ n \in Nat /\ DOMAIN q = 1 .. n /\ DOMAIN a = 1 .. n + 1
      /\ a[n + 1] = x /\ \A i \in 1 .. n : a[i] = q[i]
  OBVIOUS
<1> HIDE DEF a, n
<1>2. DOMAIN a = DOMAIN q \cup {n + 1} /\ n + 1 \notin DOMAIN q
  BY <1>1
<1>3. Elem(a) = Elem(q) \cup {x}
  BY <1>1, <1>2 DEF Elem
<1>4. Once(q) /\ x \notin Elem(q) => Once(a)
  BY <1>1, <1>2 DEF Once, Elem
<1> QED
  BY <1>1, <1>3, <1>4 DEF a

(* The rows of a list of candidates, as a queue. *)
RowsOf(c) == [i \in DOMAIN c |-> c[i].row]

LEMMA CandidateQueue ==
    ASSUME NEW S, NEW c \in Seq([row : S, value : Nat])
    PROVE  /\ RowsOf(c) \in Seq(S)
           /\ c = <<>> => RowsOf(c) = <<>>
           /\ c # <<>> => /\ RowsOf(c) # <<>> /\ Head(c) \in [row : S, value : Nat]
                          /\ Head(RowsOf(c)) = Head(c).row /\ RowsOf(Tail(c)) = Tail(RowsOf(c))
                          /\ \A i \in DOMAIN Tail(c) : i + 1 \in DOMAIN c /\ Tail(c)[i] = c[i + 1]
<1> DEFINE R == [row : S, value : Nat]
           n == Len(c)
           q == RowsOf(c)
<1>1. n \in Nat /\ DOMAIN c = 1 .. n /\ \A i \in 1 .. n : c[i] \in R
  <2> HIDE DEF R
  <2>1. c \in Seq(R)
    BY DEF R
  <2> QED
    BY <2>1
<1>2. q = [i \in 1 .. n |-> c[i].row] /\ \A i \in 1 .. n : c[i].row \in S
  BY <1>1 DEF RowsOf
<1>3. q \in Seq(S) /\ Len(q) = n
  BY <1>1, <1>2
<1>4. ASSUME c = <<>> PROVE q = <<>>
  BY <1>4 DEF RowsOf
<1>5. ASSUME c # <<>>
      PROVE  /\ q # <<>> /\ Head(c) \in R /\ Head(q) = Head(c).row /\ RowsOf(Tail(c)) = Tail(q)
             /\ \A i \in DOMAIN Tail(c) : i + 1 \in DOMAIN c /\ Tail(c)[i] = c[i + 1]
  <2>1. n # 0 /\ n - 1 \in Nat
    BY <1>1, <1>5
  <2>2. q # <<>> /\ Head(q) = q[1] /\ Head(c) = c[1] /\ 1 \in 1 .. n
    BY <1>1, <1>3, <1>5, <2>1
  <2>3. DOMAIN Tail(c) = 1 .. n - 1 /\ \A i \in 1 .. n - 1 : Tail(c)[i] = c[i + 1] /\ i + 1 \in 1 .. n
    BY <1>1, <1>5, <2>1
  <2> DEFINE t == RowsOf(Tail(c))
  <2>4. t = [i \in 1 .. n - 1 |-> c[i + 1].row]
    BY <2>3 DEF RowsOf
  <2>5. t \in Seq(S) /\ Len(t) = n - 1
    <3>1. t \in [1 .. n - 1 -> S]
      BY <1>2, <2>3, <2>4
    <3> DEFINE m == n - 1
    <3>2. m \in Nat /\ t \in [1 .. m -> S]
      BY <2>1, <3>1
    <3> HIDE DEF t, m
    <3>3. t \in Seq(S) /\ Len(t) = m
      BY <3>2, FunctionIsQueue
    <3> QED
      BY <3>3 DEF m
  <2>6. \A i \in 1 .. n - 1 : t[i] = q[i + 1]
    BY <1>2, <2>3, <2>4
  <2> HIDE DEF q, t
  <2>7. t = Tail(q)
    <3>1. Tail(q) \in Seq(S) /\ Len(Tail(q)) = n - 1
      BY <1>3, <2>2
    <3>2. \A i \in 1 .. n - 1 : Tail(q)[i] = q[i + 1]
      BY <1>3, <2>2
    <3> QED
      BY <2>5, <2>6, <3>1, <3>2, SameQueue
  <2>8. RowsOf(Tail(c)) = Tail(q)
    BY <2>7 DEF t
  <2> QED
    BY <1>1, <1>2, <2>2, <2>3, <2>8
<1> QED
  BY <1>3, <1>4, <1>5

LEMMA CandidateAdded ==
    ASSUME NEW S, NEW c \in Seq([row : S, value : Nat]), NEW x \in [row : S, value : Nat]
    PROVE  /\ Append(c, x) \in Seq([row : S, value : Nat])
           /\ RowsOf(Append(c, x)) = Append(RowsOf(c), x.row)
<1> DEFINE R == [row : S, value : Nat]
           n == Len(c)
           q == RowsOf(c)
<1>1. n \in Nat /\ DOMAIN c = 1 .. n /\ \A i \in 1 .. n : c[i] \in R
  <2> HIDE DEF R
  <2>1. c \in Seq(R)
    BY DEF R
  <2> QED
    BY <2>1
<1>2. q = [i \in 1 .. n |-> c[i].row] /\ \A i \in 1 .. n : c[i].row \in S
  BY <1>1 DEF RowsOf
<1>3. q \in Seq(S) /\ Len(q) = n
  BY <1>1, <1>2
<1> DEFINE r == x.row
           a == Append(c, x)
<1>4. x \in R /\ r \in S
  OBVIOUS
<1> HIDE DEF r
<1>5. /\ a \in Seq(R) /\ DOMAIN a = 1 .. n + 1 /\ a[n + 1] = x
      /\ \A i \in 1 .. n : a[i] = c[i]
  <2> HIDE DEF R
  <2> QED
    BY <1>1, <1>4
<1>6. /\ Append(q, r) \in Seq(S) /\ Len(Append(q, r)) = n + 1
      /\ \A i \in 1 .. n + 1 : Append(q, r)[i] = IF i = n + 1 THEN r ELSE q[i]
  BY <1>1, <1>3, <1>4
<1>7. RowsOf(a) = [i \in 1 .. n + 1 |-> a[i].row]
  BY <1>5 DEF RowsOf
<1>8. \A i \in 1 .. n + 1 : a[i].row = IF i = n + 1 THEN r ELSE q[i]
  <2> TAKE i \in 1 .. n + 1
  <2>1. CASE i = n + 1
    BY <1>5, <2>1 DEF r
  <2>2. CASE i # n + 1
    <3>1. i \in 1 .. n
      BY <1>1, <2>2
    <3> QED
      BY <1>2, <1>5, <2>2, <3>1
  <2> QED
    BY <2>1, <2>2
<1> DEFINE t == RowsOf(a)
<1>9. t \in Seq(S) /\ Len(t) = n + 1 /\ \A i \in 1 .. n + 1 : t[i] = IF i = n + 1 THEN r ELSE q[i]
  <2>1. \A i \in 1 .. n + 1 : t[i] = IF i = n + 1 THEN r ELSE q[i]
    BY <1>7, <1>8
  <2>2. t \in [1 .. n + 1 -> S]
    <3>1. \A i \in 1 .. n + 1 : i = n + 1 \/ i \in 1 .. n
      BY <1>1
    <3>2. \A i \in 1 .. n : q[i] \in S
      BY <1>2
    <3> HIDE DEF t, q
    <3>3. \A i \in 1 .. n + 1 : t[i] \in S
      BY <1>4, <2>1, <3>1, <3>2
    <3> QED
      BY <1>7, <3>3 DEF t
  <2> DEFINE m == n + 1
  <2>3. m \in Nat /\ t \in [1 .. m -> S]
    BY <1>1, <2>2
  <2> HIDE DEF t, m
  <2>4. t \in Seq(S) /\ Len(t) = m
    BY <2>3, FunctionIsQueue
  <2> QED
    BY <2>1, <2>4 DEF m
<1> HIDE DEF a, q, t
<1>10. t = Append(q, r)
  BY <1>6, <1>9, SameQueue
<1>11. RowsOf(a) = Append(q, r)
  BY <1>10 DEF t
<1> QED
  BY <1>5, <1>11 DEF a, q, r

-----------------------------------------------------------------------------
(* The inductive invariant, for any batches. *)

H(r) == HashOf[batch[r]]

Active == Elem(active)
Compared == Elem(RowsOf(candidates))
Unplaced == Elem(no_match_rows)
Later == Elem(collision_buf)

(* The map's own code runs in a batch only to expand. *)
Control ==
    /\ phase # "expand" => pc = "idle"
    /\ phase = "expand" => pc \in {"idle", "rehash"} /\ (pc = "rehash" => after = "idle")

(* Which lists can hold rows in which stage. *)
Stages ==
    /\ phase \notin {"round", "expand", "lookup"} => active = <<>>
    /\ phase \notin {"lookup", "compare"} => candidates = <<>>
    /\ phase \in {"none", "round", "expand"} => no_match_rows = <<>>
    /\ phase # "place" => collision_buf = <<>>

(* A row is in one list at most, and there once. *)
Apart ==
    /\ Once(active) /\ Once(RowsOf(candidates)) /\ Once(no_match_rows) /\ Once(collision_buf)
    /\ Active \cap Compared = {} /\ Active \cap Unplaced = {} /\ Active \cap Later = {}
    /\ Compared \cap Unplaced = {} /\ Compared \cap Later = {} /\ Unplaced \cap Later = {}

(* A row that is in no list has been served. *)
Covered ==
    \A r \in DOMAIN batch : served[r] # 0 \/ r \in Active \cup Compared \cup Unplaced \cup Later

(* Each row waits where its number of tries leads, past full chunks. *)
OnPathAt(r, k) == OnPath(chunks, num_chunks, H(r), row_positions[r], k)
OnPaths ==
    phase \notin {"none", "expand"} =>
        /\ \A r \in Active \cup Compared \cup Unplaced : OnPathAt(r, simd_round - 1)
        /\ \A r \in Later : OnPathAt(r, simd_round)

(* A candidate is a group with the row's hash. *)
CandidatesRight ==
    \A i \in DOMAIN candidates :
        /\ candidates[i].value \in DOMAIN rows
        /\ HashOf[rows[candidates[i].value]] = H(candidates[i].row)

ServedRight ==
    \A r \in DOMAIN batch : served[r] # 0 =>
        served[r] \in DOMAIN rows /\ rows[served[r]] = batch[r]

SInv ==
    /\ SimdTypeOK /\ RowsRight /\ Control /\ Stages
    /\ Apart /\ Covered /\ OnPaths /\ CandidatesRight /\ ServedRight

LEMMA SimdTypes ==
    ASSUME SimdTypeOK
    PROVE  /\ TypeOK /\ batch \in Seq(Keys)
           /\ active \in Seq(DOMAIN batch) /\ no_match_rows \in Seq(DOMAIN batch)
           /\ collision_buf \in Seq(DOMAIN batch)
           /\ candidates \in Seq([row : DOMAIN batch, value : Nat])
           /\ RowsOf(candidates) \in Seq(DOMAIN batch)
           /\ phase # "none" => row_positions \in [DOMAIN batch -> 0 .. num_chunks - 1]
           /\ simd_round \in Nat \ {0} /\ simd_round - 1 \in Nat
           /\ served \in [DOMAIN batch -> 0 .. Len(rows)]
           /\ rows \in Seq(Keys) /\ Len(rows) \in Nat /\ DOMAIN rows = 1 .. Len(rows)
           /\ num_chunks \in Nat \ {0}
           /\ chunks \in [0 .. num_chunks - 1 -> [Slots -> Slot]]
           /\ Active \subseteq DOMAIN batch /\ Compared \subseteq DOMAIN batch
           /\ Unplaced \subseteq DOMAIN batch /\ Later \subseteq DOMAIN batch
           /\ \A r \in DOMAIN batch : batch[r] \in Keys /\ H(r) \in Nat
<1>1. /\ TypeOK /\ batch \in Seq(Keys)
      /\ candidates \in Seq([row : DOMAIN batch, value : Nat])
      /\ phase # "none" => row_positions \in [DOMAIN batch -> 0 .. num_chunks - 1]
      /\ simd_round \in Nat \ {0}
      /\ served \in [DOMAIN batch -> 0 .. Len(rows)]
  BY DEF SimdTypeOK
<1>2. /\ active \in Seq(DOMAIN batch) /\ no_match_rows \in Seq(DOMAIN batch)
      /\ collision_buf \in Seq(DOMAIN batch)
  BY DEF SimdTypeOK
<1>3. RowsOf(candidates) \in Seq(DOMAIN batch)
  BY <1>1, CandidateQueue
<1>4. /\ rows \in Seq(Keys) /\ num_chunks \in Nat \ {0}
      /\ chunks \in [0 .. num_chunks - 1 -> [Slots -> Slot]]
  BY <1>1 DEF TypeOK
<1>5. Len(rows) \in Nat /\ DOMAIN rows = 1 .. Len(rows)
  BY <1>4
<1>6. ASSUME NEW q \in Seq(DOMAIN batch) PROVE Elem(q) \subseteq DOMAIN batch
  BY <1>6 DEF Elem
<1>7. ASSUME NEW r \in DOMAIN batch PROVE batch[r] \in Keys /\ H(r) \in Nat
  <2>1. batch[r] \in Keys
    BY <1>1
  <2> QED
    BY <2>1 DEF H
<1>8. simd_round - 1 \in Nat
  BY <1>1
<1>9. /\ Active \subseteq DOMAIN batch /\ Compared \subseteq DOMAIN batch
      /\ Unplaced \subseteq DOMAIN batch /\ Later \subseteq DOMAIN batch
  BY <1>2, <1>3, <1>6 DEF Active, Compared, Unplaced, Later
<1> QED
  BY <1>1, <1>2, <1>3, <1>4, <1>5, <1>7, <1>8, <1>9

-----------------------------------------------------------------------------
(* The stages keep it. *)

LEMMA TableKept ==
    ASSUME SInv, UNCHANGED vars
    PROVE  /\ TypeOK' /\ RowsRight'
           /\ num_chunks' = num_chunks /\ chunks' = chunks /\ rows' = rows
           /\ pc' = pc /\ after' = after
<1>1. TypeOK
  BY SimdTypes DEF SInv
<1>2. TypeOK'
  BY <1>1, NextType
<1>3. /\ num_chunks' = num_chunks /\ chunks' = chunks /\ rows' = rows
      /\ pc' = pc /\ after' = after /\ Pending' = Pending /\ entries' = entries
  BY DEF vars, tableVars, rehashVars, emplaceVars, Pending
<1>4. RowsRight'
  BY <1>3 DEF SInv, RowsRight
<1> QED
  BY <1>2, <1>3, <1>4

LEMMA EmptyLists ==
    /\ active = <<>> => Active = {} /\ Once(active)
    /\ candidates = <<>> => Compared = {} /\ Once(RowsOf(candidates))
    /\ no_match_rows = <<>> => Unplaced = {} /\ Once(no_match_rows)
    /\ collision_buf = <<>> => Later = {} /\ Once(collision_buf)
<1>1. RowsOf(<<>>) = <<>>
  BY DEF RowsOf
<1> QED
  BY <1>1, EmptyQueue DEF Active, Compared, Unplaced, Later

LEMMA InitSInv == SimdInit => SInv
<1> SUFFICES ASSUME SimdInit PROVE SInv
  OBVIOUS
<1>1. /\ Init /\ batch = <<>> /\ phase = "none" /\ active = <<>> /\ simd_round = 1
      /\ candidates = <<>> /\ no_match_rows = <<>> /\ collision_buf = <<>> /\ served = <<>>
  BY DEF SimdInit
<1>2. TypeOK /\ RowsRight /\ pc = "idle"
  BY <1>1, InitType, InitIInv DEF Init, IInv
<1>3. batch \in Seq(Keys) /\ DOMAIN batch = {} /\ Len(rows) \in Nat
  BY <1>1, <1>2 DEF TypeOK
<1>4. SimdTypeOK
  <2>1. /\ active \in Seq(DOMAIN batch) /\ no_match_rows \in Seq(DOMAIN batch)
        /\ collision_buf \in Seq(DOMAIN batch)
        /\ candidates \in Seq([row : DOMAIN batch, value : Nat])
    BY <1>1
  <2>2. served \in [DOMAIN batch -> 0 .. Len(rows)]
    BY <1>1, <1>3
  <2> QED
    BY <1>1, <1>2, <1>3, <2>1, <2>2 DEF SimdTypeOK
<1>5. Control /\ Stages /\ Covered /\ OnPaths /\ ServedRight
  BY <1>1, <1>2, <1>3 DEF Control, Stages, Covered, OnPaths, ServedRight
<1>6. Apart
  BY <1>1, EmptyLists DEF Apart
<1>7. CandidatesRight
  BY <1>1, EmptyQueue DEF CandidatesRight
<1> QED
  BY <1>2, <1>4, <1>5, <1>6, <1>7 DEF SInv

LEMMA CallSInv ==
    ASSUME SInv, SimdAssumption, NEW B \in Batches, EmplaceBatch(B)
    PROVE  SInv'
<1>1. /\ phase = "none" /\ batch' = B /\ phase' = "round" /\ simd_round' = 1
      /\ served' = [i \in DOMAIN B |-> 0]
      /\ row_positions' = [i \in DOMAIN B |-> ChunkPos(num_chunks, HashOf[B[i]])]
      /\ active' = [i \in DOMAIN B |-> i]
      /\ candidates' = candidates /\ no_match_rows' = no_match_rows
      /\ collision_buf' = collision_buf /\ UNCHANGED vars
  BY DEF EmplaceBatch
<1>2. /\ TypeOK' /\ RowsRight' /\ num_chunks' = num_chunks /\ chunks' = chunks /\ rows' = rows
      /\ pc' = pc
  BY <1>1, TableKept
<1>3. /\ active = <<>> /\ candidates = <<>> /\ no_match_rows = <<>> /\ collision_buf = <<>>
      /\ pc = "idle"
  BY <1>1 DEF SInv, Stages, Control
<1>4. /\ B \in Seq(Keys) /\ DOMAIN B = 1 .. Len(B) /\ Len(B) \in Nat
      /\ num_chunks \in Nat \ {0} /\ Len(rows) \in Nat
  BY SimdTypes DEF SInv, SimdAssumption
<1>5. \A i \in DOMAIN B : HashOf[B[i]] \in Nat
  BY <1>4
<1>6. active' \in Seq(DOMAIN B)
  BY <1>1, <1>4
<1>7. row_positions' \in [DOMAIN B -> 0 .. num_chunks - 1]
  BY <1>1, <1>4, <1>5 DEF ChunkPos
<1>8. SimdTypeOK'
  <2>1. candidates' \in Seq([row : DOMAIN B, value : Nat])
    BY <1>1, <1>3
  <2>2. no_match_rows' \in Seq(DOMAIN B) /\ collision_buf' \in Seq(DOMAIN B)
    BY <1>1, <1>3
  <2>3. served' \in [DOMAIN B -> 0 .. Len(rows)]
    BY <1>1, <1>4
  <2> QED
    BY <1>1, <1>2, <1>4, <1>6, <1>7, <2>1, <2>2, <2>3 DEF SimdTypeOK
<1>9. /\ Compared' = {} /\ Unplaced' = {} /\ Later' = {} /\ Once(RowsOf(candidates))'
      /\ Once(no_match_rows)' /\ Once(collision_buf)'
  BY <1>1, <1>3, EmptyLists DEF Compared, Unplaced, Later
<1>10. Active' = DOMAIN B /\ Once(active')
  BY <1>1 DEF Active, Elem, Once
<1>11. Control' /\ Stages' /\ Apart' /\ Covered' /\ ServedRight'
  <2>1. Control' /\ Stages'
    BY <1>1, <1>2, <1>3 DEF Control, Stages
  <2>2. Apart'
    BY <1>9, <1>10 DEF Apart
  <2>3. Covered' /\ ServedRight'
    BY <1>1, <1>10 DEF Covered, ServedRight
  <2> QED
    BY <2>1, <2>2, <2>3
<1>12. CandidatesRight'
  BY <1>1, <1>3, EmptyQueue DEF CandidatesRight
<1>13. OnPaths'
  <2>1. ASSUME NEW r \in DOMAIN B
        PROVE  OnPath(chunks, num_chunks, HashOf[B[r]], row_positions'[r], 0)
    BY <1>1, <1>4, <1>5, PathStart
  <2>2. ASSUME NEW r \in DOMAIN B PROVE OnPathAt(r, 0)'
    BY <1>1, <1>2, <2>1 DEF OnPathAt, H
  <2> QED
    BY <1>1, <1>9, <1>10, <2>2 DEF OnPaths
<1> QED
  BY <1>2, <1>8, <1>11, <1>12, <1>13 DEF SInv

LEMMA SameLists ==
    ASSUME SInv, UNCHANGED <<batch, roundVars>>
    PROVE  /\ batch' = batch /\ active' = active /\ candidates' = candidates
           /\ no_match_rows' = no_match_rows /\ collision_buf' = collision_buf
           /\ Active' = Active /\ Compared' = Compared /\ Unplaced' = Unplaced /\ Later' = Later
           /\ Apart' /\ \A r : H(r)' = H(r)
           /\ rows' = rows => CandidatesRight'
           /\ served' = served => Covered' /\ (rows' = rows => ServedRight')
<1>1. /\ batch' = batch /\ active' = active /\ candidates' = candidates
      /\ no_match_rows' = no_match_rows /\ collision_buf' = collision_buf
  BY DEF roundVars
<1>2. /\ Active' = Active /\ Compared' = Compared /\ Unplaced' = Unplaced /\ Later' = Later
      /\ \A r : H(r)' = H(r)
  BY <1>1 DEF Active, Compared, Unplaced, Later, H
<1>3. Apart'
  BY <1>1, <1>2 DEF SInv, Apart
<1>4. rows' = rows => CandidatesRight'
  BY <1>1, <1>2 DEF SInv, CandidatesRight
<1>5. served' = served => Covered' /\ (rows' = rows => ServedRight')
  BY <1>1, <1>2 DEF SInv, Covered, ServedRight
<1> QED
  BY <1>1, <1>2, <1>3, <1>4, <1>5

(* From one stage to the next, with every row where it was. *)
LEMMA StageSInv ==
    ASSUME SInv,
           RoundTop \/ LookupDone \/ CompareDone
    PROVE  SInv'
<1>1. /\ UNCHANGED vars /\ UNCHANGED <<batch, roundVars>>
      /\ row_positions' = row_positions /\ simd_round' = simd_round /\ served' = served
  BY DEF RoundTop, LookupDone, CompareDone
<1>2. /\ TypeOK' /\ RowsRight' /\ num_chunks' = num_chunks /\ chunks' = chunks /\ rows' = rows
      /\ pc' = pc
  BY <1>1, TableKept
<1>3. /\ batch' = batch /\ active' = active /\ candidates' = candidates
      /\ no_match_rows' = no_match_rows /\ collision_buf' = collision_buf
      /\ Active' = Active /\ Compared' = Compared /\ Unplaced' = Unplaced /\ Later' = Later
      /\ Apart' /\ Covered' /\ CandidatesRight' /\ ServedRight' /\ \A r : H(r)' = H(r)
  BY <1>1, <1>2, SameLists
<1>4. /\ phase \in {"round", "lookup", "compare"} /\ phase' \in {"lookup", "compare", "place"}
      /\ phase = "round" => phase' = "lookup"
      /\ phase = "lookup" => phase' = "compare" /\ active = <<>>
      /\ phase = "compare" => phase' = "place" /\ candidates = <<>>
  BY DEF RoundTop, LookupDone, CompareDone
<1>5. SimdTypeOK'
  BY <1>1, <1>2, <1>3, <1>4 DEF SInv, SimdTypeOK
<1>6. Control' /\ Stages'
  BY <1>2, <1>3, <1>4 DEF SInv, Control, Stages
<1>7. OnPaths'
  BY <1>1, <1>2, <1>3, <1>4 DEF SInv, OnPaths, OnPathAt
<1> QED
  BY <1>2, <1>3, <1>5, <1>6, <1>7 DEF SInv

LEMMA RoundExpandSInv ==
    ASSUME SInv, RoundExpand
    PROVE  SInv'
<1>1. /\ phase = "round" /\ StartExpand("idle") /\ phase' = "expand"
      /\ UNCHANGED emplaceVars /\ UNCHANGED <<batch, roundVars>>
      /\ row_positions' = row_positions /\ simd_round' = simd_round /\ served' = served
  BY DEF RoundExpand
<1>2. rows' = rows /\ row' = row /\ pos' = pos /\ collision_batch' = collision_batch /\ result' = result
  BY <1>1 DEF emplaceVars
<1>3. TypeOK /\ RowsRight /\ num_chunks \in Nat \ {0}
  BY SimdTypes DEF SInv
<1>4. RowsRight'
  BY <1>1, <1>2, <1>3, StartKeepsRows
<1>5. /\ num_chunks' \in Nat \ {0}
      /\ chunks' \in [0 .. num_chunks' - 1 -> [Slots -> Slot]]
      /\ size' \in Nat
      /\ todo' \cup collided' \subseteq DOMAIN entries'
      /\ entries' \in [DOMAIN entries' -> Slot]
      /\ positions' \in [DOMAIN entries' -> 0 .. num_chunks' - 1]
      /\ rehash_batch' \in Nat \ {0}
      /\ pc' = "rehash"
      /\ after' \in {"idle", "locate"}
  BY <1>1, <1>3, StartExpandType
<1>6. TypeOK'
  BY <1>2, <1>3, <1>5 DEF TypeOK
<1>7. /\ batch' = batch /\ active' = active /\ candidates' = candidates
      /\ no_match_rows' = no_match_rows /\ collision_buf' = collision_buf
      /\ Active' = Active /\ Compared' = Compared /\ Unplaced' = Unplaced /\ Later' = Later
      /\ Apart' /\ Covered' /\ CandidatesRight' /\ ServedRight'
  BY <1>1, <1>2, SameLists
<1>8. row_positions' \in [DOMAIN batch -> 0 .. num_chunks' - 1]
  <2>1. row_positions \in [DOMAIN batch -> 0 .. num_chunks - 1]
    BY <1>1, SimdTypes DEF SInv
  <2>2. num_chunks' = 2 * num_chunks
    BY <1>1 DEF StartExpand
  <2>3. \A i \in 0 .. num_chunks - 1 : i \in 0 .. num_chunks' - 1
    BY <1>3, <2>2
  <2> QED
    BY <1>1, <2>1, <2>3
<1>9. SimdTypeOK'
  BY <1>1, <1>2, <1>6, <1>7, <1>8 DEF SInv, SimdTypeOK
<1>10. Control' /\ Stages' /\ OnPaths'
  <2>1. after' = "idle"
    BY <1>1 DEF StartExpand
  <2> QED
    BY <1>1, <1>5, <1>7, <2>1 DEF SInv, Control, Stages, OnPaths
<1> QED
  BY <1>4, <1>7, <1>9, <1>10 DEF SInv

LEMMA ExpandInRoundSInv ==
    ASSUME SInv, ExpandInRound
    PROVE  SInv'
<1>1. /\ phase = "expand" /\ ExpandStep /\ UNCHANGED emplaceVars /\ UNCHANGED simdVars
  BY DEF ExpandInRound
<1>2. /\ UNCHANGED <<batch, roundVars>> /\ phase' = phase
      /\ row_positions' = row_positions /\ simd_round' = simd_round /\ served' = served
  BY <1>1 DEF simdVars
<1>3. rows' = rows /\ num_chunks' = num_chunks
  BY <1>1 DEF emplaceVars, ExpandStep, RehashPlace, RehashCollide, RehashRound, RehashDone, tableVars
<1>4. TypeOK /\ RowsRight
  BY DEF SInv, SimdTypeOK
<1>5. TypeOK' /\ RowsRight'
  BY <1>1, <1>3, <1>4, NextType, ExpandKeepsRows DEF Next, Step
<1>6. /\ batch' = batch /\ active' = active /\ candidates' = candidates
      /\ no_match_rows' = no_match_rows /\ collision_buf' = collision_buf
      /\ Apart' /\ Covered' /\ CandidatesRight' /\ ServedRight'
  BY <1>2, <1>3, SameLists
<1>7. SimdTypeOK'
  BY <1>2, <1>3, <1>5, <1>6 DEF SInv, SimdTypeOK
<1>8. Control'
  <2>1. pc = "rehash" /\ after = "idle"
    BY <1>1 DEF SInv, Control, ExpandStep, RehashPlace, RehashCollide, RehashRound, RehashDone
  <2> QED
    BY <1>1, <1>2, <2>1 DEF Control, ExpandStep, RehashPlace, RehashCollide, RehashRound, RehashDone
<1>9. Stages' /\ OnPaths'
  BY <1>1, <1>2, <1>6 DEF SInv, Stages, OnPaths
<1> QED
  BY <1>5, <1>6, <1>7, <1>8, <1>9 DEF SInv

(* Every active row starts at home in the table as it is now. *)
LEMMA ExpandReturnsSInv ==
    ASSUME SInv, ExpandReturns
    PROVE  SInv'
<1>1. /\ phase = "expand" /\ pc = "idle" /\ phase' = "lookup" /\ simd_round' = 1
      /\ row_positions' = [r \in DOMAIN batch |->
                              IF r \in ActiveRows THEN Home(r) ELSE row_positions[r]]
      /\ UNCHANGED vars /\ UNCHANGED <<batch, roundVars>> /\ served' = served
  BY DEF ExpandReturns
<1>2. /\ TypeOK' /\ RowsRight' /\ num_chunks' = num_chunks /\ chunks' = chunks /\ rows' = rows
      /\ pc' = pc
  BY <1>1, TableKept
<1>3. /\ batch' = batch /\ active' = active /\ candidates' = candidates
      /\ no_match_rows' = no_match_rows /\ collision_buf' = collision_buf
      /\ Active' = Active /\ Compared' = Compared /\ Unplaced' = Unplaced /\ Later' = Later
      /\ Apart' /\ Covered' /\ CandidatesRight' /\ ServedRight' /\ \A r : H(r)' = H(r)
  BY <1>1, <1>2, SameLists
<1>4. /\ row_positions \in [DOMAIN batch -> 0 .. num_chunks - 1] /\ num_chunks \in Nat \ {0}
      /\ Active \subseteq DOMAIN batch /\ \A r \in DOMAIN batch : H(r) \in Nat
  BY <1>1, SimdTypes DEF SInv
<1>5. \A r \in DOMAIN batch : Home(r) \in 0 .. num_chunks - 1 /\ Home(r) = ChunkPos(num_chunks, H(r))
  BY <1>4 DEF Home, ChunkPos, H
<1>6. ActiveRows = Active
  BY DEF ActiveRows, Active, Elem
<1>7. /\ row_positions' \in [DOMAIN batch -> 0 .. num_chunks - 1]
      /\ \A r \in Active : row_positions'[r] = ChunkPos(num_chunks, H(r))
  BY <1>1, <1>4, <1>5, <1>6
<1>8. SimdTypeOK'
  BY <1>1, <1>2, <1>3, <1>7 DEF SInv, SimdTypeOK
<1>9. Control' /\ Stages'
  BY <1>1, <1>2, <1>3 DEF SInv, Control, Stages
<1>10. OnPaths'
  <2>1. Compared = {} /\ Unplaced = {} /\ Later = {}
    BY <1>1, EmptyLists DEF SInv, Stages
  <2>2. ASSUME NEW r \in Active PROVE OnPathAt(r, 0)'
    <3>1. OnPath(chunks, num_chunks, H(r), ChunkPos(num_chunks, H(r)), 0)
      BY <1>4, PathStart
    <3> QED
      BY <1>2, <1>3, <1>7, <3>1 DEF OnPathAt
  <2> QED
    BY <1>1, <1>3, <2>1, <2>2 DEF OnPaths
<1> QED
  BY <1>2, <1>3, <1>8, <1>9, <1>10 DEF SInv

(* Stage 1 leaves the table alone and takes the first active row. *)
LEMMA LookupFacts ==
    ASSUME SInv, phase = "lookup", active # <<>>
    PROVE  /\ Head(active) \in DOMAIN batch /\ Tail(active) \in Seq(DOMAIN batch)
           /\ Once(Tail(active)) /\ Active = Elem(Tail(active)) \cup {Head(active)}
           /\ Head(active) \notin Elem(Tail(active)) \cup Compared \cup Unplaced \cup Later
           /\ H(Head(active)) \in Nat
           /\ row_positions[Head(active)] \in 0 .. num_chunks - 1
           /\ HitSlots(Head(active)) =
                 HashMatches(chunks[row_positions[Head(active)]], H(Head(active)))
<1>1. active \in Seq(DOMAIN batch) /\ row_positions \in [DOMAIN batch -> 0 .. num_chunks - 1]
  BY SimdTypes DEF SInv
<1>2. /\ Head(active) \in DOMAIN batch /\ Tail(active) \in Seq(DOMAIN batch)
      /\ Head(active) \in Active /\ Active = Elem(Tail(active)) \cup {Head(active)}
      /\ Once(active) => Once(Tail(active)) /\ Head(active) \notin Elem(Tail(active))
  BY <1>1, TakeHead DEF Active
<1>3. Once(active) /\ Head(active) \notin Compared \cup Unplaced \cup Later
  BY <1>2 DEF SInv, Apart
<1>4. H(Head(active)) \in Nat
  BY <1>2, SimdTypes DEF SInv
<1> QED
  BY <1>1, <1>2, <1>3, <1>4 DEF HitSlots, H

LEMMA LookupHitSInv ==
    ASSUME SInv, LookupHit
    PROVE  SInv'
<1> DEFINE r == Head(active)
<1>1. PICK s \in HashMatches(chunks[row_positions[r]], H(r)) :
         candidates' = Append(candidates, [row |-> r, value |-> chunks[row_positions[r]][s].value])
  BY LookupFacts DEF LookupHit, IsLowest
<1> DEFINE v == chunks[row_positions[r]][s].value
<1>2. /\ phase = "lookup" /\ phase' = phase /\ active # <<>> /\ active' = Tail(active)
      /\ UNCHANGED vars /\ batch' = batch /\ row_positions' = row_positions
      /\ simd_round' = simd_round /\ no_match_rows' = no_match_rows
      /\ collision_buf' = collision_buf /\ served' = served
  BY DEF LookupHit
<1>3. /\ TypeOK' /\ RowsRight' /\ num_chunks' = num_chunks /\ chunks' = chunks /\ rows' = rows
      /\ pc' = pc
  BY <1>2, TableKept
<1>4. /\ r \in DOMAIN batch /\ active' \in Seq(DOMAIN batch) /\ Once(active')
      /\ Active = Active' \cup {r} /\ r \notin Active' \cup Compared \cup Unplaced \cup Later
      /\ H(r) \in Nat /\ row_positions[r] \in 0 .. num_chunks - 1
  BY <1>2, LookupFacts DEF Active
<1>5. v \in Nat /\ v \in DOMAIN rows /\ HashOf[rows[v]] = H(r)
  BY <1>4, HitRight DEF SInv, SimdTypeOK
<1>6. /\ candidates \in Seq([row : DOMAIN batch, value : Nat])
      /\ RowsOf(candidates) \in Seq(DOMAIN batch)
  BY SimdTypes DEF SInv
<1> HIDE DEF r, v
<1>7. candidates' = Append(candidates, [row |-> r, value |-> v])
  BY <1>1 DEF v
<1>8. /\ candidates' \in Seq([row : DOMAIN batch, value : Nat])
      /\ RowsOf(candidates') = Append(RowsOf(candidates), r)
  <2> DEFINE x == [row |-> r, value |-> v]
  <2>1. x \in [row : DOMAIN batch, value : Nat] /\ x.row = r /\ candidates' = Append(candidates, x)
    BY <1>4, <1>5, <1>7
  <2> HIDE DEF x
  <2> QED
    BY <1>6, <2>1, CandidateAdded
<1>9. Compared' = Compared \cup {r} /\ Once(RowsOf(candidates'))
  BY <1>4, <1>6, <1>8, AddLast DEF Compared, SInv, Apart
<1>10. Unplaced' = Unplaced /\ Later' = Later /\ \A q : H(q)' = H(q)
  BY <1>2 DEF Unplaced, Later, H
<1>11. SimdTypeOK'
  BY <1>2, <1>3, <1>4, <1>8 DEF SInv, SimdTypeOK
<1>12. Control' /\ Stages' /\ ServedRight'
  BY <1>2, <1>3 DEF SInv, Control, Stages, ServedRight
<1>13. Apart'
  BY <1>2, <1>4, <1>9, <1>10 DEF SInv, Apart
<1>14. Covered'
  BY <1>2, <1>4, <1>9, <1>10 DEF SInv, Covered
<1>15. OnPaths'
  BY <1>2, <1>3, <1>4, <1>9, <1>10 DEF SInv, OnPaths, OnPathAt
<1>16. CandidatesRight'
  <2> DEFINE n == Len(candidates)
             x == [row |-> r, value |-> v]
  <2>1. x.row = r /\ x.value = v
    OBVIOUS
  <2>2. /\ DOMAIN candidates' = DOMAIN candidates \cup {n + 1}
        /\ candidates'[n + 1] = x /\ \A i \in DOMAIN candidates : candidates'[i] = candidates[i]
    <3> DEFINE R == [row : DOMAIN batch, value : Nat]
    <3>1. candidates \in Seq(R) /\ candidates' = Append(candidates, x)
      BY <1>6, <1>7
    <3> HIDE DEF R, x
    <3> QED
      BY <3>1
  <2> HIDE DEF x, n
  <2> QED
    BY <1>3, <1>5, <1>10, <2>1, <2>2 DEF SInv, CandidatesRight
<1> QED
  BY <1>3, <1>11, <1>12, <1>13, <1>14, <1>15, <1>16 DEF SInv

LEMMA LookupMissSInv ==
    ASSUME SInv, LookupMiss
    PROVE  SInv'
<1> DEFINE r == Head(active)
<1>1. /\ phase = "lookup" /\ phase' = phase /\ active # <<>> /\ active' = Tail(active)
      /\ UNCHANGED vars /\ batch' = batch /\ row_positions' = row_positions
      /\ simd_round' = simd_round /\ no_match_rows' = Append(no_match_rows, r)
      /\ candidates' = candidates /\ collision_buf' = collision_buf /\ served' = served
  BY DEF LookupMiss
<1>2. /\ TypeOK' /\ RowsRight' /\ num_chunks' = num_chunks /\ chunks' = chunks /\ rows' = rows
      /\ pc' = pc
  BY <1>1, TableKept
<1>3. /\ r \in DOMAIN batch /\ active' \in Seq(DOMAIN batch) /\ Once(active')
      /\ Active = Active' \cup {r} /\ r \notin Active' \cup Compared \cup Unplaced \cup Later
  BY <1>1, LookupFacts DEF Active
<1> HIDE DEF r
<1>4. no_match_rows \in Seq(DOMAIN batch)
  BY SimdTypes DEF SInv
<1>5. no_match_rows' \in Seq(DOMAIN batch) /\ Unplaced' = Unplaced \cup {r} /\ Once(no_match_rows')
  BY <1>1, <1>3, <1>4, AddLast DEF Unplaced, SInv, Apart
<1>6. Compared' = Compared /\ Later' = Later /\ \A q : H(q)' = H(q)
  BY <1>1 DEF Compared, Later, H
<1>7. SimdTypeOK'
  BY <1>1, <1>2, <1>3, <1>5 DEF SInv, SimdTypeOK
<1>8. Control' /\ Stages' /\ ServedRight' /\ CandidatesRight'
  BY <1>1, <1>2, <1>6 DEF SInv, Control, Stages, ServedRight, CandidatesRight
<1>9. Apart'
  BY <1>1, <1>3, <1>5, <1>6 DEF SInv, Apart
<1>10. Covered'
  BY <1>1, <1>3, <1>5, <1>6 DEF SInv, Covered
<1>11. OnPaths'
  BY <1>1, <1>2, <1>3, <1>5, <1>6 DEF SInv, OnPaths, OnPathAt
<1> QED
  BY <1>2, <1>7, <1>8, <1>9, <1>10, <1>11 DEF SInv

(* Stage 2 takes the first candidate, and leaves the table alone as well. *)
LEMMA CompareFacts ==
    ASSUME SInv, phase = "compare", candidates # <<>>
    PROVE  LET c == Head(candidates) IN
           /\ c.row \in DOMAIN batch /\ c.value \in DOMAIN rows /\ c.value \in 1 .. Len(rows)
           /\ HashOf[rows[c.value]] = H(c.row)
           /\ Tail(candidates) \in Seq([row : DOMAIN batch, value : Nat])
           /\ Once(RowsOf(Tail(candidates)))
           /\ Compared = Elem(RowsOf(Tail(candidates))) \cup {c.row}
           /\ c.row \notin Elem(RowsOf(Tail(candidates))) \cup Active \cup Unplaced \cup Later
           /\ \A i \in DOMAIN Tail(candidates) :
                 i + 1 \in DOMAIN candidates /\ Tail(candidates)[i] = candidates[i + 1]
<1> DEFINE c == Head(candidates)
           R == [row : DOMAIN batch, value : Nat]
<1>1. candidates \in Seq(R) /\ RowsOf(candidates) \in Seq(DOMAIN batch) /\ DOMAIN rows = 1 .. Len(rows)
  BY SimdTypes DEF SInv
<1>2. /\ RowsOf(candidates) # <<>> /\ Head(RowsOf(candidates)) = c.row
      /\ RowsOf(Tail(candidates)) = Tail(RowsOf(candidates))
      /\ \A i \in DOMAIN Tail(candidates) :
            i + 1 \in DOMAIN candidates /\ Tail(candidates)[i] = candidates[i + 1]
  BY <1>1, CandidateQueue
<1>3. Tail(candidates) \in Seq(R) /\ c = candidates[1] /\ 1 \in DOMAIN candidates
  <2> HIDE DEF R
  <2> QED
    BY <1>1
<1> HIDE DEF c
<1>4. /\ c.row \in DOMAIN batch /\ c.row \in Compared
      /\ Compared = Elem(RowsOf(Tail(candidates))) \cup {c.row}
      /\ Once(RowsOf(candidates)) => /\ Once(RowsOf(Tail(candidates)))
                                     /\ c.row \notin Elem(RowsOf(Tail(candidates)))
  <2> DEFINE q == RowsOf(candidates)
             S == DOMAIN batch
  <2>1. q \in Seq(S) /\ q # <<>> /\ Head(q) = c.row /\ RowsOf(Tail(candidates)) = Tail(q)
    BY <1>1, <1>2
  <2>2. Compared = Elem(q)
    BY DEF Compared
  <2> HIDE DEF q
  <2>3. /\ Head(q) \in S /\ Head(q) \in Elem(q) /\ Elem(q) = Elem(Tail(q)) \cup {Head(q)}
        /\ Once(q) => Once(Tail(q)) /\ Head(q) \notin Elem(Tail(q))
    <3> HIDE DEF S
    <3> QED
      BY <2>1, TakeHead
  <2> QED
    BY <2>1, <2>2, <2>3 DEF q
<1>5. Once(RowsOf(candidates)) /\ c.row \notin Active \cup Unplaced \cup Later
  BY <1>4 DEF SInv, Apart
<1>6. c.value \in DOMAIN rows /\ HashOf[rows[c.value]] = H(c.row)
  BY <1>3 DEF SInv, CandidatesRight
<1> QED
  BY <1>1, <1>2, <1>3, <1>4, <1>5, <1>6 DEF c

LEMMA CompareMatchSInv ==
    ASSUME SInv, CompareMatch
    PROVE  SInv'
<1> DEFINE r == Head(candidates).row
           v == Head(candidates).value
<1>1. /\ phase = "compare" /\ phase' = phase /\ candidates # <<>>
      /\ rows[v] = batch[r] /\ served' = [served EXCEPT ![r] = v]
      /\ candidates' = Tail(candidates) /\ active' = active /\ no_match_rows' = no_match_rows
      /\ UNCHANGED vars /\ batch' = batch /\ row_positions' = row_positions
      /\ simd_round' = simd_round /\ collision_buf' = collision_buf
  BY DEF CompareMatch
<1>2. /\ TypeOK' /\ RowsRight' /\ num_chunks' = num_chunks /\ chunks' = chunks /\ rows' = rows
      /\ pc' = pc
  BY <1>1, TableKept
<1>3. /\ r \in DOMAIN batch /\ v \in DOMAIN rows /\ v \in 1 .. Len(rows)
      /\ candidates' \in Seq([row : DOMAIN batch, value : Nat]) /\ Once(RowsOf(candidates'))
      /\ Compared = Compared' \cup {r} /\ r \notin Compared'
      /\ \A i \in DOMAIN candidates' : i + 1 \in DOMAIN candidates /\ candidates'[i] = candidates[i + 1]
  BY <1>1, CompareFacts DEF Compared
<1> HIDE DEF r, v
<1>4. /\ Active' = Active /\ Unplaced' = Unplaced /\ Later' = Later /\ \A q : H(q)' = H(q)
  BY <1>1 DEF Active, Unplaced, Later, H
<1>5. served \in [DOMAIN batch -> 0 .. Len(rows)] /\ Len(rows) \in Nat
  BY SimdTypes DEF SInv
<1>6. /\ served' \in [DOMAIN batch -> 0 .. Len(rows)] /\ served'[r] = v /\ v # 0
      /\ \A q \in DOMAIN batch \ {r} : served'[q] = served[q]
  BY <1>1, <1>3, <1>5
<1>7. SimdTypeOK'
  BY <1>1, <1>2, <1>3, <1>6 DEF SInv, SimdTypeOK
<1>8. Control' /\ Stages'
  BY <1>1, <1>2 DEF SInv, Control, Stages
<1>9. Apart'
  BY <1>1, <1>3, <1>4 DEF SInv, Apart
<1>10. Covered'
  BY <1>1, <1>3, <1>4, <1>6 DEF SInv, Covered
<1>11. OnPaths'
  BY <1>1, <1>2, <1>3, <1>4 DEF SInv, OnPaths, OnPathAt
<1>12. CandidatesRight'
  BY <1>2, <1>3, <1>4 DEF SInv, CandidatesRight
<1>13. ServedRight'
  BY <1>1, <1>2, <1>3, <1>6 DEF SInv, ServedRight
<1> QED
  BY <1>2, <1>7, <1>8, <1>9, <1>10, <1>11, <1>12, <1>13 DEF SInv

LEMMA CompareDifferSInv ==
    ASSUME SInv, CompareDiffer
    PROVE  SInv'
<1> DEFINE r == Head(candidates).row
<1>1. /\ phase = "compare" /\ phase' = phase /\ candidates # <<>>
      /\ no_match_rows' = Append(no_match_rows, r)
      /\ candidates' = Tail(candidates) /\ active' = active /\ served' = served
      /\ UNCHANGED vars /\ batch' = batch /\ row_positions' = row_positions
      /\ simd_round' = simd_round /\ collision_buf' = collision_buf
  BY DEF CompareDiffer
<1>2. /\ TypeOK' /\ RowsRight' /\ num_chunks' = num_chunks /\ chunks' = chunks /\ rows' = rows
      /\ pc' = pc
  BY <1>1, TableKept
<1>3. /\ r \in DOMAIN batch
      /\ candidates' \in Seq([row : DOMAIN batch, value : Nat]) /\ Once(RowsOf(candidates'))
      /\ Compared = Compared' \cup {r} /\ r \notin Compared' \cup Active \cup Unplaced \cup Later
      /\ \A i \in DOMAIN candidates' : i + 1 \in DOMAIN candidates /\ candidates'[i] = candidates[i + 1]
  BY <1>1, CompareFacts DEF Compared
<1> HIDE DEF r
<1>4. no_match_rows \in Seq(DOMAIN batch)
  BY SimdTypes DEF SInv
<1>5. no_match_rows' \in Seq(DOMAIN batch) /\ Unplaced' = Unplaced \cup {r} /\ Once(no_match_rows')
  BY <1>1, <1>3, <1>4, AddLast DEF Unplaced, SInv, Apart
<1>6. Active' = Active /\ Later' = Later /\ \A q : H(q)' = H(q)
  BY <1>1 DEF Active, Later, H
<1>7. SimdTypeOK'
  BY <1>1, <1>2, <1>3, <1>5 DEF SInv, SimdTypeOK
<1>8. Control' /\ Stages' /\ ServedRight'
  BY <1>1, <1>2 DEF SInv, Control, Stages, ServedRight
<1>9. Apart'
  BY <1>1, <1>3, <1>5, <1>6 DEF SInv, Apart
<1>10. Covered'
  BY <1>1, <1>3, <1>5, <1>6 DEF SInv, Covered
<1>11. OnPaths'
  BY <1>1, <1>2, <1>3, <1>5, <1>6 DEF SInv, OnPaths, OnPathAt
<1>12. CandidatesRight'
  BY <1>2, <1>3, <1>6 DEF SInv, CandidatesRight
<1> QED
  BY <1>2, <1>7, <1>8, <1>9, <1>10, <1>11, <1>12 DEF SInv

(* Stage 3 takes the first row that is still to be placed. *)
LEMMA PlaceFacts ==
    ASSUME SInv, phase = "place", no_match_rows # <<>>
    PROVE  /\ Head(no_match_rows) \in DOMAIN batch /\ Tail(no_match_rows) \in Seq(DOMAIN batch)
           /\ Head(no_match_rows) \in Unplaced
           /\ Once(Tail(no_match_rows))
           /\ Unplaced = Elem(Tail(no_match_rows)) \cup {Head(no_match_rows)}
           /\ Head(no_match_rows) \notin Elem(Tail(no_match_rows)) \cup Active \cup Compared \cup Later
           /\ H(Head(no_match_rows)) \in Nat /\ batch[Head(no_match_rows)] \in Keys
           /\ row_positions[Head(no_match_rows)] \in 0 .. num_chunks - 1
           /\ OnPathAt(Head(no_match_rows), simd_round - 1)
<1>1. no_match_rows \in Seq(DOMAIN batch) /\ row_positions \in [DOMAIN batch -> 0 .. num_chunks - 1]
  BY SimdTypes DEF SInv
<1> DEFINE r == Head(no_match_rows)
<1>2. /\ r \in DOMAIN batch /\ Tail(no_match_rows) \in Seq(DOMAIN batch)
      /\ r \in Unplaced /\ Unplaced = Elem(Tail(no_match_rows)) \cup {r}
      /\ Once(no_match_rows) => Once(Tail(no_match_rows)) /\ r \notin Elem(Tail(no_match_rows))
  BY <1>1, TakeHead DEF Unplaced
<1> HIDE DEF r
<1>3. Once(no_match_rows) /\ r \notin Active \cup Compared \cup Later
  BY <1>2 DEF SInv, Apart
<1>4. H(r) \in Nat /\ batch[r] \in Keys
  BY <1>2, SimdTypes DEF SInv
<1>5. OnPathAt(r, simd_round - 1)
  BY <1>2 DEF SInv, OnPaths
<1> QED
  BY <1>1, <1>2, <1>3, <1>4, <1>5 DEF r

(* The slot a new row takes, and what becomes of the rows and the others. *)
LEMMA NewRow ==
    ASSUME SInv, PlaceNew
    PROVE  LET r == Head(no_match_rows)
               p == row_positions[r] IN
           /\ \E s \in MatchEmpty(chunks[p]) :
                 AddedAt(num_chunks, chunks, chunks', <<p, s>>,
                         [tag |-> TagHash(H(r)), key |-> H(r), value |-> Len(rows) + 1])
           /\ rows' = Append(rows, batch[r]) /\ Len(rows') = Len(rows) + 1
           /\ rows'[Len(rows) + 1] = batch[r] /\ DOMAIN rows' = 1 .. Len(rows) + 1
           /\ \A i \in DOMAIN rows : i \in DOMAIN rows' /\ rows'[i] = rows[i]
           /\ TypeOK' /\ RowsRight'
<1> DEFINE r == Head(no_match_rows)
           p == row_positions[r]
           v == Len(rows) + 1
           x == [tag |-> TagHash(H(r)), key |-> H(r), value |-> v]
<1>1. /\ phase = "place" /\ no_match_rows # <<>> /\ rows' = Append(rows, batch[r])
      /\ size' = size + 1 /\ num_chunks' = num_chunks /\ UNCHANGED rehashVars
      /\ pc' = pc /\ row' = row /\ pos' = pos /\ collision_batch' = collision_batch
      /\ result' = result
  BY DEF PlaceNew
<1>2. /\ r \in DOMAIN batch /\ batch[r] \in Keys /\ H(r) \in Nat /\ p \in 0 .. num_chunks - 1
      /\ H(r) = HashOf[batch[r]]
  BY <1>1, PlaceFacts DEF H
<1>3. /\ TypeOK /\ rows \in Seq(Keys) /\ Len(rows) \in Nat /\ DOMAIN rows = 1 .. Len(rows)
      /\ num_chunks \in Nat \ {0} /\ v \in Nat
      /\ chunks \in [0 .. num_chunks - 1 -> [Slots -> Slot]]
  BY SimdTypes DEF SInv
<1>4. PICK s \in MatchEmpty(chunks[p]) : chunks' = Fill(chunks, p, s, H(r), v)
  BY <1>2 DEF PlaceNew, IsLowest
<1>5. /\ rows' \in Seq(Keys) /\ Len(rows') = v /\ DOMAIN rows' = 1 .. v /\ rows'[v] = batch[r]
      /\ v \in DOMAIN rows'
      /\ \A i \in DOMAIN rows : i \in DOMAIN rows' /\ rows'[i] = rows[i]
  BY <1>1, <1>2, <1>3
<1> HIDE DEF r, p, v
<1>6. AddedAt(num_chunks, chunks, chunks', <<p, s>>, x)
  BY <1>2, <1>3, <1>4, FillFacts
<1>7. TypeOK'
  <2>1. chunks' \in [0 .. num_chunks - 1 -> [Slots -> Slot]]
    BY <1>6 DEF AddedAt
  <2>2. size' \in Nat /\ pc' = "idle"
    BY <1>1, <1>3 DEF TypeOK, SInv, Control
  <2>3. /\ todo' \cup collided' \subseteq DOMAIN entries'
        /\ entries' \in [DOMAIN entries' -> Slot]
        /\ positions' \in [DOMAIN entries' -> 0 .. num_chunks' - 1]
        /\ rehash_batch' \in Nat \ {0} /\ after' \in {"idle", "locate"}
    BY <1>1, <1>3 DEF TypeOK, rehashVars
  <2>4. /\ row' \in Keys /\ pos' \in Nat /\ collision_batch' \in Nat \ {0}
        /\ result' \in [value : Nat, is_new : BOOLEAN]
    BY <1>1, <1>3 DEF TypeOK
  <2> QED
    BY <1>1, <1>3, <1>5, <2>1, <2>2, <2>3, <2>4 DEF TypeOK
<1>8. RowsRight'
  <2>1. x.value = v /\ x.key = H(r)
    OBVIOUS
  <2> HIDE DEF x
  <2>2. OfRow(rows', x)
    BY <1>2, <1>3, <1>5, <2>1 DEF OfRow
  <2>3. ASSUME NEW y, OfRow(rows, y) PROVE OfRow(rows', y)
    BY <1>5, <2>3 DEF OfRow
  <2>4. Pending' = Pending /\ entries' = entries
    BY <1>1 DEF rehashVars, Pending
  <2>5. \A l \in Occupied(chunks') : OfRow(rows', At(chunks', l))
    BY <1>6, <2>2, <2>3 DEF AddedAt, SInv, RowsRight
  <2> QED
    BY <2>3, <2>4, <2>5 DEF SInv, RowsRight
<1> QED
  BY <1>1, <1>5, <1>6, <1>7, <1>8 DEF r, p, v

LEMMA PlaceNewSInv ==
    ASSUME SInv, PlaceNew
    PROVE  SInv'
<1> DEFINE r == Head(no_match_rows)
           p == row_positions[r]
           v == Len(rows) + 1
<1>1. /\ phase = "place" /\ phase' = phase /\ no_match_rows # <<>>
      /\ no_match_rows' = Tail(no_match_rows) /\ served' = [served EXCEPT ![r] = v]
      /\ num_chunks' = num_chunks /\ pc' = pc /\ batch' = batch /\ active' = active
      /\ candidates' = candidates /\ row_positions' = row_positions
      /\ simd_round' = simd_round /\ collision_buf' = collision_buf
  BY DEF PlaceNew
<1>2. /\ r \in DOMAIN batch /\ no_match_rows' \in Seq(DOMAIN batch) /\ Once(no_match_rows')
      /\ Unplaced = Unplaced' \cup {r} /\ r \notin Unplaced'
  BY <1>1, PlaceFacts DEF Unplaced
<1>3. /\ TypeOK' /\ RowsRight' /\ Len(rows') = v /\ DOMAIN rows' = 1 .. v /\ rows'[v] = batch[r]
      /\ \A i \in DOMAIN rows : i \in DOMAIN rows' /\ rows'[i] = rows[i]
      /\ \A i \in 0 .. num_chunks - 1 : IsFull(chunks[i]) => chunks'[i] = chunks[i]
  BY NewRow DEF AddedAt
<1>4. /\ served \in [DOMAIN batch -> 0 .. Len(rows)] /\ Len(rows) \in Nat
      /\ num_chunks \in Nat \ {0} /\ simd_round \in Nat /\ simd_round - 1 \in Nat
      /\ Active \subseteq DOMAIN batch /\ Compared \subseteq DOMAIN batch
      /\ Unplaced \subseteq DOMAIN batch /\ Later \subseteq DOMAIN batch
      /\ \A q \in DOMAIN batch : H(q) \in Nat
  BY SimdTypes DEF SInv
<1> HIDE DEF r, p
<1>5. /\ served' \in [DOMAIN batch -> 0 .. v] /\ served'[r] = v /\ v # 0
      /\ \A q \in DOMAIN batch \ {r} : served'[q] = served[q]
  BY <1>1, <1>2, <1>4
<1>6. v \in DOMAIN rows'
  BY <1>3, <1>4
<1> HIDE DEF v
<1>7. Active' = Active /\ Compared' = Compared /\ Later' = Later /\ \A q : H(q)' = H(q)
  BY <1>1 DEF Active, Compared, Later, H
<1>8. SimdTypeOK'
  BY <1>1, <1>2, <1>3, <1>5 DEF SInv, SimdTypeOK
<1>9. Control' /\ Stages'
  BY <1>1 DEF SInv, Control, Stages
<1>10. Apart'
  BY <1>1, <1>2, <1>7 DEF SInv, Apart
<1>11. Covered'
  BY <1>1, <1>2, <1>5, <1>7 DEF SInv, Covered
<1>12. OnPaths'
  <2>1. ASSUME NEW q \in DOMAIN batch, NEW k \in Nat, OnPathAt(q, k) PROVE OnPathAt(q, k)'
    <3>1. OnPath(chunks', num_chunks, H(q), row_positions[q], k)
      BY <1>3, <1>4, <2>1, PathKept DEF OnPathAt
    <3> QED
      BY <1>1, <1>7, <3>1 DEF OnPathAt
  <2>2. /\ \A q \in Active \cup Compared \cup Unplaced : OnPathAt(q, simd_round - 1)
        /\ \A q \in Later : OnPathAt(q, simd_round)
    BY <1>1 DEF SInv, OnPaths
  <2>3. /\ \A q \in Active \cup Compared \cup Unplaced : OnPathAt(q, simd_round - 1)'
        /\ \A q \in Later : OnPathAt(q, simd_round)'
    BY <1>1, <1>4, <2>1, <2>2
  <2> QED
    BY <1>1, <1>2, <1>7, <2>3 DEF OnPaths
<1>13. CandidatesRight'
  <2>1. candidates = <<>>
    BY <1>1 DEF SInv, Stages
  <2> QED
    BY <1>1, <2>1, EmptyQueue DEF CandidatesRight
<1>14. ServedRight'
  BY <1>1, <1>2, <1>3, <1>5, <1>6 DEF SInv, ServedRight
<1> QED
  BY <1>3, <1>8, <1>9, <1>10, <1>11, <1>12, <1>13, <1>14 DEF SInv

LEMMA PlaceLaterSInv ==
    ASSUME SInv, PlaceLater
    PROVE  SInv'
<1> DEFINE r == Head(no_match_rows)
           p == row_positions[r]
<1>1. /\ phase = "place" /\ phase' = phase /\ no_match_rows # <<>> /\ IsFull(chunks[p])
      /\ no_match_rows' = Tail(no_match_rows) /\ collision_buf' = Append(collision_buf, r)
      /\ row_positions' = [row_positions EXCEPT ![r] = RehashPos(num_chunks, simd_round, p)]
      /\ UNCHANGED vars /\ batch' = batch /\ active' = active /\ candidates' = candidates
      /\ simd_round' = simd_round /\ served' = served
  BY DEF PlaceLater
<1>2. /\ TypeOK' /\ RowsRight' /\ num_chunks' = num_chunks /\ chunks' = chunks /\ rows' = rows
      /\ pc' = pc
  BY <1>1, TableKept
<1>3. /\ r \in DOMAIN batch /\ no_match_rows' \in Seq(DOMAIN batch) /\ Once(no_match_rows')
      /\ Unplaced = Unplaced' \cup {r} /\ r \notin Unplaced' \cup Active \cup Compared \cup Later
      /\ H(r) \in Nat /\ p \in 0 .. num_chunks - 1 /\ OnPathAt(r, simd_round - 1)
  BY <1>1, PlaceFacts DEF Unplaced
<1>4. /\ collision_buf \in Seq(DOMAIN batch) /\ num_chunks \in Nat \ {0}
      /\ row_positions \in [DOMAIN batch -> 0 .. num_chunks - 1]
      /\ simd_round \in Nat /\ simd_round - 1 \in Nat /\ (simd_round - 1) + 1 = simd_round
      /\ Active \subseteq DOMAIN batch /\ Compared \subseteq DOMAIN batch
      /\ Unplaced \subseteq DOMAIN batch /\ Later \subseteq DOMAIN batch
  <2>1. simd_round \in Nat \ {0}
    BY SimdTypes DEF SInv
  <2>2. simd_round - 1 \in Nat /\ (simd_round - 1) + 1 = simd_round
    BY <2>1
  <2> QED
    BY <1>1, <2>1, <2>2, SimdTypes DEF SInv
<1> HIDE DEF r
<1>5. collision_buf' \in Seq(DOMAIN batch) /\ Later' = Later \cup {r} /\ Once(collision_buf')
  BY <1>1, <1>3, <1>4, AddLast DEF Later, SInv, Apart
<1>6. RehashPos(num_chunks, simd_round, p) \in 0 .. num_chunks - 1
  BY <1>3, <1>4 DEF RehashPos
<1>7. /\ row_positions' \in [DOMAIN batch -> 0 .. num_chunks - 1]
      /\ row_positions'[r] = RehashPos(num_chunks, simd_round, p)
      /\ \A q \in DOMAIN batch \ {r} : row_positions'[q] = row_positions[q]
  <2> DEFINE to == RehashPos(num_chunks, simd_round, p)
  <2>1. to \in 0 .. num_chunks - 1 /\ row_positions' = [row_positions EXCEPT ![r] = to]
    BY <1>1, <1>6
  <2> HIDE DEF to
  <2>2. /\ row_positions' \in [DOMAIN batch -> 0 .. num_chunks - 1] /\ row_positions'[r] = to
        /\ \A q \in DOMAIN batch \ {r} : row_positions'[q] = row_positions[q]
    BY <1>3, <1>4, <2>1
  <2> QED
    BY <2>2 DEF to
<1>8. Active' = Active /\ Compared' = Compared /\ \A q : H(q)' = H(q)
  BY <1>1 DEF Active, Compared, H
<1>9. SimdTypeOK'
  BY <1>1, <1>2, <1>3, <1>5, <1>7 DEF SInv, SimdTypeOK
<1>10. Control' /\ Stages' /\ ServedRight' /\ CandidatesRight'
  BY <1>1, <1>2, <1>8 DEF SInv, Control, Stages, ServedRight, CandidatesRight
<1>11. Apart'
  BY <1>1, <1>3, <1>5, <1>8 DEF SInv, Apart
<1>12. Covered'
  BY <1>1, <1>3, <1>5, <1>8 DEF SInv, Covered
<1>13. OnPaths'
  <2>1. ASSUME NEW q, q = r PROVE OnPathAt(q, simd_round)'
    <3>1. OnPath(chunks, num_chunks, H(r), RehashPos(num_chunks, (simd_round - 1) + 1, p),
                 (simd_round - 1) + 1)
      BY <1>1, <1>3, <1>4, PathNext DEF OnPathAt
    <3>2. OnPath(chunks, num_chunks, H(r), RehashPos(num_chunks, simd_round, p), simd_round)
      BY <1>4, <3>1
    <3> HIDE DEF p
    <3> QED
      BY <1>1, <1>2, <1>7, <1>8, <2>1, <3>2 DEF OnPathAt
  <2>2. \A q \in Active \cup Compared \cup Unplaced' : OnPathAt(q, simd_round - 1)'
    <3> TAKE q \in Active \cup Compared \cup Unplaced'
    <3>1. q \in DOMAIN batch \ {r} /\ OnPathAt(q, simd_round - 1)
      <4>1. q # r
        BY <1>1, <1>3, <1>8 DEF SInv, Apart
      <4> QED
        BY <1>1, <1>3, <1>4, <4>1 DEF SInv, OnPaths
    <3> QED
      BY <1>1, <1>2, <1>7, <1>8, <3>1 DEF OnPathAt
  <2>3. \A q \in Later : OnPathAt(q, simd_round)'
    <3> TAKE q \in Later
    <3>1. q \in DOMAIN batch \ {r} /\ OnPathAt(q, simd_round)
      BY <1>1, <1>3, <1>4 DEF SInv, OnPaths
    <3> QED
      BY <1>1, <1>2, <1>7, <1>8, <3>1 DEF OnPathAt
  <2> QED
    BY <1>1, <1>5, <1>8, <2>1, <2>2, <2>3 DEF OnPaths
<1> QED
  BY <1>2, <1>9, <1>10, <1>11, <1>12, <1>13 DEF SInv

LEMMA NextRoundSInv ==
    ASSUME SInv, NextRound
    PROVE  SInv'
<1>1. /\ phase = "place" /\ phase' = "round" /\ no_match_rows = <<>>
      /\ active' = collision_buf /\ collision_buf' = <<>> /\ simd_round' = simd_round + 1
      /\ UNCHANGED vars /\ batch' = batch /\ row_positions' = row_positions
      /\ candidates' = candidates /\ no_match_rows' = no_match_rows /\ served' = served
  BY DEF NextRound
<1>2. /\ TypeOK' /\ RowsRight' /\ num_chunks' = num_chunks /\ chunks' = chunks /\ rows' = rows
      /\ pc' = pc
  BY <1>1, TableKept
<1>3. active = <<>> /\ candidates = <<>>
  BY <1>1 DEF SInv, Stages
<1>4. Active = {} /\ Compared = {} /\ Unplaced = {}
  BY <1>1, <1>3, EmptyLists
<1>5. /\ Active' = Later /\ Compared' = {} /\ Unplaced' = {} /\ Later' = {} /\ Once(collision_buf')
      /\ \A q : H(q)' = H(q)
  BY <1>1, <1>4, EmptyQueue DEF Active, Later, Compared, Unplaced, H
<1>6. simd_round \in Nat \ {0} /\ (simd_round + 1) - 1 = simd_round
  BY SimdTypes DEF SInv
<1>7. SimdTypeOK'
  <2>1. collision_buf' \in Seq(DOMAIN batch) /\ active' \in Seq(DOMAIN batch)
    BY <1>1, SimdTypes DEF SInv
  <2>2. simd_round' \in Nat \ {0}
    BY <1>1, <1>6
  <2> QED
    BY <1>1, <1>2, <2>1, <2>2 DEF SInv, SimdTypeOK
<1>8. Control' /\ Stages' /\ ServedRight' /\ CandidatesRight'
  BY <1>1, <1>2, <1>3, <1>5 DEF SInv, Control, Stages, ServedRight, CandidatesRight
<1>9. Apart'
  BY <1>1, <1>5 DEF SInv, Apart
<1>10. Covered'
  BY <1>1, <1>4, <1>5 DEF SInv, Covered
<1>11. OnPaths'
  BY <1>1, <1>2, <1>5, <1>6 DEF SInv, OnPaths, OnPathAt
<1> QED
  BY <1>2, <1>7, <1>8, <1>9, <1>10, <1>11 DEF SInv

LEMMA BatchReturnSInv ==
    ASSUME SInv, BatchReturn
    PROVE  SInv'
<1>1. /\ phase = "place" /\ phase' = "none" /\ no_match_rows = <<>> /\ collision_buf = <<>>
      /\ UNCHANGED vars /\ UNCHANGED <<batch, roundVars>> /\ served' = served
      /\ simd_round' = 1
  BY DEF BatchReturn
<1>2. /\ TypeOK' /\ RowsRight' /\ num_chunks' = num_chunks /\ chunks' = chunks /\ rows' = rows
      /\ pc' = pc
  BY <1>1, TableKept
<1>3. /\ batch' = batch /\ active' = active /\ candidates' = candidates
      /\ no_match_rows' = no_match_rows /\ collision_buf' = collision_buf
      /\ Apart' /\ Covered' /\ CandidatesRight' /\ ServedRight'
  BY <1>1, <1>2, SameLists
<1>4. SimdTypeOK'
  BY <1>1, <1>2, <1>3 DEF SInv, SimdTypeOK
<1>5. Control' /\ Stages' /\ OnPaths'
  BY <1>1, <1>2, <1>3 DEF SInv, Control, Stages, OnPaths
<1> QED
  BY <1>2, <1>3, <1>4, <1>5 DEF SInv

LEMMA NextSInv == SimdAssumption /\ SInv /\ [SimdNext]_allVars => SInv'
<1> SUFFICES ASSUME SimdAssumption, SInv, [SimdNext]_allVars PROVE SInv'
  OBVIOUS
<1>1. ASSUME NEW B \in Batches, EmplaceBatch(B) PROVE SInv'
  BY <1>1, CallSInv
<1>2. CASE RoundTop \/ LookupDone \/ CompareDone
  BY <1>2, StageSInv
<1>3. CASE RoundExpand
  BY <1>3, RoundExpandSInv
<1>4. CASE ExpandInRound
  BY <1>4, ExpandInRoundSInv
<1>5. CASE ExpandReturns
  BY <1>5, ExpandReturnsSInv
<1>6. CASE LookupHit
  BY <1>6, LookupHitSInv
<1>7. CASE LookupMiss
  BY <1>7, LookupMissSInv
<1>8. CASE CompareMatch
  BY <1>8, CompareMatchSInv
<1>9. CASE CompareDiffer
  BY <1>9, CompareDifferSInv
<1>10. CASE PlaceNew
  BY <1>10, PlaceNewSInv
<1>11. CASE PlaceLater
  BY <1>11, PlaceLaterSInv
<1>12. CASE NextRound
  BY <1>12, NextRoundSInv
<1>13. CASE BatchReturn
  BY <1>13, BatchReturnSInv
<1>14. CASE UNCHANGED allVars
  <2>1. /\ UNCHANGED vars /\ UNCHANGED <<batch, roundVars>> /\ phase' = phase
        /\ row_positions' = row_positions /\ simd_round' = simd_round /\ served' = served
    BY <1>14 DEF allVars, simdVars
  <2>2. /\ TypeOK' /\ RowsRight' /\ num_chunks' = num_chunks /\ chunks' = chunks /\ rows' = rows
        /\ pc' = pc /\ after' = after
    BY <2>1, TableKept
  <2>3. /\ batch' = batch /\ active' = active /\ candidates' = candidates
        /\ no_match_rows' = no_match_rows /\ collision_buf' = collision_buf
        /\ Active' = Active /\ Compared' = Compared /\ Unplaced' = Unplaced /\ Later' = Later
        /\ Apart' /\ Covered' /\ CandidatesRight' /\ ServedRight' /\ \A r : H(r)' = H(r)
    BY <2>1, <2>2, SameLists
  <2>4. SimdTypeOK' /\ Control' /\ Stages'
    BY <2>1, <2>2, <2>3 DEF SInv, SimdTypeOK, Control, Stages
  <2>5. OnPaths'
    BY <2>1, <2>2, <2>3 DEF SInv, OnPaths, OnPathAt
  <2> QED
    BY <2>2, <2>3, <2>4, <2>5 DEF SInv
<1> QED
  BY <1>1, <1>2, <1>3, <1>4, <1>5, <1>6, <1>7, <1>8, <1>9, <1>10, <1>11, <1>12, <1>13, <1>14
     DEF SimdNext, SimdStep

LEMMA SInvCorrect == SimdSpec => []SInv
<1>1. SimdInit => SInv
  BY InitSInv
<1>2. SInv /\ [SimdNext]_allVars => SInv'
  BY SimdAssumption, NextSInv
<1> QED
  BY <1>1, <1>2, PTL DEF SimdSpec

(***************************************************************************)
(* The lists of a round name rows of the batch, its candidates are stored   *)
(* rows, and every position is a chunk of the table of that moment, also    *)
(* for rows that were served before the table doubled.                      *)
(***************************************************************************)
THEOREM SimdTypeCorrect == SimdSpec => []SimdTypeOK
<1>1. SInv => SimdTypeOK
  BY DEF SInv
<1> QED
  BY <1>1, SInvCorrect, PTL

(***************************************************************************)
(* A round tries its rows at the next chunk of their own probe sequences,   *)
(* behind full chunks only, whether or not the table has doubled since they *)
(* collided.  Holds for repeated keys and shared hashes as well.            *)
(***************************************************************************)
THEOREM SimdOnPath == SimdSpec => []ActiveOnPath
<1>1. SInv => ActiveOnPath
  <2> SUFFICES ASSUME SInv PROVE ActiveOnPath
    OBVIOUS
  <2>1. ActiveRows = Active /\ \A i \in DOMAIN collision_buf : collision_buf[i] \in Later
    BY DEF ActiveRows, Active, Later, Elem
  <2>2. ASSUME NEW r, NEW k, OnPathAt(r, k)
        PROVE  /\ row_positions[r] = Probe(num_chunks, HashOf[batch[r]], k)
               /\ FullBefore(chunks, num_chunks, HashOf[batch[r]], k)
    BY <2>2 DEF OnPathAt, OnPath, H
  <2>3. phase \in {"lookup", "place"} =>
           /\ \A r \in Active : OnPathAt(r, simd_round - 1)
           /\ \A r \in Later : OnPathAt(r, simd_round)
    BY DEF SInv, OnPaths
  <2> QED
    BY <2>1, <2>2, <2>3 DEF ActiveOnPath
<1> QED
  BY <1>1, SInvCorrect, PTL

(***************************************************************************)
(* When a batch returns, on_update has been called for each of its rows and *)
(* was given a group of the row's own key: no list drops a row, whatever    *)
(* repetitions the batch has.                                               *)
(***************************************************************************)
THEOREM SimdRowsServed == SimdSpec => []EveryRowServed
<1>1. SInv => EveryRowServed
  <2> SUFFICES ASSUME SInv, phase = "none", NEW r \in DOMAIN batch
               PROVE  served[r] # 0 /\ rows[served[r]] = batch[r]
    BY DEF EveryRowServed
  <2>1. Active = {} /\ Compared = {} /\ Unplaced = {} /\ Later = {}
    BY EmptyLists DEF SInv, Stages
  <2> QED
    BY <2>1 DEF SInv, Covered, ServedRight
<1> QED
  BY <1>1, SInvCorrect, PTL

-----------------------------------------------------------------------------
(***************************************************************************)
(* Batches without repetitions.  A row is never looked up again in the      *)
(* round it is placed in, so that it makes one group per key needs that no  *)
(* other row of its batch has its key, and no stored row its hash.          *)
(***************************************************************************)

DistinctHashes ==
    /\ \A B \in Batches : Once(B)
    /\ \A B, C \in Batches : \A i \in DOMAIN B, j \in DOMAIN C :
          HashOf[B[i]] = HashOf[C[j]] => B[i] = C[j]

FromBatches ==
    /\ \A i \in DOMAIN rows : \E B \in Batches : \E j \in DOMAIN B : rows[i] = B[j]
    /\ batch = <<>> \/ batch \in Batches

(* The hash of a row is in none of the chunks the row has been tried at. *)
UnmatchedIn(C, n, h, k) == \A j \in 0 .. k - 1 : HashMatches(C[Probe(n, h, j)], h) = {}
Unmatched(r, k) == UnmatchedIn(chunks, num_chunks, H(r), k)
Unseen ==
    phase \notin {"none", "expand"} =>
        /\ \A r \in Active \cup Compared \cup Unplaced : Unmatched(r, simd_round - 1)
        /\ \A r \in Later : Unmatched(r, simd_round)

(* Nor is it in the chunk a row without a candidate is to be placed in. *)
NotHere ==
    \A r \in Unplaced : HashMatches(chunks[row_positions[r]], H(r)) = {}

DInv == IInv /\ FromBatches /\ Unseen /\ NotHere

LEMMA BatchDistinct ==
    ASSUME DistinctHashes, SInv, FromBatches
    PROVE  /\ \A r, q \in DOMAIN batch : H(r) = H(q) => r = q
           /\ \A r \in DOMAIN batch, i \in DOMAIN rows : HashOf[rows[i]] = H(r) => rows[i] = batch[r]
<1>1. CASE batch = <<>>
  BY <1>1, EmptyQueue
<1>2. CASE batch \in Batches
  <2>1. ASSUME NEW r \in DOMAIN batch, NEW q \in DOMAIN batch, H(r) = H(q) PROVE r = q
    <3>1. batch[r] = batch[q]
      BY <1>2, <2>1 DEF DistinctHashes, H
    <3> QED
      BY <1>2, <3>1 DEF DistinctHashes, Once
  <2>2. ASSUME NEW r \in DOMAIN batch, NEW i \in DOMAIN rows, HashOf[rows[i]] = H(r)
        PROVE  rows[i] = batch[r]
    <3>1. PICK B \in Batches : \E j \in DOMAIN B : rows[i] = B[j]
      BY DEF FromBatches
    <3>2. PICK j \in DOMAIN B : rows[i] = B[j]
      BY <3>1
    <3>3. HashOf[B[j]] = HashOf[batch[r]]
      BY <2>2, <3>2 DEF H
    <3> QED
      BY <1>2, <3>2, <3>3 DEF DistinctHashes
  <2> QED
    BY <2>1, <2>2
<1> QED
  BY <1>1, <1>2 DEF FromBatches

(* A slot taken for one hash is no match of another. *)
LEMMA OtherHash ==
    ASSUME TypeOK, TagsRight, NEW l, NEW x,
           AddedAt(num_chunks, chunks, chunks', l, x),
           NEW h \in Nat, x.key # h,
           NEW c \in 0 .. num_chunks - 1, HashMatches(chunks[c], h) = {}
    PROVE  HashMatches(chunks'[c], h) = {}
<1> SUFFICES ASSUME NEW s \in HashMatches(chunks'[c], h) PROVE FALSE
  OBVIOUS
<1> DEFINE m == <<c, s>>
<1>1. s \in Slots /\ chunks'[c][s].tag # EMPTY_TAG /\ chunks'[c][s].key = h
  BY MatchInUse DEF HashMatches
<1>2. chunks' \in [0 .. num_chunks - 1 -> [Slots -> Slot]]
  BY DEF AddedAt
<1>3. m \in Occupied(chunks') /\ At(chunks', m) = chunks'[c][s]
  BY <1>1, <1>2 DEF Occupied, At
<1>4. m # l
  BY <1>1, <1>3 DEF AddedAt
<1>5. m \in Occupied(chunks) /\ At(chunks', m) = At(chunks, m)
  BY <1>3, <1>4 DEF AddedAt
<1>6. At(chunks, m).key = h /\ At(chunks, m).tag = TagHash(At(chunks, m).key)
  BY <1>1, <1>3, <1>5 DEF TagsRight
<1>7. m[2] \in HashMatches(chunks[m[1]], At(chunks, m).key)
  BY <1>5, <1>6, MatchTagSelf
<1> QED
  BY <1>6, <1>7

LEMMA TableKeptIInv ==
    ASSUME SInv, IInv, UNCHANGED vars
    PROVE  IInv'
BY NextIInv DEF SInv, SimdTypeOK

(***************************************************************************)
(* A step that leaves the table, the batch and what is counted of each row  *)
(* alone, and takes no row into a list it was not in or behind one that     *)
(* says more of it.                                                         *)
(***************************************************************************)
LEMMA ListsDInv ==
    ASSUME SInv, DInv, UNCHANGED vars, batch' = batch, row_positions' = row_positions,
           simd_round' = simd_round, phase \notin {"none", "expand"},
           Active' \cup Compared' \cup Unplaced' \subseteq Active \cup Compared \cup Unplaced,
           Later' = Later,
           \A r \in Unplaced' \ Unplaced : HashMatches(chunks[row_positions[r]], H(r)) = {}
    PROVE  DInv'
<1>1. /\ num_chunks' = num_chunks /\ chunks' = chunks /\ rows' = rows /\ IInv'
  BY TableKept, TableKeptIInv DEF DInv
<1>2. \A r : H(r)' = H(r)
  BY DEF H
<1>3. FromBatches'
  BY <1>1 DEF DInv, FromBatches
<1>4. Unseen'
  BY <1>1, <1>2 DEF DInv, Unseen, Unmatched
<1>5. NotHere'
  BY <1>1, <1>2 DEF DInv, NotHere
<1> QED
  BY <1>1, <1>3, <1>4, <1>5 DEF DInv

LEMMA InitDInv == SimdInit => DInv
<1> SUFFICES ASSUME SimdInit PROVE DInv
  OBVIOUS
<1>1. /\ Init /\ batch = <<>> /\ phase = "none" /\ no_match_rows = <<>>
  BY DEF SimdInit
<1>2. IInv /\ rows = <<>>
  BY <1>1, InitIInv DEF Init
<1>3. FromBatches /\ Unseen
  BY <1>1, <1>2, EmptyQueue DEF FromBatches, Unseen
<1>4. NotHere
  BY <1>1, EmptyLists DEF NotHere
<1> QED
  BY <1>2, <1>3, <1>4 DEF DInv

LEMMA CallDInv ==
    ASSUME SInv, DInv, NEW B \in Batches, EmplaceBatch(B)
    PROVE  DInv'
<1>1. /\ phase = "none" /\ batch' = B /\ simd_round' = 1
      /\ candidates' = candidates /\ no_match_rows' = no_match_rows
      /\ collision_buf' = collision_buf /\ UNCHANGED vars
  BY DEF EmplaceBatch
<1>2. num_chunks' = num_chunks /\ chunks' = chunks /\ rows' = rows /\ IInv'
  BY <1>1, TableKept, TableKeptIInv DEF DInv
<1>3. no_match_rows = <<>> /\ collision_buf = <<>>
  BY <1>1 DEF SInv, Stages
<1>4. Unplaced' = {} /\ Later' = {}
  BY <1>1, <1>3, EmptyLists DEF Unplaced, Later
<1>5. FromBatches' /\ NotHere'
  BY <1>1, <1>2, <1>4 DEF DInv, FromBatches, NotHere
<1>6. Unseen'
  BY <1>1, <1>4 DEF Unseen, Unmatched, UnmatchedIn
<1> QED
  BY <1>2, <1>5, <1>6 DEF DInv

(* The steps of a round that place nothing. *)
LEMMA ListStepDInv ==
    ASSUME DistinctHashes, SInv, DInv,
           \/ RoundTop \/ LookupDone \/ CompareDone
           \/ LookupHit \/ LookupMiss \/ CompareMatch \/ CompareDiffer
    PROVE  DInv'
<1>1. CASE RoundTop \/ LookupDone \/ CompareDone
  <2>1. /\ UNCHANGED vars /\ UNCHANGED <<batch, roundVars>> /\ row_positions' = row_positions
        /\ simd_round' = simd_round /\ batch' = batch /\ phase \notin {"none", "expand"}
    BY <1>1 DEF RoundTop, LookupDone, CompareDone
  <2>2. Active' = Active /\ Compared' = Compared /\ Unplaced' = Unplaced /\ Later' = Later
    BY <2>1, SameLists
  <2> QED
    BY <2>1, <2>2, ListsDInv
<1>2. CASE LookupHit
  <2> DEFINE r == Head(active)
  <2>1. /\ phase = "lookup" /\ active # <<>> /\ active' = Tail(active)
        /\ UNCHANGED vars /\ batch' = batch /\ row_positions' = row_positions
        /\ simd_round' = simd_round /\ no_match_rows' = no_match_rows
        /\ collision_buf' = collision_buf
    BY <1>2 DEF LookupHit
  <2>2. Active = Active' \cup {r} /\ Unplaced' = Unplaced /\ Later' = Later
    BY <2>1, LookupFacts DEF Active, Unplaced, Later
  <2>3. Compared' \subseteq Compared \cup {r}
    <3>1. candidates \in Seq([row : DOMAIN batch, value : Nat]) /\ r \in DOMAIN batch
      BY <2>1, SimdTypes, LookupFacts DEF SInv
    <3>2. PICK s : candidates' = Append(candidates, [row |-> r, value |-> chunks[row_positions[r]][s].value])
      BY <1>2 DEF LookupHit
    <3> DEFINE x == [row |-> r, value |-> chunks[row_positions[r]][s].value]
               n == Len(candidates)
    <3>3. x.row = r /\ candidates' = Append(candidates, x)
      BY <3>2
    <3> HIDE DEF r, x
    <3>4. n \in Nat /\ DOMAIN candidates = 1 .. n
      BY <3>1
    <3>5. /\ DOMAIN candidates' = 1 .. n + 1 /\ candidates'[n + 1] = x
          /\ \A i \in 1 .. n : candidates'[i] = candidates[i]
      BY <3>1, <3>3
    <3> HIDE DEF n
    <3>6. ASSUME NEW i \in DOMAIN candidates' PROVE candidates'[i].row \in Compared \cup {r}
      <4>1. CASE i = n + 1
        BY <3>3, <3>5, <4>1
      <4>2. CASE i # n + 1
        <5>1. i \in DOMAIN candidates /\ candidates'[i] = candidates[i]
          BY <3>4, <3>5, <4>2
        <5> QED
          BY <5>1 DEF Compared, Elem, RowsOf
      <4> QED
        BY <4>1, <4>2
    <3> QED
      BY <3>6 DEF Compared, Elem, RowsOf
  <2> QED
    BY <2>1, <2>2, <2>3, ListsDInv
<1>3. CASE LookupMiss
  <2> DEFINE r == Head(active)
  <2>1. /\ phase = "lookup" /\ active # <<>> /\ active' = Tail(active) /\ HitSlots(r) = {}
        /\ UNCHANGED vars /\ batch' = batch /\ row_positions' = row_positions
        /\ simd_round' = simd_round /\ no_match_rows' = Append(no_match_rows, r)
        /\ candidates' = candidates /\ collision_buf' = collision_buf
    BY <1>3 DEF LookupMiss
  <2>2. /\ Active = Active' \cup {r} /\ Compared' = Compared /\ Later' = Later /\ r \in DOMAIN batch
        /\ HashMatches(chunks[row_positions[r]], H(r)) = {}
    BY <2>1, LookupFacts DEF Active, Compared, Later
  <2>3. no_match_rows \in Seq(DOMAIN batch)
    BY SimdTypes DEF SInv
  <2>4. Unplaced' = Unplaced \cup {r}
    <3> HIDE DEF r
    <3> QED
      BY <2>1, <2>2, <2>3, AddLast DEF Unplaced
  <2> HIDE DEF r
  <2> QED
    BY <2>1, <2>2, <2>4, ListsDInv
<1>4. CASE CompareMatch
  <2>1. /\ phase = "compare" /\ candidates # <<>> /\ candidates' = Tail(candidates)
        /\ UNCHANGED vars /\ batch' = batch /\ row_positions' = row_positions
        /\ simd_round' = simd_round /\ no_match_rows' = no_match_rows
        /\ active' = active /\ collision_buf' = collision_buf
    BY <1>4 DEF CompareMatch
  <2>2. Compared' \subseteq Compared /\ Active' = Active /\ Unplaced' = Unplaced /\ Later' = Later
    BY <2>1, CompareFacts DEF Compared, Active, Unplaced, Later
  <2> QED
    BY <2>1, <2>2, ListsDInv
<1>5. CASE CompareDiffer
  <2> DEFINE c == Head(candidates)
  <2>1. phase = "compare" /\ candidates # <<>> /\ rows[c.value] # batch[c.row]
    BY <1>5 DEF CompareDiffer
  <2>2. c.row \in DOMAIN batch /\ c.value \in DOMAIN rows /\ HashOf[rows[c.value]] = H(c.row)
    BY <2>1, CompareFacts
  <2>3. rows[c.value] = batch[c.row]
    BY <2>2, BatchDistinct DEF DInv
  <2> QED
    BY <2>1, <2>3
<1> QED
  BY <1>1, <1>2, <1>3, <1>4, <1>5

LEMMA ExpandDInv ==
    ASSUME SInv, DInv, RoundExpand \/ ExpandInRound \/ ExpandReturns
    PROVE  DInv'
<1>1. TypeOK /\ IInv /\ (pc = "idle" => Pending = {})
  BY DEF SInv, SimdTypeOK, DInv, IInv, RehashRight
<1>2. phase \in {"round", "expand"} /\ no_match_rows = <<>> /\ collision_buf = <<>> /\ candidates = <<>>
  BY DEF RoundExpand, ExpandInRound, ExpandReturns, SInv, Stages
<1>3. /\ UNCHANGED <<batch, roundVars>> /\ rows' = rows
  BY DEF RoundExpand, ExpandInRound, ExpandReturns, simdVars, emplaceVars, vars
<1>4. /\ batch' = batch /\ Active' = Active /\ Compared' = Compared
      /\ Unplaced' = Unplaced /\ Later' = Later
  BY <1>3, SameLists
<1>5. Compared = {} /\ Unplaced = {} /\ Later = {}
  BY <1>2, EmptyLists
<1>6. FromBatches' /\ NotHere'
  BY <1>3, <1>4, <1>5 DEF DInv, FromBatches, NotHere
<1>7. CASE RoundExpand
  <2>1. StartExpand("idle") /\ pc = "idle" /\ phase' = "expand"
    BY <1>7 DEF RoundExpand, SInv, Control
  <2>2. IInv'
    BY <1>1, <1>3, <2>1, StartExpandIInv
  <2> QED
    BY <1>6, <2>1, <2>2 DEF DInv, Unseen
<1>8. CASE ExpandInRound
  <2>1. IInv' /\ phase' = "expand"
    BY <1>1, <1>8, NextIInv DEF ExpandInRound, simdVars, Next, Step
  <2> QED
    BY <1>6, <2>1 DEF DInv, Unseen
<1>9. CASE ExpandReturns
  <2>1. UNCHANGED vars /\ simd_round' = 1
    BY <1>9 DEF ExpandReturns
  <2>2. IInv'
    BY <2>1, TableKeptIInv DEF DInv
  <2>3. Unseen'
    BY <1>4, <1>5, <2>1 DEF Unseen, Unmatched, UnmatchedIn
  <2> QED
    BY <1>6, <2>2, <2>3 DEF DInv
<1> QED
  BY <1>7, <1>8, <1>9

(* No group has the row's key: not in the chunks before, nor in this one. *)
LEMMA PlaceNewIInv ==
    ASSUME SInv, DInv, PlaceNew
    PROVE  IInv' /\ TagsRight
<1> DEFINE r == Head(no_match_rows)
           p == row_positions[r]
           key == batch[r]
           t == simd_round - 1
<1>1. /\ phase = "place" /\ no_match_rows # <<>> /\ pc = "idle" /\ num_chunks' = num_chunks
      /\ UNCHANGED rehashVars /\ pc' = pc
  BY DEF PlaceNew, SInv, Control
<1>2. /\ r \in Unplaced /\ r \in DOMAIN batch /\ H(r) \in Nat /\ key \in Keys
      /\ p \in 0 .. num_chunks - 1 /\ OnPathAt(r, t) /\ H(r) = HashOf[key]
  BY <1>1, PlaceFacts DEF H
<1>3. TypeOK /\ IInv /\ t \in Nat
  BY SimdTypes DEF SInv, DInv
<1>4. Pending = {} /\ Pending' = {}
  BY <1>1, <1>3 DEF IInv, RehashRight, Pending, rehashVars
<1>5. PICK s \in MatchEmpty(chunks[p]) :
         AddedAt(num_chunks, chunks, chunks', <<p, s>>,
                 [tag |-> TagHash(H(r)), key |-> H(r), value |-> Len(rows) + 1])
  BY NewRow
<1>6. rows' = Append(rows, key)
  BY NewRow
<1>7. OnPath(chunks, num_chunks, HashOf[key], p, t)
  BY <1>2 DEF OnPathAt
<1>8. \A i \in DOMAIN rows : rows[i] # key
  <2>1. Unmatched(r, t) /\ HashMatches(chunks[p], HashOf[key]) = {}
    BY <1>1, <1>2 DEF DInv, Unseen, NotHere
  <2>2. \A j \in 0 .. t - 1 : KeyMatches(chunks[Probe(num_chunks, HashOf[key], j)], key) = {}
    BY <1>2, <2>1 DEF Unmatched, UnmatchedIn, KeyMatches
  <2>3. KeyMatches(chunks[p], key) = {}
    BY <2>1 DEF KeyMatches
  <2>4. ~IsFull(chunks[p])
    BY DEF IsFull
  <2> HIDE DEF key, p, t, r
  <2> QED
    BY <1>2, <1>3, <1>4, <1>7, <2>2, <2>3, <2>4, PathComplete
<1>9. AddedAt(num_chunks, chunks, chunks', <<p, s>>,
              [tag |-> TagHash(HashOf[key]), key |-> HashOf[key], value |-> Len(rows) + 1])
  BY <1>2, <1>5
<1>10. Placed' /\ TagsRight' /\ RowsRight' /\ NoneLost' /\ NoneTwice' /\ KeysDistinct'
  <2> HIDE DEF key, p, t, r
  <2> QED
    BY <1>1, <1>2, <1>3, <1>4, <1>6, <1>7, <1>8, <1>9, InsertIInv
<1>11. RehashRight' /\ ScanRight'
  BY <1>1, <1>3, <1>4 DEF IInv, RehashRight, ScanRight, Pending, rehashVars
<1>12. IInv' /\ TagsRight
  BY <1>3, <1>10, <1>11 DEF IInv
<1> QED
  BY <1>12

LEMMA PlaceNewDInv ==
    ASSUME DistinctHashes, SimdAssumption, SInv, DInv, PlaceNew
    PROVE  DInv'
<1> DEFINE r == Head(no_match_rows)
           p == row_positions[r]
           x == [tag |-> TagHash(H(r)), key |-> H(r), value |-> Len(rows) + 1]
<1>1. /\ phase = "place" /\ phase' = phase /\ no_match_rows # <<>>
      /\ no_match_rows' = Tail(no_match_rows) /\ num_chunks' = num_chunks /\ batch' = batch
      /\ active' = active /\ candidates' = candidates /\ row_positions' = row_positions
      /\ simd_round' = simd_round /\ collision_buf' = collision_buf
  BY DEF PlaceNew
<1>2. /\ r \in DOMAIN batch /\ Unplaced = Unplaced' \cup {r} /\ r \notin Unplaced'
      /\ r \notin Later
  BY <1>1, PlaceFacts DEF Unplaced
<1>3. /\ Active = {} /\ Compared = {} /\ Active' = {} /\ Compared' = {} /\ Later' = Later
  BY <1>1, EmptyLists DEF SInv, Stages, Active, Compared, Later
<1>4. PICK s : AddedAt(num_chunks, chunks, chunks', <<p, s>>, x)
  BY NewRow
<1>5. IInv' /\ TagsRight /\ TypeOK
  BY PlaceNewIInv DEF SInv, SimdTypeOK
<1>6. /\ num_chunks \in Nat \ {0} /\ chunks \in [0 .. num_chunks - 1 -> [Slots -> Slot]]
      /\ simd_round \in Nat /\ simd_round - 1 \in Nat
      /\ Unplaced \subseteq DOMAIN batch /\ Later \subseteq DOMAIN batch
      /\ row_positions \in [DOMAIN batch -> 0 .. num_chunks - 1]
      /\ \A q \in DOMAIN batch : H(q) \in Nat
  BY <1>1, SimdTypes DEF SInv
<1>7. \A q \in DOMAIN batch \ {r} : x.key # H(q)
  <2>1. x.key = H(r)
    OBVIOUS
  <2> QED
    BY <1>2, <2>1, BatchDistinct DEF DInv
<1> HIDE DEF r, x
<1>8. ASSUME NEW q \in DOMAIN batch \ {r}, NEW c \in 0 .. num_chunks - 1,
             HashMatches(chunks[c], H(q)) = {}
      PROVE  HashMatches(chunks'[c], H(q)) = {}
  <2> DEFINE h == H(q)
             l == <<p, s>>
  <2>1. h \in Nat /\ x.key # h /\ HashMatches(chunks[c], h) = {}
    BY <1>6, <1>7, <1>8
  <2>2. AddedAt(num_chunks, chunks, chunks', l, x)
    BY <1>4
  <2> HIDE DEF h, l
  <2>3. HashMatches(chunks'[c], h) = {}
    BY <1>5, <2>1, <2>2, OtherHash
  <2> QED
    BY <2>3 DEF h
<1>9. \A q : H(q)' = H(q)
  BY <1>1 DEF H
<1>10. FromBatches'
  <2>1. batch # <<>>
    BY <1>2, EmptyQueue
  <2>2. batch \in Batches
    BY <2>1 DEF DInv, FromBatches
  <2>3. ASSUME NEW i \in DOMAIN rows' PROVE \E B \in Batches : \E j \in DOMAIN B : rows'[i] = B[j]
    <3>1. /\ DOMAIN rows' = 1 .. Len(rows) + 1 /\ rows'[Len(rows) + 1] = batch[r]
          /\ \A k \in DOMAIN rows : rows'[k] = rows[k]
      BY NewRow DEF r
    <3>2. Len(rows) \in Nat /\ DOMAIN rows = 1 .. Len(rows)
      BY SimdTypes DEF SInv
    <3>3. CASE i = Len(rows) + 1
      BY <1>2, <2>2, <3>1, <3>3
    <3>4. CASE i # Len(rows) + 1
      <4>1. i \in DOMAIN rows
        BY <3>1, <3>2, <3>4
      <4> QED
        BY <3>1, <4>1 DEF DInv, FromBatches
    <3> QED
      BY <3>3, <3>4
  <2> QED
    BY <1>1, <2>2, <2>3 DEF FromBatches
<1>11. ASSUME NEW q \in DOMAIN batch \ {r}, NEW k \in Nat, Unmatched(q, k)
       PROVE  UnmatchedIn(chunks', num_chunks, H(q), k)
  <2> SUFFICES ASSUME NEW j \in 0 .. k - 1
               PROVE  HashMatches(chunks'[Probe(num_chunks, H(q), j)], H(q)) = {}
    BY DEF UnmatchedIn
  <2>1. Probe(num_chunks, H(q), j) \in 0 .. num_chunks - 1
    <3>1. H(q) \in Nat /\ j \in Nat /\ num_chunks \in Nat \ {0}
      BY <1>6
    <3> QED
      BY <3>1, ProbeStep
  <2>2. HashMatches(chunks[Probe(num_chunks, H(q), j)], H(q)) = {}
    BY <1>11 DEF Unmatched, UnmatchedIn
  <2> QED
    BY <1>8, <2>1, <2>2
<1>12. Unseen'
  <2>1. /\ \A q \in Unplaced : Unmatched(q, simd_round - 1)
        /\ \A q \in Later : Unmatched(q, simd_round)
    BY <1>1 DEF DInv, Unseen
  <2>2. /\ \A q \in Unplaced' : UnmatchedIn(chunks', num_chunks, H(q), simd_round - 1)
        /\ \A q \in Later : UnmatchedIn(chunks', num_chunks, H(q), simd_round)
    BY <1>2, <1>6, <1>11, <2>1
  <2> QED
    BY <1>1, <1>3, <1>9, <2>2 DEF Unseen, Unmatched
<1>13. NotHere'
  <2>1. \A q \in Unplaced' : HashMatches(chunks'[row_positions[q]], H(q)) = {}
    BY <1>2, <1>6, <1>8 DEF DInv, NotHere
  <2> QED
    BY <1>1, <1>9, <2>1 DEF NotHere
<1> QED
  BY <1>5, <1>10, <1>12, <1>13 DEF DInv

LEMMA PlaceLaterDInv ==
    ASSUME SInv, DInv, PlaceLater
    PROVE  DInv'
<1> DEFINE r == Head(no_match_rows)
           p == row_positions[r]
<1>1. /\ phase = "place" /\ phase' = phase /\ no_match_rows # <<>>
      /\ no_match_rows' = Tail(no_match_rows) /\ collision_buf' = Append(collision_buf, r)
      /\ row_positions' = [row_positions EXCEPT ![r] = RehashPos(num_chunks, simd_round, p)]
      /\ UNCHANGED vars /\ batch' = batch /\ active' = active /\ candidates' = candidates
      /\ simd_round' = simd_round
  BY DEF PlaceLater
<1>2. num_chunks' = num_chunks /\ chunks' = chunks /\ rows' = rows /\ IInv'
  BY <1>1, TableKept, TableKeptIInv DEF DInv
<1>3. /\ r \in DOMAIN batch /\ r \in Unplaced /\ Unplaced = Unplaced' \cup {r} /\ r \notin Unplaced'
      /\ OnPathAt(r, simd_round - 1)
  BY <1>1, PlaceFacts DEF Unplaced
<1>4. collision_buf \in Seq(DOMAIN batch) /\ row_positions \in [DOMAIN batch -> 0 .. num_chunks - 1]
  BY <1>1, SimdTypes DEF SInv
<1>5. simd_round \in Nat /\ \A j \in 0 .. simd_round - 1 : j = simd_round - 1 \/ j \in 0 .. (simd_round - 1) - 1
  <2>1. simd_round \in Nat \ {0}
    BY SimdTypes DEF SInv
  <2> QED
    BY <2>1
<1>6. Unplaced \subseteq DOMAIN batch
  BY SimdTypes DEF SInv
<1> HIDE DEF r
<1>7. Later' = Later \cup {r}
  BY <1>1, <1>3, <1>4, AddLast DEF Later
<1>8. \A q \in DOMAIN batch \ {r} : row_positions'[q] = row_positions[q]
  BY <1>1, <1>4
<1>9. /\ Active' = Active /\ Compared' = Compared /\ \A q : H(q)' = H(q)
  BY <1>1 DEF Active, Compared, H
<1>10. FromBatches'
  BY <1>1, <1>2 DEF DInv, FromBatches
<1>11. Unmatched(r, simd_round)
  <2>1. Unmatched(r, simd_round - 1) /\ HashMatches(chunks[p], H(r)) = {}
    BY <1>1, <1>3 DEF DInv, Unseen, NotHere
  <2>2. p = Probe(num_chunks, H(r), simd_round - 1)
    BY <1>3 DEF OnPathAt, OnPath
  <2> HIDE DEF p
  <2> QED
    BY <1>5, <2>1, <2>2 DEF Unmatched, UnmatchedIn
<1>12. Unseen'
  <2>1. /\ \A q \in Active \cup Compared \cup Unplaced : Unmatched(q, simd_round - 1)
        /\ \A q \in Later \cup {r} : Unmatched(q, simd_round)
    BY <1>1, <1>11 DEF DInv, Unseen
  <2> QED
    BY <1>1, <1>2, <1>3, <1>7, <1>9, <2>1 DEF Unseen, Unmatched
<1>13. NotHere'
  <2>1. \A q \in Unplaced' : q \in DOMAIN batch \ {r} /\ q \in Unplaced
    BY <1>3, <1>6
  <2> QED
    BY <1>2, <1>8, <1>9, <2>1 DEF DInv, NotHere
<1> QED
  BY <1>2, <1>10, <1>12, <1>13 DEF DInv

LEMMA RoundEndDInv ==
    ASSUME SInv, DInv, NextRound \/ BatchReturn
    PROVE  DInv'
<1>1. /\ phase = "place" /\ no_match_rows = <<>> /\ no_match_rows' = <<>> /\ UNCHANGED vars
      /\ batch' = batch /\ candidates' = candidates
  BY DEF NextRound, BatchReturn, roundVars
<1>2. num_chunks' = num_chunks /\ chunks' = chunks /\ rows' = rows /\ IInv'
  BY <1>1, TableKept, TableKeptIInv DEF DInv
<1>3. candidates = <<>>
  BY <1>1 DEF SInv, Stages
<1>4. Compared' = {} /\ Unplaced' = {}
  BY <1>1, <1>3, EmptyLists DEF Compared, Unplaced
<1>5. FromBatches' /\ NotHere'
  BY <1>1, <1>2, <1>4 DEF DInv, FromBatches, NotHere
<1>6. CASE NextRound
  <2>1. active' = collision_buf /\ collision_buf' = <<>> /\ simd_round' = simd_round + 1
    BY <1>6 DEF NextRound
  <2>2. Active' = Later /\ Later' = {} /\ \A q : H(q)' = H(q)
    BY <1>1, <2>1, EmptyQueue DEF Active, Later, H
  <2>3. (simd_round + 1) - 1 = simd_round
    BY SimdTypes DEF SInv
  <2>4. Unseen'
    BY <1>1, <1>2, <1>4, <2>1, <2>2, <2>3 DEF DInv, Unseen, Unmatched
  <2> QED
    BY <1>2, <1>5, <2>4 DEF DInv
<1>7. CASE BatchReturn
  BY <1>2, <1>5, <1>7 DEF DInv, Unseen, BatchReturn
<1> QED
  BY <1>6, <1>7

LEMMA NextDInv ==
    ASSUME DistinctHashes, SimdAssumption
    PROVE  SInv /\ DInv /\ [SimdNext]_allVars => DInv'
<1> SUFFICES ASSUME SInv, DInv, [SimdNext]_allVars PROVE DInv'
  OBVIOUS
<1>1. ASSUME NEW B \in Batches, EmplaceBatch(B) PROVE DInv'
  BY <1>1, CallDInv
<1>2. CASE \/ RoundTop \/ LookupDone \/ CompareDone
           \/ LookupHit \/ LookupMiss \/ CompareMatch \/ CompareDiffer
  BY <1>2, ListStepDInv
<1>3. CASE RoundExpand \/ ExpandInRound \/ ExpandReturns
  BY <1>3, ExpandDInv
<1>4. CASE PlaceNew
  BY <1>4, PlaceNewDInv
<1>5. CASE PlaceLater
  BY <1>5, PlaceLaterDInv
<1>6. CASE NextRound \/ BatchReturn
  BY <1>6, RoundEndDInv
<1>7. CASE UNCHANGED allVars
  <2>1. /\ UNCHANGED vars /\ UNCHANGED <<batch, roundVars>> /\ phase' = phase
        /\ row_positions' = row_positions /\ simd_round' = simd_round
    BY <1>7 DEF allVars, simdVars
  <2>2. num_chunks' = num_chunks /\ chunks' = chunks /\ rows' = rows /\ IInv'
    BY <2>1, TableKept, TableKeptIInv DEF DInv
  <2>3. /\ batch' = batch /\ Active' = Active /\ Compared' = Compared
        /\ Unplaced' = Unplaced /\ Later' = Later /\ \A q : H(q)' = H(q)
    BY <2>1, SameLists
  <2>4. FromBatches' /\ NotHere'
    BY <2>1, <2>2, <2>3 DEF DInv, FromBatches, NotHere
  <2>5. Unseen'
    BY <2>1, <2>2, <2>3 DEF DInv, Unseen, Unmatched
  <2> QED
    BY <2>2, <2>4, <2>5 DEF DInv
<1> QED
  BY <1>1, <1>2, <1>3, <1>4, <1>5, <1>6, <1>7 DEF SimdNext, SimdStep

(***************************************************************************)
(* Between the calls, every group the batches made is in one slot, and no   *)
(* two slots stand for one key, provided no batch names a key twice and no  *)
(* two keys share a hash.                                                   *)
(***************************************************************************)
THEOREM SimdOneGroup ==
    ASSUME DistinctHashes
    PROVE  SimdSpec => [](NoGroupTwice /\ OneGroupPerKey)
<1>1. SimdInit => SInv /\ DInv
  BY InitSInv, InitDInv
<1>2. SInv /\ DInv /\ [SimdNext]_allVars => SInv' /\ DInv'
  BY SimdAssumption, NextSInv, NextDInv
<1>3. SInv /\ DInv => NoGroupTwice /\ OneGroupPerKey
  BY IInvOneGroup DEF SInv, SimdTypeOK, DInv, IInv, KeysDistinct, NoGroupTwice
<1> QED
  BY <1>1, <1>2, <1>3, PTL DEF SimdSpec
=============================================================================
