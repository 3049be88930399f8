------------------------ MODULE RowContainer_proofs ------------------------
(***************************************************************************)
(* Proofs about rows and varchar blocks, for any row layout, any strings,   *)
(* any number of rows and any growth of the arena below them; about the     *)
(* drivers that fill and use them; and about the words of MemoryWords.      *)
(***************************************************************************)
EXTENDS RowCases, MemoryWords, DataFacts

-----------------------------------------------------------------------------
(* The layout of a row. *)

LEMMA QuotientBounds ==
    ASSUME NEW a \in Nat, NEW b \in Nat \ {0}
    PROVE  a \div b \in Nat /\ b * (a \div b) <= a /\ a < b * (a \div b) + b
OBVIOUS

LEMMA OffsetFacts ==
    ASSUME key_sizes \in Seq(Nat)
    PROVE  /\ NumKeys \in Nat
           /\ \A c \in 1 .. NumKeys : ColumnSize(c) \in Nat \ {0}
           /\ \A c \in 1 .. NumKeys + 1 : Offset(c) \in Nat /\ Offset(c) <= NullBlockStart
           /\ \A c \in 1 .. NumKeys, d \in 1 .. NumKeys + 1 :
                 c < d => Offset(c) + ColumnSize(c) <= Offset(d)
<1> DEFINE size == [d \in 1 .. NumKeys |-> ColumnSize(d)]
<1>1. NumKeys \in Nat /\ \A c \in 1 .. NumKeys : key_sizes[c] \in Nat
  BY DEF NumKeys
<1>2. \A c \in 1 .. NumKeys : ColumnSize(c) \in Nat \ {0}
  BY <1>1, ContainerAssumption DEF ColumnSize
<1>3. \A c \in 1 .. NumKeys : size[c] = ColumnSize(c)
  OBVIOUS
<1>4. \A c : Offset(c) = SumTo(size, c - 1)
  BY DEF Offset
<1> HIDE DEF size
<1>5. NumbersTo(size, NumKeys)
  BY <1>2, <1>3 DEF NumbersTo
<1>6. \A k \in 0 .. NumKeys : NumbersTo(size, k)
  BY <1>1, <1>5 DEF NumbersTo
<1>7. ASSUME NEW x \in 0 .. NumKeys, NEW y \in 0 .. NumKeys, x <= y
      PROVE  SumTo(size, x) \in Nat /\ SumTo(size, y) \in Nat /\ SumTo(size, x) <= SumTo(size, y)
  <2>1. y \in Nat /\ NumbersTo(size, y) /\ x \in 0 .. y
    BY <1>1, <1>6, <1>7
  <2> QED
    BY <2>1, SumGrows
<1>8. ASSUME NEW c \in 1 .. NumKeys + 1 PROVE Offset(c) \in Nat /\ Offset(c) <= NullBlockStart
  <2>1. c - 1 \in 0 .. NumKeys /\ NumKeys \in 0 .. NumKeys /\ c - 1 <= NumKeys /\ (NumKeys + 1) - 1 = NumKeys
    BY <1>1
  <2> QED
    BY <1>4, <1>7, <2>1 DEF NullBlockStart
<1>9. ASSUME NEW c \in 1 .. NumKeys, NEW d \in 1 .. NumKeys + 1, c < d
      PROVE  Offset(c) + ColumnSize(c) <= Offset(d)
  <2>1. c - 1 \in Nat /\ (c - 1) + 1 = c /\ c \in 0 .. NumKeys /\ d - 1 \in 0 .. NumKeys /\ c <= d - 1
    BY <1>1, <1>9
  <2>2. SumTo(size, c) = SumTo(size, c - 1) + size[c]
    BY <2>1, SumStep
  <2>3. SumTo(size, c) <= SumTo(size, d - 1)
    BY <1>7, <2>1
  <2> QED
    BY <1>3, <1>4, <2>2, <2>3
<1> QED
  BY <1>1, <1>2, <1>8, <1>9

LEMMA NullByteFacts ==
    ASSUME key_sizes \in Seq(Nat), NEW c \in 1 .. NumKeys
    PROVE  /\ NullByte(c) \in Nat /\ NullBlockStart \in Nat
           /\ NullBlockStart <= NullByte(c) /\ NullByte(c) + 1 <= AggStateOffset
<1> DEFINE N == NumKeys
           B == NULL_BITS
           q == (c - 1) \div B
           r == (N + B - 1) \div B
<1>1. N \in Nat /\ B \in Nat \ {0} /\ c - 1 \in Nat /\ c - 1 < N /\ N + B - 1 \in Nat
  BY OffsetFacts, ContainerAssumption
<1>2. NullBlockStart \in Nat
  <2>1. N + 1 \in 1 .. N + 1
    BY <1>1
  <2> QED
    BY <2>1, OffsetFacts DEF NullBlockStart
<1>3. NullByte(c) = NullBlockStart + q /\ AggStateOffset = NullBlockStart + r
  BY DEF NullByte, AggStateOffset, NullBytes
<1>4. q \in Nat /\ B * q <= c - 1
  BY <1>1, QuotientBounds
<1>5. r \in Nat /\ N + B - 1 < B * r + B
  BY <1>1, QuotientBounds
<1> HIDE DEF q, r, N, B
<1>6. q < r
  <2>1. q >= r => B * q >= B * r
    BY <1>1, <1>4, <1>5, Z3
  <2>2. B * q \in Nat /\ B * r \in Nat
    BY <1>1, <1>4, <1>5
  <2> QED
    BY <1>1, <1>4, <1>5, <2>1, <2>2
<1> QED
  BY <1>2, <1>3, <1>4, <1>5, <1>6

LEMMA RowSizeType ==
    ASSUME key_sizes \in Seq(Nat)
    PROVE  AggStateOffset \in Nat /\ RowSize \in Nat \ {0} /\ NullBlockStart <= AggStateOffset
<1>1. NumKeys \in Nat /\ NumKeys + 1 \in 1 .. NumKeys + 1
  BY OffsetFacts
<1>2. NullBlockStart \in Nat
  BY <1>1, OffsetFacts DEF NullBlockStart
<1>3. NullBytes \in Nat
  <2>1. NumKeys + NULL_BITS - 1 \in Nat /\ NULL_BITS \in Nat \ {0}
    BY <1>1, ContainerAssumption
  <2> QED
    BY <2>1, QuotientBounds DEF NullBytes
<1>4. AggStateSize \in Nat \ {0}
  BY ContainerAssumption
<1> QED
  BY <1>2, <1>3, <1>4 DEF AggStateOffset, RowSize

LEMMA FieldsApart ==
    ASSUME key_sizes \in Seq(Nat)
    PROVE  Disjoint(Fields)
<1> DEFINE Key(c) == Region(0, Offset(c), ColumnSize(c))
           Null(c) == Region(0, NullByte(c), 1)
           Agg == Region(0, AggStateOffset, AggStateSize)
<1>1. ASSUME NEW c \in 1 .. NumKeys, NEW d \in 1 .. NumKeys, Key(c) # Key(d)
      PROVE  Apart(Offset(c), ColumnSize(c), Offset(d), ColumnSize(d))
  <2>1. c # d /\ c \in Nat /\ d \in Nat /\ c \in 1 .. NumKeys + 1 /\ d \in 1 .. NumKeys + 1
    BY <1>1, OffsetFacts
  <2>2. CASE c < d
    BY <2>1, <2>2, OffsetFacts DEF Apart
  <2>3. CASE d < c
    BY <2>1, <2>3, OffsetFacts DEF Apart
  <2> QED
    BY <2>1, <2>2, <2>3
<1>2. ASSUME NEW c \in 1 .. NumKeys
      PROVE  Offset(c) + ColumnSize(c) <= NullBlockStart /\ Offset(c) \in Nat /\ ColumnSize(c) \in Nat
  <2>1. NumKeys + 1 \in 1 .. NumKeys + 1 /\ c < NumKeys + 1 /\ c \in 1 .. NumKeys + 1
    BY OffsetFacts
  <2> QED
    BY <2>1, OffsetFacts DEF NullBlockStart
<1>3. ASSUME NEW c \in 1 .. NumKeys, NEW d \in 1 .. NumKeys, Null(c) # Null(d)
      PROVE  Apart(NullByte(c), 1, NullByte(d), 1)
  <2>1. NullByte(c) # NullByte(d)
    BY <1>3
  <2>2. NullByte(c) \in Nat /\ NullByte(d) \in Nat
    BY NullByteFacts
  <2> QED
    BY <2>1, <2>2 DEF Apart
<1>4. ASSUME NEW c \in 1 .. NumKeys, NEW d \in 1 .. NumKeys
      PROVE  /\ Apart(Offset(c), ColumnSize(c), NullByte(d), 1)
             /\ Apart(NullByte(d), 1, Offset(c), ColumnSize(c))
  BY <1>2, NullByteFacts DEF Apart
<1>5. ASSUME NEW c \in 1 .. NumKeys
      PROVE  /\ Apart(Offset(c), ColumnSize(c), AggStateOffset, AggStateSize)
             /\ Apart(AggStateOffset, AggStateSize, Offset(c), ColumnSize(c))
  <2>1. NullBlockStart <= AggStateOffset /\ NullBlockStart \in Nat /\ AggStateOffset \in Nat
    BY RowSizeType, NullByteFacts
  <2> QED
    BY <1>2, <2>1 DEF Apart
<1>6. ASSUME NEW c \in 1 .. NumKeys
      PROVE  /\ Apart(NullByte(c), 1, AggStateOffset, AggStateSize)
             /\ Apart(AggStateOffset, AggStateSize, NullByte(c), 1)
  BY NullByteFacts DEF Apart
<1>7. SUFFICES ASSUME NEW g \in Fields, NEW h \in Fields, g # h
               PROVE  Apart(g.at, g.size, h.at, h.size)
  BY DEF Disjoint
<1>8. /\ \/ \E c \in 1 .. NumKeys : g = Key(c)
         \/ \E c \in 1 .. NumKeys : g = Null(c)
         \/ g = Agg
      /\ \/ \E c \in 1 .. NumKeys : h = Key(c)
         \/ \E c \in 1 .. NumKeys : h = Null(c)
         \/ h = Agg
  BY DEF Fields
<1>9. /\ \A c : Key(c).at = Offset(c) /\ Key(c).size = ColumnSize(c)
      /\ \A c : Null(c).at = NullByte(c) /\ Null(c).size = 1
      /\ Agg.at = AggStateOffset /\ Agg.size = AggStateSize
  BY DEF Region
<1> HIDE DEF Key, Null, Agg
<1>10. CASE \E c \in 1 .. NumKeys : g = Key(c)
  BY <1>1, <1>4, <1>5, <1>7, <1>8, <1>9, <1>10
<1>11. CASE \E c \in 1 .. NumKeys : g = Null(c)
  BY <1>3, <1>4, <1>6, <1>7, <1>8, <1>9, <1>11
<1>12. CASE g = Agg
  BY <1>5, <1>6, <1>7, <1>8, <1>9, <1>12
<1> QED
  BY <1>8, <1>10, <1>11, <1>12

-----------------------------------------------------------------------------
(* The arena. *)

(* The bump pointer is inside the last chunk. *)
ArenaOK(a) ==
    /\ a = [sizes |-> a.sizes, at |-> a.at]
    /\ a.sizes \in Seq(Nat) /\ a.at \in Nat
    /\ IF a.sizes = <<>> THEN a.at = 0 ELSE a.at <= a.sizes[Len(a.sizes)]

(* A region that was handed out. *)
InArena(g, a) ==
    /\ g.chunk \in 1 .. Len(a.sizes) /\ g.at \in Nat /\ g.size \in Nat
    /\ g.at + g.size <= a.sizes[g.chunk]
    /\ g.chunk = Len(a.sizes) => g.at + g.size <= a.at

LEMMA MultipleCovers ==
    ASSUME NEW size \in Nat, NEW b \in Nat \ {0}
    PROVE  /\ ((size + b - 1) \div b) * b \in Nat
           /\ ((size + b - 1) \div b) * b >= size
<1> DEFINE q == (size + b - 1) \div b
<1>1. size + b - 1 \in Nat
  OBVIOUS
<1>2. q \in Nat /\ size + b - 1 < b * q + b
  BY <1>1, QuotientBounds
<1> HIDE DEF q
<1>3. q * b = b * q /\ b * q \in Nat
  BY <1>2
<1> QED
  BY <1>2, <1>3 DEF q

LEMMA NextChunkFits ==
    ASSUME NEW sizes \in Seq(Nat), NEW size \in Nat
    PROVE  NextChunkSize(sizes, size) \in Nat /\ size <= NextChunkSize(sizes, size)
<1> USE ArenaAssumption
<1>1. CASE sizes = <<>>
  BY <1>1 DEF NextChunkSize, MaxOf
<1>2. CASE sizes # <<>>
  <2> DEFINE last == sizes[Len(sizes)]
  <2>1. last \in Nat
    BY <1>2
  <2> HIDE DEF last
  <2>2. CASE last < LINEAR_GROWTH_THRESHOLD
    <3>1. last * GROWTH_FACTOR \in Nat
      BY <2>1
    <3> QED
      BY <1>2, <2>2, <3>1 DEF NextChunkSize, MaxOf, last
  <2>3. CASE ~(last < LINEAR_GROWTH_THRESHOLD)
    <3>1. NextChunkSize(sizes, size) =
            ((size + LINEAR_GROWTH_THRESHOLD - 1) \div LINEAR_GROWTH_THRESHOLD)
                * LINEAR_GROWTH_THRESHOLD
      BY <1>2, <2>3 DEF NextChunkSize, last
    <3> QED
      BY <3>1, MultipleCovers
  <2> QED
    BY <2>2, <2>3
<1> QED
  BY <1>1, <1>2

(* The next bytes are apart from all that was handed out. *)
LEMMA PlacedIsFree ==
    ASSUME NEW a, ArenaOK(a), NEW size \in Nat
    PROVE  /\ PlacedIn(a, size) \in [chunk : Nat, at : Nat]
           /\ \A g : InArena(g, a) /\ g.chunk = PlacedIn(a, size).chunk =>
                 /\ Apart(g.at, g.size, PlacedIn(a, size).at, size)
                 /\ g.at + g.size <= PlacedIn(a, size).at
<1> USE DEF ArenaOK
<1>1. CASE Available(a) < size
  <2>1. PlacedIn(a, size) = [chunk |-> Len(a.sizes) + 1, at |-> 0]
    BY <1>1 DEF PlacedIn
  <2> QED
    BY <2>1 DEF InArena
<1>2. CASE ~(Available(a) < size)
  <2>1. PlacedIn(a, size) = [chunk |-> Len(a.sizes), at |-> a.at]
    BY <1>2 DEF PlacedIn
  <2> QED
    BY <2>1 DEF InArena, Apart
<1> QED
  BY <1>1, <1>2

LEMMA AllocatedFacts ==
    ASSUME NEW a, ArenaOK(a), NEW size \in Nat \ {0}
    PROVE  /\ ArenaOK(Allocated(a, size))
           /\ InArena(Region(PlacedIn(a, size).chunk, PlacedIn(a, size).at, size),
                      Allocated(a, size))
           /\ \A g : InArena(g, a) => InArena(g, Allocated(a, size))
<1> USE DEF ArenaOK
<1> DEFINE p == PlacedIn(a, size)
           b == Allocated(a, size)
           n == NextChunkSize(a.sizes, size)
<1>1. n \in Nat /\ size <= n
  BY NextChunkFits
<1>2. CASE Available(a) < size
  <2>1. p = [chunk |-> Len(a.sizes) + 1, at |-> 0]
    BY <1>2 DEF PlacedIn
  <2>2. b = [sizes |-> Append(a.sizes, n), at |-> size]
    <3>1. p.chunk > Len(a.sizes) /\ p.at + size = size
      BY <2>1
    <3> QED
      BY <3>1 DEF Allocated
  <2> HIDE DEF n, b, p
  <2>3. /\ Append(a.sizes, n) \in Seq(Nat) /\ Append(a.sizes, n) # <<>>
        /\ Len(Append(a.sizes, n)) = Len(a.sizes) + 1
        /\ Append(a.sizes, n)[Len(a.sizes) + 1] = n
        /\ \A i \in 1 .. Len(a.sizes) : Append(a.sizes, n)[i] = a.sizes[i]
    BY <1>1
  <2>4. ArenaOK(b)
    BY <1>1, <2>2, <2>3
  <2>5. InArena(Region(p.chunk, p.at, size), b)
    BY <1>1, <2>1, <2>2, <2>3 DEF InArena, Region
  <2>6. ASSUME NEW g, InArena(g, a) PROVE InArena(g, b)
    <3>1. /\ g.chunk \in 1 .. Len(a.sizes) /\ g.at \in Nat /\ g.size \in Nat
          /\ g.at + g.size <= a.sizes[g.chunk]
      BY <2>6 DEF InArena
    <3>2. Len(a.sizes) \in Nat
      OBVIOUS
    <3> QED
      BY <2>2, <2>3, <3>1, <3>2 DEF InArena
  <2> QED
    BY <2>4, <2>5, <2>6 DEF p, b
<1>3. CASE ~(Available(a) < size)
  <2>1. p = [chunk |-> Len(a.sizes), at |-> a.at]
    BY <1>3 DEF PlacedIn
  <2>2. b = [sizes |-> a.sizes, at |-> a.at + size]
    BY <2>1 DEF Allocated
  <2>3. a.sizes # <<>> /\ a.at + size <= a.sizes[Len(a.sizes)] /\ Len(a.sizes) \in Nat \ {0}
    <3>1. a.sizes # <<>>
      BY <1>3 DEF Available
    <3>2. a.sizes[Len(a.sizes)] \in Nat /\ Len(a.sizes) \in Nat \ {0}
      BY <3>1
    <3> QED
      BY <1>3, <3>1, <3>2 DEF Available
  <2> HIDE DEF b, p
  <2>4. ArenaOK(b)
    BY <2>2, <2>3
  <2>5. InArena(Region(p.chunk, p.at, size), b)
    BY <2>1, <2>2, <2>3 DEF InArena, Region
  <2>6. ASSUME NEW g, InArena(g, a) PROVE InArena(g, b)
    BY <2>2, <2>6 DEF InArena
  <2> QED
    BY <2>4, <2>5, <2>6 DEF p, b
<1> QED
  BY <1>2, <1>3

(* Regions that were handed out one after the other. *)
FamilyOK(f, a) ==
    /\ \A p \in DOMAIN f : InArena(f[p], a)
    /\ \A p, q \in DOMAIN f :
          p # q /\ f[p].chunk = f[q].chunk =>
              Apart(f[p].at, f[p].size, f[q].at, f[q].size)

With(f, n, g) == [p \in DOMAIN f \cup {n} |-> IF p = n THEN g ELSE f[p]]

LEMMA FamilyGrows ==
    ASSUME NEW f, NEW a, ArenaOK(a), FamilyOK(f, a), NEW size \in Nat \ {0},
           NEW n, n \notin DOMAIN f
    PROVE  LET p == PlacedIn(a, size) IN
           FamilyOK(With(f, n, Region(p.chunk, p.at, size)), Allocated(a, size))
<1> DEFINE p == PlacedIn(a, size)
           b == Allocated(a, size)
           g == Region(p.chunk, p.at, size)
           w == With(f, n, g)
<1>1. InArena(g, b) /\ \A h : InArena(h, a) => InArena(h, b)
  BY AllocatedFacts
<1>2. \A h : InArena(h, a) /\ h.chunk = p.chunk => Apart(h.at, h.size, p.at, size)
  BY PlacedIsFree
<1>3. g.chunk = p.chunk /\ g.at = p.at /\ g.size = size
  BY DEF Region
<1>4. DOMAIN w = DOMAIN f \cup {n} /\ w[n] = g /\ \A x \in DOMAIN f : w[x] = f[x]
  BY DEF With
<1> HIDE DEF p, b, g, w
<1>5. \A x \in DOMAIN f : InArena(f[x], a)
  BY DEF FamilyOK
<1>6. \A x \in DOMAIN w : InArena(w[x], b)
  BY <1>1, <1>4, <1>5
<1>7. ASSUME NEW x \in DOMAIN w, NEW y \in DOMAIN w, x # y, w[x].chunk = w[y].chunk
      PROVE  Apart(w[x].at, w[x].size, w[y].at, w[y].size)
  <2>1. CASE x = n
    <3>1. y \in DOMAIN f /\ w[y] = f[y]
      BY <1>4, <1>7, <2>1
    <3>2. Apart(f[y].at, f[y].size, p.at, size)
      BY <1>2, <1>3, <1>4, <1>5, <1>7, <2>1, <3>1
    <3> QED
      BY <1>3, <1>4, <2>1, <3>1, <3>2 DEF Apart
  <2>2. CASE y = n
    <3>1. x \in DOMAIN f /\ w[x] = f[x]
      BY <1>4, <1>7, <2>2
    <3>2. Apart(f[x].at, f[x].size, p.at, size)
      BY <1>2, <1>3, <1>4, <1>5, <1>7, <2>2, <3>1
    <3> QED
      BY <1>3, <1>4, <2>2, <3>1, <3>2
  <2>3. CASE x # n /\ y # n
    BY <1>4, <1>7, <2>3 DEF FamilyOK
  <2> QED
    BY <2>1, <2>2, <2>3
<1> QED
  BY <1>6, <1>7 DEF FamilyOK, p, b, g, w

-----------------------------------------------------------------------------
(* The entries of a block. *)

Values0 == Strings \cup {None}

(* The bytes a length is written in hold all of it. *)
LEMMA LengthKept ==
    ASSUME NEW len \in Nat
    PROVE  LowBytes(len, RowLenSize(len)) = len
<1>1. CASE len <= 255
  <2>1. RowLenSize(len) = 1 /\ len % 256 = len
    BY <1>1 DEF RowLenSize
  <2>2. 256^1 = 256
    OBVIOUS
  <2> QED
    BY <2>1, <2>2 DEF LowBytes
<1>2. CASE ~(len <= 255) /\ len <= 65535
  <2>1. RowLenSize(len) = 2 /\ len % 65536 = len
    BY <1>2 DEF RowLenSize
  <2>2. 256^2 = 65536
    OBVIOUS
  <2> QED
    BY <2>1, <2>2 DEF LowBytes
<1>3. CASE ~(len <= 255) /\ ~(len <= 65535)
  BY <1>3 DEF RowLenSize, LowBytes
<1> QED
  BY <1>1, <1>2, <1>3

LEMMA EntryFacts ==
    ASSUME NEW s \in Values0
    PROVE  /\ Written(s) \in Nat \ {0} /\ RoomFor(s) = Written(s)
           /\ SerializedSize(Serialized(s)) = Written(s)
           /\ Serialized(s).data = s
           /\ s = None => Serialized(s) = NullMarker /\ Written(s) = 1
<1>1. CASE s = None
  BY <1>1 DEF Written, RoomFor, SerializedSize, Serialized, NullMarker
<1>2. CASE s # None
  <2>1. s \in Strings /\ s.len \in Nat
    BY <1>2, StringsAssumption DEF Values0
  <2>2. RowLenSize(s.len) \in {1, 2, 4}
    BY DEF RowLenSize
  <2>3. LowBytes(s.len, RowLenSize(s.len)) = s.len
    BY <2>1, LengthKept
  <2>4. Serialized(s) = [row_len_size |-> RowLenSize(s.len), string_len |-> s.len, data |-> s]
    BY <1>2, <2>3 DEF Serialized
  <2>5. Written(s) = 1 + RowLenSize(s.len) + s.len /\ RoomFor(s) = Written(s)
    BY <1>2 DEF Written, RoomFor
  <2>6. SerializedSize(Serialized(s)) = 1 + RowLenSize(s.len) + s.len
    BY <2>2, <2>4 DEF SerializedSize
  <2> QED
    BY <1>2, <2>1, <2>2, <2>4, <2>5, <2>6
<1> QED
  BY <1>1, <1>2

(* An entry compares equal to its own string and to no other. *)
LEMMA CompareExact ==
    ASSUME NEW t \in Values0, NEW s \in Strings
    PROVE  CompareFromRow(Serialized(t), s) <=> t = s
<1>1. s # None /\ s.len \in Nat /\ (s.len = 0 => s = Empty)
  BY StringsAssumption
<1>2. CASE t = None
  BY <1>1, <1>2 DEF CompareFromRow, Serialized, NullMarker
<1>3. CASE t # None
  <2>1. t \in Strings
    BY <1>3 DEF Values0
  <2>2. t.len \in Nat /\ (t.len = 0 => t = Empty)
    BY <2>1, StringsAssumption
  <2>3. RowLenSize(t.len) # 0
    BY DEF RowLenSize
  <2>4. LowBytes(t.len, RowLenSize(t.len)) = t.len
    BY <2>2, LengthKept
  <2>5. Serialized(t) = [row_len_size |-> RowLenSize(t.len), string_len |-> t.len, data |-> t]
    BY <1>3, <2>4 DEF Serialized
  <2> QED
    BY <1>1, <2>2, <2>3, <2>5 DEF CompareFromRow
<1> QED
  BY <1>2, <1>3

(* Where the v-th entry of a block begins. *)
Sizes(values) == [v \in DOMAIN values |-> Written(values[v])]
EntryStart(values, v) == SumTo(Sizes(values), v - 1)

LEMMA EntryStarts ==
    ASSUME NEW values \in Seq(Values0)
    PROVE  /\ TotalSize(values) \in Nat
           /\ TotalSize(values) = SumTo(Sizes(values), Len(values))
           /\ NumbersTo(Sizes(values), Len(values))
           /\ \A v \in DOMAIN values :
                 /\ EntryStart(values, v) \in Nat /\ Written(values[v]) \in Nat \ {0}
                 /\ EntryStart(values, v) + Written(values[v]) <= TotalSize(values)
           /\ \A v, u \in DOMAIN values : v < u =>
                 EntryStart(values, v) + Written(values[v]) <= EntryStart(values, u)
           /\ Len(values) = 0 => TotalSize(values) = 0
<1> DEFINE f == Sizes(values)
           n == Len(values)
<1>1. n \in Nat /\ DOMAIN values = 1 .. n /\ \A v \in 1 .. n : values[v] \in Values0
  OBVIOUS
<1>2. \A v \in 1 .. n : f[v] = Written(values[v]) /\ f[v] \in Nat \ {0} /\ RoomFor(values[v]) = f[v]
  BY <1>1, EntryFacts DEF Sizes
<1>3. NumbersTo(f, n)
  BY <1>2 DEF NumbersTo
<1>4. TotalSize(values) = SumTo(f, n)
  <2> DEFINE g == [v \in DOMAIN values |-> RoomFor(values[v])]
  <2>1. \A v \in 1 .. n : g[v] = f[v]
    BY <1>1, <1>2
  <2>2. TotalSize(values) = SumTo(g, n)
    BY DEF TotalSize
  <2> HIDE DEF f, g, n
  <2>3. SumTo(g, n) = SumTo(f, n)
    BY <1>1, <2>1, SumSame
  <2> QED
    BY <2>2, <2>3
<1> HIDE DEF f
<1>5. ASSUME NEW x \in 0 .. n, NEW y \in 0 .. n, x <= y
      PROVE  SumTo(f, x) \in Nat /\ SumTo(f, y) \in Nat /\ SumTo(f, x) <= SumTo(f, y)
  <2>1. y \in Nat /\ x \in 0 .. y /\ NumbersTo(f, y)
    BY <1>1, <1>3, <1>5 DEF NumbersTo
  <2> QED
    BY <2>1, SumGrows
<1>6. ASSUME NEW v \in 1 .. n
      PROVE  SumTo(f, v) = SumTo(f, v - 1) + f[v]
  <2>1. v - 1 \in Nat /\ (v - 1) + 1 = v
    BY <1>1
  <2> QED
    BY <2>1, SumStep
<1>7. n \in 0 .. n
  BY <1>1
<1>8. ASSUME NEW v \in 1 .. n
      PROVE  /\ EntryStart(values, v) \in Nat /\ Written(values[v]) \in Nat \ {0}
             /\ EntryStart(values, v) + Written(values[v]) <= TotalSize(values)
  <2>1. v \in 0 .. n /\ v - 1 \in 0 .. n /\ v <= n
    BY <1>1
  <2>2. SumTo(f, v - 1) \in Nat /\ SumTo(f, v) <= SumTo(f, n)
    BY <1>5, <1>7, <2>1
  <2> QED
    BY <1>2, <1>4, <1>6, <2>2 DEF EntryStart, f
<1>9. ASSUME NEW v \in 1 .. n, NEW u \in 1 .. n, v < u
      PROVE  EntryStart(values, v) + Written(values[v]) <= EntryStart(values, u)
  <2>1. v \in 0 .. n /\ u - 1 \in 0 .. n /\ v <= u - 1
    BY <1>1, <1>9
  <2>2. SumTo(f, v) <= SumTo(f, u - 1)
    BY <1>5, <2>1
  <2> QED
    BY <1>2, <1>6, <2>2 DEF EntryStart, f
<1>10. SumTo(f, n) \in Nat /\ (n = 0 => SumTo(f, n) = 0)
  BY <1>5, <1>7, SumZero
<1> QED
  BY <1>1, <1>3, <1>4, <1>8, <1>9, <1>10 DEF f

-----------------------------------------------------------------------------
(* The memory. *)

Address == [chunk : Nat, at : Nat]

MemOK(m) == \A a \in DOMAIN m : a[2] \in Nat /\ Written(m[a].data) \in Nat \ {0}

EntryAddress(block, values, v) == <<block.chunk, block.at + EntryStart(values, v)>>

(* The entries of the values lie in their block. *)
HoldsBlock(m, block, values) ==
    \A v \in DOMAIN values :
        /\ EntryAddress(block, values, v) \in DOMAIN m
        /\ m[EntryAddress(block, values, v)] = Serialized(values[v])

(* m keeps what is outside the region. *)
KeepsOthers(m, n, chunk, at, size) ==
    \A a \in Spared(m, chunk, at, size) : a \in DOMAIN n /\ n[a] = m[a]

(* A block of entries is not harmed by what is written apart from it. *)
LEMMA BlockStays ==
    ASSUME NEW m, NEW n, NEW block \in Address, NEW values \in Seq(Values0),
           NEW chunk, NEW at \in Nat, NEW size \in Nat,
           HoldsBlock(m, block, values), KeepsOthers(m, n, chunk, at, size),
           \/ TotalSize(values) = 0
           \/ block.chunk # chunk
           \/ Apart(block.at, TotalSize(values), at, size)
    PROVE  HoldsBlock(n, block, values)
<1> SUFFICES ASSUME NEW v \in DOMAIN values
             PROVE  /\ EntryAddress(block, values, v) \in DOMAIN n
                    /\ n[EntryAddress(block, values, v)] = Serialized(values[v])
  BY DEF HoldsBlock
<1> DEFINE a == EntryAddress(block, values, v)
           start == EntryStart(values, v)
           room == Written(values[v])
           whole == TotalSize(values)
<1>1. values[v] \in Values0
  OBVIOUS
<1>2. start \in Nat /\ room \in Nat \ {0} /\ start + room <= whole /\ whole \in Nat
  BY EntryStarts
<1>3. a = <<block.chunk, block.at + start>> /\ block.at \in Nat
  BY DEF EntryAddress, Address
<1>4. a \in DOMAIN m /\ m[a] = Serialized(values[v])
  BY DEF HoldsBlock
<1>5. Written(m[a].data) = room
  BY <1>1, <1>4, EntryFacts
<1> HIDE DEF a, start, room, whole
<1>6. a[1] = block.chunk /\ a[2] = block.at + start
  BY <1>3
<1>7. a \in Spared(m, chunk, at, size)
  <2>1. CASE block.chunk # chunk
    BY <1>4, <1>6, <2>1 DEF Spared
  <2>2. CASE Apart(block.at, whole, at, size)
    <3>1. Apart(a[2], room, at, size)
      BY <1>2, <1>3, <1>6, <2>2 DEF Apart
    <3> QED
      BY <1>4, <1>5, <3>1 DEF Spared
  <2> QED
    BY <1>2, <2>1, <2>2 DEF whole
<1> QED
  BY <1>4, <1>7 DEF KeepsOthers, a

(* Taking a region and filling it with zeros. *)
LEMMA ZeroedKeeps ==
    ASSUME NEW m, MemOK(m), NEW chunk, NEW at, NEW size
    PROVE  LET n == [a \in Spared(m, chunk, at, size) |-> m[a]] IN
           KeepsOthers(m, n, chunk, at, size) /\ MemOK(n)
BY DEF KeepsOthers, MemOK, Spared

LEMMA WrittenBlock ==
    ASSUME NEW m, MemOK(m), NEW block \in Address, NEW values \in Seq(Values0)
    PROVE  LET n == WriteBlock(m, block, values) IN
           /\ KeepsOthers(m, n, block.chunk, block.at, TotalSize(values))
           /\ HoldsBlock(n, block, values)
           /\ MemOK(n)
<1> DEFINE size == TotalSize(values)
           kept == Spared(m, block.chunk, block.at, size)
           written == {<<<<block.chunk, block.at + w[1]>>, w[2]>> : w \in BlockEntries(values)}
           Value(a) == IF a \in kept THEN m[a] ELSE (CHOOSE w \in written : w[1] = a)[2]
           n == [a \in kept \cup {w[1] : w \in written} |-> Value(a)]
           At(v) == EntryAddress(block, values, v)
<1>1. WriteBlock(m, block, values) = n
  BY DEF WriteBlock
<1>2. written = {<<At(v), Serialized(values[v])>> : v \in DOMAIN values}
  <2>1. BlockEntries(values) = {<<EntryStart(values, v), Serialized(values[v])>> : v \in DOMAIN values}
    BY DEF BlockEntries, EntryStart, Sizes
  <2>2. \A v : At(v) = <<block.chunk, block.at + EntryStart(values, v)>>
    BY DEF EntryAddress
  <2> HIDE DEF At
  <2>3. ASSUME NEW w \in written
        PROVE  \E v \in DOMAIN values : w = <<At(v), Serialized(values[v])>>
    <3>1. PICK e \in BlockEntries(values) : w = <<<<block.chunk, block.at + e[1]>>, e[2]>>
      OBVIOUS
    <3>2. PICK v \in DOMAIN values : e = <<EntryStart(values, v), Serialized(values[v])>>
      BY <2>1
    <3> QED
      BY <2>2, <3>1, <3>2
  <2>4. ASSUME NEW v \in DOMAIN values PROVE <<At(v), Serialized(values[v])>> \in written
    <3> DEFINE e == <<EntryStart(values, v), Serialized(values[v])>>
    <3>1. e \in BlockEntries(values) /\ e[1] = EntryStart(values, v) /\ e[2] = Serialized(values[v])
      BY <2>1
    <3> HIDE DEF e
    <3>2. <<<<block.chunk, block.at + e[1]>>, e[2]>> \in written
      BY <3>1
    <3> QED
      BY <2>2, <3>1, <3>2
  <2> HIDE DEF written
  <2> QED
    BY <2>3, <2>4
<1>3. block.at \in Nat /\ size \in Nat
  BY EntryStarts DEF Address
<1>4. ASSUME NEW v \in DOMAIN values
      PROVE  /\ EntryStart(values, v) \in Nat /\ Written(values[v]) \in Nat \ {0}
             /\ EntryStart(values, v) + Written(values[v]) <= size
             /\ At(v) = <<block.chunk, block.at + EntryStart(values, v)>>
             /\ values[v] \in Values0
  BY EntryStarts DEF EntryAddress
<1>5. ASSUME NEW v \in DOMAIN values, NEW u \in DOMAIN values, At(v) = At(u) PROVE v = u
  <2>1. EntryStart(values, v) = EntryStart(values, u)
    BY <1>3, <1>4, <1>5
  <2>2. v \in Nat /\ u \in Nat
    OBVIOUS
  <2>3. ~(v < u) /\ ~(u < v)
    BY <1>4, <2>1, EntryStarts
  <2> QED
    BY <2>2, <2>3
<1>6. ASSUME NEW v \in DOMAIN values PROVE At(v) \notin kept
  <2> SUFFICES ASSUME At(v) \in kept PROVE FALSE
    OBVIOUS
  <2>1. At(v)[1] = block.chunk /\ At(v)[2] = block.at + EntryStart(values, v)
    BY <1>4
  <2>2. /\ At(v) \in DOMAIN m
        /\ Apart(At(v)[2], Written(m[At(v)].data), block.at, size)
    BY <2>1 DEF Spared
  <2>3. Written(m[At(v)].data) \in Nat \ {0}
    BY <2>2 DEF MemOK
  <2> QED
    BY <1>3, <1>4, <2>1, <2>2, <2>3 DEF Apart
<1>7. {w[1] : w \in written} = {At(v) : v \in DOMAIN values}
  <2> HIDE DEF written, At
  <2>1. ASSUME NEW a \in {w[1] : w \in written} PROVE a \in {At(v) : v \in DOMAIN values}
    <3>1. PICK w \in written : a = w[1]
      OBVIOUS
    <3>2. PICK v \in DOMAIN values : w = <<At(v), Serialized(values[v])>>
      BY <1>2
    <3> QED
      BY <3>1, <3>2
  <2>2. ASSUME NEW v \in DOMAIN values PROVE At(v) \in {w[1] : w \in written}
    <3> DEFINE w == <<At(v), Serialized(values[v])>>
    <3>1. w \in written /\ w[1] = At(v)
      BY <1>2
    <3> QED
      BY <3>1
  <2> QED
    BY <2>1, <2>2
<1> HIDE DEF written, kept, size, At
<1>8. ASSUME NEW v \in DOMAIN values
      PROVE  At(v) \in DOMAIN n /\ n[At(v)] = Serialized(values[v])
  <2> DEFINE w == CHOOSE w \in written : w[1] = At(v)
  <2>1. <<At(v), Serialized(values[v])>> \in written
    BY <1>2
  <2>2. \A x \in written : x[1] = At(v) => x = <<At(v), Serialized(values[v])>>
    <3> SUFFICES ASSUME NEW x \in written, x[1] = At(v)
                 PROVE  x = <<At(v), Serialized(values[v])>>
      OBVIOUS
    <3>1. PICK u \in DOMAIN values : x = <<At(u), Serialized(values[u])>>
      BY <1>2
    <3>2. u = v
      BY <1>5, <3>1
    <3> QED
      BY <3>1, <3>2
  <2>3. w = <<At(v), Serialized(values[v])>>
    BY <2>1, <2>2
  <2>4. At(v) \in DOMAIN n
    BY <1>7
  <2>5. n[At(v)] = w[2]
    BY <1>6, <2>4
  <2> HIDE DEF w, n
  <2> QED
    BY <2>3, <2>4, <2>5
<1>9. KeepsOthers(m, n, block.chunk, block.at, size)
  BY DEF KeepsOthers, kept
<1>10. HoldsBlock(n, block, values)
  <2> HIDE DEF n
  <2> QED
    BY <1>8 DEF HoldsBlock, At
<1>11. MemOK(n)
  <2> SUFFICES ASSUME NEW a \in DOMAIN n PROVE a[2] \in Nat /\ Written(n[a].data) \in Nat \ {0}
    BY DEF MemOK
  <2>1. CASE a \in kept
    <3>1. a \in DOMAIN m /\ n[a] = m[a]
      BY <2>1 DEF kept, Spared
    <3> HIDE DEF n
    <3> QED
      BY <3>1 DEF MemOK
  <2>2. CASE a \notin kept
    <3>1. PICK v \in DOMAIN values : a = At(v)
      BY <1>7, <2>2
    <3>2. n[a] = Serialized(values[v])
      BY <1>8, <3>1
    <3>3. a[2] = block.at + EntryStart(values, v)
      BY <1>4, <3>1
    <3> HIDE DEF n
    <3> QED
      BY <1>3, <1>4, <3>2, <3>3, EntryFacts
  <2> QED
    BY <2>1, <2>2
<1> QED
  BY <1>1, <1>9, <1>10, <1>11 DEF size

-----------------------------------------------------------------------------
(* The walk over a block. *)

WalkedFrom(w, m, block, is_null, n) ==
    w = [k \in 0 .. n |->
            IF k = 0 THEN block.at
            ELSE w[k - 1] + (IF is_null[k] THEN NullStep
                             ELSE SerializedSize(EntryAt(m, block.chunk, w[k - 1])))]

NullBits(values) == [v \in DOMAIN values |-> values[v] = None]

(* The reader finds every entry where it was written. *)
LEMMA WalkFinds ==
    ASSUME NEW m, NEW block \in Address, NEW values \in Seq(Values0),
           HoldsBlock(m, block, values)
    PROVE  WalkBlock(m, block, NullBits(values)) = [v \in DOMAIN values |-> Serialized(values[v])]
<1> DEFINE is_null == NullBits(values)
<1>0. /\ DOMAIN is_null = DOMAIN values /\ is_null \in Seq(BOOLEAN)
      /\ Len(is_null) = Len(values)
      /\ \A v \in DOMAIN values : is_null[v] <=> values[v] = None
  <2>1. DOMAIN values = 1 .. Len(values) /\ Len(values) \in Nat
    OBVIOUS
  <2>2. is_null = [v \in 1 .. Len(values) |-> values[v] = None]
    BY <2>1 DEF NullBits
  <2> HIDE DEF is_null
  <2>3. is_null \in Seq(BOOLEAN) /\ DOMAIN is_null = 1 .. Len(values) /\ Len(is_null) = Len(values)
    BY <2>1, <2>2
  <2>4. \A v \in DOMAIN values : is_null[v] <=> values[v] = None
    BY <2>1, <2>2, Zenon
  <2> QED
    BY <2>1, <2>3, <2>4
<1> HIDE DEF is_null
<1> DEFINE n == Len(values)
           good == [k \in 0 .. n |-> block.at + SumTo(Sizes(values), k)]
           w == CHOOSE w : WalkedFrom(w, m, block, is_null, n)
<1>1. n \in Nat /\ DOMAIN values = 1 .. n /\ DOMAIN is_null = 1 .. n /\ Len(is_null) = n
  BY <1>0
<1>2. ASSUME NEW v \in 1 .. n
      PROVE  /\ EntryAt(m, block.chunk, block.at + SumTo(Sizes(values), v - 1))
                    = Serialized(values[v])
             /\ SumTo(Sizes(values), v) = SumTo(Sizes(values), v - 1) + Written(values[v])
             /\ SumTo(Sizes(values), v - 1) \in Nat
             /\ Written(values[v]) \in Nat
             /\ values[v] \in Values0
  <2>1. v \in DOMAIN values /\ v - 1 \in Nat /\ (v - 1) + 1 = v
    BY <1>1
  <2>2. /\ <<block.chunk, block.at + SumTo(Sizes(values), v - 1)>> \in DOMAIN m
        /\ m[<<block.chunk, block.at + SumTo(Sizes(values), v - 1)>>] = Serialized(values[v])
    BY <2>1 DEF HoldsBlock, EntryAddress, EntryStart
  <2>3. SumTo(Sizes(values), v - 1) \in Nat /\ Written(values[v]) \in Nat
    BY <2>1, EntryStarts DEF EntryStart
  <2>4. Sizes(values)[v] = Written(values[v])
    BY <2>1 DEF Sizes
  <2>5. SumTo(Sizes(values), v) = SumTo(Sizes(values), v - 1) + Sizes(values)[v]
    BY <2>1, SumStep
  <2> QED
    BY <2>1, <2>2, <2>3, <2>4, <2>5 DEF EntryAt
<1>3. WalkedFrom(good, m, block, is_null, n)
  <2>1. ASSUME NEW k \in 0 .. n
        PROVE  good[k] = IF k = 0 THEN block.at
                         ELSE good[k - 1] +
                              (IF is_null[k] THEN NullStep
                               ELSE SerializedSize(EntryAt(m, block.chunk, good[k - 1])))
    <3>1. CASE k = 0
      BY <3>1, SumZero DEF Address
    <3>2. CASE k # 0
      <4>1. k \in 1 .. n /\ k - 1 \in 0 .. n
        BY <1>1, <3>2
      <4>2. good[k] = block.at + SumTo(Sizes(values), k)
            /\ good[k - 1] = block.at + SumTo(Sizes(values), k - 1)
        BY <4>1
      <4> HIDE DEF good
      <4>3. EntryAt(m, block.chunk, good[k - 1]) = Serialized(values[k])
        BY <1>2, <4>1, <4>2
      <4>4. (IF is_null[k] THEN NullStep ELSE SerializedSize(Serialized(values[k])))
                = Written(values[k])
        <5>1. is_null[k] <=> values[k] = None
          BY <1>0, <1>1, <4>1
        <5>2. /\ SerializedSize(Serialized(values[k])) = Written(values[k])
              /\ values[k] = None => Written(values[k]) = 1
          BY <1>2, <4>1, EntryFacts
        <5> QED
          BY <5>1, <5>2 DEF NullStep
      <4>5. block.at \in Nat
        BY DEF Address
      <4>6. good[k] = good[k - 1] + Written(values[k])
        BY <1>2, <4>1, <4>2, <4>5
      <4> QED
        BY <3>2, <4>3, <4>4, <4>6
    <3> QED
      BY <3>1, <3>2
  <2>2. good = [k \in 0 .. n |-> good[k]]
    OBVIOUS
  <2> HIDE DEF good
  <2> QED
    BY <2>1, <2>2 DEF WalkedFrom
<1>4. WalkedFrom(w, m, block, is_null, n)
  BY <1>3
<1>5. WalkBlock(m, block, is_null)
        = [v \in DOMAIN is_null |->
             IF is_null[v] THEN NullMarker ELSE EntryAt(m, block.chunk, w[v - 1])]
  BY <1>1 DEF WalkBlock, WalkedFrom
<1> HIDE DEF w
<1> DEFINE T == {k \in Nat : k <= n => w[k] = good[k]}
<1>6. 0 \in T
  <2>1. 0 \in 0 .. n
    BY <1>1
  <2>2. w[0] = block.at
    BY <1>4, <2>1 DEF WalkedFrom
  <2>3. good[0] = block.at
    BY <2>1, SumZero DEF Address
  <2> QED
    BY <2>2, <2>3
<1>7. ASSUME NEW k \in T PROVE k + 1 \in T
  <2> SUFFICES ASSUME k + 1 <= n PROVE w[k + 1] = good[k + 1]
    OBVIOUS
  <2>1. k \in Nat /\ k <= n /\ k + 1 \in 0 .. n /\ k + 1 # 0 /\ (k + 1) - 1 = k
    BY <1>1
  <2>2. w[k] = good[k]
    BY <2>1
  <2> HIDE DEF good
  <2>3. w[k + 1] = w[k] + (IF is_null[k + 1] THEN NullStep
                           ELSE SerializedSize(EntryAt(m, block.chunk, w[k])))
    BY <1>4, <2>1 DEF WalkedFrom
  <2>4. good[k + 1] = good[k] + (IF is_null[k + 1] THEN NullStep
                           ELSE SerializedSize(EntryAt(m, block.chunk, good[k])))
    BY <1>3, <2>1 DEF WalkedFrom
  <2> QED
    BY <2>2, <2>3, <2>4
<1>8. T = Nat
  <2> HIDE DEF good
  <2> QED
    BY <1>6, <1>7, NatInd
<1>9. ASSUME NEW v \in 1 .. n
      PROVE  (IF is_null[v] THEN NullMarker ELSE EntryAt(m, block.chunk, w[v - 1]))
                = Serialized(values[v])
  <2>1. v - 1 \in Nat /\ v - 1 \in 0 .. n /\ v - 1 <= n
    BY <1>1
  <2>2. w[v - 1] = good[v - 1]
    BY <1>8, <2>1
  <2>3. w[v - 1] = block.at + SumTo(Sizes(values), v - 1)
    BY <2>1, <2>2
  <2>4. EntryAt(m, block.chunk, w[v - 1]) = Serialized(values[v])
    BY <1>2, <2>3
  <2>5. is_null[v] => Serialized(values[v]) = NullMarker
    BY <1>0, <1>1, <1>2, EntryFacts
  <2> QED
    BY <2>4, <2>5
<1> HIDE DEF good, T, n
<1> QED
  BY <1>1, <1>5, <1>9 DEF is_null

-----------------------------------------------------------------------------
(***************************************************************************)
(* The inductive invariant of the container.  What the arena handed out is  *)
(* the row blocks, the varchar blocks of the rows, and the varchar blocks   *)
(* of the cases that store no rows; each is held apart from the others, the *)
(* rows lie in their row blocks one behind the other, and every varchar     *)
(* block still has the entries it was written with.                         *)
(***************************************************************************)

RowRecord == [chunk : Nat, at : Nat, slot : Address, room : Nat, is_null : Seq(BOOLEAN)]

LooseCases == {"serialize", "compare_varchar"}
Loose == {i \in DOMAIN blocks : case \in LooseCases /\ TotalSize(data[i]) > 0}

RowBlockSize == RowSize * BLOCK_ROWS

Taken ==
    [p \in {<<1, b>> : b \in DOMAIN row_blocks} \cup {<<2, i>> : i \in Blocks}
           \cup {<<3, i>> : i \in Loose} |->
        IF p[1] = 1 THEN Region(row_blocks[p[2]].chunk, row_blocks[p[2]].at, RowBlockSize)
        ELSE IF p[1] = 2 THEN Region(rows[p[2]].slot.chunk, rows[p[2]].slot.at, rows[p[2]].room)
        ELSE Region(blocks[p[2]].chunk, blocks[p[2]].at, TotalSize(data[p[2]]))]

RowsTyped ==
    /\ key_sizes \in Seq(Nat)
    /\ row_blocks \in Seq(Address) /\ batch_remaining \in 0 .. BLOCK_ROWS - 1
    /\ rows \in Seq(RowRecord) /\ Len(rows) <= MaxRows
    /\ stored \in Seq(Seq(Values0)) /\ Len(stored) = Len(rows)
    /\ blocks \in Seq(Address)
    /\ case \in LooseCases => \A i \in DOMAIN blocks : data[i] \in Seq(Values0)
    /\ \A i \in DOMAIN rows :
          /\ rows[i].room = TotalSize(stored[i])
          /\ rows[i].is_null = [v \in DOMAIN stored[i] |-> stored[i][v] = None]

RowsPlaced ==
    /\ Len(rows) + batch_remaining = Len(row_blocks) * BLOCK_ROWS
    /\ \A b \in DOMAIN row_blocks, k \in 1 .. BLOCK_ROWS :
          LET n == (b - 1) * BLOCK_ROWS + k IN
          n <= Len(rows) => /\ rows[n].chunk = row_blocks[b].chunk
                            /\ rows[n].at = row_blocks[b].at + (k - 1) * RowSize

HeldIn(m) ==
    /\ MemOK(m)
    /\ \A i \in DOMAIN rows : HoldsBlock(m, rows[i].slot, stored[i])
    /\ case \in LooseCases => \A i \in DOMAIN blocks : HoldsBlock(m, blocks[i], data[i])

ContainerInv ==
    /\ RowsTyped /\ RowsPlaced
    /\ ArenaOK(Current) /\ FamilyOK(Taken, Current)
    /\ HeldIn(mem)

LEMMA PositiveProduct ==
    ASSUME NEW a \in Nat \ {0}, NEW b \in Nat \ {0}
    PROVE  a * b \in Nat \ {0} /\ a * b >= b
<1>1. a * b = (a - 1) * b + b /\ a - 1 \in Nat
  BY Z3
<1>2. (a - 1) * b \in Nat
  BY <1>1
<1> QED
  BY <1>1, <1>2

LEMMA RowBlockType ==
    RowsTyped =>
        RowSize \in Nat \ {0} /\ BLOCK_ROWS \in Nat \ {0} /\ RowBlockSize \in Nat \ {0}
BY RowSizeType, PositiveProduct, ContainerAssumption DEF RowsTyped, RowBlockSize

(* The regions by kind. *)
TakenByKind ==
    /\ \A p : p \in DOMAIN Taken <=>
          \/ \E b \in DOMAIN row_blocks : p = <<1, b>>
          \/ \E i \in Blocks : p = <<2, i>>
          \/ \E i \in Loose : p = <<3, i>>
    /\ \A b \in DOMAIN row_blocks :
          Taken[<<1, b>>] = Region(row_blocks[b].chunk, row_blocks[b].at, RowBlockSize)
    /\ \A i \in Blocks :
          Taken[<<2, i>>] = Region(rows[i].slot.chunk, rows[i].slot.at, rows[i].room)
    /\ \A i \in Loose :
          Taken[<<3, i>>] = Region(blocks[i].chunk, blocks[i].at, TotalSize(data[i]))

LEMMA TakenIs == TakenByKind
<1> DEFINE D == {<<1, b>> : b \in DOMAIN row_blocks} \cup {<<2, i>> : i \in Blocks}
                   \cup {<<3, i>> : i \in Loose}
           R(p) == IF p[1] = 1 THEN Region(row_blocks[p[2]].chunk, row_blocks[p[2]].at, RowBlockSize)
                   ELSE IF p[1] = 2 THEN Region(rows[p[2]].slot.chunk, rows[p[2]].slot.at, rows[p[2]].room)
                   ELSE Region(blocks[p[2]].chunk, blocks[p[2]].at, TotalSize(data[p[2]]))
<1>1. Taken = [p \in D |-> R(p)]
  BY DEF Taken
<1>2. \A p : p \in D <=> \/ \E b \in DOMAIN row_blocks : p = <<1, b>>
                         \/ \E i \in Blocks : p = <<2, i>>
                         \/ \E i \in Loose : p = <<3, i>>
  OBVIOUS
<1> HIDE DEF D
<1>3. ASSUME NEW b \in DOMAIN row_blocks
      PROVE  Taken[<<1, b>>] = Region(row_blocks[b].chunk, row_blocks[b].at, RowBlockSize)
  <2>1. <<1, b>> \in D /\ <<1, b>>[1] = 1 /\ <<1, b>>[2] = b
    BY <1>2
  <2> QED
    BY <1>1, <2>1
<1>4. ASSUME NEW i \in Blocks
      PROVE  Taken[<<2, i>>] = Region(rows[i].slot.chunk, rows[i].slot.at, rows[i].room)
  <2>1. <<2, i>> \in D /\ <<2, i>>[1] = 2 /\ <<2, i>>[2] = i
    BY <1>2
  <2> QED
    BY <1>1, <2>1
<1>5. ASSUME NEW i \in Loose
      PROVE  Taken[<<3, i>>] = Region(blocks[i].chunk, blocks[i].at, TotalSize(data[i]))
  <2>1. <<3, i>> \in D /\ <<3, i>>[1] = 3 /\ <<3, i>>[2] = i
    BY <1>2
  <2> QED
    BY <1>1, <2>1
<1> HIDE DEF R
<1>6. DOMAIN Taken = D
  BY <1>1
<1> QED
  BY <1>2, <1>3, <1>4, <1>5, <1>6 DEF TakenByKind

(* What is written to newly placed bytes harms no block. *)
LEMMA HeldAfter ==
    ASSUME RowsTyped, NEW a, ArenaOK(a), \A p \in DOMAIN Taken : InArena(Taken[p], a),
           NEW size \in Nat, NEW m, NEW n, HeldIn(m), MemOK(n),
           KeepsOthers(m, n, PlacedIn(a, size).chunk, PlacedIn(a, size).at, size)
    PROVE  HeldIn(n)
<1> DEFINE q == PlacedIn(a, size)
<1>1. q \in Address /\ \A g : InArena(g, a) /\ g.chunk = q.chunk => Apart(g.at, g.size, q.at, size)
  BY PlacedIsFree DEF Address
<1>2. q.at \in Nat
  BY <1>1 DEF Address
<1> HIDE DEF q
<1>3. ASSUME NEW i \in DOMAIN rows PROVE HoldsBlock(n, rows[i].slot, stored[i])
  <2>1. /\ rows[i] \in RowRecord /\ stored[i] \in Seq(Values0)
        /\ rows[i].room = TotalSize(stored[i])
    <3>1. rows \in Seq(RowRecord) /\ stored \in Seq(Seq(Values0)) /\ Len(stored) = Len(rows)
      BY DEF RowsTyped
    <3>2. i \in DOMAIN stored
      BY <3>1
    <3>3. rows[i] \in RowRecord
      BY <3>1
    <3>4. stored[i] \in Seq(Values0)
      BY <3>1, <3>2
    <3> QED
      BY <3>3, <3>4 DEF RowsTyped
  <2>2. rows[i].slot \in Address /\ TotalSize(stored[i]) \in Nat
    BY <2>1, EntryStarts DEF RowRecord
  <2>3. \/ TotalSize(stored[i]) = 0 \/ rows[i].slot.chunk # q.chunk
        \/ Apart(rows[i].slot.at, TotalSize(stored[i]), q.at, size)
    <3> SUFFICES ASSUME TotalSize(stored[i]) # 0, rows[i].slot.chunk = q.chunk
                 PROVE  Apart(rows[i].slot.at, TotalSize(stored[i]), q.at, size)
      OBVIOUS
    <3>1. i \in Blocks
      BY <2>1, <2>2 DEF Blocks
    <3>2. InArena(Region(rows[i].slot.chunk, rows[i].slot.at, rows[i].room), a)
      BY <3>1, TakenIs DEF TakenByKind
    <3> QED
      BY <1>1, <2>1, <3>2 DEF Region
  <2>4. HoldsBlock(m, rows[i].slot, stored[i])
    BY DEF HeldIn
  <2>5. KeepsOthers(m, n, q.chunk, q.at, size)
    BY DEF q
  <2> QED
    BY <1>2, <2>1, <2>2, <2>3, <2>4, <2>5, BlockStays
<1>4. ASSUME case \in LooseCases, NEW i \in DOMAIN blocks PROVE HoldsBlock(n, blocks[i], data[i])
  <2>1. blocks[i] \in Address /\ data[i] \in Seq(Values0)
    BY <1>4 DEF RowsTyped
  <2>2. TotalSize(data[i]) \in Nat
    BY <2>1, EntryStarts
  <2>3. \/ TotalSize(data[i]) = 0 \/ blocks[i].chunk # q.chunk
        \/ Apart(blocks[i].at, TotalSize(data[i]), q.at, size)
    <3> SUFFICES ASSUME TotalSize(data[i]) # 0, blocks[i].chunk = q.chunk
                 PROVE  Apart(blocks[i].at, TotalSize(data[i]), q.at, size)
      OBVIOUS
    <3>1. i \in Loose
      BY <1>4, <2>2 DEF Loose
    <3>2. InArena(Region(blocks[i].chunk, blocks[i].at, TotalSize(data[i])), a)
      BY <3>1, TakenIs DEF TakenByKind
    <3> QED
      BY <1>1, <2>1, <3>2 DEF Region
  <2>4. HoldsBlock(m, blocks[i], data[i])
    BY <1>4 DEF HeldIn
  <2>5. KeepsOthers(m, n, q.chunk, q.at, size)
    BY DEF q
  <2> QED
    BY <1>2, <2>1, <2>3, <2>4, <2>5, BlockStays
<1> QED
  BY <1>3, <1>4 DEF HeldIn

LEMMA NothingAllocated ==
    ASSUME NEW a, ArenaOK(a)
    PROVE  Allocated(a, 0) = a
<1>1. Available(a) \in Nat
  BY DEF ArenaOK, Available
<1>2. PlacedIn(a, 0) = [chunk |-> Len(a.sizes), at |-> a.at]
  BY <1>1 DEF PlacedIn
<1>3. Len(a.sizes) \in Nat /\ a.at \in Nat /\ a = [sizes |-> a.sizes, at |-> a.at]
  BY DEF ArenaOK
<1>4. ~(PlacedIn(a, 0).chunk > Len(a.sizes)) /\ PlacedIn(a, 0).at + 0 = a.at
  BY <1>2, <1>3
<1> QED
  BY <1>3, <1>4 DEF Allocated

(* A family is judged by its regions alone. *)
LEMMA FamilySame ==
    ASSUME NEW f, NEW g, NEW a, FamilyOK(f, a),
           \A p \in DOMAIN g : p \in DOMAIN f /\ g[p] = f[p]
    PROVE  FamilyOK(g, a)
BY DEF FamilyOK

(* The block a row is taken from, when there is one for it. *)
TakenAfterRow ==
    IF NewBlock
      THEN With(Taken, <<1, Len(row_blocks) + 1>>,
                Region(BlockOfRow.chunk, BlockOfRow.at, RowBlockSize))
      ELSE Taken

LEMMA BlockForRow ==
    ASSUME ContainerInv
    PROVE  /\ BlockOfRow \in Address
           /\ RemainingForRow \in 1 .. BLOCK_ROWS
           /\ ArenaOK(ArenaAfterRow)
           /\ FamilyOK(TakenAfterRow, ArenaAfterRow)
           /\ HeldIn(MemAfterRow)
           /\ ~NewBlock => row_blocks # <<>>
<1> USE DEF ContainerInv
<1>1. /\ RowSize \in Nat \ {0} /\ BLOCK_ROWS \in Nat \ {0} /\ RowBlockSize \in Nat \ {0}
  BY RowBlockType
<1>2. /\ row_blocks \in Seq(Address) /\ batch_remaining \in 0 .. BLOCK_ROWS - 1
      /\ rows \in Seq(RowRecord) /\ Len(row_blocks) \in Nat
  BY DEF RowsTyped
<1>3. CASE NewBlock
  <2> DEFINE b == PlacedIn(Current, RowBlockSize)
  <2>1. BlockOfRow = b /\ RemainingForRow = BLOCK_ROWS
    BY <1>3 DEF BlockOfRow, RemainingForRow, Placed, RowBlockSize
  <2>2. ArenaAfterRow = Allocated(Current, RowBlockSize)
    BY <1>3 DEF ArenaAfterRow, RowBlockSize
  <2>3. MemAfterRow = [x \in Spared(mem, b.chunk, b.at, RowBlockSize) |-> mem[x]]
    BY <1>3, <2>1 DEF MemAfterRow, RowBlockSize
  <2>4. b \in Address
    BY <1>1, PlacedIsFree DEF Address
  <2>5. ArenaOK(ArenaAfterRow)
    BY <1>1, <2>2, AllocatedFacts
  <2>6. <<1, Len(row_blocks) + 1>> \notin DOMAIN Taken
    <3> SUFFICES ASSUME <<1, Len(row_blocks) + 1>> \in DOMAIN Taken PROVE FALSE
      OBVIOUS
    <3>1. PICK x \in DOMAIN row_blocks : <<1, Len(row_blocks) + 1>> = <<1, x>>
      BY TakenIs DEF TakenByKind
    <3> QED
      BY <1>2, <3>1
  <2>7. FamilyOK(TakenAfterRow, ArenaAfterRow)
    <3>1. TakenAfterRow = With(Taken, <<1, Len(row_blocks) + 1>>, Region(b.chunk, b.at, RowBlockSize))
      BY <1>3, <2>1 DEF TakenAfterRow
    <3> QED
      BY <1>1, <2>2, <2>6, <3>1, FamilyGrows
  <2>8. HeldIn(MemAfterRow)
    <3>1. MemOK(mem) /\ RowsTyped
      BY DEF HeldIn
    <3>2. /\ KeepsOthers(mem, MemAfterRow, b.chunk, b.at, RowBlockSize)
          /\ MemOK(MemAfterRow)
      BY <2>3, <3>1, ZeroedKeeps
    <3>3. \A p \in DOMAIN Taken : InArena(Taken[p], Current)
      BY DEF FamilyOK
    <3> QED
      BY <1>1, <3>1, <3>2, <3>3, HeldAfter
  <2> QED
    BY <1>1, <1>3, <2>1, <2>4, <2>5, <2>7, <2>8
<1>4. CASE ~NewBlock
  <2>1. batch_remaining \in 1 .. BLOCK_ROWS
    BY <1>1, <1>2, <1>4 DEF NewBlock
  <2>2. Len(row_blocks) # 0
    <3> SUFFICES ASSUME Len(row_blocks) = 0 PROVE FALSE
      OBVIOUS
    <3>1. Len(rows) + batch_remaining = 0 * BLOCK_ROWS /\ Len(rows) \in Nat
      BY <1>2 DEF RowsPlaced
    <3> QED
      BY <1>1, <2>1, <3>1
  <2>3. row_blocks # <<>> /\ row_blocks[Len(row_blocks)] \in Address
    BY <1>2, <2>2
  <2> QED
    BY <1>4, <2>1, <2>3
       DEF BlockOfRow, RemainingForRow, ArenaAfterRow, TakenAfterRow, MemAfterRow
<1> QED
  BY <1>3, <1>4

-----------------------------------------------------------------------------
(* Storing a row keeps the invariant. *)

LEMMA ProductGrows ==
    ASSUME NEW x \in Nat, NEW y \in Nat, x <= y, NEW b \in Nat
    PROVE  x * b \in Nat /\ y * b \in Nat /\ x * b <= y * b
<1>1. y * b = x * b + (y - x) * b /\ y - x \in Nat
  BY Z3
<1>2. (y - x) * b \in Nat /\ x * b \in Nat
  BY <1>1
<1> QED
  BY <1>1, <1>2

(* n rows leave r of L blocks' rows. *)
Filled(n, r, L, B) ==
    /\ n \in Nat /\ L \in Nat \ {0} /\ B \in Nat \ {0} /\ r \in 1 .. B
    /\ n + r = L * B

(* The k-th row of the b-th block. *)
LEMMA NextPlace ==
    ASSUME NEW n, NEW r, NEW L, NEW B, Filled(n, r, L, B), NEW b \in 1 .. L, NEW k \in 1 .. B
    PROVE  /\ (b - 1) * B + k = n + 1 <=> b = L /\ k = B - r + 1
           /\ r = B /\ (b - 1) * B + k <= n => b <= L - 1
           /\ (b - 1) * B + k \in Nat \ {0} /\ (b - 1) * B + k <= n + r
<1> USE DEF Filled
<1>1. b \in Nat /\ b - 1 \in Nat /\ L - 1 \in Nat /\ k \in Nat
  OBVIOUS
<1>2. (b - 1) * B \in Nat /\ (L - 1) * B \in Nat /\ L * B \in Nat
  BY <1>1
<1>3. L * B = (L - 1) * B + B /\ b * B = (b - 1) * B + B
  BY <1>1, Z3
<1>4. b * B <= L * B
  BY <1>1, ProductGrows
<1>5. b <= L - 1 => b * B <= (L - 1) * B
  BY <1>1, ProductGrows
<1>6. CASE b = L
  BY <1>1, <1>2, <1>3, <1>6
<1>7. CASE b # L
  <2>1. b <= L - 1
    BY <1>1, <1>7
  <2>2. (b - 1) * B + k <= (L - 1) * B
    BY <1>1, <1>2, <1>3, <1>5, <2>1
  <2> QED
    BY <1>1, <1>2, <1>3, <1>7, <2>1, <2>2
<1> QED
  BY <1>6, <1>7

(* The blocks and the memory after StoreRow, from what it was given. *)
LEMMA VarcharsForRow ==
    ASSUME ContainerInv, NEW values \in Seq(Values0)
    PROVE  LET size == TotalSize(values)
               block == PlacedIn(ArenaAfterRow, size)
               arena == IF size = 0 THEN ArenaAfterRow ELSE Allocated(ArenaAfterRow, size)
               mem2 == WriteBlock(MemAfterRow, block, values)
               n == Len(rows) + 1 IN
           /\ size \in Nat /\ block \in Address
           /\ ArenaOK(arena)
           /\ HeldIn(mem2) /\ HoldsBlock(mem2, block, values)
           /\ FamilyOK(IF size = 0 THEN TakenAfterRow
                       ELSE With(TakenAfterRow, <<2, n>>, Region(block.chunk, block.at, size)),
                       arena)
<1> DEFINE size == TotalSize(values)
           block == PlacedIn(ArenaAfterRow, size)
           arena == IF size = 0 THEN ArenaAfterRow ELSE Allocated(ArenaAfterRow, size)
           mem2 == WriteBlock(MemAfterRow, block, values)
           n == Len(rows) + 1
<1>1. size \in Nat
  BY EntryStarts
<1>2. ArenaOK(ArenaAfterRow) /\ FamilyOK(TakenAfterRow, ArenaAfterRow) /\ HeldIn(MemAfterRow)
  BY BlockForRow
<1> HIDE DEF size
<1>3. block \in Address
  BY <1>1, <1>2, PlacedIsFree DEF Address
<1>4. ArenaOK(arena)
  BY <1>1, <1>2, AllocatedFacts
<1>5. /\ KeepsOthers(MemAfterRow, mem2, block.chunk, block.at, size)
      /\ HoldsBlock(mem2, block, values) /\ MemOK(mem2)
  <2>1. MemOK(MemAfterRow)
    BY <1>2 DEF HeldIn
  <2> HIDE DEF block
  <2> QED
    BY <1>3, <2>1, WrittenBlock DEF size
<1>6. \A p \in DOMAIN Taken : InArena(Taken[p], ArenaAfterRow)
  <2> SUFFICES ASSUME NEW p \in DOMAIN Taken PROVE InArena(Taken[p], ArenaAfterRow)
    OBVIOUS
  <2>1. p # <<1, Len(row_blocks) + 1>>
    <3> SUFFICES ASSUME p = <<1, Len(row_blocks) + 1>> PROVE FALSE
      OBVIOUS
    <3>1. PICK x \in DOMAIN row_blocks : <<1, Len(row_blocks) + 1>> = <<1, x>>
      BY TakenIs DEF TakenByKind
    <3>2. row_blocks \in Seq(Address)
      BY DEF ContainerInv, RowsTyped
    <3> QED
      BY <3>1, <3>2
  <2>2. p \in DOMAIN TakenAfterRow /\ TakenAfterRow[p] = Taken[p]
    BY <2>1 DEF TakenAfterRow, With
  <2> QED
    BY <1>2, <2>2 DEF FamilyOK
<1>7. HeldIn(mem2)
  <2>1. RowsTyped
    BY DEF ContainerInv
  <2> HIDE DEF mem2
  <2> QED
    BY <1>1, <1>2, <1>5, <1>6, <2>1, HeldAfter
<1>8. <<2, n>> \notin DOMAIN TakenAfterRow
  <2> SUFFICES ASSUME <<2, n>> \in DOMAIN TakenAfterRow PROVE FALSE
    OBVIOUS
  <2>1. rows \in Seq(RowRecord)
    BY DEF ContainerInv, RowsTyped
  <2>2. <<2, n>> \in DOMAIN Taken
    BY DEF TakenAfterRow, With
  <2>3. PICK i \in Blocks : <<2, n>> = <<2, i>>
    BY <2>2, TakenIs DEF TakenByKind
  <2>4. i = n /\ i \in DOMAIN rows
    BY <2>3 DEF Blocks
  <2> QED
    BY <2>1, <2>4
<1>9. CASE size = 0
  BY <1>1, <1>2, <1>3, <1>4, <1>5, <1>7, <1>9 DEF size
<1>10. CASE size # 0
  <2>1. size \in Nat \ {0}
    BY <1>1, <1>10
  <2>2. FamilyOK(With(TakenAfterRow, <<2, n>>, Region(block.chunk, block.at, size)),
                 Allocated(ArenaAfterRow, size))
    BY <1>2, <1>8, <2>1, FamilyGrows
  <2> QED
    BY <1>1, <1>3, <1>4, <1>5, <1>7, <1>10, <2>2 DEF size
<1> QED
  BY <1>9, <1>10

(* What the step leaves to the cases. *)
CaseKept ==
    /\ case' = case /\ data' = data /\ blocks' \in Seq(Address)
    /\ case \in LooseCases => blocks' = blocks

LEMMA SameRowSize ==
    ASSUME key_sizes' = key_sizes
    PROVE  RowSize' = RowSize /\ RowBlockSize' = RowBlockSize
<1>1. NumKeys' = NumKeys
  BY DEF NumKeys
<1>2. \A c : ColumnSize(c)' = ColumnSize(c)
  BY DEF ColumnSize
<1>3. \A c : Offset(c)' = Offset(c)
  BY <1>1, <1>2 DEF Offset
<1>4. NullBlockStart' = NullBlockStart
  BY <1>1, <1>3 DEF NullBlockStart
<1>5. RowSize' = RowSize
  BY <1>1, <1>4 DEF RowSize, AggStateOffset, NullBytes
<1> QED
  BY <1>5 DEF RowBlockSize

LEMMA StoreRowKeeps ==
    ASSUME ContainerInv, NEW values \in Seq(Values0), StoreRow(values), CaseKept
    PROVE  /\ ContainerInv'
           /\ Len(rows') = Len(rows) + 1 /\ rows'[Len(rows) + 1] \in RowRecord
           /\ \A i \in DOMAIN rows : rows'[i] = rows[i] /\ stored'[i] = stored[i]
           /\ stored'[Len(rows) + 1] = values
<1> DEFINE n == Len(rows) + 1
           B == BlockOfRow
           R == RemainingForRow
           row == RowOf(B, RowIndex(R))
           size == TotalSize(values)
           block == PlacedIn(ArenaAfterRow, size)
           record == [chunk |-> row.chunk, at |-> row.at, slot |-> block, room |-> size,
                      is_null |-> [v \in DOMAIN values |-> values[v] = None]]
           arena == IF size = 0 THEN ArenaAfterRow ELSE Allocated(ArenaAfterRow, size)
           mem2 == WriteBlock(MemAfterRow, block, values)
           L == Len(row_blocks')
<1>1. /\ Len(rows) < MaxRows
      /\ row_blocks' = IF NewBlock THEN Append(row_blocks, B) ELSE row_blocks
      /\ batch_remaining' = R - 1
      /\ rows' = Append(rows, record)
      /\ BecomeArena(arena)
      /\ mem' = mem2
      /\ stored' = Append(stored, values)
      /\ key_sizes' = key_sizes
  BY DEF StoreRow
<1>2. /\ row_blocks \in Seq(Address) /\ batch_remaining \in 0 .. BLOCK_ROWS - 1
      /\ rows \in Seq(RowRecord) /\ Len(row_blocks) \in Nat /\ Len(rows) \in Nat
      /\ stored \in Seq(Seq(Values0)) /\ Len(stored) = Len(rows)
      /\ key_sizes \in Seq(Nat)
  BY DEF ContainerInv, RowsTyped
<1>3. /\ RowSize \in Nat \ {0} /\ BLOCK_ROWS \in Nat \ {0} /\ RowBlockSize \in Nat \ {0}
  BY RowBlockType DEF ContainerInv
<1>4. RowSize' = RowSize /\ RowBlockSize' = RowBlockSize
  BY <1>1, SameRowSize
<1>5. /\ B \in Address /\ R \in 1 .. BLOCK_ROWS
      /\ ~NewBlock => row_blocks # <<>>
  BY BlockForRow
<1>6. /\ size \in Nat /\ block \in Address
      /\ ArenaOK(arena)
      /\ HeldIn(mem2) /\ HoldsBlock(mem2, block, values)
      /\ FamilyOK(IF size = 0 THEN TakenAfterRow
                  ELSE With(TakenAfterRow, <<2, n>>, Region(block.chunk, block.at, size)), arena)
  BY VarcharsForRow
<1>7. row = [chunk |-> B.chunk, at |-> B.at + (BLOCK_ROWS - R) * RowSize]
  BY <1>5 DEF RowOf, RowIndex, Address
<1>8. row.chunk \in Nat /\ row.at \in Nat
  <2>1. BLOCK_ROWS - R \in Nat
    BY <1>3, <1>5
  <2>2. (BLOCK_ROWS - R) * RowSize \in Nat
    BY <1>3, <2>1
  <2> QED
    BY <1>5, <1>7, <2>2 DEF Address
<1> HIDE DEF B, R, row, size, block, arena, mem2
<1>9. record \in RowRecord
  <2>1. [v \in DOMAIN values |-> values[v] = None] \in Seq(BOOLEAN)
    <3>1. DOMAIN values = 1 .. Len(values) /\ Len(values) \in Nat
      OBVIOUS
    <3> QED
      BY <3>1
  <2> QED
    BY <1>6, <1>8, <2>1 DEF RowRecord
<1>10. /\ record.chunk = row.chunk /\ record.at = row.at /\ record.slot = block
       /\ record.room = size /\ record.is_null = [v \in DOMAIN values |-> values[v] = None]
  OBVIOUS
<1> HIDE DEF record
<1>11. /\ rows' \in Seq(RowRecord) /\ Len(rows') = n /\ rows'[n] = record
       /\ DOMAIN rows' = DOMAIN rows \cup {n} /\ n \notin DOMAIN rows
       /\ \A i \in DOMAIN rows : rows'[i] = rows[i]
  BY <1>1, <1>2, <1>9
<1>12. /\ stored' \in Seq(Seq(Values0)) /\ Len(stored') = n /\ stored'[n] = values
       /\ \A i \in DOMAIN rows : stored'[i] = stored[i] /\ i \in DOMAIN stored
  <2>1. DOMAIN stored = DOMAIN rows
    BY <1>2
  <2>2. Append(stored, values) \in Seq(Seq(Values0)) /\ Append(stored, values)[Len(stored) + 1] = values
    BY <1>2
  <2>3. \A i \in DOMAIN stored : Append(stored, values)[i] = stored[i]
    BY <1>2
  <2> QED
    BY <1>1, <1>2, <2>1, <2>2, <2>3
<1>13. /\ row_blocks' \in Seq(Address) /\ L \in Nat \ {0} /\ row_blocks'[L] = B
       /\ \A b \in DOMAIN row_blocks : b \in DOMAIN row_blocks' /\ row_blocks'[b] = row_blocks[b]
       /\ NewBlock => L = Len(row_blocks) + 1
       /\ ~NewBlock => row_blocks' = row_blocks
       /\ DOMAIN row_blocks = 1 .. Len(row_blocks) /\ DOMAIN row_blocks' = 1 .. L
  <2>1. CASE NewBlock
    BY <1>1, <1>2, <1>5, <2>1
  <2>2. CASE ~NewBlock
    BY <1>1, <1>2, <1>5, <2>2 DEF BlockOfRow, B
  <2> QED
    BY <2>1, <2>2
<1>14. RowsTyped'
  <2>1. batch_remaining' \in 0 .. BLOCK_ROWS - 1
    BY <1>1, <1>3, <1>5
  <2>2. Len(rows') <= MaxRows
    BY <1>1, <1>2, <1>11, ContainerAssumption
  <2>3. case' \in LooseCases => \A i \in DOMAIN blocks' : data'[i] \in Seq(Values0)
    BY DEF CaseKept, ContainerInv, RowsTyped
  <2>4. ASSUME NEW i \in DOMAIN rows'
        PROVE  /\ rows'[i].room = TotalSize(stored'[i])
               /\ rows'[i].is_null = [v \in DOMAIN stored'[i] |-> stored'[i][v] = None]
    <3>1. CASE i = n
      BY <1>10, <1>11, <1>12, <3>1 DEF size
    <3>2. CASE i # n
      <4>1. i \in DOMAIN rows
        BY <1>11, <3>2
      <4>2. /\ rows[i].room = TotalSize(stored[i])
            /\ rows[i].is_null = [v \in DOMAIN stored[i] |-> stored[i][v] = None]
        BY <4>1 DEF ContainerInv, RowsTyped
      <4>3. rows'[i] = rows[i] /\ stored'[i] = stored[i]
        BY <1>11, <1>12, <4>1
      <4> QED
        BY <4>2, <4>3
    <3> QED
      BY <3>1, <3>2
  <2>5. blocks' \in Seq(Address)
    BY DEF CaseKept
  <2> QED
    BY <1>1, <1>2, <1>11, <1>12, <1>13, <2>1, <2>2, <2>3, <2>4, <2>5 DEF RowsTyped
<1>15. Len(rows) + R = L * BLOCK_ROWS
  <2>1. Len(rows) + batch_remaining = Len(row_blocks) * BLOCK_ROWS
    BY DEF ContainerInv, RowsPlaced
  <2>2. CASE NewBlock
    <3>1. R = BLOCK_ROWS /\ batch_remaining = 0 /\ L = Len(row_blocks) + 1
      BY <1>13, <2>2 DEF R, RemainingForRow, NewBlock
    <3>2. (Len(row_blocks) + 1) * BLOCK_ROWS = Len(row_blocks) * BLOCK_ROWS + BLOCK_ROWS
      BY <1>2, <1>3, Z3
    <3> DEFINE p == Len(row_blocks) * BLOCK_ROWS
    <3>3. p \in Nat /\ Len(rows) + batch_remaining = p /\ (Len(row_blocks) + 1) * BLOCK_ROWS = p + BLOCK_ROWS
      BY <1>2, <1>3, <2>1, <3>2
    <3>4. L * BLOCK_ROWS = (Len(row_blocks) + 1) * BLOCK_ROWS
      BY <3>1
    <3> HIDE DEF p, L
    <3>5. Len(rows) = p /\ L * BLOCK_ROWS = p + BLOCK_ROWS
      BY <1>2, <3>1, <3>3, <3>4
    <3> QED
      BY <3>1, <3>5
  <2>3. CASE ~NewBlock
    <3>1. R = batch_remaining /\ L = Len(row_blocks)
      BY <1>13, <2>3 DEF R, RemainingForRow
    <3> QED
      BY <2>1, <3>1
  <2> QED
    BY <2>2, <2>3
<1> HIDE DEF L
<1>16. RowsPlaced'
  <2>1. Len(rows') + batch_remaining' = L * BLOCK_ROWS
    BY <1>1, <1>2, <1>3, <1>5, <1>11, <1>15
  <2>2. ASSUME NEW b \in DOMAIN row_blocks', NEW k \in 1 .. BLOCK_ROWS,
               (b - 1) * BLOCK_ROWS + k <= Len(rows')
        PROVE  LET x == (b - 1) * BLOCK_ROWS + k IN
               /\ rows'[x].chunk = row_blocks'[b].chunk
               /\ rows'[x].at = row_blocks'[b].at + (k - 1) * RowSize
    <3> DEFINE x == (b - 1) * BLOCK_ROWS + k
    <3>1. /\ x = Len(rows) + 1 <=> b = L /\ k = BLOCK_ROWS - R + 1
          /\ R = BLOCK_ROWS /\ x <= Len(rows) => b <= L - 1
          /\ x \in Nat \ {0} /\ b \in 1 .. L
      <4>1. b \in 1 .. L /\ L \in Nat \ {0}
        BY <1>13 DEF L
      <4>2. /\ Len(rows) \in Nat /\ R \in 1 .. BLOCK_ROWS /\ BLOCK_ROWS \in Nat \ {0}
            /\ Len(rows) + R = L * BLOCK_ROWS
        BY <1>2, <1>3, <1>5, <1>15
      <4>3. /\ (b - 1) * BLOCK_ROWS + k = Len(rows) + 1 <=> b = L /\ k = BLOCK_ROWS - R + 1
            /\ R = BLOCK_ROWS /\ (b - 1) * BLOCK_ROWS + k <= Len(rows) => b <= L - 1
            /\ (b - 1) * BLOCK_ROWS + k \in Nat \ {0}
        <5>1. Filled(Len(rows), R, L, BLOCK_ROWS)
          BY <4>1, <4>2 DEF Filled
        <5> QED
          BY <4>1, <5>1, NextPlace
      <4> QED
        BY <4>1, <4>3
    <3> HIDE DEF x
    <3>2. CASE x = n
      <4>1. b = L /\ k - 1 = BLOCK_ROWS - R
        BY <1>3, <1>5, <3>1, <3>2
      <4>2. row.chunk = B.chunk /\ row.at = B.at + (BLOCK_ROWS - R) * RowSize
        BY <1>7
      <4> QED
        BY <1>10, <1>11, <1>13, <3>2, <4>1, <4>2 DEF x
    <3>3. CASE x # n
      <4>1. x <= Len(rows) /\ x \in DOMAIN rows
        <5>1. Len(rows') = Len(rows) + 1 /\ x <= Len(rows')
          BY <1>11, <2>2 DEF x
        <5>2. x \in Nat \ {0} /\ x # Len(rows) + 1
          BY <3>1, <3>3
        <5> QED
          BY <1>2, <5>1, <5>2
      <4>2. b \in DOMAIN row_blocks
        <5>1. CASE NewBlock
          <6>1. R = BLOCK_ROWS /\ L = Len(row_blocks) + 1
            BY <1>13, <5>1 DEF R, RemainingForRow, L
          <6> QED
            BY <1>2, <1>13, <3>1, <4>1, <6>1
        <5>2. CASE ~NewBlock
          BY <1>13, <5>2
        <5> QED
          BY <5>1, <5>2
      <4>3. rows[x].chunk = row_blocks[b].chunk /\ rows[x].at = row_blocks[b].at + (k - 1) * RowSize
        BY <4>1, <4>2 DEF ContainerInv, RowsPlaced, x
      <4> QED
        BY <1>11, <1>13, <4>1, <4>2, <4>3 DEF x
    <3> QED
      BY <3>2, <3>3
  <2> QED
    BY <1>4, <2>1, <2>2 DEF RowsPlaced, L
<1>17. Current' = arena
  <2>1. arena = [sizes |-> arena.sizes, at |-> arena.at]
    BY <1>6 DEF ArenaOK
  <2> QED
    BY <1>1, <2>1 DEF BecomeArena, Current
<1>18. FamilyOK(Taken, Current)'
  <2> DEFINE f == IF size = 0 THEN TakenAfterRow
                  ELSE With(TakenAfterRow, <<2, n>>, Region(block.chunk, block.at, size))
  <2>1. TakenByKind'
    BY TakenIs, PTL
  <2>2. TakenByKind
    BY TakenIs
  <2>3. ASSUME NEW b \in DOMAIN row_blocks'
        PROVE  <<1, b>> \in DOMAIN TakenAfterRow /\ Taken'[<<1, b>>] = TakenAfterRow[<<1, b>>]
    <3>1. Taken'[<<1, b>>] = Region(row_blocks'[b].chunk, row_blocks'[b].at, RowBlockSize)
      BY <1>4, <2>1 DEF TakenByKind
    <3>2. CASE b \in DOMAIN row_blocks
      <4>1. <<1, b>> \in DOMAIN Taken /\ Taken[<<1, b>>] = Taken'[<<1, b>>]
        BY <1>13, <2>2, <3>1, <3>2 DEF TakenByKind
      <4>2. <<1, b>> # <<1, Len(row_blocks) + 1>>
        BY <1>2, <3>2
      <4> QED
        BY <4>1, <4>2 DEF TakenAfterRow, With
    <3>3. CASE b \notin DOMAIN row_blocks
      <4>1. NewBlock /\ b = Len(row_blocks) + 1 /\ b = L
        <5>1. b \in 1 .. L /\ b \notin 1 .. Len(row_blocks) /\ L \in Nat
          BY <1>13, <3>3 DEF L
        <5>2. NewBlock
          BY <1>13, <3>3
        <5>3. L = Len(row_blocks) + 1
          BY <1>13, <5>2 DEF L
        <5> QED
          BY <1>2, <5>1, <5>2, <5>3
      <4>2. TakenAfterRow = With(Taken, <<1, b>>, Region(B.chunk, B.at, RowBlockSize))
        BY <4>1 DEF TakenAfterRow, B
      <4>3. TakenAfterRow[<<1, b>>] = Region(B.chunk, B.at, RowBlockSize)
            /\ <<1, b>> \in DOMAIN TakenAfterRow
        BY <4>2 DEF With
      <4> QED
        BY <1>13, <3>1, <4>1, <4>3 DEF L
    <3> QED
      BY <3>2, <3>3
  <2>4. ASSUME NEW i \in Blocks'
        PROVE  <<2, i>> \in DOMAIN f /\ Taken'[<<2, i>>] = f[<<2, i>>]
    <3>1. Taken'[<<2, i>>] = Region(rows'[i].slot.chunk, rows'[i].slot.at, rows'[i].room)
      BY <2>1 DEF TakenByKind
    <3>2. i \in DOMAIN rows' /\ rows'[i].room > 0
      BY DEF Blocks
    <3>3. CASE i = n
      <4>1. size # 0
        BY <1>6, <1>10, <1>11, <3>2, <3>3
      <4>2. f = With(TakenAfterRow, <<2, n>>, Region(block.chunk, block.at, size))
        BY <4>1
      <4> HIDE DEF f
      <4>3. <<2, i>> \in DOMAIN f /\ f[<<2, i>>] = Region(block.chunk, block.at, size)
        BY <3>3, <4>2 DEF With
      <4> QED
        BY <1>10, <1>11, <3>1, <3>3, <4>3
    <3>4. CASE i # n
      <4>1. i \in Blocks /\ rows'[i] = rows[i]
        BY <1>11, <3>2, <3>4 DEF Blocks
      <4>2. <<2, i>> \in DOMAIN Taken /\ Taken[<<2, i>>] = Taken'[<<2, i>>]
        BY <2>2, <3>1, <4>1 DEF TakenByKind
      <4>3. <<2, i>> # <<1, Len(row_blocks) + 1>> /\ <<2, i>> # <<2, n>>
        BY <3>4
      <4>4. <<2, i>> \in DOMAIN TakenAfterRow /\ TakenAfterRow[<<2, i>>] = Taken[<<2, i>>]
        BY <4>2, <4>3 DEF TakenAfterRow, With
      <4> QED
        BY <4>2, <4>3, <4>4 DEF With
    <3> QED
      BY <3>3, <3>4
  <2>5. ASSUME NEW i \in Loose'
        PROVE  <<3, i>> \in DOMAIN f /\ Taken'[<<3, i>>] = f[<<3, i>>]
    <3>1. Taken'[<<3, i>>] = Region(blocks'[i].chunk, blocks'[i].at, TotalSize(data'[i]))
      BY <2>1 DEF TakenByKind
    <3>2. i \in Loose /\ blocks' = blocks /\ data' = data
      BY DEF Loose, CaseKept
    <3>3. <<3, i>> \in DOMAIN Taken /\ Taken[<<3, i>>] = Taken'[<<3, i>>]
      BY <2>2, <3>1, <3>2 DEF TakenByKind
    <3>4. <<3, i>> # <<1, Len(row_blocks) + 1>> /\ <<3, i>> # <<2, n>>
      OBVIOUS
    <3>5. <<3, i>> \in DOMAIN TakenAfterRow /\ TakenAfterRow[<<3, i>>] = Taken[<<3, i>>]
      BY <3>3, <3>4 DEF TakenAfterRow, With
    <3> QED
      BY <3>3, <3>4, <3>5 DEF With
  <2>6. ASSUME NEW b \in DOMAIN row_blocks'
        PROVE  <<1, b>> \in DOMAIN f /\ Taken'[<<1, b>>] = f[<<1, b>>]
    <3>1. <<1, b>> # <<2, n>>
      OBVIOUS
    <3> QED
      BY <2>3, <3>1 DEF With
  <2>7. FamilyOK(f, arena)
    BY <1>6
  <2> HIDE DEF f
  <2>8. ASSUME NEW p \in DOMAIN Taken' PROVE p \in DOMAIN f /\ Taken'[p] = f[p]
    BY <2>1, <2>4, <2>5, <2>6 DEF TakenByKind
  <2>9. FamilyOK(Taken', arena)
    BY <2>7, <2>8, FamilySame
  <2> QED
    BY <1>17, <2>9
<1>19. HeldIn(mem)'
  <2>1. ASSUME NEW i \in DOMAIN rows' PROVE HoldsBlock(mem2, rows'[i].slot, stored'[i])
    <3>1. CASE i = n
      BY <1>6, <1>10, <1>11, <1>12, <3>1
    <3>2. CASE i # n
      BY <1>6, <1>11, <1>12, <3>2 DEF HeldIn
    <3> QED
      BY <3>1, <3>2
  <2>2. case' \in LooseCases => \A i \in DOMAIN blocks' : HoldsBlock(mem2, blocks'[i], data'[i])
    BY <1>6 DEF CaseKept, HeldIn
  <2>3. MemOK(mem2)
    BY <1>6 DEF HeldIn
  <2> QED
    BY <1>1, <2>1, <2>2, <2>3 DEF HeldIn
<1>20. ArenaOK(Current)'
  BY <1>6, <1>17
<1> QED
  BY <1>9, <1>11, <1>12, <1>14, <1>16, <1>18, <1>19, <1>20 DEF ContainerInv

-----------------------------------------------------------------------------
(* All regions are apart. *)

LEMMA PlaceOfRow ==
    ASSUME ContainerInv, NEW i \in DOMAIN rows
    PROVE  \E b \in DOMAIN row_blocks, k \in 1 .. BLOCK_ROWS :
              /\ i = (b - 1) * BLOCK_ROWS + k
              /\ rows[i].chunk = row_blocks[b].chunk
              /\ rows[i].at = row_blocks[b].at + (k - 1) * RowSize
<1> DEFINE q == (i - 1) \div BLOCK_ROWS
           b == q + 1
           k == i - q * BLOCK_ROWS
           L == Len(row_blocks)
<1>1. /\ BLOCK_ROWS \in Nat \ {0} /\ L \in Nat /\ batch_remaining \in Nat
      /\ i \in Nat \ {0} /\ i <= Len(rows) /\ Len(rows) \in Nat
      /\ Len(rows) + batch_remaining = L * BLOCK_ROWS
      /\ DOMAIN row_blocks = 1 .. L
  BY ContainerAssumption DEF ContainerInv, RowsTyped, RowsPlaced
<1>2. q \in Nat /\ BLOCK_ROWS * q <= i - 1 /\ i - 1 < BLOCK_ROWS * q + BLOCK_ROWS
  <2>1. i - 1 \in Nat
    BY <1>1
  <2> QED
    BY <1>1, <2>1, QuotientBounds
<1> HIDE DEF q, L
<1>3. q * BLOCK_ROWS = BLOCK_ROWS * q /\ q * BLOCK_ROWS \in Nat
  BY <1>1, <1>2
<1>4. k \in 1 .. BLOCK_ROWS /\ b - 1 = q /\ i = (b - 1) * BLOCK_ROWS + k
  BY <1>1, <1>2, <1>3
<1>5. b \in 1 .. L
  <2> SUFFICES ASSUME L <= q PROVE FALSE
    BY <1>1, <1>2
  <2>1. L * BLOCK_ROWS <= q * BLOCK_ROWS /\ L * BLOCK_ROWS \in Nat
    BY <1>1, <1>2, ProductGrows
  <2> QED
    BY <1>1, <1>2, <1>3, <2>1
<1> HIDE DEF b, k
<1>6. rows[i].chunk = row_blocks[b].chunk /\ rows[i].at = row_blocks[b].at + (k - 1) * RowSize
  BY <1>1, <1>4, <1>5 DEF ContainerInv, RowsPlaced
<1> QED
  BY <1>1, <1>4, <1>5, <1>6


(* A row is a part of its block's region. *)
LEMMA RowInBlock ==
    ASSUME ContainerInv, NEW b \in DOMAIN row_blocks, NEW k \in 1 .. BLOCK_ROWS
    PROVE  LET g == Taken[<<1, b>>]
               at == row_blocks[b].at + (k - 1) * RowSize IN
           /\ g.chunk = row_blocks[b].chunk /\ g.at = row_blocks[b].at
           /\ g.chunk \in Nat /\ g.at \in Nat /\ g.size \in Nat /\ at \in Nat
           /\ g.at <= at /\ at + RowSize <= g.at + g.size
           /\ <<1, b>> \in DOMAIN Taken /\ InArena(g, Current)
<1>1. /\ RowSize \in Nat \ {0} /\ BLOCK_ROWS \in Nat \ {0} /\ RowBlockSize \in Nat \ {0}
  BY RowBlockType DEF ContainerInv
<1>2. Taken[<<1, b>>] = Region(row_blocks[b].chunk, row_blocks[b].at, RowBlockSize)
      /\ <<1, b>> \in DOMAIN Taken
  BY TakenIs DEF TakenByKind
<1>3. row_blocks[b].chunk \in Nat /\ row_blocks[b].at \in Nat
  <2>1. row_blocks[b] \in Address
    BY DEF ContainerInv, RowsTyped
  <2> QED
    BY <2>1 DEF Address
<1>4. InArena(Taken[<<1, b>>], Current)
  BY <1>2 DEF ContainerInv, FamilyOK
<1>5. k - 1 \in Nat /\ (k - 1) * RowSize \in Nat
  BY <1>1
<1>6. (k - 1) * RowSize + RowSize <= RowBlockSize
  <2>1. k \in Nat /\ k <= BLOCK_ROWS
    BY <1>1
  <2>2. k * RowSize <= BLOCK_ROWS * RowSize
    BY <1>1, <2>1, ProductGrows
  <2>3. k * RowSize = (k - 1) * RowSize + RowSize /\ BLOCK_ROWS * RowSize = RowSize * BLOCK_ROWS
    BY <1>1, <2>1, Z3
  <2> QED
    BY <2>2, <2>3 DEF RowBlockSize
<1> QED
  BY <1>1, <1>2, <1>3, <1>4, <1>5, <1>6 DEF Region

LEMMA RowsAreApart ==
    ASSUME ContainerInv, NEW i \in DOMAIN rows, NEW j \in DOMAIN rows, i # j,
           rows[i].chunk = rows[j].chunk
    PROVE  Apart(rows[i].at, RowSize, rows[j].at, RowSize)
<1>1. PICK b \in DOMAIN row_blocks, k \in 1 .. BLOCK_ROWS :
          /\ i = (b - 1) * BLOCK_ROWS + k
          /\ rows[i].chunk = row_blocks[b].chunk
          /\ rows[i].at = row_blocks[b].at + (k - 1) * RowSize
  BY PlaceOfRow
<1>2. PICK c \in DOMAIN row_blocks, l \in 1 .. BLOCK_ROWS :
          /\ j = (c - 1) * BLOCK_ROWS + l
          /\ rows[j].chunk = row_blocks[c].chunk
          /\ rows[j].at = row_blocks[c].at + (l - 1) * RowSize
  BY PlaceOfRow
<1>3. RowSize \in Nat \ {0} /\ BLOCK_ROWS \in Nat \ {0}
  BY RowBlockType DEF ContainerInv
<1> DEFINE g == Taken[<<1, b>>]
           h == Taken[<<1, c>>]
<1>4. /\ g.chunk = row_blocks[b].chunk /\ g.at = row_blocks[b].at
      /\ g.at \in Nat /\ g.size \in Nat /\ rows[i].at \in Nat
      /\ g.at <= rows[i].at /\ rows[i].at + RowSize <= g.at + g.size
      /\ <<1, b>> \in DOMAIN Taken
  BY <1>1, RowInBlock
<1>5. /\ h.chunk = row_blocks[c].chunk /\ h.at = row_blocks[c].at
      /\ h.at \in Nat /\ h.size \in Nat /\ rows[j].at \in Nat
      /\ h.at <= rows[j].at /\ rows[j].at + RowSize <= h.at + h.size
      /\ <<1, c>> \in DOMAIN Taken
  BY <1>2, RowInBlock
<1>6. CASE b = c
  <2>1. k # l
    BY <1>1, <1>2, <1>6
  <2>2. \A x, y \in 1 .. BLOCK_ROWS : x < y => (x - 1) * RowSize + RowSize <= (y - 1) * RowSize
    <3> SUFFICES ASSUME NEW x \in 1 .. BLOCK_ROWS, NEW y \in 1 .. BLOCK_ROWS, x < y
                 PROVE  (x - 1) * RowSize + RowSize <= (y - 1) * RowSize
      OBVIOUS
    <3>1. x \in Nat /\ y - 1 \in Nat /\ x <= y - 1
      BY <1>3
    <3>2. x * RowSize <= (y - 1) * RowSize
      BY <1>3, <3>1, ProductGrows
    <3>3. x * RowSize = (x - 1) * RowSize + RowSize
      BY <1>3, <3>1, Z3
    <3> QED
      BY <3>2, <3>3
  <2>3. k \in Nat /\ l \in Nat /\ (k - 1) * RowSize \in Nat /\ (l - 1) * RowSize \in Nat
    <3>1. k \in Nat /\ l \in Nat /\ k - 1 \in Nat /\ l - 1 \in Nat
      BY <1>3
    <3> QED
      BY <1>3, <3>1
  <2>4. \/ (k - 1) * RowSize + RowSize <= (l - 1) * RowSize
        \/ (l - 1) * RowSize + RowSize <= (k - 1) * RowSize
    BY <2>1, <2>2, <2>3
  <2>5. row_blocks[c].at \in Nat
    BY <1>5
  <2> QED
    BY <1>1, <1>2, <1>3, <1>6, <2>3, <2>4, <2>5 DEF Apart
<1>7. CASE b # c
  <2>1. g.chunk = h.chunk /\ <<1, b>> # <<1, c>>
    BY <1>1, <1>2, <1>4, <1>5, <1>7
  <2>2. Apart(g.at, g.size, h.at, h.size)
    BY <1>4, <1>5, <2>1 DEF ContainerInv, FamilyOK
  <2> HIDE DEF g, h
  <2> QED
    BY <1>3, <1>4, <1>5, <2>2 DEF Apart
<1> QED
  BY <1>6, <1>7

LEMMA RowAndVarcharsApart ==
    ASSUME ContainerInv, NEW i \in DOMAIN rows, NEW j \in Blocks,
           rows[i].chunk = rows[j].slot.chunk
    PROVE  Apart(rows[i].at, RowSize, rows[j].slot.at, rows[j].room)
<1>1. PICK b \in DOMAIN row_blocks, k \in 1 .. BLOCK_ROWS :
          /\ i = (b - 1) * BLOCK_ROWS + k
          /\ rows[i].chunk = row_blocks[b].chunk
          /\ rows[i].at = row_blocks[b].at + (k - 1) * RowSize
  BY PlaceOfRow
<1>2. RowSize \in Nat \ {0}
  BY RowBlockType DEF ContainerInv
<1> DEFINE g == Taken[<<1, b>>]
           h == Taken[<<2, j>>]
<1>3. /\ g.chunk = row_blocks[b].chunk /\ g.at = row_blocks[b].at
      /\ g.at \in Nat /\ g.size \in Nat /\ rows[i].at \in Nat
      /\ g.at <= rows[i].at /\ rows[i].at + RowSize <= g.at + g.size
      /\ <<1, b>> \in DOMAIN Taken
  BY <1>1, RowInBlock
<1>4. /\ h = Region(rows[j].slot.chunk, rows[j].slot.at, rows[j].room)
      /\ <<2, j>> \in DOMAIN Taken
  BY TakenIs DEF TakenByKind
<1>5. /\ h.chunk = rows[j].slot.chunk /\ h.at = rows[j].slot.at /\ h.size = rows[j].room
      /\ h.at \in Nat /\ h.size \in Nat
  <2>1. rows[j] \in RowRecord
    BY DEF ContainerInv, RowsTyped, Blocks
  <2> QED
    BY <1>4, <2>1 DEF Region, RowRecord, Address
<1>6. Apart(g.at, g.size, h.at, h.size)
  <2>1. g.chunk = h.chunk /\ <<1, b>> # <<2, j>>
    BY <1>1, <1>3, <1>5
  <2> QED
    BY <1>3, <1>4, <2>1 DEF ContainerInv, FamilyOK
<1> HIDE DEF g, h
<1> QED
  BY <1>2, <1>3, <1>5, <1>6 DEF Apart

RowRegions == {Region(rows[i].chunk, rows[i].at, RowSize) : i \in DOMAIN rows}
SlotRegions == {Region(rows[i].slot.chunk, rows[i].slot.at, rows[i].room) : i \in Blocks}

LEMMA RegionTypes ==
    ASSUME ContainerInv
    PROVE  /\ RowSize \in Nat \ {0}
           /\ \A i \in DOMAIN rows : rows[i].chunk \in Nat /\ rows[i].at \in Nat
           /\ \A i \in Blocks : /\ i \in DOMAIN rows /\ rows[i].slot.chunk \in Nat
                                /\ rows[i].slot.at \in Nat /\ rows[i].room \in Nat \ {0}
<1>1. RowSize \in Nat \ {0}
  BY RowBlockType DEF ContainerInv
<1>2. \A i \in DOMAIN rows : rows[i] \in RowRecord
  BY DEF ContainerInv, RowsTyped
<1> QED
  BY <1>1, <1>2 DEF RowRecord, Address, Blocks

LEMMA RegionsDisjoint ==
    ASSUME ContainerInv
    PROVE  /\ Disjoint(Regions)
           /\ RowRegions \cap SlotRegions = {}
           /\ \A i, j \in DOMAIN rows :
                 Region(rows[i].chunk, rows[i].at, RowSize)
                    = Region(rows[j].chunk, rows[j].at, RowSize) => i = j
           /\ \A i, j \in Blocks :
                 Region(rows[i].slot.chunk, rows[i].slot.at, rows[i].room)
                    = Region(rows[j].slot.chunk, rows[j].slot.at, rows[j].room) => i = j
<1> DEFINE Row(i) == Region(rows[i].chunk, rows[i].at, RowSize)
           Slot(i) == Region(rows[i].slot.chunk, rows[i].slot.at, rows[i].room)
           Free(g, h) == g.chunk = h.chunk => Apart(g.at, g.size, h.at, h.size)
<1>1. /\ \A i : Row(i).chunk = rows[i].chunk /\ Row(i).at = rows[i].at /\ Row(i).size = RowSize
      /\ \A i : /\ Slot(i).chunk = rows[i].slot.chunk /\ Slot(i).at = rows[i].slot.at
                /\ Slot(i).size = rows[i].room
  BY DEF Region
<1>2. ASSUME NEW i \in DOMAIN rows, NEW j \in DOMAIN rows, i # j
      PROVE  Free(Row(i), Row(j)) /\ Row(i) # Row(j)
  <2>1. Free(Row(i), Row(j))
    BY <1>1, <1>2, RowsAreApart
  <2>2. ~Apart(rows[i].at, RowSize, rows[i].at, RowSize)
    BY RegionTypes DEF Apart
  <2> HIDE DEF Row
  <2> QED
    BY <1>1, <2>1, <2>2
<1>3. ASSUME NEW i \in DOMAIN rows, NEW j \in Blocks
      PROVE  Free(Row(i), Slot(j)) /\ Free(Slot(j), Row(i)) /\ Row(i) # Slot(j)
  <2>1. Free(Row(i), Slot(j))
    BY <1>1, RowAndVarcharsApart
  <2>2. ~Apart(rows[i].at, RowSize, rows[i].at, RowSize)
    BY RegionTypes DEF Apart
  <2>3. Free(Slot(j), Row(i))
    BY <2>1 DEF Apart
  <2> HIDE DEF Row, Slot
  <2> QED
    BY <1>1, <2>1, <2>2, <2>3
<1>4. ASSUME NEW i \in Blocks, NEW j \in Blocks, i # j
      PROVE  Free(Slot(i), Slot(j)) /\ Slot(i) # Slot(j)
  <2>1. /\ <<2, i>> \in DOMAIN Taken /\ <<2, j>> \in DOMAIN Taken /\ <<2, i>> # <<2, j>>
        /\ Taken[<<2, i>>] = Slot(i) /\ Taken[<<2, j>>] = Slot(j)
    BY <1>4, TakenIs DEF TakenByKind
  <2>2. Free(Slot(i), Slot(j))
    <3> HIDE DEF Slot
    <3> QED
      BY <2>1 DEF ContainerInv, FamilyOK
  <2>3. ~Apart(rows[i].slot.at, rows[i].room, rows[i].slot.at, rows[i].room)
    BY RegionTypes DEF Apart
  <2> HIDE DEF Slot
  <2> QED
    BY <1>1, <2>2, <2>3
<1>5. Regions = RowRegions \cup SlotRegions
  BY DEF Regions, RowRegions, SlotRegions
<1>6. /\ \A g \in RowRegions : \E i \in DOMAIN rows : g = Row(i)
      /\ \A g \in SlotRegions : \E i \in Blocks : g = Slot(i)
  BY DEF RowRegions, SlotRegions
<1> HIDE DEF Row, Slot
<1>7. Disjoint(Regions)
  <2> SUFFICES ASSUME NEW g \in Regions, NEW h \in Regions, g # h PROVE Free(g, h)
    BY DEF Disjoint
  <2>1. CASE g \in RowRegions /\ h \in RowRegions
    BY <1>2, <1>6, <2>1
  <2>2. CASE g \in RowRegions /\ h \in SlotRegions
    BY <1>3, <1>6, <2>2
  <2>3. CASE g \in SlotRegions /\ h \in RowRegions
    BY <1>3, <1>6, <2>3
  <2>4. CASE g \in SlotRegions /\ h \in SlotRegions
    BY <1>4, <1>6, <2>4
  <2> QED
    BY <1>5, <2>1, <2>2, <2>3, <2>4
<1>8. RowRegions \cap SlotRegions = {}
  BY <1>3, <1>6
<1> QED
  BY <1>2, <1>4, <1>7, <1>8 DEF Row, Slot

LEMMA RegionsCounted ==
    ASSUME ContainerInv
    PROVE  Cardinality(Regions) = Len(rows) + Cardinality(Blocks)
<1>1. Len(rows) \in Nat /\ DOMAIN rows = 1 .. Len(rows) /\ Blocks \in SUBSET (1 .. Len(rows))
  BY DEF ContainerInv, RowsTyped, Blocks
<1>2. IsFiniteSet(1 .. Len(rows)) /\ Cardinality(1 .. Len(rows)) = Len(rows)
  <2>1. IsFiniteSet(1 .. Len(rows))
        /\ Cardinality(1 .. Len(rows)) = IF 1 > Len(rows) THEN 0 ELSE Len(rows) - 1 + 1
    BY <1>1, FS_Interval
  <2> QED
    BY <1>1, <2>1
<1>3. IsFiniteSet(Blocks) /\ Cardinality(Blocks) \in Nat
  BY <1>1, <1>2, FS_Subset, FS_CardinalityType
<1>4. Cardinality(RowRegions) = Len(rows) /\ IsFiniteSet(RowRegions)
  <2> DEFINE f == [i \in DOMAIN rows |-> Region(rows[i].chunk, rows[i].at, RowSize)]
  <2>1. RowRegions = {f[i] : i \in DOMAIN rows}
    BY DEF RowRegions
  <2>2. \A i, j \in DOMAIN rows : f[i] = f[j] => i = j
    BY RegionsDisjoint
  <2> HIDE DEF f
  <2>3. Cardinality(RowRegions) = Cardinality(DOMAIN rows) /\ IsFiniteSet(RowRegions)
    BY <1>1, <2>1, <2>2, NamedOnce
  <2> QED
    BY <1>1, <1>2, <2>3
<1>5. Cardinality(SlotRegions) = Cardinality(Blocks) /\ IsFiniteSet(SlotRegions)
  <2> DEFINE f == [i \in Blocks |-> Region(rows[i].slot.chunk, rows[i].slot.at, rows[i].room)]
  <2>1. SlotRegions = {f[i] : i \in Blocks}
    BY DEF SlotRegions
  <2>2. \A i, j \in Blocks : f[i] = f[j] => i = j
    BY RegionsDisjoint
  <2> HIDE DEF f
  <2> QED
    BY <1>1, <2>1, <2>2, NamedOnce
<1>6. RowRegions \cap SlotRegions = {}
  BY RegionsDisjoint
<1>7. Regions = RowRegions \cup SlotRegions
  BY DEF Regions, RowRegions, SlotRegions
<1>8. Cardinality(RowRegions \cup SlotRegions)
        = Cardinality(RowRegions) + Cardinality(SlotRegions) - Cardinality(RowRegions \cap SlotRegions)
  BY <1>4, <1>5, FS_Union
<1>9. Cardinality({}) = 0
  BY FS_EmptySet
<1>10. Cardinality(RowRegions \cup SlotRegions) = Len(rows) + Cardinality(Blocks) - 0
  BY <1>4, <1>5, <1>6, <1>8, <1>9
<1> QED
  BY <1>1, <1>3, <1>7, <1>10

LEMMA ContainerInvApart ==
    ContainerInv => RegionsApart
<1> SUFFICES ASSUME ContainerInv PROVE RegionsApart
  OBVIOUS
<1>1. Disjoint(Fields)
  BY FieldsApart DEF ContainerInv, RowsTyped
<1>2. ASSUME NEW g \in Regions PROVE g.chunk <= NumChunks /\ g.at + g.size <= chunk_sizes[g.chunk]
  <2>1. Current.sizes = chunk_sizes
    BY DEF Current
  <2>2. CASE \E i \in DOMAIN rows : g = Region(rows[i].chunk, rows[i].at, RowSize)
    <3>1. PICK i \in DOMAIN rows : g = Region(rows[i].chunk, rows[i].at, RowSize)
      BY <2>2
    <3>2. PICK b \in DOMAIN row_blocks, k \in 1 .. BLOCK_ROWS :
              /\ i = (b - 1) * BLOCK_ROWS + k
              /\ rows[i].chunk = row_blocks[b].chunk
              /\ rows[i].at = row_blocks[b].at + (k - 1) * RowSize
      BY PlaceOfRow
    <3> DEFINE h == Taken[<<1, b>>]
    <3>3. /\ h.chunk = rows[i].chunk /\ rows[i].at + RowSize <= h.at + h.size
          /\ rows[i].at \in Nat /\ h.at \in Nat /\ h.size \in Nat /\ InArena(h, Current)
      BY <3>2, RowInBlock
    <3> HIDE DEF h
    <3>4. /\ h.chunk \in 1 .. Len(chunk_sizes) /\ h.at + h.size <= chunk_sizes[h.chunk]
          /\ chunk_sizes \in Seq(Nat)
      BY <2>1, <3>3 DEF InArena, ContainerInv, ArenaOK
    <3>5. chunk_sizes[h.chunk] \in Nat /\ RowSize \in Nat
      BY <3>4, RegionTypes
    <3> QED
      <4>1. g.chunk = h.chunk /\ g.at = rows[i].at /\ g.size = RowSize
        BY <3>1, <3>3 DEF Region
      <4>2. g.at + g.size <= chunk_sizes[h.chunk]
        BY <3>3, <3>4, <3>5, <4>1, SMTT(20)
      <4> QED
        BY <3>4, <4>1, <4>2 DEF NumChunks
  <2>3. CASE \E i \in Blocks :
                g = Region(rows[i].slot.chunk, rows[i].slot.at, rows[i].room)
    <3>1. PICK i \in Blocks : g = Region(rows[i].slot.chunk, rows[i].slot.at, rows[i].room)
      BY <2>3
    <3>2. InArena(g, Current)
      BY <3>1, TakenIs DEF TakenByKind, ContainerInv, FamilyOK
    <3> QED
      BY <2>1, <3>2 DEF InArena, NumChunks
  <2> QED
    BY <2>2, <2>3 DEF Regions
<1>3. Disjoint(Regions) /\ Cardinality(Regions) = Len(rows) + Cardinality(Blocks)
  BY RegionsDisjoint, RegionsCounted
<1> QED
  BY <1>1, <1>2, <1>3 DEF RegionsApart

LEMMA ContainerInvReads ==
    ContainerInv => KeysReadBack
<1> SUFFICES ASSUME ContainerInv, NEW i \in DOMAIN rows
             PROVE  LET found == WalkBlock(mem, rows[i].slot, rows[i].is_null) IN
                    \A v \in DOMAIN stored[i], s \in Strings :
                        CompareFromRow(found[v], s) <=> stored[i][v] = s
  BY DEF KeysReadBack
<1> DEFINE values == stored[i]
           is_null == rows[i].is_null
<1>1. /\ values \in Seq(Values0) /\ rows[i].slot \in Address
      /\ is_null = [v \in DOMAIN values |-> values[v] = None]
      /\ HoldsBlock(mem, rows[i].slot, values)
  <2>1. rows \in Seq(RowRecord) /\ stored \in Seq(Seq(Values0)) /\ Len(stored) = Len(rows)
    BY DEF ContainerInv, RowsTyped
  <2>2. values \in Seq(Values0)
    BY <2>1
  <2>3. rows[i] \in RowRecord
    BY <2>1
  <2>4. is_null = [v \in DOMAIN values |-> values[v] = None]
    BY DEF ContainerInv, RowsTyped
  <2>5. HoldsBlock(mem, rows[i].slot, values)
    BY DEF ContainerInv, HeldIn
  <2> QED
    BY <2>2, <2>3, <2>4, <2>5 DEF RowRecord
<1> HIDE DEF values, is_null
<1>2. is_null = NullBits(values)
  BY <1>1 DEF NullBits
<1>3. WalkBlock(mem, rows[i].slot, is_null) = [v \in DOMAIN values |-> Serialized(values[v])]
  <2>1. WalkBlock(mem, rows[i].slot, NullBits(values)) = [v \in DOMAIN values |-> Serialized(values[v])]
    BY <1>1, WalkFinds, Zenon
  <2> QED
    BY <1>2, <2>1
<1>4. ASSUME NEW v \in DOMAIN values, NEW s \in Strings
      PROVE  CompareFromRow(Serialized(values[v]), s) <=> values[v] = s
  <2>1. values[v] \in Values0
    BY <1>1
  <2> QED
    BY <2>1, CompareExact
<1> QED
  BY <1>3, <1>4 DEF values, is_null

-----------------------------------------------------------------------------
(* The other steps of the cases keep the invariant. *)

LEMMA SameContainer ==
    ASSUME ContainerInv, UNCHANGED <<vars, case, data, blocks>>
    PROVE  ContainerInv'
<1>1. /\ chunk_sizes' = chunk_sizes /\ avail_buf' = avail_buf /\ key_sizes' = key_sizes
      /\ row_blocks' = row_blocks /\ batch_remaining' = batch_remaining
      /\ rows' = rows /\ mem' = mem /\ stored' = stored
      /\ case' = case /\ data' = data /\ blocks' = blocks
  BY DEF vars, arenaVars
<1>2. RowSize' = RowSize /\ RowBlockSize' = RowBlockSize
  BY <1>1, SameRowSize
<1>3. Current' = Current /\ Taken' = Taken
  BY <1>1, <1>2 DEF Current, Taken, Blocks, Loose
<1>4. RowsTyped'
  BY <1>1 DEF ContainerInv, RowsTyped
<1>5. RowsPlaced'
  BY <1>1, <1>2 DEF ContainerInv, RowsPlaced
<1>6. HeldIn(mem)'
  BY <1>1 DEF ContainerInv, HeldIn
<1> QED
  BY <1>3, <1>4, <1>5, <1>6 DEF ContainerInv

LEMMA SerializeBlockKeeps ==
    ASSUME ContainerInv, case \in LooseCases, case' = case, data' = data,
           NEW values \in Seq(Values0), values = data[Len(blocks) + 1],
           blocks' = Append(blocks, Placed(TotalSize(values))),
           BecomeArena(Allocated(Current, TotalSize(values))),
           mem' = WriteBlock(mem, Placed(TotalSize(values)), values),
           UNCHANGED <<key_sizes, row_blocks, batch_remaining, rows, stored>>
    PROVE  ContainerInv'
<1> DEFINE n == Len(blocks) + 1
           size == TotalSize(values)
           block == PlacedIn(Current, size)
           arena == Allocated(Current, size)
           mem2 == WriteBlock(mem, block, values)
           f == IF size = 0 THEN Taken ELSE With(Taken, <<3, n>>, Region(block.chunk, block.at, size))
<1>1. /\ blocks' = Append(blocks, block) /\ BecomeArena(arena) /\ mem' = mem2
      /\ key_sizes' = key_sizes /\ row_blocks' = row_blocks
      /\ batch_remaining' = batch_remaining /\ rows' = rows /\ stored' = stored
  BY DEF Placed
<1>2. /\ ArenaOK(Current) /\ FamilyOK(Taken, Current) /\ HeldIn(mem) /\ MemOK(mem)
      /\ RowsTyped /\ blocks \in Seq(Address)
  BY DEF ContainerInv, RowsTyped, HeldIn
<1>3. RowSize' = RowSize /\ RowBlockSize' = RowBlockSize
  BY <1>1, SameRowSize
<1>4. size \in Nat
  BY EntryStarts
<1> HIDE DEF size
<1>5. block \in Address
  BY <1>2, <1>4, PlacedIsFree DEF Address
<1>6. ArenaOK(arena)
  <2>1. CASE size = 0
    BY <1>2, <2>1, NothingAllocated
  <2>2. CASE size # 0
    <3>1. size \in Nat \ {0}
      BY <1>4, <2>2
    <3> QED
      BY <1>2, <3>1, AllocatedFacts
  <2> QED
    BY <2>1, <2>2
<1>7. /\ KeepsOthers(mem, mem2, block.chunk, block.at, size)
      /\ HoldsBlock(mem2, block, values) /\ MemOK(mem2)
  <2> HIDE DEF block
  <2> QED
    BY <1>2, <1>5, WrittenBlock DEF size
<1>8. HeldIn(mem2)
  <2>1. \A p \in DOMAIN Taken : InArena(Taken[p], Current)
    BY <1>2 DEF FamilyOK
  <2> HIDE DEF mem2
  <2> QED
    BY <1>2, <1>4, <1>7, <2>1, HeldAfter
<1>9. <<3, n>> \notin DOMAIN Taken
  <2> SUFFICES ASSUME <<3, n>> \in DOMAIN Taken PROVE FALSE
    OBVIOUS
  <2>1. PICK i \in Loose : <<3, n>> = <<3, i>>
    BY TakenIs DEF TakenByKind
  <2>2. i = n /\ i \in DOMAIN blocks
    BY <2>1 DEF Loose
  <2> QED
    BY <1>2, <2>2
<1>10. FamilyOK(f, arena)
  <2>1. CASE size = 0
    BY <1>2, <2>1, NothingAllocated
  <2>2. CASE size # 0
    <3>1. size \in Nat \ {0}
      BY <1>4, <2>2
    <3>2. FamilyOK(With(Taken, <<3, n>>, Region(block.chunk, block.at, size)), arena)
      BY <1>2, <1>9, <3>1, FamilyGrows
    <3> QED
      BY <2>2, <3>2
  <2> QED
    BY <2>1, <2>2
<1> HIDE DEF block, arena, mem2
<1>11. /\ blocks' \in Seq(Address) /\ DOMAIN blocks' = DOMAIN blocks \cup {n}
       /\ blocks'[n] = block /\ \A i \in DOMAIN blocks : i # n /\ blocks'[i] = blocks[i]
  BY <1>1, <1>2, <1>5
<1>12. RowsTyped'
  <2>1. \A i \in DOMAIN blocks' : data'[i] \in Seq(Values0)
    BY <1>11 DEF ContainerInv, RowsTyped
  <2> QED
    BY <1>1, <1>2, <1>11, <2>1 DEF RowsTyped
<1>13. RowsPlaced'
  BY <1>1, <1>3 DEF ContainerInv, RowsPlaced
<1>14. Current' = arena
  <2>1. arena = [sizes |-> arena.sizes, at |-> arena.at]
    BY <1>6 DEF ArenaOK
  <2> QED
    BY <1>1, <2>1 DEF BecomeArena, Current
<1>15. HeldIn(mem)'
  <2>1. \A i \in DOMAIN blocks' : HoldsBlock(mem2, blocks'[i], data'[i])
    BY <1>7, <1>8, <1>11 DEF HeldIn
  <2> QED
    BY <1>1, <1>8, <2>1 DEF HeldIn
<1>16. FamilyOK(Taken, Current)'
  <2>1. TakenByKind'
    BY TakenIs, PTL
  <2>2. TakenByKind
    BY TakenIs
  <2>3. ASSUME NEW b \in DOMAIN row_blocks'
        PROVE  <<1, b>> \in DOMAIN f /\ Taken'[<<1, b>>] = f[<<1, b>>]
    <3>1. Taken'[<<1, b>>] = Taken[<<1, b>>] /\ <<1, b>> \in DOMAIN Taken
      BY <1>1, <1>3, <2>1, <2>2 DEF TakenByKind
    <3>2. <<1, b>> # <<3, n>>
      OBVIOUS
    <3> QED
      BY <3>1, <3>2 DEF With
  <2>4. ASSUME NEW i \in Blocks'
        PROVE  <<2, i>> \in DOMAIN f /\ Taken'[<<2, i>>] = f[<<2, i>>]
    <3>1. Blocks' = Blocks
      BY <1>1 DEF Blocks
    <3>2. Taken'[<<2, i>>] = Taken[<<2, i>>] /\ <<2, i>> \in DOMAIN Taken
      BY <1>1, <2>1, <2>2, <3>1 DEF TakenByKind
    <3>3. <<2, i>> # <<3, n>>
      OBVIOUS
    <3> QED
      BY <3>2, <3>3 DEF With
  <2>5. ASSUME NEW i \in Loose'
        PROVE  <<3, i>> \in DOMAIN f /\ Taken'[<<3, i>>] = f[<<3, i>>]
    <3>1. Taken'[<<3, i>>] = Region(blocks'[i].chunk, blocks'[i].at, TotalSize(data'[i]))
      BY <2>1 DEF TakenByKind
    <3>2. i \in DOMAIN blocks' /\ TotalSize(data[i]) > 0
      BY DEF Loose
    <3>3. CASE i = n
      <4>1. size # 0 /\ data'[i] = values
        BY <1>4, <3>2, <3>3 DEF size
      <4>2. f = With(Taken, <<3, n>>, Region(block.chunk, block.at, size))
        BY <4>1
      <4>3. <<3, i>> \in DOMAIN f /\ f[<<3, i>>] = Region(block.chunk, block.at, size)
        BY <3>3, <4>2 DEF With
      <4>4. Taken'[<<3, i>>] = Region(block.chunk, block.at, size)
        BY <1>11, <3>1, <3>3, <4>1 DEF size
      <4> QED
        BY <4>3, <4>4
    <3>4. CASE i # n
      <4>1. i \in Loose /\ blocks'[i] = blocks[i]
        BY <1>11, <3>2, <3>4 DEF Loose
      <4>2. <<3, i>> \in DOMAIN Taken /\ Taken[<<3, i>>] = Taken'[<<3, i>>]
        BY <2>2, <3>1, <4>1 DEF TakenByKind
      <4>3. <<3, i>> # <<3, n>>
        BY <3>4
      <4> QED
        BY <4>2, <4>3 DEF With
    <3> QED
      BY <3>3, <3>4
  <2> HIDE DEF f
  <2>6. ASSUME NEW p \in DOMAIN Taken' PROVE p \in DOMAIN f /\ Taken'[p] = f[p]
    BY <2>1, <2>3, <2>4, <2>5 DEF TakenByKind
  <2>7. FamilyOK(Taken', arena)
    BY <1>10, <2>6, FamilySame
  <2> QED
    BY <1>14, <2>7
<1>17. ArenaOK(Current)'
  BY <1>6, <1>14
<1> QED
  BY <1>12, <1>13, <1>15, <1>16, <1>17 DEF ContainerInv

-----------------------------------------------------------------------------
(***************************************************************************)
(* The inductive invariant of the cases: where a driver's loops stand, that *)
(* a compared block holds its row of input, and that every aggregate lies   *)
(* at a row of its own.                                                     *)
(***************************************************************************)

AggOf(g, r) == IF AddressOf(r) \in DOMAIN g THEN g[AddressOf(r)] ELSE 0
RowValues == [n \in DOMAIN rows |-> AggOf(aggs, rows[n])]

RowDrivers == {"serialize_only", "compare_only", "new_row", "store_value", "accumulate"}
BlockDrivers == LooseCases \cup {"compare_only"}

LoopsOK ==
    /\ pass \in {"fill", "use", "done"} /\ row_idx \in 1 .. NUM_ROWS
    /\ case # "any" => data \in [1 .. NUM_ROWS -> Seq(CaseStrings)]
    /\ pass = "fill" => row_idx <= FillEnd
    /\ case \in BlockDrivers => Len(blocks) = IF pass = "fill" THEN row_idx - 1 ELSE NUM_ROWS
    /\ case \in RowDrivers => Len(rows) = IF pass = "fill" THEN row_idx - 1 ELSE FillEnd
    /\ case = "compare_only" =>
          \A i \in DOMAIN blocks : blocks[i] = rows[i].slot /\ stored[i] = data[i]

AggsOK ==
    /\ \A a \in DOMAIN aggs : aggs[a] \in Nat /\ \E n \in DOMAIN rows : a = AddressOf(rows[n])
    /\ total = SumTo(RowValues, Len(rows))
    /\ case \in {"any", "serialize_only"} =>
          \A n \in DOMAIN rows :
              AddressOf(rows[n]) \in DOMAIN aggs /\ aggs[AddressOf(rows[n])] = Values[n]
    /\ case = "store_value" =>
          \A n \in DOMAIN rows : AddressOf(rows[n]) \in DOMAIN aggs =>
              pass # "fill" /\ (pass = "use" => n < row_idx)
    /\ case = "accumulate" => \A n \in DOMAIN rows : AddressOf(rows[n]) \in DOMAIN aggs

CaseInv ==
    /\ ContainerInv
    /\ LoopsOK
    /\ IF case \in {"compare_only", "compare_varchar"} THEN ComparisonsMatch ELSE AggsOK

LEMMA CaseConstants ==
    /\ NUM_ROWS \in Nat \ {0} /\ NUM_KEYS \in Nat \ {0} /\ NUM_KEYS <= NUM_ROWS
    /\ FillEnd \in 1 .. NUM_ROWS
    /\ case # "accumulate" => FillEnd = NUM_ROWS
    /\ \A n \in 1 .. MaxRows : Values[n] \in Nat
    /\ MaxRows \in Nat /\ NUM_ROWS <= MaxRows
    /\ CaseStrings \subseteq Strings
BY ContainerAssumption, CaseAssumption DEF FillEnd

LEMMA VarcharLists ==
    ASSUME key_sizes \in Seq(Nat), NEW S, NEW values \in Varchars(S)
    PROVE  values \in Seq(S)
<1>1. NumKeys \in Nat
  BY OffsetFacts
<1>2. IsFiniteSet(1 .. NumKeys) /\ VarcharColumns \in SUBSET (1 .. NumKeys)
  BY <1>1, FS_Interval DEF VarcharColumns
<1>3. Cardinality(VarcharColumns) \in Nat
  <2>1. IsFiniteSet(VarcharColumns)
    BY <1>2, FS_Subset
  <2> QED
    BY <2>1, FS_CardinalityType
<1> QED
  BY <1>3 DEF Varchars

(* What stands where in two sequences joined. *)
LEMMA Concatenated ==
    ASSUME NEW S, NEW p \in Seq(S), NEW q \in Seq(S)
    PROVE  /\ p \o q \in Seq(S) /\ Len(p \o q) = Len(p) + Len(q)
           /\ DOMAIN (p \o q) = 1 .. Len(p) + Len(q)
           /\ \A n \in 1 .. Len(p) + Len(q) :
                 (p \o q)[n] = IF n <= Len(p) THEN p[n] ELSE q[n - Len(p)]
  OBVIOUS

LEMMA CaseInitInv ==
    CaseInit => CaseInv
<1> SUFFICES ASSUME CaseInit PROVE CaseInv
  OBVIOUS
<1>1. /\ chunk_sizes = <<>> /\ avail_buf = 0 /\ key_sizes \in Seq(Nat)
      /\ row_blocks = <<>> /\ batch_remaining = 0 /\ rows = <<>> /\ mem = <<>> /\ stored = <<>>
      /\ pass = "fill" /\ row_idx = 1 /\ blocks = <<>> /\ aggs = <<>> /\ total = 0
  BY ContainerAssumption DEF CaseInit, Init, ArenaInit
<1>2. /\ BLOCK_ROWS \in Nat \ {0} /\ MaxRows \in Nat
  BY ContainerAssumption
<1>3. ContainerInv
  <2>1. RowsTyped
    BY <1>1, <1>2 DEF RowsTyped
  <2>2. RowsPlaced
    BY <1>1, <1>2 DEF RowsPlaced
  <2>3. ArenaOK(Current)
    BY <1>1 DEF ArenaOK, Current
  <2>4. FamilyOK(Taken, Current)
    <3>1. \A p : p \notin DOMAIN Taken
      BY <1>1, TakenIs DEF TakenByKind, Blocks, Loose
    <3> QED
      BY <3>1 DEF FamilyOK
  <2>5. HeldIn(mem)
    BY <1>1 DEF HeldIn, MemOK
  <2> QED
    BY <2>1, <2>2, <2>3, <2>4, <2>5 DEF ContainerInv
<1>4. case # "any" => data \in [1 .. NUM_ROWS -> Seq(CaseStrings)]
  <2> SUFFICES ASSUME data \in [1 .. NUM_ROWS -> Varchars(CaseStrings)]
               PROVE  data \in [1 .. NUM_ROWS -> Seq(CaseStrings)]
    BY DEF CaseInit
  <2>1. \A values \in Varchars(CaseStrings) : values \in Seq(CaseStrings)
    BY <1>1, VarcharLists
  <2> QED
    BY <2>1
<1>5. LoopsOK
  BY <1>1, <1>4, CaseConstants DEF LoopsOK
<1>6. AggsOK
  BY <1>1, SumZero DEF AggsOK
<1>7. ComparisonsMatch
  BY <1>1 DEF ComparisonsMatch
<1> QED
  BY <1>3, <1>5, <1>6, <1>7 DEF CaseInv

-----------------------------------------------------------------------------
(* The checksum's walk. *)

WalkedRows(w, n) ==
    w = [b \in 0 .. n |->
            IF b = 0 THEN [seen |-> <<>>, remaining |-> Len(rows)]
            ELSE [seen |-> w[b - 1].seen \o
                              [i \in 1 .. BlockRows(w[b - 1].remaining) |->
                                  RowOf(row_blocks[b], i - 1)],
                  remaining |-> w[b - 1].remaining - BlockRows(w[b - 1].remaining)]]

Bare(n) == [chunk |-> rows[n].chunk, at |-> rows[n].at]

(* The rows in the first b blocks. *)
InFirst(b) == IF b * BLOCK_ROWS < Len(rows) THEN b * BLOCK_ROWS ELSE Len(rows)

FirstRows(b) == [n \in 1 .. InFirst(b) |-> Bare(n)]

LEMMA FirstRowsStep ==
    ASSUME ContainerInv, NEW b \in 1 .. Len(row_blocks)
    PROVE  LET left == Len(rows) - InFirst(b - 1) IN
           /\ InFirst(b - 1) \in Nat /\ left \in Nat
           /\ FirstRows(b) = FirstRows(b - 1) \o
                 [i \in 1 .. BlockRows(left) |-> RowOf(row_blocks[b], i - 1)]
           /\ Len(rows) - InFirst(b) = left - BlockRows(left)
<1> DEFINE p == (b - 1) * BLOCK_ROWS
           left == Len(rows) - InFirst(b - 1)
           m == BlockRows(left)
           part == [i \in 1 .. m |-> RowOf(row_blocks[b], i - 1)]
<1>1. /\ BLOCK_ROWS \in Nat \ {0} /\ Len(rows) \in Nat /\ b - 1 \in Nat
      /\ row_blocks \in Seq(Address) /\ rows \in Seq(RowRecord)
  <2>1. row_blocks \in Seq(Address) /\ rows \in Seq(RowRecord)
    BY DEF ContainerInv, RowsTyped
  <2> QED
    BY <2>1, ContainerAssumption
<1>2. p \in Nat /\ b * BLOCK_ROWS = p + BLOCK_ROWS
  <2>1. p \in Nat
    BY <1>1
  <2> QED
    BY <1>1, <2>1, Z3
<1> HIDE DEF p
<1>3. InFirst(b - 1) = (IF p < Len(rows) THEN p ELSE Len(rows))
  BY DEF InFirst, p
<1>4. InFirst(b) = (IF p + BLOCK_ROWS < Len(rows) THEN p + BLOCK_ROWS ELSE Len(rows))
  BY <1>2 DEF InFirst
<1>5. InFirst(b - 1) \in Nat /\ left \in Nat /\ m \in Nat /\ m <= BLOCK_ROWS
  BY <1>1, <1>2, <1>3 DEF BlockRows
<1>6. InFirst(b) = InFirst(b - 1) + m /\ InFirst(b) \in Nat /\ InFirst(b) <= Len(rows)
  BY <1>1, <1>2, <1>3, <1>4 DEF BlockRows
<1>7. ASSUME NEW i \in 1 .. m PROVE RowOf(row_blocks[b], i - 1) = Bare(InFirst(b - 1) + i)
  <2>1. i \in 1 .. BLOCK_ROWS /\ i \in Nat /\ p < Len(rows) /\ p + i <= Len(rows)
    BY <1>1, <1>2, <1>3, <1>5 DEF BlockRows
  <2>2. InFirst(b - 1) = p
    BY <1>3, <2>1
  <2>3. rows[p + i].chunk = row_blocks[b].chunk /\ rows[p + i].at = row_blocks[b].at + (i - 1) * RowSize
    BY <1>1, <2>1 DEF ContainerInv, RowsPlaced, p
  <2>4. row_blocks[b] \in Address
    BY <1>1
  <2>5. RowOf(row_blocks[b], i - 1)
          = [chunk |-> row_blocks[b].chunk, at |-> row_blocks[b].at + (i - 1) * RowSize]
    BY <2>4 DEF RowOf, Address
  <2> QED
    BY <2>2, <2>3, <2>5 DEF Bare
<1> HIDE DEF m, left
<1>8. FirstRows(b) = FirstRows(b - 1) \o part
  <2> DEFINE s == FirstRows(b - 1)
             t == s \o part
             R == [chunk : Nat, at : Nat]
  <2>1. \A n \in 1 .. Len(rows) : Bare(n) \in R
    <3>1. \A n \in 1 .. Len(rows) : rows[n] \in RowRecord
      BY <1>1
    <3> QED
      BY <3>1 DEF Bare, RowRecord
  <2>2. s \in Seq(R) /\ Len(s) = InFirst(b - 1) /\ \A n \in 1 .. InFirst(b - 1) : s[n] = Bare(n)
    <3> HIDE DEF R
    <3>1. InFirst(b - 1) <= Len(rows)
      BY <1>1, <1>5, <1>6
    <3>2. s = [n \in 1 .. InFirst(b - 1) |-> Bare(n)]
      BY DEF FirstRows
    <3> HIDE DEF s
    <3>3. \A n \in 1 .. InFirst(b - 1) : Bare(n) \in R
      BY <1>1, <1>5, <2>1, <3>1
    <3> QED
      BY <1>5, <3>2, <3>3
  <2>3. part \in Seq(R) /\ Len(part) = m /\ \A i \in 1 .. m : part[i] = Bare(InFirst(b - 1) + i)
    <3>1. \A i \in 1 .. m : InFirst(b - 1) + i \in 1 .. Len(rows)
      BY <1>1, <1>5, <1>6
    <3>2. \A i \in 1 .. m : part[i] = Bare(InFirst(b - 1) + i) /\ part[i] \in R
      BY <1>7, <2>1, <3>1
    <3>3. part = [i \in 1 .. m |-> part[i]]
      OBVIOUS
    <3> HIDE DEF R, part
    <3> QED
      BY <1>5, <3>2, <3>3
  <2> HIDE DEF s, part, R, t
  <2>4. t \in Seq(R) /\ Len(t) = InFirst(b - 1) + m /\ DOMAIN t = 1 .. InFirst(b)
        /\ \A n \in 1 .. InFirst(b) :
              t[n] = IF n <= InFirst(b - 1) THEN s[n] ELSE part[n - InFirst(b - 1)]
    <3>1. t \in Seq(R) /\ Len(t) = Len(s) + Len(part) /\ DOMAIN t = 1 .. Len(s) + Len(part)
          /\ \A n \in 1 .. Len(s) + Len(part) :
                t[n] = IF n <= Len(s) THEN s[n] ELSE part[n - Len(s)]
      BY <2>2, <2>3, Concatenated DEF t
    <3>2. Len(s) = InFirst(b - 1) /\ Len(s) + Len(part) = InFirst(b)
      BY <1>5, <1>6, <2>2, <2>3
    <3> QED
      BY <2>3, <3>1, <3>2
  <2>5. ASSUME NEW n \in 1 .. InFirst(b) PROVE t[n] = Bare(n)
    <3>1. CASE n <= InFirst(b - 1)
      <4>1. n \in 1 .. InFirst(b - 1)
        BY <1>5, <1>6, <3>1
      <4> QED
        BY <2>2, <2>4, <3>1, <4>1
    <3>2. CASE ~(n <= InFirst(b - 1))
      <4>1. n - InFirst(b - 1) \in 1 .. m /\ InFirst(b - 1) + (n - InFirst(b - 1)) = n
        BY <1>5, <1>6, <3>2
      <4> QED
        BY <2>3, <2>4, <3>2, <4>1
    <3> QED
      BY <3>1, <3>2
  <2>6. t = [n \in DOMAIN t |-> t[n]]
    <3> HIDE DEF t
    <3>1. t \in [1 .. Len(t) -> R]
      BY <2>4
    <3> QED
      BY <3>1
  <2> HIDE DEF t
  <2> QED
    BY <2>4, <2>5, <2>6 DEF FirstRows, t, s
<1>9. Len(rows) - InFirst(b) = left - m
  BY <1>1, <1>5, <1>6 DEF left
<1> QED
  BY <1>5, <1>8, <1>9 DEF left, m, part

(* It reads every row once, in the order they were stored in. *)
LEMMA ChecksumReadsRows ==
    ASSUME ContainerInv
    PROVE  ChecksumRows = [n \in 1 .. Len(rows) |-> Bare(n)]
<1> DEFINE L == Len(row_blocks)
           good == [b \in 0 .. L |->
                       [seen |-> FirstRows(b), remaining |-> Len(rows) - InFirst(b)]]
           w == CHOOSE w : WalkedRows(w, L)
<1>1. /\ BLOCK_ROWS \in Nat \ {0} /\ Len(rows) \in Nat /\ L \in Nat
      /\ batch_remaining \in Nat /\ Len(rows) + batch_remaining = L * BLOCK_ROWS
  BY ContainerAssumption DEF ContainerInv, RowsTyped, RowsPlaced
<1>2. InFirst(0) = 0 /\ FirstRows(0) = <<>>
  BY <1>1 DEF InFirst, FirstRows
<1>3. WalkedRows(good, L)
  <2>1. ASSUME NEW b \in 0 .. L
        PROVE  good[b] =
                 IF b = 0 THEN [seen |-> <<>>, remaining |-> Len(rows)]
                 ELSE [seen |-> good[b - 1].seen \o
                                   [i \in 1 .. BlockRows(good[b - 1].remaining) |->
                                       RowOf(row_blocks[b], i - 1)],
                       remaining |-> good[b - 1].remaining - BlockRows(good[b - 1].remaining)]
    <3>1. CASE b = 0
      BY <1>1, <1>2, <3>1
    <3>2. CASE b # 0
      <4>1. b \in 1 .. L /\ b - 1 \in 0 .. L
        BY <1>1, <3>2
      <4>2. /\ good[b] = [seen |-> FirstRows(b), remaining |-> Len(rows) - InFirst(b)]
            /\ good[b - 1].seen = FirstRows(b - 1)
            /\ good[b - 1].remaining = Len(rows) - InFirst(b - 1)
        BY <4>1
      <4> HIDE DEF good
      <4> QED
        BY <3>2, <4>1, <4>2, FirstRowsStep
    <3> QED
      BY <3>1, <3>2
  <2>2. good = [b \in 0 .. L |-> good[b]]
    OBVIOUS
  <2> HIDE DEF good, L
  <2> QED
    BY <2>1, <2>2 DEF WalkedRows
<1>4. WalkedRows(w, L)
  BY <1>3
<1>5. ChecksumRows = w[L].seen
  BY DEF ChecksumRows, WalkedRows
<1> HIDE DEF w
<1> DEFINE T == {b \in Nat : b <= L => w[b] = good[b]}
<1>6. 0 \in T
  <2>1. 0 \in 0 .. L
    BY <1>1
  <2> HIDE DEF good, L
  <2> QED
    BY <1>3, <1>4, <2>1 DEF WalkedRows
<1>7. ASSUME NEW b \in T PROVE b + 1 \in T
  <2> SUFFICES ASSUME b + 1 <= L PROVE w[b + 1] = good[b + 1]
    OBVIOUS
  <2>1. b \in Nat /\ b <= L /\ b + 1 \in 0 .. L /\ b + 1 # 0 /\ (b + 1) - 1 = b
    BY <1>1
  <2>2. w[b] = good[b]
    BY <2>1
  <2> DEFINE Step(v) == [seen |-> v.seen \o [i \in 1 .. BlockRows(v.remaining) |->
                                                RowOf(row_blocks[b + 1], i - 1)],
                         remaining |-> v.remaining - BlockRows(v.remaining)]
  <2> HIDE DEF good, L
  <2>3. w[b + 1] = Step(w[b])
    BY <1>4, <2>1 DEF WalkedRows
  <2>4. good[b + 1] = Step(good[b])
    BY <1>3, <2>1 DEF WalkedRows
  <2> HIDE DEF Step
  <2> QED
    BY <2>2, <2>3, <2>4
<1>8. T = Nat
  <2> HIDE DEF good
  <2> QED
    BY <1>6, <1>7, NatInd
<1>9. w[L] = good[L]
  <2> HIDE DEF good, L
  <2> QED
    BY <1>1, <1>8
<1>10. InFirst(L) = Len(rows)
  BY <1>1 DEF InFirst
<1>11. L \in 0 .. L
  BY <1>1
<1> QED
  BY <1>5, <1>9, <1>10, <1>11 DEF FirstRows

-----------------------------------------------------------------------------
(* The aggregates. *)

AddressesDiffer ==
    \A i, j \in DOMAIN rows : AddressOf(rows[i]) = AddressOf(rows[j]) => i = j

LEMMA RowsHaveAddresses ==
    ContainerInv => AddressesDiffer
<1> SUFFICES ASSUME ContainerInv, NEW i \in DOMAIN rows, NEW j \in DOMAIN rows, i # j,
                    AddressOf(rows[i]) = AddressOf(rows[j])
             PROVE  FALSE
  BY DEF AddressesDiffer
<1>1. rows[i].chunk = rows[j].chunk /\ rows[i].at = rows[j].at
  BY DEF AddressOf
<1>2. Apart(rows[i].at, RowSize, rows[j].at, RowSize)
  BY <1>1, RowsAreApart
<1>3. RowSize \in Nat \ {0} /\ rows[i].at \in Nat
  BY RegionTypes
<1> QED
  BY <1>1, <1>2, <1>3 DEF Apart

LEMMA ChecksumIsSum ==
    ASSUME ContainerInv
    PROVE  Checksum = SumTo(RowValues, Len(rows))
<1> DEFINE read == ChecksumRows
           value == [n \in DOMAIN read |->
                       IF AddressOf(read[n]) \in DOMAIN aggs THEN aggs[AddressOf(read[n])] ELSE 0]
           N == Len(rows)
<1>1. N \in Nat /\ DOMAIN rows = 1 .. N
  BY DEF ContainerInv, RowsTyped
<1>2. read = [n \in 1 .. N |-> Bare(n)]
  BY ChecksumReadsRows
<1> HIDE DEF read
<1>3. DOMAIN read = 1 .. N /\ Len(read) = N
  BY <1>1, <1>2
<1>4. \A n \in 1 .. N : value[n] = RowValues[n]
  <2> SUFFICES ASSUME NEW n \in 1 .. N PROVE value[n] = RowValues[n]
    OBVIOUS
  <2>1. AddressOf(read[n]) = AddressOf(rows[n])
    BY <1>2 DEF Bare, AddressOf
  <2>2. RowValues[n] = AggOf(aggs, rows[n])
    BY <1>1 DEF RowValues
  <2> QED
    BY <1>3, <2>1, <2>2 DEF AggOf
<1>5. Checksum = SumTo(value, N)
  BY <1>3 DEF Checksum, read
<1> HIDE DEF value, N
<1>6. SumTo(value, N) = SumTo(RowValues, N)
  BY <1>1, <1>4, SumSame
<1> QED
  BY <1>5, <1>6 DEF N

LEMMA CaseInvResults ==
    CaseInv => ResultsRight
<1> SUFFICES ASSUME CaseInv PROVE ResultsRight
  OBVIOUS
<1>1. Checksum = SumTo(RowValues, Len(rows))
  BY ChecksumIsSum DEF CaseInv
<1> QED
  BY <1>1 DEF CaseInv, ResultsRight, AggsOK, AggregatesRight

(* Every aggregate is a number and lies at a row. *)
AggsAtRows(g, r) ==
    \A a \in DOMAIN g : g[a] \in Nat /\ \E n \in DOMAIN r : a = AddressOf(r[n])

LEMMA RowValuesType ==
    ASSUME ContainerInv, AggsAtRows(aggs, rows)
    PROVE  NumbersTo(RowValues, Len(rows)) /\ SumTo(RowValues, Len(rows)) \in Nat
<1>1. Len(rows) \in Nat /\ DOMAIN rows = 1 .. Len(rows)
  BY DEF ContainerInv, RowsTyped
<1>2. NumbersTo(RowValues, Len(rows))
  BY <1>1 DEF NumbersTo, RowValues, AggOf, AggsAtRows
<1> QED
  BY <1>1, <1>2, SumNat

(* A new row has no aggregate before it is given one. *)
LEMMA AggsOfNewRow ==
    ASSUME ContainerInv, ContainerInv', AggsAtRows(aggs, rows),
           Len(rows') = Len(rows) + 1, \A i \in DOMAIN rows : rows'[i] = rows[i],
           NEW v \in Nat,
           \/ aggs' = aggs /\ v = 0
           \/ aggs' = Stored(rows'[Len(rows) + 1], v)
    PROVE  /\ AggsAtRows(aggs', rows')
           /\ AddressOf(rows'[Len(rows) + 1]) \notin DOMAIN aggs
           /\ \A i \in DOMAIN rows : AggOf(aggs', rows'[i]) = AggOf(aggs, rows[i])
           /\ SumTo(RowValues', Len(rows')) = SumTo(RowValues, Len(rows)) + v
<1> DEFINE n == Len(rows) + 1
           a == AddressOf(rows'[n])
<1>1. /\ Len(rows) \in Nat /\ DOMAIN rows = 1 .. Len(rows) /\ DOMAIN rows' = 1 .. n
  BY DEF ContainerInv, RowsTyped
<1>2. AddressesDiffer'
  BY RowsHaveAddresses, PTL
<1>3. \A i \in DOMAIN rows : AddressOf(rows[i]) # a
  <2> SUFFICES ASSUME NEW i \in DOMAIN rows, AddressOf(rows[i]) = a PROVE FALSE
    OBVIOUS
  <2>1. i \in DOMAIN rows' /\ n \in DOMAIN rows' /\ i # n /\ rows'[i] = rows[i]
    BY <1>1
  <2>2. AddressOf(rows'[i]) = AddressOf(rows'[n])
    BY <2>1
  <2> QED
    BY <1>2, <2>1, <2>2 DEF AddressesDiffer
<1>4. a \notin DOMAIN aggs
  BY <1>3 DEF AggsAtRows
<1> HIDE DEF a
<1>5. \A i \in DOMAIN rows : AggOf(aggs', rows'[i]) = AggOf(aggs, rows[i])
  <2>1. CASE aggs' = aggs
    BY <2>1
  <2>2. CASE aggs' = Stored(rows'[n], v)
    <3>1. /\ DOMAIN aggs' = DOMAIN aggs \cup {a}
          /\ \A x \in DOMAIN aggs : x # a => aggs'[x] = aggs[x]
      BY <2>2 DEF Stored, a
    <3> QED
      BY <1>3, <3>1 DEF AggOf
  <2> QED
    BY <2>1, <2>2
<1>6. AggOf(aggs', rows'[n]) = v
  <2>1. CASE aggs' = aggs /\ v = 0
    BY <1>4, <2>1 DEF AggOf, a
  <2>2. CASE aggs' = Stored(rows'[n], v)
    <3>1. a \in DOMAIN aggs' /\ aggs'[a] = v
      BY <2>2 DEF Stored, a
    <3> QED
      BY <3>1 DEF AggOf, a
  <2> QED
    BY <2>1, <2>2
<1>7. AggsAtRows(aggs', rows')
  <2>1. \A x : (\E i \in DOMAIN rows : x = AddressOf(rows[i]))
                  => \E i \in DOMAIN rows' : x = AddressOf(rows'[i])
    BY <1>1
  <2>2. CASE aggs' = aggs
    BY <2>1, <2>2 DEF AggsAtRows
  <2>3. CASE aggs' = Stored(rows'[n], v)
    <3>1. /\ DOMAIN aggs' = DOMAIN aggs \cup {a} /\ aggs'[a] = v
          /\ \A x \in DOMAIN aggs : x # a => aggs'[x] = aggs[x]
      BY <2>3 DEF Stored, a
    <3>2. \E i \in DOMAIN rows' : a = AddressOf(rows'[i])
      BY <1>1 DEF a
    <3> QED
      BY <2>1, <3>1, <3>2 DEF AggsAtRows
  <2> QED
    BY <2>2, <2>3
<1>8. SumTo(RowValues', Len(rows')) = SumTo(RowValues, Len(rows)) + v
  <2>1. \A i \in 1 .. Len(rows) : RowValues'[i] = RowValues[i]
    <3> SUFFICES ASSUME NEW i \in 1 .. Len(rows) PROVE RowValues'[i] = RowValues[i]
      OBVIOUS
    <3>1. i \in DOMAIN rows /\ i \in DOMAIN rows'
      BY <1>1
    <3>2. RowValues'[i] = AggOf(aggs', rows'[i]) /\ RowValues[i] = AggOf(aggs, rows[i])
      BY <3>1 DEF RowValues
    <3> QED
      BY <1>5, <3>1, <3>2
  <2>2. RowValues'[n] = v
    <3>1. n \in DOMAIN rows'
      BY <1>1
    <3>2. RowValues'[n] = AggOf(aggs', rows'[n])
      BY <3>1 DEF RowValues
    <3> QED
      BY <1>6, <3>2
  <2>3. SumTo(RowValues', n) = SumTo(RowValues', Len(rows)) + RowValues'[n]
    BY <1>1, SumStep
  <2>4. SumTo(RowValues', Len(rows)) = SumTo(RowValues, Len(rows))
    BY <1>1, <2>1, SumSame
  <2> QED
    BY <2>2, <2>3, <2>4
<1> QED
  BY <1>4, <1>5, <1>7, <1>8 DEF a

(* One row's aggregate grows by d. *)
LEMMA AggsOfOldRow ==
    ASSUME ContainerInv, AggsAtRows(aggs, rows), rows' = rows,
           NEW x \in DOMAIN rows, NEW d \in Nat,
           aggs' = Stored(rows[x], AggOf(aggs, rows[x]) + d)
    PROVE  /\ AggsAtRows(aggs', rows')
           /\ DOMAIN aggs' = DOMAIN aggs \cup {AddressOf(rows[x])}
           /\ SumTo(RowValues', Len(rows')) = SumTo(RowValues, Len(rows)) + d
<1> DEFINE a == AddressOf(rows[x])
           v == AggOf(aggs, rows[x]) + d
<1>1. Len(rows) \in Nat /\ DOMAIN rows = 1 .. Len(rows)
  BY DEF ContainerInv, RowsTyped
<1>2. AddressesDiffer
  BY RowsHaveAddresses
<1>3. /\ NumbersTo(RowValues, Len(rows))
  BY RowValuesType
<1>4. AggOf(aggs, rows[x]) \in Nat
  BY DEF AggOf, AggsAtRows
<1>5. /\ DOMAIN aggs' = DOMAIN aggs \cup {a} /\ aggs'[a] = v
      /\ \A y \in DOMAIN aggs : y # a => aggs'[y] = aggs[y]
  BY DEF Stored
<1> HIDE DEF a, v
<1>6. AggsAtRows(aggs', rows')
  <2>1. v \in Nat /\ \E n \in DOMAIN rows : a = AddressOf(rows[n])
    BY <1>4 DEF a, v
  <2> QED
    BY <1>5, <2>1 DEF AggsAtRows
<1>7. RowValues'[x] = RowValues[x] + d
  <2>1. RowValues'[x] = AggOf(aggs', rows[x]) /\ RowValues[x] = AggOf(aggs, rows[x])
    BY DEF RowValues
  <2>2. AggOf(aggs', rows[x]) = v
    BY <1>5 DEF AggOf, a
  <2> QED
    BY <2>1, <2>2 DEF v
<1>8. \A k \in 1 .. Len(rows) : k # x => RowValues'[k] = RowValues[k]
  <2> SUFFICES ASSUME NEW k \in 1 .. Len(rows), k # x PROVE RowValues'[k] = RowValues[k]
    OBVIOUS
  <2>1. RowValues'[k] = AggOf(aggs', rows[k]) /\ RowValues[k] = AggOf(aggs, rows[k])
    BY <1>1 DEF RowValues
  <2>2. AddressOf(rows[k]) # a
    BY <1>1, <1>2 DEF AddressesDiffer, a
  <2> QED
    BY <1>5, <2>1, <2>2 DEF AggOf
<1>9. SumTo(RowValues', Len(rows)) = SumTo(RowValues, Len(rows)) + d
  BY <1>1, <1>3, <1>7, <1>8, SumChange
<1> QED
  BY <1>5, <1>6, <1>9 DEF a


-----------------------------------------------------------------------------
(* The steps of the cases. *)

LEMMA FillingStep ==
    ASSUME LoopsOK, Filling, case' = case
    PROVE  /\ pass = "fill" /\ row_idx \in 1 .. FillEnd /\ FillEnd' = FillEnd
           /\ row_idx' \in 1 .. NUM_ROWS
           /\ \/ pass' = "fill" /\ row_idx' = row_idx + 1 /\ row_idx' <= FillEnd
              \/ pass' = "use" /\ row_idx' = 1 /\ row_idx = FillEnd
              \/ pass' = "done" /\ row_idx' = 1 /\ row_idx = FillEnd /\ ~Uses
<1>1. FillEnd \in 1 .. NUM_ROWS /\ NUM_ROWS \in Nat \ {0} /\ FillEnd' = FillEnd
  BY CaseConstants DEF FillEnd
<1>2. pass = "fill" /\ row_idx \in 1 .. FillEnd
  BY <1>1 DEF LoopsOK, Filling
<1> QED
  BY <1>1, <1>2 DEF Filling, Advance

LEMMA UsingStep ==
    ASSUME LoopsOK, Using
    PROVE  /\ pass = "use" /\ row_idx \in 1 .. NUM_ROWS
           /\ row_idx' \in 1 .. NUM_ROWS
           /\ \/ pass' = "use" /\ row_idx' = row_idx + 1
              \/ pass' = "done" /\ row_idx' = 1 /\ row_idx = NUM_ROWS
<1>1. NUM_ROWS \in Nat \ {0}
  BY CaseConstants
<1> QED
  BY <1>1 DEF LoopsOK, Using, Advance

LEMMA LoopsFilled ==
    ASSUME LoopsOK, Filling, case' = case, data' = data,
           case \in RowDrivers => Len(rows') = Len(rows) + 1,
           case \in BlockDrivers => Len(blocks') = Len(blocks) + 1,
           case = "compare_only" =>
              \A i \in DOMAIN blocks' : blocks'[i] = rows'[i].slot /\ stored'[i] = data[i]
    PROVE  LoopsOK'
<1>1. /\ pass = "fill" /\ row_idx \in 1 .. FillEnd /\ FillEnd' = FillEnd
      /\ row_idx' \in 1 .. NUM_ROWS
      /\ \/ pass' = "fill" /\ row_idx' = row_idx + 1 /\ row_idx' <= FillEnd
         \/ pass' \in {"use", "done"} /\ row_idx' = 1 /\ row_idx = FillEnd
  BY FillingStep
<1>2. /\ FillEnd \in 1 .. NUM_ROWS /\ NUM_ROWS \in Nat \ {0}
      /\ case # "accumulate" => FillEnd = NUM_ROWS
  BY CaseConstants
<1>3. pass' \in {"fill", "use", "done"} /\ (pass' = "fill" => row_idx' <= FillEnd')
  BY <1>1
<1>4. (case # "any" => data \in [1 .. NUM_ROWS -> Seq(CaseStrings)])'
  BY DEF LoopsOK
<1>5. case \in BlockDrivers => Len(blocks') = IF pass' = "fill" THEN row_idx' - 1 ELSE NUM_ROWS
  <2> SUFFICES ASSUME case \in BlockDrivers
               PROVE  Len(blocks') = IF pass' = "fill" THEN row_idx' - 1 ELSE NUM_ROWS
    OBVIOUS
  <2>1. case # "accumulate"
    BY DEF BlockDrivers, LooseCases
  <2>2. Len(blocks) = row_idx - 1 /\ Len(blocks') = Len(blocks) + 1 /\ row_idx \in Nat
    BY <1>1, <1>2 DEF LoopsOK
  <2>3. Len(blocks') = row_idx /\ FillEnd = NUM_ROWS
    BY <1>2, <2>1, <2>2
  <2>4. CASE pass' = "fill"
    BY <1>1, <2>2, <2>3, <2>4
  <2>5. CASE pass' # "fill"
    BY <1>1, <2>3, <2>5
  <2> QED
    BY <2>4, <2>5
<1>6. case \in RowDrivers => Len(rows') = IF pass' = "fill" THEN row_idx' - 1 ELSE FillEnd'
  <2> SUFFICES ASSUME case \in RowDrivers
               PROVE  Len(rows') = IF pass' = "fill" THEN row_idx' - 1 ELSE FillEnd'
    OBVIOUS
  <2>1. Len(rows) = row_idx - 1 /\ Len(rows') = Len(rows) + 1 /\ row_idx \in Nat
    BY <1>1, <1>2 DEF LoopsOK
  <2>2. Len(rows') = row_idx
    BY <2>1
  <2>3. CASE pass' = "fill"
    BY <1>1, <2>1, <2>2, <2>3
  <2>4. CASE pass' # "fill"
    BY <1>1, <2>2, <2>4
  <2> QED
    BY <2>3, <2>4
<1> QED
  BY <1>1, <1>3, <1>4, <1>5, <1>6 DEF LoopsOK

LEMMA LoopsUsed ==
    ASSUME LoopsOK, Using, UNCHANGED <<case, data, blocks, rows, stored>>
    PROVE  LoopsOK'
<1>1. /\ pass = "use" /\ row_idx' \in 1 .. NUM_ROWS /\ pass' \in {"use", "done"}
      /\ FillEnd' = FillEnd
  BY UsingStep DEF FillEnd
<1>2. case' = case /\ data' = data /\ blocks' = blocks /\ rows' = rows /\ stored' = stored
  OBVIOUS
<1> QED
  BY <1>1, <1>2 DEF LoopsOK

(* The aggregates of the rows before stay with them when a new row's is set. *)
LEMMA EachRowsValue ==
    ASSUME AddressOf(rows'[Len(rows) + 1]) \notin DOMAIN aggs,
           Len(rows) \in Nat, DOMAIN rows = 1 .. Len(rows), DOMAIN rows' = 1 .. Len(rows) + 1,
           \A i \in DOMAIN rows : rows'[i] = rows[i],
           \A n \in DOMAIN rows :
               AddressOf(rows[n]) \in DOMAIN aggs /\ aggs[AddressOf(rows[n])] = Values[n],
           aggs' = Stored(rows'[Len(rows) + 1], Values[Len(rows) + 1])
    PROVE  \A n \in DOMAIN rows' :
               AddressOf(rows'[n]) \in DOMAIN aggs' /\ aggs'[AddressOf(rows'[n])] = Values[n]
<1> DEFINE a == AddressOf(rows'[Len(rows) + 1])
<1>1. /\ DOMAIN aggs' = DOMAIN aggs \cup {a} /\ aggs'[a] = Values[Len(rows) + 1]
      /\ \A x \in DOMAIN aggs : x # a => aggs'[x] = aggs[x]
  BY DEF Stored
<1> SUFFICES ASSUME NEW n \in DOMAIN rows'
             PROVE  AddressOf(rows'[n]) \in DOMAIN aggs' /\ aggs'[AddressOf(rows'[n])] = Values[n]
  OBVIOUS
<1>2. CASE n = Len(rows) + 1
  BY <1>1, <1>2
<1>3. CASE n # Len(rows) + 1
  <2>1. n \in DOMAIN rows /\ rows'[n] = rows[n]
    BY <1>3
  <2>2. AddressOf(rows'[n]) \in DOMAIN aggs /\ AddressOf(rows'[n]) # a
    BY <2>1
  <2> HIDE DEF a
  <2> QED
    BY <1>1, <2>1, <2>2
<1> QED
  BY <1>2, <1>3

LEMMA AnyRowKeeps ==
    ASSUME CaseInv, NEW values \in Varchars(Strings \cup {None}), AnyRow(values)
    PROVE  CaseInv'
<1>1. /\ ContainerInv /\ LoopsOK /\ AggsOK /\ case = "any" /\ case' = case
      /\ data' = data /\ pass' = pass /\ row_idx' = row_idx /\ blocks' = blocks
      /\ StoreRow(values) /\ aggs' = Stored(rows'[Len(rows')], Values[Len(rows')])
      /\ total' = total + Values[Len(rows')]
  BY DEF CaseInv, AnyRow
<1>2. values \in Seq(Values0)
  <2>1. key_sizes \in Seq(Nat)
    BY <1>1 DEF ContainerInv, RowsTyped
  <2> QED
    BY <2>1, VarcharLists DEF Values0
<1>3. CaseKept
  BY <1>1 DEF CaseKept, ContainerInv, RowsTyped
<1>4. /\ ContainerInv' /\ Len(rows') = Len(rows) + 1
      /\ \A i \in DOMAIN rows : rows'[i] = rows[i]
  BY <1>1, <1>2, <1>3, StoreRowKeeps
<1>5. LoopsOK'
  BY <1>1 DEF LoopsOK, BlockDrivers, RowDrivers, LooseCases, FillEnd
<1>6. /\ Len(rows) \in Nat /\ DOMAIN rows = 1 .. Len(rows) /\ DOMAIN rows' = 1 .. Len(rows')
      /\ Len(rows') <= MaxRows
  <2>1. RowsTyped /\ RowsTyped'
    BY <1>1, <1>4 DEF ContainerInv
  <2> QED
    BY <2>1 DEF RowsTyped
<1>7. Values[Len(rows')] \in Nat
  BY <1>4, <1>6, CaseConstants
<1>8. AggsAtRows(aggs, rows)
  BY <1>1 DEF AggsOK, AggsAtRows
<1>9. /\ AggsAtRows(aggs', rows')
      /\ AddressOf(rows'[Len(rows) + 1]) \notin DOMAIN aggs
      /\ \A i \in DOMAIN rows : AggOf(aggs', rows'[i]) = AggOf(aggs, rows[i])
      /\ SumTo(RowValues', Len(rows')) = SumTo(RowValues, Len(rows)) + Values[Len(rows')]
  BY <1>1, <1>4, <1>7, <1>8, AggsOfNewRow
<1>10. \A n \in DOMAIN rows' :
          AddressOf(rows'[n]) \in DOMAIN aggs' /\ aggs'[AddressOf(rows'[n])] = Values[n]
  BY <1>1, <1>4, <1>6, <1>9, EachRowsValue DEF AggsOK
<1>11. AggsOK'
  BY <1>1, <1>9, <1>10 DEF AggsOK, AggsAtRows
<1> QED
  BY <1>1, <1>4, <1>5, <1>11 DEF CaseInv

(* A driver's row of input. *)
LEMMA InputRow ==
    ASSUME LoopsOK, case # "any", NEW i \in 1 .. NUM_ROWS
    PROVE  data[i] \in Seq(CaseStrings) /\ data[i] \in Seq(Values0)
<1>1. data[i] \in Seq(CaseStrings)
  BY DEF LoopsOK
<1>2. \A s \in CaseStrings : s \in Values0
  BY CaseConstants DEF Values0
<1> QED
  BY <1>1, <1>2

LEMMA SerializeOnlyKeeps ==
    ASSUME CaseInv, SerializeOnly
    PROVE  CaseInv'
<1>1. /\ ContainerInv /\ LoopsOK /\ AggsOK /\ case = "serialize_only" /\ case' = case
      /\ data' = data /\ blocks' = blocks /\ Filling /\ StoreRow(data[row_idx])
      /\ aggs' = Stored(rows'[row_idx], Values[row_idx]) /\ total' = total + Values[row_idx]
  BY DEF CaseInv, SerializeOnly
<1>2. pass = "fill" /\ row_idx \in 1 .. FillEnd /\ FillEnd \in 1 .. NUM_ROWS
  BY <1>1, FillingStep, CaseConstants
<1>3. data[row_idx] \in Seq(Values0)
  <2>1. row_idx \in 1 .. NUM_ROWS /\ case # "any"
    BY <1>1, <1>2, CaseConstants
  <2> QED
    BY <1>1, <2>1, InputRow
<1>4. CaseKept
  BY <1>1 DEF CaseKept, ContainerInv, RowsTyped
<1>5. /\ ContainerInv' /\ Len(rows') = Len(rows) + 1
      /\ \A i \in DOMAIN rows : rows'[i] = rows[i]
  BY <1>1, <1>3, <1>4, StoreRowKeeps
<1>6. LoopsOK'
  BY <1>1, <1>5, LoopsFilled DEF BlockDrivers, LooseCases
<1>7. /\ Len(rows) \in Nat /\ DOMAIN rows = 1 .. Len(rows) /\ DOMAIN rows' = 1 .. Len(rows')
      /\ Len(rows') <= MaxRows
  <2>1. RowsTyped /\ RowsTyped'
    BY <1>1, <1>5 DEF ContainerInv
  <2> QED
    BY <2>1 DEF RowsTyped
<1>8. row_idx = Len(rows) + 1
  <2>1. Len(rows) = row_idx - 1 /\ row_idx \in Nat
    BY <1>1, <1>2 DEF LoopsOK, RowDrivers
  <2> QED
    BY <2>1
<1>9. Values[row_idx] \in Nat /\ AggsAtRows(aggs, rows)
  BY <1>1, <1>5, <1>7, <1>8, CaseConstants DEF AggsOK, AggsAtRows
<1>10. /\ AggsAtRows(aggs', rows')
       /\ AddressOf(rows'[Len(rows) + 1]) \notin DOMAIN aggs
       /\ SumTo(RowValues', Len(rows')) = SumTo(RowValues, Len(rows)) + Values[row_idx]
  BY <1>1, <1>5, <1>8, <1>9, AggsOfNewRow
<1>11. \A n \in DOMAIN rows' :
          AddressOf(rows'[n]) \in DOMAIN aggs' /\ aggs'[AddressOf(rows'[n])] = Values[n]
  BY <1>1, <1>5, <1>7, <1>8, <1>10, EachRowsValue DEF AggsOK
<1>12. AggsOK'
  BY <1>1, <1>10, <1>11 DEF AggsOK, AggsAtRows
<1> QED
  BY <1>1, <1>5, <1>6, <1>12 DEF CaseInv

LEMMA ComparisonsFilled ==
    ASSUME LoopsOK, ComparisonsMatch, Filling, case' = case, Uses, total' = total
    PROVE  ComparisonsMatch'
<1>1. /\ pass = "fill"
      /\ \/ pass' = "fill"
         \/ pass' = "use" /\ row_idx' = 1
  BY FillingStep
<1> QED
  BY <1>1 DEF ComparisonsMatch

LEMMA SlotOfNewRow ==
    ASSUME ContainerInv, NEW values \in Seq(Values0), StoreRow(values)
    PROVE  rows'[Len(rows) + 1].slot \in Address
<1> DEFINE block == PlacedIn(ArenaAfterRow, TotalSize(values))
           row == RowOf(BlockOfRow, RowIndex(RemainingForRow))
           record == [chunk |-> row.chunk, at |-> row.at, slot |-> block,
                      room |-> TotalSize(values),
                      is_null |-> [v \in DOMAIN values |-> values[v] = None]]
<1>1. block \in Address
  BY VarcharsForRow
<1>2. rows \in Seq(RowRecord)
  BY DEF ContainerInv, RowsTyped
<1>3. rows' = Append(rows, record) /\ record.slot = block
  BY DEF StoreRow
<1> HIDE DEF record, block
<1>4. rows'[Len(rows) + 1] = record
  BY <1>2, <1>3
<1> QED
  BY <1>1, <1>3, <1>4

LEMMA RowForCompareKeeps ==
    ASSUME CaseInv, RowForCompare
    PROVE  CaseInv'
<1>1. /\ ContainerInv /\ LoopsOK /\ ComparisonsMatch /\ case = "compare_only" /\ case' = case
      /\ data' = data /\ Filling /\ StoreRow(data[row_idx])
      /\ blocks' = Append(blocks, rows'[row_idx].slot) /\ total' = total
  BY DEF CaseInv, RowForCompare
<1>2. pass = "fill" /\ row_idx \in 1 .. FillEnd /\ FillEnd \in 1 .. NUM_ROWS
  BY <1>1, FillingStep, CaseConstants
<1>3. data[row_idx] \in Seq(Values0)
  <2>1. row_idx \in 1 .. NUM_ROWS /\ case # "any"
    BY <1>1, <1>2, CaseConstants
  <2> QED
    BY <1>1, <2>1, InputRow
<1>4. /\ row_idx \in Nat /\ Len(rows) = row_idx - 1 /\ Len(blocks) = row_idx - 1
      /\ \A i \in DOMAIN blocks : blocks[i] = rows[i].slot /\ stored[i] = data[i]
  BY <1>1, <1>2 DEF LoopsOK, RowDrivers, BlockDrivers
<1>5. row_idx = Len(rows) + 1
  BY <1>4
<1>6. RowsTyped
  BY <1>1 DEF ContainerInv
<1>7. rows'[row_idx].slot \in Address
  BY <1>1, <1>3, <1>5, SlotOfNewRow
<1>8. blocks' \in Seq(Address) /\ Len(blocks') = Len(blocks) + 1 /\ DOMAIN blocks = 1 .. Len(blocks)
      /\ \A i \in DOMAIN blocks' : blocks'[i] = IF i \in DOMAIN blocks THEN blocks[i] ELSE rows'[row_idx].slot
  <2>1. blocks \in Seq(Address) /\ rows'[row_idx].slot \in Address
    BY <1>6, <1>7 DEF RowsTyped
  <2> QED
    BY <1>1, <2>1
<1>9. CaseKept
  BY <1>1, <1>8 DEF CaseKept, LooseCases
<1>10. /\ ContainerInv' /\ Len(rows') = Len(rows) + 1
       /\ \A i \in DOMAIN rows : rows'[i] = rows[i] /\ stored'[i] = stored[i]
       /\ stored'[Len(rows) + 1] = data[row_idx]
  BY <1>1, <1>3, <1>9, StoreRowKeeps
<1>11. \A i \in DOMAIN blocks' : blocks'[i] = rows'[i].slot /\ stored'[i] = data[i]
  <2> SUFFICES ASSUME NEW i \in DOMAIN blocks'
               PROVE  blocks'[i] = rows'[i].slot /\ stored'[i] = data[i]
    OBVIOUS
  <2>1. DOMAIN blocks' = 1 .. Len(blocks') /\ DOMAIN rows = 1 .. Len(rows)
    BY <1>6, <1>8 DEF RowsTyped
  <2>2. CASE i = row_idx
    <3>1. i \notin DOMAIN blocks
      BY <1>4, <1>8, <2>2
    <3> QED
      BY <1>5, <1>8, <1>10, <2>2, <3>1
  <2>3. CASE i # row_idx
    <3>1. i \in DOMAIN blocks /\ i \in DOMAIN rows
      BY <1>4, <1>5, <1>8, <2>1, <2>3
    <3> QED
      BY <1>4, <1>8, <1>10, <3>1
  <2> QED
    BY <2>2, <2>3
<1>12. LoopsOK'
  BY <1>1, <1>8, <1>10, <1>11, LoopsFilled
<1>13. ComparisonsMatch'
  BY <1>1, ComparisonsFilled DEF Uses
<1> QED
  BY <1>1, <1>10, <1>12, <1>13 DEF CaseInv

LEMMA SerializeBlockInv ==
    ASSUME CaseInv, SerializeBlock
    PROVE  CaseInv'
<1> DEFINE values == data[row_idx]
<1>1. /\ ContainerInv /\ LoopsOK /\ case \in LooseCases /\ case' = case
      /\ data' = data /\ aggs' = aggs /\ total' = total /\ Filling
      /\ blocks' = Append(blocks, Placed(TotalSize(values)))
      /\ BecomeArena(Allocated(Current, TotalSize(values)))
      /\ mem' = WriteBlock(mem, Placed(TotalSize(values)), values)
      /\ UNCHANGED <<key_sizes, row_blocks, batch_remaining, rows, stored>>
  BY DEF CaseInv, SerializeBlock, LooseCases
<1>2. pass = "fill" /\ row_idx \in 1 .. FillEnd /\ FillEnd \in 1 .. NUM_ROWS
  BY <1>1, FillingStep, CaseConstants
<1>3. values \in Seq(Values0)
  <2>1. row_idx \in 1 .. NUM_ROWS /\ case # "any"
    BY <1>1, <1>2, CaseConstants DEF LooseCases
  <2> QED
    BY <1>1, <2>1, InputRow
<1>4. row_idx = Len(blocks) + 1
  <2>1. Len(blocks) = row_idx - 1 /\ row_idx \in Nat
    BY <1>1, <1>2 DEF LoopsOK, BlockDrivers
  <2> QED
    BY <2>1
<1>5. ContainerInv'
  BY <1>1, <1>3, <1>4, SerializeBlockKeeps
<1>6. Len(blocks') = Len(blocks) + 1
  <2>1. blocks \in Seq(Address)
    BY <1>1 DEF ContainerInv, RowsTyped
  <2> QED
    BY <1>1, <2>1
<1>7. LoopsOK'
  BY <1>1, <1>6, LoopsFilled DEF RowDrivers, LooseCases
<1>8. CASE case = "compare_varchar"
  <2>1. ComparisonsMatch
    BY <1>8 DEF CaseInv
  <2>2. ComparisonsMatch'
    BY <1>1, <1>8, <2>1, ComparisonsFilled DEF Uses
  <2> QED
    BY <1>1, <1>5, <1>7, <1>8, <2>2 DEF CaseInv
<1>9. CASE case = "serialize"
  <2>1. AggsOK
    BY <1>9 DEF CaseInv
  <2>2. RowValues' = RowValues
    BY <1>1 DEF RowValues
  <2>3. AggsOK'
    BY <1>1, <1>9, <2>1, <2>2 DEF AggsOK
  <2> QED
    BY <1>1, <1>5, <1>7, <1>9, <2>3 DEF CaseInv
<1> QED
  BY <1>1, <1>8, <1>9 DEF LooseCases

LEMMA NewRowKeeps ==
    ASSUME CaseInv, NewRow
    PROVE  CaseInv'
<1>1. /\ ContainerInv /\ LoopsOK /\ AggsOK /\ case \in {"new_row", "store_value", "accumulate"}
      /\ case' = case /\ data' = data /\ blocks' = blocks /\ Filling /\ StoreRow(<<>>)
      /\ aggs' = IF case = "accumulate" THEN Stored(rows'[row_idx], 0) ELSE aggs
      /\ total' = total
  BY DEF CaseInv, NewRow
<1>2. pass = "fill" /\ row_idx \in 1 .. FillEnd /\ FillEnd \in 1 .. NUM_ROWS
  BY <1>1, FillingStep, CaseConstants
<1>3. CaseKept
  BY <1>1 DEF CaseKept, ContainerInv, RowsTyped
<1>4. /\ ContainerInv' /\ Len(rows') = Len(rows) + 1
      /\ \A i \in DOMAIN rows : rows'[i] = rows[i]
  <2>1. <<>> \in Seq(Values0)
    OBVIOUS
  <2> QED
    BY <1>1, <1>3, <2>1, StoreRowKeeps
<1>5. LoopsOK'
  BY <1>1, <1>4, LoopsFilled DEF BlockDrivers, LooseCases
<1>6. /\ Len(rows) \in Nat /\ DOMAIN rows = 1 .. Len(rows) /\ DOMAIN rows' = 1 .. Len(rows')
  <2>1. RowsTyped /\ RowsTyped'
    BY <1>1, <1>4 DEF ContainerInv
  <2> QED
    BY <2>1 DEF RowsTyped
<1>7. row_idx = Len(rows) + 1
  <2>1. Len(rows) = row_idx - 1 /\ row_idx \in Nat
    BY <1>1, <1>2 DEF LoopsOK, RowDrivers
  <2> QED
    BY <2>1
<1>8. AggsAtRows(aggs, rows)
  BY <1>1 DEF AggsOK, AggsAtRows
<1> DEFINE a == AddressOf(rows'[Len(rows) + 1])
<1>9. /\ AggsAtRows(aggs', rows')
      /\ a \notin DOMAIN aggs
      /\ SumTo(RowValues', Len(rows')) = SumTo(RowValues, Len(rows)) + 0
  <2>1. \/ aggs' = aggs /\ 0 = 0
        \/ aggs' = Stored(rows'[Len(rows) + 1], 0)
    BY <1>1, <1>7
  <2> QED
    BY <1>1, <1>4, <1>8, <2>1, AggsOfNewRow
<1>10. SumTo(RowValues, Len(rows)) \in Nat /\ total = SumTo(RowValues, Len(rows))
  BY <1>1, <1>8, RowValuesType DEF AggsOK
<1>11. total' = SumTo(RowValues', Len(rows'))
  BY <1>1, <1>9, <1>10
<1>12. ASSUME case = "store_value", NEW n \in DOMAIN rows', AddressOf(rows'[n]) \in DOMAIN aggs'
       PROVE  FALSE
  <2>1. aggs' = aggs
    BY <1>1, <1>12
  <2>2. n # Len(rows) + 1
    BY <1>9, <1>12, <2>1
  <2>3. n \in DOMAIN rows /\ rows'[n] = rows[n]
    BY <1>4, <1>6, <2>2
  <2> QED
    BY <1>1, <1>2, <1>12, <2>1, <2>3 DEF AggsOK
<1>13. ASSUME case = "accumulate", NEW n \in DOMAIN rows'
       PROVE  AddressOf(rows'[n]) \in DOMAIN aggs'
  <2>1. DOMAIN aggs' = DOMAIN aggs \cup {a}
    BY <1>1, <1>7, <1>13 DEF Stored
  <2>2. CASE n = Len(rows) + 1
    BY <2>1, <2>2
  <2>3. CASE n # Len(rows) + 1
    <3>1. n \in DOMAIN rows /\ rows'[n] = rows[n]
      BY <1>4, <1>6, <2>3
    <3> QED
      BY <1>1, <1>13, <2>1, <3>1 DEF AggsOK
  <2> QED
    BY <2>2, <2>3
<1>14. AggsOK'
  BY <1>1, <1>9, <1>11, <1>12, <1>13 DEF AggsOK, AggsAtRows
<1> QED
  BY <1>1, <1>4, <1>5, <1>14 DEF CaseInv

(* A block that holds a row of input matches it. *)
LEMMA HeldMatches ==
    ASSUME NEW block \in Address, NEW values \in Seq(CaseStrings), HoldsBlock(mem, block, values)
    PROVE  AllMatch(block, values)
<1>1. values \in Seq(Values0) /\ \A v \in DOMAIN values : values[v] \in Strings
  <2>1. \A s \in CaseStrings : s \in Values0 /\ s \in Strings
    BY CaseConstants DEF Values0
  <2> QED
    BY <2>1
<1>2. NullBits(values) = [v \in DOMAIN values |-> FALSE]
  <2>1. \A v \in DOMAIN values : (values[v] = None) = FALSE
    BY <1>1, StringsAssumption
  <2> QED
    BY <2>1, Zenon DEF NullBits
<1>3. WalkBlock(mem, block, [v \in DOMAIN values |-> FALSE])
        = [v \in DOMAIN values |-> Serialized(values[v])]
  <2>1. WalkBlock(mem, block, NullBits(values)) = [v \in DOMAIN values |-> Serialized(values[v])]
    BY <1>1, WalkFinds
  <2> QED
    BY <1>2, <2>1, Zenon
<1>4. \A v \in DOMAIN values : CompareFromRow(Serialized(values[v]), values[v])
  BY <1>1, CompareExact DEF Values0
<1> QED
  BY <1>3, <1>4 DEF AllMatch

LEMMA CompareKeeps ==
    ASSUME CaseInv, Compare
    PROVE  CaseInv'
<1>1. /\ ContainerInv /\ LoopsOK /\ ComparisonsMatch /\ Using
      /\ case \in {"compare_only", "compare_varchar"}
      /\ total' = total + (IF AllMatch(blocks[row_idx], data[row_idx]) THEN 1 ELSE 0)
      /\ UNCHANGED <<vars, case, data, blocks, aggs>>
  BY DEF CaseInv, Compare
<1>2. /\ pass = "use" /\ row_idx \in 1 .. NUM_ROWS /\ NUM_ROWS \in Nat \ {0}
      /\ \/ pass' = "use" /\ row_idx' = row_idx + 1
         \/ pass' = "done" /\ row_idx' = 1 /\ row_idx = NUM_ROWS
  BY <1>1, UsingStep, CaseConstants
<1>3. ContainerInv'
  BY <1>1, SameContainer
<1>4. LoopsOK'
  BY <1>1, LoopsUsed DEF vars
<1>5. data[row_idx] \in Seq(CaseStrings)
  BY <1>1, <1>2, InputRow
<1>6. blocks[row_idx] \in Address /\ row_idx \in DOMAIN blocks
  <2>1. Len(blocks) = NUM_ROWS
    BY <1>1, <1>2 DEF LoopsOK, BlockDrivers, LooseCases
  <2>2. blocks \in Seq(Address)
    BY <1>1 DEF ContainerInv, RowsTyped
  <2> QED
    BY <1>2, <2>1, <2>2
<1>7. HoldsBlock(mem, blocks[row_idx], data[row_idx])
  <2>1. HeldIn(mem)
    BY <1>1 DEF ContainerInv
  <2>2. CASE case = "compare_varchar"
    BY <1>6, <2>1, <2>2 DEF HeldIn, LooseCases
  <2>3. CASE case = "compare_only"
    <3>1. blocks[row_idx] = rows[row_idx].slot /\ stored[row_idx] = data[row_idx]
      BY <1>1, <1>6, <2>3 DEF LoopsOK
    <3>2. row_idx \in DOMAIN rows
      <4>1. Len(rows) = NUM_ROWS
        BY <1>1, <1>2, <2>3, CaseConstants DEF LoopsOK, RowDrivers
      <4>2. rows \in Seq(RowRecord)
        BY <1>1 DEF ContainerInv, RowsTyped
      <4> QED
        BY <1>2, <4>1, <4>2
    <3> QED
      BY <2>1, <3>1, <3>2 DEF HeldIn
  <2> QED
    BY <1>1, <2>2, <2>3
<1>8. AllMatch(blocks[row_idx], data[row_idx])
  BY <1>5, <1>6, <1>7, HeldMatches
<1>9. total = row_idx - 1 /\ total' = total + 1
  BY <1>1, <1>2, <1>8 DEF ComparisonsMatch
<1>10. ComparisonsMatch'
  BY <1>2, <1>9 DEF ComparisonsMatch
<1> QED
  BY <1>1, <1>3, <1>4, <1>10 DEF CaseInv

LEMMA StoreValueKeeps ==
    ASSUME CaseInv, StoreValue
    PROVE  CaseInv'
<1> DEFINE x == row_idx
           d == Values[row_idx]
<1>1. /\ ContainerInv /\ LoopsOK /\ AggsOK /\ Using /\ case = "store_value"
      /\ aggs' = Stored(rows[x], d) /\ total' = total + d
      /\ UNCHANGED <<vars, case, data, blocks>>
  BY DEF CaseInv, StoreValue
<1>2. /\ pass = "use" /\ row_idx \in 1 .. NUM_ROWS /\ NUM_ROWS \in Nat \ {0}
      /\ \/ pass' = "use" /\ row_idx' = row_idx + 1
         \/ pass' = "done" /\ row_idx' = 1 /\ row_idx = NUM_ROWS
  BY <1>1, UsingStep, CaseConstants
<1>3. ContainerInv' /\ rows' = rows /\ case' = case
  BY <1>1, SameContainer DEF vars
<1>4. LoopsOK'
  BY <1>1, LoopsUsed DEF vars
<1>5. x \in DOMAIN rows /\ d \in Nat
  <2>1. Len(rows) = NUM_ROWS
    BY <1>1, <1>2, CaseConstants DEF LoopsOK, RowDrivers
  <2>2. rows \in Seq(RowRecord)
    BY <1>1 DEF ContainerInv, RowsTyped
  <2>3. row_idx \in 1 .. MaxRows
    BY <1>2, CaseConstants
  <2> QED
    BY <1>2, <2>1, <2>2, <2>3, CaseConstants
<1>6. AggOf(aggs, rows[x]) = 0
  <2>1. AddressOf(rows[x]) \notin DOMAIN aggs
    BY <1>1, <1>2, <1>5 DEF AggsOK
  <2> QED
    BY <2>1 DEF AggOf
<1>7. AggsAtRows(aggs, rows)
  BY <1>1 DEF AggsOK, AggsAtRows
<1>8. aggs' = Stored(rows[x], AggOf(aggs, rows[x]) + d)
  BY <1>1, <1>5, <1>6
<1>9. /\ AggsAtRows(aggs', rows')
      /\ DOMAIN aggs' = DOMAIN aggs \cup {AddressOf(rows[x])}
      /\ SumTo(RowValues', Len(rows')) = SumTo(RowValues, Len(rows)) + d
  BY <1>1, <1>3, <1>5, <1>7, <1>8, AggsOfOldRow
<1>10. total' = SumTo(RowValues', Len(rows'))
  BY <1>1, <1>9 DEF AggsOK
<1>11. ASSUME NEW n \in DOMAIN rows', AddressOf(rows'[n]) \in DOMAIN aggs'
       PROVE  pass' # "fill" /\ (pass' = "use" => n < row_idx')
  <2>1. n \in DOMAIN rows /\ rows'[n] = rows[n] /\ n \in Nat
    <3>1. rows \in Seq(RowRecord)
      BY <1>1 DEF ContainerInv, RowsTyped
    <3> QED
      BY <1>3, <1>11, <3>1
  <2>2. CASE AddressOf(rows[n]) = AddressOf(rows[x])
    <3>1. n = x
      BY <1>1, <1>5, <2>1, <2>2, RowsHaveAddresses DEF AddressesDiffer
    <3> QED
      BY <1>2, <3>1
  <2>3. CASE AddressOf(rows[n]) # AddressOf(rows[x])
    <3>1. AddressOf(rows[n]) \in DOMAIN aggs
      BY <1>9, <1>11, <2>1, <2>3
    <3>2. n < row_idx
      BY <1>1, <1>2, <2>1, <3>1 DEF AggsOK
    <3> QED
      BY <1>2, <2>1, <3>2
  <2> QED
    BY <2>2, <2>3
<1>12. AggsOK'
  BY <1>1, <1>3, <1>9, <1>10, <1>11 DEF AggsOK, AggsAtRows
<1> QED
  BY <1>1, <1>3, <1>4, <1>12 DEF CaseInv

LEMMA AccumulateKeeps ==
    ASSUME CaseInv, Accumulate
    PROVE  CaseInv'
<1> DEFINE x == ((row_idx - 1) % NUM_KEYS) + 1
           d == Values[row_idx]
<1>1. /\ ContainerInv /\ LoopsOK /\ AggsOK /\ Using /\ case = "accumulate"
      /\ aggs' = Stored(rows[x], aggs[AddressOf(rows[x])] + d) /\ total' = total + d
      /\ UNCHANGED <<vars, case, data, blocks>>
  BY DEF CaseInv, Accumulate
<1>2. /\ pass = "use" /\ row_idx \in 1 .. NUM_ROWS /\ NUM_ROWS \in Nat \ {0}
      /\ pass' # "fill"
  BY <1>1, UsingStep, CaseConstants
<1>3. ContainerInv' /\ rows' = rows /\ case' = case
  BY <1>1, SameContainer DEF vars
<1>4. LoopsOK'
  BY <1>1, LoopsUsed DEF vars
<1>5. x \in DOMAIN rows /\ d \in Nat
  <2>1. NUM_KEYS \in Nat \ {0} /\ row_idx - 1 \in Nat
    BY <1>2, CaseConstants
  <2>2. x \in 1 .. NUM_KEYS
    BY <2>1
  <2>3. Len(rows) = NUM_KEYS
    BY <1>1, <1>2 DEF LoopsOK, RowDrivers, FillEnd
  <2>4. rows \in Seq(RowRecord)
    BY <1>1 DEF ContainerInv, RowsTyped
  <2>5. row_idx \in 1 .. MaxRows
    BY <1>2, CaseConstants
  <2> QED
    BY <2>2, <2>3, <2>4, <2>5, CaseConstants
<1> HIDE DEF x
<1>6. AddressOf(rows[x]) \in DOMAIN aggs /\ AggOf(aggs, rows[x]) = aggs[AddressOf(rows[x])]
  BY <1>1, <1>5 DEF AggsOK, AggOf
<1>7. AggsAtRows(aggs, rows)
  BY <1>1 DEF AggsOK, AggsAtRows
<1>8. aggs' = Stored(rows[x], AggOf(aggs, rows[x]) + d)
  BY <1>1, <1>6
<1>9. /\ AggsAtRows(aggs', rows')
      /\ DOMAIN aggs' = DOMAIN aggs \cup {AddressOf(rows[x])}
      /\ SumTo(RowValues', Len(rows')) = SumTo(RowValues, Len(rows)) + d
  BY <1>1, <1>3, <1>5, <1>7, <1>8, AggsOfOldRow
<1>10. total' = SumTo(RowValues', Len(rows'))
  BY <1>1, <1>9 DEF AggsOK
<1>11. AggsOK'
  BY <1>1, <1>3, <1>9, <1>10 DEF AggsOK, AggsAtRows
<1> QED
  BY <1>1, <1>3, <1>4, <1>11 DEF CaseInv

LEMMA StutterKeeps ==
    ASSUME CaseInv, UNCHANGED rowVars
    PROVE  CaseInv'
<1>1. /\ UNCHANGED vars /\ case' = case /\ data' = data /\ blocks' = blocks
      /\ pass' = pass /\ row_idx' = row_idx /\ aggs' = aggs /\ total' = total
      /\ rows' = rows /\ stored' = stored
  BY DEF rowVars, caseVars, vars
<1>2. ContainerInv'
  BY <1>1, SameContainer DEF CaseInv
<1>3. LoopsOK'
  BY <1>1 DEF CaseInv, LoopsOK, FillEnd
<1>4. AggsOK => AggsOK'
  BY <1>1 DEF AggsOK, RowValues
<1>5. ComparisonsMatch => ComparisonsMatch'
  BY <1>1 DEF ComparisonsMatch
<1> QED
  BY <1>1, <1>2, <1>3, <1>4, <1>5 DEF CaseInv

-----------------------------------------------------------------------------
(* The invariant and what follows from it. *)

LEMMA CaseInvAlways ==
    CaseSpec => []CaseInv
<1>1. CaseInit => CaseInv
  BY CaseInitInv
<1>2. CaseInv /\ [CaseNext]_rowVars => CaseInv'
  <2> SUFFICES ASSUME CaseInv, [CaseNext]_rowVars PROVE CaseInv'
    OBVIOUS
  <2>1. ASSUME NEW values \in Varchars(Strings \cup {None}), AnyRow(values) PROVE CaseInv'
    BY <2>1, AnyRowKeeps
  <2>2. CASE SerializeOnly
    BY <2>2, SerializeOnlyKeeps
  <2>3. CASE RowForCompare
    BY <2>3, RowForCompareKeeps
  <2>4. CASE SerializeBlock
    BY <2>4, SerializeBlockInv
  <2>5. CASE NewRow
    BY <2>5, NewRowKeeps
  <2>6. CASE Compare
    BY <2>6, CompareKeeps
  <2>7. CASE StoreValue
    BY <2>7, StoreValueKeeps
  <2>8. CASE Accumulate
    BY <2>8, AccumulateKeeps
  <2>9. CASE UNCHANGED rowVars
    BY <2>9, StutterKeeps
  <2> QED
    BY <2>1, <2>2, <2>3, <2>4, <2>5, <2>6, <2>7, <2>8, <2>9 DEF CaseNext, CaseStep
<1> QED
  BY <1>1, <1>2, PTL DEF CaseSpec

(***************************************************************************)
(* Rows, the varchar blocks of the rows and the fields of a row never share *)
(* a byte, and each lies inside its chunk of the arena: for any layout, any *)
(* lengths, however the arena grows and whichever driver is run.            *)
(***************************************************************************)
THEOREM RegionsStayApart ==
    CaseSpec => []RegionsApart
<1>1. CaseInv => RegionsApart
  BY ContainerInvApart DEF CaseInv
<1> QED
  BY <1>1, CaseInvAlways, PTL

(***************************************************************************)
(* Every column of every row goes on comparing equal to the string it was   *)
(* stored with and to no other, whatever was stored before and after it.    *)
(***************************************************************************)
THEOREM KeysAreRead ==
    CaseSpec => []KeysReadBack
<1>1. CaseInv => KeysReadBack
  BY ContainerInvReads DEF CaseInv
<1> QED
  BY <1>1, CaseInvAlways, PTL

(***************************************************************************)
(* The checksum of a table is the sum of what was stored in its rows or     *)
(* added to them, and the comparing drivers find every string they stored,  *)
(* for any input.                                                           *)
(***************************************************************************)
THEOREM ResultsAreRight ==
    CaseSpec => []ResultsRight
<1>1. CaseInv => ResultsRight
  BY CaseInvResults
<1> QED
  BY <1>1, CaseInvAlways, PTL

-----------------------------------------------------------------------------
(* The words of MemoryWords. *)

(***************************************************************************)
(* An address below 2^48, which is what user space has, comes back from the *)
(* six bytes of a slot as it was stored.                                    *)
(***************************************************************************)
THEOREM RowPtrKept ==
    ASSUME NEW ptr \in Nat, ptr < TwoTo48
    PROVE  GetRowPtr(SetRowPtr(ptr)) = ptr
<1>1. ptr \div TwoTo32 \in Nat /\ ptr \div TwoTo32 < TwoTo16
  BY DEF TwoTo16, TwoTo32, TwoTo48
<1>2. (ptr \div TwoTo32) % TwoTo16 = ptr \div TwoTo32
  BY <1>1 DEF TwoTo16
<1>3. ptr = (ptr \div TwoTo32) * TwoTo32 + (ptr % TwoTo32)
  BY DEF TwoTo32
<1> QED  BY <1>2, <1>3 DEF GetRowPtr, SetRowPtr

LEMMA MaskFitsByte ==
    ASSUME NEW bit \in Nat
    PROVE  NullMaskOf(bit) \in Nat /\ NullMaskOf(bit) < TwoTo8
<1>1. bit % 8 \in {0, 1, 2, 3, 4, 5, 6, 7}
  OBVIOUS
<1> QED  BY <1>1 DEF NullMaskOf, TwoTo8

(* Three numbers in one word are read off by division. *)
LEMMA ThreeFields ==
    ASSUME NEW top \in Nat, NEW middle \in Nat, middle < TwoTo24,
           NEW low \in Nat, low < TwoTo8,
           NEW word, word = (top * TwoTo24 + middle) * TwoTo8 + low
    PROVE  /\ word \div TwoTo32 = top
           /\ (word \div TwoTo8) % TwoTo24 = middle
           /\ word % TwoTo8 = low
<1>1. word \in Nat
  BY DEF TwoTo8, TwoTo24
<1>2. word \div TwoTo8 = top * TwoTo24 + middle /\ word % TwoTo8 = low
  BY <1>1 DEF TwoTo8, TwoTo24
<1>3. (word \div TwoTo8) % TwoTo24 = middle
  BY <1>2 DEF TwoTo24
<1>4. /\ word = top * TwoTo32 + (middle * TwoTo8 + low)
      /\ middle * TwoTo8 + low < TwoTo32
  BY <1>1 DEF TwoTo8, TwoTo24, TwoTo32
<1>5. word \div TwoTo32 = top
  <2> DEFINE rest == middle * TwoTo8 + low
  <2>1. rest \in Nat /\ rest < TwoTo32 /\ word = top * TwoTo32 + rest
    BY <1>4 DEF TwoTo8
  <2> HIDE DEF rest
  <2> QED  BY <2>1, SMT DEF TwoTo32
<1> QED  BY <1>2, <1>3, <1>5

(***************************************************************************)
(* A column's accessors return what was packed, for rows of less than 16 MB *)
(* of keys.                                                                 *)
(***************************************************************************)
THEOREM RowColumnKept ==
    ASSUME NEW offset \in Nat, NEW bit \in Nat, NEW start \in Nat,
           NullByteOf(bit, start) < TwoTo24
    PROVE  /\ UnpackOffset(Pack(offset, bit, start)) = offset
           /\ UnpackNullByte(Pack(offset, bit, start)) = NullByteOf(bit, start)
           /\ UnpackNullMask(Pack(offset, bit, start)) = NullMaskOf(bit)
<1>1. NullByteOf(bit, start) \in Nat
  BY DEF NullByteOf
<1>2. Pack(offset, bit, start) =
          (offset * TwoTo24 + NullByteOf(bit, start)) * TwoTo8 + NullMaskOf(bit)
  BY <1>1, MaskFitsByte DEF Pack, TwoTo8, TwoTo24, TwoTo32
<1> QED
  BY <1>1, <1>2, MaskFitsByte, ThreeFields DEF UnpackOffset, UnpackNullByte, UnpackNullMask

(***************************************************************************)
(* Two key columns never share a null bit, and the bytes of the null bits   *)
(* of n columns are those with_kinds makes room for.                        *)
(***************************************************************************)
THEOREM NullBitsApart ==
    ASSUME NEW n \in Nat, NEW start \in Nat,
           NEW i \in 0 .. n - 1, NEW j \in 0 .. n - 1, i # j
    PROVE  /\ NullByteOf(i, start) # NullByteOf(j, start) \/ NullMaskOf(i) # NullMaskOf(j)
           /\ NullByteOf(i, start) \in start .. start + ((n + 7) \div 8) - 1
<1>1. NullByteOf(i, start) \in start .. start + ((n + 7) \div 8) - 1
  BY DEF NullByteOf
<1>2. i \div 8 # j \div 8 \/ i % 8 # j % 8
  OBVIOUS
<1>3. ASSUME i % 8 # j % 8 PROVE NullMaskOf(i) # NullMaskOf(j)
  <2>1. i % 8 \in {0, 1, 2, 3, 4, 5, 6, 7} /\ j % 8 \in {0, 1, 2, 3, 4, 5, 6, 7}
    OBVIOUS
  <2> QED  BY <1>3, <2>1 DEF NullMaskOf
<1>4. i \div 8 # j \div 8 => NullByteOf(i, start) # NullByteOf(j, start)
  BY DEF NullByteOf
<1> QED  BY <1>1, <1>2, <1>3, <1>4

(***************************************************************************)
(* For every length the reads cover the strings and stay inside them, so    *)
(* that the comparison is equality.                                         *)
(***************************************************************************)
THEOREM InlineMemEqualCorrect ==
    ASSUME NEW len \in Nat, NEW a, NEW b
    PROVE  /\ BytesRead(len) = 0 .. len - 1
           /\ InlineMemEqual(a, b, len) <=> \A i \in 0 .. len - 1 : a[i] = b[i]
<1>1. BytesRead(len) = 0 .. len - 1
  <2>1. CASE len \in 8 .. 16
    <3>1. BytesRead(len) = 0 .. 7 \cup len - 8 .. len - 1
      BY <2>1 DEF BytesRead
    <3> QED  BY <2>1, <3>1
  <2>2. CASE len \in 4 .. 7
    <3>1. BytesRead(len) = 0 .. 3 \cup len - 4 .. len - 1
      BY <2>2 DEF BytesRead
    <3> QED  BY <2>2, <3>1
  <2>3. CASE len \in 1 .. 3
    <3>1. BytesRead(len) = {0, len \div 2, len - 1}
      BY <2>3 DEF BytesRead
    <3>2. len = 1 \/ len = 2 \/ len = 3
      BY <2>3
    <3> QED  BY <3>1, <3>2
  <2>4. CASE len \in 17 .. 32
    <3>1. BytesRead(len) = (0 .. 7 \cup 8 .. 15)
                               \cup (len - 16 .. len - 9 \cup len - 8 .. len - 1)
      BY <2>4 DEF BytesRead
    <3> QED  BY <2>4, <3>1
  <2>5. CASE len = 0 \/ len > 32
    BY <2>5 DEF BytesRead
  <2> QED  BY <2>1, <2>2, <2>3, <2>4, <2>5
<1> QED  BY <1>1 DEF InlineMemEqual
=============================================================================
