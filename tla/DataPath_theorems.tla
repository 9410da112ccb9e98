------------------------ MODULE DataPath_theorems --------------------------
(***************************************************************************)
(* What a daemon makes of a request, for every chunk size and every byte   *)
(* range, and what follows from it and from the invariant of the data      *)
(* path: the theorems about the chunk files.                               *)
(***************************************************************************)
EXTENDS DataPath_calls, FiniteSetTheorems

-----------------------------------------------------------------------------
(* The walk of a daemon over the interval of a request.                    *)

(* A nonempty set of numbers has a least one.                              *)
LEMMA LeastElement ==
    ASSUME NEW S \in SUBSET Nat, S # {}
    PROVE  \E n \in S : \A m \in S : n <= m
  <1> DEFINE R == {ss \in Nat \X Nat : ss[1] < ss[2]}
  <1>1. IsWellFoundedOn(R, Nat)
    BY NatLessThanWellFounded, Zenon DEF OpToRel
  <1> HIDE DEF R
  <1>2. PICK n \in S : \A m \in S : ~ (<<m, n>> \in R)
    BY <1>1, WFMin, Zenon
  <1>3. \A m \in S : ~ (m < n)
    BY <1>2, Zenon DEF R
  <1>4. QED  BY <1>3

First(in) == [curr |-> 0, left |-> in.total, pieces |-> {}]
Trace(in, f, n) ==
    f = [i \in 0 .. n |-> IF i = 0 THEN First(in) ELSE Visit(in, f[i - 1], in.start + i - 1)]

LEMMA TraceExists ==
    ASSUME NEW in, NEW n \in Nat
    PROVE  \E f : Trace(in, f, n)
  <1> DEFINE Bad == {k \in Nat : ~ \E f : Trace(in, f, k)}
  <1>1. SUFFICES ASSUME Bad # {} PROVE FALSE
    OBVIOUS
  <1>2. PICK k \in Bad : \A m \in Bad : k <= m
    BY <1>1, LeastElement, Zenon
  <1>3. CASE k = 0
    <2> DEFINE f == [i \in 0 .. 0 |-> First(in)]
    <2>1. f = [i \in 0 .. 0 |-> IF i = 0 THEN First(in) ELSE Visit(in, f[i - 1], in.start + i - 1)]
      OBVIOUS
    <2>2. Trace(in, f, 0)
      BY <2>1 DEF Trace
    <2>3. QED  BY <1>2, <1>3, <2>2
  <1>4. CASE k # 0
    <2>1. k - 1 \in Nat /\ k - 1 \notin Bad
      BY <1>2, <1>4
    <2>2. PICK f : Trace(in, f, k - 1)
      BY <2>1
    <2> DEFINE g == [i \in 0 .. k |-> IF i = k THEN Visit(in, f[k - 1], in.start + k - 1) ELSE f[i]]
               h == [i \in 0 .. k |-> IF i = 0 THEN First(in) ELSE Visit(in, g[i - 1], in.start + i - 1)]
    <2>3. ASSUME NEW i \in 0 .. k PROVE g[i] = h[i]
      <3>1. CASE i = k
        BY <1>2, <1>4, <3>1
      <3>2. CASE i # k
        <4>1. i \in 0 .. k - 1
          BY <1>2, <3>2
        <4>2. f[i] = IF i = 0 THEN First(in) ELSE Visit(in, f[i - 1], in.start + i - 1)
          BY <2>2, <4>1, Zenon DEF Trace
        <4>3. i # 0 => g[i - 1] = f[i - 1]
          BY <1>2, <4>1
        <4>4. g[i] = f[i]
          BY <3>2
        <4>5. h[i] = IF i = 0 THEN First(in) ELSE Visit(in, g[i - 1], in.start + i - 1)
          OBVIOUS
        <4> HIDE DEF g, h
        <4>6. QED  BY <4>2, <4>3, <4>4, <4>5, Zenon
      <3>3. QED  BY <3>1, <3>2
    <2>4. g = h
      BY <2>3
    <2>5. Trace(in, g, k)
      BY <2>4 DEF Trace
    <2>6. QED  BY <1>2, <2>5
  <1>5. QED  BY <1>3, <1>4

LEMMA Walked ==
    ASSUME NEW in, in.end - in.start + 1 \in Nat
    PROVE  \E f : Trace(in, f, in.end - in.start + 1) /\ Walk(in) = f[in.end - in.start + 1]
  BY TraceExists, Zenon DEF Walk, Trace, First

(* Whatever the request, a piece is of one of its chunks, and is put where *)
(* PieceOrigin says.                                                       *)
Interval(in) == in.start \in Nat /\ in.end \in Nat /\ in.start <= in.end
Numbers(in) == /\ Interval(in) /\ in.n \in Nat /\ in.total \in Int
               /\ in.offset \in Nat /\ in.bulk \in Nat
PieceStart(in, c) == IF c = in.start THEN in.offset ELSE 0
Placed(in, p) ==
    /\ p.chunk \in in.bitset /\ p.chunk \in in.start .. in.end /\ p.size \in Int
    /\ p.origin = PieceOrigin(in, p.chunk) /\ p.off = PieceStart(in, p.chunk)
Plausible(in, acc) == /\ acc.curr \in Nat /\ acc.left \in Int
                      /\ \A p \in acc.pieces : Placed(in, p)

LEMMA VisitPlausible ==
    ASSUME NEW in, Numbers(in), NEW c \in in.start .. in.end, NEW acc, Plausible(in, acc)
    PROVE  Plausible(in, Visit(in, acc, c))
  <1> DEFINE size == PieceSize(in, c, acc.curr, acc.left)
             new == [chunk |-> c, size |-> size, origin |-> PieceOrigin(in, c),
                     local |-> in.total - acc.left, off |-> PieceStart(in, c)]
  <1>1. CASE c \notin in.bitset \/ acc.curr >= in.n
    BY <1>1, Zenon DEF Visit
  <1>2. CASE ~ (c \notin in.bitset \/ acc.curr >= in.n)
    <2>1. size \in Int
      BY LayoutAssumption DEF PieceSize, Numbers, Plausible
    <2>2. Placed(in, new)
      BY <1>2, <2>1, Zenon DEF Placed
    <2> HIDE DEF size
    <2>3. Visit(in, acc, c) = [curr |-> acc.curr + 1, left |-> acc.left - size,
                               pieces |-> acc.pieces \cup {new}]
      BY <1>2, Zenon DEF Visit, PieceStart, size
    <2> HIDE DEF new
    <2>4. QED  BY <2>1, <2>2, <2>3 DEF Plausible
  <1>3. QED  BY <1>1, <1>2, Zenon

LEMMA PiecesPlaced ==
    ASSUME NEW in, Numbers(in), NEW p \in Pieces(in)
    PROVE  Placed(in, p)
  <1> DEFINE n == in.end - in.start + 1
  <1>1. n \in Nat
    BY DEF Numbers, Interval
  <1>2. PICK f : Trace(in, f, n) /\ Walk(in) = f[n]
    BY <1>1, Walked, Zenon
  <1> DEFINE Bad == {i \in 0 .. n : ~Plausible(in, f[i])}
  <1>3. SUFFICES ASSUME Bad # {} PROVE FALSE
    BY <1>1, <1>2 DEF Plausible, Pieces
  <1>4. PICK i \in Bad : \A j \in Bad : i <= j
    <2>1. Bad \subseteq Nat
      OBVIOUS
    <2>2. QED  BY <1>3, <2>1, LeastElement, Zenon
  <1>5. f[i] = IF i = 0 THEN First(in) ELSE Visit(in, f[i - 1], in.start + i - 1)
    BY <1>2, <1>4, Zenon DEF Trace
  <1>6. CASE i = 0
    <2>1. Plausible(in, First(in))
      BY Zenon DEF Plausible, First, Numbers
    <2>2. QED  BY <1>4, <1>5, <1>6, <2>1, Zenon
  <1>7. CASE i # 0
    <2>1. i - 1 \in 0 .. n /\ ~(i <= i - 1) /\ in.start + i - 1 \in in.start .. in.end
      BY <1>1, <1>4, <1>7 DEF Numbers, Interval
    <2>2. Plausible(in, f[i - 1])
      BY <1>4, <2>1
    <2>3. Plausible(in, f[i])
      BY <1>5, <1>7, <2>1, <2>2, VisitPlausible, Zenon
    <2>4. QED  BY <1>4, <2>3
  <1>8. QED  BY <1>6, <1>7

(* A request that names no chunk twice.  u is the Rest of its range.       *)
Good(in, u) ==
    /\ Numbers(in) /\ in.offset \in 0 .. ChunkSize - 1 /\ u \in 0 .. ChunkSize - 1
    /\ in.bitset \subseteq in.start .. in.end /\ in.n = Cardinality(in.bitset)
    /\ in.total = in.n * ChunkSize - (IF in.start \in in.bitset THEN in.offset ELSE 0)
                                   - (IF in.end \in in.bitset THEN u ELSE 0)
    /\ in.start = in.end => in.bulk = ChunkSize - u - in.offset
    /\ in.start < in.end => in.offset + in.bulk > ChunkSize
    /\ in.start + 1 < in.end => in.bulk > ChunkSize

PieceLen(in, u, c) == ChunkSize - PieceStart(in, c) - (IF c = in.end THEN u ELSE 0)
Before(in, c) == {d \in in.bitset : d < c}

(* The walk before it comes to chunk c.                                    *)
Exact(in, u, acc, c) ==
    /\ acc.curr = Cardinality(Before(in, c))
    /\ acc.left = (in.n - acc.curr) * ChunkSize
                  - (IF in.start \in in.bitset /\ c <= in.start THEN in.offset ELSE 0)
                  - (IF in.end \in in.bitset /\ c <= in.end THEN u ELSE 0)
    /\ \A p \in acc.pieces : Placed(in, p) /\ p.size = PieceLen(in, u, p.chunk)
    /\ \A d \in Before(in, c) : \E p \in acc.pieces : p.chunk = d

LEMMA Counting ==
    ASSUME NEW in, NEW u, Good(in, u), NEW c \in in.start .. in.end
    PROVE  /\ Cardinality(Before(in, c)) \in Nat
           /\ c \in in.bitset => /\ Cardinality(Before(in, c + 1)) = Cardinality(Before(in, c)) + 1
                                 /\ Cardinality(Before(in, c + 1)) <= in.n
                                 /\ Cardinality(Before(in, c + 1)) = in.n =>
                                       \A d \in in.bitset : d <= c
  <1>1. in.start \in Int /\ in.end \in Int /\ \A d \in in.bitset : d \in Int
    BY DEF Good, Numbers, Interval
  <1>2. IsFiniteSet(in.bitset)
    <2>1. IsFiniteSet(in.start .. in.end)
      BY <1>1, FS_Interval
    <2>2. QED  BY <2>1, FS_Subset, Zenon DEF Good
  <1>3. /\ Before(in, c) \subseteq in.bitset /\ Before(in, c + 1) \subseteq in.bitset
        /\ c \notin Before(in, c)
    BY <1>1 DEF Before
  <1>4. /\ IsFiniteSet(Before(in, c)) /\ IsFiniteSet(Before(in, c + 1))
        /\ Cardinality(Before(in, c)) \in Nat /\ Cardinality(Before(in, c + 1)) \in Nat
    BY <1>2, <1>3, FS_Subset, FS_CardinalityType, ZenonT(30)
  <1>5. ASSUME c \in in.bitset
        PROVE  /\ Cardinality(Before(in, c + 1)) = Cardinality(Before(in, c)) + 1
               /\ Cardinality(Before(in, c + 1)) <= in.n
               /\ Cardinality(Before(in, c + 1)) = in.n => \A d \in in.bitset : d <= c
    <2>1. Before(in, c + 1) = Before(in, c) \cup {c}
      BY <1>1, <1>5 DEF Before
    <2>2. Cardinality(Before(in, c + 1)) = Cardinality(Before(in, c)) + 1
      BY <1>3, <1>4, <2>1, FS_AddElement, Zenon
    <2>3. /\ Cardinality(Before(in, c + 1)) <= Cardinality(in.bitset)
          /\ Cardinality(Before(in, c + 1)) = Cardinality(in.bitset) => Before(in, c + 1) = in.bitset
      BY <1>2, <1>3, FS_Subset, Zenon
    <2>4. QED  BY <1>1, <2>2, <2>3 DEF Good, Before
  <1>6. QED  BY <1>4, <1>5

(* The size a daemon works out for a piece is that of the range in the     *)
(* chunk.                                                                  *)
LEMMA PieceSized ==
    ASSUME NEW in, NEW u, Good(in, u), NEW c \in in.bitset, NEW acc, Exact(in, u, acc, c)
    PROVE  /\ PieceSize(in, c, acc.curr, acc.left) = PieceLen(in, u, c)
           /\ PieceLen(in, u, c) \in Int /\ acc.curr \in Nat /\ acc.curr < in.n
           /\ Cardinality(Before(in, c + 1)) = acc.curr + 1
  <1>1. /\ c \in in.start .. in.end /\ in.start \in Nat /\ in.end \in Nat /\ in.n \in Nat
        /\ in.offset \in 0 .. ChunkSize - 1 /\ u \in 0 .. ChunkSize - 1
        /\ in.bulk \in Nat /\ ChunkSize \in Nat \ {0}
    BY LayoutAssumption, Zenon DEF Good, Numbers, Interval
  <1>2. /\ acc.curr \in Nat /\ acc.curr + 1 <= in.n
        /\ Cardinality(Before(in, c + 1)) = acc.curr + 1
        /\ acc.curr = in.n - 1 => \A d \in in.bitset : d <= c
    <2>1. /\ Cardinality(Before(in, c)) \in Nat
          /\ Cardinality(Before(in, c + 1)) = Cardinality(Before(in, c)) + 1
          /\ Cardinality(Before(in, c + 1)) <= in.n
          /\ Cardinality(Before(in, c + 1)) = in.n => \A d \in in.bitset : d <= c
      BY <1>1, Counting, Zenon
    <2>2. acc.curr = Cardinality(Before(in, c))
      BY Zenon DEF Exact
    <2>3. in.n \in Nat
      BY <1>1, Zenon
    <2>4. acc.curr \in Nat /\ Cardinality(Before(in, c + 1)) = acc.curr + 1
      BY <2>1, <2>2, Zenon
    <2>5. acc.curr + 1 <= in.n
      BY <2>1, <2>4, Zenon
    <2>6. acc.curr = in.n - 1 => Cardinality(Before(in, c + 1)) = in.n
      BY <2>3, <2>4, SMTT(30)
    <2>7. QED  BY <2>1, <2>4, <2>5, <2>6, Zenon
  <1>3. PieceLen(in, u, c) \in Int
    BY <1>1 DEF PieceLen, PieceStart
  <1> SUFFICES PieceSize(in, c, acc.curr, acc.left) = PieceLen(in, u, c)
    BY <1>1, <1>2, <1>3
  <1>4. CASE c = in.start /\ in.offset > 0
    <2>1. PieceSize(in, c, acc.curr, acc.left) = IF in.offset + in.bulk <= ChunkSize THEN in.bulk
                                                 ELSE ChunkSize - in.offset
      BY <1>4 DEF PieceSize
    <2>2. CASE in.start = in.end
      BY <1>1, <1>4, <2>1, <2>2, SMTT(30) DEF Good, PieceLen, PieceStart
    <2>3. CASE in.start < in.end
      BY <1>1, <1>4, <2>1, <2>3, SMTT(30) DEF Good, PieceLen, PieceStart
    <2>4. QED  BY <1>1, <2>2, <2>3
  <1>5. CASE ~(c = in.start /\ in.offset > 0) /\ acc.curr = in.n - 1
    <2>1. PieceSize(in, c, acc.curr, acc.left) = acc.left
      BY <1>5, Zenon DEF PieceSize
    <2>2. (in.n - acc.curr) * ChunkSize = ChunkSize
      BY <1>1, <1>5
    <2>3. in.end \in in.bitset => in.end = c
      BY <1>1, <1>2, <1>5
    <2>4. (IF in.start \in in.bitset /\ c <= in.start THEN in.offset ELSE 0) = PieceStart(in, c)
      BY <1>1, <1>5 DEF PieceStart
    <2>5. (IF in.end \in in.bitset /\ c <= in.end THEN u ELSE 0) = IF c = in.end THEN u ELSE 0
      BY <1>1, <2>3
    <2>6. acc.left = ChunkSize - PieceStart(in, c) - (IF c = in.end THEN u ELSE 0)
      BY <2>2, <2>4, <2>5, Zenon DEF Exact
    <2>7. QED  BY <2>1, <2>6 DEF PieceLen
  <1>6. CASE ~(c = in.start /\ in.offset > 0) /\ acc.curr # in.n - 1
    <2>1. PieceSize(in, c, acc.curr, acc.left) = IF in.bulk <= ChunkSize THEN in.bulk ELSE ChunkSize
      BY <1>6, Zenon DEF PieceSize
    <2>2. c < in.end
      <3>1. SUFFICES ASSUME c = in.end PROVE FALSE
        BY <1>1
      <3>2. Before(in, c + 1) = in.bitset
        BY <1>1, <3>1 DEF Before, Good
      <3>3. QED  BY <1>1, <1>2, <1>6, <3>2, SMTT(30) DEF Good
    <2>3. in.bulk > ChunkSize
      <3>1. CASE c = in.start
        BY <1>1, <1>6, <2>2, <3>1, SMTT(30) DEF Good
      <3>2. CASE c # in.start
        BY <1>1, <2>2, <3>2 DEF Good
      <3>3. QED  BY <3>1, <3>2, Zenon
    <2>4. QED  BY <1>1, <1>6, <2>1, <2>2, <2>3 DEF PieceLen, PieceStart
  <1>7. QED  BY <1>4, <1>5, <1>6, Zenon

LEMMA VisitExact ==
    ASSUME NEW in, NEW u, Good(in, u), NEW c \in in.start .. in.end, NEW acc, Exact(in, u, acc, c)
    PROVE  Exact(in, u, Visit(in, acc, c), c + 1)
  <1>1. /\ in.start \in Nat /\ in.end \in Nat /\ in.n \in Nat /\ c \in Nat
        /\ in.offset \in Nat /\ u \in Nat /\ ChunkSize \in Nat
        /\ \A d \in in.bitset : d \in Nat /\ d >= in.start /\ d <= in.end
    BY LayoutAssumption, SMTT(30) DEF Good, Numbers, Interval
  <1>2. CASE c \notin in.bitset
    <2>1. Visit(in, acc, c) = acc
      BY <1>2, Zenon DEF Visit
    <2>2. Before(in, c + 1) = Before(in, c)
      BY <1>1, <1>2 DEF Before
    <2>3. /\ in.start \in in.bitset /\ c <= in.start <=> in.start \in in.bitset /\ c + 1 <= in.start
          /\ in.end \in in.bitset /\ c <= in.end <=> in.end \in in.bitset /\ c + 1 <= in.end
      BY <1>1, <1>2, SMTT(30)
    <2>4. QED  BY <2>1, <2>2, <2>3, Zenon DEF Exact
  <1>3. CASE c \in in.bitset
    <2> DEFINE size == PieceLen(in, u, c)
               new == [chunk |-> c, size |-> size, origin |-> PieceOrigin(in, c),
                       local |-> in.total - acc.left, off |-> PieceStart(in, c)]
               next == Visit(in, acc, c)
    <2>1. /\ PieceSize(in, c, acc.curr, acc.left) = size /\ size \in Int /\ acc.curr \in Nat
          /\ acc.curr < in.n /\ Cardinality(Before(in, c + 1)) = acc.curr + 1
      BY <1>3, PieceSized, Zenon
    <2>2. next = [curr |-> acc.curr + 1, left |-> acc.left - size, pieces |-> acc.pieces \cup {new}]
      <3>1. ~(c \notin in.bitset \/ acc.curr >= in.n)
        BY <1>1, <1>3, <2>1, SMTT(30)
      <3>2. QED  BY <2>1, <3>1, Zenon DEF Visit, PieceStart
    <2>3. Placed(in, new) /\ new.size = PieceLen(in, u, new.chunk) /\ new.chunk = c
      BY <1>3, <2>1, Zenon DEF Placed
    <2>4. Before(in, c + 1) = Before(in, c) \cup {c}
      BY <1>1, <1>3 DEF Before
    <2>5. size = ChunkSize - (IF c = in.start THEN in.offset ELSE 0) - (IF c = in.end THEN u ELSE 0)
      BY Zenon DEF PieceLen, PieceStart
    <2> HIDE DEF new, next, size
    <2>6. next.curr = acc.curr + 1 /\ next.left = acc.left - size /\ next.pieces = acc.pieces \cup {new}
      BY <2>2, Zenon
    <2>7. (in.n - (acc.curr + 1)) * ChunkSize = (in.n - acc.curr) * ChunkSize - ChunkSize
      BY <1>1, <2>1
    <2>8. next.left = (in.n - next.curr) * ChunkSize
                      - (IF in.start \in in.bitset /\ c + 1 <= in.start THEN in.offset ELSE 0)
                      - (IF in.end \in in.bitset /\ c + 1 <= in.end THEN u ELSE 0)
      <3>1. (in.n - acc.curr) * ChunkSize \in Int
        BY <1>1, <2>1
      <3>2. acc.left = (in.n - acc.curr) * ChunkSize
                       - (IF c = in.start THEN in.offset ELSE 0)
                       - (IF in.end \in in.bitset THEN u ELSE 0)
        <4>1. in.start \in in.bitset /\ c <= in.start <=> c = in.start
          BY <1>1, <1>3
        <4>2. in.end \in in.bitset /\ c <= in.end <=> in.end \in in.bitset
          BY <1>1, <1>3, Zenon
        <4>3. QED  BY <4>1, <4>2, Zenon DEF Exact
      <3>3. ~(c + 1 <= in.start)
        BY <1>1, <1>3
      <3>4. c = in.end => in.end \in in.bitset /\ ~(c + 1 <= in.end)
        BY <1>1, <1>3
      <3>5. c # in.end => c + 1 <= in.end
        BY <1>1, <1>3, SMTT(30)
      <3>6. CASE c = in.end
        BY <1>1, <2>1, <2>5, <2>6, <2>7, <3>1, <3>2, <3>3, <3>4, <3>6, SMTT(30)
      <3>7. CASE c # in.end
        BY <1>1, <2>1, <2>5, <2>6, <2>7, <3>1, <3>2, <3>3, <3>5, <3>7, SMTT(30)
      <3>8. QED  BY <3>6, <3>7, Zenon
    <2>9. \A p \in next.pieces : Placed(in, p) /\ p.size = PieceLen(in, u, p.chunk)
      BY <2>3, <2>6, Zenon DEF Exact
    <2>10. \A d \in Before(in, c + 1) : \E p \in next.pieces : p.chunk = d
      BY <2>3, <2>4, <2>6, ZenonT(30) DEF Exact
    <2>11. QED  BY <2>1, <2>6, <2>8, <2>9, <2>10, Zenon DEF Exact, next
  <1>4. QED  BY <1>2, <1>3, Zenon

(* The daemon's walk inverts the client's grouping: the pieces of a        *)
(* request are exactly the parts of the range in the chunks of its bitset, *)
(* each in its place and of its size.                                      *)
THEOREM WalkCorrect ==
    ASSUME NEW in, NEW u, Good(in, u)
    PROVE  /\ \A p \in Pieces(in) : Placed(in, p) /\ p.size = PieceLen(in, u, p.chunk)
           /\ \A c \in in.bitset : \E p \in Pieces(in) : p.chunk = c
  <1> DEFINE n == in.end - in.start + 1
  <1>1. n \in Nat /\ in.start \in Nat /\ in.end \in Nat
    BY DEF Good, Numbers, Interval
  <1>2. PICK f : Trace(in, f, n) /\ Walk(in) = f[n]
    BY <1>1, Walked, ZenonT(30)
  <1> DEFINE Bad == {i \in 0 .. n : ~Exact(in, u, f[i], in.start + i)}
  <1>3. SUFFICES ASSUME Bad # {} PROVE FALSE
    <2>1. SUFFICES ASSUME Bad = {}
                   PROVE  /\ \A p \in Pieces(in) : Placed(in, p) /\ p.size = PieceLen(in, u, p.chunk)
                          /\ \A c \in in.bitset : \E p \in Pieces(in) : p.chunk = c
      BY Zenon
    <2>2. Exact(in, u, Walk(in), in.start + n)
      BY <1>1, <1>2, <2>1, SMTT(30)
    <2>3. Before(in, in.start + n) = in.bitset
      BY <1>1 DEF Before, Good
    <2> HIDE DEF n
    <2>4. QED  BY <2>2, <2>3, Zenon DEF Exact, Pieces
  <1>4. PICK i \in Bad : \A j \in Bad : i <= j
    <2>1. Bad \subseteq Nat
      OBVIOUS
    <2>2. QED  BY <1>3, <2>1, LeastElement, Zenon
  <1>5. f[i] = IF i = 0 THEN First(in) ELSE Visit(in, f[i - 1], in.start + i - 1)
    BY <1>2, <1>4, Zenon DEF Trace
  <1>6. CASE i = 0
    <2>1. Before(in, in.start) = {}
      BY <1>1 DEF Before, Good
    <2>2. Cardinality(Before(in, in.start)) = 0
      BY <2>1, FS_EmptySet, Zenon
    <2>3. in.n - 0 = in.n /\ in.start <= in.start /\ in.start <= in.end
      BY <1>1 DEF Good, Numbers, Interval
    <2>4. Exact(in, u, First(in), in.start)
      BY <2>1, <2>2, <2>3, Zenon DEF Exact, First, Good
    <2>5. QED  BY <1>1, <1>4, <1>5, <1>6, <2>4, SMTT(30)
  <1>7. CASE i # 0
    <2>1. /\ i - 1 \in 0 .. n /\ ~(i <= i - 1) /\ in.start + (i - 1) \in in.start .. in.end
          /\ in.start + (i - 1) = in.start + i - 1 /\ in.start + i - 1 + 1 = in.start + i
      BY <1>1, <1>4, <1>7
    <2>2. Exact(in, u, f[i - 1], in.start + (i - 1))
      BY <1>4, <2>1, Zenon
    <2>3. Exact(in, u, f[i], in.start + i)
      BY <1>5, <1>7, <2>1, <2>2, VisitExact, Zenon
    <2>4. QED  BY <1>4, <2>3, Zenon
  <1>8. QED  BY <1>6, <1>7, Zenon

-----------------------------------------------------------------------------
(* The requests of a write *)

(* A request to a host with chunks of the range has its interval and       *)
(* total.                                                                  *)
LEMMA RequestGood ==
    ASSUME NEW host, NEW off \in Nat, NEW len \in Nat \ {0},
           NEW chunks \in SUBSET (block_index(off) .. block_index(off + len - 1))
    PROVE  Good(RequestTo(host, off, len, chunks, Cardinality(chunks)), Rest(off + len))
  <1> DEFINE q == block_index(off)
             r == block_overrun(off)
             z == block_index(off + len - 1)
             u == Rest(off + len)
             n == Cardinality(chunks)
             in == RequestTo(host, off, len, chunks, n)
  <1>1. /\ u \in 0 .. ChunkSize - 1 /\ q \in Nat /\ z \in Nat /\ q <= z
        /\ off + len = z * ChunkSize + ChunkSize - u
        /\ q = z => len = ChunkSize - u - r
        /\ q < z => r + len > ChunkSize
    BY Ends, Zenon
  <1>2. r \in 0 .. ChunkSize - 1 /\ off = q * ChunkSize + r
    BY Blocks
  <1>3. n \in Nat
    <2>1. IsFiniteSet(q .. z)
      <3>1. q \in Int /\ z \in Int
        BY <1>1, SMTT(30)
      <3>2. QED  BY <3>1, FS_Interval, Zenon
    <2>2. QED  BY <2>1, FS_Subset, FS_CardinalityType, Zenon
  <1>4. /\ in.start = q /\ in.end = z /\ in.offset = r /\ in.bulk = len /\ in.n = n
        /\ in.bitset = chunks
        /\ in.total = n * ChunkSize - (IF q \in chunks THEN r ELSE 0) - (IF z \in chunks THEN u ELSE 0)
    <2>1. (IF z \in chunks /\ ~is_aligned(off + len) THEN block_underrun(off + len) ELSE 0)
             = (IF z \in chunks THEN u ELSE 0)
      BY DEF Rest
    <2>2. QED  BY <2>1 DEF RequestTo
  <1>5. q + 1 < z => len > ChunkSize
    <2>1. SUFFICES ASSUME q + 1 < z PROVE len > ChunkSize
      OBVIOUS
    <2>2. (q + 1) * ChunkSize + ChunkSize <= z * ChunkSize
      BY <1>1, <2>1, q + 1 \in Nat, Monotone, Zenon
    <2> HIDE DEF q, r, z, u
    <2>3. (q + 1) * ChunkSize = q * ChunkSize + ChunkSize /\ q * ChunkSize \in Nat /\ z * ChunkSize \in Nat
      BY <1>1, LayoutAssumption
    <2>4. QED  BY <1>1, <1>2, <2>2, <2>3, LayoutAssumption
  <1> HIDE DEF q, r, z, u, n, in
  <1>6. n * ChunkSize \in Nat
    BY <1>3, LayoutAssumption
  <1>7. in.total \in Int
    BY <1>1, <1>2, <1>4, <1>6, SMTT(30)
  <1>8. Numbers(in)
    BY <1>1, <1>2, <1>3, <1>4, <1>7, SMTT(30) DEF Numbers, Interval
  <1>9. chunks \subseteq q .. z
    BY DEF q, z
  <1>10. Good(in, u)
    BY <1>1, <1>2, <1>4, <1>5, <1>8, <1>9, Zenon DEF Good, n
  <1>11. QED  BY <1>10 DEF in, u, n

(* What forward_write sends: one request to each host that has a chunk of  *)
(* the range, and copies of a chunk go to different hosts.                 *)
Placement(hash, off, len) == \A c \in block_index(off) .. block_index(off + len - 1) : hash[c] \in Nat
Chunks(hash, off, len, num, h) ==
    {c \in block_index(off) .. block_index(off + len - 1) :
        \E k \in WriteCopies(num) : locate_data(hash, c, k) = h}

Sent(hash, off, len, num) ==
    {RequestTo(h, off, len, Chunks(hash, off, len, num, h),
               Cardinality(Chunks(hash, off, len, num, h))) :
        h \in {g \in Hosts : Chunks(hash, off, len, num, g) # {}}}

LEMMA Forwarded ==
    ASSUME NEW hash, NEW off \in Nat, NEW len \in Nat \ {0}, NEW num \in 0 .. Cardinality(Hosts) - 1,
           Placement(hash, off, len)
    PROVE  ForwardWrite(hash, off, len, num) = Sent(hash, off, len, num)
  <1> DEFINE range == block_index(off) .. block_index(off + len - 1)
             pushed == range \X WriteCopies(num)
             at(h) == {p \in pushed : locate_data(hash, p[1], p[2]) = h}
             C(h) == Chunks(hash, off, len, num, h)
  <1>1. /\ WriteCopies(num) \subseteq 0 .. num /\ num \in Nat /\ num < Cardinality(Hosts)
        /\ Cardinality(Hosts) \in Nat \ {0}
    BY HostIds DEF WriteCopies
  <1>2. block_index(off) \in Nat /\ block_index(off + len - 1) \in Nat
    BY Ends
  <1>3. ASSUME NEW h \in Hosts
        PROVE  {p[1] : p \in at(h)} = C(h) /\ Cardinality(at(h)) = Cardinality(C(h))
    <2>1. {p[1] : p \in at(h)} = C(h)
      <3>1. \A p \in at(h) : p[1] \in C(h)
        BY Zenon DEF Chunks
      <3>2. ASSUME NEW c \in C(h) PROVE \E p \in at(h) : p[1] = c
        <4>1. PICK k \in WriteCopies(num) : c \in range /\ locate_data(hash, c, k) = h
          BY <3>2, Zenon DEF Chunks
        <4>2. <<c, k>> \in at(h) /\ <<c, k>>[1] = c
          BY <4>1, Zenon
        <4>3. QED  BY <4>2, Zenon
      <3> HIDE DEF at, C
      <3>3. QED  BY <3>1, <3>2, Zenon
    <2> DEFINE f == [p \in at(h) |-> p[1]]
    <2>2. ASSUME NEW p \in at(h), NEW r \in at(h), p[1] = r[1] PROVE p = r
      <3>1. /\ p = <<p[1], p[2]>> /\ r = <<r[1], r[2]>> /\ p[2] \in WriteCopies(num)
            /\ r[2] \in WriteCopies(num) /\ p[1] \in range
            /\ locate_data(hash, p[1], p[2]) = locate_data(hash, r[1], r[2])
        OBVIOUS
      <3>2. hash[p[1]] \in Nat
        BY <3>1 DEF Placement
      <3>3. p[2] \in 0 .. Cardinality(Hosts) /\ r[2] \in 0 .. Cardinality(Hosts)
        BY <1>1, <3>1, SMTT(30)
      <3>4. (hash[p[1]] + p[2]) % Cardinality(Hosts) = (hash[p[1]] + r[2]) % Cardinality(Hosts)
        BY <2>2, <3>1, Zenon DEF locate_data
      <3>5. \/ p[2] = r[2] \/ p[2] - r[2] = Cardinality(Hosts)
            \/ r[2] - p[2] = Cardinality(Hosts)
        BY <3>2, <3>3, <3>4, HostIds, Zenon
      <3>6. p[2] = r[2]
        BY <1>1, <3>1, <3>5, SMTT(30)
      <3>7. QED  BY <2>2, <3>1, <3>6, Zenon
    <2>3. f \in Injection(at(h), C(h)) /\ f \in Surjection(at(h), C(h))
      <3>1. \A p \in at(h) : f[p] = p[1]
        OBVIOUS
      <3>2. f \in [at(h) -> C(h)]
        BY <2>1, Zenon
      <3>3. \A c \in C(h) : \E p \in at(h) : f[p] = c
        BY <2>1, Zenon
      <3> HIDE DEF f, at, C
      <3>4. QED  BY <2>2, <3>1, <3>2, <3>3 DEF Injection, Surjection, IsInjective
    <2>4. IsFiniteSet(C(h))
      <3>1. IsFiniteSet(range)
        <4>1. block_index(off) \in Int /\ block_index(off + len - 1) \in Int
          BY <1>2
        <4>2. QED  BY <4>1, FS_Interval, Zenon
      <3>2. C(h) \in SUBSET range
        BY DEF Chunks
      <3> HIDE DEF range, C
      <3>3. QED  BY <3>1, <3>2, FS_Subset, Zenon
    <2> HIDE DEF f, at, C
    <2>5. Cardinality(at(h)) = Cardinality(C(h))
      BY <2>3, <2>4, FS_Injection, Zenon
    <2>6. QED  BY <2>1, <2>5, Zenon
  <1>4. ForwardWrite(hash, off, len, num) =
          {RequestTo(h, off, len, {p[1] : p \in at(h)}, Cardinality(at(h))) :
              h \in {g \in Hosts : at(g) # {}}}
    BY DEF ForwardWrite
  <1> HIDE DEF at, C
  <1>5. ASSUME NEW h \in Hosts PROVE at(h) # {} <=> C(h) # {}
    BY <1>3
  <1>6. {g \in Hosts : at(g) # {}} = {g \in Hosts : C(g) # {}}
    BY <1>5, Zenon
  <1>7. QED  BY <1>3, <1>4, <1>6, Zenon DEF C, Sent

LEMMA PieceFits ==
    ASSUME NEW host, NEW off \in Nat, NEW len \in Nat \ {0},
           NEW chunks \in SUBSET (block_index(off) .. block_index(off + len - 1)),
           NEW p \in Pieces(RequestTo(host, off, len, chunks, Cardinality(chunks)))
    PROVE  Fits(off, len, p) /\ p.chunk \in chunks
  <1> DEFINE n == Cardinality(chunks)
             in == RequestTo(host, off, len, chunks, n)
             q == block_index(off)
             r == block_overrun(off)
             z == block_index(off + len - 1)
             u == Rest(off + len)
             c == p.chunk
  <1>1. Good(in, u)
    BY RequestGood, Zenon
  <1>2. Placed(in, p) /\ p.size = PieceLen(in, u, c)
    BY <1>1, WalkCorrect, Zenon
  <1>3. /\ in.start = q /\ in.end = z /\ in.offset = r /\ in.bitset = chunks
    BY DEF RequestTo
  <1>4. /\ u \in 0 .. ChunkSize - 1 /\ q \in Nat /\ z \in Nat /\ q <= z
        /\ off + len = z * ChunkSize + ChunkSize - u
        /\ q = z => len = ChunkSize - u - r
        /\ q < z => r + len > ChunkSize
    BY Ends, Zenon
  <1>5. r \in 0 .. ChunkSize - 1 /\ off = q * ChunkSize + r
    BY Blocks, Zenon
  <1>6. c \in q .. z /\ c \in chunks
    BY <1>2, <1>3, Zenon DEF Placed
  <1>7. off + p.origin = c * ChunkSize + p.off
    BY <1>2, <1>3, <1>6, OriginCorrect, SMTT(30) DEF Placed, PieceStart
  <1>8. /\ p.off = IF c = q THEN r ELSE 0
        /\ p.size = ChunkSize - p.off - (IF c = z THEN u ELSE 0)
    BY <1>2, <1>3, Zenon DEF Placed, PieceLen, PieceStart
  <1>9. p.origin \in Int
    <2>1. p.origin = PieceOrigin(in, c)
      BY <1>2, Zenon DEF Placed
    <2> HIDE DEF in, q, r, z, u, c
    <2>2. (c - q) * ChunkSize \in Int /\ ((c - q) - 1) * ChunkSize \in Int
      BY <1>4, <1>6, LayoutAssumption, SMTT(30)
    <2>3. PieceOrigin(in, c) \in {0, (ChunkSize - r) + ((c - q) - 1) * ChunkSize, (c - q) * ChunkSize}
      <3>1. CASE c = q /\ r > 0
        BY <1>3, <3>1, Zenon DEF PieceOrigin
      <3>2. CASE c # q /\ r > 0
        BY <1>3, <3>2, Zenon DEF PieceOrigin
      <3>3. CASE ~(r > 0)
        BY <1>3, <3>3, Zenon DEF PieceOrigin
      <3>4. QED  BY <3>1, <3>2, <3>3, Zenon
    <2>4. QED  BY <1>5, <2>1, <2>2, <2>3, LayoutAssumption, SMTT(30)
  <1> HIDE DEF n, in, q, r, z, u, c
  <1>10. /\ c \in Nat /\ p.off \in Nat /\ p.size \in Nat \ {0} /\ p.off + p.size <= ChunkSize
    BY <1>4, <1>5, <1>6, <1>8, LayoutAssumption, SMTT(30)
  <1>11. ASSUME NEW at \in Nat, block_index(at) = c
         PROVE  p.off <= block_overrun(at) /\ block_overrun(at) < p.off + p.size
                   <=> off <= at /\ at < off + len
    <2>1. /\ block_overrun(at) \in 0 .. ChunkSize - 1 /\ at = c * ChunkSize + block_overrun(at)
      BY <1>11, Blocks, Zenon
    <2>2. c * ChunkSize \in Nat /\ q * ChunkSize \in Nat /\ z * ChunkSize \in Nat
      BY <1>4, <1>10, LayoutAssumption, SMTT(30)
    <2>3. p.off <= block_overrun(at) <=> off <= at
      <3>1. CASE c = q
        BY <1>5, <1>8, <2>1, <2>2, <3>1, SMTT(30)
      <3>2. CASE c # q
        <4>1. q * ChunkSize + ChunkSize <= c * ChunkSize
          BY <1>4, <1>6, <1>10, <3>2, Monotone
        <4>2. QED  BY <1>5, <1>8, <2>1, <2>2, <3>2, <4>1, LayoutAssumption, SMTT(60)
      <3>3. QED  BY <3>1, <3>2, Zenon
    <2>4. block_overrun(at) < p.off + p.size <=> at < off + len
      <3>1. CASE c = z
        BY <1>4, <1>8, <1>10, <2>1, <2>2, <3>1, LayoutAssumption, SMTT(60)
      <3>2. CASE c # z
        <4>1. c * ChunkSize + ChunkSize <= z * ChunkSize
          BY <1>4, <1>6, <1>10, <3>2, Monotone, SMTT(30)
        <4>2. p.off + p.size = ChunkSize
          BY <1>8, <1>10, <3>2, LayoutAssumption, SMTT(30)
        <4>3. QED  BY <1>4, <2>1, <2>2, <4>1, <4>2, LayoutAssumption, SMTT(30)
      <3>3. QED  BY <3>1, <3>2, Zenon
    <2>5. QED  BY <2>3, <2>4, Zenon
  <1>12. QED  BY <1>6, <1>7, <1>9, <1>10, <1>11, Zenon DEF Fits, InPiece, c

(* The requests of a write move the whole range, to the hosts of each      *)
(* chunk, and nothing else.                                                *)
THEOREM WriteForwarded ==
    ASSUME NEW hash, NEW off \in Nat, NEW len \in Nat \ {0}, NEW num \in 0 .. Cardinality(Hosts) - 1,
           Placement(hash, off, len)
    PROVE  /\ \A in \in ForwardWrite(hash, off, len, num) :
                 /\ in.host \in Hosts
                 /\ \A c \in in.bitset : /\ \E p \in Pieces(in) : p.chunk = c
                                         /\ \E k \in WriteCopies(num) : locate_data(hash, c, k) = in.host
                 /\ \A p \in Pieces(in) : Fits(off, len, p) /\ p.chunk \in in.bitset
           /\ \A at \in Nat, k \in WriteCopies(num) : off <= at /\ at < off + len =>
                 \E in \in ForwardWrite(hash, off, len, num) :
                    in.host = locate_data(hash, block_index(at), k) /\ block_index(at) \in in.bitset
  <1> DEFINE C(h) == Chunks(hash, off, len, num, h)
             range == block_index(off) .. block_index(off + len - 1)
             R(h) == RequestTo(h, off, len, C(h), Cardinality(C(h)))
  <1>1. ForwardWrite(hash, off, len, num) = {R(h) : h \in {g \in Hosts : C(g) # {}}}
    <2>1. ForwardWrite(hash, off, len, num) = Sent(hash, off, len, num)
      BY Forwarded, Zenon
    <2>2. QED  BY <2>1 DEF Sent
  <1>2. \A h : R(h).host = h /\ R(h).bitset = C(h)
    BY DEF RequestTo
  <1>3. \A h : C(h) \in SUBSET range
    BY ZenonT(30) DEF Chunks
  <1>4. ASSUME NEW h
        PROVE  /\ \A c \in C(h) : \E p \in Pieces(R(h)) : p.chunk = c
               /\ \A p \in Pieces(R(h)) : Fits(off, len, p) /\ p.chunk \in C(h)
    <2>1. \A p \in Pieces(R(h)) : Fits(off, len, p) /\ p.chunk \in C(h)
      <3> HIDE DEF C
      <3>1. QED  BY <1>3, PieceFits, Zenon
    <2>2. Good(R(h), Rest(off + len))
      <3> HIDE DEF C
      <3>1. QED  BY <1>3, RequestGood, Zenon
    <2>3. QED  BY <1>2, <2>1, <2>2, WalkCorrect, ZenonT(30)
  <1>5. \A h : \A c \in C(h) : \E k \in WriteCopies(num) : locate_data(hash, c, k) = h
    BY DEF Chunks
  <1>6. ASSUME NEW at \in Nat, NEW k \in WriteCopies(num), off <= at, at < off + len
        PROVE  \E h \in Hosts : h = locate_data(hash, block_index(at), k) /\ block_index(at) \in C(h)
    <2>1. block_index(at) \in range
      BY <1>6, Between, SMTT(30)
    <2>2. hash[block_index(at)] \in Nat /\ k \in Nat
      BY <2>1, SMTT(30) DEF Placement, WriteCopies
    <2>3. locate_data(hash, block_index(at), k) \in Hosts
      BY <2>2, HostIds, hash[block_index(at)] + k \in Nat, Zenon DEF locate_data
    <2>4. QED  BY <2>1, <2>3, Zenon DEF Chunks
  <1> HIDE DEF C, R, range
  <1>7. ASSUME NEW in \in ForwardWrite(hash, off, len, num)
        PROVE  \E h \in Hosts : in = R(h)
    BY <1>1, Zenon
  <1>8. ASSUME NEW h \in Hosts, C(h) # {} PROVE R(h) \in ForwardWrite(hash, off, len, num)
    BY <1>1, <1>8, Zenon
  <1>9. QED  BY <1>2, <1>4, <1>5, <1>6, <1>7, <1>8

-----------------------------------------------------------------------------
(* What a round of a write sends *)

(* A round of a write sends the range to the hosts of its chunks.          *)
RangeSent(off, len, num) ==
    /\ \A in \in ForwardWrite(place, off, len, num) :
          /\ in.host \in Hosts
          /\ \A k \in in.bitset : /\ \E p \in Pieces(in) : p.chunk = k
                                  /\ \E x \in WriteCopies(num) : locate_data(place, k, x) = in.host
          /\ \A p \in Pieces(in) : /\ Fits(off, len, p) /\ p.chunk \in in.bitset
                                   /\ in.host \in Holders(p.chunk)
    /\ \A at \in Nat, x \in WriteCopies(num) : off <= at /\ at < off + len =>
          \E in \in ForwardWrite(place, off, len, num) :
             in.host = locate_data(place, block_index(at), x) /\ block_index(at) \in in.bitset

(* The requests of a write of one range are as Sending says.               *)
LEMMA SendsRange ==
    ASSUME place \in [ChunkIds -> Hosts], NEW off, NEW len, <<off, len>> \in Ranges, NEW num \in {0, Replicas}
    PROVE  RangeSent(off, len, num)
  <1>1. off \in Nat /\ len \in Nat \ {0} /\ off + len <= EndOf /\ EndOf \in Nat
    BY Bounds, <<off, len>>[1] = off, <<off, len>>[2] = len, Zenon
  <1>2. num \in 0 .. Cardinality(Hosts) - 1
    BY DataAssumption, HostIds
  <1>3. Placement(place, off, len)
    <2>1. off + len - 1 \in Nat /\ EndOf - 1 \in Nat /\ off + len - 1 <= EndOf - 1 /\ off <= off + len - 1
      BY <1>1
    <2>2. /\ block_index(off) \in Nat /\ block_index(off + len - 1) \in Nat /\ block_index(EndOf - 1) \in Nat
          /\ block_index(off + len - 1) <= block_index(EndOf - 1)
      BY <1>1, <2>1, Between, Zenon
    <2>3. ASSUME NEW c \in block_index(off) .. block_index(off + len - 1) PROVE place[c] \in Nat
      <3>1. c \in ChunkIds
        BY <2>2 DEF ChunkIds
      <3>2. Hosts \subseteq Nat
        <4>1. Hosts = 0 .. Cardinality(Hosts) - 1 /\ Cardinality(Hosts) \in Nat
          BY LayoutAssumption, HostIds, Zenon
        <4> DEFINE n == Cardinality(Hosts)
        <4>2. \A x \in 0 .. n - 1 : x \in Nat
          OBVIOUS
        <4>3. QED  BY <4>1, <4>2, Zenon
      <3>3. QED  BY <3>1, <3>2, Zenon
    <2>4. QED  BY <2>3, Zenon DEF Placement
  <1>4. \A k, x : x \in WriteCopies(num) => locate_data(place, k, x) \in Holders(k)
    BY Bounds, SMTT(30) DEF WriteCopies, Holders
  <1> DEFINE F == ForwardWrite(place, off, len, num)
  <1>5. /\ \A in \in F :
                 /\ in.host \in Hosts
                 /\ \A c \in in.bitset : /\ \E p \in Pieces(in) : p.chunk = c
                                         /\ \E k \in WriteCopies(num) : locate_data(place, c, k) = in.host
                 /\ \A p \in Pieces(in) : Fits(off, len, p) /\ p.chunk \in in.bitset
        /\ \A at \in Nat, k \in WriteCopies(num) : off <= at /\ at < off + len =>
                 \E in \in F : in.host = locate_data(place, block_index(at), k) /\ block_index(at) \in in.bitset
    BY <1>1, <1>2, <1>3, WriteForwarded, Zenon
  <1> HIDE DEF F
  <1>6. ASSUME NEW in \in F, NEW p \in Pieces(in) PROVE in.host \in Holders(p.chunk)
    BY <1>4, <1>5
  <1>7. QED  BY <1>5, <1>6, Zenon DEF F, RangeSent

(* ... one request to each.                                                *)
LEMMA SendsOneEach ==
    ASSUME NEW off, NEW len, NEW num
    PROVE  /\ IsFiniteSet(ForwardWrite(place, off, len, num))
           /\ \A in, jn \in ForwardWrite(place, off, len, num) : in.host = jn.host => in = jn
  <1> DEFINE pushed == (block_index(off) .. block_index(off + len - 1)) \X WriteCopies(num)
             at(h)  == {p \in pushed : locate_data(place, p[1], p[2]) = h}
             target == {h \in Hosts : at(h) # {}}
             R(h)   == RequestTo(h, off, len, {p[1] : p \in at(h)}, Cardinality(at(h)))
             F      == ForwardWrite(place, off, len, num)
             f      == [h \in target |-> R(h)]
  <1>1. F = {R(h) : h \in target}
    BY Zenon DEF ForwardWrite
  <1>2. \A h : R(h).host = h
    BY DEF RequestTo
  <1>3. IsFiniteSet(target)
    BY LayoutAssumption, FS_Subset, target \in SUBSET Hosts, Zenon
  <1> HIDE DEF F, R, target
  <1>4. f \in [target -> F] /\ \A in \in F : \E h \in target : f[h] = in
    BY <1>1
  <1> HIDE DEF f
  <1>5. f \in Surjection(target, F)
    BY <1>4, Zenon DEF Surjection
  <1>6. IsFiniteSet(F)
    BY <1>3, <1>5, FS_Surjection, Zenon
  <1>7. QED  BY <1>1, <1>2, <1>6, SMTT(30) DEF F

LEMMA SendsAll ==
    ASSUME place \in [ChunkIds -> Hosts]
    PROVE  Sending
  <1>1. SUFFICES ASSUME NEW off, NEW len, NEW num, <<off, len>> \in Ranges, num \in {0, Replicas}
                 PROVE  LET F == ForwardWrite(place, off, len, num)
                        IN  /\ \A in \in F :
                                  /\ in.host \in Hosts
                                  /\ \A k \in in.bitset : /\ \E p \in Pieces(in) : p.chunk = k
                                                          /\ \E x \in WriteCopies(num) : locate_data(place, k, x) = in.host
                                  /\ \A p \in Pieces(in) : /\ Fits(off, len, p) /\ p.chunk \in in.bitset
                                                           /\ in.host \in Holders(p.chunk)
                                  /\ \A jn \in F : in.host = jn.host => in = jn
                            /\ \A at \in Nat, x \in WriteCopies(num) : off <= at /\ at < off + len =>
                                  \E in \in F :
                                     in.host = locate_data(place, block_index(at), x) /\ block_index(at) \in in.bitset
                            /\ \A some \in (SUBSET F) \ {{}} : Cardinality(some) \in Nat \ {0}
    BY Zenon DEF Sending
  <1> DEFINE F == ForwardWrite(place, off, len, num)
  <1>2. IsFiniteSet(F) /\ \A in, jn \in F : in.host = jn.host => in = jn
    BY SendsOneEach
  <1>3. ASSUME NEW some \in (SUBSET F) \ {{}} PROVE Cardinality(some) \in Nat \ {0}
    <2> HIDE DEF F
    <2>1. IsFiniteSet(some)
      BY <1>2, FS_Subset
    <2>2. QED  BY <2>1, FS_EmptySet, FS_CardinalityType, Zenon
  <1>4. RangeSent(off, len, num)
    BY <1>1, SendsRange, Zenon
  <1> HIDE DEF F
  <1>5. QED  BY <1>2, <1>3, <1>4, Zenon DEF F, RangeSent

(* The invariant holds in the initial states.                              *)
LEMMA Initially ==
    Init => Inv
  <1>1. Init => Sending
    BY SendsAll DEF Init
  <1>2. QED  BY <1>1, InitiallyKept, Zenon

-----------------------------------------------------------------------------
(* The results *)

(* The invariant of the data path holds in every reachable state.          *)
LEMMA Invariance ==
    Spec => []Inv
  <1>1. Init => Inv
    BY Initially
  <1>2. Inv /\ [Next]_vars => Inv'
    BY Inductive, Zenon
  <1>3. QED  BY <1>1, <1>2, PTL DEF Spec

(* Every byte in a chunk file, on any number of hosts and for any ranges   *)
(* and chunk size, was written for exactly that offset of the file, on a   *)
(* host the distributor names: forward_write and the walk of rpc_srv_write *)
(* agree, whatever runs at the same time and whatever fails.               *)
THEOREM BytesInPlaceCorrect ==
    Spec => []BytesInPlace
  BY BytesKept, Invariance, PTL

(* The size on the metadata server covers every stored byte of a file that *)
(* was never truncated: gkfs_do_write updates the size before it sends.    *)
THEOREM SizeCoversDataCorrect ==
    Spec => []SizeCoversData
  BY SizeKept, Invariance, PTL

(* A first truncation to zero that reports success has contacted every     *)
(* host that stores a chunk, and none is left.                             *)
THEOREM TruncateToZeroCorrect ==
    Spec => []TruncateToZeroEmpties
  BY Emptied, Invariance, PTL

(* When no call is in flight the first copy of a byte is that of the last  *)
(* completed write, or of one that overlapped it in time or failed, unless *)
(* a write that reported success did not reach that copy: the pieces that  *)
(* nobody waits for any more are accounted for too.                        *)
THEOREM LastWriteCorrect ==
    Spec => []LastWriteStored
  BY LastKept, Invariance, PTL

(* A write that reports success is on a copy of each of its chunks, also   *)
(* when its first round failed and the second one made it good.            *)
THEOREM AckedCorrect ==
    ASSUME PostedOnce
    PROVE  Spec => []AckedOnACopy
  <1>1. Inv => AckedOnACopy
    BY AckedKept
  <1>2. QED  BY <1>1, Invariance, PTL

(* A truncation never touches a byte below the length it cuts to: the      *)
(* daemon cuts the chunk the new end lies in and unlinks those after it.   *)
THEOREM TruncateKeepsHeadCorrect ==
    Spec => TruncateKeepsHead
  <1>1. Inv /\ [Next]_vars => [KeepsHead]_vars
    BY HeadKept, Zenon
  <1>2. [][KeepsHead]_vars => TruncateKeepsHead
    BY Zenon DEF TruncateKeepsHead, KeepsHead
  <1>3. QED  BY <1>1, <1>2, Invariance, PTL DEF Spec
=============================================================================
