-------------------------- MODULE DataPath_proofs --------------------------
(***************************************************************************)
(* The arithmetic by which a daemon finds its bytes in the client's        *)
(* buffer.  The invariant of the data path, what it says, and that the     *)
(* tasklets of the daemons keep it, for any number of clients and daemons, *)
(* any chunk size, any byte ranges, any number of copies and any faults.   *)
(***************************************************************************)
EXTENDS DataPath, TLAPS

-----------------------------------------------------------------------------
(* Chunks and hosts *)

(* A range starts in its first chunk and ends in its last.                 *)
LEMMA Blocks ==
    ASSUME NEW o \in Nat
    PROVE  /\ block_index(o) \in Nat /\ block_overrun(o) \in 0 .. ChunkSize - 1
           /\ o = block_index(o) * ChunkSize + block_overrun(o)
  BY LayoutAssumption DEF block_index, block_overrun

(* The products the provers are not to find by themselves.                 *)
LEMMA Monotone ==
    ASSUME NEW a \in Nat, NEW b \in Nat, a < b
    PROVE  a * ChunkSize + ChunkSize <= b * ChunkSize
  <1>1. PICK k \in Nat : b = a + 1 + k
    BY b - a - 1 \in Nat
  <1>2. b * ChunkSize = a * ChunkSize + ChunkSize + k * ChunkSize
    BY <1>1, LayoutAssumption
  <1>3. k * ChunkSize \in Nat /\ a * ChunkSize \in Nat
    BY LayoutAssumption
  <1>4. QED  BY <1>2, <1>3, LayoutAssumption

LEMMA Unique ==
    ASSUME NEW a \in Nat, NEW x \in 0 .. ChunkSize - 1
    PROVE  block_index(a * ChunkSize + x) = a /\ block_overrun(a * ChunkSize + x) = x
  <1> DEFINE o == a * ChunkSize + x
             k == block_index(o)
             m == block_overrun(o)
  <1>1. o \in Nat /\ a * ChunkSize \in Nat
    BY LayoutAssumption
  <1>2. k \in Nat /\ m \in 0 .. ChunkSize - 1 /\ o = k * ChunkSize + m
    BY <1>1, Blocks, Zenon
  <1>3. k * ChunkSize \in Nat
    BY <1>2, LayoutAssumption
  <1>4. o = a * ChunkSize + x
    BY Zenon
  <1> HIDE DEF o, k, m
  <1>5. ~(k < a)
    <2>1. SUFFICES ASSUME k < a PROVE FALSE
      BY Zenon
    <2>2. k * ChunkSize + ChunkSize <= a * ChunkSize
      BY <1>2, <2>1, Monotone, Zenon
    <2>3. QED  BY <1>1, <1>2, <1>3, <1>4, <2>2, LayoutAssumption
  <1>6. ~(a < k)
    <2>1. SUFFICES ASSUME a < k PROVE FALSE
      BY Zenon
    <2>2. a * ChunkSize + ChunkSize <= k * ChunkSize
      BY <1>2, <2>1, Monotone, Zenon
    <2>3. QED  BY <1>1, <1>2, <1>3, <1>4, <2>2, LayoutAssumption
  <1>7. a = k
    BY <1>2, <1>5, <1>6
  <1>8. QED  BY <1>1, <1>2, <1>3, <1>4, <1>7, LayoutAssumption, SMTT(30) DEF o, k, m

LEMMA Between ==
    ASSUME NEW a \in Nat, NEW b \in Nat, a <= b
    PROVE  block_index(a) <= block_index(b) /\ block_index(a) \in Nat /\ block_index(b) \in Nat
  <1> DEFINE k == block_index(a)
             l == block_index(b)
  <1>1. /\ k \in Nat /\ block_overrun(a) \in 0 .. ChunkSize - 1 /\ a = k * ChunkSize + block_overrun(a)
        /\ l \in Nat /\ block_overrun(b) \in 0 .. ChunkSize - 1 /\ b = l * ChunkSize + block_overrun(b)
    BY Blocks, Zenon
  <1> HIDE DEF k, l
  <1>2. SUFFICES ASSUME l < k PROVE FALSE
    BY <1>1 DEF k, l
  <1>3. l * ChunkSize + ChunkSize <= k * ChunkSize
    BY <1>1, <1>2, Monotone, Zenon
  <1>4. k * ChunkSize \in Nat /\ l * ChunkSize \in Nat
    BY <1>1, LayoutAssumption
  <1>5. QED  BY <1>1, <1>3, <1>4, LayoutAssumption, SMTT(30)

LEMMA HostIds ==
    /\ Cardinality(Hosts) \in Nat \ {0}
    /\ \A x \in Nat : x % Cardinality(Hosts) \in Hosts
    /\ \A x \in Nat, k, l \in 0 .. Cardinality(Hosts) :
          (x + k) % Cardinality(Hosts) = (x + l) % Cardinality(Hosts)
             => k = l \/ k - l = Cardinality(Hosts) \/ l - k = Cardinality(Hosts)
  <1> DEFINE N == Cardinality(Hosts)
  <1>1. N \in Nat \ {0}
    BY LayoutAssumption, Zenon
  <1>2. Hosts = 0 .. N - 1
    BY LayoutAssumption, Zenon
  <1> HIDE DEF N
  <1>3. \A x \in Nat : x % N \in Hosts
    BY <1>1, <1>2
  <1>4. ASSUME NEW x \in Nat, NEW k \in 0 .. N, NEW l \in 0 .. N, (x + k) % N = (x + l) % N
        PROVE  k = l \/ k - l = N \/ l - k = N
    <2> DEFINE a == (x + k) \div N
               b == (x + l) \div N
               m == (x + k) % N
    <2>1. a \in Int /\ b \in Int /\ m \in Int /\ x + k = N * a + m /\ x + l = N * b + m
      BY <1>1, <1>4
    <2> HIDE DEF a, b, m
    <2>2. k - l = N * a - N * b
      BY <2>1, <1>1
    <2>3. k - l = N * (a - b)
      BY <1>1, <2>1, <2>2
    <2>4. PICK d \in Int : k - l = N * d
      BY <2>1, <2>3
    <2>5. d >= 2 => N * d >= N + N
      BY <1>1
    <2>6. d <= -2 => N * d <= -(N + N)
      BY <1>1
    <2>7. d \in {-1, 0, 1}
      BY <1>1, <2>4, <2>5, <2>6
    <2>8. CASE d = -1
      BY <1>1, <2>4, <2>8
    <2>9. CASE d = 0
      BY <1>1, <2>4, <2>9
    <2>10. CASE d = 1
      BY <1>1, <2>4, <2>10
    <2>11. QED  BY <2>7, <2>8, <2>9, <2>10, Zenon
  <1>5. QED  BY <1>1, <1>3, <1>4, Zenon DEF N

(* A piece moves the bytes of the range in its chunk, and no others.       *)
InPiece(p, at) == /\ block_index(at) = p.chunk
                  /\ p.off <= block_overrun(at) /\ block_overrun(at) < p.off + p.size
Fits(off, len, p) ==
    /\ p.chunk \in Nat /\ p.off \in Nat /\ p.size \in Nat \ {0} /\ p.off + p.size <= ChunkSize
    /\ p.origin \in Int /\ off + p.origin = p.chunk * ChunkSize + p.off
    /\ \A at \in Nat : InPiece(p, at) <=> /\ block_index(at) = p.chunk
                                          /\ off <= at /\ at < off + len

-----------------------------------------------------------------------------
(* The places of the bytes of a range *)

(* What forward_write and forward_read put into the request to a host.     *)
LEMMA Requests ==
    ASSUME NEW host, NEW off \in Nat, NEW len \in Nat \ {0}, NEW chunks, NEW n
    PROVE  LET in == RequestTo(host, off, len, chunks, n)
           IN  /\ in.start = block_index(off) /\ in.end = block_index(off + len - 1)
               /\ in.offset = block_overrun(off) /\ in.bulk = len /\ in.n = n
  BY Zenon DEF RequestTo

(* rpc_srv_write and rpc_srv_read: for every chunk of the range, the place *)
(* in the client's buffer that a daemon works out from the interval and    *)
(* the offset of the request is that of the first byte of the range in the *)
(* chunk, and the place in the chunk file is that of the same byte.        *)
THEOREM OriginCorrect ==
    ASSUME NEW host, NEW off \in Nat, NEW len \in Nat \ {0}, NEW chunks, NEW n,
           NEW c \in block_index(off) .. block_index(off + len - 1)
    PROVE  LET in == RequestTo(host, off, len, chunks, n)
               at == IF c = in.start THEN in.offset ELSE 0
           IN  off + PieceOrigin(in, c) = c * ChunkSize + at
  <1> DEFINE q == block_index(off)
             r == block_overrun(off)
  <1>1. q \in Nat /\ r \in 0 .. ChunkSize - 1 /\ off = q * ChunkSize + r
    BY Blocks
  <1>2. block_index(off + len - 1) \in Nat
    BY Blocks, off + len - 1 \in Nat
  <1>3. c \in Nat /\ c >= q
    BY <1>1, <1>2
  <1> DEFINE in == RequestTo(host, off, len, chunks, n)
  <1>4. in.start = q /\ in.offset = r
    BY Requests
  <1> HIDE DEF q, r, in
  <1>5. (c - q) * ChunkSize = c * ChunkSize - q * ChunkSize
    BY <1>1, <1>3, LayoutAssumption
  <1>6. ((c - q) - 1) * ChunkSize = c * ChunkSize - q * ChunkSize - ChunkSize
    BY <1>1, <1>3, LayoutAssumption
  <1>7. c * ChunkSize \in Nat /\ q * ChunkSize \in Nat
    BY <1>1, <1>3, LayoutAssumption
  <1>8. CASE c = q /\ r > 0
    <2>1. PieceOrigin(in, c) = 0
      BY <1>4, <1>8 DEF PieceOrigin
    <2>2. QED  BY <1>1, <1>4, <1>7, <1>8, <2>1 DEF in
  <1>9. CASE c # q /\ r > 0
    <2>1. PieceOrigin(in, c) = (ChunkSize - r) + ((c - q) - 1) * ChunkSize
      BY <1>4, <1>9 DEF PieceOrigin
    <2>2. off + PieceOrigin(in, c) = c * ChunkSize
      BY <1>1, <1>6, <1>7, <2>1, LayoutAssumption
    <2>3. QED  BY <1>4, <1>9, <1>7, <2>2 DEF in
  <1>10. CASE r = 0
    <2>1. PieceOrigin(in, c) = (c - q) * ChunkSize
      BY <1>4, <1>10 DEF PieceOrigin
    <2>2. off + PieceOrigin(in, c) = c * ChunkSize
      BY <1>1, <1>5, <1>7, <1>10, <2>1
    <2>3. QED  BY <1>4, <1>10, <1>7, <2>2 DEF in
  <1>11. QED  BY <1>1, <1>8, <1>9, <1>10

(* The same walk: a piece other than the last of a host has exactly the    *)
(* bytes of the range that lie in its chunk, up to the end of the chunk or *)
(* of the range, whichever comes first.                                    *)
THEOREM SizeCorrect ==
    ASSUME NEW host, NEW off \in Nat, NEW len \in Nat \ {0}, NEW chunks, NEW n \in Nat,
           NEW c \in block_index(off) .. block_index(off + len - 1),
           NEW curr \in Nat, NEW left, curr # n - 1, c # block_index(off + len - 1)
    PROVE  LET in == RequestTo(host, off, len, chunks, n)
               at == IF c = in.start THEN in.offset ELSE 0
           IN  at + PieceSize(in, c, curr, left) = ChunkSize
  <1> DEFINE q == block_index(off)
             r == block_overrun(off)
             z == block_index(off + len - 1)
  <1>1. q \in Nat /\ r \in 0 .. ChunkSize - 1 /\ off = q * ChunkSize + r
    BY Blocks, Zenon
  <1>2. z \in Nat /\ off + len - 1 >= z * ChunkSize
    <2>1. off + len - 1 \in Nat
      OBVIOUS
    <2>2. z \in Nat /\ off + len - 1 = z * ChunkSize + block_overrun(off + len - 1)
               /\ block_overrun(off + len - 1) \in 0 .. ChunkSize - 1
      BY <2>1, Blocks, Zenon
    <2>3. z * ChunkSize \in Nat
      BY <2>2, LayoutAssumption
    <2>4. QED  BY <2>1, <2>2, <2>3
  <1> DEFINE in == RequestTo(host, off, len, chunks, n)
  <1>3. in.start = q /\ in.offset = r /\ in.bulk = len /\ in.n = n
    BY Requests
  <1> HIDE DEF q, r, z, in
  <1>4. c \in Nat /\ q <= c /\ c < z
    BY <1>1, <1>2 DEF q, z
  <1>5. /\ c * ChunkSize + ChunkSize <= z * ChunkSize
        /\ q < c => q * ChunkSize + ChunkSize <= c * ChunkSize
    BY <1>1, <1>2, <1>4, Monotone, Zenon
  <1>6. q * ChunkSize \in Nat /\ c * ChunkSize \in Nat /\ z * ChunkSize \in Nat
    BY <1>1, <1>2, <1>4, LayoutAssumption
  <1>7. q * ChunkSize <= c * ChunkSize
    BY <1>1, <1>4, <1>5, <1>6, LayoutAssumption
  <1>8. off + len - 1 >= c * ChunkSize + ChunkSize
    BY <1>2, <1>5, <1>6, LayoutAssumption
  <1>9. CASE c = q /\ r > 0
    <2>1. r + len > ChunkSize
      BY <1>1, <1>6, <1>8, <1>9, LayoutAssumption
    <2>2. PieceSize(in, c, curr, left) = ChunkSize - r
      BY <1>1, <1>3, <1>9, <2>1, LayoutAssumption DEF PieceSize
    <2>3. QED  BY <1>1, <1>3, <1>9, <2>2, LayoutAssumption DEF in
  <1>10. CASE ~(c = q /\ r > 0)
    <2>1. len > ChunkSize
      <3>1. CASE c = q
        BY <1>1, <1>6, <1>8, <1>10, <3>1, LayoutAssumption
      <3>2. CASE c # q
        BY <1>1, <1>4, <1>5, <1>6, <1>8, <3>2, LayoutAssumption
      <3>3. QED  BY <3>1, <3>2
    <2>2. PieceSize(in, c, curr, left) = ChunkSize
      BY <1>1, <1>3, <1>10, <2>1, LayoutAssumption DEF PieceSize
    <2>3. QED  BY <1>1, <1>3, <1>10, <2>2, LayoutAssumption DEF in
  <1>11. QED  BY <1>9, <1>10, Zenon

(* Where a range ends: Rest is what it leaves of its last chunk, as the    *)
(* client computes it.                                                     *)
Rest(o) == IF ~is_aligned(o) THEN block_underrun(o) ELSE 0

LEMMA Ends ==
    ASSUME NEW off \in Nat, NEW len \in Nat \ {0}
    PROVE  LET q == block_index(off)
               z == block_index(off + len - 1)
               u == Rest(off + len)
           IN  /\ u \in 0 .. ChunkSize - 1 /\ q \in Nat /\ z \in Nat /\ q <= z
               /\ off + len = z * ChunkSize + ChunkSize - u
               /\ q = z => len = ChunkSize - u - block_overrun(off)
               /\ q < z => block_overrun(off) + len > ChunkSize
  <1> DEFINE q == block_index(off)
             r == block_overrun(off)
             z == block_index(off + len - 1)
             e == block_overrun(off + len - 1)
             u == Rest(off + len)
  <1>1. off + len - 1 \in Nat /\ off + len \in Nat
    OBVIOUS
  <1>2. q \in Nat /\ r \in 0 .. ChunkSize - 1 /\ off = q * ChunkSize + r
    BY Blocks
  <1>3. z \in Nat /\ e \in 0 .. ChunkSize - 1 /\ off + len - 1 = z * ChunkSize + e
    BY <1>1, Blocks
  <1> HIDE DEF q, r, z, e
  <1>4. q * ChunkSize \in Nat /\ z * ChunkSize \in Nat /\ (z + 1) * ChunkSize = z * ChunkSize + ChunkSize
    <2>1. q * ChunkSize \in Nat
      BY <1>2, LayoutAssumption
    <2>2. z * ChunkSize \in Nat /\ (z + 1) * ChunkSize = z * ChunkSize + ChunkSize
      BY <1>3, LayoutAssumption
    <2>3. QED  BY <2>1, <2>2
  <1>5. u = ChunkSize - 1 - e
    <2>1. CASE e = ChunkSize - 1
      <3>1. off + len = (z + 1) * ChunkSize + 0
        BY <1>3, <1>4, <2>1, LayoutAssumption
      <3>2. block_overrun(off + len) = 0
        <4>1. z + 1 \in Nat /\ 0 \in 0 .. ChunkSize - 1
          BY <1>3, LayoutAssumption
        <4>2. QED  BY <3>1, <4>1, Unique
      <3>3. QED  BY <2>1, <3>2, LayoutAssumption DEF Rest, is_aligned
    <2>2. CASE e # ChunkSize - 1
      <3>1. off + len = z * ChunkSize + (e + 1) /\ e + 1 \in 0 .. ChunkSize - 1
        BY <1>3, <1>4, <2>2, LayoutAssumption
      <3>2. block_overrun(off + len) = e + 1
        BY <1>3, <3>1, Unique
      <3>3. QED  BY <1>1, <1>3, <3>2, LayoutAssumption DEF Rest, is_aligned, block_underrun, align_left
    <2>3. QED  BY <2>1, <2>2
  <1> HIDE DEF u
  <1>6. u \in 0 .. ChunkSize - 1 /\ off + len = z * ChunkSize + ChunkSize - u
    BY <1>3, <1>4, <1>5, LayoutAssumption
  <1>7. q <= z
    <2>1. SUFFICES ASSUME z < q PROVE FALSE
      BY <1>2, <1>3
    <2>2. z * ChunkSize + ChunkSize <= q * ChunkSize
      BY <1>2, <1>3, <2>1, Monotone
    <2>3. QED  BY <1>2, <1>3, <1>4, <2>2, LayoutAssumption
  <1>8. q = z => len = ChunkSize - u - r
    BY <1>2, <1>4, <1>6, LayoutAssumption
  <1>9. q < z => r + len > ChunkSize
    <2>1. SUFFICES ASSUME q < z PROVE r + len > ChunkSize
      BY Zenon
    <2>2. q * ChunkSize + ChunkSize <= z * ChunkSize
      BY <1>2, <1>3, <2>1, Monotone
    <2>3. QED  BY <1>2, <1>4, <1>6, <2>2, LayoutAssumption
  <1>10. QED  BY <1>2, <1>3, <1>6, <1>7, <1>8, <1>9 DEF q, r, z, u

-----------------------------------------------------------------------------
(* The state of the chunk files *)
Files ==
    /\ DOMAIN store = Hosts
    /\ \A h \in Hosts : \A k \in DOMAIN store[h] :
          /\ k \in Nat /\ Len(store[h][k]) \in 0 .. ChunkSize
          /\ DOMAIN store[h][k] = 1 .. Len(store[h][k])

(* std::max of two sizes.                                                  *)
LEMMA Greater ==
    ASSUME NEW a \in Int, NEW b \in Int
    PROVE  Max({a, b}) \in Int /\ Max({a, b}) = IF a >= b THEN a ELSE b
  BY DEF Max

LEMMA Length ==
    ASSUME NEW n \in Nat, NEW s, DOMAIN s = 1 .. n
    PROVE  Len(s) = n
  OBVIOUS

(* What a tasklet of a write does to the bytes.                            *)
Wrote(h, id, p) ==
    /\ Files'
    /\ \A g \in Hosts : DOMAIN store'[g] = IF g = h THEN DOMAIN store[g] \cup {p.chunk} ELSE DOMAIN store[g]
    /\ \A g \in Hosts, at \in Nat :
          At(g, at)' = IF g = h /\ InPiece(p, at) THEN [by |-> id, at |-> at] ELSE At(g, at)

LEMMA WriteAt ==
    ASSUME Files, NEW h \in Hosts, NEW id, NEW off \in Nat, NEW len, NEW p, Fits(off, len, p),
           write_chunk(h, p.chunk, p.off, Bytes(id, off, p))
    PROVE  Wrote(h, id, p)
  <1> DEFINE c == p.chunk
             bytes == Bytes(id, off, p)
             old == IF c \in DOMAIN store[h] THEN store[h][c] ELSE <<>>
             len0 == Max({Len(old), p.off + Len(bytes)})
             new == [i \in 1 .. len0 |-> IF i > p.off /\ i <= p.off + Len(bytes) THEN bytes[i - p.off]
                                         ELSE IF i <= Len(old) THEN old[i] ELSE Hole]
  <1>1. /\ c \in Nat /\ p.off \in Nat /\ p.size \in Nat \ {0} /\ p.off + p.size <= ChunkSize
    BY Zenon DEF Fits
  <1>0. p.origin \in Int /\ off + p.origin = c * ChunkSize + p.off
    BY Zenon DEF Fits
  <1>2. Len(bytes) = p.size /\ \A i \in 1 .. p.size : bytes[i] = [by |-> id, at |-> off + p.origin + i - 1]
    <2>1. DOMAIN bytes = 1 .. p.size /\ p.size \in Nat
      BY <1>1, Zenon DEF Bytes
    <2>2. QED  BY <2>1, Length, Zenon DEF Bytes
  <1>3. Len(old) \in 0 .. ChunkSize
    BY <1>1, LayoutAssumption DEF Files
  <1>4. store' = [store EXCEPT ![h] = [x \in DOMAIN store[h] \cup {c} |-> IF x = c THEN new ELSE store[h][x]]]
    BY Zenon DEF write_chunk
  <1> HIDE DEF bytes, old
  <1>5. len0 \in Nat /\ len0 <= ChunkSize /\ len0 = IF Len(old) >= p.off + p.size THEN Len(old) ELSE p.off + p.size
    <2>1. Len(old) \in Int /\ p.off + p.size \in Int /\ p.off + Len(bytes) = p.off + p.size
      BY <1>1, <1>2, <1>3
    <2>2. len0 = IF Len(old) >= p.off + p.size THEN Len(old) ELSE p.off + p.size
      BY <2>1, Greater, Zenon
    <2>3. QED  BY <1>1, <1>3, <2>2, LayoutAssumption
  <1> HIDE DEF len0
  <1>6. DOMAIN new = 1 .. len0 /\ Len(new) = len0
    BY <1>5, Length, Zenon
  <1>7. \A i \in 1 .. len0 : new[i] = IF i > p.off /\ i <= p.off + p.size THEN bytes[i - p.off]
                                      ELSE IF i <= Len(old) THEN old[i] ELSE Hole
    BY <1>2, Zenon
  <1> HIDE DEF new
  <1>8. /\ DOMAIN store' = Hosts
        /\ DOMAIN store'[h] = DOMAIN store[h] \cup {c} /\ store'[h][c] = new
        /\ \A k \in DOMAIN store[h] : k # c => store'[h][k] = store[h][k]
        /\ \A g \in Hosts : g # h => store'[g] = store[g]
    BY <1>4, Zenon DEF Files
  <1>9. Files'
    <2>1. ASSUME NEW g \in Hosts, NEW k \in DOMAIN store'[g]
          PROVE  /\ k \in Nat /\ Len(store'[g][k]) \in 0 .. ChunkSize
                 /\ DOMAIN store'[g][k] = 1 .. Len(store'[g][k])
      <3>1. CASE g = h /\ k = c
        BY <1>1, <1>5, <1>6, <1>8, <3>1, LayoutAssumption
      <3>2. CASE ~(g = h /\ k = c)
        <4>1. k \in DOMAIN store[g] /\ store'[g][k] = store[g][k]
          BY <1>8, <2>1, <3>2, Zenon
        <4>2. QED  BY <4>1, Zenon DEF Files
      <3>3. QED  BY <3>1, <3>2, Zenon
    <2>2. QED  BY <1>8, <2>1, Zenon DEF Files
  <1>10. ASSUME NEW g \in Hosts, NEW at \in Nat
         PROVE  At(g, at)' = IF g = h /\ InPiece(p, at) THEN [by |-> id, at |-> at] ELSE At(g, at)
    <2> DEFINE k == block_index(at)
               m == block_overrun(at)
    <2>0. at = k * ChunkSize + m
      BY Blocks, Zenon
    <2>1. k \in Nat /\ m \in 0 .. ChunkSize - 1
      BY Blocks, Zenon
    <2>2. /\ At(g, at) = IF k \in DOMAIN store[g] /\ m < Len(store[g][k]) THEN store[g][k][m + 1] ELSE Hole
          /\ At(g, at)' = IF k \in DOMAIN store'[g] /\ m < Len(store'[g][k]) THEN store'[g][k][m + 1] ELSE Hole
      BY Zenon DEF At
    <2>3. InPiece(p, at) <=> k = c /\ p.off <= m /\ m < p.off + p.size
      BY Zenon DEF InPiece
    <2> HIDE DEF k, m
    <2>4. CASE g # h \/ k # c
      BY <1>8, <2>2, <2>3, <2>4, Zenon
    <2>5. CASE g = h /\ k = c
      <3>1. At(g, at)' = IF m < len0 THEN new[m + 1] ELSE Hole
        BY <1>6, <1>8, <2>2, <2>5, Zenon
      <3>2. At(g, at) = IF m < Len(old) THEN old[m + 1] ELSE Hole
        <4>1. CASE c \in DOMAIN store[h]
          BY <2>2, <2>5, <4>1, Zenon DEF old
        <4>2. CASE c \notin DOMAIN store[h]
          <5>1. Len(old) = 0
            BY <4>2, Zenon DEF old
          <5>2. QED  BY <2>1, <2>2, <2>5, <4>2, <5>1
        <4>3. QED  BY <4>1, <4>2, Zenon
      <3>3. m < len0 => m + 1 \in 1 .. len0
        BY <1>5, <2>1
      <3>4. CASE p.off <= m /\ m < p.off + p.size
        <4>1. m + 1 > p.off /\ m + 1 <= p.off + p.size /\ m + 1 - p.off \in 1 .. p.size
          BY <1>1, <2>1, <3>4
        <4>0. m < len0 /\ m + 1 \in 1 .. len0
          BY <1>1, <1>3, <1>5, <2>1, <3>4
        <4>2. At(g, at)' = bytes[m + 1 - p.off]
          <5> DEFINE j == m + 1
          <5>1. j \in 1 .. len0 /\ j > p.off /\ j <= p.off + p.size /\ At(g, at)' = new[j]
            BY <3>1, <4>0, <4>1, Zenon
          <5> HIDE DEF j
          <5>2. new[j] = bytes[j - p.off]
            BY <1>7, <5>1, Zenon
          <5>3. j - p.off = m + 1 - p.off
            BY <1>1, <2>1 DEF j
          <5>4. QED  BY <5>1, <5>2, <5>3, Zenon
        <4>3. At(g, at)' = [by |-> id, at |-> off + p.origin + (m + 1 - p.off) - 1]
          BY <1>2, <4>1, <4>2, Zenon
        <4>4. c * ChunkSize \in Int
          BY <1>1, LayoutAssumption
        <4>5. off + p.origin + (m + 1 - p.off) - 1 = at
          BY <1>0, <1>1, <2>0, <2>1, <2>5, <4>4
        <4>6. QED  BY <2>3, <2>5, <3>4, <4>3, <4>5, Zenon
      <3>5. CASE ~(p.off <= m /\ m < p.off + p.size)
        <4>1. m < len0 => new[m + 1] = IF m + 1 <= Len(old) THEN old[m + 1] ELSE Hole
          BY <1>1, <1>7, <2>1, <3>3, <3>5
        <4>2. m < Len(old) => m < len0
          BY <1>1, <1>3, <1>5, <2>1
        <4>3. m + 1 <= Len(old) <=> m < Len(old)
          BY <1>3, <2>1
        <4>4. QED  BY <2>3, <3>1, <3>2, <3>5, <4>1, <4>2, <4>3, Zenon
      <3>6. QED  BY <3>4, <3>5, Zenon
    <2>6. QED  BY <2>4, <2>5, Zenon
  <1>11. QED  BY <1>8, <1>9, <1>10, Zenon DEF Wrote, c

(* What the tasklet of a truncation to n does.                             *)
Trimmed(h, n) ==
    /\ Files'
    /\ \A g \in Hosts : DOMAIN store'[g] \subseteq DOMAIN store[g]
    /\ \A g \in Hosts, at \in Nat : At(g, at)' \in {At(g, at), Hole} /\ (at < n => At(g, at)' = At(g, at))
    /\ n = 0 /\ truncate_abt(h, n).err = 0 => DOMAIN store'[h] = {}

LEMMA TruncateAt ==
    ASSUME Files, NEW h \in Hosts, NEW n \in Nat,
           store' = [store EXCEPT ![h] = truncate_abt(h, n).files]
    PROVE  Trimmed(h, n)
  <1> DEFINE t == truncate_abt(h, n)
             start == block_index(n)
             pad == block_overrun(n)
             from == IF pad # 0 THEN start + 1 ELSE start
             cutoff(k) == [i \in 1 .. pad |-> IF i <= Len(store[h][k]) THEN store[h][k][i] ELSE Hole]
  <1>1. start \in Nat /\ pad \in 0 .. ChunkSize - 1
    BY Blocks, Zenon
  <1>2. DOMAIN store' = Hosts /\ store'[h] = t.files /\ \A g \in Hosts : g # h => store'[g] = store[g]
    BY Zenon DEF Files
  <1>3. \/ t.files = store[h] /\ t.err = 1
        \/ /\ DOMAIN t.files = {c \in DOMAIN store[h] : c < from}
           /\ \A k \in DOMAIN t.files : t.files[k] = IF k = start /\ pad # 0 THEN cutoff(k) ELSE store[h][k]
    BY Zenon DEF truncate_abt
  <1>4. ASSUME NEW k
        PROVE  /\ DOMAIN cutoff(k) = 1 .. pad /\ Len(cutoff(k)) = pad
               /\ \A i \in 1 .. pad : cutoff(k)[i] = IF i <= Len(store[h][k]) THEN store[h][k][i] ELSE Hole
    <2>1. DOMAIN cutoff(k) = 1 .. pad /\ pad \in Nat
      BY <1>1
    <2>2. Len(cutoff(k)) = pad
      BY <2>1, Length, Zenon
    <2>3. QED  BY <2>1, <2>2, Zenon
  <1>5. n = 0 => start = 0 /\ pad = 0
    <2>1. 0 * ChunkSize + 0 = 0 /\ 0 \in 0 .. ChunkSize - 1
      BY LayoutAssumption
    <2>2. QED  BY <2>1, Unique, Zenon
  <1> HIDE DEF t, start, pad, cutoff
  <1>6. DOMAIN store'[h] \subseteq DOMAIN store[h]
    BY <1>2, <1>3, Zenon
  <1>7. ASSUME NEW k \in DOMAIN store'[h]
        PROVE  \/ store'[h][k] = store[h][k]
               \/ k = start /\ pad # 0 /\ store'[h][k] = cutoff(k)
    BY <1>2, <1>3, Zenon
  <1>8. Files'
    <2>1. ASSUME NEW g \in Hosts, NEW k \in DOMAIN store'[g]
          PROVE  /\ k \in Nat /\ Len(store'[g][k]) \in 0 .. ChunkSize
                 /\ DOMAIN store'[g][k] = 1 .. Len(store'[g][k])
      <3>1. k \in DOMAIN store[g]
        BY <1>2, <1>6, <2>1, Zenon
      <3>2. CASE store'[g][k] = store[g][k]
        BY <3>1, <3>2, Zenon DEF Files
      <3>3. CASE g = h /\ store'[g][k] = cutoff(k)
        BY <1>1, <1>4, <3>1, <3>3, LayoutAssumption DEF Files
      <3>4. QED  BY <1>2, <1>7, <2>1, <3>2, <3>3, Zenon
    <2>2. QED  BY <1>2, <2>1, Zenon DEF Files
  <1>9. ASSUME NEW g \in Hosts, NEW at \in Nat
        PROVE  At(g, at)' \in {At(g, at), Hole} /\ (at < n => At(g, at)' = At(g, at))
    <2> DEFINE k == block_index(at)
               m == block_overrun(at)
    <2>1. k \in Nat /\ m \in 0 .. ChunkSize - 1
      BY Blocks, Zenon
    <2>2. /\ At(g, at) = IF k \in DOMAIN store[g] /\ m < Len(store[g][k]) THEN store[g][k][m + 1] ELSE Hole
          /\ At(g, at)' = IF k \in DOMAIN store'[g] /\ m < Len(store'[g][k]) THEN store'[g][k][m + 1] ELSE Hole
      BY Zenon DEF At
    <2>3. at < n => k < start \/ (k = start /\ m < pad)
      <3>1. SUFFICES ASSUME at < n, ~(k < start) PROVE k = start /\ m < pad
        BY Zenon
      <3>2. k = start
        BY <1>1, <2>1, <3>1, Between DEF start
      <3>3. at = start * ChunkSize + m /\ n = start * ChunkSize + pad
        BY <3>2, Blocks, Zenon DEF start, pad
      <3>4. start * ChunkSize \in Int
        BY <1>1, LayoutAssumption
      <3> HIDE DEF k, m
      <3>5. QED  BY <1>1, <2>1, <3>1, <3>2, <3>3, <3>4
    <2> HIDE DEF k, m
    <2>4. CASE g # h
      BY <1>2, <2>2, <2>4, Zenon
    <2>5. CASE g = h /\ k \notin DOMAIN store[h]
      BY <1>6, <2>2, <2>5, Zenon
    <2>6. CASE g = h /\ k \in DOMAIN store[h]
      <3>1. Len(store[h][k]) \in 0 .. ChunkSize
        BY <2>6, Zenon DEF Files
      <3>2. CASE k \in DOMAIN store'[h] /\ store'[h][k] = store[h][k]
        BY <2>2, <2>6, <3>2, Zenon
      <3>3. CASE k \notin DOMAIN store'[h]
        <4>1. ~(k < start) /\ (k = start => ~(m < pad))
          BY <1>1, <1>2, <1>3, <2>1, <2>6, <3>3
        <4>2. QED  BY <2>2, <2>3, <2>6, <3>3, <4>1, Zenon
      <3>4. CASE k \in DOMAIN store'[h] /\ k = start /\ store'[h][k] = cutoff(k)
        <4>1. At(g, at)' = IF m < pad THEN cutoff(k)[m + 1] ELSE Hole
          BY <1>4, <2>2, <2>6, <3>4, Zenon
        <4>2. m < pad => cutoff(k)[m + 1] = IF m + 1 <= Len(store[h][k]) THEN store[h][k][m + 1] ELSE Hole
          BY <1>1, <1>4, <2>1
        <4>3. m + 1 <= Len(store[h][k]) <=> m < Len(store[h][k])
          BY <2>1, <3>1
        <4>4. at < n => m < pad
          BY <1>1, <2>1, <2>3, <3>4
        <4>5. QED  BY <2>2, <2>6, <4>1, <4>2, <4>3, <4>4, Zenon
      <3>5. QED  BY <1>7, <3>2, <3>3, <3>4, Zenon
    <2>7. QED  BY <2>4, <2>5, <2>6, Zenon
  <1>10. n = 0 /\ t.err = 0 => DOMAIN store'[h] = {}
    <2>1. SUFFICES ASSUME n = 0, t.err = 0, NEW k \in DOMAIN store'[h] PROVE FALSE
      BY Zenon
    <2>2. k \in Nat /\ k < from
      BY <1>2, <1>3, <1>6, <2>1 DEF Files
    <2>3. QED  BY <1>5, <2>1, <2>2
  <1>11. QED  BY <1>2, <1>6, <1>8, <1>9, <1>10, Zenon DEF Trimmed, t

-----------------------------------------------------------------------------
(* The invariant *)

Fields == {"kind", "id", "off", "len", "old", "pc", "reqs", "err", "ret", "buf", "over", "seen",
           "stale", "missed", "failed"}
Quiet(c)   == op[c].pc \in {"idle", "done"}
Writing(c) == op[c].kind = "write" /\ ~Quiet(c)
Reqs(c)    == ForwardWrite(place, op[c].off, op[c].len, IF op[c].pc = "gather" THEN 0 ELSE Replicas)
Stored(at) == At(Primary(at), at).by

(* The setting in which a write that reports success is on some copy: the  *)
(* requests of both rounds do not fail to be posted in the same call       *)
(* (README, "Disagreements", tells what happens otherwise).                *)
PostedOnce == "post" \notin Faults \/ Replicas = 0 \/ MaxFaults <= 1

(* The operation of a client.                                              *)
OpType(c) ==
    /\ DOMAIN op[c] = Fields /\ op[c].id \in Nat /\ op[c].id <= nops
    /\ op[c].kind \in {"idle", "write", "read", "truncate"}
    /\ op[c].pc \in {"idle", "send", "gather", "copies", "gather2", "done"}
    /\ op[c].kind = "idle" <=> op[c].pc = "idle"
    /\ op[c].kind = "write" => <<op[c].off, op[c].len>> \in Ranges
    /\ op[c].pc \in {"copies", "gather2"} => op[c].kind = "write" /\ Replicas # 0
    /\ op[c].kind = "truncate" => op[c].len \in Nat /\ op[c].old \in Nat /\ op[c].len < op[c].old
                                 /\ op[c].old <= EndOf
    /\ op[c].pc \notin {"gather", "gather2"} => op[c].reqs = {}

(* Its requests: a round of a write has a request for each target, but for *)
(* the copies those that could not be posted are missing.                  *)
ReqType == {"in", "todo", "err", "moved"}
WriteReqs(c) ==
    op[c].kind = "write" =>
    /\ \A r \in op[c].reqs : DOMAIN r = ReqType /\ r.in \in Reqs(c) /\ r.todo \subseteq Pieces(r.in)
    /\ \/ op[c].pc = "gather"
       \/ op[c].pc = "gather2" /\ op[c].err # 0 /\ PostedOnce
       => \A in \in Reqs(c) : \E r \in op[c].reqs : r.in = in
    /\ (op[c].err # 0 \/ \E r \in op[c].reqs : r.err # 0) => faults >= 1
TruncReqs(c) ==
    op[c].kind = "truncate" =>
    \A r \in op[c].reqs : DOMAIN r = ReqType /\ r.in.host \in Hosts /\ r.in.length = op[c].len

(* A first truncation, to zero, of a file that nobody else changes.        *)
Emptying(c) ==
    (op[c].kind = "truncate" /\ op[c].len = 0 /\ nops = op[c].id /\ cut = 1 /\ op[c].over = {}) =>
    /\ op[c].pc = "send" => \A h \in Hosts : \A k \in DOMAIN store[h] : k * ChunkSize < op[c].old
    /\ op[c].pc = "gather" =>
         /\ op[c].err = 0 => \A h \in Hosts : DOMAIN store[h] = {} \/ \E r \in op[c].reqs : r.in.host = h
         /\ \A r \in op[c].reqs : r.todo = {} /\ r.err = 0 => DOMAIN store[r.in.host] = {}
    /\ op[c].pc = "done" /\ op[c].err = 0 => \A h \in Hosts : DOMAIN store[h] = {}

(* A running write: what it has stored on the first copy is still there,   *)
(* or replaced by a write that overlaps it in time; only a piece that did  *)
(* not reach that copy is not.                                             *)
Done(c, r, at) == \A p \in r.todo : p.chunk # block_index(at)
Missed(c, at)  == <<Primary(at), block_index(at)>> \in op[c].missed
Kept(c) ==
    (cut = 0 /\ Writing(c)) =>
    \A at \in Offsets : Covers(op[c], at) /\ ~Missed(c, at) =>
       /\ op[c].pc = "gather" =>
            \A r \in op[c].reqs : r.in.host = Primary(at) /\ Done(c, r, at)
               => Stored(at) \in op[c].over \cup {op[c].id}
       /\ op[c].pc \in {"copies", "gather2"} => Stored(at) \in op[c].over \cup {op[c].id}

(* A write that no other one overlaps, and that is the last operation.     *)
Latest(c) == op[c].kind = "write" /\ nops = op[c].id /\ op[c].over = {}
Acked(c) ==
    (PostedOnce /\ Latest(c)) =>
    \A at \in Nat : Covers(op[c], at) =>
       /\ \A r \in op[c].reqs : r.err = 0 /\ block_index(at) \in r.in.bitset /\ Done(c, r, at)
             => At(r.in.host, at).by = op[c].id
       /\ op[c].pc \in {"copies", "gather2", "done"} /\ op[c].err = 0
             => \E h \in Holders(block_index(at)) : At(h, at).by = op[c].id

CInv(c) == OpType(c) /\ WriteReqs(c) /\ TruncReqs(c) /\ Emptying(c) /\ Kept(c) /\ Acked(c)

(* What is stored, whose it is, and who may still change it.               *)
InPlace ==
    /\ Files
    /\ \A h \in Hosts : \A k \in DOMAIN store[h] : h \in Holders(k)
    /\ \A h \in Hosts, at \in Nat : At(h, at) = Hole \/ At(h, at).at = at
Sized ==
    cut = 0 => /\ \A h \in Hosts : \A k \in DOMAIN store[h] : k * ChunkSize < msize
               /\ \A h \in Hosts, at \in Nat : At(h, at) # Hole => at < msize
               /\ \A c \in Clients : Writing(c) => op[c].off + op[c].len <= msize
LooseFrom(l, r) ==
    /\ r[1] = l.off /\ (cut = 0 => r[1] + r[2] <= msize)
    /\ \E in \in ForwardWrite(place, r[1], r[2], 0) : in.host = l.host /\ l.todo \subseteq Pieces(in)
LooseInv ==
    \A l \in loose : /\ DOMAIN l = {"id", "off", "host", "todo"} /\ l.id \in Nat /\ l.id <= nops
                     /\ \E r \in Ranges : LooseFrom(l, r)
Alone ==
    \A c \in Clients : op[c].kind = "truncate" =>
       /\ cut # 0
       /\ op[c].pc # "done" => nops = op[c].id
       /\ nops = op[c].id => /\ \A d \in Clients : d # c => Quiet(d)
                             /\ op[c].over = {} => loose = {}
Overlaps ==
    \A c \in Clients : Writing(c) =>
       /\ \A d \in Clients : d # c /\ Writing(d) => op[d].id \in op[c].over
       /\ \A l \in loose : l.id \in op[c].over \cup {op[c].id}
LatestAlone ==
    \A c \in Clients : Latest(c) => /\ \A d \in Clients : d # c => ~Writing(d) /\ (op[d].kind = "truncate" => Quiet(d))
                                    /\ \A l \in loose : l.id = op[c].id
Covering(at) == {op[d].id : d \in {e \in Clients : Writing(e) /\ Covers(op[e], at)}}
LastOrRunning ==
    cut = 0 => /\ \A at \in Offsets : <<Primary(at), at>> \in behind \/ Stored(at) \in last[at] \cup Covering(at)
               /\ \A l \in loose : \A p \in l.todo : \A at \in Offsets :
                     InPiece(p, at) => l.id \in last[at] \cup Covering(at)
(* What a round of a write sends: the range, to the hosts of its chunks,   *)
(* with one request to each.                                               *)
Sending ==
    \A off, len, num : <<off, len>> \in Ranges /\ num \in {0, Replicas} =>
       /\ \A in \in ForwardWrite(place, off, len, num) :
             /\ in.host \in Hosts
             /\ \A k \in in.bitset : /\ \E p \in Pieces(in) : p.chunk = k
                                     /\ \E x \in WriteCopies(num) : locate_data(place, k, x) = in.host
             /\ \A p \in Pieces(in) : /\ Fits(off, len, p) /\ p.chunk \in in.bitset
                                      /\ in.host \in Holders(p.chunk)
             /\ \A jn \in ForwardWrite(place, off, len, num) : in.host = jn.host => in = jn
       /\ \A at \in Nat, x \in WriteCopies(num) : off <= at /\ at < off + len =>
             \E in \in ForwardWrite(place, off, len, num) :
                in.host = locate_data(place, block_index(at), x) /\ block_index(at) \in in.bitset
       /\ \A some \in (SUBSET ForwardWrite(place, off, len, num)) \ {{}} : Cardinality(some) \in Nat \ {0}
Numbered ==
    /\ Sending /\ place \in [ChunkIds -> Hosts] /\ nops \in Nat /\ faults \in Nat /\ cut \in Nat /\ msize \in Nat
    /\ msize <= EndOf /\ DOMAIN op = Clients /\ DOMAIN last = Offsets

GInv == Numbered /\ InPlace /\ Sized /\ LooseInv /\ Alone /\ Overlaps /\ LatestAlone /\ LastOrRunning
Inv  == GInv /\ \A c \in Clients : CInv(c)

-----------------------------------------------------------------------------
(* Facts about the constants and the requests *)

(* The ranges of the calls are finite in extent, EndOf bounds them.        *)
LEMMA Bounds ==
    /\ EndOf \in Nat \ {0} /\ Offsets \subseteq Nat /\ Replicas \in Nat
    /\ \A r \in Ranges : r[1] \in Nat /\ r[2] \in Nat \ {0} /\ r[1] + r[2] <= EndOf
  <1> DEFINE S == {r[1] + r[2] : r \in Ranges}
  <1>1. PICK r \in Ranges : \A t \in Ranges : t[1] + t[2] <= r[1] + r[2]
    BY DataAssumption, Zenon
  <1>2. \A t \in Ranges : t[1] \in Nat /\ t[2] \in Nat \ {0}
    BY DataAssumption, Zenon
  <1>3. S \subseteq Nat /\ r[1] + r[2] \in S /\ \A y \in S : r[1] + r[2] >= y
    BY <1>1, <1>2
  <1>4. EndOf = Max(S)
    BY Zenon DEF EndOf
  <1> HIDE DEF S
  <1>5. EndOf = r[1] + r[2]
    <2> DEFINE m == r[1] + r[2]
    <2>1. m \in S /\ (\A y \in S : m >= y) /\ S \subseteq Nat
      BY <1>3, Zenon
    <2> HIDE DEF m
    <2>2. Max(S) \in S /\ \A y \in S : Max(S) >= y
      BY <2>1, Zenon DEF Max
    <2>3. Max(S) >= m /\ m >= Max(S) /\ Max(S) \in Nat /\ m \in Nat
      BY <2>1, <2>2, Zenon
    <2>4. Max(S) = m
      BY <2>3
    <2>5. QED  BY <1>4, <2>4, Zenon DEF m
  <1>6. Replicas \in Nat
    BY DataAssumption, HostIds
  <1>7. EndOf \in Nat \ {0}
    BY <1>2, <1>5
  <1>8. QED  BY <1>1, <1>2, <1>5, <1>6, <1>7 DEF Offsets

LEMMA Sends ==
    ASSUME Sending, NEW off, NEW len, <<off, len>> \in Ranges, NEW num \in {0, Replicas}
    PROVE  /\ off \in Nat /\ len \in Nat \ {0}
           /\ \A in \in ForwardWrite(place, off, len, num) :
                 /\ in.host \in Hosts
                 /\ \A k \in in.bitset : /\ \E p \in Pieces(in) : p.chunk = k
                                         /\ \E x \in WriteCopies(num) : locate_data(place, k, x) = in.host
                 /\ \A p \in Pieces(in) : /\ Fits(off, len, p) /\ p.chunk \in in.bitset
                                          /\ in.host \in Holders(p.chunk)
           /\ \A in, jn \in ForwardWrite(place, off, len, num) : in.host = jn.host => in = jn
           /\ \A at \in Nat, x \in WriteCopies(num) : off <= at /\ at < off + len =>
                 \E in \in ForwardWrite(place, off, len, num) :
                    in.host = locate_data(place, block_index(at), x) /\ block_index(at) \in in.bitset
           /\ \A some \in (SUBSET ForwardWrite(place, off, len, num)) \ {{}} : Cardinality(some) \in Nat \ {0}
  <1>1. off \in Nat /\ len \in Nat \ {0}
    BY Bounds, <<off, len>>[1] = off, <<off, len>>[2] = len, Zenon
  <1>2. QED  BY <1>1, Zenon DEF Sending

(* The task of a request of a write.                                       *)
LEMMA Requested ==
    ASSUME Inv, NEW c \in Clients, op[c].kind = "write", NEW r \in op[c].reqs
    PROVE  /\ op[c].off \in Nat /\ op[c].len \in Nat \ {0} /\ DOMAIN r = ReqType
           /\ r.in.host \in Hosts /\ r.in \in Reqs(c) /\ r.todo \subseteq Pieces(r.in)
           /\ \A p \in r.todo : /\ Fits(op[c].off, op[c].len, p) /\ p.chunk \in r.in.bitset
                                /\ r.in.host \in Holders(p.chunk)
  <1>1. /\ Sending /\ <<op[c].off, op[c].len>> \in Ranges
        /\ DOMAIN r = ReqType /\ r.in \in Reqs(c) /\ r.todo \subseteq Pieces(r.in)
    BY Zenon DEF Inv, GInv, Numbered, CInv, OpType, WriteReqs
  <1>2. PICK num \in {0, Replicas} : Reqs(c) = ForwardWrite(place, op[c].off, op[c].len, num)
    BY Zenon DEF Reqs
  <1>3. /\ op[c].off \in Nat /\ op[c].len \in Nat \ {0}
        /\ \A in \in Reqs(c) :
              /\ in.host \in Hosts
              /\ \A p \in Pieces(in) : /\ Fits(op[c].off, op[c].len, p) /\ p.chunk \in in.bitset
                                       /\ in.host \in Holders(p.chunk)
    <2> DEFINE off == op[c].off
               len == op[c].len
    <2>1. <<off, len>> \in Ranges
      BY <1>1, Zenon
    <2> HIDE DEF off, len
    <2>2. /\ off \in Nat /\ len \in Nat \ {0}
          /\ \A in \in ForwardWrite(place, off, len, num) :
                /\ in.host \in Hosts
                /\ \A p \in Pieces(in) : /\ Fits(off, len, p) /\ p.chunk \in in.bitset
                                         /\ in.host \in Holders(p.chunk)
      BY <1>1, <2>1, Sends, Zenon
    <2>3. QED  BY <1>2, <2>2, Zenon DEF off, len
  <1>4. QED  BY <1>1, <1>3, Zenon

-----------------------------------------------------------------------------
(* Steps of one operation that leave the chunk files alone *)

Advance(c) ==
    /\ DOMAIN op' = Clients /\ \A d \in Clients : d # c => op'[d] = op[d]
    /\ op'[c].kind = op[c].kind /\ op'[c].id = op[c].id /\ op'[c].off = op[c].off
    /\ op'[c].len = op[c].len /\ op'[c].old = op[c].old /\ op'[c].over = op[c].over
Later == faults' \in Nat /\ faults' >= faults

(* What depends on the placement of the chunks only.                       *)
LEMMA SamePlace ==
    ASSUME UNCHANGED place
    PROVE  /\ \A at : Primary(at)' = Primary(at)
           /\ \A k : Holders(k)' = Holders(k)
           /\ Sending => Sending'
  BY DEF Primary, Holders, Sending

LEMMA PrimaryHost ==
    ASSUME place \in [ChunkIds -> Hosts], NEW at \in Offsets
    PROVE  Primary(at) \in Hosts /\ 0 \in WriteCopies(0)
  <1>1. EndOf \in Nat \ {0} /\ at \in Nat /\ at <= EndOf - 1 /\ EndOf - 1 \in Nat
    BY Bounds DEF Offsets
  <1>2. block_index(at) \in Nat /\ block_index(EndOf - 1) \in Nat /\ block_index(at) <= block_index(EndOf - 1)
    BY <1>1, Between, Zenon
  <1>3. place[block_index(at)] \in Hosts
    BY <1>2 DEF ChunkIds
  <1>4. place[block_index(at)] + 0 \in Nat
    <2> DEFINE n == Cardinality(Hosts)
    <2>1. Hosts = 0 .. n - 1 /\ n \in Nat
      BY LayoutAssumption, HostIds, Zenon
    <2> HIDE DEF n
    <2>2. QED  BY <1>3, <2>1
  <1>5. QED  BY <1>4, HostIds, Zenon DEF Primary, locate_data, WriteCopies

LEMMA HeldOnHosts ==
    ASSUME Inv, NEW c \in Clients, op[c].kind = "write", NEW at \in Nat, Covers(op[c], at)
    PROVE  at \in Offsets /\ Holders(block_index(at)) \subseteq Hosts
  <1>1. /\ place \in [ChunkIds -> Hosts] /\ <<op[c].off, op[c].len>> \in Ranges
    BY Zenon DEF Inv, GInv, Numbered, CInv, OpType
  <1>2. op[c].off + op[c].len <= EndOf /\ EndOf \in Nat \ {0} /\ op[c].off + op[c].len \in Nat
    <2> DEFINE r == <<op[c].off, op[c].len>>
    <2>1. r \in Ranges /\ r[1] = op[c].off /\ r[2] = op[c].len
      BY <1>1, Zenon
    <2> HIDE DEF r
    <2>2. QED  BY <2>1, Bounds
  <1>3. at \in Offsets /\ at <= EndOf - 1 /\ EndOf - 1 \in Nat
    BY <1>2 DEF Offsets, Covers
  <1>4. block_index(at) \in Nat /\ block_index(EndOf - 1) \in Nat /\ block_index(at) <= block_index(EndOf - 1)
    BY <1>3, Between, Zenon
  <1>5. place[block_index(at)] \in Hosts
    BY <1>1, <1>4 DEF ChunkIds
  <1>6. ASSUME NEW x \in 0 .. Replicas PROVE locate_data(place, block_index(at), x) \in Hosts
    <2> DEFINE n == Cardinality(Hosts)
    <2>1. Hosts = 0 .. n - 1 /\ n \in Nat /\ x \in Nat
      BY LayoutAssumption, HostIds, Bounds
    <2> HIDE DEF n
    <2>2. place[block_index(at)] + x \in Nat
      BY <1>5, <2>1
    <2>3. QED  BY <2>2, HostIds, Zenon DEF locate_data
  <1>7. QED  BY <1>3, <1>6, Zenon DEF Holders

(* What depends on the chunk files only.                                   *)
LEMMA SameBytes ==
    ASSUME UNCHANGED <<place, store>>
    PROVE  /\ \A h, at : At(h, at)' = At(h, at)
           /\ \A at : Stored(at)' = Stored(at)
           /\ Files' <=> Files
  BY Zenon DEF At, Stored, Primary, Files

LEMMA Others ==
    ASSUME Inv, NEW c \in Clients, Advance(c), Later, UNCHANGED <<place, store, nops, cut>>,
           NEW d \in Clients, d # c
    PROVE  CInv(d)'
  <1>1. op'[d] = op[d]
    BY Zenon DEF Advance
  <1>2. CInv(d)
    BY Zenon DEF Inv
  <1>3. OpType(d)'
    BY <1>1, <1>2, Zenon DEF CInv, OpType
  <1>4. Reqs(d)' = Reqs(d) /\ (Writing(d)' <=> Writing(d)) /\ (Latest(d)' <=> Latest(d))
    BY <1>1, Zenon DEF Reqs, Writing, Quiet, Latest
  <1>5. WriteReqs(d)'
    <2>1. faults >= 1 => faults' >= 1
      BY DEF Later, Inv, GInv, Numbered
    <2>2. QED  BY <1>1, <1>2, <1>4, <2>1, Zenon DEF CInv, WriteReqs
  <1>6. TruncReqs(d)' /\ Emptying(d)'
    BY <1>1, <1>2 DEF CInv, TruncReqs, Emptying
  <1>7. Kept(d)'
    BY <1>1, <1>2, <1>4, SamePlace, SameBytes, ZenonT(30) DEF CInv, Kept, Covers, Done, Missed
  <1>8. Acked(d)'
    BY <1>1, <1>2, <1>4, SamePlace, SameBytes DEF CInv, Acked, Covers, Done
  <1>9. QED  BY <1>3, <1>5, <1>6, <1>7, <1>8, Zenon DEF CInv

(* What is shared but for the files, in a step of a call that neither      *)
(* begins nor ends it.                                                     *)
LEMMA Frame ==
    ASSUME Inv, NEW c \in Clients, ~Quiet(c), Advance(c), Later,
           UNCHANGED <<place, msize, loose, nops, cut>>, DOMAIN last' = Offsets
    PROVE  /\ Numbered' /\ LooseInv' /\ Alone' /\ Overlaps' /\ LatestAlone'
           /\ \A d \in Clients : Writing(d)' => /\ Writing(d) /\ op'[d].off = op[d].off /\ op'[d].len = op[d].len
  <1>1. \A d \in Clients : /\ op'[d].kind = op[d].kind /\ op'[d].id = op[d].id /\ op'[d].off = op[d].off
                           /\ op'[d].len = op[d].len /\ op'[d].over = op[d].over
                           /\ Quiet(d) => Quiet(d)'
    BY Zenon DEF Advance, Quiet
  <1>2. \A d \in Clients : (Writing(d)' => Writing(d)) /\ (Latest(d)' <=> Latest(d))
    BY <1>1, Zenon DEF Writing, Latest
  <1>3. Numbered'
    BY SamePlace, Zenon DEF Inv, GInv, Numbered, Later, Advance
  <1>4. LooseInv'
    BY Zenon DEF Inv, GInv, LooseInv, LooseFrom
  <1>5. Alone'
    <2>1. op[c].pc # "done"
      BY Zenon DEF Quiet
    <2>2. Alone
      BY Zenon DEF Inv, GInv
    <2>3. ASSUME NEW d \in Clients, op'[d].kind = "truncate", nops' = op'[d].id
          PROVE  /\ \A e \in Clients : e # d => Quiet(e)'
                 /\ op'[d].over = {} => loose' = {}
      BY <1>1, <2>2, <2>3, Zenon DEF Alone
    <2>4. ASSUME NEW d \in Clients, op'[d].kind = "truncate", op'[d].pc # "done"
          PROVE  nops' = op'[d].id
      BY <1>1, <2>1, <2>2, <2>4 DEF Alone, Advance
    <2>5. QED  BY <1>1, <2>2, <2>3, <2>4, Zenon DEF Alone
  <1>6. Overlaps'
    BY <1>1, <1>2, Zenon DEF Inv, GInv, Overlaps
  <1>7. LatestAlone'
    BY <1>1, <1>2, Zenon DEF Inv, GInv, LatestAlone
  <1>8. QED  BY <1>1, <1>2, <1>3, <1>4, <1>5, <1>6, <1>7, Zenon

LEMMA Shared ==
    ASSUME Inv, NEW c \in Clients, ~Quiet(c), Advance(c), Later,
           UNCHANGED <<place, store, msize, loose, nops, cut>>,
           DOMAIN last' = Offsets, LastOrRunning'
    PROVE  GInv'
  <1>1. InPlace'
    BY SamePlace, SameBytes DEF Inv, GInv, InPlace
  <1>2. Sized'
    BY Frame, SameBytes, Zenon DEF Inv, GInv, Sized
  <1>3. QED  BY <1>1, <1>2, Frame, Zenon DEF GInv

LEMMA Running ==
    ASSUME Inv, NEW c \in Clients, Advance(c), ~Quiet(c), ~Quiet(c)',
           UNCHANGED <<place, store, loose, cut, last, behind>>
    PROVE  DOMAIN last' = Offsets /\ LastOrRunning'
  <1>1. \A d \in Clients, at \in Offsets :
            (Writing(d) /\ Covers(op[d], at) <=> (Writing(d) /\ Covers(op[d], at))') /\ op'[d].id = op[d].id
    BY DEF Advance, Writing, Quiet, Covers
  <1>2. \A at \in Offsets : Covering(at)' = Covering(at)
    BY <1>1, Zenon DEF Covering
  <1>3. QED  BY <1>2, SamePlace, SameBytes, Zenon DEF Inv, GInv, Numbered, LastOrRunning

(* The history at the end of an operation.                                 *)
LEMMA Settled ==
    ASSUME Inv, NEW c \in Clients, Advance(c), ~Quiet(c), op'[c].pc = "done", NEW err, Settle(c, err),
           UNCHANGED <<place, store, loose, cut>>,
           (cut = 0 /\ Writing(c) /\ err = 0) =>
               \A at \in Offsets : Covers(op[c], at) /\ ~Missed(c, at) => Stored(at) \in op[c].over \cup {op[c].id}
    PROVE  DOMAIN last' = Offsets /\ LastOrRunning'
  <1>1. DOMAIN last' = Offsets
    BY Zenon DEF Settle
  <1>2. \A d \in Clients, at \in Offsets :
            d # c /\ Writing(d) /\ Covers(op[d], at) => (Writing(d) /\ Covers(op[d], at))' /\ op'[d].id = op[d].id
    BY Zenon DEF Advance, Writing, Quiet, Covers
  <1>3. ASSUME NEW at \in Offsets, NEW x \in last[at] \cup Covering(at)
        PROVE  \/ x \in last'[at] \cup Covering(at)'
               \/ op[c].kind = "write" /\ Covers(op[c], at) /\ err = 0
    <2>1. CASE op[c].kind = "write" /\ Covers(op[c], at) /\ err # 0
      <3>1. last'[at] = last[at] \cup op[c].over \cup {op[c].id}
        BY <2>1, Zenon DEF Settle
      <3>2. QED  BY <1>2, <1>3, <3>1, Zenon DEF Covering
    <2>2. CASE ~(op[c].kind = "write" /\ Covers(op[c], at))
      <3>1. last'[at] = last[at]
        BY <2>2, Zenon DEF Settle
      <3>2. ~(Writing(c) /\ Covers(op[c], at))
        BY <2>2, Zenon DEF Writing
      <3>3. QED  BY <1>2, <1>3, <3>1, <3>2, Zenon DEF Covering
    <2>3. QED  BY <2>1, <2>2, Zenon
  <1>4. ASSUME NEW at \in Offsets, op[c].kind = "write", Covers(op[c], at), err = 0
        PROVE  last'[at] = op[c].over \cup {op[c].id}
    BY <1>4, Zenon DEF Settle
  <1>5. Writing(c) <=> op[c].kind = "write"
    BY Zenon DEF Writing
  <1>6. ASSUME cut = 0, NEW at \in Offsets
        PROVE  <<Primary(at)', at>> \in behind' \/ Stored(at)' \in last'[at] \cup Covering(at)'
    <2> DEFINE x == <<Primary(at), at>>
    <2>1. Stored(at)' = Stored(at) /\ (x \in behind \/ Stored(at) \in last[at] \cup Covering(at))
      BY <1>6, SameBytes, Zenon DEF Inv, GInv, LastOrRunning
    <2>2. Primary(at)' = Primary(at) /\ Primary(at) \in Hosts
      BY <1>6, Bounds, SamePlace, PrimaryHost, Zenon DEF Inv, GInv, Numbered
    <2>3. x \in Hosts \X Offsets /\ x[1] = Primary(at) /\ x[2] = at
      BY <2>2
    <2> HIDE DEF x
    <2>4. CASE op[c].kind = "write" /\ err = 0 /\ Covers(op[c], at)
      <3>1. Missed(c, at) => x \in behind'
        BY <2>3, <2>4, Zenon DEF Settle, Missed
      <3>2. QED  BY <1>4, <1>5, <1>6, <2>1, <2>2, <2>4, <3>1, Zenon DEF x
    <2>5. CASE ~(op[c].kind = "write" /\ err = 0 /\ Covers(op[c], at))
      <3>1. x \in behind => x \in behind'
        BY <2>3, <2>5, Zenon DEF Settle
      <3>2. QED  BY <1>3, <1>6, <2>1, <2>2, <2>5, <3>1, Zenon DEF x
    <2>6. QED  BY <2>4, <2>5, Zenon
  <1>7. ASSUME cut = 0, NEW l \in loose, NEW p \in l.todo, NEW at \in Offsets, InPiece(p, at)
        PROVE  l.id \in last'[at] \cup Covering(at)'
    <2>1. l.id \in last[at] \cup Covering(at)
      BY <1>7, Zenon DEF Inv, GInv, LastOrRunning
    <2>2. Writing(c) => l.id \in op[c].over \cup {op[c].id}
      BY Zenon DEF Inv, GInv, Overlaps
    <2>3. QED  BY <1>3, <1>4, <1>5, <2>1, <2>2, Zenon
  <1>8. QED  BY <1>1, <1>6, <1>7, Zenon DEF LastOrRunning

LEMMA Local ==
    ASSUME Inv, NEW c \in Clients, ~Quiet(c), Advance(c), Later,
           UNCHANGED <<place, store, msize, loose, nops, cut>>,
           DOMAIN last' = Offsets /\ LastOrRunning', CInv(c)'
    PROVE  Inv'
  BY Others, Shared, Zenon DEF Inv

LEMMA Continues ==
    ASSUME Inv, NEW c \in Clients, ~Quiet(c), ~Quiet(c)', Advance(c), Later,
           UNCHANGED <<place, store, msize, loose, nops, cut, last, behind>>, CInv(c)'
    PROVE  Inv'
  BY Running, Local, Zenon

LEMMA Returns ==
    ASSUME Inv, NEW c \in Clients, ~Quiet(c), NEW err, NEW ret, Return(c, err, ret), Later, UNCHANGED loose,
           (cut = 0 /\ Writing(c) /\ err = 0) =>
               \A at \in Offsets : Covers(op[c], at) /\ ~Missed(c, at) => Stored(at) \in op[c].over \cup {op[c].id},
           (op[c].kind = "truncate" /\ op[c].len = 0 /\ nops = op[c].id /\ cut = 1 /\ op[c].over = {} /\ err = 0) =>
               \A h \in Hosts : DOMAIN store[h] = {},
           (PostedOnce /\ Latest(c) /\ err = 0) =>
               \A at \in Nat : Covers(op[c], at) => \E h \in Holders(block_index(at)) : At(h, at).by = op[c].id,
           op[c].kind = "write" /\ err # 0 => faults' >= 1
    PROVE  Inv'
  <1>1. DOMAIN op = Clients /\ OpType(c)
    BY Zenon DEF Inv, GInv, Numbered, CInv
  <1>2. /\ Advance(c) /\ DOMAIN op'[c] = Fields /\ op'[c].pc = "done" /\ op'[c].reqs = {} /\ op'[c].err = err
        /\ UNCHANGED <<place, store, msize, nops, cut>> /\ Settle(c, err)
    BY <1>1, Zenon DEF Return, Advance, OpType, Fields
  <1>3. OpType(c)'
    BY <1>1, <1>2, Zenon DEF OpType, Advance, Quiet
  <1>4. WriteReqs(c)' /\ TruncReqs(c)' /\ Emptying(c)' /\ Kept(c)'
    BY <1>2, ZenonT(30) DEF WriteReqs, TruncReqs, Emptying, Kept, Writing, Quiet, Advance
  <1>5. Acked(c)'
    <2>1. Latest(c)' <=> Latest(c)
      BY <1>2, Zenon DEF Latest, Advance
    <2>2. \A at : Covers(op[c], at)' <=> Covers(op[c], at)
      BY <1>2, Zenon DEF Covers, Advance
    <2>3. SUFFICES ASSUME PostedOnce, Latest(c), err = 0, NEW at \in Nat, Covers(op[c], at)
                   PROVE  \E h \in Holders(block_index(at)) : At(h, at).by = op[c].id
      <3>1. op'[c].id = op[c].id
        BY <1>2, Zenon DEF Advance
      <3>2. QED  BY <1>2, <2>1, <2>2, <3>1, SamePlace, SameBytes, Zenon DEF Acked
    <2>4. QED  BY <2>3, Zenon
  <1>6. QED  BY <1>2, <1>3, <1>4, <1>5, Settled, Local, Zenon DEF CInv

(* A read changes nothing but its own operation.                           *)
LEMMA ReadStep ==
    ASSUME NEW c \in Clients, Advance(c), op[c].kind = "read", OpType(c)'
    PROVE  CInv(c)'
  BY Zenon DEF Advance, CInv, WriteReqs, TruncReqs, Emptying, Kept, Acked, Writing, Latest

(* The steps of a read change no file.                                     *)
LEMMA Reading ==
    ASSUME Inv, NEW c \in Clients, op[c].kind = "read"
    PROVE  /\ SendRead(c) => Inv'
           /\ PostReadFails(c) => Inv'
           /\ GatherRead(c) => Inv'
           /\ \A r \in op[c].reqs : \A p \in r.todo : ReadTask(c, r, p) => Inv'
  <1>1. DOMAIN op = Clients /\ OpType(c) /\ faults \in Nat
    BY Zenon DEF Inv, GInv, Numbered, CInv
  <1>2. ASSUME SendRead(c) PROVE Inv'
    <2>1. Advance(c) /\ DOMAIN op'[c] = Fields /\ op'[c].pc = "gather" /\ op[c].pc = "send"
      BY <1>1, <1>2 DEF SendRead, Advance, OpType, Fields
    <2>2. UNCHANGED <<place, store, msize, loose, nops, cut, last, behind>> /\ Later
      BY <1>1, <1>2 DEF SendRead, Later
    <2>3. OpType(c)'
      BY <1>1, <2>1, <2>2, Zenon DEF OpType, Advance
    <2>4. ~Quiet(c) /\ ~Quiet(c)'
      BY <2>1, Zenon DEF Quiet
    <2>5. QED  BY <2>1, <2>2, <2>3, <2>4, ReadStep, Continues, Zenon
  <1>3. ASSUME NEW err, NEW ret, Return(c, err, ret), ~Quiet(c), Later, UNCHANGED loose PROVE Inv'
    BY <1>3, Returns, Zenon DEF Writing, Latest
  <1>4. ASSUME PostReadFails(c) PROVE Inv'
    BY <1>1, <1>3, <1>4 DEF PostReadFails, Fault, Later, Quiet
  <1>5. ASSUME GatherRead(c) PROVE Inv'
    <2>1. op[c].pc = "gather" /\ ~Quiet(c)
      BY <1>5, Zenon DEF GatherRead, Quiet
    <2>2. ASSUME op' = [op EXCEPT ![c].pc = "send", ![c].reqs = {}],
                 UNCHANGED <<place, store, msize, loose, nops, faults, last, behind, cut>>
          PROVE  Inv'
      <3>1. Advance(c) /\ DOMAIN op'[c] = Fields /\ op'[c].pc = "send" /\ op'[c].reqs = {}
        BY <1>1, <2>2, Zenon DEF Advance, OpType, Fields
      <3>2. OpType(c)'
        BY <1>1, <2>1, <2>2, <3>1, Zenon DEF OpType, Advance
      <3>3. ~Quiet(c)' /\ Later
        BY <1>1, <2>2, <3>1 DEF Quiet, Later
      <3>4. QED  BY <2>1, <2>2, <3>1, <3>2, <3>3, ReadStep, Continues, Zenon
    <2>3. CASE \E err \in RoundErrs(c) : Finish(c, err, RoundSize(c))
      BY <1>1, <1>3, <2>1, <2>3 DEF Finish, Later
    <2>4. QED  BY <1>5, <2>2, <2>3, Zenon DEF GatherRead
  <1>6. ASSUME NEW r \in op[c].reqs, NEW p \in r.todo, ReadTask(c, r, p) PROVE Inv'
    <2>1. Advance(c) /\ DOMAIN op'[c] = Fields /\ op'[c].pc = op[c].pc /\ op[c].pc = "gather"
      BY <1>1, <1>6, Zenon DEF ReadTask, Advance, OpType, Fields
    <2>2. UNCHANGED <<place, store, msize, loose, nops, cut, last, behind>> /\ Later
      BY <1>1, <1>6 DEF ReadTask, Later
    <2>3. OpType(c)'
      BY <1>1, <2>1, <2>2, Zenon DEF OpType, Advance
    <2>4. ~Quiet(c) /\ ~Quiet(c)'
      BY <2>1, Zenon DEF Quiet
    <2>5. QED  BY <2>1, <2>2, <2>3, <2>4, ReadStep, Continues, Zenon
  <1>7. QED  BY <1>2, <1>4, <1>5, <1>6, Zenon

LEMMA RoundErrors ==
    ASSUME NEW c, NEW err \in RoundErrs(c)
    PROVE  /\ err = 0 <=> \A r \in op[c].reqs : r.err = 0
           /\ RoundErrs(c) = {0} <=> \A r \in op[c].reqs : r.err = 0
  <1> DEFINE errs == {r.err : r \in op[c].reqs} \ {0}
  <1>1. RoundErrs(c) = IF errs = {} THEN {0} ELSE errs
    BY Zenon DEF RoundErrs
  <1>2. errs = {} <=> \A r \in op[c].reqs : r.err = 0
    BY Zenon
  <1>3. 0 \notin errs
    BY Zenon
  <1> HIDE DEF errs
  <1>4. QED  BY <1>1, <1>2, <1>3

(* The hosts of a truncation.                                              *)
LEMMA CutHosts ==
    ASSUME Inv, NEW c \in Clients, op[c].kind = "truncate"
    PROVE  /\ ToCut(c) \subseteq Hosts
           /\ op[c].len = 0 => \A h \in Hosts : \A k \in DOMAIN store[h] : k * ChunkSize < op[c].old => h \in ToCut(c)
  <1> DEFINE old == op[c].old
             new == op[c].len
  <1>1. /\ old \in Nat /\ new \in Nat /\ new < old /\ old <= EndOf /\ place \in [ChunkIds -> Hosts]
        /\ InPlace /\ EndOf \in Nat /\ Replicas \in Nat
    BY Bounds, Zenon DEF Inv, GInv, Numbered, CInv, OpType
  <1>2. ToCut(c) = {locate_data(place, k, x) : k \in block_index(new) .. block_index(old - new - 1), x \in 0 .. Replicas}
    BY DEF ToCut, TruncateHosts
  <1> HIDE DEF old, new
  <1>3. old - new - 1 \in Nat /\ EndOf - 1 \in Nat /\ old - new - 1 <= EndOf - 1
    BY <1>1
  <1>4. /\ block_index(old - new - 1) <= block_index(EndOf - 1) /\ block_index(new) \in Nat
        /\ block_index(old - new - 1) \in Nat /\ block_index(EndOf - 1) \in Nat
    BY <1>1, <1>3, Between
  <1>5. ASSUME NEW k \in block_index(new) .. block_index(old - new - 1), NEW x \in 0 .. Replicas
        PROVE  locate_data(place, k, x) \in Hosts
    <2>1. k \in ChunkIds /\ x \in Nat
      BY <1>1, <1>4 DEF ChunkIds
    <2>2. place[k] \in Hosts /\ \A h \in Hosts : h \in Nat
      <3>1. Hosts = 0 .. Cardinality(Hosts) - 1 /\ Cardinality(Hosts) \in Nat
        BY LayoutAssumption, HostIds, Zenon
      <3>2. QED  BY <1>1, <2>1, <3>1
    <2>3. place[k] + x \in Nat
      BY <2>1, <2>2
    <2>4. QED  BY <2>3, HostIds, Zenon DEF locate_data
  <1>6. ASSUME new = 0, NEW h \in Hosts, NEW k \in DOMAIN store[h], k * ChunkSize < old
        PROVE  h \in ToCut(c)
    <2>1. k \in Nat /\ h \in Holders(k)
      BY <1>1, Zenon DEF InPlace, Files
    <2>2. PICK x \in 0 .. Replicas : h = locate_data(place, k, x)
      BY <2>1, Zenon DEF Holders
    <2>3. k * ChunkSize \in Nat /\ k * ChunkSize <= old - 1 /\ 0 \in 0 .. ChunkSize - 1
      BY <1>1, <1>6, <2>1, LayoutAssumption
    <2>4. block_index(k * ChunkSize) = k
      <3>1. k * ChunkSize + 0 = k * ChunkSize
        BY <2>3
      <3>2. QED  BY <2>1, <2>3, <3>1, Unique, Zenon
    <2>5. k <= block_index(old - 1)
      BY <1>1, <2>3, <2>4, Between, old - 1 \in Nat, Zenon
    <2>6. block_index(new) = 0
      <3>1. 0 * ChunkSize + 0 = 0
        BY LayoutAssumption
      <3>2. QED  BY <1>6, <2>3, <3>1, Unique, Zenon
    <2>7. old - new - 1 = old - 1
      BY <1>1, <1>6
    <2>8. k \in block_index(new) .. block_index(old - new - 1)
      BY <1>4, <2>1, <2>5, <2>6, <2>7
    <2>9. QED  BY <1>2, <2>2, <2>8
  <1>7. QED  BY <1>2, <1>5, <1>6 DEF old, new

LEMMA TruncStep ==
    ASSUME NEW c \in Clients, Advance(c), op[c].kind = "truncate", OpType(c)', TruncReqs(c)', Emptying(c)'
    PROVE  CInv(c)'
  BY Zenon DEF Advance, CInv, WriteReqs, Kept, Acked, Writing, Latest

LEMMA Truncating ==
    ASSUME Inv, NEW c \in Clients
    PROVE  /\ SendTruncate(c) => Inv'
           /\ PostTruncateFails(c) => Inv'
           /\ GatherTruncate(c) => Inv'
  <1>1. DOMAIN op = Clients /\ OpType(c) /\ faults \in Nat /\ CInv(c)
    BY Zenon DEF Inv, GInv, Numbered, CInv
  <1>2. ASSUME NEW hosts \in SUBSET ToCut(c), op[c].kind = "truncate", op[c].pc = "send", NEW err,
               Advance(c), DOMAIN op'[c] = Fields, op'[c].pc = "gather", op'[c].err = err,
               op'[c].reqs = {CutAt(h, op[c].len) : h \in hosts},
               hosts = ToCut(c) \/ err # 0, Later,
               UNCHANGED <<place, store, msize, loose, nops, last, behind, cut>>
        PROVE  Inv'
    <2>1. /\ Advance(c) /\ DOMAIN op'[c] = Fields /\ op'[c].pc = "gather" /\ op'[c].err = err
          /\ op'[c].reqs = {CutAt(h, op[c].len) : h \in hosts}
      BY <1>2, Zenon
    <2>2. \A h : /\ CutAt(h, op[c].len).in.host = h /\ CutAt(h, op[c].len).in.length = op[c].len
                 /\ DOMAIN CutAt(h, op[c].len) = ReqType /\ CutAt(h, op[c].len).todo # {}
      BY Zenon DEF CutAt, ReqType
    <2>3. OpType(c)'
      BY <1>1, <1>2, <2>1, ZenonT(30) DEF OpType, Advance
    <2>4. TruncReqs(c)'
      BY <1>2, <2>1, <2>2, CutHosts DEF TruncReqs, Advance
    <2>5. Emptying(c)'
      <3>1. SUFFICES ASSUME op[c].len = 0, nops = op[c].id, cut = 1, op[c].over = {}, err = 0, NEW h \in Hosts,
                            DOMAIN store[h] # {}
                     PROVE  \E r \in op'[c].reqs : r.in.host = h
        BY <1>2, <2>1, <2>2, ZenonT(30) DEF Emptying, Advance
      <3>2. h \in ToCut(c)
        BY <1>1, <1>2, <3>1, CutHosts, Zenon DEF CInv, Emptying
      <3>3. h \in hosts
        BY <1>2, <3>1, <3>2, Zenon
      <3>4. CutAt(h, op[c].len) \in op'[c].reqs
        BY <2>1, <3>3, Zenon
      <3>5. QED  BY <2>2, <3>4, Zenon
    <2>6. ~Quiet(c) /\ ~Quiet(c)'
      BY <1>2, <2>1, Zenon DEF Quiet
    <2>7. QED  BY <1>2, <2>1, <2>3, <2>4, <2>5, <2>6, TruncStep, Continues, Zenon
  <1>3. ASSUME SendTruncate(c) PROVE Inv'
    <2>1. /\ Advance(c) /\ DOMAIN op'[c] = Fields /\ op'[c].pc = "gather" /\ op'[c].err = op[c].err
          /\ op'[c].reqs = {CutAt(h, op[c].len) : h \in ToCut(c)}
      BY <1>1, <1>3, Zenon DEF SendTruncate, Advance, OpType, Fields
    <2>2. /\ op[c].kind = "truncate" /\ op[c].pc = "send" /\ Later
          /\ UNCHANGED <<place, store, msize, loose, nops, last, behind, cut>>
      BY <1>1, <1>3 DEF SendTruncate, Later
    <2>3. ToCut(c) \in SUBSET ToCut(c)
      BY Zenon
    <2>4. QED  BY <1>2, <2>1, <2>2, <2>3, Zenon
  <1>4. ASSUME PostTruncateFails(c) PROVE Inv'
    <2>1. PICK hosts \in SUBSET ToCut(c) :
             op' = [op EXCEPT ![c].pc = "gather", ![c].err = EIO,
                              ![c].reqs = {CutAt(h, op[c].len) : h \in hosts}]
      BY <1>4, Zenon DEF PostTruncateFails
    <2>2. /\ EIO # 0 /\ Later /\ op[c].kind = "truncate" /\ op[c].pc = "send"
          /\ UNCHANGED <<place, store, msize, loose, nops, last, behind, cut>>
      BY <1>1, <1>4 DEF EIO, PostTruncateFails, Fault, Later
    <2>3. /\ Advance(c) /\ DOMAIN op'[c] = Fields /\ op'[c].pc = "gather" /\ op'[c].err = EIO
          /\ op'[c].reqs = {CutAt(h, op[c].len) : h \in hosts}
      BY <1>1, <2>1, Zenon DEF Advance, OpType, Fields
    <2>4. QED  BY <1>2, <2>2, <2>3, Zenon
  <1>5. ASSUME GatherTruncate(c) PROVE Inv'
    <2> DEFINE err == IF RoundErrs(c) # {0} THEN EIO ELSE op[c].err
    <2>1. /\ Return(c, err, 0) /\ UNCHANGED <<loose, faults>> /\ op[c].kind = "truncate" /\ op[c].pc = "gather"
          /\ \A r \in op[c].reqs : r.todo = {}
      BY <1>5, Zenon DEF GatherTruncate, Finish, RoundOver
    <2>2. err = 0 => op[c].err = 0 /\ \A r \in op[c].reqs : r.err = 0
      <3>1. RoundErrs(c) = {0} => \A r \in op[c].reqs : r.err = 0
        BY RoundErrors, 0 \in {0}, Zenon
      <3>2. QED  BY <3>1 DEF EIO
    <2>3. ~Quiet(c) /\ ~Writing(c) /\ ~Latest(c) /\ Later
      BY <1>1, <2>1 DEF Quiet, Writing, Latest, Later
    <2> HIDE DEF err
    <2>4. (op[c].len = 0 /\ nops = op[c].id /\ cut = 1 /\ op[c].over = {} /\ err = 0) =>
               \A h \in Hosts : DOMAIN store[h] = {}
      BY <1>1, <2>1, <2>2, Zenon DEF CInv, Emptying
    <2>5. QED  BY <2>1, <2>3, <2>4, Returns, Zenon
  <1>6. QED  BY <1>3, <1>4, <1>5, Zenon

-----------------------------------------------------------------------------
(* Tasklets *)

(* A tasklet that truncates (ChunkTruncateOperation).                      *)
LEMMA CutTask ==
    ASSUME Inv, NEW c \in Clients, NEW r \in op[c].reqs, NEW p \in r.todo, TruncateTask(c, r, p)
    PROVE  Inv'
  <1> DEFINE h == r.in.host
             t == truncate_abt(h, r.in.length)
             r2 == [r EXCEPT !.todo = {}, !.err = t.err]
  <1>1. /\ DOMAIN op = Clients /\ CInv(c) /\ OpType(c) /\ faults \in Nat /\ InPlace /\ Files /\ Alone /\ LatestAlone
        /\ DOMAIN last = Offsets
    BY Zenon DEF Inv, GInv, Numbered, CInv, InPlace
  <1>2. /\ op[c].kind = "truncate" /\ op[c].pc = "gather" /\ ~Quiet(c)
        /\ UNCHANGED <<place, msize, loose, nops, faults, last, behind, cut>>
        /\ store' = [store EXCEPT ![h] = t.files]
    BY Zenon DEF TruncateTask, Quiet
  <1>3. /\ Advance(c) /\ DOMAIN op'[c] = Fields /\ op'[c].pc = "gather" /\ op'[c].err = op[c].err
        /\ op'[c].reqs = (op[c].reqs \ {r}) \cup {r2}
    BY <1>1, Zenon DEF TruncateTask, Advance, OpType, Fields
  <1>4. DOMAIN r = ReqType /\ h \in Hosts /\ r.in.length = op[c].len /\ op[c].len \in Nat
    BY <1>1, <1>2, Zenon DEF CInv, TruncReqs, OpType
  <1>5. DOMAIN r2 = ReqType /\ r2.in = r.in /\ r2.todo = {} /\ r2.err = t.err
    BY <1>4, Zenon DEF ReqType
  <1>6. Trimmed(h, op[c].len) /\ t = truncate_abt(h, op[c].len)
    BY <1>1, <1>2, <1>4, TruncateAt, Zenon
  <1> HIDE DEF t, r2
  <1>7. /\ cut # 0 /\ nops = op[c].id /\ \A d \in Clients : d # c => Quiet(d)
    BY <1>1, <1>2, ZenonT(30) DEF Alone
  <1>8. Later
    BY <1>1, <1>2 DEF Later
  <1>9. GInv'
    <2>1. InPlace'
      BY <1>1, <1>2, <1>6, SamePlace DEF InPlace, Trimmed
    <2>2. Sized' /\ LastOrRunning'
      BY <1>2, <1>7, Zenon DEF Sized, LastOrRunning
    <2>3. QED  BY <1>1, <1>2, <1>3, <1>8, <2>1, <2>2, Frame, ZenonT(30) DEF GInv
  <1>10. CInv(c)'
    <2>1. OpType(c)'
      BY <1>1, <1>2, <1>3, Zenon DEF OpType, Advance
    <2>2. TruncReqs(c)'
      <3>1. \A q \in op'[c].reqs : DOMAIN q = ReqType /\ q.in.host \in Hosts /\ q.in.length = op[c].len
        BY <1>1, <1>2, <1>3, <1>4, <1>5, Zenon DEF CInv, TruncReqs
      <3>2. QED  BY <1>3, <3>1, Zenon DEF TruncReqs, Advance
    <2>3. Emptying(c)'
      <3>1. SUFFICES ASSUME op[c].len = 0, nops = op[c].id, cut = 1, op[c].over = {}
                     PROVE  /\ op[c].err = 0 => \A g \in Hosts : \/ DOMAIN store'[g] = {}
                                                                 \/ \E q \in op'[c].reqs : q.in.host = g
                            /\ \A q \in op'[c].reqs : q.todo = {} /\ q.err = 0 => DOMAIN store'[q.in.host] = {}
        BY <1>2, <1>3, Zenon DEF Emptying, Advance
      <3>2. /\ op[c].err = 0 => \A g \in Hosts : \/ DOMAIN store[g] = {}
                                                 \/ \E q \in op[c].reqs : q.in.host = g
            /\ \A q \in op[c].reqs : q.todo = {} /\ q.err = 0 => DOMAIN store[q.in.host] = {}
        BY <1>1, <1>2, <3>1, Zenon DEF CInv, Emptying
      <3>3. \A g \in Hosts : DOMAIN store'[g] \subseteq DOMAIN store[g]
        BY <1>6, Zenon DEF Trimmed
      <3>4. \A g : (\E q \in op[c].reqs : q.in.host = g) => \E q \in op'[c].reqs : q.in.host = g
        BY <1>3, <1>5, Zenon
      <3>5. ASSUME NEW q \in op'[c].reqs, q.todo = {}, q.err = 0 PROVE DOMAIN store'[q.in.host] = {}
        <4>1. CASE q = r2
          BY <1>5, <1>6, <3>1, <3>5, <4>1, Zenon DEF Trimmed
        <4>2. CASE q \in op[c].reqs
          <5>1. q.in.host \in Hosts
            BY <1>1, <1>2, <4>2, Zenon DEF CInv, TruncReqs
          <5>2. QED  BY <3>2, <3>3, <3>5, <4>2, <5>1, Zenon
        <4>3. QED  BY <1>3, <3>5, <4>1, <4>2, Zenon
      <3>6. QED  BY <3>2, <3>3, <3>4, <3>5, Zenon
    <2>4. QED  BY <1>2, <1>3, <2>1, <2>2, <2>3, TruncStep, Zenon
  <1>11. ASSUME NEW d \in Clients, d # c PROVE CInv(d)'
    <2>1. op'[d] = op[d] /\ CInv(d) /\ Quiet(d)
      BY <1>3, <1>7, <1>11, ZenonT(30) DEF Advance, Inv
    <2>2. OpType(d)' /\ WriteReqs(d)' /\ TruncReqs(d)'
      <3>1. Reqs(d)' = Reqs(d)
        BY <1>2, <2>1, Zenon DEF Reqs
      <3>2. QED  BY <1>2, <2>1, <3>1, ZenonT(30) DEF CInv, OpType, WriteReqs, TruncReqs
    <2>3. ~(op[d].kind = "truncate" /\ nops = op[d].id) /\ ~Latest(d)
      BY <1>1, <1>2, <1>11, Zenon DEF Alone, LatestAlone
    <2>4. Emptying(d)' /\ Kept(d)' /\ Acked(d)'
      BY <1>2, <1>7, <2>1, <2>3, Zenon DEF Emptying, Kept, Acked, Latest
    <2>5. QED  BY <2>2, <2>4, Zenon DEF CInv
  <1>12. QED  BY <1>9, <1>10, <1>11, Zenon DEF Inv

(* What holds of the chunk files after a piece of a write is stored.       *)
LEMMA StoredPiece ==
    ASSUME Inv, NEW h \in Hosts, NEW id, NEW off \in Nat, NEW len \in Nat \ {0}, NEW p, Fits(off, len, p),
           h \in Holders(p.chunk), cut = 0 => off + len <= msize, Wrote(h, id, p), UNCHANGED <<place, msize, cut>>
    PROVE  /\ InPlace'
           /\ cut' = 0 => /\ \A g \in Hosts : \A k \in DOMAIN store'[g] : k * ChunkSize < msize'
                          /\ \A g \in Hosts, at \in Nat : At(g, at)' # Hole => at < msize'
           /\ \A at \in Offsets : Stored(at)' = Stored(at) \/ (Stored(at)' = id /\ InPiece(p, at))
  <1>1. InPlace /\ Sized /\ msize \in Nat /\ place \in [ChunkIds -> Hosts]
    BY Zenon DEF Inv, GInv, Numbered
  <1>2. \A g \in Hosts, at \in Nat :
           At(g, at)' = At(g, at) \/ (InPiece(p, at) /\ At(g, at)' = [by |-> id, at |-> at])
    BY Zenon DEF Wrote
  <1>3. p.chunk * ChunkSize < off + len
    <2> DEFINE m == p.chunk * ChunkSize
    <2>1. /\ p.chunk \in Nat /\ p.off \in 0 .. ChunkSize - 1 /\ m \in Nat
      BY LayoutAssumption, SMTT(30) DEF Fits
    <2>2. block_index(m + p.off) = p.chunk /\ block_overrun(m + p.off) = p.off
      BY <2>1, Unique, Zenon
    <2> HIDE DEF m
    <2>3. m + p.off \in Nat /\ p.off < p.off + p.size
      BY <2>1 DEF Fits
    <2>4. InPiece(p, m + p.off)
      BY <2>1, <2>2, <2>3 DEF InPiece
    <2>5. m + p.off < off + len
      BY <2>3, <2>4, Zenon DEF Fits
    <2>6. QED  BY <2>1, <2>5 DEF m
  <1>4. InPlace'
    <2>1. Files' /\ \A g \in Hosts : \A k \in DOMAIN store'[g] : k \in DOMAIN store[g] \/ (g = h /\ k = p.chunk)
      BY Zenon DEF Wrote
    <2>2. \A g \in Hosts, at \in Nat : At(g, at)' = Hole \/ At(g, at)'.at = at
      <3>1. \A g \in Hosts, at \in Nat : At(g, at) = Hole \/ At(g, at).at = at
        BY <1>1, Zenon DEF InPlace
      <3>2. \A at : [by |-> id, at |-> at].at = at
        BY Zenon
      <3>3. ASSUME NEW g \in Hosts, NEW at \in Nat PROVE At(g, at)' = Hole \/ At(g, at)'.at = at
        <4>1. CASE At(g, at)' = At(g, at)
          BY <3>1, <4>1, Zenon
        <4>2. CASE At(g, at)' = [by |-> id, at |-> at]
          BY <3>2, <4>2, ZenonT(30)
        <4>3. QED  BY <1>2, <4>1, <4>2, Zenon
      <3>4. QED  BY <3>3, Zenon
    <2>3. \A g \in Hosts : \A k \in DOMAIN store'[g] : g \in Holders(k)'
      BY <1>1, <2>1, SamePlace DEF InPlace
    <2>4. QED  BY <2>1, <2>2, <2>3, Zenon DEF InPlace
  <1>5. ASSUME cut = 0, NEW g \in Hosts, NEW k \in DOMAIN store'[g] PROVE k * ChunkSize < msize
    <2>1. CASE k \in DOMAIN store[g]
      BY <1>1, <1>5, <2>1, Zenon DEF Sized
    <2>2. CASE k = p.chunk
      <3> DEFINE m == p.chunk * ChunkSize
      <3>1. m \in Nat
        BY LayoutAssumption, SMTT(30) DEF Fits
      <3>2. m < off + len /\ off + len <= msize
        BY <1>3, <1>5, Zenon
      <3> HIDE DEF m
      <3>3. m < msize
        BY <1>1, <3>1, <3>2
      <3>4. QED  BY <2>2, <3>3, Zenon DEF m
    <2>3. QED  BY <1>5, <2>1, <2>2, Zenon DEF Wrote
  <1>6. ASSUME cut = 0, NEW g \in Hosts, NEW at \in Nat, At(g, at)' # Hole PROVE at < msize
    <2>1. CASE At(g, at)' = At(g, at)
      BY <1>1, <1>6, <2>1, Zenon DEF Sized
    <2>2. CASE InPiece(p, at)
      <3>1. at < off + len
        BY <2>2, Zenon DEF Fits
      <3>2. QED  BY <1>1, <1>6, <3>1
    <2>3. QED  BY <1>2, <2>1, <2>2, Zenon
  <1>7. ASSUME NEW at \in Offsets PROVE Stored(at)' = Stored(at) \/ (Stored(at)' = id /\ InPiece(p, at))
    <2>1. Primary(at)' = Primary(at) /\ Primary(at) \in Hosts /\ at \in Nat
      BY <1>1, Bounds, SamePlace, PrimaryHost, Zenon
    <2>2. QED  BY <1>2, <2>1 DEF Stored
  <1>8. QED  BY <1>4, <1>5, <1>6, <1>7, Zenon

(* An operation that sees a piece of another write stored.                 *)
LEMMA WrittenOver ==
    ASSUME Inv, NEW d \in Clients, op'[d] = op[d], UNCHANGED <<place, msize, nops, cut, faults>>,
           NEW h \in Hosts, NEW id, NEW off \in Nat, NEW len \in Nat \ {0}, NEW p, Fits(off, len, p),
           h \in Holders(p.chunk), cut = 0 => off + len <= msize, Wrote(h, id, p),
           Writing(d) => id \in op[d].over \cup {op[d].id}, Latest(d) => id = op[d].id,
           ~(op[d].kind = "truncate" /\ nops = op[d].id /\ op[d].over = {})
    PROVE  CInv(d)'
  <1>1. CInv(d)
    BY Zenon DEF Inv
  <1>2. OpType(d)'
    BY <1>1, Zenon DEF CInv, OpType
  <1>3. Reqs(d)' = Reqs(d) /\ (Writing(d)' <=> Writing(d)) /\ (Latest(d)' <=> Latest(d))
    BY Zenon DEF Reqs, Writing, Quiet, Latest
  <1>4. WriteReqs(d)'
    BY <1>1, <1>3, Zenon DEF CInv, WriteReqs
  <1>5. TruncReqs(d)' /\ Emptying(d)'
    BY <1>1, ZenonT(30) DEF CInv, TruncReqs, Emptying
  <1>6. Kept(d)'
    <2>1. \A at \in Offsets : Stored(at)' = Stored(at) \/ Stored(at)' = id
      BY StoredPiece, Zenon
    <2>2. QED  BY <1>1, <1>3, <2>1, SamePlace, Zenon DEF CInv, Kept, Covers, Done, Missed
  <1>7. Acked(d)'
    <2>1. \A g \in Hosts, at \in Nat : At(g, at)' = At(g, at) \/ At(g, at)'.by = id
      <3>1. \A g \in Hosts, at \in Nat : At(g, at)' = At(g, at) \/ At(g, at)' = [by |-> id, at |-> at]
        BY Zenon DEF Wrote
      <3>2. \A at : [by |-> id, at |-> at].by = id
        BY Zenon
      <3>3. QED  BY <3>1, <3>2, Zenon
    <2>2. SUFFICES ASSUME PostedOnce, Latest(d), NEW at \in Nat, Covers(op[d], at)
                   PROVE  /\ \A r \in op[d].reqs : r.err = 0 /\ block_index(at) \in r.in.bitset /\ Done(d, r, at)
                                => At(r.in.host, at)'.by = op[d].id
                          /\ op[d].pc \in {"copies", "gather2", "done"} /\ op[d].err = 0
                                => \E g \in Holders(block_index(at)) : At(g, at)'.by = op[d].id
      BY <1>3, SamePlace, Zenon DEF Acked, Covers, Done
    <2>3. /\ \A r \in op[d].reqs : r.err = 0 /\ block_index(at) \in r.in.bitset /\ Done(d, r, at)
                => At(r.in.host, at).by = op[d].id
          /\ op[d].pc \in {"copies", "gather2", "done"} /\ op[d].err = 0
                => \E g \in Holders(block_index(at)) : At(g, at).by = op[d].id
      BY <1>1, <2>2, Zenon DEF CInv, Acked
    <2>4. \A r \in op[d].reqs : r.in.host \in Hosts
      BY <2>2, Requested, Zenon DEF Latest
    <2>5. Holders(block_index(at)) \subseteq Hosts
      BY <2>2, HeldOnHosts, Zenon DEF Latest
    <2>6. QED  BY <2>1, <2>2, <2>3, <2>4, <2>5, Zenon
  <1>8. QED  BY <1>2, <1>4, <1>5, <1>6, <1>7, Zenon DEF CInv

(* A tasklet that writes a piece (ChunkWriteOperation).                    *)
LEMMA StoreTask ==
    ASSUME Inv, NEW c \in Clients, NEW r \in op[c].reqs, NEW p \in r.todo, WriteTask(c, r, p)
    PROVE  Inv'
  <1> DEFINE h == r.in.host
             id == op[c].id
             off == op[c].off
             len == op[c].len
             r2 == [r EXCEPT !.todo = @ \ {p}, !.moved = @ + p.size]
  <1>1. /\ DOMAIN op = Clients /\ CInv(c) /\ OpType(c) /\ faults \in Nat /\ InPlace /\ Files /\ Alone /\ LatestAlone
        /\ DOMAIN last = Offsets /\ Sized /\ Overlaps /\ LastOrRunning
    BY Zenon DEF Inv, GInv, Numbered, CInv, InPlace
  <1>2. /\ op[c].kind = "write" /\ op[c].pc \in {"gather", "gather2"} /\ ~Quiet(c) /\ Writing(c)
        /\ UNCHANGED <<place, msize, loose, nops, faults, last, behind, cut>>
        /\ write_chunk(h, p.chunk, p.off, Bytes(id, off, p))
    BY Zenon DEF WriteTask, Quiet, Writing
  <1>3. /\ Advance(c) /\ DOMAIN op'[c] = Fields /\ op'[c].pc = op[c].pc /\ op'[c].err = op[c].err
        /\ op'[c].missed = op[c].missed /\ op'[c].reqs = (op[c].reqs \ {r}) \cup {r2}
    BY <1>1, Zenon DEF WriteTask, Progress, Advance, OpType, Fields
  <1>4. /\ off \in Nat /\ len \in Nat \ {0} /\ DOMAIN r = ReqType /\ h \in Hosts
        /\ r.in \in Reqs(c) /\ r.todo \subseteq Pieces(r.in)
        /\ Fits(off, len, p) /\ p.chunk \in r.in.bitset /\ h \in Holders(p.chunk)
    BY <1>2, Requested, Zenon
  <1>5. DOMAIN r2 = ReqType /\ r2.in = r.in /\ r2.todo = r.todo \ {p} /\ r2.err = r.err
    BY <1>4, Zenon DEF ReqType
  <1>6. Wrote(h, id, p)
    BY <1>1, <1>2, <1>4, WriteAt, Zenon
  <1> HIDE DEF r2
  <1>7. cut = 0 => off + len <= msize
    BY <1>1, <1>2, Zenon DEF Sized
  <1>8. Later
    BY <1>1, <1>2 DEF Later
  <1>9. \A at \in Nat : InPiece(p, at) <=> block_index(at) = p.chunk /\ Covers(op[c], at)
    BY <1>4, Zenon DEF Fits, Covers
  <1>10. /\ InPlace'
         /\ cut' = 0 => /\ \A g \in Hosts : \A k \in DOMAIN store'[g] : k * ChunkSize < msize'
                        /\ \A g \in Hosts, at \in Nat : At(g, at)' # Hole => at < msize'
         /\ \A at \in Offsets : Stored(at)' = Stored(at) \/ (Stored(at)' = id /\ InPiece(p, at))
    BY <1>2, <1>4, <1>6, <1>7, StoredPiece, ZenonT(30)
  <1> HIDE DEF h, id, off, len
  <1>11. GInv'
    <2>1. Sized'
      BY <1>1, <1>2, <1>3, <1>8, <1>10, Frame, ZenonT(30) DEF Sized
    <2>2. LastOrRunning'
      <3>1. \A d \in Clients, at \in Offsets :
               (Writing(d) /\ Covers(op[d], at) <=> (Writing(d) /\ Covers(op[d], at))') /\ op'[d].id = op[d].id
        BY <1>3, ZenonT(30) DEF Advance, Writing, Quiet, Covers
      <3>2. \A at \in Offsets : Covering(at)' = Covering(at)
        BY <3>1, Zenon DEF Covering
      <3>3. \A at \in Offsets : InPiece(p, at) => id \in Covering(at)
        BY <1>2, <1>9, Bounds, Zenon DEF Covering, id
      <3>4. QED  BY <1>1, <1>2, <1>10, <3>2, <3>3, SamePlace, ZenonT(30) DEF LastOrRunning
    <2>3. QED  BY <1>1, <1>2, <1>3, <1>8, <1>10, <2>1, <2>2, Frame, Zenon DEF GInv
  <1>12. CInv(c)'
    <2>1. OpType(c)'
      BY <1>1, <1>2, <1>3, ZenonT(30) DEF OpType, Advance
    <2>2. WriteReqs(c)'
      <3>1. Reqs(c)' = Reqs(c)
        BY <1>2, <1>3, Zenon DEF Reqs, Advance
      <3>2. \A q \in op'[c].reqs : DOMAIN q = ReqType /\ q.in \in Reqs(c) /\ q.todo \subseteq Pieces(q.in)
        BY <1>1, <1>2, <1>3, <1>4, <1>5, Zenon DEF CInv, WriteReqs
      <3>3. \A in : (\E q \in op[c].reqs : q.in = in) => \E q \in op'[c].reqs : q.in = in
        BY <1>3, <1>5, Zenon
      <3>4. (\E q \in op'[c].reqs : q.err # 0) => \E q \in op[c].reqs : q.err # 0
        BY <1>3, <1>5, Zenon
      <3>5. QED  BY <1>1, <1>2, <1>3, <3>1, <3>2, <3>3, <3>4, Zenon DEF CInv, WriteReqs, Advance
    <2>3. TruncReqs(c)' /\ Emptying(c)'
      BY <1>2, <1>3, Zenon DEF TruncReqs, Emptying, Advance
    <2>4. ASSUME NEW q \in op'[c].reqs, NEW at \in Nat, Covers(op[c], at), Done(c, q, at)
          PROVE  \/ q \in op[c].reqs /\ q # r
                 \/ q = r2 /\ (Done(c, r, at) \/ InPiece(p, at))
      BY <1>3, <1>5, <1>9, <2>4, Zenon DEF Done
    <2>5. Kept(c)'
      <3>1. SUFFICES ASSUME cut = 0, NEW at \in Offsets, Covers(op[c], at), ~Missed(c, at)
                     PROVE  /\ op[c].pc = "gather" =>
                                 \A q \in op'[c].reqs : q.in.host = Primary(at) /\ Done(c, q, at)
                                    => Stored(at)' \in op[c].over \cup {op[c].id}
                            /\ op[c].pc \in {"copies", "gather2"} => Stored(at)' \in op[c].over \cup {op[c].id}
        BY <1>2, <1>3, SamePlace, Zenon DEF Kept, Covers, Advance, Done, Missed
      <3>2. /\ op[c].pc = "gather" =>
                  \A q \in op[c].reqs : q.in.host = Primary(at) /\ Done(c, q, at)
                     => Stored(at) \in op[c].over \cup {op[c].id}
            /\ op[c].pc \in {"copies", "gather2"} => Stored(at) \in op[c].over \cup {op[c].id}
        BY <1>1, <1>2, <3>1, Zenon DEF CInv, Kept
      <3>3. Stored(at)' = Stored(at) \/ Stored(at)' = op[c].id
        BY <1>10, Zenon DEF id
      <3>4. ASSUME NEW q \in op'[c].reqs, q.in.host = Primary(at), Done(c, q, at), op[c].pc = "gather"
            PROVE  Stored(at)' \in op[c].over \cup {op[c].id}
        <4>1. at \in Nat
          BY Bounds, Zenon
        <4>2. CASE InPiece(p, at) /\ q = r2
          <5>1. Primary(at) \in Hosts /\ Primary(at)' = Primary(at) /\ h = Primary(at)
            BY <1>5, <3>4, <4>2, PrimaryHost, SamePlace, <1>2, Zenon DEF Inv, GInv, Numbered, h
          <5>2. At(h, at)' = [by |-> id, at |-> at]
            BY <1>4, <1>6, <4>1, <4>2, Zenon DEF Wrote
          <5>3. QED  BY <5>1, <5>2 DEF Stored, id
        <4>3. CASE q \in op[c].reqs /\ q # r
          BY <3>2, <3>3, <3>4, <4>3, Zenon
        <4>4. CASE q = r2 /\ Done(c, r, at)
          BY <1>5, <3>2, <3>3, <3>4, <4>4, Zenon
        <4>5. QED  BY <2>4, <3>1, <3>4, <4>1, <4>2, <4>3, <4>4, Zenon
      <3>5. QED  BY <3>2, <3>3, <3>4, Zenon
    <2>6. Acked(c)'
      <3>1. SUFFICES ASSUME PostedOnce, Latest(c), NEW at \in Nat, Covers(op[c], at)
                     PROVE  /\ \A q \in op'[c].reqs : q.err = 0 /\ block_index(at) \in q.in.bitset /\ Done(c, q, at)
                                  => At(q.in.host, at)'.by = op[c].id
                            /\ op[c].pc \in {"copies", "gather2", "done"} /\ op[c].err = 0
                                  => \E g \in Holders(block_index(at)) : At(g, at)'.by = op[c].id
        <4>1. /\ (Latest(c)' <=> Latest(c)) /\ \A at : Covers(op[c], at)' <=> Covers(op[c], at)
              /\ op'[c].pc = op[c].pc /\ op'[c].err = op[c].err /\ op'[c].id = op[c].id
          BY <1>2, <1>3, Zenon DEF Latest, Covers, Advance
        <4>2. \A q, at : Done(c, q, at)' <=> Done(c, q, at)
          BY Zenon DEF Done
        <4>3. \A k : Holders(k)' = Holders(k)
          BY <1>2, SamePlace, Zenon
        <4>4. QED  BY <4>1, <4>2, <4>3, Zenon DEF Acked
      <3>2. /\ \A q \in op[c].reqs : q.err = 0 /\ block_index(at) \in q.in.bitset /\ Done(c, q, at)
                  => At(q.in.host, at).by = op[c].id
            /\ op[c].pc \in {"copies", "gather2", "done"} /\ op[c].err = 0
                  => \E g \in Holders(block_index(at)) : At(g, at).by = op[c].id
        BY <1>1, <3>1, ZenonT(30) DEF CInv, Acked
      <3>3. \A g \in Hosts : At(g, at)' = At(g, at) \/ At(g, at)'.by = op[c].id
        <4>1. \A g \in Hosts : At(g, at)' = At(g, at) \/ At(g, at)' = [by |-> id, at |-> at]
          BY <1>6, <3>1, Zenon DEF Wrote
        <4>2. [by |-> id, at |-> at].by = op[c].id
          BY Zenon DEF id
        <4>3. QED  BY <4>1, <4>2, Zenon
      <3>4. \A q \in op[c].reqs : q.in.host \in Hosts
        BY <1>2, Requested, Zenon
      <3>5. Holders(block_index(at)) \subseteq Hosts
        BY <1>2, <3>1, HeldOnHosts, Zenon
      <3>6. ASSUME NEW q \in op'[c].reqs, q.err = 0, block_index(at) \in q.in.bitset, Done(c, q, at)
            PROVE  At(q.in.host, at)'.by = op[c].id
        <4>1. CASE InPiece(p, at) /\ q = r2
          <5>1. At(h, at)' = [by |-> id, at |-> at]
            BY <1>4, <1>6, <4>1, ZenonT(30) DEF Wrote
          <5>2. At(h, at)'.by = id
            BY <5>1
          <5>3. QED  BY <1>5, <4>1, <5>2, Zenon DEF h, id
        <4>2. CASE q \in op[c].reqs /\ q # r
          BY <3>2, <3>3, <3>4, <3>6, <4>2
        <4>3. CASE q = r2 /\ Done(c, r, at)
          BY <1>5, <3>2, <3>3, <3>4, <3>6, <4>3, Zenon
        <4>4. QED  BY <2>4, <3>1, <3>6, <4>1, <4>2, <4>3, Zenon
      <3>7. QED  BY <3>2, <3>3, <3>5, <3>6, ZenonT(30)
    <2>7. QED  BY <2>1, <2>2, <2>3, <2>5, <2>6, Zenon DEF CInv
  <1>13. ASSUME NEW d \in Clients, d # c PROVE CInv(d)'
    <2>1. op'[d] = op[d]
      BY <1>3, <1>13, Zenon DEF Advance
    <2>2. Writing(d) => id \in op[d].over
      BY <1>1, <1>2, <1>13, Zenon DEF Overlaps, id
    <2>3. ~(op[d].kind = "truncate" /\ nops = op[d].id) /\ ~Latest(d)
      BY <1>1, <1>2, <1>13, Zenon DEF Alone, LatestAlone
    <2>4. QED  BY <1>2, <1>4, <1>6, <1>7, <2>1, <2>2, <2>3, WrittenOver, Zenon
  <1>14. QED  BY <1>11, <1>12, <1>13, Zenon DEF Inv

(* The pieces of a write whose call has returned.                          *)
LEMMA LooseFrame ==
    ASSUME Inv, UNCHANGED <<place, msize, op, nops, faults, last, behind, cut>>,
           \A m \in loose' : /\ DOMAIN m = {"id", "off", "host", "todo"}
                             /\ \E l \in loose : /\ m.id = l.id /\ m.off = l.off /\ m.host = l.host
                                                 /\ m.todo \subseteq l.todo
    PROVE  /\ Numbered' /\ LooseInv' /\ Alone' /\ Overlaps' /\ LatestAlone'
           /\ cut' = 0 => \A l \in loose' : \A p \in l.todo : \A at \in Offsets :
                             InPiece(p, at) => l.id \in last'[at] \cup Covering(at)'
           /\ \A at \in Offsets : Covering(at)' = Covering(at)
  <1>1. \A d \in Clients : (Writing(d)' <=> Writing(d)) /\ (Latest(d)' <=> Latest(d)) /\ (Quiet(d)' <=> Quiet(d))
    BY Zenon DEF Writing, Latest, Quiet
  <1>2. Numbered'
    BY SamePlace, Zenon DEF Inv, GInv, Numbered
  <1>3. LooseInv'
    <2>1. SUFFICES ASSUME NEW m \in loose'
                   PROVE  m.id \in Nat /\ m.id <= nops /\ \E r \in Ranges : LooseFrom(m, r)'
      BY Zenon DEF LooseInv
    <2>2. PICK l \in loose : m.id = l.id /\ m.off = l.off /\ m.host = l.host /\ m.todo \subseteq l.todo
      BY <2>1, Zenon
    <2>3. PICK r \in Ranges : LooseFrom(l, r)
      BY Zenon DEF Inv, GInv, LooseInv
    <2>4. LooseFrom(m, r)'
      BY <2>2, <2>3, Zenon DEF LooseFrom
    <2>5. l.id \in Nat /\ l.id <= nops
      BY Zenon DEF Inv, GInv, LooseInv
    <2>6. QED  BY <2>2, <2>4, <2>5, Zenon
  <1>4. Alone'
    BY <1>1, Zenon DEF Inv, GInv, Alone
  <1>5. Overlaps' /\ LatestAlone'
    <2>1. Overlaps'
      BY <1>1, Zenon DEF Inv, GInv, Overlaps
    <2>2. LatestAlone'
      <3>1. LatestAlone
        BY Zenon DEF Inv, GInv
      <3>2. ASSUME NEW d \in Clients, Latest(d)'
            PROVE  /\ \A e \in Clients : e # d => ~Writing(e)' /\ (op'[e].kind = "truncate" => Quiet(e)')
                   /\ \A m \in loose' : m.id = op'[d].id
        <4>1. Latest(d) /\ op'[d].id = op[d].id
          BY <1>1, <3>2, Zenon
        <4>2. \A e \in Clients : e # d => ~Writing(e) /\ (op[e].kind = "truncate" => Quiet(e))
          BY <3>1, <4>1, Zenon DEF LatestAlone
        <4>3. \A l \in loose : l.id = op[d].id
          BY <3>1, <4>1, Zenon DEF LatestAlone
        <4>4. \A e \in Clients : e # d => ~Writing(e)' /\ (op'[e].kind = "truncate" => Quiet(e)')
          BY <1>1, <4>2, Zenon
        <4>5. QED  BY <4>1, <4>3, <4>4, Zenon
      <3>3. QED  BY <3>2, Zenon DEF LatestAlone
    <2>3. QED  BY <2>1, <2>2, Zenon
  <1>6. \A at \in Offsets : Covering(at)' = Covering(at)
    BY <1>1, Zenon DEF Covering
  <1>7. ASSUME cut = 0, NEW m \in loose', NEW p \in m.todo, NEW at \in Offsets, InPiece(p, at)
        PROVE  m.id \in last[at] \cup Covering(at)
    BY <1>7, Zenon DEF Inv, GInv, LastOrRunning
  <1>8. QED  BY <1>2, <1>3, <1>4, <1>5, <1>6, <1>7, Zenon

(* A stuttering step.                                                      *)
LEMMA Unchanged ==
    ASSUME Inv, UNCHANGED <<place, store, msize, op, nops, faults, last, behind, cut>>, loose' \subseteq loose
    PROVE  Inv'
  <1>1. Numbered /\ InPlace /\ Sized /\ LooseInv /\ Alone /\ Overlaps /\ LatestAlone /\ LastOrRunning
    BY Zenon DEF Inv, GInv
  <1>2. \A m \in loose : DOMAIN m = {"id", "off", "host", "todo"}
    BY <1>1, Zenon DEF LooseInv
  <1>3. /\ Numbered' /\ LooseInv' /\ Alone' /\ Overlaps' /\ LatestAlone'
        /\ cut' = 0 => \A m \in loose' : \A p \in m.todo : \A at \in Offsets :
                          InPiece(p, at) => m.id \in last'[at] \cup Covering(at)'
        /\ \A at \in Offsets : Covering(at)' = Covering(at)
    BY <1>2, LooseFrame, Zenon
  <1>4. InPlace' /\ Sized'
    BY <1>1, SamePlace, SameBytes, Zenon DEF InPlace, Sized, Writing, Quiet
  <1>5. LastOrRunning'
    BY <1>1, <1>3, SamePlace, SameBytes, Zenon DEF LastOrRunning
  <1>6. GInv'
    BY <1>3, <1>4, <1>5, Zenon DEF GInv
  <1>7. ASSUME NEW c \in Clients PROVE CInv(c)'
    <2>1. CInv(c) /\ Reqs(c)' = Reqs(c) /\ (Writing(c)' <=> Writing(c)) /\ (Latest(c)' <=> Latest(c))
      BY ZenonT(30) DEF Reqs, Writing, Quiet, Latest, Inv
    <2>2. OpType(c)' /\ WriteReqs(c)' /\ TruncReqs(c)' /\ Emptying(c)'
      <3>1. OpType(c)'
        BY <2>1, Zenon DEF CInv, OpType
      <3>2. WriteReqs(c)'
        BY <2>1, Zenon DEF CInv, WriteReqs
      <3>3. TruncReqs(c)'
        BY <2>1, Zenon DEF CInv, TruncReqs
      <3>4. Emptying(c)'
        BY <2>1, Zenon DEF CInv, Emptying
      <3>5. QED  BY <3>1, <3>2, <3>3, <3>4, Zenon
    <2>3. Kept(c)'
      BY <2>1, SamePlace, SameBytes, Zenon DEF CInv, Kept, Covers, Done, Missed
    <2>4. Acked(c)'
      <3>1. op'[c] = op[c] /\ (\A at : Covers(op[c], at)' <=> Covers(op[c], at))
        BY Zenon DEF Covers
      <3>2. \A r, at : Done(c, r, at)' <=> Done(c, r, at)
        BY Zenon DEF Done
      <3>3. Acked(c)
        BY <2>1, Zenon DEF CInv
      <3>4. /\ \A k : Holders(k)' = Holders(k)
            /\ \A h, at : At(h, at)' = At(h, at)
        BY SamePlace, SameBytes, Zenon
      <3>5. QED  BY <2>1, <3>1, <3>2, <3>3, <3>4, Zenon DEF Acked
    <2>5. QED  BY <2>2, <2>3, <2>4, Zenon DEF CInv
  <1>8. QED  BY <1>6, <1>7, Zenon DEF Inv

(* The tasklets of requests that a failed write left behind.               *)
LEMMA LooseTasks ==
    ASSUME Inv, NEW l \in loose
    PROVE  /\ LooseEnds(l) => Inv'
           /\ \A p \in l.todo : LooseTask(l, p) => Inv'
  <1>1. Numbered /\ InPlace /\ Sized /\ LooseInv /\ Alone /\ Overlaps /\ LatestAlone /\ LastOrRunning
    BY Zenon DEF Inv, GInv
  <1>2. DOMAIN l = {"id", "off", "host", "todo"} /\ \A m \in loose : DOMAIN m = {"id", "off", "host", "todo"}
    BY <1>1, Zenon DEF LooseInv
  <1>3. ASSUME LooseEnds(l) PROVE Inv'
    <2>1. UNCHANGED <<place, store, msize, op, nops, faults, last, behind, cut>> /\ loose' \subseteq loose
      BY <1>3, Zenon DEF LooseEnds
    <2>2. QED  BY <2>1, Unchanged, Zenon
  <1>4. ASSUME NEW p \in l.todo, LooseTask(l, p) PROVE Inv'
    <2> DEFINE l2 == [l EXCEPT !.todo = @ \ {p}]
    <2>1. /\ UNCHANGED <<place, msize, op, nops, faults, last, behind, cut>>
          /\ write_chunk(l.host, p.chunk, p.off, Bytes(l.id, l.off, p))
          /\ loose' = (loose \ {l}) \cup (IF l.todo = {p} THEN {} ELSE {l2})
      BY <1>4, Zenon DEF LooseTask
    <2>2. /\ DOMAIN l2 = {"id", "off", "host", "todo"} /\ l2.id = l.id /\ l2.off = l.off /\ l2.host = l.host
          /\ l2.todo \subseteq l.todo
      BY <1>2, Zenon
    <2> HIDE DEF l2
    <2>3. \A m \in loose' : /\ DOMAIN m = {"id", "off", "host", "todo"}
                            /\ \E k \in loose : /\ m.id = k.id /\ m.off = k.off /\ m.host = k.host
                                                /\ m.todo \subseteq k.todo
      BY <1>2, <2>1, <2>2, Zenon
    <2>4. /\ Numbered' /\ LooseInv' /\ Alone' /\ Overlaps' /\ LatestAlone'
          /\ cut' = 0 => \A m \in loose' : \A q \in m.todo : \A at \in Offsets :
                            InPiece(q, at) => m.id \in last'[at] \cup Covering(at)'
          /\ \A at \in Offsets : Covering(at)' = Covering(at)
      BY <2>1, <2>3, LooseFrame, Zenon
    <2>5. PICK r \in Ranges : LooseFrom(l, r)
      BY <1>1, Zenon DEF LooseInv
    <2>6. PICK in \in ForwardWrite(place, r[1], r[2], 0) : in.host = l.host /\ l.todo \subseteq Pieces(in)
      BY <2>5, Zenon DEF LooseFrom
    <2> DEFINE off == r[1]
               len == r[2]
    <2>7. <<off, len>> \in Ranges /\ l.off = off /\ (cut = 0 => off + len <= msize)
      BY <2>5, DataAssumption DEF LooseFrom
    <2>8. in \in ForwardWrite(place, off, len, 0) /\ p \in Pieces(in) /\ Sending
      BY <1>1, <1>4, <2>6, Zenon DEF Numbered
    <2> HIDE DEF off, len
    <2>9. off \in Nat /\ len \in Nat \ {0} /\ Fits(off, len, p) /\ in.host \in Hosts /\ in.host \in Holders(p.chunk)
      BY <2>7, <2>8, Sends, 0 \in {0, Replicas}, Zenon
    <2>10. Wrote(l.host, l.id, p) /\ l.host \in Hosts /\ l.host \in Holders(p.chunk)
      BY <1>1, <2>1, <2>6, <2>7, <2>9, WriteAt, Zenon DEF InPlace
    <2>11. /\ InPlace'
           /\ cut' = 0 => /\ \A g \in Hosts : \A k \in DOMAIN store'[g] : k * ChunkSize < msize'
                          /\ \A g \in Hosts, at \in Nat : At(g, at)' # Hole => at < msize'
           /\ \A at \in Offsets : Stored(at)' = Stored(at) \/ (Stored(at)' = l.id /\ InPiece(p, at))
      BY <2>1, <2>7, <2>9, <2>10, StoredPiece, Zenon
    <2>12. Sized'
      BY <1>1, <2>1, <2>11, Zenon DEF Sized, Writing, Quiet
    <2>13. LastOrRunning'
      <3>1. cut = 0 => \A at \in Offsets : InPiece(p, at) => l.id \in last[at] \cup Covering(at)
        BY <1>1, <1>4, Zenon DEF LastOrRunning
      <3>2. QED  BY <1>1, <2>1, <2>4, <2>11, <3>1, SamePlace, Zenon DEF LastOrRunning
    <2>14. GInv'
      BY <2>4, <2>11, <2>12, <2>13, Zenon DEF GInv
    <2>15. ASSUME NEW c \in Clients PROVE CInv(c)'
      <3>1. op'[c] = op[c] /\ (Writing(c) => l.id \in op[c].over \cup {op[c].id}) /\ (Latest(c) => l.id = op[c].id)
        BY <1>1, <2>1, Zenon DEF Overlaps, LatestAlone
      <3>2. ~(op[c].kind = "truncate" /\ nops = op[c].id /\ op[c].over = {})
        BY <1>1, Zenon DEF Alone
      <3>3. QED  BY <2>1, <2>7, <2>9, <2>10, <3>1, <3>2, WrittenOver, Zenon
    <2>16. QED  BY <2>14, <2>15, Zenon DEF Inv
  <1>5. QED  BY <1>3, <1>4, Zenon
-----------------------------------------------------------------------------
(* What the invariant holds at first, and what it says *)

(* An empty file, with idle clients, satisfies the invariant, if the       *)
(* requests of a write are as Sending says.                                *)
LEMMA InitiallyKept ==
    ASSUME Init, Sending
    PROVE  Inv
  <1>1. Init /\ Sending
    OBVIOUS
  <1>2. /\ DOMAIN store = Hosts /\ \A h \in Hosts : DOMAIN store[h] = {}
    BY <1>1 DEF Init
  <1>3. \A h \in Hosts, at \in Nat : At(h, at) = Hole
    BY <1>2, Zenon DEF At
  <1>4. \A c \in Clients : /\ op[c] = Idle /\ Quiet(c) /\ ~Writing(c) /\ ~Latest(c)
    BY <1>1 DEF Init, Idle, Quiet, Writing, Latest
  <1>5. DOMAIN Idle = Fields /\ Idle.id = 0 /\ Idle.kind = "idle" /\ Idle.pc = "idle" /\ Idle.reqs = {}
    BY DEF Idle, Fields
  <1>6. Numbered
    BY <1>1, Bounds DEF Init, Numbered
  <1>7. InPlace /\ Sized
    BY <1>2, <1>3, <1>4, Zenon DEF InPlace, Files, Sized
  <1>8. LooseInv /\ Alone /\ Overlaps /\ LatestAlone
    BY <1>1, <1>4, <1>5, Zenon DEF Init, LooseInv, Alone, Overlaps, LatestAlone
  <1>9. LastOrRunning
    <2>1. ASSUME NEW at \in Offsets PROVE Stored(at) \in last[at]
      <3>1. At(Primary(at), at) = Hole /\ last[at] = {0}
        BY <1>1, <1>3, <2>1, Bounds, PrimaryHost, Zenon DEF Init
      <3>2. QED  BY <3>1 DEF Stored, Hole
    <2>2. loose = {}
      BY <1>1 DEF Init
    <2>3. QED  BY <2>1, <2>2, Zenon DEF LastOrRunning
  <1>10. ASSUME NEW c \in Clients PROVE CInv(c)
    <2>1. nops = 0
      BY <1>1, Zenon DEF Init
    <2>2. OpType(c)
      BY <1>4, <1>5, <2>1 DEF OpType
    <2>3. QED  BY <1>4, <1>5, <2>2, ZenonT(30) DEF CInv, WriteReqs, TruncReqs, Emptying, Kept, Acked
  <1>11. QED  BY <1>6, <1>7, <1>8, <1>9, <1>10, Zenon DEF Inv, GInv

(* A byte of a chunk file is the one that was written for its offset.      *)
LEMMA BytesKept ==
    Inv => BytesInPlace
  <1>1. SUFFICES ASSUME Inv, NEW h \in Hosts, NEW c \in DOMAIN store[h], NEW i \in 1 .. Len(store[h][c])
                 PROVE  store[h][c][i] = Hole \/ store[h][c][i].at = c * ChunkSize + i - 1
    BY ZenonT(30) DEF BytesInPlace, Inv, GInv, InPlace
  <1> DEFINE x == i - 1
             m == c * ChunkSize
  <1>2. InPlace /\ c \in Nat /\ Len(store[h][c]) \in 0 .. ChunkSize
    BY <1>1 DEF Inv, GInv, InPlace, Files
  <1>3. x \in 0 .. ChunkSize - 1 /\ x < Len(store[h][c]) /\ x + 1 = i /\ x \in Nat
    BY <1>2, LayoutAssumption
  <1>4. m \in Nat
    BY <1>2, LayoutAssumption
  <1>5. block_index(m + x) = c /\ block_overrun(m + x) = x
    BY <1>2, <1>3, Unique
  <1> HIDE DEF x, m
  <1>6. m + x \in Nat
    BY <1>3, <1>4
  <1>7. At(h, m + x) = store[h][c][i]
    BY <1>3, <1>5, Zenon DEF At
  <1>8. store[h][c][i] = Hole \/ store[h][c][i].at = m + x
    BY <1>2, <1>6, <1>7, Zenon DEF InPlace
  <1>9. m + x = m + i - 1
    BY <1>3, <1>4, Zenon DEF x
  <1>10. QED  BY <1>8, <1>9 DEF m

(* Until a file is truncated its size covers what is stored.               *)
LEMMA SizeKept ==
    Inv => SizeCoversData
  BY Bounds DEF Inv, GInv, Sized, SizeCoversData

(* A first truncation to zero that succeeds leaves no chunk file.          *)
LEMMA Emptied ==
    Inv => TruncateToZeroEmpties
  BY ZenonT(30) DEF Inv, CInv, Emptying, TruncateToZeroEmpties

(* When no call runs the first copy of a byte is of a write in last.       *)
LEMMA LastKept ==
    Inv => LastWriteStored
  <1>1. SUFFICES ASSUME Inv, Active = {}, cut = 0, NEW at \in Offsets
                 PROVE  <<Primary(at), at>> \in behind \/ At(Primary(at), at).by \in last[at]
    BY DEF LastWriteStored
  <1>2. Covering(at) = {}
    BY <1>1 DEF Covering, Writing, Quiet, Active
  <1>3. <<Primary(at), at>> \in behind \/ Stored(at) \in last[at] \cup Covering(at)
    BY <1>1 DEF Inv, GInv, LastOrRunning
  <1>4. QED  BY <1>2, <1>3 DEF Stored

(* A write that succeeded and that nothing overlapped is on a copy.        *)
LEMMA AckedKept ==
    ASSUME PostedOnce
    PROVE  Inv => AckedOnACopy
  <1>1. SUFFICES ASSUME Inv, NEW c \in Clients, op[c].kind = "write", op[c].pc = "done", op[c].err = 0,
                        nops = op[c].id, op[c].over = {}, NEW at \in op[c].off .. op[c].off + op[c].len - 1
                 PROVE  \E h \in Holders(block_index(at)) : At(h, at).by = op[c].id
    BY Zenon DEF AckedOnACopy
  <1>2. op[c].off \in Nat /\ op[c].len \in Nat \ {0}
    <2>1. <<op[c].off, op[c].len>> \in Ranges
      BY <1>1, ZenonT(30) DEF Inv, CInv, OpType
    <2>2. QED  BY <2>1, DataAssumption
  <1>3. at \in Nat /\ Covers(op[c], at)
    BY <1>1, <1>2 DEF Covers
  <1>4. QED  BY <1>1, <1>3, ZenonT(30) DEF Inv, CInv, Acked, Latest

(* Nothing but writes, truncations and left-behind pieces changes a chunk. *)
LEMMA StoreKept ==
    ASSUME NEW c \in Clients, Call(c) \/ Send(c) \/ Gather(c)
    PROVE  UNCHANGED store
  BY Zenon DEF Call, BeginWrite, BeginRead, BeginTruncate, Send, SendWrite, SendRead, SendTruncate, PostFails,
         PostWriteFails, PostCopiesFails, PostReadFails, PostTruncateFails, Gather, GatherRead, GatherTruncate,
         GatherWrite, GatherCopies, Finish, Return

KeepsHead ==
    \A c \in Clients, h \in Hosts, at \in Offsets :
        (op[c].kind = "truncate" /\ op[c].pc = "gather" /\ at < op[c].len /\ op[c].over = {})
          => At(h, at)' = At(h, at)

(* The tasklets of a truncation that overlaps no call leave the bytes      *)
(* below its length alone, and so do its other steps.                      *)
LEMMA HeadKept ==
    ASSUME Inv, Next
    PROVE  KeepsHead
  <1>1. SUFFICES ASSUME NEW c \in Clients, NEW h \in Hosts, NEW at \in Offsets, op[c].kind = "truncate",
                        op[c].pc = "gather", at < op[c].len, op[c].over = {}
                 PROVE  At(h, at)' = At(h, at)
    BY Zenon DEF KeepsHead
  <1>2. loose = {} /\ \A d \in Clients : d # c => Quiet(d)
    BY <1>1 DEF Inv, GInv, Alone
  <1>3. UNCHANGED store => At(h, at)' = At(h, at)
    BY DEF At
  <1>4. ASSUME NEW d \in Clients, Call(d) \/ Send(d) \/ Gather(d) PROVE At(h, at)' = At(h, at)
    BY <1>3, <1>4, StoreKept, Zenon
  <1>5. ASSUME NEW d \in Clients, Daemon(d) PROVE At(h, at)' = At(h, at)
    <2>1. PICK r \in op[d].reqs :
           \/ \E p \in r.todo : WriteTask(d, r, p) \/ ReadTask(d, r, p) \/ TruncateTask(d, r, p) \/ TaskFails(d, r, p)
           \/ LoseAnswer(d, r)
      BY <1>5 DEF Daemon
    <2>2. d = c
      <3>1. ~Quiet(d)
        BY <2>1, ZenonT(30) DEF Inv, CInv, OpType, Quiet
      <3>2. QED  BY <1>2, <3>1
    <2>3. CASE \E p \in r.todo : TruncateTask(d, r, p)
      <3>1. /\ store' = [store EXCEPT ![r.in.host] = truncate_abt(r.in.host, r.in.length).files]
            /\ r.in.host \in Hosts /\ r.in.length = op[c].len /\ op[c].len \in Nat /\ Files
        BY <1>1, <2>2, <2>3, Zenon DEF TruncateTask, Inv, GInv, InPlace, CInv, TruncReqs, OpType
      <3>2. Trimmed(r.in.host, op[c].len)
        BY <3>1, TruncateAt, ZenonT(30)
      <3>3. QED  BY <1>1, <3>2, Bounds, Zenon DEF Trimmed
    <2>4. CASE ~\E p \in r.todo : TruncateTask(d, r, p)
      <3>1. UNCHANGED store
        BY <1>1, <2>1, <2>2, <2>4, ZenonT(30) DEF WriteTask, ReadTask, TaskFails, LoseAnswer
      <3>2. QED  BY <1>3, <3>1
    <2>5. QED  BY <2>3, <2>4, Zenon
  <1>6. ~Loose
    BY <1>2, Zenon DEF Loose
  <1>7. QED  BY <1>4, <1>5, <1>6, Zenon DEF Next
=============================================================================
