------------------------- MODULE Expansion_proofs --------------------------
(***************************************************************************)
(* An expansion loses nothing and leaves every item where clients look for *)
(* it, for any number of daemons, items and operators, every hash function *)
(* and every way in which the names of the new daemons sort among those of *)
(* the old ones.                                                           *)
(*                                                                         *)
(* The argument: from the moment the new daemons are in the hosts file,    *)
(* whoever reads it without regard to the marker gets the same list, so    *)
(* all threads agree on the home of every item.  A thread sends an item to *)
(* its home only, never removes one that is at home, and removes a copy    *)
(* only when there is another one at home or the item had a mishap.        *)
(***************************************************************************)
EXTENDS Expansion, FiniteSetTheorems, TLAPS

(* The setting of the theorems.  A file system is expanded once, a node    *)
(* runs one daemon, and the bitset of a transfer is the one that was made  *)
(* (README, "Disagreements", tells what happens otherwise).  Everything    *)
(* else may fail, and chunk directories come and go.                       *)
Setting ==
    /\ Len(Growth) = 1
    /\ \A d, e \in AllDaemons : Hostname[d] = Hostname[e] => d = e
    /\ "bitset" \notin Faults

(* The hosts of the expanded file system.                                  *)
Hosts   == ById(AllDaemons)
Home(i) == HomeOf(i, Hosts)

-----------------------------------------------------------------------------
(* Sorting *)

LEMMA LeastElement ==
    ASSUME NEW S \in SUBSET Nat, S # {}
    PROVE  \E m \in S : \A x \in S : m <= x
  <1> DEFINE R == {ss \in Nat \X Nat : ss[1] < ss[2]}
  <1>1. IsWellFoundedOn(R, Nat)
    BY NatLessThanWellFounded, Zenon DEF OpToRel
  <1> HIDE DEF R
  <1>2. PICK m \in S : \A y \in S : ~ (<<y, m>> \in R)
    BY <1>1, WFMin, Zenon
  <1>3. \A x \in S : ~ (x < m)
    BY <1>2, Zenon DEF R
  <1>4. QED  BY <1>3

Increasing(s, n) == \A i, j \in 1 .. n : i < j => s[i] < s[j]

(* Every finite set of numbers can be put in increasing order.             *)
LEMMA Sortable ==
    ASSUME NEW S \in SUBSET Nat, IsFiniteSet(S)
    PROVE  \E s \in [1 .. Cardinality(S) -> S] : Increasing(s, Cardinality(S))
  <1> DEFINE Good(T) == \E s \in [1 .. Cardinality(T) -> T] : Increasing(s, Cardinality(T))
             Bad == {n \in Nat : \E T \in SUBSET Nat : /\ IsFiniteSet(T) /\ Cardinality(T) = n
                                                        /\ ~Good(T)}
  <1>1. SUFFICES ASSUME Bad # {} PROVE FALSE
    BY FS_CardinalityType, Zenon
  <1>2. PICK n \in Bad : \A m \in Bad : n <= m
    BY <1>1, LeastElement, Bad \subseteq Nat, Zenon
  <1>3. PICK T \in SUBSET Nat : IsFiniteSet(T) /\ Cardinality(T) = n /\ ~Good(T)
    BY <1>2, Zenon
  <1>4. T # {}
    <2>1. SUFFICES ASSUME T = {} PROVE FALSE
      BY Zenon
    <2>2. n = 0
      BY <1>3, <2>1, FS_EmptySet, Zenon
    <2>3. [i \in 1 .. 0 |-> 0] \in [1 .. 0 -> T]
      BY <2>1
    <2>4. Increasing([i \in 1 .. 0 |-> 0], 0)
      BY DEF Increasing
    <2>5. QED  BY <1>3, <2>2, <2>3, <2>4, Zenon
  <1>5. PICK m \in T : \A x \in T : m <= x
    BY <1>4, LeastElement, Zenon
  <1> DEFINE U == T \ {m}
  <1>6. IsFiniteSet(U) /\ Cardinality(U) = n - 1 /\ n \in Nat /\ n - 1 \in Nat
    <2>1. IsFiniteSet(U) /\ Cardinality(U) = n - 1
      BY <1>3, FS_RemoveElement, Zenon
    <2>2. QED  BY <1>2, <2>1, FS_CardinalityType, Zenon
  <1>7. Good(U)
    <2>1. n - 1 \notin Bad
      BY <1>2, <1>6
    <2>2. QED  BY <1>3, <1>6, <2>1, Zenon
  <1>8. PICK u \in [1 .. n - 1 -> U] : Increasing(u, n - 1)
    BY <1>6, <1>7, Zenon
  <1> DEFINE s == [i \in 1 .. n |-> IF i = 1 THEN m ELSE u[i - 1]]
  <1>9. s \in [1 .. n -> T]
    <2>1. ASSUME NEW i \in 1 .. n PROVE s[i] \in T
      <3>1. CASE i = 1
        BY <3>1, Zenon
      <3>2. CASE i # 1
        <4>1. i - 1 \in 1 .. n - 1
          BY <1>6, <3>2
        <4>2. QED  BY <1>8, <3>2, <4>1, Zenon
      <3>3. QED  BY <3>1, <3>2, Zenon
    <2>2. QED  BY <2>1, Zenon
  <1>10. Increasing(s, n)
    <2>1. SUFFICES ASSUME NEW i \in 1 .. n, NEW j \in 1 .. n, i < j PROVE s[i] < s[j]
      BY Zenon DEF Increasing
    <2>2. j - 1 \in 1 .. n - 1 /\ s[j] = u[j - 1] /\ s[j] \in U
      <3>1. j - 1 \in 1 .. n - 1 /\ j # 1
        BY <1>6, <2>1
      <3>2. s[j] = u[j - 1]
        BY <3>1, Zenon
      <3>3. QED  BY <1>8, <3>1, <3>2, Zenon
    <2>3. CASE i = 1
      <3>1. s[i] = m /\ m \in Nat /\ s[j] \in Nat /\ m <= s[j] /\ m # s[j]
        BY <1>3, <1>5, <2>2, <2>3, Zenon
      <3>2. QED  BY <3>1
    <2>4. CASE i # 1
      <3>1. i - 1 \in 1 .. n - 1 /\ s[i] = u[i - 1] /\ i - 1 < j - 1
        BY <1>6, <2>1, <2>4
      <3>2. QED  BY <1>8, <2>2, <3>1, Zenon DEF Increasing
    <2>5. QED  BY <2>3, <2>4, Zenon
  <1>11. QED  BY <1>3, <1>9, <1>10, Zenon

(* ById lists each element of a set once.                                  *)
LEMMA Sorted ==
    ASSUME NEW S \in SUBSET Nat, IsFiniteSet(S)
    PROVE  /\ Cardinality(S) \in Nat
           /\ ById(S) \in [1 .. Cardinality(S) -> S]
           /\ ById(S) \in Seq(S) /\ Len(ById(S)) = Cardinality(S)
           /\ \A i, j \in 1 .. Cardinality(S) : ById(S)[i] = ById(S)[j] => i = j
           /\ \A x \in S : \E i \in 1 .. Cardinality(S) : ById(S)[i] = x
  <1> DEFINE n == Cardinality(S)
             b == ById(S)
  <1>1. n \in Nat
    BY FS_CardinalityType, Zenon
  <1>2. b \in [1 .. n -> S] /\ Increasing(b, n)
    <2>1. \E s \in [1 .. n -> S] : \A i, j \in 1 .. n : i < j => s[i] < s[j]
      BY Sortable, Zenon DEF Increasing
    <2>2. QED  BY <2>1, Zenon DEF ById, Increasing
  <1> HIDE DEF b, n
  <1>3. b \in Seq(S) /\ Len(b) = n
    BY <1>1, <1>2
  <1>4. ASSUME NEW i \in 1 .. n, NEW j \in 1 .. n, b[i] = b[j] PROVE i = j
    <2>1. b[i] \in Nat /\ b[j] \in Nat
      BY <1>2, Zenon
    <2>2. ~ (i < j) /\ ~ (j < i)
      BY <1>2, <1>4, <2>1 DEF Increasing
    <2>3. QED  BY <1>1, <2>2
  <1>5. b \in Injection(1 .. n, S)
    BY <1>2, <1>4, Zenon DEF Injection, IsInjective
  <1>6. Cardinality(1 .. n) = n
    <2>1. 1 \in Int /\ n \in Int
      BY <1>1
    <2>2. QED  BY <1>1, <2>1, FS_Interval
  <1>7. b \in Surjection(1 .. n, S)
    BY <1>5, <1>6, FS_Injection, Zenon DEF n
  <1>8. QED  BY <1>1, <1>2, <1>3, <1>4, <1>7, Zenon DEF Surjection, b, n

-----------------------------------------------------------------------------
(* The invariant *)

(* Until the new daemons are in the hosts file, nothing happens.           *)
FileInv ==
    /\ stage \in {0, 1}
    /\ hostsfile \in Seq(AllDaemons \cup {Marker})
    /\ Lines(hostsfile) \ {Marker} = IF stage = 0 THEN Old ELSE AllDaemons
    /\ stage = 0 => /\ Marker \notin Lines(hostsfile)
                    /\ tool["script"].pc = "setup"
                    /\ \A t \in Tools, d \in AllDaemons : call[t][d] = NoCall
                    /\ \A d \in AllDaemons : thread[d] = NoThread

(* What a daemon knows of the hosts when it has a thread.                  *)
ConnInv(d) ==
    /\ DOMAIN endpoints[d] \subseteq Ids(Hosts)
    /\ \A k \in DOMAIN endpoints[d] : endpoints[d][k] = Hosts[k + 1]
    /\ \/ thread[d].pc = "none" /\ nhosts[d] = 0
       \/ /\ nhosts[d] = Len(Hosts)
          /\ local[d] \in Ids(Hosts) /\ Hosts[local[d] + 1] = d
          /\ DOMAIN endpoints[d] = Ids(Hosts)

(* A thread does the metadata first.  An item that it is about to remove   *)
(* is at home, or had a mishap.                                            *)
ThreadInv(d) ==
    /\ thread[d].pc = "meta" => thread[d].todo \subseteq Meta
    /\ thread[d].pc = "data" => thread[d].todo \subseteq Chunks
    /\ thread[d].pc = "sent" =>
         thread[d].item \in mishap \/ thread[d].item \in store[Home(thread[d].item)]
    /\ thread[d].pc = "writing" => thread[d].item \in Chunks
    /\ thread[d].pc \in {"writing", "sent"} =>
         /\ thread[d].item \in Items /\ Home(thread[d].item) # d
         /\ thread[d].item \in Meta => thread[d].todo \subseteq Meta
         /\ thread[d].item \notin Meta => thread[d].todo \subseteq Chunks

(* An item away from home, without a mishap, is on an old daemon, whose    *)
(* thread has it before itself.                                            *)
Ahead(d, i) ==
    \/ thread[d].pc \in {"none", "created"}
    \/ thread[d].pc \in {"meta", "data", "writing", "sent"} /\ i \in thread[d].todo
    \/ thread[d].pc = "meta" /\ i \in Chunks
    \/ thread[d].pc \in {"writing", "sent"} /\ (i = thread[d].item \/ (thread[d].item \in Meta /\ i \in Chunks))
AwayInv(d) == \A i \in store[d] \ mishap : Home(i) # d => d \in Old /\ Ahead(d, i)

ThreadType == [pc : {"none", "created", "meta", "data", "writing", "sent", "done"},
               todo : SUBSET Items, item : Items \cup {"none"}, err : {0, EBUSY, ENOENT}]
CallType == [rpc : {"none", "expand_start", "expand_status", "expand_finalize"},
             pc : {"idle", "posted", "expand", "catch", "answered"}, arg : Nat, err : {-1, 0, 1, EBUSY}]
ToolType == [pc : {"setup", "start", "status", "finalize", "wait", "done"},
             rpc : {"none", "start", "status", "finalize"}]
MTypeInv ==
    /\ hash \in [Items -> 0 .. HashRange - 1]
    /\ store \in [AllDaemons -> SUBSET Items] /\ mishap \in SUBSET Items
    /\ thread \in [AllDaemons -> ThreadType]
    /\ nhosts \in [AllDaemons -> Nat] /\ local \in [AllDaemons -> Int]
    /\ DOMAIN endpoints = AllDaemons
    /\ call \in [Tools -> [AllDaemons -> CallType]]
    /\ tool \in [Tools -> ToolType]

MInv == /\ MTypeInv /\ FileInv /\ NothingLost
        /\ \A d \in AllDaemons : ConnInv(d) /\ ThreadInv(d) /\ AwayInv(d)

-----------------------------------------------------------------------------
(* The hosts file and the hosts *)

LEMMA Concatenated ==
    ASSUME NEW S, NEW s \in Seq(S), NEW t \in Seq(S)
    PROVE  Lines(s \o t) = Lines(s) \cup Lines(t)
  <1>1. ASSUME NEW x \in Lines(s \o t) PROVE x \in Lines(s) \cup Lines(t)
    <2>1. PICK i \in 1 .. Len(s) + Len(t) : x = (s \o t)[i]
      BY <1>1 DEF Lines
    <2>2. CASE i <= Len(s)
      BY <2>1, <2>2 DEF Lines
    <2>3. CASE i > Len(s)
      <3>1. i - Len(s) \in 1 .. Len(t) /\ x = t[i - Len(s)]
        BY <2>1, <2>3
      <3>2. QED  BY <3>1 DEF Lines
    <2>4. QED  BY <2>1, <2>2, <2>3
  <1>2. ASSUME NEW i \in 1 .. Len(s) PROVE s[i] \in Lines(s \o t)
    <2>1. i \in DOMAIN (s \o t) /\ (s \o t)[i] = s[i]
      OBVIOUS
    <2>2. QED  BY <2>1, Zenon DEF Lines
  <1>3. ASSUME NEW i \in 1 .. Len(t) PROVE t[i] \in Lines(s \o t)
    <2>1. Len(s) + i \in DOMAIN (s \o t) /\ (s \o t)[Len(s) + i] = t[i]
      OBVIOUS
    <2>2. QED  BY <2>1, Zenon DEF Lines
  <1>4. /\ \A x \in Lines(s) : \E i \in 1 .. Len(s) : x = s[i]
        /\ \A x \in Lines(t) : \E i \in 1 .. Len(t) : x = t[i]
    BY DEF Lines
  <1>5. QED  BY <1>1, <1>2, <1>3, <1>4, Zenon

LEMMA SeqWider ==
    ASSUME NEW S, NEW T, S \subseteq T, NEW s \in Seq(S)
    PROVE  s \in Seq(T)
  <1>1. Len(s) \in Nat /\ s \in [1 .. Len(s) -> T]
    OBVIOUS
  <1>2. QED  BY <1>1

(* The lines of the daemons of a set, whatever their order.                *)
LEMMA Listed ==
    ASSUME NEW S, IsFiniteSet(S), NEW s \in Orders(S)
    PROVE  s \in Seq(S) /\ Lines(s) = S
  <1> DEFINE n == Cardinality(S)
  <1>1. n \in Nat
    BY FS_CardinalityType, Zenon
  <1>2. s \in [1 .. n -> S] /\ \A i, j \in 1 .. n : s[i] = s[j] => i = j
    BY Zenon DEF Orders
  <1> HIDE DEF n
  <1>3. s \in Injection(1 .. n, S)
    BY <1>2, Zenon DEF Injection, IsInjective
  <1>4. Cardinality(1 .. n) = n
    <2>1. 1 \in Int /\ n \in Int
      BY <1>1
    <2>2. QED  BY <1>1, <2>1, FS_Interval
  <1>5. s \in Surjection(1 .. n, S)
    BY <1>3, <1>4, FS_Injection, Zenon DEF n
  <1>6. s \in Seq(S)
    BY <1>1, <1>2
  <1>7. QED  BY <1>2, <1>5, <1>6 DEF Surjection, Lines

LEMMA Unmarked ==
    ASSUME NEW lines \in Seq(AllDaemons \cup {Marker})
    PROVE  /\ WithoutMarker(lines) \in Seq(AllDaemons)
           /\ Lines(WithoutMarker(lines)) = Lines(lines) \ {Marker}
  <1> DEFINE I == {i \in DOMAIN lines : lines[i] # Marker}
             k == ById(I)
             n == Cardinality(I)
  <1>1. I \in SUBSET Nat /\ IsFiniteSet(I)
    <2>1. IsFiniteSet(1 .. Len(lines)) /\ I \in SUBSET (1 .. Len(lines))
      <3>1. 1 \in Int /\ Len(lines) \in Int
        OBVIOUS
      <3>2. IsFiniteSet(1 .. Len(lines))
        BY <3>1, FS_Interval, Zenon
      <3>3. QED  BY <3>2
    <2>2. QED  BY <2>1, FS_Subset
  <1>2. /\ n \in Nat /\ k \in [1 .. n -> I]
        /\ \A x \in I : \E j \in 1 .. n : k[j] = x
    BY <1>1, Sorted, Zenon
  <1>3. WithoutMarker(lines) = [j \in 1 .. n |-> lines[k[j]]]
    BY <1>2, Zenon DEF WithoutMarker
  <1> HIDE DEF n, k
  <1>4. \A j \in 1 .. n : lines[k[j]] \in AllDaemons \ {Marker}
    BY <1>2, ExpansionAssumption
  <1>5. WithoutMarker(lines) \in Seq(AllDaemons)
    BY <1>2, <1>3, <1>4
  <1>6. Lines(WithoutMarker(lines)) = {lines[k[j]] : j \in 1 .. n}
    BY <1>3 DEF Lines
  <1>7. {lines[k[j]] : j \in 1 .. n} = {lines[i] : i \in I}
    BY <1>2
  <1>8. {lines[i] : i \in I} = Lines(lines) \ {Marker}
    BY Zenon DEF Lines
  <1>9. QED  BY <1>5, <1>6, <1>7, <1>8, Zenon

LEMMA AllAbove ==
    ASSUME NEW lines \in Seq(AllDaemons \cup {Marker}), Marker \notin Lines(lines)
    PROVE  client_hostfile(lines) = ById(Lines(lines)) /\ load_hostfile(lines) = ById(Lines(lines))
  <1>1. {j \in DOMAIN lines : \A k \in 1 .. j : lines[k] # Marker} = DOMAIN lines
    <2>1. ASSUME NEW j \in DOMAIN lines, NEW k \in 1 .. j PROVE lines[k] # Marker
      <3>1. k \in DOMAIN lines
        OBVIOUS
      <3>2. QED  BY <3>1, Zenon DEF Lines
    <2>2. QED  BY <2>1, Zenon
  <1>2. Lines(lines) \ {Marker} = Lines(lines)
    BY Zenon
  <1>3. QED  BY <1>1, <1>2, Zenon DEF client_hostfile, load_hostfile, Lines

LEMMA HostsFacts ==
    /\ Hosts \in Seq(AllDaemons) /\ Hosts \in [1 .. Len(Hosts) -> AllDaemons]
    /\ Len(Hosts) \in Nat \ {0}
    /\ \A k, l \in Ids(Hosts) : Hosts[k + 1] = Hosts[l + 1] => k = l
    /\ \A d \in AllDaemons : \E k \in Ids(Hosts) : Hosts[k + 1] = d
    /\ \A k \in Ids(Hosts) : Hosts[k + 1] \in AllDaemons
  <1> DEFINE n == Cardinality(AllDaemons)
  <1>1. AllDaemons \in SUBSET Nat /\ IsFiniteSet(AllDaemons) /\ AllDaemons # {}
    BY ExpansionAssumption, Zenon DEF AllDaemons
  <1>2. n \in Nat /\ n # 0
    BY <1>1, FS_CardinalityType, FS_EmptySet, Zenon
  <1>3. /\ Hosts \in [1 .. n -> AllDaemons]
        /\ Hosts \in Seq(AllDaemons) /\ Len(Hosts) = n
        /\ \A i, j \in 1 .. n : Hosts[i] = Hosts[j] => i = j
        /\ \A x \in AllDaemons : \E i \in 1 .. n : Hosts[i] = x
    BY <1>1, Sorted, Zenon DEF Hosts
  <1> HIDE DEF n
  <1>4. \A k \in Ids(Hosts) : k + 1 \in 1 .. n
    BY <1>2, <1>3 DEF Ids
  <1>5. \A i \in 1 .. n : i - 1 \in Ids(Hosts) /\ (i - 1) + 1 = i
    BY <1>2, <1>3 DEF Ids
  <1>6. ASSUME NEW k \in Ids(Hosts), NEW l \in Ids(Hosts), Hosts[k + 1] = Hosts[l + 1] PROVE k = l
    <2>1. k + 1 = l + 1 /\ k \in Int /\ l \in Int
      BY <1>3, <1>4, <1>6 DEF Ids
    <2>2. QED  BY <2>1
  <1>7. ASSUME NEW d \in AllDaemons PROVE \E k \in Ids(Hosts) : Hosts[k + 1] = d
    <2>1. PICK i \in 1 .. n : Hosts[i] = d
      BY <1>3
    <2>2. QED  BY <1>5, <2>1
  <1>8. QED  BY <1>2, <1>3, <1>4, <1>6, <1>7

LEMMA HomeFacts ==
    ASSUME hash \in [Items -> 0 .. HashRange - 1], NEW i \in Items
    PROVE  /\ locate(i, Len(Hosts)) \in Ids(Hosts)
           /\ Home(i) = Hosts[locate(i, Len(Hosts)) + 1] /\ Home(i) \in AllDaemons
  <1>1. hash[i] \in Nat /\ Len(Hosts) \in Nat \ {0}
    BY HostsFacts, ExpansionAssumption
  <1>2. locate(i, Len(Hosts)) \in 0 .. Len(Hosts) - 1
    BY <1>1 DEF locate
  <1>3. QED  BY <1>2, HostsFacts DEF Home, HomeOf, Ids

(* Whoever reads the file of an expansion without regard to the marker     *)
(* gets the hosts of the expanded file system.                             *)
LEMMA Loaded ==
    ASSUME FileInv, stage # 0
    PROVE  load_hostfile(hostsfile) = Hosts
  BY Zenon DEF FileInv, load_hostfile, Hosts

(* A thread skips what is at home and sends everything else there.         *)
LEMMA Destination ==
    ASSUME MTypeInv, NEW d \in AllDaemons, ConnInv(d), thread[d].pc # "none", NEW i \in Items
    PROVE  (Skips(d, i) <=> Home(i) = d) /\ Dest(d, i) = Home(i)
  <1>1. /\ nhosts[d] = Len(Hosts) /\ local[d] \in Ids(Hosts) /\ Hosts[local[d] + 1] = d
        /\ DOMAIN endpoints[d] = Ids(Hosts)
        /\ \A k \in Ids(Hosts) : endpoints[d][k] = Hosts[k + 1]
    BY DEF ConnInv
  <1>2. /\ locate(i, nhosts[d]) \in Ids(Hosts)
        /\ Home(i) = Hosts[locate(i, nhosts[d]) + 1]
    BY <1>1, HomeFacts DEF MTypeInv
  <1>3. Skips(d, i) <=> Home(i) = d
    BY <1>1, <1>2, HostsFacts DEF Skips
  <1>4. QED  BY <1>1, <1>2, <1>3 DEF Dest

-----------------------------------------------------------------------------
(* The steps *)

LEMMA MInitially ==
    ASSUME Setting, Init
    PROVE  MInv
  <1>1. IsFiniteSet(Old) /\ Old \in SUBSET Nat /\ Old # {} /\ Old \subseteq AllDaemons
        /\ Marker \notin Old
    BY ExpansionAssumption, FS_Subset DEF AllDaemons
  <1>2. hostsfile \in Seq(Old) /\ Lines(hostsfile) = Old
    BY <1>1, Listed DEF Init
  <1>3. hostsfile \in Seq(AllDaemons \cup {Marker})
    <2>1. Old \subseteq AllDaemons \cup {Marker}
      BY <1>1
    <2>2. QED  BY <1>2, <2>1, SeqWider
  <1>4. client_hostfile(hostsfile) = ById(Old)
    BY <1>1, <1>2, <1>3, AllAbove
  <1>5. FileInv
    BY <1>1, <1>2, <1>3 DEF FileInv, Init, Tools
  <1>6. MTypeInv
    BY DEF MTypeInv, Init, ThreadType, CallType, ToolType, NoThread, NoCall
  <1>7. ASSUME NEW i \in Items PROVE HomeOf(i, ById(Old)) \in Old
    <2>1. /\ Cardinality(Old) \in Nat /\ Len(ById(Old)) = Cardinality(Old)
          /\ ById(Old) \in [1 .. Cardinality(Old) -> Old]
          /\ \A x \in Old : \E j \in 1 .. Cardinality(Old) : ById(Old)[j] = x
      BY <1>1, Sorted, Zenon
    <2>2. Len(ById(Old)) \in Nat \ {0}
      BY <1>1, <2>1, FS_EmptySet, Zenon
    <2>3. hash[i] \in Nat
      BY <1>6, ExpansionAssumption DEF MTypeInv
    <2>4. locate(i, Len(ById(Old))) + 1 \in 1 .. Len(ById(Old))
      BY <2>2, <2>3 DEF locate
    <2>5. QED  BY <2>1, <2>4, Zenon DEF HomeOf
  <1>8. \A d \in AllDaemons : store[d] = {i \in Items : HomeOf(i, ById(Old)) = d}
    BY <1>4, Zenon DEF Init
  <1>9. NothingLost
    BY <1>1, <1>7, <1>8, Zenon DEF NothingLost
  <1>10. ASSUME NEW d \in AllDaemons PROVE ConnInv(d) /\ ThreadInv(d) /\ AwayInv(d)
    <2>1. thread[d].pc = "none" /\ nhosts[d] = 0 /\ DOMAIN endpoints[d] = {}
      BY DEF Init, NoThread
    <2>2. ConnInv(d) /\ ThreadInv(d)
      BY <2>1, Zenon DEF ConnInv, ThreadInv
    <2>3. \A i \in store[d] : d \in Old
      BY <1>7, <1>8, Zenon
    <2>4. QED  BY <2>1, <2>2, <2>3, Zenon DEF AwayInv, Ahead
  <1>11. QED  BY <1>5, <1>6, <1>9, <1>10, Zenon DEF MInv

(* A step that leaves the items, the threads and what they know alone.     *)
LEMMA MQuiet ==
    ASSUME MInv, MTypeInv', FileInv',
           UNCHANGED <<hash, store, mishap, endpoints, local, nhosts, thread>>
    PROVE  MInv'
  <1>1. NothingLost'
    BY Zenon DEF MInv, NothingLost
  <1>2. ASSUME NEW d \in AllDaemons PROVE ConnInv(d)' /\ ThreadInv(d)' /\ AwayInv(d)'
    <2>1. ConnInv(d) /\ ThreadInv(d) /\ AwayInv(d)
      BY Zenon DEF MInv
    <2>2. ConnInv(d)'
      BY <2>1, Zenon DEF ConnInv
    <2>3. ThreadInv(d)'
      BY <2>1, Zenon DEF ThreadInv, Home, HomeOf, locate
    <2>4. AwayInv(d)'
      BY <2>1, Zenon DEF AwayInv, Ahead, Home, HomeOf, locate
    <2>5. QED  BY <2>2, <2>3, <2>4, Zenon
  <1>3. QED  BY <1>1, <1>2, Zenon DEF MInv

(* Nothing is under way before the file has the new daemons.               *)
LEMMA UnderWay ==
    ASSUME MInv
    PROVE  /\ \A t \in Tools, d \in AllDaemons : call[t][d].rpc # "none" => stage = 1
           /\ \A d \in AllDaemons : thread[d].pc # "none" => stage = 1
           /\ tool["script"].pc # "setup" => stage = 1
  BY DEF MInv, FileInv, NoCall, NoThread

LEMMA CountsTyped ==
    ASSUME MInv
    PROVE  get_expansion_host_num(hostsfile)[2] \in Nat \cup {-1}
           /\ (get_expansion_host_num(hostsfile)[2] = -1 => get_expansion_host_num(hostsfile)[1] = -1)
  <1>1. Lines(hostsfile) \ {Marker} \in SUBSET Nat /\ IsFiniteSet(Lines(hostsfile) \ {Marker})
    <2>1. Lines(hostsfile) \ {Marker} \subseteq AllDaemons
      BY Zenon DEF MInv, FileInv, AllDaemons
    <2>2. QED  BY <2>1, ExpansionAssumption, FS_Subset, Zenon
  <1>2. Len(load_hostfile(hostsfile)) \in Nat
    BY <1>1, Sorted DEF load_hostfile
  <1>3. QED  BY <1>2 DEF get_expansion_host_num

LEMMA Posted ==
    ASSUME NEW t \in Tools, NEW rpc, NEW arg, Broadcast(t, rpc, arg)
    PROVE  \E row \in [AllDaemons -> {[rpc |-> rpc, pc |-> "posted", arg |-> arg, err |-> 0],
                                      [rpc |-> rpc, pc |-> "answered", arg |-> arg, err |-> EBUSY],
                                      NoCall}] : call' = [call EXCEPT ![t] = row]
  <1> DEFINE hosts == client_hostfile(hostsfile)
             InHosts(d, ids) == \E i \in ids : hosts[i] = d
             A == [rpc |-> rpc, pc |-> "posted", arg |-> arg, err |-> 0]
             B == [rpc |-> rpc, pc |-> "answered", arg |-> arg, err |-> EBUSY]
             Row(n) == [d \in AllDaemons |-> IF InHosts(d, 1 .. n) THEN A
                                            ELSE IF InHosts(d, n + 1 .. Len(hosts)) THEN B ELSE NoCall]
  <1>1. PICK n : call' = [call EXCEPT ![t] = Row(n)]
    BY Zenon DEF Broadcast
  <1>2. Row(n) \in [AllDaemons -> {A, B, NoCall}]
    <2> HIDE DEF InHosts, A, B
    <2>1. QED  BY Zenon
  <1>3. QED  BY <1>1, <1>2, Zenon

LEMMA CallsTyped ==
    ASSUME MTypeInv, NEW t \in Tools
    PROVE  /\ Gathered(t) => call' \in [Tools -> [AllDaemons -> CallType]]
           /\ \A rpc \in {"expand_start", "expand_status", "expand_finalize"}, arg \in Nat :
                 Broadcast(t, rpc, arg) => call' \in [Tools -> [AllDaemons -> CallType]]
  <1>1. Gathered(t) => call' \in [Tools -> [AllDaemons -> CallType]]
    BY DEF Gathered, MTypeInv, CallType, NoCall
  <1>2. ASSUME NEW rpc \in {"expand_start", "expand_status", "expand_finalize"}, NEW arg \in Nat,
               Broadcast(t, rpc, arg)
        PROVE  call' \in [Tools -> [AllDaemons -> CallType]]
    <2>1. PICK row \in [AllDaemons -> {[rpc |-> rpc, pc |-> "posted", arg |-> arg, err |-> 0],
                                      [rpc |-> rpc, pc |-> "answered", arg |-> arg, err |-> EBUSY],
                                      NoCall}] : call' = [call EXCEPT ![t] = row]
      BY <1>2, Posted, Zenon
    <2>2. /\ [rpc |-> rpc, pc |-> "posted", arg |-> arg, err |-> 0] \in CallType
          /\ [rpc |-> rpc, pc |-> "answered", arg |-> arg, err |-> EBUSY] \in CallType
          /\ NoCall \in CallType
      BY SMTT(30) DEF CallType, NoCall
    <2>3. row \in [AllDaemons -> CallType]
      BY <2>2, Zenon
    <2>4. QED  BY <2>1, <2>3, Zenon DEF MTypeInv
  <1>3. QED  BY <1>1, <1>2, Zenon

LEMMA CallUpdated ==
    ASSUME NEW f \in [Tools -> [AllDaemons -> CallType]], NEW t \in Tools, NEW d \in AllDaemons
    PROVE  /\ \A p \in {"expand", "catch", "answered"} :
                 [f EXCEPT ![t][d].pc = p] \in [Tools -> [AllDaemons -> CallType]]
           /\ \A e \in {-1, 0, 1, EBUSY} :
                 [f EXCEPT ![t][d].err = e] \in [Tools -> [AllDaemons -> CallType]]
  <1>1. ASSUME NEW c \in CallType
        PROVE  [f EXCEPT ![t][d] = c] \in [Tools -> [AllDaemons -> CallType]]
    BY Zenon
  <1>2. f[t][d] \in CallType
    BY Zenon
  <1>3. ASSUME NEW p \in {"expand", "catch", "answered"} PROVE [f[t][d] EXCEPT !.pc = p] \in CallType
    BY <1>2, Zenon DEF CallType
  <1>4. ASSUME NEW e \in {-1, 0, 1, EBUSY} PROVE [f[t][d] EXCEPT !.err = e] \in CallType
    BY <1>2, Zenon DEF CallType
  <1>5. QED  BY <1>1, <1>3, <1>4, Zenon

(* The tool: what it sends leaves the daemons as they are, and only        *)
(* expand_setup changes which daemons the file names.                      *)
LEMMA MStart ==
    ASSUME Setting, MInv, NEW t \in Tools, Start(t)
    PROVE  MInv'
  <1>1. UNCHANGED <<hash, hostsfile, stage, store, mishap, endpoints, local, nhosts, thread>>
    BY Zenon DEF Start, forward_expand_start, forward_expand_start_out, items
  <1>2. call' \in [Tools -> [AllDaemons -> CallType]] /\ (stage = 0 => call' = call)
    <2>1. CASE forward_expand_start(t)
      <3> DEFINE counts == get_expansion_host_num(hostsfile)
      <3>1. CASE expand_start_refused(counts)
        BY <2>1, <3>1 DEF forward_expand_start, MInv, MTypeInv
      <3>2. CASE ~expand_start_refused(counts)
        <4>1. counts[2] \in Nat
          BY <3>2, CountsTyped, Zenon DEF expand_start_refused
        <4>2. stage # 0
          <5>1. SUFFICES ASSUME stage = 0 PROVE counts[1] = counts[2] \/ counts[1] = -1
            BY <3>2, Zenon DEF expand_start_refused
          <5>2. hostsfile \in Seq(AllDaemons \cup {Marker}) /\ Marker \notin Lines(hostsfile)
            BY <5>1, Zenon DEF MInv, FileInv
          <5>3. client_hostfile(hostsfile) = load_hostfile(hostsfile)
            BY <5>2, AllAbove
          <5>4. QED  BY <5>3, Zenon DEF get_expansion_host_num
        <4>3. Broadcast(t, "expand_start", counts[2])
          BY <2>1, <3>2, Zenon DEF forward_expand_start
        <4> HIDE DEF counts
        <4>4. call' \in [Tools -> [AllDaemons -> CallType]]
          BY <4>1, <4>3, CallsTyped, Zenon DEF MInv
        <4>5. QED  BY <4>2, <4>4
      <3>3. QED  BY <3>1, <3>2, Zenon
    <2>2. CASE forward_expand_start_out(t)
      <3>1. Gathered(t)
        BY <2>2, Zenon DEF forward_expand_start_out
      <3>2. call' \in [Tools -> [AllDaemons -> CallType]]
        BY <3>1, CallsTyped, Zenon DEF MInv
      <3>3. ASSUME stage = 0 PROVE call' = call
        BY <3>1, <3>3 DEF Gathered, MInv, MTypeInv, FileInv
      <3>4. QED  BY <3>2, <3>3, Zenon
    <2>3. QED  BY <2>1, <2>2, Zenon DEF Start
  <1>3. tool' \in [Tools -> ToolType] /\ (tool["script"].pc = "setup" => tool'["script"].pc = "setup")
    BY DEF Start, forward_expand_start, forward_expand_start_out, MInv, MTypeInv, ToolType, Tools
  <1>4. MTypeInv'
    BY <1>1, <1>2, <1>3, Zenon DEF MInv, MTypeInv
  <1>5. FileInv'
    BY <1>1, <1>2, <1>3 DEF MInv, FileInv
  <1>6. QED  BY <1>1, <1>4, <1>5, MQuiet

LEMMA MScript ==
    ASSUME Setting, MInv, Script
    PROVE  MInv'
  <1>1. UNCHANGED <<hash, store, mishap, endpoints, local, nhosts, thread>>
    BY Zenon DEF Script, expand_setup, forward_expand_status, forward_expand_status_out,
           forward_expand_finalize, forward_expand_finalize_out, items
  <1> DEFINE CallsOk == call' \in [Tools -> [AllDaemons -> CallType]]
             ToolOk  == tool' \in [Tools -> ToolType]
  <1>2. "script" \in Tools
    BY DEF Tools
  <1>3. CASE expand_setup
    <2>1. stage = 0 /\ stage' = 1 /\ call' = call
      BY <1>3 DEF expand_setup, Setting, MInv, FileInv
    <2>2. Growth[1] \in SUBSET AllDaemons /\ AllDaemons = Old \cup Growth[1]
      BY ExpansionAssumption DEF Setting, AllDaemons, Added
    <2>3. PICK order \in Orders(Growth[1]) : hostsfile' = hostsfile \o <<Marker>> \o order
      BY <1>3, <2>1, Zenon DEF expand_setup
    <2>4. order \in Seq(Growth[1]) /\ Lines(order) = Growth[1]
      BY <2>2, Listed, FS_Subset, ExpansionAssumption
    <2> DEFINE S == AllDaemons \cup {Marker}
    <2>5. order \in Seq(S) /\ <<Marker>> \in Seq(S) /\ hostsfile \in Seq(S)
      <3>1. order \in Seq(S)
        BY <2>2, <2>4, SeqWider, Zenon
      <3>2. QED  BY <3>1 DEF MInv, FileInv
    <2>6. Lines(<<Marker>>) = {Marker}
      BY DEF Lines
    <2> HIDE DEF S
    <2>7. hostsfile \o <<Marker>> \in Seq(S) /\ hostsfile' \in Seq(S)
      BY <2>3, <2>5
    <2>8. Lines(hostsfile') = Lines(hostsfile) \cup {Marker} \cup Growth[1]
      <3>1. \A s, t \in Seq(S) : Lines(s \o t) = Lines(s) \cup Lines(t)
        BY Concatenated
      <3>2. Lines(hostsfile \o <<Marker>>) = Lines(hostsfile) \cup {Marker}
        BY <2>5, <2>6, <3>1, Zenon
      <3>3. Lines((hostsfile \o <<Marker>>) \o order) = Lines(hostsfile \o <<Marker>>) \cup Lines(order)
        BY <2>5, <2>7, <3>1, Zenon
      <3>4. QED  BY <2>3, <2>4, <3>2, <3>3
    <2>9. Lines(hostsfile') \ {Marker} = AllDaemons
      <3>1. Lines(hostsfile) = Old
        BY <2>1, Zenon DEF MInv, FileInv
      <3>2. Marker \notin AllDaemons
        BY ExpansionAssumption, Zenon
      <3>3. QED  BY <2>2, <2>8, <3>1, <3>2
    <2>10. FileInv'
      BY <2>1, <2>7, <2>9 DEF FileInv, S
    <2>11. MTypeInv'
      BY <1>1, <1>2, <1>3, Zenon DEF expand_setup, MInv, MTypeInv, ToolType
    <2>12. QED  BY <1>1, <2>10, <2>11, MQuiet
  <1>4. CASE ~expand_setup
    <2>1. stage = 1 /\ stage' = stage
      BY <1>4, UnderWay, Zenon DEF Script, forward_expand_status, forward_expand_status_out,
         forward_expand_finalize, forward_expand_finalize_out
    <2>2. CallsOk /\ ToolOk
      <3>1. MTypeInv /\ tool["script"] \in ToolType
        BY <1>2 DEF MInv, MTypeInv
      <3>2. CASE forward_expand_status
        BY <1>2, <3>1, <3>2, CallsTyped DEF forward_expand_status, MTypeInv, ToolType
      <3>3. CASE forward_expand_status_out
        <4>1. Gathered("script") /\ \E p \in {"status", "finalize"} :
                                      tool' = [tool EXCEPT !["script"].pc = p]
          BY <3>3, Zenon DEF forward_expand_status_out
        <4>2. CallsOk
          BY <1>2, <3>1, <4>1, CallsTyped
        <4>3. ToolOk
          BY <1>2, <3>1, <4>1 DEF MTypeInv, ToolType
        <4>4. QED  BY <4>2, <4>3, Zenon
      <3>4. CASE forward_expand_finalize
        BY <1>2, <3>1, <3>4, CallsTyped, Zenon DEF forward_expand_finalize, MTypeInv, ToolType
      <3>5. CASE forward_expand_finalize_out
        BY <1>2, <3>1, <3>5, CallsTyped DEF forward_expand_finalize_out, MTypeInv, ToolType
      <3>6. QED  BY <1>4, <3>2, <3>3, <3>4, <3>5 DEF Script
    <2>4. hostsfile' \in {hostsfile, WithoutMarker(hostsfile)}
      BY <1>4 DEF Script, forward_expand_status, forward_expand_status_out,
         forward_expand_finalize, forward_expand_finalize_out
    <2>5. /\ hostsfile' \in Seq(AllDaemons \cup {Marker})
          /\ Lines(hostsfile') \ {Marker} = AllDaemons
      <3>1. hostsfile \in Seq(AllDaemons \cup {Marker}) /\ Lines(hostsfile) \ {Marker} = AllDaemons
        BY <2>1 DEF MInv, FileInv
      <3>2. WithoutMarker(hostsfile) \in Seq(AllDaemons)
            /\ Lines(WithoutMarker(hostsfile)) = AllDaemons
        BY <3>1, Unmarked, Zenon
      <3>3. WithoutMarker(hostsfile) \in Seq(AllDaemons \cup {Marker})
        BY <3>2, SeqWider
      <3>4. Marker \notin AllDaemons
        BY ExpansionAssumption, Zenon
      <3>5. QED  BY <2>4, <3>1, <3>2, <3>3, <3>4
    <2>6. FileInv'
      BY <2>1, <2>5 DEF FileInv
    <2>7. MTypeInv'
      BY <1>1, <2>2 DEF MInv, MTypeInv
    <2>8. QED  BY <1>1, <2>6, <2>7, MQuiet
  <1>5. QED  BY <1>3, <1>4, Zenon

(* The handlers: expand_start gives the daemon what its thread will know.  *)
LEMMA MHandle ==
    ASSUME Setting, MInv, NEW t \in Tools, NEW d \in AllDaemons, Handle(t, d)
    PROVE  MInv'
  <1>1. stage = 1 /\ UNCHANGED <<hash, hostsfile, stage, store, mishap, tool>>
    BY UnderWay DEF Handle, InCall, rpc_srv_expand_start, expand_start, expand_start_failed,
                    rpc_srv_expand_status, rpc_srv_expand_finalize, items
  <1>2. FileInv'
    BY <1>1 DEF MInv, FileInv
  <1>3. call' \in [Tools -> [AllDaemons -> CallType]]
    <2>1. call \in [Tools -> [AllDaemons -> CallType]]
      BY SMTT(30) DEF MInv, MTypeInv
    <2>2. ASSUME NEW p \in {"expand", "catch", "answered"}
          PROVE  [call EXCEPT ![t][d].pc = p] \in [Tools -> [AllDaemons -> CallType]]
      BY <2>1, CallUpdated, Zenon
    <2>3. ASSUME NEW e \in {-1, 0, 1, EBUSY}
          PROVE  [call EXCEPT ![t][d].pc = "answered", ![t][d].err = e]
                    \in [Tools -> [AllDaemons -> CallType]]
      <3> DEFINE f == [call EXCEPT ![t][d].pc = "answered"]
      <3>1. f \in [Tools -> [AllDaemons -> CallType]]
        BY <2>2
      <3> HIDE DEF f
      <3>2. [f EXCEPT ![t][d].err = e] \in [Tools -> [AllDaemons -> CallType]]
        BY <3>1, CallUpdated, Zenon
      <3>3. QED  BY <3>2, Zenon DEF f
    <2>4. CASE rpc_srv_expand_start(t, d)
      BY <2>2, <2>4 DEF rpc_srv_expand_start, maintenance_mode
    <2>5. CASE expand_start(t, d)
      BY <2>2, <2>3, <2>5, Zenon DEF expand_start, Answer
    <2>6. CASE expand_start_failed(t, d)
      BY <2>3, <2>6 DEF expand_start_failed, Answer
    <2>7. CASE rpc_srv_expand_status(t, d)
      BY <2>3, <2>7, Zenon DEF rpc_srv_expand_status, Answer
    <2>8. CASE rpc_srv_expand_finalize(t, d)
      BY <2>3, <2>8 DEF rpc_srv_expand_finalize, Answer
    <2>9. QED  BY <2>4, <2>5, <2>6, <2>7, <2>8, Zenon DEF Handle
  <1>4. CASE ~expand_start(t, d)
    <2>1. UNCHANGED <<endpoints, local, nhosts, thread>>
      BY <1>4, Zenon DEF Handle, rpc_srv_expand_start, expand_start_failed,
                  rpc_srv_expand_status, rpc_srv_expand_finalize
    <2>2. MTypeInv'
      BY <1>1, <1>3, <2>1 DEF MInv, MTypeInv
    <2>3. QED  BY <1>1, <1>2, <2>1, <2>2, MQuiet
  <1>5. CASE expand_start(t, d)
    <2>1. load_hostfile(hostsfile) = Hosts
      BY <1>1, Loaded DEF MInv
    <2>2. \/ UNCHANGED <<endpoints, local, nhosts, thread>>
          \/ connect_failed(d, Hosts) /\ UNCHANGED <<nhosts, thread>>
          \/ /\ connect_to_hosts(d, Hosts)
             /\ nhosts' = [nhosts EXCEPT ![d] = Len(Hosts)]
             /\ thread' = [thread EXCEPT ![d] = [NoThread EXCEPT !.pc = "created"]]
      BY <1>5, <2>1, Zenon DEF expand_start
    <2>3. MInv /\ MTypeInv
      BY Zenon DEF MInv
    <2>4. ASSUME NEW ids \in SUBSET Ids(Hosts),
                 endpoints' = [endpoints EXCEPT ![d] = insert_endpoints(@, Hosts, ids)]
          PROVE  /\ DOMAIN endpoints' = AllDaemons
                 /\ \A e \in AllDaemons : e # d => endpoints'[e] = endpoints[e]
                 /\ DOMAIN endpoints'[d] = DOMAIN endpoints[d] \cup ids
                 /\ \A k \in DOMAIN endpoints'[d] : endpoints'[d][k] = Hosts[k + 1]
      <3>1. DOMAIN endpoints = AllDaemons /\ ConnInv(d)
        BY <2>3, Zenon DEF MInv, MTypeInv
      <3>2. endpoints'[d] = insert_endpoints(endpoints[d], Hosts, ids)
        BY <2>4, <3>1, Zenon
      <3>3. \A k \in DOMAIN endpoints[d] : endpoints[d][k] = Hosts[k + 1]
        BY <3>1, Zenon DEF ConnInv
      <3>4. /\ DOMAIN endpoints'[d] = DOMAIN endpoints[d] \cup ids
            /\ \A k \in DOMAIN endpoints'[d] : endpoints'[d][k] = Hosts[k + 1]
        BY <3>2, <3>3, Zenon DEF insert_endpoints
      <3>5. QED  BY <2>4, <3>1, <3>4, Zenon
    <2>5. CASE UNCHANGED <<endpoints, local, nhosts, thread>>
      <3>1. MTypeInv'
        BY <1>1, <1>3, <2>3, <2>5, Zenon DEF MTypeInv
      <3>2. QED  BY <1>1, <1>2, <2>5, <3>1, MQuiet, Zenon
    <2>A. ASSUME NEW i \in LocalIds(d, Hosts) PROVE i \in Ids(Hosts) /\ i \in Int /\ Hosts[i + 1] = d
      <3>1. i \in Ids(Hosts) /\ Hostname[Hosts[i + 1]] = Hostname[d]
        BY Zenon DEF LocalIds
      <3>2. QED  BY <3>1, HostsFacts DEF Setting, Ids
    <2>6. CASE connect_failed(d, Hosts) /\ UNCHANGED <<nhosts, thread>>
      <3>1. PICK ids \in SUBSET Ids(Hosts) :
               endpoints' = [endpoints EXCEPT ![d] = insert_endpoints(@, Hosts, ids)]
        BY <2>6, Zenon DEF connect_failed
      <3>A. /\ local' \in [AllDaemons -> Int] /\ \A e \in AllDaemons : e # d => local'[e] = local[e]
            /\ local'[d] = local[d] \/ (local'[d] \in Ids(Hosts) /\ Hosts[local'[d] + 1] = d)
        <4>1. local' = local \/ \E i \in LocalIds(d, Hosts) : local' = [local EXCEPT ![d] = i]
          BY <2>6, Zenon DEF connect_failed
        <4>2. local \in [AllDaemons -> Int]
          BY <2>3, Zenon DEF MTypeInv
        <4>3. QED  BY <2>A, <4>1, <4>2, Zenon
      <3>2. MTypeInv'
        BY <1>1, <1>3, <2>3, <2>4, <2>6, <3>1, <3>A, Zenon DEF MTypeInv
      <3>3. NothingLost'
        BY <1>1, Zenon DEF MInv, NothingLost
      <3>4. ASSUME NEW e \in AllDaemons PROVE ConnInv(e)' /\ ThreadInv(e)' /\ AwayInv(e)'
        <4>1. ConnInv(e) /\ ThreadInv(e) /\ AwayInv(e)
          BY Zenon DEF MInv
        <4>2. ConnInv(e)'
          <5>1. CASE e # d
            BY <2>4, <2>6, <3>1, <3>A, <4>1, <5>1, Zenon DEF ConnInv
          <5>2. CASE e = d
            <6>1. /\ DOMAIN endpoints'[d] = DOMAIN endpoints[d] \cup ids
                  /\ \A k \in DOMAIN endpoints'[d] : endpoints'[d][k] = Hosts[k + 1]
                  /\ ids \subseteq Ids(Hosts)
              BY <2>4, <3>1, Zenon
            <6>2. nhosts' = nhosts /\ thread' = thread
              BY <2>6, Zenon
            <6>3. QED  BY <3>A, <4>1, <5>2, <6>1, <6>2, ZenonT(30) DEF ConnInv
          <5>3. QED  BY <5>1, <5>2, Zenon
        <4>3. ThreadInv(e)' /\ AwayInv(e)'
          BY <1>1, <2>6, <4>1, Zenon DEF ThreadInv, AwayInv, Ahead, Home, HomeOf, locate
        <4>4. QED  BY <4>2, <4>3, Zenon
      <3>5. QED  BY <1>2, <3>2, <3>3, <3>4, Zenon DEF MInv
    <2>7. CASE /\ connect_to_hosts(d, Hosts)
               /\ nhosts' = [nhosts EXCEPT ![d] = Len(Hosts)]
               /\ thread' = [thread EXCEPT ![d] = [NoThread EXCEPT !.pc = "created"]]
      <3>1. /\ endpoints' = [endpoints EXCEPT ![d] = insert_endpoints(@, Hosts, Ids(Hosts))]
            /\ \E i \in LocalIds(d, Hosts) : local' = [local EXCEPT ![d] = i]
        BY <2>7, Zenon DEF connect_to_hosts
      <3>2. /\ DOMAIN endpoints' = AllDaemons
            /\ \A e \in AllDaemons : e # d => endpoints'[e] = endpoints[e]
            /\ DOMAIN endpoints'[d] = Ids(Hosts)
            /\ \A k \in DOMAIN endpoints'[d] : endpoints'[d][k] = Hosts[k + 1]
        <4>1. DOMAIN endpoints[d] \subseteq Ids(Hosts)
          BY Zenon DEF MInv, ConnInv
        <4>2. QED  BY <2>4, <3>1, <4>1, Zenon
      <3>3. PICK i \in Ids(Hosts) : Hosts[i + 1] = d /\ local' = [local EXCEPT ![d] = i]
        BY <2>A, <3>1, Zenon
      <3>4. /\ thread'[d] = [NoThread EXCEPT !.pc = "created"] /\ nhosts'[d] = Len(Hosts)
            /\ local'[d] = i
            /\ \A e \in AllDaemons : e # d => /\ thread'[e] = thread[e] /\ nhosts'[e] = nhosts[e]
                                              /\ local'[e] = local[e]
        BY <2>3, <2>7, <3>3, Zenon DEF MTypeInv
      <3>5. MTypeInv'
        <4>1. Len(Hosts) \in Nat /\ i \in Int
          BY HostsFacts DEF Ids
        <4>2. [NoThread EXCEPT !.pc = "created"] \in ThreadType
          BY Zenon DEF NoThread, ThreadType
        <4>3. QED  BY <1>1, <1>3, <2>3, <2>7, <3>2, <3>3, <4>1, <4>2, Zenon DEF MTypeInv
      <3>6. NothingLost'
        BY <1>1, Zenon DEF MInv, NothingLost
      <3>7. ASSUME NEW e \in AllDaemons PROVE ConnInv(e)' /\ ThreadInv(e)' /\ AwayInv(e)'
        <4>1. ConnInv(e) /\ ThreadInv(e) /\ AwayInv(e)
          BY Zenon DEF MInv
        <4>2. CASE e # d
          <5>1. ConnInv(e)'
            BY <3>2, <3>4, <4>1, <4>2, Zenon DEF ConnInv
          <5>2. ThreadInv(e)' /\ AwayInv(e)'
            BY <1>1, <3>4, <4>1, <4>2, Zenon DEF ThreadInv, AwayInv, Ahead, Home, HomeOf, locate
          <5>3. QED  BY <5>1, <5>2, Zenon
        <4>3. CASE e = d
          <5>1. thread'[d].pc = "created"
            BY <3>4, Zenon DEF NoThread
          <5>2. ConnInv(e)'
            BY <3>2, <3>3, <3>4, <4>3 DEF ConnInv
          <5>3. ThreadInv(e)' /\ AwayInv(e)'
            BY <1>1, <4>1, <4>3, <5>1, ZenonT(30) DEF ThreadInv, AwayInv, Ahead, Home, HomeOf, locate
          <5>4. QED  BY <5>2, <5>3, Zenon
        <4>4. QED  BY <4>2, <4>3, Zenon
      <3>8. QED  BY <1>2, <3>5, <3>6, <3>7, Zenon DEF MInv
    <2>8. QED  BY <2>2, <2>5, <2>6, <2>7
  <1>6. QED  BY <1>4, <1>5, Zenon

(* A step of a thread: what arrives is at home, what goes is not.          *)
LEMMA MThreadFrame ==
    ASSUME MInv, NEW d \in AllDaemons, NEW th \in ThreadType, thread[d].pc # "none", th.pc # "none",
           SetThread(d, th), NotThread, store' \in [AllDaemons -> SUBSET Items],
           mishap \subseteq mishap', mishap' \in SUBSET Items,
           \A e \in AllDaemons : \A i \in store'[e] : i \in store[e] \/ Home(i) = e,
           \A e \in AllDaemons : \A i \in store[e] : i \in store'[e] \/ Home(i) # e,
           NothingLost', ThreadInv(d)', AwayInv(d)'
    PROVE  MInv'
  <1>1. /\ UNCHANGED <<hash, hostsfile, stage, endpoints, local, nhosts, call, tool>>
        /\ thread' = [thread EXCEPT ![d] = th]
    BY Zenon DEF NotThread, SetThread
  <1>2. MTypeInv'
    BY <1>1, ZenonT(30) DEF MInv, MTypeInv
  <1>3. FileInv'
    BY <1>1, UnderWay DEF MInv, FileInv
  <1>4. \A i : Home(i)' = Home(i)
    BY <1>1, Zenon DEF Home, HomeOf, locate
  <1>5. thread'[d] = th /\ \A e \in AllDaemons : e # d => thread'[e] = thread[e]
    BY <1>1, Zenon DEF MInv, MTypeInv
  <1>6. ASSUME NEW e \in AllDaemons PROVE ConnInv(e)' /\ ThreadInv(e)' /\ AwayInv(e)'
    <2>1. ConnInv(e) /\ ThreadInv(e) /\ AwayInv(e)
      BY Zenon DEF MInv
    <2>2. ConnInv(e)'
      <3>1. CASE e = d
        BY <1>1, <1>5, <2>1, <3>1, ZenonT(30) DEF ConnInv
      <3>2. CASE e # d
        <4>1. thread'[e] = thread[e]
          BY <1>5, <3>2, Zenon
        <4>2. QED  BY <1>1, <2>1, <4>1, ZenonT(30) DEF ConnInv
      <3>3. QED  BY <3>1, <3>2, Zenon
    <2>3. ASSUME e # d PROVE ThreadInv(e)' /\ AwayInv(e)'
      <3>1. thread'[e] = thread[e]
        BY <1>5, <2>3, Zenon
      <3>2. ThreadInv(e)'
        <4>1. ASSUME thread[e].pc = "sent", thread[e].item \notin mishap'
              PROVE  thread[e].item \in store'[Home(thread[e].item)]
          <5>1. thread[e].item \in Items /\ thread[e].item \in store[Home(thread[e].item)]
            BY <2>1, <4>1, Zenon DEF ThreadInv
          <5>2. Home(thread[e].item) \in AllDaemons
            BY <5>1, HomeFacts, Zenon DEF MInv, MTypeInv
          <5>3. QED  BY <5>1, <5>2, Zenon
        <4>2. QED  BY <1>4, <2>1, <3>1, <4>1, Zenon DEF ThreadInv
      <3>3. AwayInv(e)'
        <4>1. SUFFICES ASSUME NEW i \in store'[e] \ mishap', Home(i) # e PROVE e \in Old /\ Ahead(e, i)'
          BY <1>4, Zenon DEF AwayInv
        <4>2. i \in store[e] \ mishap
          BY <4>1, Zenon
        <4>3. e \in Old /\ Ahead(e, i)
          BY <2>1, <4>1, <4>2, Zenon DEF AwayInv
        <4>4. QED  BY <3>1, <4>3, Zenon DEF Ahead
      <3>4. QED  BY <3>2, <3>3, Zenon
    <2>4. QED  BY <2>2, <2>3
  <1>7. QED  BY <1>2, <1>3, <1>6 DEF MInv

(* The steps that do not touch the items.                                  *)
LEMMA MTurn ==
    ASSUME Setting, MInv, NEW d \in AllDaemons,
           \/ expand_abt(d) \/ skip_item(d) \/ skip_unreadable(d)
           \/ redistribute_data(d) \/ expand_abt_done(d)
    PROVE  MInv'
  <1>1. store' = store /\ NotThread /\ hash' = hash
    BY Zenon DEF expand_abt, skip_item, skip_unreadable, redistribute_data, expand_abt_done, NotThread,
       items
  <1>2. /\ MTypeInv /\ thread[d] \in ThreadType /\ store[d] \in SUBSET Items
        /\ ThreadInv(d) /\ AwayInv(d) /\ ConnInv(d)
    BY Zenon DEF MInv, MTypeInv
  <1>A. mishap \subseteq mishap' /\ mishap' \in SUBSET Items
    <2>1. mishap \in SUBSET Items /\ thread[d].todo \subseteq Items
      BY <1>2, Zenon DEF MTypeInv, ThreadType
    <2>2. mishap' = mishap \/ \E i \in thread[d].todo : mishap' = mishap \cup {i}
      BY Zenon DEF expand_abt, skip_item, skip_unreadable, redistribute_data, expand_abt_done, items,
         Noted
    <2>3. QED  BY <2>1, <2>2, Zenon
  <1>3. NothingLost'
    BY <1>1, <1>A, Zenon DEF MInv, NothingLost
  <1>4. \A i : Home(i)' = Home(i)
    BY <1>1, Zenon DEF Home, HomeOf, locate
  <1>5. thread[d].pc # "none"
    BY Zenon DEF expand_abt, skip_item, skip_unreadable, redistribute_data, expand_abt_done
  <1>6. SUFFICES \E th \in ThreadType : /\ th.pc # "none" /\ SetThread(d, th)
                                       /\ ThreadInv(d)' /\ AwayInv(d)'
    BY <1>1, <1>2, <1>3, <1>A, <1>5, MThreadFrame, Zenon DEF MInv, MTypeInv
  <1>7. \A th : SetThread(d, th) => thread'[d] = th
    BY <1>2, Zenon DEF SetThread, MTypeInv
  <1>8. CASE expand_abt(d)
    <2> DEFINE th == [NoThread EXCEPT !.pc = "meta", !.todo = store[d] \cap Meta]
    <2>1. SetThread(d, th) /\ th \in ThreadType /\ th.pc = "meta" /\ th.todo = store[d] \cap Meta
      BY <1>2, <1>8, Zenon DEF expand_abt, ThreadType, NoThread, Items
    <2>2. thread'[d] = th /\ \A i \in store[d] \ mishap : Home(i) # d => d \in Old
      BY <1>2, <1>7, <2>1, Zenon DEF AwayInv
    <2> HIDE DEF th
    <2>3. ThreadInv(d)' /\ AwayInv(d)'
      BY <1>1, <1>2, <1>4, <1>A, <2>1, <2>2, Zenon DEF ThreadInv, AwayInv, Ahead, Items
    <2>4. QED  BY <2>1, <2>3, Zenon
  <1>9. CASE skip_item(d) \/ skip_unreadable(d)
    <2>1. PICK i \in thread[d].todo : /\ Skips(d, i) \/ i \in mishap'
                                      /\ SetThread(d, [thread[d] EXCEPT !.todo = @ \ {i}])
      BY <1>9, Zenon DEF skip_item, skip_unreadable, Noted
    <2> DEFINE th == [thread[d] EXCEPT !.todo = @ \ {i}]
    <2>2. /\ th \in ThreadType /\ th.pc = thread[d].pc /\ th.todo = thread[d].todo \ {i}
          /\ th.item = thread[d].item
      BY <1>2, Zenon DEF ThreadType
    <2>3. thread'[d] = th
      BY <1>7, <2>1, Zenon
    <2>4. Home(i) = d \/ i \in mishap'
      <3>1. i \in Items
        BY <1>2, Zenon DEF ThreadType
      <3>2. QED  BY <1>2, <1>5, <2>1, <3>1, Destination, Zenon
    <2>5. thread[d].pc \in {"meta", "data"}
      BY <1>9, Zenon DEF skip_item, skip_unreadable
    <2> HIDE DEF th
    <2>6. ThreadInv(d)' /\ AwayInv(d)'
      BY <1>1, <1>2, <1>4, <1>A, <2>2, <2>3, <2>4, <2>5, Zenon DEF ThreadInv, AwayInv, Ahead
    <2>7. QED  BY <2>1, <2>2, <2>5, <2>6, Zenon DEF th
  <1>10. CASE redistribute_data(d)
    <2> DEFINE th == [NoThread EXCEPT !.pc = "data", !.todo = store[d] \cap Chunks]
    <2>1. SetThread(d, th) /\ th \in ThreadType /\ th.pc = "data" /\ th.todo = store[d] \cap Chunks
      BY <1>2, <1>10, Zenon DEF redistribute_data, ThreadType, NoThread, Items
    <2>2. thread'[d] = th /\ thread[d].pc = "meta" /\ thread[d].todo = {}
      BY <1>7, <1>10, <2>1, Zenon DEF redistribute_data
    <2> HIDE DEF th
    <2>3. ThreadInv(d)' /\ AwayInv(d)'
      BY <1>1, <1>2, <1>4, <1>A, <2>1, <2>2, Zenon DEF ThreadInv, AwayInv, Ahead
    <2>4. QED  BY <2>1, <2>3, Zenon
  <1>11. CASE expand_abt_done(d)
    <2> DEFINE th == [NoThread EXCEPT !.pc = "done"]
    <2>1. SetThread(d, th) /\ th \in ThreadType /\ th.pc = "done"
      BY <1>11, Zenon DEF expand_abt_done, ThreadType, NoThread
    <2>2. thread'[d] = th /\ thread[d].pc = "data" /\ thread[d].todo = {}
      BY <1>7, <1>11, <2>1, Zenon DEF expand_abt_done
    <2> HIDE DEF th
    <2>3. ThreadInv(d)' /\ AwayInv(d)'
      BY <1>1, <1>2, <1>4, <1>A, <2>1, <2>2, Zenon DEF ThreadInv, AwayInv, Ahead
    <2>4. QED  BY <2>1, <2>3, Zenon
  <1>12. QED  BY <1>8, <1>9, <1>10, <1>11, Zenon

(* A copy goes to the home of the item.                                    *)
LEMMA Delivered ==
    ASSUME store \in [AllDaemons -> SUBSET Items], NEW i \in Items, NEW d \in AllDaemons,
           NEW h \in AllDaemons, h # d, h = Home(i),
           store' = store \/ store' = [store EXCEPT ![h] = @ \cup {i}]
    PROVE  /\ store' \in [AllDaemons -> SUBSET Items] /\ store'[d] = store[d]
           /\ store' = [store EXCEPT ![h] = @ \cup {i}] => i \in store'[h]
           /\ \A e \in AllDaemons : /\ store[e] \subseteq store'[e]
                                    /\ \A j \in store'[e] : j \in store[e] \/ (j = i /\ Home(j) = e)
  <1>1. CASE store' = store
    <2>1. store' = [store EXCEPT ![h] = @ \cup {i}] => i \in store'[h]
      BY Zenon
    <2>2. QED  BY <1>1, <2>1, Zenon
  <1>2. CASE store' = [store EXCEPT ![h] = @ \cup {i}]
    <2>1. /\ store' \in [AllDaemons -> SUBSET Items] /\ store'[h] = store[h] \cup {i}
          /\ \A e \in AllDaemons : e # h => store'[e] = store[e]
      BY <1>2, Zenon
    <2>2. QED  BY <2>1, Zenon
  <1>3. QED  BY <1>1, <1>2, Zenon

LEMMA MForward ==
    ASSUME Setting, MInv, NEW d \in AllDaemons, forward_metadata(d) \/ forward_data(d)
    PROVE  MInv'
  <1>1. PICK i \in thread[d].todo, pc \in {"writing", "sent"}, err \in {0, EBUSY} :
           /\ ~Skips(d, i) /\ mishap' \in {mishap, mishap \cup {i}}
           /\ store' = store \/ store' = [store EXCEPT ![Dest(d, i)] = @ \cup {i}]
           /\ pc = "sent" => i \in mishap' \/ store' = [store EXCEPT ![Dest(d, i)] = @ \cup {i}]
           /\ pc = "writing" => thread[d].pc = "data"
           /\ SetThread(d, [pc |-> pc, todo |-> thread[d].todo \ {i}, item |-> i, err |-> err])
    <2>1. CASE forward_metadata(d)
      <3>1. PICK i \in thread[d].todo, f \in {"none", "send", "reply"} :
               /\ ~Skips(d, i) /\ Noted(i, f # "none")
               /\ store' = IF f = "send" THEN store ELSE [store EXCEPT ![Dest(d, i)] = @ \cup {i}]
               /\ Sending(d, i, "sent", IF f = "none" THEN 0 ELSE EBUSY)
        BY <2>1, Zenon DEF forward_metadata
      <3>2. /\ mishap' \in {mishap, mishap \cup {i}}
            /\ f = "send" => i \in mishap'
        BY <3>1, Zenon DEF Noted
      <3>3. /\ store' = store \/ store' = [store EXCEPT ![Dest(d, i)] = @ \cup {i}]
            /\ i \in mishap' \/ store' = [store EXCEPT ![Dest(d, i)] = @ \cup {i}]
        BY <3>1, <3>2, Zenon
      <3>4. CASE f = "none"
        <4>1. SetThread(d, [pc |-> "sent", todo |-> thread[d].todo \ {i}, item |-> i, err |-> 0])
          BY <3>1, <3>4, Zenon DEF Sending
        <4>2. QED  BY <3>1, <3>2, <3>3, <4>1, Zenon
      <3>5. CASE f # "none"
        <4>1. SetThread(d, [pc |-> "sent", todo |-> thread[d].todo \ {i}, item |-> i, err |-> EBUSY])
          BY <3>1, <3>5, Zenon DEF Sending
        <4>2. QED  BY <3>1, <3>2, <3>3, <4>1, Zenon
      <3>6. QED  BY <3>4, <3>5, Zenon
    <2>2. CASE forward_data(d)
      <3>1. PICK i \in thread[d].todo, f \in {"none", "send"} :
               /\ ~Skips(d, i) /\ Noted(i, f = "send")
               /\ f = "none" => Sending(d, i, "writing", 0)
               /\ f = "send" => Sending(d, i, "sent", EBUSY)
        BY <2>2, Zenon DEF forward_data, Meets, Setting
      <3>2. /\ mishap' \in {mishap, mishap \cup {i}}
            /\ f = "send" => i \in mishap'
            /\ store' = store /\ thread[d].pc = "data"
        BY <2>2, <3>1, Zenon DEF Noted, forward_data
      <3>3. CASE f = "none"
        <4>1. SetThread(d, [pc |-> "writing", todo |-> thread[d].todo \ {i}, item |-> i, err |-> 0])
          BY <3>1, <3>3, Zenon DEF Sending
        <4>2. QED  BY <3>1, <3>2, <4>1, Zenon
      <3>4. CASE f = "send"
        <4>1. SetThread(d, [pc |-> "sent", todo |-> thread[d].todo \ {i}, item |-> i, err |-> EBUSY])
          BY <3>1, <3>4, Zenon DEF Sending
        <4>2. QED  BY <3>1, <3>2, <3>4, <4>1, Zenon
      <3>5. QED  BY <3>1, <3>3, <3>4, Zenon
    <2>3. QED  BY <2>1, <2>2, Zenon
  <1>2. /\ MTypeInv /\ thread[d] \in ThreadType /\ store \in [AllDaemons -> SUBSET Items]
        /\ ThreadInv(d) /\ AwayInv(d) /\ ConnInv(d) /\ mishap \in SUBSET Items
    BY Zenon DEF MInv, MTypeInv
  <1>3. thread[d].pc \in {"meta", "data"} /\ NotThread /\ hash' = hash
    BY Zenon DEF forward_metadata, forward_data, NotThread
  <1>4. i \in Items /\ thread[d].todo \subseteq Items
    BY <1>2, ZenonT(30) DEF ThreadType
  <1>5. Dest(d, i) = Home(i) /\ Home(i) # d /\ Home(i) \in AllDaemons
    BY <1>1, <1>2, <1>3, <1>4, Destination, HomeFacts, Zenon DEF MTypeInv
  <1>6. \A j : Home(j)' = Home(j)
    BY <1>3, Zenon DEF Home, HomeOf, locate
  <1>7. /\ store' \in [AllDaemons -> SUBSET Items] /\ store'[d] = store[d]
        /\ pc = "sent" => i \in mishap' \/ i \in store'[Home(i)]
        /\ \A e \in AllDaemons : /\ store[e] \subseteq store'[e]
                                 /\ \A j \in store'[e] : j \in store[e] \/ (j = i /\ Home(j) = e)
    BY <1>1, <1>2, <1>4, <1>5, Delivered, Zenon
  <1>A. mishap \subseteq mishap' /\ mishap' \in SUBSET Items
    BY <1>1, <1>2, <1>4, Zenon
  <1>8. NothingLost'
    BY <1>7, <1>A, Zenon DEF MInv, NothingLost
  <1> DEFINE th == [pc |-> pc, todo |-> thread[d].todo \ {i}, item |-> i, err |-> err]
  <1>9. /\ th \in ThreadType /\ th.pc = pc /\ th.todo = thread[d].todo \ {i} /\ th.item = i
        /\ SetThread(d, th) /\ thread'[d] = th
    <2>1. th \in ThreadType
      BY <1>4, Zenon DEF ThreadType
    <2>2. SetThread(d, th)
      BY <1>1, Zenon
    <2>3. QED  BY <1>2, <2>1, <2>2, Zenon DEF SetThread, MTypeInv
  <1> HIDE DEF th
  <1>10. (i \in Meta => thread[d].pc = "meta") /\ (thread[d].pc = "data" => i \in Chunks)
    BY <1>2, <1>3, ExpansionAssumption, Zenon DEF ThreadInv
  <1>11. ThreadInv(d)'
    BY <1>1, <1>2, <1>3, <1>4, <1>5, <1>6, <1>7, <1>9, <1>10, Zenon DEF ThreadInv, Items
  <1>12. AwayInv(d)'
    <2>1. SUFFICES ASSUME NEW j \in store[d] \ mishap, Home(j) # d PROVE d \in Old /\ Ahead(d, j)'
      BY <1>6, <1>7, <1>A, Zenon DEF AwayInv
    <2>2. d \in Old /\ Ahead(d, j)
      BY <1>2, <2>1, Zenon DEF AwayInv
    <2>3. j \in thread[d].todo \/ (thread[d].pc = "meta" /\ j \in Chunks)
      BY <1>3, <2>2, Zenon DEF Ahead
    <2>4. thread[d].pc = "meta" => i \in Meta
      BY <1>2, Zenon DEF ThreadInv
    <2>5. QED  BY <1>1, <1>9, <2>2, <2>3, <2>4, Zenon DEF Ahead
  <1>13. th.pc # "none" /\ thread[d].pc # "none"
    BY <1>1, <1>3, <1>9, Zenon
  <1>14. QED  BY <1>3, <1>7, <1>8, <1>9, <1>11, <1>12, <1>13, <1>A, MThreadFrame, Zenon

(* The receiver writes the chunk, or the directory has gone.               *)
LEMMA MWrite ==
    ASSUME Setting, MInv, NEW d \in AllDaemons, write_chunk(d)
    PROVE  MInv'
  <1> DEFINE i == thread[d].item
  <1>1. PICK err \in {0, EBUSY, ENOENT} :
           /\ mishap' \in {mishap, mishap \cup {i}}
           /\ \/ store' = [store EXCEPT ![Dest(d, i)] = @ \cup {i}]
              \/ store' = store /\ i \in mishap'
           /\ SetThread(d, [pc |-> "sent", todo |-> thread[d].todo \ {i}, item |-> i, err |-> err])
    <2>1. PICK f \in {"none", "reply"} :
             IF FileOf[i] \in cdirs[Dest(d, i)]
             THEN /\ store' = [store EXCEPT ![Dest(d, i)] = @ \cup {i}]
                  /\ Noted(i, f = "reply")
                  /\ Sending(d, i, "sent", IF f = "reply" THEN EBUSY ELSE 0)
             ELSE /\ UNCHANGED store /\ Noted(i, TRUE)
                  /\ Sending(d, i, "sent", IF f = "reply" THEN EBUSY ELSE ENOENT)
      BY Zenon DEF write_chunk
    <2>2. CASE FileOf[i] \in cdirs[Dest(d, i)]
      BY <2>1, <2>2, Zenon DEF Noted, Sending
    <2>3. CASE FileOf[i] \notin cdirs[Dest(d, i)]
      BY <2>1, <2>3, Zenon DEF Noted, Sending
    <2>4. QED  BY <2>2, <2>3, Zenon
  <1>2. /\ MTypeInv /\ thread[d] \in ThreadType /\ store \in [AllDaemons -> SUBSET Items]
        /\ ThreadInv(d) /\ AwayInv(d) /\ ConnInv(d) /\ mishap \in SUBSET Items
    BY Zenon DEF MInv, MTypeInv
  <1>3. thread[d].pc = "writing" /\ NotThread /\ hash' = hash
    BY Zenon DEF write_chunk, NotThread
  <1> HIDE DEF i
  <1>4. /\ i \in Items /\ thread[d].todo \subseteq Items /\ Home(i) # d /\ i \in Chunks
        /\ i \notin Meta => thread[d].todo \subseteq Chunks
    <2>1. thread[d].todo \subseteq Items
      BY <1>2, Zenon DEF ThreadType
    <2>2. QED  BY <1>2, <1>3, <2>1, Zenon DEF ThreadInv, i
  <1>5. Dest(d, i) = Home(i) /\ Home(i) \in AllDaemons
    BY <1>2, <1>3, <1>4, Destination, HomeFacts, Zenon DEF MTypeInv
  <1>6. \A j : Home(j)' = Home(j)
    BY <1>3, Zenon DEF Home, HomeOf, locate
  <1>7. /\ store' \in [AllDaemons -> SUBSET Items] /\ store'[d] = store[d]
        /\ i \in mishap' \/ i \in store'[Home(i)]
        /\ \A e \in AllDaemons : /\ store[e] \subseteq store'[e]
                                 /\ \A j \in store'[e] : j \in store[e] \/ (j = i /\ Home(j) = e)
    BY <1>1, <1>2, <1>4, <1>5, Delivered, Zenon
  <1>A. mishap \subseteq mishap' /\ mishap' \in SUBSET Items
    BY <1>1, <1>2, <1>4, Zenon
  <1>8. NothingLost'
    BY <1>7, <1>A, Zenon DEF MInv, NothingLost
  <1> DEFINE th == [pc |-> "sent", todo |-> thread[d].todo \ {i}, item |-> i, err |-> err]
  <1>9. /\ th \in ThreadType /\ th.pc = "sent" /\ th.todo = thread[d].todo \ {i} /\ th.item = i
        /\ SetThread(d, th) /\ thread'[d] = th
    <2>1. th \in ThreadType
      BY <1>4, Zenon DEF ThreadType
    <2>2. SetThread(d, th)
      BY <1>1, Zenon
    <2>3. QED  BY <1>2, <2>1, <2>2, Zenon DEF SetThread, MTypeInv
  <1> HIDE DEF th
  <1>B. i \notin Meta
    BY <1>4, ExpansionAssumption, Zenon
  <1>11. ThreadInv(d)'
    BY <1>4, <1>6, <1>7, <1>9, <1>B, Zenon DEF ThreadInv
  <1>12. AwayInv(d)'
    <2>1. SUFFICES ASSUME NEW j \in store[d] \ mishap, Home(j) # d PROVE d \in Old /\ Ahead(d, j)'
      BY <1>6, <1>7, <1>A, Zenon DEF AwayInv
    <2>2. d \in Old /\ Ahead(d, j)
      BY <1>2, <2>1, Zenon DEF AwayInv
    <2>3. j \in thread[d].todo \/ j = i
      BY <1>3, <1>B, <2>2, Zenon DEF Ahead, i
    <2>4. QED  BY <1>9, <2>2, <2>3, Zenon DEF Ahead
  <1>13. th.pc # "none" /\ thread[d].pc # "none"
    BY <1>3, <1>9, Zenon
  <1>14. QED  BY <1>3, <1>7, <1>8, <1>9, <1>11, <1>12, <1>13, <1>A, MThreadFrame, Zenon

(* The copy that is removed is not the last one.                           *)
LEMMA MRemove ==
    ASSUME Setting, MInv, NEW d \in AllDaemons, remove_migrated(d)
    PROVE  MInv'
  <1> DEFINE i  == thread[d].item
             th == [NoThread EXCEPT !.pc = IF i \in Meta THEN "meta" ELSE "data",
                                    !.todo = thread[d].todo]
  <1>1. /\ thread[d].pc = "sent" /\ SetThread(d, th) /\ NotThread /\ hash' = hash
        /\ \/ store' = [store EXCEPT ![d] = store[d] \ {i}] /\ mishap' = mishap
           \/ store' = store /\ mishap' = mishap \cup {i}
    <2>1. PICK f \in {"none", "remove"} :
             /\ Noted(i, f # "none")
             /\ IF f = "none" THEN store' = [store EXCEPT ![d] = store[d] \ {i}] ELSE store' = store
      BY Zenon DEF remove_migrated
    <2>2. QED  BY <2>1, Zenon DEF remove_migrated, NotThread, Noted
  <1>2. /\ MTypeInv /\ thread[d] \in ThreadType /\ store \in [AllDaemons -> SUBSET Items]
        /\ ThreadInv(d) /\ AwayInv(d) /\ mishap \in SUBSET Items
    BY Zenon DEF MInv, MTypeInv
  <1>3. /\ th \in ThreadType /\ th.pc = (IF i \in Meta THEN "meta" ELSE "data")
        /\ th.todo = thread[d].todo
    BY <1>2, Zenon DEF ThreadType, NoThread
  <1>4. thread'[d] = th
    BY <1>1, <1>2, Zenon DEF SetThread, MTypeInv
  <1> HIDE DEF th, i
  <1>5. /\ i \in Items /\ Home(i) # d /\ Home(i) \in AllDaemons
        /\ i \in mishap \/ i \in store[Home(i)]
    <2>1. i \in Items /\ Home(i) # d /\ (i \in mishap \/ i \in store[Home(i)])
      BY <1>1, <1>2, Zenon DEF ThreadInv, i
    <2>2. QED  BY <1>2, <2>1, HomeFacts, Zenon DEF MTypeInv
  <1>6. \A j : Home(j)' = Home(j)
    BY <1>1, Zenon DEF Home, HomeOf, locate
  <1>7. /\ store' \in [AllDaemons -> SUBSET Items]
        /\ store'[d] = store[d] \ {i} \/ (store'[d] = store[d] /\ i \in mishap')
        /\ \A e \in AllDaemons : e # d => store'[e] = store[e]
        /\ mishap \subseteq mishap' /\ mishap' \in SUBSET Items
    BY <1>1, <1>2, <1>5, Zenon
  <1>8. NothingLost'
    <2>1. SUFFICES ASSUME NEW j \in Items \ mishap' PROVE \E e \in AllDaemons : j \in store'[e]
      BY Zenon DEF NothingLost
    <2>2. CASE j = i
      BY <1>5, <1>7, <2>2, Zenon
    <2>3. CASE j # i
      <3>1. PICK e \in AllDaemons : j \in store[e]
        BY <1>7, Zenon DEF MInv, NothingLost
      <3>2. QED  BY <1>7, <2>3, <3>1, Zenon
    <2>4. QED  BY <2>2, <2>3, Zenon
  <1>9. ThreadInv(d)'
    BY <1>1, <1>2, <1>3, <1>4 DEF ThreadInv, i
  <1>10. AwayInv(d)'
    <2>1. SUFFICES ASSUME NEW j \in store[d] \ mishap, j # i, Home(j) # d
                   PROVE  d \in Old /\ Ahead(d, j)'
      BY <1>6, <1>7, Zenon DEF AwayInv
    <2>2. d \in Old /\ Ahead(d, j)
      BY <1>2, <2>1, Zenon DEF AwayInv
    <2>3. j \in thread[d].todo \/ (i \in Meta /\ j \in Chunks)
      BY <1>1, <2>1, <2>2, Zenon DEF Ahead, i
    <2>4. QED  BY <1>3, <1>4, <2>2, <2>3, Zenon DEF Ahead
  <1>11. th.pc # "none" /\ thread[d].pc # "none"
    BY <1>1, <1>3, Zenon
  <1>12. \A e \in AllDaemons : /\ \A j \in store'[e] : j \in store[e] \/ Home(j) = e
                               /\ \A j \in store[e] : j \in store'[e] \/ Home(j) # e
    BY <1>5, <1>7, Zenon
  <1>13. QED  BY <1>1, <1>3, <1>7, <1>8, <1>9, <1>10, <1>11, <1>12, MThreadFrame, Zenon

LEMMA MStutter ==
    ASSUME MInv, UNCHANGED vars
    PROVE  MInv'
  <1>1. MTypeInv' /\ FileInv'
    BY Zenon DEF MInv, MTypeInv, FileInv, vars
  <1>2. QED  BY <1>1, MQuiet, Zenon DEF vars

LEMMA MLost ==
    ASSUME MInv, NEW t \in Tools, NEW d \in AllDaemons, rpc_lost(t, d)
    PROVE  MInv'
  <1>1. /\ UNCHANGED <<hash, hostsfile, stage, store, mishap, endpoints, local, nhosts, thread, tool>>
        /\ call' = [call EXCEPT ![t][d].pc = "answered", ![t][d].err = EBUSY] /\ stage = 1
    BY UnderWay, Zenon DEF rpc_lost, items
  <1> DEFINE f == [call EXCEPT ![t][d].pc = "answered"]
  <1>2. call' \in [Tools -> [AllDaemons -> CallType]]
    <2>1. call \in [Tools -> [AllDaemons -> CallType]]
      BY Zenon DEF MInv, MTypeInv
    <2>2. f \in [Tools -> [AllDaemons -> CallType]]
      BY <2>1, CallUpdated, Zenon
    <2> HIDE DEF f
    <2>3. [f EXCEPT ![t][d].err = EBUSY] \in [Tools -> [AllDaemons -> CallType]]
      BY <2>2, CallUpdated, Zenon
    <2>4. QED  BY <1>1, <2>3, Zenon DEF f
  <1>3. MTypeInv' /\ FileInv'
    BY <1>1, <1>2 DEF MInv, MTypeInv, FileInv
  <1>4. QED  BY <1>1, <1>3, MQuiet, Zenon

LEMMA MInductive ==
    ASSUME Setting
    PROVE  Spec => []MInv
  <1>1. Init => MInv
    BY MInitially, Zenon
  <1>2. MInv /\ [Next]_vars => MInv'
    <2>1. SUFFICES ASSUME MInv, [Next]_vars PROVE MInv'
      BY Zenon
    <2>2. CASE Script
      BY <2>1, <2>2, MScript, Zenon
    <2>3. ASSUME NEW t \in Tools, Start(t) PROVE MInv'
      BY <2>1, <2>3, MStart, Zenon
    <2>4. ASSUME NEW t \in Tools, NEW d \in AllDaemons, Handle(t, d) \/ rpc_lost(t, d) PROVE MInv'
      BY <2>1, <2>4, MHandle, MLost, Zenon
    <2>5. ASSUME NEW d \in AllDaemons, Thread(d) PROVE MInv'
      BY <2>1, <2>5, MTurn, MForward, MWrite, MRemove, Zenon DEF Thread
    <2>6. CASE UNCHANGED vars
      BY <2>1, <2>6, MStutter, Zenon
    <2>7. QED  BY <2>1, <2>2, <2>3, <2>4, <2>5, <2>6, Zenon DEF Next
  <1>3. QED  BY <1>1, <1>2, PTL DEF Spec

(* However the threads of the daemons interleave, send to each other and   *)
(* remove emptied chunk directories, and whatever lookup, transfer or      *)
(* answer fails, no metadata entry and no chunk whose transfer met no      *)
(* reported error is ever without a copy during an expansion.              *)
THEOREM NothingLostCorrect ==
    ASSUME Setting
    PROVE  Spec => []NothingLost
  <1>1. MInv => NothingLost
    BY Zenon DEF MInv
  <1>2. QED  BY <1>1, MInductive, PTL

(* When the threads of an expansion have ended, each item is on the daemon *)
(* that a client with the new hosts file asks for it, and on no other,     *)
(* unless its transfer or removal met a reported error.                    *)
THEOREM MigrationCorrect ==
    ASSUME Setting
    PROVE  Spec => []MigrationComplete
  <1>1. MInv => MigrationComplete
    <2>1. SUFFICES ASSUME MInv, Settled, NEW i \in Items \ mishap
                   PROVE  {d \in AllDaemons : i \in store[d]} =
                             {HomeOf(i, client_hostfile(WithoutMarker(hostsfile)))}
      BY Zenon DEF MigrationComplete
    <2>2. stage = 1
      BY <2>1 DEF Settled, MInv, FileInv
    <2>3. /\ WithoutMarker(hostsfile) \in Seq(AllDaemons)
          /\ Lines(WithoutMarker(hostsfile)) = AllDaemons
      <3>1. /\ hostsfile \in Seq(AllDaemons \cup {Marker})
            /\ Lines(hostsfile) \ {Marker} = AllDaemons
        BY <2>1, <2>2 DEF MInv, FileInv
      <3>2. QED  BY <3>1, Unmarked, Zenon
    <2>4. WithoutMarker(hostsfile) \in Seq(AllDaemons \cup {Marker})
      BY <2>3, SeqWider, Zenon
    <2>5. Marker \notin AllDaemons
      BY ExpansionAssumption, Zenon
    <2>6. client_hostfile(WithoutMarker(hostsfile)) = Hosts
      BY <2>3, <2>4, <2>5, AllAbove, Zenon DEF Hosts
    <2>7. Home(i) \in AllDaemons
      BY <2>1, HomeFacts, Zenon DEF MInv, MTypeInv
    <2>8. ASSUME NEW d \in AllDaemons, i \in store[d] PROVE d = Home(i)
      <3>1. SUFFICES ASSUME Home(i) # d PROVE FALSE
        BY Zenon
      <3>2. d \in Old /\ Ahead(d, i)
        BY <2>1, <2>8, <3>1, Zenon DEF MInv, AwayInv
      <3>3. thread[d].pc = "done"
        BY <2>1, <3>2, Zenon DEF Settled
      <3>4. QED  BY <3>2, <3>3, Zenon DEF Ahead
    <2>9. \E d \in AllDaemons : i \in store[d]
      BY <2>1, Zenon DEF MInv, NothingLost
    <2>10. QED  BY <2>6, <2>7, <2>8, <2>9, Zenon DEF Home
  <1>2. QED  BY <1>1, MInductive, PTL

-----------------------------------------------------------------------------
(* Maintenance mode admits one migration at a time.  Between its request   *)
(* for the mode and its answer, a handler of expand_start owns the daemon. *)
(* There is at most one owner, since the mode is refused while it is set;  *)
(* an owner finds no thread; and a thread is there only while the mode is  *)
(* set, which nobody takes back before the expansion is finalized.         *)

(* The handler that set the mode.  One that was refused waits for the      *)
(* mutex it holds.                                                         *)
Owner(t, d) == /\ call[t][d].rpc = "expand_start" /\ call[t][d].pc \in {"expand", "catch"}
               /\ mutex[d] # t
ModeInv(d) ==
    /\ mutex[d] # "free" => InCall(mutex[d], d, "expand_start", "catch")
    /\ tool["script"].rpc # "finalize" =>
         /\ ~maint[d] => thread[d].pc = "none"
         /\ \A t \in Tools : Owner(t, d) => maint[d] /\ thread[d].pc = "none"
         /\ \A t, u \in Tools : Owner(t, d) /\ Owner(u, d) => t = u
OInv == /\ maint \in [AllDaemons -> BOOLEAN] /\ mutex \in [AllDaemons -> Tools \cup {"free"}]
        /\ OneMigrationAtATime
        /\ \A t \in Tools, d \in AllDaemons :
              /\ call[t][d].rpc = "expand_finalize" => tool["script"].rpc = "finalize"
              /\ call[t][d].rpc # "none" => tool[t].pc = "wait"
        /\ tool["script"].rpc = "finalize" => tool["script"].pc \in {"wait", "done"}
        /\ \A d \in AllDaemons : ModeInv(d)

(* Call t of daemon d moves to p, and no other call does.                  *)
Put(f, g, t, d, p) ==
    \/ g = [f EXCEPT ![t][d].pc = p]
    \/ \E e : g = [f EXCEPT ![t][d].pc = p, ![t][d].err = e]
Moved(f, g, t, d, p) ==
    /\ g[t][d].pc = p /\ g[t][d].rpc = f[t][d].rpc
    /\ \A u \in Tools : u # t => g[u] = f[u]
    /\ \A u \in Tools, e \in AllDaemons : g[u][e].rpc = f[u][e].rpc
    /\ \A u \in Tools, e \in AllDaemons : e # d => g[u][e] = f[u][e]

LEMMA CallMoved ==
    ASSUME NEW f \in [Tools -> [AllDaemons -> CallType]], NEW t \in Tools, NEW d \in AllDaemons,
           NEW p \in {"expand", "catch", "answered"}, NEW g, Put(f, g, t, d, p)
    PROVE  Moved(f, g, t, d, p)
  <1>1. f[t] \in [AllDaemons -> CallType] /\ f[t][d] \in CallType
    BY Zenon
  <1>2. \E c : g = [f EXCEPT ![t] = [f[t] EXCEPT ![d] = c]] /\ c.pc = p /\ c.rpc = f[t][d].rpc
    <2>1. CASE g = [f EXCEPT ![t][d].pc = p]
      <3>1. [f[t][d] EXCEPT !.pc = p].pc = p /\ [f[t][d] EXCEPT !.pc = p].rpc = f[t][d].rpc
        BY <1>1, Zenon DEF CallType
      <3>2. QED  BY <2>1, <3>1, Zenon
    <2>2. ASSUME NEW e, g = [f EXCEPT ![t][d].pc = p, ![t][d].err = e]
          PROVE  \E c : g = [f EXCEPT ![t] = [f[t] EXCEPT ![d] = c]]
                        /\ c.pc = p /\ c.rpc = f[t][d].rpc
      <3> DEFINE b == [f[t][d] EXCEPT !.pc = p]
                 h == [f EXCEPT ![t][d].pc = p]
                 c == [b EXCEPT !.err = e]
      <3>1. b.pc = p /\ b.rpc = f[t][d].rpc /\ c.pc = p /\ c.rpc = f[t][d].rpc
        BY <1>1, Zenon DEF CallType
      <3>2. h[t] = [f[t] EXCEPT ![d] = b] /\ h[t][d] = b
        BY <1>1, Zenon
      <3>3. g = [h EXCEPT ![t] = [h[t] EXCEPT ![d] = c]]
        BY <2>2, <3>2, Zenon
      <3> HIDE DEF b, c
      <3>4. [h[t] EXCEPT ![d] = c] = [f[t] EXCEPT ![d] = c]
        BY <1>1, <3>2, Zenon
      <3>5. g = [f EXCEPT ![t] = [f[t] EXCEPT ![d] = c]]
        BY <3>2, <3>3, <3>4, Zenon
      <3>6. QED  BY <3>1, <3>5, Zenon
    <2>3. QED  BY <2>1, <2>2, Zenon DEF Put
  <1>3. PICK c : g = [f EXCEPT ![t] = [f[t] EXCEPT ![d] = c]] /\ c.pc = p /\ c.rpc = f[t][d].rpc
    BY <1>2, Zenon
  <1>4. g[t] = [f[t] EXCEPT ![d] = c] /\ \A u \in Tools : u # t => g[u] = f[u]
    BY <1>3, Zenon
  <1>5. g[t][d] = c /\ \A e \in AllDaemons : e # d => g[t][e] = f[t][e]
    BY <1>1, <1>4, Zenon
  <1>6. QED  BY <1>3, <1>4, <1>5, Zenon DEF Moved

LEMMA OInitially ==
    ASSUME Init
    PROVE  OInv
  <1>1. \A t \in Tools, d \in AllDaemons : call[t][d] = NoCall /\ ~Owner(t, d)
    BY Zenon DEF Init, Owner, NoCall
  <1>2. \A d \in AllDaemons : mutex[d] = "free" /\ thread[d].pc = "none"
    BY Zenon DEF Init, NoThread
  <1>3. tool["script"].rpc = "none" /\ ~overlap
    BY Zenon DEF Init, Tools
  <1>4. \A d \in AllDaemons : ModeInv(d)
    BY <1>1, <1>2, Zenon DEF ModeInv
  <1>5. QED  BY <1>1, <1>3, <1>4, Zenon DEF OInv, Init, OneMigrationAtATime, NoCall

(* A step that neither enters nor leaves a handler of expand_start.        *)
LEMMA OQuiet ==
    ASSUME OInv, UNCHANGED <<maint, mutex, overlap>>,
           \A d \in AllDaemons : (thread[d].pc = "none") = (thread'[d].pc = "none"),
           \A t \in Tools, d \in AllDaemons :
              /\ Owner(t, d)' => Owner(t, d)
              /\ InCall(t, d, "expand_start", "catch") => InCall(t, d, "expand_start", "catch")'
              /\ call'[t][d].rpc = "expand_finalize" => tool'["script"].rpc = "finalize"
              /\ call'[t][d].rpc # "none" => tool'[t].pc = "wait",
           tool["script"].rpc = "finalize" => tool'["script"].rpc = "finalize",
           tool'["script"].rpc = "finalize" => tool'["script"].pc \in {"wait", "done"}
    PROVE  OInv'
  <1>1. ASSUME NEW d \in AllDaemons PROVE ModeInv(d)'
    <2>1. ModeInv(d) /\ mutex[d] \in Tools \cup {"free"}
      BY Zenon DEF OInv
    <2>2. (mutex[d] # "free" => InCall(mutex[d], d, "expand_start", "catch"))'
      <3>1. SUFFICES ASSUME mutex[d] # "free"
                     PROVE  call'[mutex[d]][d].rpc = "expand_start" /\ call'[mutex[d]][d].pc = "catch"
        BY Zenon DEF InCall
      <3>2. mutex[d] \in Tools /\ InCall(mutex[d], d, "expand_start", "catch")
        BY <2>1, <3>1, Zenon DEF ModeInv
      <3>3. QED  BY <3>2, Zenon DEF InCall
    <2>3. ASSUME tool'["script"].rpc # "finalize"
          PROVE  /\ ~maint'[d] => thread'[d].pc = "none"
                 /\ \A t \in Tools : Owner(t, d)' => maint'[d] /\ thread'[d].pc = "none"
                 /\ \A t, u \in Tools : Owner(t, d)' /\ Owner(u, d)' => t = u
      <3>1. tool["script"].rpc # "finalize"
        BY <2>3, Zenon
      <3>2. QED  BY <2>1, <3>1, Zenon DEF ModeInv
    <2>4. QED  BY <2>2, <2>3, Zenon DEF ModeInv
  <1>2. OneMigrationAtATime'
    BY Zenon DEF OInv, OneMigrationAtATime
  <1>3. QED  BY <1>1, <1>2, Zenon DEF OInv

LEMMA OTool ==
    ASSUME Setting, MInv, OInv, NEW t \in Tools, Start(t) \/ Script
    PROVE  OInv'
  <1>1. UNCHANGED <<maint, mutex, overlap, thread>>
    BY Zenon DEF Start, forward_expand_start, forward_expand_start_out, Script, expand_setup,
           forward_expand_status, forward_expand_status_out, forward_expand_finalize,
           forward_expand_finalize_out
  <1>2. /\ tool \in [Tools -> ToolType] /\ call \in [Tools -> [AllDaemons -> CallType]]
        /\ "script" \in Tools /\ Len(Growth) = 1 /\ stage \in {0, 1}
        /\ tool["script"].pc # "setup" => stage = 1
        /\ tool["script"].rpc = "finalize" => tool["script"].pc \in {"wait", "done"}
        /\ \A u \in Tools, d \in AllDaemons :
              /\ call[u][d].rpc = "expand_finalize" => tool["script"].rpc = "finalize"
              /\ call[u][d].rpc # "none" => tool[u].pc = "wait"
    BY UnderWay, Zenon DEF MInv, MTypeInv, OInv, FileInv, Setting, Tools
  <1> DEFINE Sends(u, rpc, name) ==      \* a call of the tool begins
               /\ tool[u].pc \in {"start", "status", "finalize"}
               /\ tool' = [tool EXCEPT ![u] = [pc |-> "wait", rpc |-> rpc]]
               /\ \A d \in AllDaemons : call'[u][d].rpc \in {"none", name} /\ call'[u][d].pc \in {"posted", "answered", "idle"}
               /\ \A w \in Tools : w # u => call'[w] = call[w]
             Gathers(u) ==               \* or ends
               /\ tool[u].pc = "wait" /\ Answered(u)
               /\ \E p \in {"status", "finalize", "done"} :
                     /\ tool' = [tool EXCEPT ![u].pc = p]
                     /\ tool["script"].rpc = "finalize" /\ u = "script" => p = "done"
               /\ \A d \in AllDaemons : call'[u][d] = NoCall
               /\ \A w \in Tools : w # u => call'[w] = call[w]
             Moves(u) ==                 \* or nothing is sent
               /\ call' = call /\ tool[u].pc \in {"start", "setup"}
               /\ \E p \in {"status", "start", "done"} : tool' = [tool EXCEPT ![u].pc = p]
  <1>3. \E u \in Tools : \/ Sends(u, "start", "expand_start")
                         \/ Sends(u, "status", "expand_status")
                         \/ u = "script" /\ Sends(u, "finalize", "expand_finalize")
                         \/ Gathers(u) \/ Moves(u)
    <2>1. ASSUME NEW u \in Tools, NEW rpc, NEW arg, Broadcast(u, rpc, arg)
          PROVE  /\ \A d \in AllDaemons : call'[u][d].rpc \in {"none", rpc} /\ call'[u][d].pc \in {"posted", "answered", "idle"}
                 /\ \A w \in Tools : w # u => call'[w] = call[w]
      <3>1. PICK row \in [AllDaemons -> {[rpc |-> rpc, pc |-> "posted", arg |-> arg, err |-> 0],
                                        [rpc |-> rpc, pc |-> "answered", arg |-> arg, err |-> EBUSY],
                                        NoCall}] : call' = [call EXCEPT ![u] = row]
        BY <2>1, Posted, Zenon
      <3>2. \A d \in AllDaemons : row[d].rpc \in {"none", rpc} /\ row[d].pc \in {"posted", "answered", "idle"}
        BY SMTT(30) DEF NoCall
      <3>3. QED  BY <1>2, <3>1, <3>2, Zenon
    <2>2. ASSUME NEW u \in Tools, Gathered(u)
          PROVE  /\ \A d \in AllDaemons : call'[u][d] = NoCall
                 /\ \A w \in Tools : w # u => call'[w] = call[w]
      BY <1>2, <2>2, Zenon DEF Gathered
    <2>3. CASE forward_expand_start(t)
      <3>1. CASE expand_start_refused(get_expansion_host_num(hostsfile))
        <4>1. tool' = [tool EXCEPT ![t].pc = IF t = "script" THEN "status" ELSE "done"]
              /\ call' = call /\ tool[t].pc = "start"
          BY <2>3, <3>1, Zenon DEF forward_expand_start
        <4>2. Moves(t)
          BY <4>1, Zenon
        <4>3. QED  BY <4>2, Zenon
      <3>2. CASE ~expand_start_refused(get_expansion_host_num(hostsfile))
        <4>1. \E arg : Broadcast(t, "expand_start", arg)
          BY <2>3, <3>2, Zenon DEF forward_expand_start
        <4>2. tool' = [tool EXCEPT ![t] = [pc |-> "wait", rpc |-> "start"]] /\ tool[t].pc = "start"
          BY <2>3, <3>2, Zenon DEF forward_expand_start
        <4>3. Sends(t, "start", "expand_start")
          BY <2>1, <4>1, <4>2, Zenon
        <4>4. QED  BY <4>3, Zenon
      <3>3. QED  BY <3>1, <3>2, Zenon
    <2>4. CASE forward_expand_start_out(t)
      <3>1. /\ tool[t].pc = "wait" /\ tool[t].rpc = "start" /\ Answered(t) /\ Gathered(t)
            /\ \E p \in {"status", "done"} : tool' = [tool EXCEPT ![t].pc = p]
        BY <2>4, Zenon DEF forward_expand_start_out
      <3>2. Gathers(t)
        BY <2>2, <3>1, Zenon
      <3>3. QED  BY <3>2, Zenon
    <2>5. CASE forward_expand_status
      <3>1. Sends("script", "status", "expand_status")
        BY <1>2, <2>1, <2>5, Zenon DEF forward_expand_status
      <3>2. QED  BY <1>2, <3>1, Zenon
    <2>6. CASE forward_expand_status_out
      <3>1. /\ tool["script"].pc = "wait" /\ tool["script"].rpc = "status"
            /\ Answered("script") /\ Gathered("script")
            /\ \E p \in {"status", "finalize"} : tool' = [tool EXCEPT !["script"].pc = p]
        BY <2>6, Zenon DEF forward_expand_status_out
      <3>2. Gathers("script")
        BY <1>2, <2>2, <3>1, Zenon
      <3>3. QED  BY <1>2, <3>2, Zenon
    <2>7. CASE forward_expand_finalize
      <3>1. Sends("script", "finalize", "expand_finalize")
        BY <1>2, <2>1, <2>7, Zenon DEF forward_expand_finalize
      <3>2. QED  BY <1>2, <3>1, Zenon
    <2>8. CASE forward_expand_finalize_out
      <3>1. /\ tool["script"].pc = "wait" /\ Answered("script") /\ Gathered("script")
            /\ tool' = [tool EXCEPT !["script"].pc = "done"]
        BY <1>2, <2>8 DEF forward_expand_finalize_out
      <3>2. Gathers("script")
        BY <1>2, <2>2, <3>1, Zenon
      <3>3. QED  BY <1>2, <3>2, Zenon
    <2>9. CASE expand_setup
      <3>1. Moves("script")
        BY <2>9, Zenon DEF expand_setup
      <3>2. QED  BY <1>2, <3>1, Zenon
    <2>10. QED  BY <2>3, <2>4, <2>5, <2>6, <2>7, <2>8, <2>9, Zenon DEF Start, Script
  <1> DEFINE Safe == /\ \A w \in Tools, d \in AllDaemons :
                           /\ Owner(w, d)' => Owner(w, d)
                           /\ InCall(w, d, "expand_start", "catch") => InCall(w, d, "expand_start", "catch")'
                           /\ call'[w][d].rpc = "expand_finalize" => tool'["script"].rpc = "finalize"
                           /\ call'[w][d].rpc # "none" => tool'[w].pc = "wait"
                     /\ tool["script"].rpc = "finalize" => tool'["script"].rpc = "finalize"
                     /\ tool'["script"].rpc = "finalize" => tool'["script"].pc \in {"wait", "done"}
  <1>4. SUFFICES Safe
    BY <1>1, OQuiet, Zenon
  <1>5. PICK u \in Tools : \/ Sends(u, "start", "expand_start")
                           \/ Sends(u, "status", "expand_status")
                           \/ u = "script" /\ Sends(u, "finalize", "expand_finalize")
                           \/ Gathers(u) \/ Moves(u)
    BY <1>3, Zenon
  <1>6. ASSUME NEW rpc \in {"start", "status", "finalize"},
               NEW name \in {"expand_start", "expand_status", "expand_finalize"},
               Sends(u, rpc, name), rpc = "finalize" => u = "script",
               name = "expand_finalize" => rpc = "finalize"
        PROVE  Safe
    <2>1. /\ \A d \in AllDaemons : /\ call[u][d].rpc = "none" /\ call'[u][d].pc \in {"posted", "answered", "idle"}
                                   /\ call'[u][d].rpc \in {"none", name}
          /\ \A w \in Tools : w # u => call'[w] = call[w] /\ tool'[w] = tool[w]
          /\ tool'[u] = [pc |-> "wait", rpc |-> rpc]
      BY <1>2, <1>6, Zenon
    <2>2. tool["script"].rpc = "finalize" => u # "script"
      BY <1>2, <1>6, Zenon DEF ToolType
    <2>3. /\ tool["script"].rpc = "finalize" => tool'["script"].rpc = "finalize"
          /\ tool'["script"].rpc = "finalize" => tool'["script"].pc \in {"wait", "done"}
          /\ name = "expand_finalize" => tool'["script"].rpc = "finalize"
      BY <1>2, <1>6, <2>1, <2>2, Zenon
    <2>4. ASSUME NEW w \in Tools, NEW d \in AllDaemons
          PROVE  /\ Owner(w, d)' => Owner(w, d)
                 /\ InCall(w, d, "expand_start", "catch") => InCall(w, d, "expand_start", "catch")'
                 /\ call'[w][d].rpc = "expand_finalize" => tool'["script"].rpc = "finalize"
                 /\ call'[w][d].rpc # "none" => tool'[w].pc = "wait"
      <3>1. CASE w = u
        <4>0. /\ call[u][d].rpc = "none" /\ call'[u][d].pc \in {"posted", "answered", "idle"}
              /\ call'[u][d].rpc \in {"none", name}
          BY <2>1, Zenon
        <4>1. call'[u][d].pc \notin {"expand", "catch"} /\ tool'[u].pc = "wait"
          BY <2>1, <4>0
        <4>2. ~Owner(u, d)' /\ ~InCall(u, d, "expand_start", "catch")
          BY <4>0, <4>1, Zenon DEF Owner, InCall
        <4>3. QED  BY <2>3, <3>1, <4>0, <4>1, <4>2, Zenon
      <3>2. CASE w # u
        <4>1. call'[w] = call[w] /\ tool'[w] = tool[w]
          BY <2>1, <3>2, Zenon
        <4>2. /\ Owner(w, d)' <=> Owner(w, d)
              /\ InCall(w, d, "expand_start", "catch")' <=> InCall(w, d, "expand_start", "catch")
          BY <1>1, <4>1, Zenon DEF Owner, InCall
        <4>3. /\ call[w][d].rpc = "expand_finalize" => tool["script"].rpc = "finalize"
              /\ call[w][d].rpc # "none" => tool[w].pc = "wait"
          BY <1>2, Zenon
        <4>4. QED  BY <2>3, <4>1, <4>2, <4>3, Zenon
      <3>3. QED  BY <3>1, <3>2, Zenon
    <2>5. QED  BY <2>3, <2>4, Zenon
  <1>7. ASSUME Gathers(u) PROVE Safe
    <2>1. \A d \in AllDaemons : call[u][d].rpc = "none" \/ call[u][d].pc = "answered"
      BY <1>7, Zenon DEF Answered, Targets
    <2>2. /\ \A w \in Tools : w # u => call'[w] = call[w] /\ tool'[w] = tool[w]
          /\ \A d \in AllDaemons : call'[u][d].rpc = "none"
          /\ tool'[u].rpc = tool[u].rpc
          /\ tool'["script"].rpc = "finalize" /\ u = "script" => tool'[u].pc = "done"
      BY <1>2, <1>7 DEF NoCall, ToolType
    <2>3. QED  BY <1>1, <1>2, <2>1, <2>2 DEF Owner, InCall
  <1>8. ASSUME Moves(u) PROVE Safe
    <2>1. /\ \A w \in Tools : w # u => tool'[w] = tool[w]
          /\ tool'[u].rpc = tool[u].rpc /\ call' = call
          /\ \A d \in AllDaemons : call[u][d].rpc = "none"
      BY <1>2, <1>8 DEF ToolType
    <2>2. tool["script"].rpc = "finalize" => u # "script"
      BY <1>2, <1>8, Zenon
    <2>3. QED  BY <1>1, <1>2, <2>1, <2>2 DEF Owner, InCall
  <1>9. QED  BY <1>5, <1>6, <1>7, <1>8, Zenon

LEMMA OThread ==
    ASSUME MInv, OInv, NEW d \in AllDaemons, Thread(d)
    PROVE  OInv'
  <1>1. /\ NotThread /\ \E th : SetThread(d, th) /\ th.pc # "none" /\ thread[d].pc # "none"
    <2>1. CASE expand_abt(d)
      BY <2>1, Zenon DEF expand_abt, NoThread
    <2>2. CASE skip_item(d) \/ skip_unreadable(d)
      <3>1. PICK i \in thread[d].todo : SetThread(d, [thread[d] EXCEPT !.todo = @ \ {i}])
        BY <2>2, Zenon DEF skip_item, skip_unreadable
      <3>2. [thread[d] EXCEPT !.todo = @ \ {i}].pc = thread[d].pc
        BY Zenon DEF MInv, MTypeInv, ThreadType
      <3>3. thread[d].pc # "none" /\ NotThread
        BY <2>2, Zenon DEF skip_item, skip_unreadable
      <3>4. QED  BY <3>1, <3>2, <3>3, Zenon
    <2>A. ASSUME NEW i, NEW p, NEW err, Sending(d, i, p, err), p # "none"
          PROVE  \E th : SetThread(d, th) /\ th.pc # "none"
      <3>1. [pc |-> p, todo |-> thread[d].todo \ {i}, item |-> i, err |-> err].pc = p
        BY Zenon
      <3>2. QED  BY <2>A, <3>1, Zenon DEF Sending
    <2>3. CASE forward_metadata(d)
      BY <2>3, <2>A, Zenon DEF forward_metadata
    <2>4. CASE forward_data(d)
      <3>1. \E i, err : Sending(d, i, "writing", err) \/ Sending(d, i, "sent", err)
        BY <2>4, Zenon DEF forward_data
      <3>2. thread[d].pc # "none" /\ NotThread
        BY <2>4, Zenon DEF forward_data
      <3>3. QED  BY <2>A, <3>1, <3>2, Zenon
    <2>B. CASE write_chunk(d)
      <3>1. \E i, err : Sending(d, i, "sent", err)
        BY <2>B, Zenon DEF write_chunk
      <3>2. thread[d].pc # "none" /\ NotThread
        BY <2>B, Zenon DEF write_chunk
      <3>3. QED  BY <2>A, <3>1, <3>2, Zenon
    <2>5. CASE remove_migrated(d)
      BY <2>5, Zenon DEF remove_migrated, NoThread
    <2>6. CASE redistribute_data(d) \/ expand_abt_done(d)
      BY <2>6, Zenon DEF redistribute_data, expand_abt_done, NoThread
    <2>7. QED  BY <2>1, <2>2, <2>3, <2>4, <2>B, <2>5, <2>6, Zenon DEF Thread
  <1>2. UNCHANGED <<maint, mutex, overlap, call, tool>>
    BY <1>1, Zenon DEF NotThread
  <1>3. \A e \in AllDaemons : (thread[e].pc = "none") = (thread'[e].pc = "none")
    BY <1>1, Zenon DEF SetThread, MInv, MTypeInv
  <1>4. \A t \in Tools, e \in AllDaemons :
           /\ call[t][e].rpc = "expand_finalize" => tool["script"].rpc = "finalize"
           /\ call[t][e].rpc # "none" => tool[t].pc = "wait"
    BY Zenon DEF OInv
  <1>5. \A t \in Tools, e \in AllDaemons :
           (Owner(t, e)' <=> Owner(t, e))
           /\ (InCall(t, e, "expand_start", "catch")' <=> InCall(t, e, "expand_start", "catch"))
    BY <1>2, Zenon DEF Owner, InCall
  <1>6. tool["script"].rpc = "finalize" => tool["script"].pc \in {"wait", "done"}
    BY Zenon DEF OInv
  <1>7. QED  BY <1>2, <1>3, <1>4, <1>5, <1>6, OQuiet, Zenon

(* A handler on daemon d.                                                  *)
LEMMA OFrame ==
    ASSUME OInv, NEW d \in AllDaemons, tool' = tool,
           maint' \in [AllDaemons -> BOOLEAN], mutex' \in [AllDaemons -> Tools \cup {"free"}],
           overlap' => overlap \/ tool["script"].rpc = "finalize",
           \A t \in Tools, e \in AllDaemons : call'[t][e].rpc = call[t][e].rpc,
           \A e \in AllDaemons \ {d} :
              /\ maint'[e] = maint[e] /\ mutex'[e] = mutex[e] /\ thread'[e] = thread[e]
              /\ \A t \in Tools : call'[t][e] = call[t][e],
           ModeInv(d)'
    PROVE  OInv'
  <1>1. ASSUME NEW e \in AllDaemons PROVE ModeInv(e)'
    <2>1. CASE e = d
      BY <2>1, ZenonT(30)
    <2>2. CASE e # d
      <3>1. ModeInv(e) /\ mutex[e] \in Tools \cup {"free"}
        BY Zenon DEF OInv
      <3>2. /\ maint'[e] = maint[e] /\ mutex'[e] = mutex[e] /\ thread'[e] = thread[e]
            /\ \A t \in Tools : call'[t][e] = call[t][e]
        BY <2>2, ZenonT(30)
      <3>3. (mutex[e] # "free" => InCall(mutex[e], e, "expand_start", "catch"))'
        <4>1. SUFFICES ASSUME mutex[e] # "free" PROVE InCall(mutex[e], e, "expand_start", "catch")'
          BY <3>2, Zenon
        <4>2. mutex[e] \in Tools /\ InCall(mutex[e], e, "expand_start", "catch")
          BY <3>1, <4>1, Zenon DEF ModeInv
        <4>3. call'[mutex[e]][e] = call[mutex[e]][e]
          BY <3>2, <4>2, Zenon
        <4>4. QED  BY <3>2, <4>2, <4>3, Zenon DEF InCall
      <3>4. \A t \in Tools : Owner(t, e)' <=> Owner(t, e)
        BY <3>2, Zenon DEF Owner
      <3>5. QED  BY <3>1, <3>2, <3>3, <3>4 DEF ModeInv
    <2>3. QED  BY <2>1, <2>2, Zenon
  <1>2. OneMigrationAtATime'
    BY Zenon DEF OInv, OneMigrationAtATime
  <1>3. QED  BY <1>1, <1>2 DEF OInv

LEMMA OHandle ==
    ASSUME Setting, MInv, OInv, NEW t \in Tools, NEW d \in AllDaemons, Handle(t, d)
    PROVE  OInv'
  <1>1. /\ call \in [Tools -> [AllDaemons -> CallType]] /\ thread \in [AllDaemons -> ThreadType]
        /\ maint \in [AllDaemons -> BOOLEAN] /\ mutex \in [AllDaemons -> Tools \cup {"free"}]
        /\ ModeInv(d) /\ "free" \notin Tools
    BY ExpansionAssumption DEF MInv, MTypeInv, OInv
  <1> DEFINE To(p) == Moved(call, call', t, d, p)
  <1>2. ASSUME NEW p \in {"expand", "catch", "answered"},
               \/ call' = [call EXCEPT ![t][d].pc = p]
               \/ \E e : call' = [call EXCEPT ![t][d].pc = p, ![t][d].err = e]
        PROVE  To(p)
    <2>1. Put(call, call', t, d, p)
      BY <1>2, Zenon DEF Put
    <2>2. QED  BY <1>1, <2>1, CallMoved
  <1>A. \A p : To(p) => /\ call'[t][d].pc = p /\ call'[t][d].rpc = call[t][d].rpc
                        /\ \A u \in Tools : u # t => call'[u] = call[u]
                        /\ \A u \in Tools, e \in AllDaemons : call'[u][e].rpc = call[u][e].rpc
                        /\ \A u \in Tools, e \in AllDaemons : e # d => call'[u][e] = call[u][e]
    BY Zenon DEF Moved
  <1> HIDE DEF To
  <1>3. Owner(t, d) <=> /\ call[t][d].rpc = "expand_start" /\ call[t][d].pc \in {"expand", "catch"}
                        /\ mutex[d] # t
    BY Zenon DEF Owner
  <1>B. ASSUME To("answered"), UNCHANGED mutex
        PROVE  \A u \in Tools : Owner(u, d)' => Owner(u, d) /\ u # t
    <2>0. call'[t][d].pc = "answered"
      BY <1>A, <1>B, Zenon
    <2>1. ~Owner(t, d)'
      BY <2>0, Zenon DEF Owner
    <2>2. \A u \in Tools : u # t => call'[u] = call[u]
      BY <1>A, <1>B, Zenon
    <2>3. QED  BY <1>B, <2>1, <2>2, Zenon DEF Owner
  <1>4. CASE rpc_srv_expand_start(t, d)
    <2>1. /\ mutex[d] = "free" /\ UNCHANGED <<tool, thread, overlap>>
          /\ call[t][d].rpc = "expand_start" /\ call[t][d].pc = "posted"
      BY <1>4, Zenon DEF rpc_srv_expand_start, maintenance_mode, InCall
    <2>2. CASE maint[d]
      <3>1. /\ mutex' = [mutex EXCEPT ![d] = t] /\ maint' = maint
            /\ To("catch")
        BY <1>2, <1>4, <2>2, Zenon DEF rpc_srv_expand_start, maintenance_mode
      <3>2. \A u \in Tools : Owner(u, d)' => Owner(u, d)
        <4>1. SUFFICES ASSUME NEW u \in Tools, Owner(u, d)' PROVE Owner(u, d)
          BY Zenon
        <4>2. u # t
          BY <1>A, <1>1, <3>1, <4>1, Zenon DEF Owner
        <4>3. call'[u] = call[u]
          BY <1>A, <3>1, <4>2, Zenon
        <4>4. QED  BY <1>A, <1>1, <2>1, <4>1, <4>3 DEF Owner
      <3>3. ModeInv(d)'
        <4>1. (mutex[d] # "free" => InCall(mutex[d], d, "expand_start", "catch"))'
          BY <1>A, <1>1, <2>1, <3>1, Zenon DEF InCall
        <4>2. QED  BY <1>1, <2>1, <2>2, <3>1, <3>2, <4>1, Zenon DEF ModeInv
      <3>4. QED  BY <1>A, <1>1, <2>1, <3>1, <3>3, OFrame, ZenonT(30)
    <2>3. CASE ~maint[d]
      <3>1. /\ maint' = [maint EXCEPT ![d] = TRUE] /\ mutex' = mutex
            /\ To("expand")
        BY <1>2, <1>4, <2>3 DEF rpc_srv_expand_start, maintenance_mode
      <3>2. \A u \in Tools : Owner(u, d)' => Owner(u, d) \/ u = t
        BY <1>A, <3>1, Zenon DEF Owner
      <3>3. maint'[d] = TRUE /\ mutex'[d] = "free"
        BY <1>1, <2>1, <3>1, Zenon
      <3>4. ModeInv(d)'
        BY <1>1, <2>1, <2>3, <3>2, <3>3, Zenon DEF ModeInv
      <3>5. QED  BY <1>A, <1>1, <2>1, <3>1, <3>4, OFrame, ZenonT(30)
    <2>4. QED  BY <2>2, <2>3, Zenon
  <1>5. CASE expand_start(t, d)
    <2>1. /\ call[t][d].rpc = "expand_start" /\ call[t][d].pc = "expand"
          /\ UNCHANGED <<tool, maint, mutex>>
      BY <1>5, Zenon DEF expand_start, InCall
    <2>2. mutex[d] # t
      BY <1>1, <2>1, Zenon DEF ModeInv, InCall
    <2>3. Owner(t, d)
      BY <1>3, <2>1, <2>2, Zenon
    <2>4. mutex[d] # "free" => mutex[d] # t /\ InCall(mutex[d], d, "expand_start", "catch")
      BY <1>1, <2>2, Zenon DEF ModeInv
    <2>5. CASE To("catch") /\ UNCHANGED <<thread, overlap>>
      <3>1. \A u \in Tools : Owner(u, d)' => Owner(u, d)
        BY <1>A, <2>1, <2>3, <2>5, Zenon DEF Owner
      <3>2. (mutex[d] # "free" => InCall(mutex[d], d, "expand_start", "catch"))'
        BY <1>A, <1>1, <2>1, <2>4, <2>5, ZenonT(30) DEF InCall
      <3>3. ModeInv(d)'
        BY <1>1, <2>1, <2>5, <3>1, <3>2 DEF ModeInv
      <3>4. QED  BY <1>A, <1>1, <2>1, <2>5, <3>3, OFrame, ZenonT(30)
    <2>6. CASE /\ thread' = [thread EXCEPT ![d] = [NoThread EXCEPT !.pc = "created"]]
               /\ overlap' = (overlap \/ thread[d].pc \notin {"none", "done"})
               /\ To("answered")
      <3>1. \A u \in Tools : Owner(u, d)' => Owner(u, d) /\ u # t
        BY <1>B, <2>1, <2>6, Zenon
      <3>2. (mutex[d] # "free" => InCall(mutex[d], d, "expand_start", "catch"))'
        BY <1>A, <1>1, <2>1, <2>4, <2>6, Zenon DEF InCall
      <3>3. tool["script"].rpc # "finalize" => maint[d] /\ thread[d].pc = "none"
        BY <1>1, <2>3, Zenon DEF ModeInv
      <3>4. ModeInv(d)'
        <4>1. tool["script"].rpc # "finalize" => \A u \in Tools : ~Owner(u, d)'
          BY <1>1, <2>3, <3>1, Zenon DEF ModeInv
        <4>2. QED  BY <2>1, <3>2, <3>3, <4>1, Zenon DEF ModeInv
      <3>5. overlap' => overlap \/ tool["script"].rpc = "finalize"
        BY <2>6, <3>3, Zenon
      <3>6. \A e \in AllDaemons \ {d} : thread'[e] = thread[e]
        BY <1>1, <2>6, ZenonT(30)
      <3>7. QED  BY <1>A, <1>1, <2>1, <2>6, <3>4, <3>5, <3>6, OFrame, SMTT(30)
    <2>7. QED  BY <1>2, <1>5, <2>5, <2>6, Zenon DEF expand_start, Answer
  <1>6. CASE expand_start_failed(t, d)
    <2>1. /\ call[t][d].rpc = "expand_start" /\ call[t][d].pc = "catch" /\ mutex[d] = "free"
          /\ maint' = [maint EXCEPT ![d] = FALSE]
          /\ To("answered") /\ UNCHANGED <<tool, mutex, thread, overlap>>
      BY <1>2, <1>6, Zenon DEF expand_start_failed, InCall, Answer
    <2>2. Owner(t, d)
      BY <1>1, <1>3, <2>1, Zenon
    <2>3. \A u \in Tools : Owner(u, d)' => Owner(u, d) /\ u # t
      BY <1>B, <2>1, Zenon
    <2>4. ModeInv(d)'
      BY <1>1, <2>1, <2>2, <2>3, Zenon DEF ModeInv
    <2>5. QED  BY <1>A, <1>1, <2>1, <2>4, OFrame, ZenonT(30)
  <1>7. CASE rpc_srv_expand_status(t, d)
    <2>1. /\ call[t][d].rpc = "expand_status" /\ UNCHANGED <<tool, maint, mutex, thread, overlap>>
          /\ To("answered")
      BY <1>2, <1>7, ZenonT(30) DEF rpc_srv_expand_status, InCall, Answer
    <2>2. \A u \in Tools : Owner(u, d)' => Owner(u, d)
      BY <1>A, <2>1, Zenon DEF Owner
    <2>3. (mutex[d] # "free" => InCall(mutex[d], d, "expand_start", "catch"))'
      BY <1>A, <1>1, <2>1, SMTT(30) DEF ModeInv, InCall
    <2>4. ModeInv(d)'
      BY <1>1, <2>1, <2>2, <2>3, ZenonT(30) DEF ModeInv
    <2>5. QED  BY <1>A, <1>1, <2>1, <2>4, OFrame, SMTT(30)
  <1>8. CASE rpc_srv_expand_finalize(t, d)
    <2>1. /\ call[t][d].rpc = "expand_finalize" /\ mutex[d] = "free"
          /\ maint' = [maint EXCEPT ![d] = FALSE] /\ UNCHANGED <<tool, mutex, thread, overlap>>
          /\ To("answered")
      BY <1>2, <1>8, Zenon DEF rpc_srv_expand_finalize, InCall, Answer
    <2>2. tool["script"].rpc = "finalize"
      BY <2>1, Zenon DEF OInv
    <2>3. ModeInv(d)'
      BY <2>1, <2>2 DEF ModeInv
    <2>4. QED  BY <1>A, <1>1, <2>1, <2>3, OFrame, ZenonT(30)
  <1>9. QED  BY <1>4, <1>5, <1>6, <1>7, <1>8, Zenon DEF Handle

LEMMA OLost ==
    ASSUME MInv, OInv, NEW t \in Tools, NEW d \in AllDaemons, rpc_lost(t, d)
    PROVE  OInv'
  <1>1. /\ UNCHANGED <<maint, mutex, overlap, thread, tool>>
        /\ call[t][d].pc \in {"posted", "answered"}
        /\ Put(call, call', t, d, "answered")
    BY Zenon DEF rpc_lost, Put
  <1>2. Moved(call, call', t, d, "answered")
    BY <1>1, CallMoved, Zenon DEF MInv, MTypeInv
  <1>3. ASSUME NEW u \in Tools, NEW e \in AllDaemons
        PROVE  /\ Owner(u, e)' => Owner(u, e)
               /\ InCall(u, e, "expand_start", "catch") => InCall(u, e, "expand_start", "catch")'
               /\ call'[u][e].rpc = call[u][e].rpc
    <2>1. CASE u = t /\ e = d
      <3>1. call'[t][d].pc = "answered" /\ call'[t][d].rpc = call[t][d].rpc
        BY <1>2, Zenon DEF Moved
      <3>2. QED  BY <1>1, <2>1, <3>1, Zenon DEF Owner, InCall
    <2>2. CASE u # t \/ e # d
      <3>1. call'[u][e] = call[u][e]
        BY <1>2, <2>2, Zenon DEF Moved
      <3>2. QED  BY <1>1, <3>1, Zenon DEF Owner, InCall
    <2>3. QED  BY <2>1, <2>2, Zenon
  <1>4. /\ \A u \in Tools, e \in AllDaemons :
              /\ call[u][e].rpc = "expand_finalize" => tool["script"].rpc = "finalize"
              /\ call[u][e].rpc # "none" => tool[u].pc = "wait"
        /\ tool["script"].rpc = "finalize" => tool["script"].pc \in {"wait", "done"}
    BY Zenon DEF OInv
  <1>5. QED  BY <1>1, <1>3, <1>4, OQuiet, Zenon

(* maintenance_mode keeps a second expansion out: however many operators   *)
(* ask for it, and however their requests are served, no daemon begins to  *)
(* migrate while it migrates, until the expansion is finalized.            *)
THEOREM OneMigrationCorrect ==
    ASSUME Setting
    PROVE  Spec => []OneMigrationAtATime
  <1>1. Init => OInv
    BY OInitially, Zenon
  <1>2. MInv /\ OInv /\ [Next]_vars => OInv'
    <2>1. SUFFICES ASSUME MInv, OInv, [Next]_vars PROVE OInv'
      BY Zenon
    <2>2. "script" \in Tools
      BY Zenon DEF Tools
    <2>3. CASE Script
      BY <2>1, <2>2, <2>3, OTool
    <2>4. ASSUME NEW t \in Tools, Start(t) PROVE OInv'
      BY <2>1, <2>4, OTool
    <2>5. ASSUME NEW t \in Tools, NEW d \in AllDaemons, Handle(t, d) \/ rpc_lost(t, d) PROVE OInv'
      BY <2>1, <2>5, OHandle, OLost, Zenon
    <2>6. ASSUME NEW d \in AllDaemons, Thread(d) PROVE OInv'
      BY <2>1, <2>6, OThread, ZenonT(30)
    <2>7. CASE UNCHANGED vars
      BY <2>1, <2>7 DEF vars, OInv, ModeInv, Owner, InCall, OneMigrationAtATime
    <2>8. QED  BY <2>1, <2>3, <2>4, <2>5, <2>6, <2>7 DEF Next
  <1>3. OInv => OneMigrationAtATime
    BY Zenon DEF OInv
  <1>4. QED  BY <1>1, <1>2, <1>3, MInductive, PTL DEF Spec
=============================================================================
