----------------------- MODULE MetadataStore_proofs -----------------------
(***************************************************************************)
(* The fold of append operands into the reservation map, the types of      *)
(* merged entries and of the daemon's state, what a step of the daemon may *)
(* do to handlers, files and live RPCs, the invariant of the store, and    *)
(* that appends get offsets of their own, for any number of RPCs, paths,   *)
(* sizes and merge ids.                                                    *)
(***************************************************************************)
EXTENDS MetadataStore, TLAPS
LOCAL INSTANCE WellFoundedInduction

-----------------------------------------------------------------------------
(* The reservation map after a fold.                                       *)

\* A nonempty set of positions in a log has a last one.
LEMMA LastPosition ==
    ASSUME NEW n \in Nat, NEW S \in SUBSET (1..n), S # {}
    PROVE  \E k \in S : \A j \in S : j <= k
<1> DEFINE R == {ss \in Nat \X Nat : ss[1] < ss[2]}
           T == {n - k : k \in S}
<1>1. IsWellFoundedOn(R, Nat)
  BY NatLessThanWellFounded, Zenon DEF OpToRel
<1>2. T \subseteq Nat /\ T # {}
  <2>1. \A k \in S : k \in Nat /\ k <= n
    OBVIOUS
  <2>2. \A k \in S : n - k \in Nat
    BY <2>1
  <2>3. PICK k \in S : TRUE
    BY Zenon
  <2>4. n - k \in T
    BY Zenon
  <2> QED BY <2>2, <2>4, Zenon
<1> HIDE DEF R
<1>3. PICK x \in T : \A y \in T : ~ (<<y, x>> \in R)
  BY <1>1, <1>2, WFMin, Zenon
<1>4. PICK k \in S : x = n - k
  BY <1>3, Zenon
<1>5. ASSUME NEW j \in S PROVE j <= k
  <2>1. n - j \in T
    BY Zenon
  <2>2. ~ (n - j < n - k)
    BY <2>1, <1>2, <1>3, <1>4, Zenon DEF R
  <2> QED BY <2>2
<1> QED BY <1>5, Zenon

\* A fold leaves under an id what was there, or stores the offset of one of
\* the operands that carry the id.
LEMMA PutsFacts ==
    ASSUME NEW res \in Reserve, NEW s \in Seq(Reservation)
    PROVE  /\ Puts(res, s) \in Reserve
           /\ \A i \in MergeIds :
                 \/ /\ Puts(res, s)[i] = res[i]
                    /\ \A k \in DOMAIN s : s[k].id # i
                 \/ \E k \in DOMAIN s :
                       s[k].id = i /\ Puts(res, s)[i] = s[k].at
<1>1. ASSUME NEW i \in MergeIds
      PROVE  \/ /\ Puts(res, s)[i] = res[i]
                /\ \A k \in DOMAIN s : s[k].id # i
             \/ \E k \in DOMAIN s : s[k].id = i /\ Puts(res, s)[i] = s[k].at
  <2> DEFINE at == {k \in DOMAIN s : s[k].id = i}
  <2>1. CASE at = {}
    BY <2>1, Zenon DEF Puts
  <2>2. CASE at # {}
    <3>1. at \in SUBSET (1..Len(s)) /\ Len(s) \in Nat
      OBVIOUS
    <3>2. \E k \in at : \A j \in at : j <= k
      BY <2>2, <3>1, LastPosition, Zenon
    <3> DEFINE last == CHOOSE k \in at : \A j \in at : j <= k
    <3>3. last \in at
      BY <3>2, Zenon
    <3>4. Puts(res, s)[i] = s[last].at
      BY <2>2, Zenon DEF Puts
    <3> QED BY <3>3, <3>4, Zenon
  <2> QED BY <2>1, <2>2, Zenon
<1>2. \A k \in DOMAIN s : s[k].at \in Nat
  <2>1. \A k \in DOMAIN s : s[k] \in Reservation
    OBVIOUS
  <2> QED BY <2>1, Zenon DEF Reservation
<1>3. Puts(res, s) \in Reserve
  <2>1. \A i \in MergeIds : Puts(res, s)[i] \in Nat \cup {NoOffset}
    BY <1>1, <1>2, Zenon DEF Reserve
  <2>2. Puts(res, s) = [i \in MergeIds |-> Puts(res, s)[i]]
    BY DEF Puts
  <2> HIDE DEF Puts
  <2> QED BY <2>1, <2>2, Zenon DEF Reserve
<1> QED BY <1>1, <1>3, Zenon

-----------------------------------------------------------------------------
(* The types of merged entries.                                            *)

\* Writing an operand to a key (db_->Merge) gives a well-formed entry.
LEMMA MergeTypes ==
    ASSUME NEW e \in Entry, NEW kind \in Kinds, NEW size \in Nat
    PROVE  /\ Absent \in Entry
           /\ Value(kind, size) \in Entry
           /\ MergeCreate(e, kind, size) \in Entry
           /\ MergeIncrease(e, size) \in Entry
           /\ MergeDecrease(e, size) \in Entry
<1>1. /\ Absent \in Entry
      /\ Broken \in Entry
      /\ Value(kind, size) \in Entry
  BY DEF Absent, Broken, Value, Entry, States, Kinds
<1> QED
  BY <1>1, Zenon
  DEF MergeCreate, MergeIncrease, MergeDecrease, MergeInto, Entry

\* So does an append operand, whose offset is the size of the file.
LEMMA MergeAppendType ==
    ASSUME NEW e \in Entry, NEW size \in Nat, NEW id \in MergeIds
    PROVE  MergeAppend(e, size, id) \in Entry
<1>1. Append(e.pend, [id |-> id, at |-> e.size]) \in Seq(Reservation)
  BY DEF Entry, Reservation
<1>2. Broken \in Entry
  BY DEF Broken, Entry, States, Kinds
<1> QED
  BY <1>1, <1>2 DEF MergeAppend, MergeInto, Entry

\* A fold of the oldest operands keeps the entry and the map well-formed.
LEMMA FoldTypes ==
    ASSUME NEW e \in Entry, NEW k \in 1..Len(e.pend)
    PROVE  /\ Folded(e, k) \in Entry
           /\ SubSeq(e.pend, 1, k) \in Seq(Reservation)
<1>1. e.pend \in Seq(Reservation)
  BY Zenon DEF Entry
<1>2. /\ SubSeq(e.pend, k + 1, Len(e.pend)) \in Seq(Reservation)
      /\ SubSeq(e.pend, 1, k) \in Seq(Reservation)
  BY <1>1
<1> QED
  BY <1>2, Zenon DEF Folded, Entry

-----------------------------------------------------------------------------
(* Type correctness.                                                       *)

\* What a write to one path does to the store and its size history.
LEMMA WriteType ==
    ASSUME TypeOK, NEW p \in Paths, NEW e \in Entry, Write(p, e)
    PROVE  /\ db' \in [Paths -> Entry]
           /\ peak' \in [Paths -> Nat \cup {-1}]
  BY Zenon DEF TypeOK, Write, Entry

\* A read (FullMergeV2 in db_->Get) keeps the reservation map well-formed.
LEMMA GetType ==
    ASSUME TypeOK, NEW p \in Paths, Get(p)
    PROVE  reserve' \in Reserve
<1>1. db[p].pend \in Seq(Reservation)
  BY Zenon DEF TypeOK, Entry
<1>2. Puts(reserve, db[p].pend) \in Reserve
  BY <1>1, PutsFacts, Zenon DEF TypeOK
<1> QED
  BY <1>2, Zenon DEF TypeOK, Get

\* Taking up a request keeps the requests well-formed.
LEMMA BeginType ==
    ASSUME TypeOK, NEW r \in Rpcs, NEW op \in Ops, NEW p \in Paths,
           NEW kind \in Kinds, NEW size \in Nat,
           NEW id \in MergeIds \cup {Unset},
           Begin(r, op, p, kind, size, id)
    PROVE  req' \in [Rpcs -> Request]
  BY Zenon DEF TypeOK, Begin, Request

\* So do going on to another step and answering, for the replies.
LEMMA ControlType ==
    ASSUME TypeOK, NEW r \in Rpcs,
           \/ \E l \in PCs : Goto(r, l)
           \/ \E err \in Errs, ret \in Nat \cup {NoOffset} :
                 Respond(r, err, ret)
    PROVE  /\ pc' \in [Rpcs -> PCs]
           /\ reply' \in [Rpcs -> Reply]
  BY DEF TypeOK, Goto, Respond, Reply, PCs

\* The paths of handlers that have started, and the sizes requests carry.
LEMMA StepArguments ==
    ASSUME TypeOK, HandlerOK
    PROVE  /\ \A r \in Rpcs : pc[r] # "idle" => req[r].path \in Paths
           /\ \A r \in Rpcs : req[r].kind \in Kinds /\ req[r].size \in Nat
           /\ \A p \in Paths : db[p] \in Entry /\ db[p].size \in Nat
           /\ \A r \in Rpcs : InFlight(r) => req[r].id \in MergeIds
           /\ IoSizes \subseteq Nat
  BY StoreAssumption, Zenon DEF TypeOK, HandlerOK, ControlOK, Request, Entry

\* Every step of the handlers and of RocksDB keeps the types.
LEMMA TypeStep ==
    ASSUME TypeOK, HandlerOK, Next
    PROVE  TypeOK'
<1> USE DEF hist
<1>1. ASSUME NEW r \in Rpcs, Step(r) PROVE TypeOK'
  <2>0. pc[r] # "idle" => req[r].path \in Paths
    BY StepArguments, Zenon
  <2>1. CASE create_put(r)
    <3>1. MergeCreate(db[req[r].path], req[r].kind, 0) \in Entry
      BY <2>0, <2>1, StepArguments, MergeTypes, Zenon DEF create_put
    <3>2. Write(req[r].path, MergeCreate(db[req[r].path], req[r].kind, 0))
      BY <2>1, Zenon DEF create_put
    <3>3. db' \in [Paths -> Entry] /\ peak' \in [Paths -> Nat \cup {-1}]
      BY <2>0, <2>1, <3>1, <3>2, WriteType, Zenon DEF create_put
    <3>4. pc' \in [Rpcs -> PCs] /\ reply' \in [Rpcs -> Reply]
      BY <2>1, ControlType, Zenon DEF create_put, Errs
    <3> QED BY <2>1, <3>3, <3>4, Zenon DEF create_put, TypeOK
  <2>2. CASE append_force_merge(r)
    <3>1. reserve' \in Reserve
      BY <2>0, <2>2, GetType, Zenon DEF append_force_merge
    <3>2. pc' \in [Rpcs -> PCs] /\ reply' \in [Rpcs -> Reply]
      BY <2>2, ControlType, Zenon DEF append_force_merge, Errs, PCs, GetError
    <3> QED BY <2>2, <3>1, <3>2, Zenon DEF append_force_merge, TypeOK
  <2>3. CASE append_take_offset(r)
    <3>1. req[r].id \in MergeIds
      BY <2>3, StepArguments, Zenon DEF append_take_offset, InFlight
    <3>2. reserve[req[r].id] \in Nat \cup {NoOffset}
      BY <3>1, Zenon DEF TypeOK, Reserve
    <3>3. pc' \in [Rpcs -> PCs] /\ reply' \in [Rpcs -> Reply]
      BY <2>3, <3>2, ControlType, Zenon DEF append_take_offset, Errs
    <3>4. reserve' \in Reserve
      BY <2>3, Zenon DEF append_take_offset, TypeOK, Reserve
    <3> QED BY <2>3, <3>3, <3>4, Zenon DEF append_take_offset, TypeOK
  <2>4. CASE remove_delete(r)
    <3>1. req[r].path \in Paths /\ Absent \in Entry
      BY <2>0, <2>4, StepArguments, MergeTypes, Zenon DEF remove_delete
    <3>2. db' \in [Paths -> Entry] /\ peak' \in [Paths -> Nat \cup {-1}]
      BY <2>4, <3>1, WriteType, Zenon DEF remove_delete
    <3>3. pc' \in [Rpcs -> PCs] /\ reply' \in [Rpcs -> Reply]
      BY <2>4, ControlType, Zenon DEF remove_delete, Errs, PCs
    <3> QED BY <2>4, <3>2, <3>3, Zenon DEF remove_delete, Superseded, TypeOK
  <2>5. CASE remove_destroy(r)
    <3>1. pc' \in [Rpcs -> PCs] /\ reply' \in [Rpcs -> Reply]
      BY <2>5, StepArguments, ControlType, Zenon DEF remove_destroy, Errs
    <3> QED BY <2>5, <3>1, Zenon DEF remove_destroy, TypeOK
  <2>6. CASE update_overwrite(r)
    <3>1. /\ req[r].path \in Paths
          /\ Value(req[r].kind, req[r].size) \in Entry
      BY <2>0, <2>6, StepArguments, MergeTypes, Zenon DEF update_overwrite
    <3>2. db' \in [Paths -> Entry] /\ peak' \in [Paths -> Nat \cup {-1}]
      BY <2>6, <3>1, WriteType, Zenon DEF update_overwrite
    <3>3. pc' \in [Rpcs -> PCs] /\ reply' \in [Rpcs -> Reply]
      BY <2>6, ControlType, Zenon DEF update_overwrite, Errs
    <3> QED BY <2>6, <3>2, <3>3, Zenon DEF update_overwrite, Superseded, TypeOK
  <2> QED BY <1>1, <2>1, <2>2, <2>3, <2>4, <2>5, <2>6, Zenon DEF Step
<1>2. ASSUME NEW r \in Rpcs, NEW p \in Paths, Start(r, p) PROVE TypeOK'
  <2>1. ASSUME NEW kind \in Kinds, create_exists(r, p, kind) PROVE TypeOK'
    <3>1. reserve' \in Reserve
      BY <2>1, GetType, Zenon DEF create_exists
    <3>2. pc' \in [Rpcs -> PCs] /\ reply' \in [Rpcs -> Reply]
      BY <2>1, ControlType, Zenon DEF create_exists, Errs, PCs
    <3>3. req' \in [Rpcs -> Request]
      BY <2>1, BeginType, Zenon DEF create_exists, Ops
    <3> QED BY <2>1, <3>1, <3>2, <3>3, Zenon DEF create_exists, TypeOK
  <2>2. ASSUME NEW kind \in Kinds, remove_get(r, p, kind) PROVE TypeOK'
    <3>1. reserve' \in Reserve
      BY <2>2, GetType, Zenon DEF remove_get
    <3>2. pc' \in [Rpcs -> PCs] /\ reply' \in [Rpcs -> Reply]
      BY <2>2, ControlType, Zenon DEF remove_get, Errs, PCs, GetError
    <3>3. req' \in [Rpcs -> Request]
      BY <2>2, StepArguments, BeginType, Zenon DEF remove_get, Ops
    <3> QED BY <2>2, <3>1, <3>2, <3>3, Zenon DEF remove_get, TypeOK
  <2>3. ASSUME NEW length \in IoSizes, decr_size(r, p, length) PROVE TypeOK'
    <3>1. length \in Nat /\ "file" \in Kinds
      BY StoreAssumption, Zenon DEF Kinds
    <3>2. db' \in [Paths -> Entry] /\ peak' \in [Paths -> Nat \cup {-1}]
      BY <2>3, <3>1, StepArguments, MergeTypes, WriteType, Zenon DEF decr_size
    <3>3. pc' \in [Rpcs -> PCs] /\ reply' \in [Rpcs -> Reply]
      BY <2>3, ControlType, Zenon DEF decr_size, Errs
    <3>4. req' \in [Rpcs -> Request]
      BY <2>3, <3>1, BeginType, Zenon DEF decr_size, Ops
    <3> QED BY <2>3, <3>2, <3>3, <3>4, Zenon DEF decr_size, Superseded, TypeOK
  <2>4. ASSUME NEW off \in IoSizes, NEW size \in IoSizes,
               update_size(r, p, off, size)
        PROVE  TypeOK'
    <3>1. off + size \in Nat /\ "file" \in Kinds
      BY StoreAssumption DEF Kinds
    <3>2. db' \in [Paths -> Entry] /\ peak' \in [Paths -> Nat \cup {-1}]
      BY <2>4, <3>1, StepArguments, MergeTypes, WriteType, Zenon DEF update_size
    <3>3. pc' \in [Rpcs -> PCs] /\ reply' \in [Rpcs -> Reply]
      BY <2>4, ControlType, Zenon DEF update_size, Errs
    <3>4. req' \in [Rpcs -> Request]
      BY <2>4, <3>1, BeginType, Zenon DEF update_size, Ops
    <3> QED BY <2>4, <3>2, <3>3, <3>4, Zenon DEF update_size, TypeOK
  <2>5. ASSUME NEW size \in IoSizes, NEW id \in MergeIds,
               append_merge(r, p, size, id)
        PROVE  TypeOK'
    <3>1. size \in Nat /\ "file" \in Kinds
      BY StoreAssumption, Zenon DEF Kinds
    <3>2. db' \in [Paths -> Entry] /\ peak' \in [Paths -> Nat \cup {-1}]
      BY <2>5, <3>1, StepArguments, MergeAppendType, WriteType, Zenon
      DEF append_merge
    <3>3. pc' \in [Rpcs -> PCs] /\ reply' \in [Rpcs -> Reply]
      BY <2>5, ControlType, Zenon DEF append_merge, PCs
    <3>4. req' \in [Rpcs -> Request]
      BY <2>5, <3>1, BeginType, Zenon DEF append_merge, Ops
    <3>5. grant' \in [Rpcs -> Nat]
      BY <2>5, StepArguments, Zenon DEF append_merge, TypeOK
    <3> QED BY <2>5, <3>2, <3>3, <3>4, <3>5, Zenon DEF append_merge, TypeOK
  <2>6. ASSUME NEW size \in IoSizes \cup {db[p].size}, update_get(r, p, size)
        PROVE  TypeOK'
    <3>1. size \in Nat
      BY StoreAssumption, StepArguments, Zenon
    <3>2. reserve' \in Reserve
      BY <2>6, GetType, Zenon DEF update_get
    <3>3. pc' \in [Rpcs -> PCs] /\ reply' \in [Rpcs -> Reply]
      BY <2>6, ControlType, Zenon DEF update_get, Errs, PCs
    <3>4. req' \in [Rpcs -> Request]
      BY <2>6, <3>1, BeginType, Zenon DEF update_get, Ops, Present, Kinds
    <3> QED BY <2>6, <3>2, <3>3, <3>4, Zenon DEF update_get, TypeOK
  <2>7. CASE stat(r, p)
    <3>1. reserve' \in Reserve
      BY <2>7, GetType, Zenon DEF stat
    <3>2. pc' \in [Rpcs -> PCs] /\ reply' \in [Rpcs -> Reply]
      BY <2>7, StepArguments, ControlType, Zenon DEF stat, Errs, GetError
    <3>3. req' \in [Rpcs -> Request]
      BY <2>7, BeginType, Zenon DEF stat, Ops, Kinds
    <3> QED BY <2>7, <3>1, <3>2, <3>3, Zenon DEF stat, TypeOK
  <2>8. CASE write_chunk(r, p)
    <3>1. pc' \in [Rpcs -> PCs] /\ reply' \in [Rpcs -> Reply]
      BY <2>8, ControlType, Zenon DEF write_chunk, Errs
    <3>2. req' \in [Rpcs -> Request]
      BY <2>8, BeginType, Zenon DEF write_chunk, Ops, Kinds
    <3> QED BY <2>8, <3>1, <3>2, Zenon DEF write_chunk, TypeOK
  <2>9. CASE remove_data(r, p)
    <3>1. pc' \in [Rpcs -> PCs] /\ reply' \in [Rpcs -> Reply]
      BY <2>9, ControlType, Zenon DEF remove_data, Errs
    <3>2. req' \in [Rpcs -> Request]
      BY <2>9, BeginType, Zenon DEF remove_data, Ops, Kinds
    <3> QED BY <2>9, <3>1, <3>2, Zenon DEF remove_data, TypeOK
  <2> QED
    BY <1>2, <2>1, <2>2, <2>3, <2>4, <2>5, <2>6, <2>7, <2>8, <2>9, Zenon DEF Start
<1>3. ASSUME NEW p \in Paths, NEW k \in 1..Len(db[p].pend), compact(p, k)
      PROVE  TypeOK'
  <2>1. /\ Folded(db[p], k) \in Entry
        /\ SubSeq(db[p].pend, 1, k) \in Seq(Reservation)
    BY StepArguments, FoldTypes, Zenon
  <2>2. reserve' \in Reserve
    BY <1>3, <2>1, PutsFacts, Zenon DEF compact, TypeOK
  <2>3. db' \in [Paths -> Entry]
    BY <1>3, <2>1, Zenon DEF compact, TypeOK
  <2> QED BY <1>3, <2>2, <2>3, Zenon DEF compact, TypeOK
<1> QED BY <1>1, <1>2, <1>3, Zenon DEF Next


-----------------------------------------------------------------------------
(* What a step of handler r for path p may do, seen from the history.      *)

Kept(p) ==
    Present(db[p]) => db'[p].st = db[p].st /\ db'[p].size >= db[p].size

Replaced(r, p) ==
    /\ req'[r].op \in {"decr", "remove", "update"}
    /\ live' = {q \in live : req[q].path # p}

Joined(r, p) ==
    /\ live' = live \cup {r}
    /\ Present(db'[p])
    /\ req'[r].op = "append" => /\ Present(db[p])
                                /\ grant'[r] = db[p].size
                                /\ db'[p].size = db[p].size + req'[r].size
    /\ req'[r].op = "update_size" => req'[r].size <= db'[p].size

HandlerFrame(r, p) ==
    /\ pc'[r] # "idle" /\ pc[r] # "done" /\ pc'[r] # pc[r]
    /\ req'[r].op # "none" /\ req'[r].path = p
    /\ pc[r] # "idle" => req'[r] = req[r] /\ grant'[r] = grant[r]
    /\ \A q \in Rpcs \ {r} : /\ pc'[q] = pc[q]
                             /\ req'[q] = req[q]
                             /\ reply'[q] = reply[q]
                             /\ grant'[q] = grant[q]
    /\ \A o \in Paths \ {p} : db'[o] = db[o]
    /\ \/ Kept(p) /\ live' = live
       \/ Kept(p) /\ Joined(r, p)
       \/ Replaced(r, p)

FoldFrame ==
    /\ UNCHANGED <<pc, req, reply, grant, live>>
    /\ \A o \in Paths : db'[o].st = db[o].st /\ db'[o].size = db[o].size

\* A step that reads the store and changes nothing but its handler.
LEMMA ReadFrame ==
    ASSUME TypeOK, NEW r \in Rpcs, NEW p \in Paths, NEW op \in Ops \ {"none"},
           NEW kind, NEW size, NEW id, NEW l \in PCs \ {"idle"},
           Begin(r, op, p, kind, size, id), UNCHANGED <<db, hist>>,
           Goto(r, l) \/ \E err, ret : Respond(r, err, ret)
    PROVE  HandlerFrame(r, p)
<1>1. pc[r] = "idle" /\ pc'[r] \in PCs \ {"idle"}
  BY Zenon DEF TypeOK, Begin, Goto, Respond, PCs
<1>2. req'[r].op = op /\ req'[r].path = p
  BY Zenon DEF TypeOK, Begin
<1>3. \A q \in Rpcs \ {r} : /\ pc'[q] = pc[q]
                            /\ req'[q] = req[q]
                            /\ reply'[q] = reply[q]
                            /\ grant'[q] = grant[q]
  BY Zenon DEF TypeOK, Begin, Goto, Respond, hist
<1>4. Kept(p) /\ live' = live /\ db' = db
  BY DEF TypeOK, hist, Kept, Entry
<1> QED BY <1>1, <1>2, <1>3, <1>4, Zenon DEF HandlerFrame

\* What the merge of an operand into a file keeps.
LEMMA CreateKeeps ==
    ASSUME NEW e \in Entry, NEW kind, NEW size, Present(e)
    PROVE  MergeCreate(e, kind, size) = e
  BY Zenon DEF Present, Kinds, MergeCreate

\* A plain size update keeps a file and covers the range it was sent.
LEMMA IncreaseKeeps ==
    ASSUME NEW e \in Entry, NEW size \in Nat, Present(e)
    PROVE  LET i == MergeIncrease(e, size) IN
           i.st = e.st /\ i.size \in Nat /\ i.size >= e.size /\ i.size >= size
  BY DEF Entry, MergeIncrease, MergeInto

\* An append keeps a file and grows it by its size.
LEMMA AppendKeeps ==
    ASSUME NEW e \in Entry, NEW size \in Nat, NEW id, Present(e)
    PROVE  LET a == MergeAppend(e, size, id) IN
           a.st = e.st /\ a.size = e.size + size
  BY Zenon DEF Entry, MergeAppend, MergeInto

\* A handler that goes on changes its own state and the path it serves, and
\* keeps, joins or replaces the file there.
LEMMA StepFrame ==
    ASSUME TypeOK, HandlerOK, NEW r \in Rpcs, Step(r)
    PROVE  HandlerFrame(r, req[r].path)
<1> DEFINE p == req[r].path
<1>0. pc[r] # "idle" => p \in Paths /\ db[p] \in Entry
  BY StepArguments, Zenon
<1>1. \A q \in Rpcs \ {r} : /\ pc'[q] = pc[q]
                            /\ req'[q] = req[q]
                            /\ reply'[q] = reply[q]
                            /\ grant'[q] = grant[q]
  BY Zenon DEF Step, create_put, append_force_merge, append_take_offset,
         remove_delete, remove_destroy, update_overwrite, Goto, Respond,
         hist, TypeOK
<1>2. pc[r] \in {"put", "force_merge", "take_offset", "delete", "destroy",
                 "overwrite"}
  BY Zenon DEF Step, create_put, append_force_merge, append_take_offset,
         remove_delete, remove_destroy, update_overwrite
<1>3. p \in Paths /\ db[p] \in Entry /\ req[r].op # "none"
  BY <1>0, <1>2, Zenon DEF HandlerOK, ControlOK
<1>4. pc'[r] \in {"done", "take_offset", "destroy"} /\ pc'[r] # pc[r]
  BY Zenon DEF Step, create_put, append_force_merge, append_take_offset,
         remove_delete, remove_destroy, update_overwrite, Goto, Respond,
         TypeOK
<1>5. req'[r] = req[r] /\ grant'[r] = grant[r]
  BY Zenon DEF Step, create_put, append_force_merge, append_take_offset,
         remove_delete, remove_destroy, update_overwrite, hist
<1>6. \A o \in Paths \ {p} : db'[o] = db[o]
  BY Zenon DEF Step, create_put, append_force_merge, append_take_offset,
         remove_delete, remove_destroy, update_overwrite, Write, hist, TypeOK
<1>7. \/ Kept(p) /\ live' = live
      \/ Kept(p) /\ Joined(r, p)
      \/ Replaced(r, p)
  <2>1. CASE create_put(r)
    <3> DEFINE e == MergeCreate(db[p], req[r].kind, 0)
    <3>1. db'[p] = e
      BY <1>3, <2>1, Zenon DEF create_put, Write, TypeOK
    <3>2. Kept(p)
      <4>1. Present(db[p]) => db'[p] = db[p]
        BY <1>3, <3>1, CreateKeeps, Zenon
      <4> QED BY <1>3, <4>1 DEF Kept, Entry
    <3>3. req'[r].op = "create"
      BY <1>5, <2>1, Zenon DEF create_put, HandlerOK, ControlOK
    <3>4. live' = live \/ (live' = live \cup {r} /\ Present(db'[p]))
      BY <2>1, <3>1, Zenon DEF create_put
    <3> QED BY <3>2, <3>3, <3>4, Zenon DEF Joined
  <2>2. CASE append_force_merge(r) \/ append_take_offset(r)
             \/ remove_destroy(r)
    BY <1>3, <2>2 DEF append_force_merge, append_take_offset, remove_destroy,
                      hist, Kept, Entry
  <2>3. CASE remove_delete(r)
    BY <1>5, <2>3, Zenon
    DEF remove_delete, Superseded, Replaced, HandlerOK, ControlOK
  <2>4. CASE update_overwrite(r)
    BY <1>5, <2>4, Zenon
    DEF update_overwrite, Superseded, Replaced, HandlerOK, ControlOK
  <2> QED BY <2>1, <2>2, <2>3, <2>4, Zenon DEF Step
<1> HIDE DEF p
<1>8. HandlerFrame(r, p)
  <2>1. req'[r].path = p
    BY <1>5, Zenon DEF p
  <2> QED
    BY <1>1, <1>2, <1>3, <1>4, <1>5, <1>6, <1>7, <2>1, Zenon DEF HandlerFrame
<1> QED BY <1>8, Zenon DEF p

\* So does a handler that takes up a request for p.
LEMMA StartFrame ==
    ASSUME TypeOK, HandlerOK, NEW r \in Rpcs, NEW p \in Paths, Start(r, p)
    PROVE  HandlerFrame(r, p)
<1>0. db[p] \in Entry /\ db[p].size \in Nat /\ "file" \in Kinds
  BY StepArguments, Zenon DEF Kinds
<1>1. ASSUME NEW kind \in Kinds, create_exists(r, p, kind)
      PROVE  HandlerFrame(r, p)
  BY <1>1, ReadFrame DEF create_exists, Ops, PCs
<1>2. ASSUME NEW kind \in Kinds, remove_get(r, p, kind)
      PROVE  HandlerFrame(r, p)
  BY <1>2, ReadFrame DEF remove_get, Ops, PCs
<1>3. ASSUME NEW size \in IoSizes \cup {db[p].size}, update_get(r, p, size)
      PROVE  HandlerFrame(r, p)
  BY <1>3, ReadFrame DEF update_get, Ops, PCs
<1>4. CASE stat(r, p)
  BY <1>4, ReadFrame DEF stat, Ops, PCs
<1>5. CASE write_chunk(r, p) \/ remove_data(r, p)
  BY <1>5, ReadFrame DEF write_chunk, remove_data, Ops, PCs
<1>6. ASSUME NEW length \in IoSizes, decr_size(r, p, length)
      PROVE  HandlerFrame(r, p)
  <2>1. /\ pc[r] = "idle" /\ pc'[r] = "done"
        /\ req'[r].op = "decr" /\ req'[r].path = p
    BY <1>6, Zenon DEF decr_size, Begin, Respond, TypeOK
  <2>2. \A q \in Rpcs \ {r} : /\ pc'[q] = pc[q]
                              /\ req'[q] = req[q]
                              /\ reply'[q] = reply[q]
                              /\ grant'[q] = grant[q]
    BY <1>6, Zenon DEF decr_size, Begin, Respond, TypeOK
  <2>3. \A o \in Paths \ {p} : db'[o] = db[o]
    BY <1>6, Zenon DEF decr_size, Write, TypeOK
  <2>4. Replaced(r, p)
    BY <1>6, <2>1, Zenon DEF decr_size, Superseded, Replaced
  <2> QED BY <2>1, <2>2, <2>3, <2>4, Zenon DEF HandlerFrame
<1>7. ASSUME NEW off \in IoSizes, NEW size \in IoSizes,
             update_size(r, p, off, size)
      PROVE  HandlerFrame(r, p)
  <2>1. /\ pc[r] = "idle" /\ pc'[r] = "done"
        /\ req'[r].op = "update_size" /\ req'[r].path = p
        /\ req'[r].size = off + size /\ off + size \in Nat
    BY <1>7, StoreAssumption DEF update_size, Begin, Respond, TypeOK
  <2>2. \A q \in Rpcs \ {r} : /\ pc'[q] = pc[q]
                              /\ req'[q] = req[q]
                              /\ reply'[q] = reply[q]
                              /\ grant'[q] = grant[q]
    BY <1>7, Zenon DEF update_size, Begin, Respond, TypeOK
  <2>3. /\ \A o \in Paths \ {p} : db'[o] = db[o]
        /\ db'[p] = MergeIncrease(db[p], off + size)
    BY <1>7, Zenon DEF update_size, Write, TypeOK
  <2>4. /\ Kept(p)
        /\ Present(db[p]) => Present(db'[p]) /\ db'[p].size >= off + size
    <3>1. Present(db[p]) => /\ db'[p].st = db[p].st
                            /\ db'[p].size >= db[p].size
                            /\ db'[p].size >= off + size
      BY <1>0, <2>1, <2>3, IncreaseKeeps
    <3> QED BY <3>1, Zenon DEF Kept, Present
  <2>5. live' = live \/ (live' = live \cup {r} /\ Present(db[p]))
    BY <1>7, Zenon DEF update_size
  <2>6. live' = live \cup {r} /\ Present(db[p]) => Joined(r, p)
    <3>1. db'[p].size \in Nat
      BY <1>0, <2>1, <2>3, MergeTypes DEF Entry
    <3> QED BY <2>1, <2>4, <3>1, Zenon DEF Joined
  <2> QED BY <2>1, <2>2, <2>3, <2>4, <2>5, <2>6, Zenon DEF HandlerFrame
<1>8. ASSUME NEW size \in IoSizes, NEW id \in MergeIds,
             append_merge(r, p, size, id)
      PROVE  HandlerFrame(r, p)
  <2>1. /\ pc[r] = "idle" /\ pc'[r] = "force_merge"
        /\ req'[r].op = "append" /\ req'[r].path = p
        /\ req'[r].size = size /\ size \in Nat
        /\ grant'[r] = db[p].size
    BY <1>8, StoreAssumption, Zenon DEF append_merge, Begin, Goto, TypeOK
  <2>2. \A q \in Rpcs \ {r} : /\ pc'[q] = pc[q]
                              /\ req'[q] = req[q]
                              /\ reply'[q] = reply[q]
                              /\ grant'[q] = grant[q]
    BY <1>8, Zenon DEF append_merge, Begin, Goto, TypeOK
  <2>3. /\ \A o \in Paths \ {p} : db'[o] = db[o]
        /\ db'[p] = MergeAppend(db[p], size, id)
    BY <1>8, Zenon DEF append_merge, Write, TypeOK
  <2>4. Present(db[p]) => /\ db'[p].st = db[p].st
                          /\ db'[p].size = db[p].size + size
    BY <1>0, <2>1, <2>3, AppendKeeps
  <2>5. Kept(p)
    BY <1>0, <2>1, <2>4 DEF Kept
  <2>6. live' = live \/ (live' = live \cup {r} /\ Present(db[p]))
    BY <1>8, Zenon DEF append_merge
  <2>7. live' = live \cup {r} /\ Present(db[p]) => Joined(r, p)
    BY <2>1, <2>4, Zenon DEF Joined, Present
  <2> QED BY <2>1, <2>2, <2>3, <2>5, <2>6, <2>7, Zenon DEF HandlerFrame
<1> QED
  BY <1>1, <1>2, <1>3, <1>4, <1>5, <1>6, <1>7, <1>8, Zenon DEF Start

\* A fold in the background changes no handler, no kind and no size.
LEMMA CompactFrame ==
    ASSUME TypeOK, NEW p \in Paths, NEW k \in 1..Len(db[p].pend),
           compact(p, k)
    PROVE  FoldFrame
  BY Zenon DEF compact, FoldFrame, Folded, hist, TypeOK

\* Every step is one or the other.
LEMMA NextFrame ==
    ASSUME TypeOK, HandlerOK, Next
    PROVE  \/ FoldFrame
           \/ \E r \in Rpcs, p \in Paths : HandlerFrame(r, p)
<1>1. ASSUME NEW r \in Rpcs, Step(r)
      PROVE  \E p \in Paths : HandlerFrame(r, p)
  <2>1. pc[r] # "idle"
    BY <1>1, Zenon DEF Step, create_put, append_force_merge, append_take_offset,
                remove_delete, remove_destroy, update_overwrite
  <2> QED BY <1>1, <2>1, StepFrame, StepArguments, Zenon
<1> QED BY <1>1, StartFrame, CompactFrame, Zenon DEF Next

-----------------------------------------------------------------------------
(* The invariant of the store.                                             *)

\* A handler that goes on reaches a step of the operation it serves.
LEMMA StepControl ==
    ASSUME TypeOK, HandlerOK, NEW r \in Rpcs, Step(r)
    PROVE  ControlOK(r)'
<1>1. ControlOK(r) /\ req'[r] = req[r]
  BY Zenon DEF HandlerOK, Step, create_put, append_force_merge, append_take_offset,
         remove_delete, remove_destroy, update_overwrite
<1>2. \/ pc[r] # "idle" /\ pc'[r] = "done"
      \/ pc[r] = "force_merge" /\ pc'[r] = "take_offset"
      \/ pc[r] = "delete" /\ pc'[r] = "destroy"
  BY Zenon DEF TypeOK, Step, create_put, append_force_merge, append_take_offset,
         remove_delete, remove_destroy, update_overwrite, Goto, Respond
<1> QED BY <1>1, <1>2, Zenon DEF ControlOK, InFlight

\* Taking up a request records it; going on or answering moves the handler.
LEMMA BeginFacts ==
    ASSUME TypeOK, NEW r \in Rpcs, NEW op, NEW p, NEW kind, NEW size, NEW id,
           Begin(r, op, p, kind, size, id)
    PROVE  req'[r].op = op /\ req'[r].path = p /\ req'[r].id = id
  BY Zenon DEF TypeOK, Begin

LEMMA MoveFacts ==
    ASSUME TypeOK, NEW r \in Rpcs
    PROVE  /\ \A l : Goto(r, l) => pc'[r] = l
           /\ \A err, ret : Respond(r, err, ret) => pc'[r] = "done"
  BY Zenon DEF TypeOK, Goto, Respond

Entered(r, p) ==
    /\ req'[r].path = p /\ req'[r].op # "none"
    /\ \/ pc'[r] = "done" /\ req'[r].op # "append"
       \/ pc'[r] = "put" /\ req'[r].op = "create"
       \/ pc'[r] = "delete" /\ req'[r].op = "remove"
       \/ pc'[r] = "overwrite" /\ req'[r].op = "update"
       \/ /\ pc'[r] = "force_merge" /\ req'[r].op = "append"
          /\ req'[r].id \in MergeIds
          /\ \E size \in IoSizes : append_merge(r, p, size, req'[r].id)

\* A handler that takes up a request starts at a step of that operation; only
\* an append is never answered at once.
LEMMA StartEntered ==
    ASSUME TypeOK, NEW r \in Rpcs, NEW p \in Paths, Start(r, p)
    PROVE  Entered(r, p)
<1>1. ASSUME NEW kind \in Kinds, create_exists(r, p, kind)
      PROVE  Entered(r, p)
  BY <1>1, BeginFacts, MoveFacts DEF create_exists, Entered
<1>2. ASSUME NEW kind \in Kinds, remove_get(r, p, kind)
      PROVE  Entered(r, p)
  BY <1>2, BeginFacts, MoveFacts DEF remove_get, Entered
<1>3. ASSUME NEW length \in IoSizes, decr_size(r, p, length)
      PROVE  Entered(r, p)
  BY <1>3, BeginFacts, MoveFacts DEF decr_size, Entered
<1>4. ASSUME NEW off \in IoSizes, NEW size \in IoSizes,
             update_size(r, p, off, size)
      PROVE  Entered(r, p)
  BY <1>4, BeginFacts, MoveFacts DEF update_size, Entered
<1>5. ASSUME NEW size \in IoSizes, NEW id \in MergeIds,
             append_merge(r, p, size, id)
      PROVE  Entered(r, p)
  <2>1. /\ req'[r].op = "append" /\ req'[r].path = p /\ req'[r].id = id
        /\ pc'[r] = "force_merge"
    BY <1>5, BeginFacts, MoveFacts DEF append_merge
  <2> QED BY <1>5, <2>1, Zenon DEF Entered
<1>6. ASSUME NEW size \in IoSizes \cup {db[p].size}, update_get(r, p, size)
      PROVE  Entered(r, p)
  BY <1>6, BeginFacts, MoveFacts DEF update_get, Entered
<1>7. CASE stat(r, p)
  BY <1>7, BeginFacts, MoveFacts DEF stat, Entered
<1>8. CASE write_chunk(r, p)
  BY <1>8, BeginFacts, MoveFacts DEF write_chunk, Entered
<1>9. CASE remove_data(r, p)
  BY <1>9, BeginFacts, MoveFacts DEF remove_data, Entered
<1> QED
  BY <1>1, <1>2, <1>3, <1>4, <1>5, <1>6, <1>7, <1>8, <1>9, Zenon DEF Start

LEMMA StartControl ==
    ASSUME TypeOK, NEW r \in Rpcs, NEW p \in Paths, Start(r, p)
    PROVE  ControlOK(r)'
  BY StartEntered DEF Entered, ControlOK, InFlight

\* Every handler stays at a step of the operation it serves.
LEMMA ControlStep ==
    ASSUME TypeOK, HandlerOK, Next
    PROVE  (\A r \in Rpcs : ControlOK(r))'
<1>1. ASSUME NEW r \in Rpcs, NEW p \in Paths, HandlerFrame(r, p),
             ControlOK(r)'
      PROVE  (\A q \in Rpcs : ControlOK(q))'
  BY <1>1 DEF HandlerOK, HandlerFrame, ControlOK, InFlight
<1>2. ASSUME NEW r \in Rpcs, Step(r)
      PROVE  (\A q \in Rpcs : ControlOK(q))'
  <2>1. pc[r] # "idle"
    BY <1>2, Zenon DEF Step, create_put, append_force_merge, append_take_offset,
                remove_delete, remove_destroy, update_overwrite
  <2> QED BY <1>1, <1>2, <2>1, StepFrame, StepControl, StepArguments, Zenon
<1>3. ASSUME NEW p \in Paths, NEW k \in 1..Len(db[p].pend), compact(p, k)
      PROVE  (\A q \in Rpcs : ControlOK(q))'
  BY <1>3, CompactFrame DEF FoldFrame, HandlerOK, ControlOK, InFlight
<1> QED BY <1>1, <1>2, <1>3, StartFrame, StartControl, Zenon DEF Next

\* A live RPC after a step either was live, its file kept, or is the one that
\* took the step and joined.
LEMMA LiveAfter ==
    ASSUME StoreInv, NEW r \in Rpcs, NEW p \in Paths, HandlerFrame(r, p),
           NEW q \in live'
    PROVE  \/ /\ q \in live /\ req'[q] = req[q] /\ grant'[q] = grant[q]
              /\ req[q].path \in Paths
              /\ db'[req[q].path].st = db[req[q].path].st
              /\ db'[req[q].path].size >= db[req[q].path].size
           \/ q = r /\ Joined(r, p)
<1>1. CASE q \in live
  <2>1. /\ q \in Rpcs /\ pc[q] # "idle" /\ req[q].path \in Paths
        /\ Present(db[req[q].path])
    BY <1>1, Zenon DEF StoreInv, TypeOK, HandlerOK, ControlOK
  <2>2. req'[q] = req[q] /\ grant'[q] = grant[q]
    BY <2>1, Zenon DEF HandlerFrame
  <2>3. CASE req[q].path = p
    <3>1. ~ Replaced(r, p)
      BY <2>3, Zenon DEF Replaced
    <3> QED BY <1>1, <2>1, <2>2, <2>3, <3>1, Zenon DEF HandlerFrame, Kept
  <2>4. CASE req[q].path # p
    <3>1. db[req[q].path].size \in Nat
      BY <2>1, Zenon DEF StoreInv, TypeOK, Entry
    <3>2. db'[req[q].path] = db[req[q].path]
      BY <2>1, <2>4, Zenon DEF HandlerFrame
    <3> QED BY <1>1, <2>1, <2>2, <3>1, <3>2
  <2> QED BY <2>3, <2>4, Zenon
<1>2. CASE q \notin live
  BY <1>2 DEF HandlerFrame, Replaced, Joined
<1> QED BY <1>1, <1>2, Zenon

\* Every step preserves the invariant of the store.
LEMMA StoreInvStep ==
    ASSUME StoreInv, Next
    PROVE  StoreInv'
<1>1. TypeOK' /\ (\A r \in Rpcs : ControlOK(r))'
  BY TypeStep, ControlStep, Zenon DEF StoreInv
<1>2. /\ \A p \in Paths : db[p].size \in Nat /\ db'[p].size \in Nat
      /\ \A r \in Rpcs : /\ req[r].size \in Nat /\ grant[r] \in Nat
                         /\ req'[r].size \in Nat /\ grant'[r] \in Nat
      /\ live \subseteq Rpcs /\ live' \subseteq Rpcs
      /\ \A r \in live : req[r].path \in Paths /\ Present(db[req[r].path])
  BY <1>1 DEF StoreInv, TypeOK, Entry, Request, HandlerOK, ControlOK
<1>3. CASE FoldFrame
  <2>1. HandlerOK'
    BY <1>1, <1>2, <1>3, Zenon DEF FoldFrame, HandlerOK, Present, StoreInv
  <2>2. Covered'
    BY <1>2, <1>3 DEF FoldFrame, Covered, StoreInv
  <2>3. GrantsDisjoint'
    BY <1>3 DEF FoldFrame, GrantsDisjoint, StoreInv
  <2> QED BY <1>1, <2>1, <2>2, <2>3 DEF StoreInv
<1>4. ASSUME NEW r \in Rpcs, NEW p \in Paths, HandlerFrame(r, p)
      PROVE  StoreInv'
  <2>0. req'[r].path = p /\ pc'[r] # "idle"
    BY <1>4, Zenon DEF HandlerFrame
  <2>1. HandlerOK'
    <3>1. ASSUME NEW q \in live'
          PROVE  pc'[q] # "idle" /\ Present(db'[req'[q].path])
      <4>1. CASE q = r /\ Joined(r, p)
        BY <2>0, <4>1, Zenon DEF Joined
      <4>2. CASE q \in live /\ req'[q] = req[q]
                 /\ db'[req[q].path].st = db[req[q].path].st
        BY <1>2, <1>4, <2>0, <4>2
        DEF HandlerFrame, StoreInv, HandlerOK, Present
      <4> QED BY <1>4, <3>1, <4>1, <4>2, LiveAfter
    <3> QED BY <1>1, <3>1 DEF HandlerOK
  <2>2. Covered'
    <3>1. ASSUME NEW q \in live'
          PROVE  /\ req'[q].op = "append" =>
                       grant'[q] + req'[q].size <= db'[req'[q].path].size
                 /\ req'[q].op = "update_size" =>
                       req'[q].size <= db'[req'[q].path].size
      <4>1. CASE q = r /\ Joined(r, p)
        BY <1>2, <2>0, <4>1 DEF Joined
      <4>2. CASE /\ q \in live /\ req'[q] = req[q] /\ grant'[q] = grant[q]
                 /\ db'[req[q].path].size >= db[req[q].path].size
        BY <1>2, <4>2 DEF StoreInv, Covered
      <4> QED BY <1>4, <3>1, <4>1, <4>2, LiveAfter, Zenon
    <3> QED BY <3>1, Zenon DEF Covered
  <2>3. GrantsDisjoint'
    <3>1. ASSUME NEW a \in live', NEW b \in live', a # b,
                 req'[a].path = req'[b].path,
                 req'[a].op = "append", req'[b].op = "append"
          PROVE  \/ grant'[a] + req'[a].size <= grant'[b]
                 \/ grant'[b] + req'[b].size <= grant'[a]
      <4> DEFINE Old(q) == /\ q \in live /\ req'[q] = req[q]
                           /\ grant'[q] = grant[q]
      <4>1. CASE Old(a) /\ Old(b)
        BY <3>1, <4>1, Zenon DEF StoreInv, GrantsDisjoint
      <4>2. CASE Old(a) /\ b = r /\ Joined(r, p)
        BY <1>2, <2>0, <3>1, <4>2 DEF StoreInv, Covered, Joined
      <4>3. CASE Old(b) /\ a = r /\ Joined(r, p)
        BY <1>2, <2>0, <3>1, <4>3, Zenon DEF StoreInv, Covered, Joined
      <4>4. (Old(a) \/ (a = r /\ Joined(r, p)))
            /\ (Old(b) \/ (b = r /\ Joined(r, p)))
        BY <1>4, <3>1, LiveAfter, Zenon
      <4> QED BY <3>1, <4>1, <4>2, <4>3, <4>4, Zenon
    <3> QED BY <3>1, Zenon DEF GrantsDisjoint
  <2> QED BY <1>1, <2>1, <2>2, <2>3, SMTT(30) DEF StoreInv
<1> QED BY <1>3, <1>4, NextFrame, Zenon DEF StoreInv

\* The store keeps its types; the files of RPCs that have not been superseded
\* exist and contain what the RPCs covered; appends were granted disjoint
\* intervals (the handlers of srv_metadata.cpp on one RocksDB store).
THEOREM StoreCorrect == Spec => []StoreInv
<1>1. Init => StoreInv
  BY DEF Init, StoreInv, TypeOK, HandlerOK, ControlOK, InFlight, Covered,
         GrantsDisjoint, Absent, Entry, States, Kinds, Reserve, Request, Ops,
         Reply, Errs, PCs, NoOffset
<1>2. StoreInv /\ [Next]_vars => StoreInv'
  <2>1. ASSUME StoreInv, UNCHANGED vars PROVE StoreInv'
    BY <2>1, Zenon DEF vars, StoreInv, TypeOK, HandlerOK, ControlOK, InFlight,
                Covered, GrantsDisjoint
  <2> QED BY <2>1, StoreInvStep, Zenon
<1> QED BY <1>1, <1>2, PTL DEF Spec

-----------------------------------------------------------------------------
(* The properties that follow.                                             *)

\* The handlers keep the types of the store, the reservation map and their
\* own state.
THEOREM TypeCorrect == Spec => []TypeOK
<1>1. StoreInv => TypeOK
  BY Zenon DEF StoreInv
<1> QED BY <1>1, StoreCorrect, PTL

\* No handler but a decrease, a removal or an update shrinks a file or changes
\* its kind (put_no_exist_impl, increase_size_impl, FullMergeV2).
THEOREM KeptCorrect == Spec => KeptUnlessReplaced
<1> DEFINE Keeps ==
        \A p \in Paths : Present(db[p]) =>
          \/ db'[p].st = db[p].st /\ db'[p].size >= db[p].size
          \/ \E r \in Rpcs : /\ pc[r] # pc'[r]
                             /\ req'[r].op \in {"decr", "remove", "update"}
                             /\ req'[r].path = p
<1>1. ASSUME StoreInv, Next PROVE Keeps
  <2>1. \A p \in Paths : db[p].size \in Nat
    BY <1>1, Zenon DEF StoreInv, TypeOK, Entry
  <2>2. CASE FoldFrame
    BY <2>1, <2>2 DEF FoldFrame
  <2>3. ASSUME NEW r \in Rpcs, NEW p \in Paths, HandlerFrame(r, p)
        PROVE  Keeps
    <3>1. \A o \in Paths \ {p} : db'[o] = db[o]
      BY <2>3, Zenon DEF HandlerFrame
    <3>2. \/ Kept(p)
          \/ /\ pc[r] # pc'[r] /\ req'[r].path = p
             /\ req'[r].op \in {"decr", "remove", "update"}
      BY <2>3, Zenon DEF HandlerFrame, Replaced
    <3> QED BY <2>1, <3>1, <3>2 DEF Kept
  <2> QED BY <1>1, <2>2, <2>3, NextFrame, Zenon DEF StoreInv
<1>2. StoreInv /\ [Next]_vars => [Keeps]_vars
  BY <1>1, Zenon
<1> QED BY <1>2, StoreCorrect, PTL DEF Spec, KeptUnlessReplaced

-----------------------------------------------------------------------------
(* Appends get their own offset, when ids in use are not given out again.  *)

\* Owned for the values a step leaves of what it speaks about.
LEMMA OwnedIntro ==
    ASSUME NEW q \in Rpcs, req'[q] = req[q], grant'[q] = grant[q],
           q \in live' => q \in live,
           reserve'[req[q].id] \in {grant[q], NoOffset},
           \A o \in Paths : \A k \in DOMAIN db'[o].pend :
               db'[o].pend[k].id = req[q].id => db'[o].pend[k].at = grant[q],
           q \in live /\ q \in live' =>
               \/ reserve'[req[q].id] = grant[q]
               \/ /\ pc'[q] = "force_merge"
                  /\ \E k \in DOMAIN db'[req[q].path].pend :
                        db'[req[q].path].pend[k].id = req[q].id
    PROVE  Owned(q)'
  BY Zenon DEF Owned

\* A read of p stores offsets under ids that already stand for them, and the
\* read of an append's own path stores its offset.
LEMMA OwnedRead ==
    ASSUME TypeOK, NEW q \in Rpcs, Owned(q), req[q].id \in MergeIds,
           NEW p \in Paths, Get(p), db' = db, live' = live,
           req'[q] = req[q], grant'[q] = grant[q],
           pc'[q] = pc[q] \/ (p = req[q].path /\ Present(db[p]))
    PROVE  Owned(q)'
<1> DEFINE i == req[q].id
           s == db[p].pend
<1>1. /\ reserve \in Reserve /\ s \in Seq(Reservation)
      /\ i \in MergeIds /\ grant[q] \in Nat
  BY Zenon DEF TypeOK, Entry
<1>2. \A k \in DOMAIN s : s[k].id = i => s[k].at = grant[q]
  BY Zenon DEF Owned
<1>3. reserve'[i] = reserve[i] \/ reserve'[i] = grant[q]
  <2>1. CASE Present(db[p])
    <3>1. reserve' = Puts(reserve, s)
      BY <2>1, Zenon DEF Get
    <3> HIDE DEF i, s
    <3> QED BY <1>1, <1>2, <3>1, PutsFacts
  <2>2. CASE ~ Present(db[p])
    BY <2>2, Zenon DEF Get
  <2> QED BY <2>1, <2>2, Zenon
<1>4. ASSUME p = req[q].path, Present(db[p]),
             NEW k \in DOMAIN s, s[k].id = i
      PROVE  reserve'[i] = grant[q]
  <2>1. reserve' = Puts(reserve, s)
    BY <1>4, Zenon DEF Get
  <2> HIDE DEF i, s
  <2> QED BY <1>1, <1>2, <1>4, <2>1, PutsFacts
<1>5. reserve'[i] \in {grant[q], NoOffset}
  BY <1>3, Zenon DEF Owned
<1>6. q \in live =>
          \/ reserve'[i] = grant[q]
          \/ /\ pc'[q] = "force_merge"
             /\ \E k \in DOMAIN db[req[q].path].pend :
                   db[req[q].path].pend[k].id = i
  BY <1>3, <1>4, Zenon DEF Owned
<1> QED BY <1>2, <1>5, <1>6, OwnedIntro, Zenon DEF Owned

\* A write that keeps the unfolded operands of p, or drops them together with
\* the appends to p, leaves an append what it owns.
LEMMA OwnedWrite ==
    ASSUME NEW q \in Rpcs, Owned(q), NEW p \in Paths,
           UNCHANGED reserve,
           req'[q] = req[q], grant'[q] = grant[q], pc'[q] = pc[q],
           \A o \in Paths \ {p} : db'[o] = db[o],
           q \in live' => q \in live,
           q \in live' => req[q].path \in Paths,
           \/ db'[p].pend = db[p].pend
           \/ db'[p].pend = <<>> /\ (q \in live' => req[q].path # p)
    PROVE  Owned(q)'
<1>1. \A o \in Paths : db'[o].pend = db[o].pend \/ db'[o].pend = <<>>
  BY Zenon
<1>2. DOMAIN <<>> = {}
  OBVIOUS
<1>3. \A o \in Paths : \A k \in DOMAIN db'[o].pend :
          db'[o].pend[k].id = req[q].id => db'[o].pend[k].at = grant[q]
  <2> TAKE o \in Paths
  <2>1. CASE db'[o].pend = db[o].pend
    BY <2>1 DEF Owned
  <2>2. CASE db'[o].pend = <<>>
    BY <1>2, <2>2, Zenon
  <2> QED BY <1>1, <2>1, <2>2, Zenon
<1>4. q \in live' => db'[req[q].path].pend = db[req[q].path].pend
  BY Zenon
<1> QED BY <1>3, <1>4, OwnedIntro DEF Owned

\* A new append takes an id nobody uses: the others keep what they own, and
\* it owns its operand.
LEMMA OwnedAppend ==
    ASSUME StoreInv, UniqueIds, NEW r \in Rpcs, NEW p \in Paths,
           NEW size \in IoSizes, NEW id \in MergeIds,
           append_merge(r, p, size, id)
    PROVE  /\ Owned(r)'
           /\ \A q \in Rpcs \ {r} :
                 InFlight(q) => req[q].id # id /\ (Owned(q) => Owned(q)')
<1>0. /\ db[p] \in Entry /\ db[p].pend \in Seq(Reservation)
      /\ db[p].size \in Nat
  BY DEF StoreInv, TypeOK, Entry
<1>1. /\ reserve[id] = NoOffset
      /\ \A q \in Rpcs : InFlight(q) => req[q].id # id
      /\ \A o \in Paths : \A k \in DOMAIN db[o].pend : db[o].pend[k].id # id
  BY DEF append_merge, InUse
<1>2. /\ UNCHANGED reserve
      /\ req'[r] = [op |-> "append", path |-> p, kind |-> "file",
                    size |-> size, id |-> id]
      /\ grant'[r] = db[p].size
      /\ pc[r] = "idle" /\ pc'[r] = "force_merge"
      /\ live' = IF Present(db[p]) THEN live \cup {r} ELSE live
      /\ \A o \in Paths \ {p} : db'[o] = db[o]
      /\ db'[p] = MergeAppend(db[p], size, id)
  BY Zenon DEF append_merge, Begin, Goto, Write, StoreInv, TypeOK
<1>3. r \notin live
  BY <1>2 DEF StoreInv, HandlerOK
<1>4. Present(db[p]) =>
          db'[p].pend = Append(db[p].pend, [id |-> id, at |-> db[p].size])
  BY <1>2 DEF MergeAppend, MergeInto
<1>5. ~ Present(db[p]) => db'[p].pend = <<>>
  BY <1>2 DEF MergeAppend, MergeInto, Broken
<1>6. \A o \in Paths : \A k \in DOMAIN db'[o].pend :
          \/ k \in DOMAIN db[o].pend /\ db'[o].pend[k] = db[o].pend[k]
          \/ o = p /\ db'[o].pend[k] = [id |-> id, at |-> db[p].size]
  <2> TAKE o \in Paths
  <2>1. CASE o # p
    BY <1>2, <2>1, Zenon
  <2>2. CASE o = p /\ Present(db[p])
    <3>1. /\ Len(db[p].pend) \in Nat
          /\ DOMAIN db'[p].pend = 1..(Len(db[p].pend) + 1)
          /\ DOMAIN db[p].pend = 1..Len(db[p].pend)
          /\ \A k \in 1..Len(db[p].pend) : db'[p].pend[k] = db[p].pend[k]
          /\ db'[p].pend[Len(db[p].pend) + 1]
                = [id |-> id, at |-> db[p].size]
      BY <1>0, <1>4, <2>2
    <3> QED BY <2>2, <3>1
  <2>3. CASE o = p /\ ~ Present(db[p])
    <3>1. DOMAIN db'[o].pend = {}
      BY <1>5, <2>3
    <3> QED BY <3>1, Zenon
  <2> QED BY <2>1, <2>2, <2>3, Zenon
<1>7. Owned(r)'
  <2>1. \A o \in Paths : \A k \in DOMAIN db'[o].pend :
            db'[o].pend[k].id = id => db'[o].pend[k].at = db[p].size
    BY <1>1, <1>6
  <2>2. Present(db[p]) =>
            \E k \in DOMAIN db'[p].pend : db'[p].pend[k].id = id
    <3>1. ASSUME Present(db[p])
          PROVE  /\ Len(db[p].pend) + 1 \in DOMAIN db'[p].pend
                 /\ db'[p].pend[Len(db[p].pend) + 1]
                       = [id |-> id, at |-> db[p].size]
      BY <1>0, <1>4, <3>1
    <3> QED BY <3>1
  <2>3. r \in live' => Present(db[p])
    BY <1>2, <1>3, Zenon
  <2>4. req'[r].id = id /\ req'[r].path = p
    BY <1>2, SMTT(30)
  <2> QED BY <1>1, <1>2, <2>1, <2>2, <2>3, <2>4, Zenon DEF Owned
<1>8. ASSUME NEW q \in Rpcs \ {r}, InFlight(q), Owned(q)
      PROVE  Owned(q)'
  <2>1. /\ req'[q] = req[q] /\ grant'[q] = grant[q] /\ pc'[q] = pc[q]
        /\ q \in live' => q \in live
        /\ req[q].id # id
    BY <1>1, <1>2, <1>8, Zenon
    DEF append_merge, Begin, Goto, StoreInv, TypeOK
  <2>2. \A o \in Paths : \A k \in DOMAIN db'[o].pend :
            db'[o].pend[k].id = req[q].id => db'[o].pend[k].at = grant[q]
    BY <1>6, <1>8, <2>1, SMTT(30) DEF Owned
  <2>3. ASSUME q \in live
        PROVE  \A k \in DOMAIN db[req[q].path].pend :
                  /\ k \in DOMAIN db'[req[q].path].pend
                  /\ db'[req[q].path].pend[k] = db[req[q].path].pend[k]
    <3>1. req[q].path \in Paths /\ Present(db[req[q].path])
      BY <2>3, Zenon DEF StoreInv, HandlerOK, ControlOK
    <3>2. CASE req[q].path = p
      BY <1>0, <1>4, <3>1, <3>2
    <3> QED BY <1>2, <3>1, <3>2, Zenon
  <2>4. q \in live =>
          \/ reserve'[req[q].id] = grant[q]
          \/ /\ pc'[q] = "force_merge"
             /\ \E k \in DOMAIN db'[req[q].path].pend :
                   db'[req[q].path].pend[k].id = req[q].id
    BY <1>2, <1>8, <2>1, <2>3, ZenonT(30) DEF Owned
  <2>5. reserve'[req[q].id] \in {grant[q], NoOffset}
    BY <1>2, <1>8, Zenon DEF Owned
  <2> QED BY <2>1, <2>2, <2>4, <2>5, OwnedIntro, Zenon
<1> QED BY <1>1, <1>7, <1>8, Zenon

\* Folding the oldest operands moves their offsets into the map.
LEMMA OwnedFold ==
    ASSUME TypeOK, NEW q \in Rpcs, Owned(q), req[q].id \in MergeIds,
           q \in live => req[q].path \in Paths,
           NEW p \in Paths, NEW n \in 1..Len(db[p].pend), compact(p, n)
    PROVE  Owned(q)'
<1> DEFINE i == req[q].id
           s == db[p].pend
           old == SubSeq(s, 1, n)
           new == SubSeq(s, n + 1, Len(s))
<1>1. /\ reserve \in Reserve /\ s \in Seq(Reservation)
      /\ i \in MergeIds /\ Len(s) \in Nat /\ n \in Nat /\ n <= Len(s)
  BY DEF TypeOK, Entry
<1>2. /\ old \in Seq(Reservation) /\ Len(old) = n
      /\ \A k \in 1..n : old[k] = s[k]
  BY <1>1
<1>3. /\ new \in Seq(Reservation) /\ Len(new) = Len(s) - n
      /\ \A k \in 1..(Len(s) - n) : new[k] = s[n + k]
  BY <1>1
<1>4. /\ reserve' = Puts(reserve, old)
      /\ db'[p].pend = new
      /\ \A o \in Paths \ {p} : db'[o] = db[o]
      /\ UNCHANGED <<pc, req, grant, live>>
  BY Zenon DEF compact, Folded, hist, TypeOK
<1>5. \A k \in 1..Len(s) : s[k].id = i => s[k].at = grant[q]
  BY <1>1 DEF Owned
<1> HIDE DEF i, s, old, new
<1>6. \A k \in DOMAIN old : old[k].id = i => old[k].at = grant[q]
  BY <1>1, <1>2, <1>5
<1>7. \A k \in DOMAIN new : new[k].id = i => new[k].at = grant[q]
  BY <1>1, <1>3, <1>5, SMTT(30)
<1>8. /\ reserve'[i] = reserve[i] \/ reserve'[i] = grant[q]
      /\ \A k \in 1..n : s[k].id = i => reserve'[i] = grant[q]
  <2>1. \/ /\ reserve'[i] = reserve[i]
           /\ \A k \in DOMAIN old : old[k].id # i
        \/ \E k \in DOMAIN old : old[k].id = i /\ reserve'[i] = old[k].at
    BY <1>1, <1>2, <1>4, PutsFacts, Zenon
  <2>2. \A k \in 1..n : k \in DOMAIN old /\ old[k] = s[k]
    BY <1>1, <1>2
  <2> QED BY <1>6, <2>1, <2>2, Zenon
<1>9. ASSUME NEW k \in DOMAIN s, s[k].id = i
      PROVE  \/ reserve'[i] = grant[q]
             \/ \E j \in DOMAIN new : new[j].id = i
  <2>1. CASE k <= n
    BY <1>1, <1>8, <1>9, <2>1
  <2>2. CASE k > n
    <3>1. k - n \in DOMAIN new /\ new[k - n] = s[k]
      BY <1>1, <1>3, <1>9, <2>2, SMTT(30)
    <3> QED BY <1>9, <3>1, Zenon
  <2> QED BY <1>1, <2>1, <2>2
<1>10. \A o \in Paths : \A k \in DOMAIN db'[o].pend :
          db'[o].pend[k].id = i => db'[o].pend[k].at = grant[q]
  BY <1>4, <1>7 DEF Owned, i
<1>11. reserve'[i] \in {grant[q], NoOffset}
  BY <1>8, SMTT(30) DEF Owned, i
<1>12. q \in live =>
          \/ reserve'[i] = grant[q]
          \/ /\ pc'[q] = "force_merge"
             /\ \E k \in DOMAIN db'[req[q].path].pend :
                   db'[req[q].path].pend[k].id = i
  <2>1. SUFFICES ASSUME q \in live, reserve'[i] # grant[q]
                 PROVE  /\ pc'[q] = "force_merge"
                        /\ \E k \in DOMAIN db'[req[q].path].pend :
                              db'[req[q].path].pend[k].id = i
    BY SMTT(30)
  <2>2. /\ pc[q] = "force_merge" /\ req[q].path \in Paths
        /\ \E k \in DOMAIN db[req[q].path].pend :
              db[req[q].path].pend[k].id = i
    BY <1>8, <2>1, Zenon DEF Owned, i
  <2>3. CASE req[q].path = p
    BY <1>4, <1>9, <2>1, <2>2, <2>3, Zenon DEF s
  <2>4. CASE req[q].path # p
    BY <1>4, <2>2, <2>4, Zenon
  <2> QED BY <1>4, <2>2, <2>3, <2>4, Zenon
<1> QED BY <1>4, <1>10, <1>11, <1>12, OwnedIntro, Zenon DEF i

\* An append that is in flight after a step of a handler that goes on was in
\* flight before it, and still owns its id.
LEMMA OwnedStep ==
    ASSUME StoreInv, IdsOwned, NEW r \in Rpcs, Step(r),
           NEW q \in Rpcs, InFlight(q)'
    PROVE  InFlight(q) /\ req'[q] = req[q] /\ Owned(q)'
<1> DEFINE p == req[r].path
<1>0. TypeOK /\ HandlerOK
  BY Zenon DEF StoreInv
<1>1. HandlerFrame(r, p)
  BY <1>0, StepFrame, Zenon
<1>2. /\ pc[r] # "idle" /\ p \in Paths
      /\ pc'[r] = "take_offset" => append_force_merge(r)
      /\ pc'[r] # "force_merge"
  <2>1. pc[r] # "idle"
    BY ZenonT(30) DEF Step, create_put, append_force_merge, append_take_offset,
           remove_delete, remove_destroy, update_overwrite
  <2>2. /\ pc'[r] = "take_offset" => append_force_merge(r)
        /\ pc'[r] # "force_merge"
    BY <1>0, SMTT(30)
    DEF Step, create_put, append_take_offset, append_force_merge,
        remove_delete, remove_destroy, update_overwrite, Goto, Respond,
        TypeOK
  <2> QED BY <1>0, <2>1, <2>2, StepArguments, Zenon
<1>3. /\ InFlight(q) /\ req'[q] = req[q] /\ grant'[q] = grant[q]
      /\ q # r => pc'[q] = pc[q]
      /\ q = r => append_force_merge(r)
  BY <1>1, <1>2, ZenonT(30) DEF HandlerFrame, InFlight, append_force_merge
<1>4. /\ Owned(q) /\ req[q].id \in MergeIds
      /\ q # r /\ InFlight(r) => req[r].id # req[q].id
  BY <1>0, <1>3, SMTT(30) DEF IdsOwned, HandlerOK, ControlOK
<1>5. /\ \A o \in Paths \ {p} : db'[o] = db[o]
      /\ q \in live => req[q].path \in Paths /\ Present(db[req[q].path])
  BY <1>0, <1>1, Zenon DEF HandlerFrame, HandlerOK, ControlOK
<1>6. pc[r] # "force_merge" => q # r
  BY <1>3, Zenon DEF append_force_merge
<1>7. CASE create_put(r)
  <2>1. q # r
    BY <1>6, <1>7, Zenon DEF create_put
  <2>2. q \in live' => q \in live
    BY <1>7, <2>1, Zenon DEF create_put
  <2>3. db'[p] = MergeCreate(db[p], req[r].kind, 0)
    BY <1>0, <1>2, <1>7, Zenon DEF create_put, Write, TypeOK
  <2>4. \/ db'[p].pend = db[p].pend
        \/ db'[p].pend = <<>> /\ ~ Present(db[p])
    BY <2>3, SMTT(20) DEF MergeCreate, Value, Present, Kinds
  <2>5. UNCHANGED reserve
    BY <1>7, Zenon DEF create_put
  <2> HIDE DEF p
  <2> QED BY <1>2, <1>3, <1>4, <1>5, <2>1, <2>2, <2>4, <2>5, OwnedWrite, Zenon
<1>8. CASE append_force_merge(r)
  <2>1. Get(p) /\ db' = db /\ live' = live
    BY <1>8, Zenon DEF append_force_merge, hist
  <2>2. q = r => Present(db[p])
    BY <1>0, <1>8, Zenon
    DEF append_force_merge, Respond, InFlight, TypeOK
  <2> QED BY <1>0, <1>2, <1>3, <1>4, <2>1, <2>2, OwnedRead, Zenon
<1>9. CASE append_take_offset(r)
  <2>1. q # r /\ InFlight(r)
    BY <1>6, <1>9, Zenon DEF append_take_offset, InFlight
  <2>2. reserve'[req[q].id] = reserve[req[q].id]
    BY <1>0, <1>4, <1>9, <2>1, Zenon DEF append_take_offset, TypeOK, Reserve
  <2>3. db' = db /\ live' = live
    BY <1>9, Zenon DEF append_take_offset, hist
  <2> QED BY <1>3, <1>4, <2>1, <2>2, <2>3, OwnedIntro, ZenonT(30) DEF Owned
<1>10. CASE remove_delete(r) \/ update_overwrite(r)
  <2>1. q # r
    BY <1>6, <1>10, Zenon DEF remove_delete, update_overwrite
  <2>2. db'[p].pend = <<>>
    BY <1>0, <1>2, <1>10, SMTT(30)
    DEF remove_delete, update_overwrite, Write, Absent, Value, TypeOK
  <2>3. UNCHANGED reserve /\ live' = {x \in live : req[x].path # p}
    BY <1>10, SMTT(30) DEF remove_delete, update_overwrite, Superseded
  <2> HIDE DEF p
  <2> QED BY <1>2, <1>3, <1>4, <1>5, <2>1, <2>2, <2>3, OwnedWrite, Zenon
<1>11. CASE remove_destroy(r)
  <2>1. q # r
    BY <1>6, <1>11, Zenon DEF remove_destroy
  <2>2. UNCHANGED <<reserve, db, live>>
    BY <1>11, SMTT(30) DEF remove_destroy, hist
  <2> QED BY <1>2, <1>3, <1>4, <1>5, <2>1, <2>2, OwnedWrite, Zenon
<1> QED BY <1>3, <1>7, <1>8, <1>9, <1>10, <1>11, Zenon DEF Step

\* The same for a handler that takes up a request other than an append.
LEMMA OwnedStart ==
    ASSUME StoreInv, IdsOwned, NEW r \in Rpcs, NEW p \in Paths, Start(r, p),
           ~ \E size \in IoSizes, id \in MergeIds :
                append_merge(r, p, size, id),
           NEW q \in Rpcs, InFlight(q)'
    PROVE  InFlight(q) /\ req'[q] = req[q] /\ Owned(q)'
<1>0. TypeOK /\ HandlerOK
  BY Zenon DEF StoreInv
<1>1. HandlerFrame(r, p)
  BY <1>0, StartFrame, Zenon
<1>2. pc'[r] \notin {"force_merge", "take_offset"}
  BY <1>0, StartEntered, Zenon DEF Entered
<1>3. /\ q # r /\ InFlight(q) /\ req'[q] = req[q] /\ grant'[q] = grant[q]
      /\ pc'[q] = pc[q]
      /\ \A o \in Paths \ {p} : db'[o] = db[o]
  BY <1>1, <1>2, Zenon DEF HandlerFrame, InFlight
<1>4. /\ Owned(q) /\ req[q].id \in MergeIds
      /\ q \in live => req[q].path \in Paths /\ Present(db[req[q].path])
  BY <1>0, <1>3, Zenon DEF IdsOwned, HandlerOK, ControlOK
<1>5. CASE \/ \E kind \in Kinds :
                 create_exists(r, p, kind) \/ remove_get(r, p, kind)
           \/ \E size \in IoSizes \cup {db[p].size} : update_get(r, p, size)
           \/ stat(r, p)
  <2>1. \A kind : create_exists(r, p, kind) \/ remove_get(r, p, kind) =>
                      Get(p) /\ UNCHANGED <<db, hist>>
    BY Zenon DEF create_exists, remove_get
  <2>2. \A size : update_get(r, p, size) => Get(p) /\ UNCHANGED <<db, hist>>
    BY Zenon DEF update_get
  <2>3. stat(r, p) => Get(p) /\ UNCHANGED <<db, hist>>
    BY Zenon DEF stat
  <2>4. Get(p) /\ db' = db /\ live' = live
    BY <1>5, <2>1, <2>2, <2>3, SMTT(30) DEF hist
  <2> QED BY <1>0, <1>3, <1>4, <2>4, OwnedRead, Zenon
<1>6. CASE \E length \in IoSizes : decr_size(r, p, length)
  <2>1. PICK length \in IoSizes : decr_size(r, p, length)
    BY <1>6, Zenon
  <2>2. db'[p] = MergeDecrease(db[p], length)
    BY <1>0, <2>1, Zenon DEF decr_size, Write, TypeOK
  <2>3. db'[p].pend = db[p].pend \/ db'[p].pend = <<>>
    BY <2>2, SMTT(30) DEF MergeDecrease, MergeInto, Broken
  <2>4. UNCHANGED reserve /\ live' = {x \in live : req[x].path # p}
    BY <2>1, Zenon DEF decr_size, Superseded
  <2> QED BY <1>3, <1>4, <2>3, <2>4, OwnedWrite, Zenon
<1>7. CASE \E off, size \in IoSizes : update_size(r, p, off, size)
  <2>1. PICK off \in IoSizes, size \in IoSizes : update_size(r, p, off, size)
    BY <1>7, Zenon
  <2>2. db'[p] = MergeIncrease(db[p], off + size)
    BY <1>0, <2>1, Zenon DEF update_size, Write, TypeOK
  <2>3. \/ db'[p].pend = db[p].pend
        \/ db'[p].pend = <<>> /\ ~ Present(db[p])
    BY <2>2 DEF MergeIncrease, MergeInto, Broken
  <2>4. UNCHANGED reserve /\ (q \in live' => q \in live)
    BY <1>3, <2>1, Zenon DEF update_size
  <2> QED BY <1>3, <1>4, <2>3, <2>4, OwnedWrite, Zenon
<1>8. CASE write_chunk(r, p) \/ remove_data(r, p)
  <2>1. UNCHANGED <<reserve, db, live>>
    BY <1>8, Zenon DEF write_chunk, remove_data, hist
  <2> QED BY <1>3, <1>4, <2>1, OwnedWrite, Zenon
<1> QED BY <1>3, <1>5, <1>6, <1>7, <1>8, Zenon DEF Start

\* Only append_take_offset acknowledges an append, with what the map holds.
LEMMA AppendAnswer ==
    ASSUME StoreInv, Next, NEW r \in Rpcs, pc[r] # "done",
           Acked(r, "append")'
    PROVE  /\ pc[r] = "take_offset" /\ live' = live
           /\ req'[r] = req[r] /\ grant'[r] = grant[r]
           /\ reply'[r].ret = reserve[req[r].id]
<1>0. TypeOK /\ HandlerOK
  BY Zenon DEF StoreInv
<1>1. pc'[r] = "done" /\ req'[r].op = "append" /\ reply'[r].err = "0"
  BY Zenon DEF Acked
<1>2. ASSUME Step(r)
      PROVE  append_take_offset(r)
  <2>1. req'[r] = req[r]
    BY <1>2, Zenon DEF Step, create_put, append_force_merge, append_take_offset,
                remove_delete, remove_destroy, update_overwrite
  <2>2. pc[r] \notin {"put", "delete", "destroy", "overwrite"}
    BY <1>0, <1>1, <2>1, Zenon DEF HandlerOK, ControlOK
  <2>3. ~ append_force_merge(r)
    BY <1>0, <1>1 DEF append_force_merge, Goto, Respond, GetError, TypeOK
  <2> QED BY <1>2, <2>2, <2>3, SMTT(30) DEF Step, create_put, remove_delete,
                                  remove_destroy, update_overwrite
<1>3. ASSUME NEW p \in Paths, Start(r, p)
      PROVE  FALSE
  BY <1>0, <1>1, <1>3, StartEntered, SMTT(30) DEF Entered
<1>4. ASSUME NEW x \in Rpcs, NEW p, HandlerFrame(x, p)
      PROVE  x = r
  BY <1>1, <1>4, Zenon DEF HandlerFrame
<1>5. ~ \E p \in Paths : \E k \in 1..Len(db[p].pend) : compact(p, k)
  BY <1>1, Zenon DEF compact
<1>6. append_take_offset(r)
  <2>1. ASSUME NEW x \in Rpcs, Step(x) PROVE append_take_offset(r)
    BY <1>0, <1>2, <1>4, <2>1, StepFrame, Zenon
  <2>2. ASSUME NEW x \in Rpcs, NEW p \in Paths, Start(x, p) PROVE FALSE
    BY <1>0, <1>3, <1>4, <2>2, StartFrame, Zenon
  <2> QED BY <1>5, <2>1, <2>2, Zenon DEF Next
<1> QED BY <1>0, <1>6, Zenon DEF append_take_offset, Respond, hist, TypeOK

\* Every step preserves that acknowledged appends got their offsets.
LEMMA OffsetStep ==
    ASSUME StoreInv, AppendInv, Next
    PROVE  AppendGetsItsOffset'
<1> SUFFICES ASSUME NEW r \in Rpcs, Acked(r, "append")'
             PROVE  /\ reply'[r].ret \in {grant'[r], NoOffset}
                    /\ r \in live' => reply'[r].ret = grant'[r]
  BY Zenon DEF AppendGetsItsOffset
<1>1. CASE pc[r] # "done"
  <2>1. /\ pc[r] = "take_offset" /\ live' = live
        /\ req'[r] = req[r] /\ grant'[r] = grant[r]
        /\ reply'[r].ret = reserve[req[r].id]
    BY <1>1, AppendAnswer, Zenon
  <2>2. Owned(r)
    BY <2>1, Zenon DEF AppendInv, IdsOwned, InFlight
  <2> QED BY <2>1, <2>2, Zenon DEF Owned
<1>2. CASE pc[r] = "done"
  <2>1. /\ req'[r] = req[r] /\ reply'[r] = reply[r] /\ grant'[r] = grant[r]
        /\ r \in live' => r \in live
    <3>1. CASE FoldFrame
      BY <3>1, Zenon DEF FoldFrame
    <3>2. ASSUME NEW x \in Rpcs, NEW p \in Paths, HandlerFrame(x, p)
          PROVE  /\ req'[r] = req[r] /\ reply'[r] = reply[r]
                 /\ grant'[r] = grant[r]
                 /\ r \in live' => r \in live
      BY <1>2, <3>2, Zenon DEF HandlerFrame, Joined, Replaced
    <3> QED BY <3>1, <3>2, NextFrame, Zenon DEF StoreInv
  <2>2. Acked(r, "append")
    BY <1>2, <2>1, Zenon DEF Acked
  <2> QED BY <2>1, <2>2, Zenon DEF AppendInv, AppendGetsItsOffset
<1> QED BY <1>1, <1>2, Zenon

\* Every step preserves that the appends in progress own their ids.
LEMMA IdsStep ==
    ASSUME StoreInv, IdsOwned, UniqueIds, Next
    PROVE  IdsOwned'
<1>0. TypeOK /\ HandlerOK
  BY Zenon DEF StoreInv
<1>1. ASSUME \A q \in Rpcs : InFlight(q)' =>
                 InFlight(q) /\ req'[q] = req[q] /\ Owned(q)'
      PROVE  IdsOwned'
  BY <1>1, Zenon DEF IdsOwned
<1>2. ASSUME NEW r \in Rpcs, Step(r)
      PROVE  IdsOwned'
  BY <1>1, <1>2, OwnedStep, Zenon
<1>3. ASSUME NEW r \in Rpcs, NEW p \in Paths, Start(r, p)
      PROVE  IdsOwned'
  <2>1. ASSUME NEW size \in IoSizes, NEW id \in MergeIds,
               append_merge(r, p, size, id)
        PROVE  IdsOwned'
    <3>1. /\ Owned(r)'
          /\ \A q \in Rpcs \ {r} :
                InFlight(q) => req[q].id # id /\ (Owned(q) => Owned(q)')
      BY <2>1, OwnedAppend, Zenon
    <3>2. /\ req'[r].id = id
          /\ \A q \in Rpcs \ {r} : pc'[q] = pc[q] /\ req'[q] = req[q]
      BY <1>0, <2>1, Zenon DEF append_merge, Begin, Goto, TypeOK
    <3>3. \A q \in Rpcs \ {r} :
              InFlight(q)' => InFlight(q) /\ req'[q] = req[q] /\ Owned(q)'
      BY <3>1, <3>2, Zenon DEF InFlight, IdsOwned
    <3> QED BY <3>1, <3>2, <3>3 DEF IdsOwned
  <2> QED BY <1>1, <1>3, <2>1, OwnedStart, Zenon
<1>4. ASSUME NEW p \in Paths, NEW k \in 1..Len(db[p].pend), compact(p, k)
      PROVE  IdsOwned'
  <2>1. ASSUME NEW q \in Rpcs, InFlight(q)'
        PROVE  InFlight(q) /\ req'[q] = req[q] /\ Owned(q)'
    <3>1. InFlight(q) /\ req'[q] = req[q]
      BY <1>4, <2>1, Zenon DEF compact, InFlight
    <3>2. /\ Owned(q) /\ req[q].id \in MergeIds
          /\ q \in live => req[q].path \in Paths
      BY <1>0, <3>1, Zenon DEF IdsOwned, HandlerOK, ControlOK
    <3> QED BY <1>0, <1>4, <3>1, <3>2, OwnedFold, Zenon
  <2> QED BY <1>1, <2>1, Zenon
<1> QED BY <1>2, <1>3, <1>4, Zenon DEF Next

\* As long as gen_unique_id returns no id in use, an append that was granted an
\* offset finds it under its id (increase_size_impl).
THEOREM AppendCorrect == ASSUME UniqueIds PROVE Spec => []AppendInv
<1>1. Init => AppendInv
  BY Zenon DEF Init, AppendInv, IdsOwned, AppendGetsItsOffset, InFlight, Acked
<1>2. StoreInv /\ AppendInv /\ [Next]_vars => AppendInv'
  <2>1. ASSUME StoreInv, AppendInv, UNCHANGED vars PROVE AppendInv'
    BY <2>1, Zenon DEF vars, AppendInv, IdsOwned, Owned, AppendGetsItsOffset,
                InFlight, Acked
  <2>2. ASSUME StoreInv, AppendInv, Next PROVE AppendInv'
    BY <2>2, IdsStep, OffsetStep, Zenon DEF AppendInv
  <2> QED BY <2>1, <2>2, SMTT(30)
<1> QED BY <1>1, <1>2, StoreCorrect, PTL DEF Spec

-----------------------------------------------------------------------------
(* The properties.                                                         *)

\* An acknowledged append got the offset it was granted (increase_size_impl).
THEOREM OffsetCorrect ==
    ASSUME UniqueIds PROVE Spec => []AppendGetsItsOffset
<1>1. AppendInv => AppendGetsItsOffset
  BY Zenon DEF AppendInv
<1> QED BY <1>1, AppendCorrect, PTL

\* Parallel appends were assigned disjoint intervals (update_size).
THEOREM DisjointCorrect ==
    ASSUME UniqueIds PROVE Spec => []DisjointAppends
<1>1. ASSUME StoreInv, AppendInv PROVE DisjointAppends
  <2> SUFFICES ASSUME NEW r \in live, NEW q \in live, r # q,
                      req[r].path = req[q].path,
                      Acked(r, "append"), Acked(q, "append")
               PROVE  \/ AppendEnd(r) <= reply[q].ret
                      \/ AppendEnd(q) <= reply[r].ret
    BY Zenon DEF DisjointAppends
  <2>1. r \in Rpcs /\ q \in Rpcs
    BY <1>1, Zenon DEF StoreInv, TypeOK
  <2>2. reply[r].ret = grant[r] /\ reply[q].ret = grant[q]
    BY <1>1, <2>1, Zenon DEF AppendInv, AppendGetsItsOffset
  <2> QED BY <1>1, <2>2, Zenon DEF StoreInv, GrantsDisjoint, Acked, AppendEnd
<1>2. StoreInv /\ AppendInv => DisjointAppends
  BY <1>1, Zenon
<1> QED BY <1>2, StoreCorrect, AppendCorrect, PTL

\* What an acknowledged size update covered stays visible (FullMergeV2).
THEOREM VisibleCorrect ==
    ASSUME UniqueIds PROVE Spec => []AckedSizeVisible
<1>1. ASSUME StoreInv, AppendInv PROVE AckedSizeVisible
  <2> SUFFICES ASSUME NEW r \in live
               PROVE  /\ Acked(r, "update_size") =>
                             req[r].size <= db[req[r].path].size
                      /\ Acked(r, "append") =>
                             AppendEnd(r) <= db[req[r].path].size
    BY Zenon DEF AckedSizeVisible
  <2>1. r \in Rpcs
    BY <1>1, Zenon DEF StoreInv, TypeOK
  <2>2. Acked(r, "append") => reply[r].ret = grant[r]
    BY <1>1, <2>1, Zenon DEF AppendInv, AppendGetsItsOffset
  <2> QED BY <1>1, <2>2, Zenon DEF StoreInv, Covered, Acked, AppendEnd
<1>2. StoreInv /\ AppendInv => AckedSizeVisible
  BY <1>1, Zenon
<1> QED BY <1>2, StoreCorrect, AppendCorrect, PTL
=============================================================================
