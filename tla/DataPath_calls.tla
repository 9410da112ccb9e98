-------------------------- MODULE DataPath_calls ---------------------------
(***************************************************************************)
(* The steps of the clients keep the invariant of the data path, and with  *)
(* them every step does.                                                   *)
(***************************************************************************)
EXTENDS DataPath_proofs

-----------------------------------------------------------------------------
(* The rounds of a write *)

LEMMA WriteStep ==
    ASSUME NEW c \in Clients, Advance(c), op[c].kind = "write", OpType(c)', WriteReqs(c)', Kept(c)', Acked(c)'
    PROVE  CInv(c)'
  BY Zenon DEF Advance, CInv, TruncReqs, Emptying

(* The requests of a round, and the one that carries a byte.               *)
LEMMA Carried ==
    ASSUME Inv, NEW c \in Clients, op[c].kind = "write", NEW num \in {0, Replicas}, NEW at \in Nat, Covers(op[c], at),
           NEW x \in WriteCopies(num)
    PROVE  \E in \in ForwardWrite(place, op[c].off, op[c].len, num) :
              /\ in.host = locate_data(place, block_index(at), x) /\ block_index(at) \in in.bitset
              /\ \E p \in Pieces(in) : p.chunk = block_index(at)
  <1> DEFINE off == op[c].off
             len == op[c].len
  <1>1. Sending /\ <<off, len>> \in Ranges /\ off <= at /\ at < off + len
    BY Zenon DEF Inv, GInv, Numbered, CInv, OpType, Covers
  <1> HIDE DEF off, len
  <1>2. \E in \in ForwardWrite(place, off, len, num) :
              /\ in.host = locate_data(place, block_index(at), x) /\ block_index(at) \in in.bitset
              /\ \E p \in Pieces(in) : p.chunk = block_index(at)
    BY <1>1, Sends
  <1>3. QED  BY <1>2, Zenon DEF off, len

(* After its first round a write is on the first copy of its chunks,       *)
(* unless it missed that copy or another one overlaps it.                  *)
LEMMA FirstRound ==
    ASSUME Inv, NEW c \in Clients, op[c].kind = "write", op[c].pc = "gather", RoundOver(c)
    PROVE  /\ cut = 0 =>
                 \A at \in Offsets : Covers(op[c], at) /\ ~Missed(c, at) => Stored(at) \in op[c].over \cup {op[c].id}
           /\ (PostedOnce /\ Latest(c) /\ \A r \in op[c].reqs : r.err = 0) =>
                 \A at \in Nat : Covers(op[c], at) =>
                    \E h \in Holders(block_index(at)) : At(h, at).by = op[c].id
  <1>1. CInv(c) /\ Writing(c) /\ 0 \in WriteCopies(0) /\ Replicas \in Nat
    BY Bounds, Zenon DEF Inv, Writing, Quiet, WriteCopies
  <1>2. ASSUME NEW at \in Nat, Covers(op[c], at)
        PROVE  \E r \in op[c].reqs : r.in.host = Primary(at) /\ block_index(at) \in r.in.bitset /\ Done(c, r, at)
    <2>1. PICK in \in ForwardWrite(place, op[c].off, op[c].len, 0) :
             in.host = locate_data(place, block_index(at), 0) /\ block_index(at) \in in.bitset
      BY <1>1, <1>2, Carried, 0 \in {0, Replicas}, Zenon
    <2>2. PICK r \in op[c].reqs : r.in = in
      BY <1>1, <2>1, Zenon DEF CInv, WriteReqs, Reqs
    <2>3. QED  BY <2>1, <2>2, Zenon DEF Primary, Done, RoundOver
  <1>3. ASSUME cut = 0, NEW at \in Offsets, Covers(op[c], at), ~Missed(c, at)
        PROVE  Stored(at) \in op[c].over \cup {op[c].id}
    BY <1>1, <1>2, <1>3, Bounds, Zenon DEF CInv, Kept
  <1>4. ASSUME PostedOnce, Latest(c), \A r \in op[c].reqs : r.err = 0, NEW at \in Nat, Covers(op[c], at)
        PROVE  \E h \in Holders(block_index(at)) : At(h, at).by = op[c].id
    <2>1. At(Primary(at), at).by = op[c].id
      BY <1>1, <1>2, <1>4, Zenon DEF CInv, Acked
    <2>2. Primary(at) \in Holders(block_index(at))
      BY <1>1 DEF Primary, Holders
    <2>3. QED  BY <2>1, <2>2, Zenon
  <1>5. QED  BY <1>3, <1>4, Zenon

(* If the first round failed and the second did not, the write is on a     *)
(* copy of its chunks.                                                     *)
LEMMA SecondRound ==
    ASSUME Inv, NEW c \in Clients, op[c].kind = "write", op[c].pc = "gather2", RoundOver(c), op[c].err # 0,
           \A r \in op[c].reqs : r.err = 0, PostedOnce, Latest(c), NEW at \in Nat, Covers(op[c], at)
    PROVE  \E h \in Holders(block_index(at)) : At(h, at).by = op[c].id
  <1>1. CInv(c) /\ Replicas \in Nat /\ Replicas # 0
    BY Bounds, Zenon DEF Inv, CInv, OpType
  <1>2. 1 \in WriteCopies(Replicas) /\ 1 \in 0 .. Replicas
    BY <1>1 DEF WriteCopies
  <1>3. PICK in \in ForwardWrite(place, op[c].off, op[c].len, Replicas) :
             in.host = locate_data(place, block_index(at), 1) /\ block_index(at) \in in.bitset
    BY <1>2, Carried, Replicas \in {0, Replicas}
  <1>4. PICK r \in op[c].reqs : r.in = in
    BY <1>1, <1>3, Zenon DEF CInv, WriteReqs, Reqs
  <1>5. At(in.host, at).by = op[c].id
    BY <1>1, <1>3, <1>4, Zenon DEF CInv, Acked, Done, RoundOver
  <1>6. in.host \in Holders(block_index(at))
    BY <1>2, <1>3, Zenon DEF Holders
  <1>7. QED  BY <1>5, <1>6, Zenon

(* A round is posted: nothing of it is done yet.                           *)
LEMMA NothingDone ==
    ASSUME Inv, NEW c \in Clients, op[c].kind = "write", NEW num \in {0, Replicas},
           NEW in \in ForwardWrite(place, op[c].off, op[c].len, num), NEW at \in Nat, Covers(op[c], at)
    PROVE  /\ DOMAIN Posted(in) = ReqType /\ Posted(in).in = in /\ Posted(in).err = 0
           /\ Posted(in).todo \subseteq Pieces(in)
           /\ block_index(at) \in in.bitset => ~Done(c, Posted(in), at)
           /\ num = 0 /\ in.host = Primary(at) => ~Done(c, Posted(in), at)
  <1>1. DOMAIN Posted(in) = ReqType /\ Posted(in).in = in /\ Posted(in).err = 0 /\ Posted(in).todo = Pieces(in)
    BY Zenon DEF Posted, ReqType
  <1>2. /\ \A k \in in.bitset : \E p \in Pieces(in) : p.chunk = k
        /\ \A jn \in ForwardWrite(place, op[c].off, op[c].len, num) : in.host = jn.host => in = jn
    <2> DEFINE off == op[c].off
               len == op[c].len
    <2>1. Sending /\ <<off, len>> \in Ranges /\ in \in ForwardWrite(place, off, len, num)
      BY Zenon DEF Inv, GInv, Numbered, CInv, OpType
    <2> HIDE DEF off, len
    <2>2. /\ \A k \in in.bitset : \E p \in Pieces(in) : p.chunk = k
          /\ \A jn \in ForwardWrite(place, off, len, num) : in.host = jn.host => in = jn
      BY <2>1, Sends
    <2>3. QED  BY <2>2, Zenon DEF off, len
  <1>3. ASSUME num = 0, in.host = Primary(at) PROVE \E p \in Pieces(in) : p.chunk = block_index(at)
    <2>1. 0 \in WriteCopies(num)
      BY <1>3, Zenon DEF WriteCopies
    <2>2. PICK jn \in ForwardWrite(place, op[c].off, op[c].len, num) :
             /\ jn.host = locate_data(place, block_index(at), 0)
             /\ \E p \in Pieces(jn) : p.chunk = block_index(at)
      BY <2>1, Carried
    <2>3. in = jn
      BY <1>2, <1>3, <2>2, Zenon DEF Primary
    <2>4. QED  BY <2>2, <2>3, Zenon
  <1>4. QED  BY <1>1, <1>2, <1>3, Zenon DEF Done

(* The requests of a round are posted.                                     *)
LEMMA SendsWrite ==
    ASSUME Inv, NEW c \in Clients, SendWrite(c)
    PROVE  Inv'
  <1> DEFINE num == IF op[c].pc = "send" THEN 0 ELSE Replicas
             F == ForwardWrite(place, op[c].off, op[c].len, num)
  <1>1. DOMAIN op = Clients /\ OpType(c) /\ faults \in Nat /\ CInv(c) /\ Replicas \in Nat
    BY Bounds, Zenon DEF Inv, GInv, Numbered, CInv
  <1>2. /\ op[c].kind = "write" /\ op[c].pc \in {"send", "copies"} /\ num \in {0, Replicas}
        /\ UNCHANGED <<place, store, msize, loose, nops, cut, last, behind, faults>>
    BY Zenon DEF SendWrite
  <1>3. /\ Advance(c) /\ DOMAIN op'[c] = Fields /\ op'[c].pc = (IF num = 0 THEN "gather" ELSE "gather2")
        /\ op'[c].err = op[c].err /\ op'[c].missed = op[c].missed /\ op'[c].reqs = {Posted(in) : in \in F}
    BY <1>1, Zenon DEF SendWrite, Advance, OpType, Fields
  <1>4. \/ op[c].pc = "send" /\ op'[c].pc = "gather" /\ num = 0
        \/ op[c].pc = "copies" /\ op'[c].pc = "gather2" /\ num = Replicas
    BY <1>1, <1>2, <1>3, Zenon DEF OpType
  <1>5. Reqs(c)' = F
    BY <1>2, <1>3, <1>4, Zenon DEF Reqs, Advance
  <1> HIDE DEF num, F
  <1>6. \A in \in F : /\ DOMAIN Posted(in) = ReqType /\ Posted(in).in = in /\ Posted(in).err = 0
                      /\ Posted(in).todo \subseteq Pieces(in)
    BY Zenon DEF Posted, ReqType
  <1>7. OpType(c)'
    BY <1>1, <1>2, <1>3, <1>4, Zenon DEF OpType, Advance
  <1>8. WriteReqs(c)'
    <2>1. \A r \in op'[c].reqs : DOMAIN r = ReqType /\ r.in \in F /\ r.todo \subseteq Pieces(r.in) /\ r.err = 0
      BY <1>3, <1>6
    <2>2. \A in \in F : \E r \in op'[c].reqs : r.in = in
      BY <1>3, <1>6, Zenon
    <2>3. op[c].err # 0 => faults >= 1
      BY <1>1, <1>2, Zenon DEF CInv, WriteReqs
    <2>4. QED  BY <1>2, <1>3, <1>5, <2>1, <2>2, <2>3, Zenon DEF WriteReqs
  <1>9. \A r \in op'[c].reqs, at \in Nat : Covers(op[c], at) =>
           /\ block_index(at) \in r.in.bitset => ~Done(c, r, at)
           /\ num = 0 /\ r.in.host = Primary(at) => ~Done(c, r, at)
    <2>1. SUFFICES ASSUME NEW r \in op'[c].reqs, NEW at \in Nat, Covers(op[c], at)
                   PROVE  /\ block_index(at) \in r.in.bitset => ~Done(c, r, at)
                          /\ num = 0 /\ r.in.host = Primary(at) => ~Done(c, r, at)
      BY Zenon
    <2>2. PICK in \in F : r = Posted(in)
      BY <1>3, Zenon
    <2>3. QED  BY <1>2, <1>6, <2>1, <2>2, NothingDone, Zenon DEF F
  <1>10. Kept(c)'
    <2>1. SUFFICES ASSUME cut = 0, NEW at \in Offsets, Covers(op[c], at), ~Missed(c, at)
                   PROVE  /\ op'[c].pc = "gather" =>
                               \A r \in op'[c].reqs : ~(r.in.host = Primary(at) /\ Done(c, r, at))
                          /\ op'[c].pc = "gather2" => Stored(at) \in op[c].over \cup {op[c].id}
      BY <1>2, <1>3, <1>4, SamePlace, SameBytes DEF Kept, Covers, Advance, Done, Missed
    <2>2. at \in Nat
      BY Bounds, Zenon
    <2>3. QED  BY <1>1, <1>2, <1>4, <1>9, <2>1, <2>2, Zenon DEF CInv, Kept, Writing, Quiet
  <1>11. Acked(c)'
    <2>1. SUFFICES ASSUME PostedOnce, Latest(c), NEW at \in Nat, Covers(op[c], at)
                   PROVE  /\ \A r \in op'[c].reqs : ~(block_index(at) \in r.in.bitset /\ Done(c, r, at))
                          /\ op'[c].pc = "gather2" /\ op[c].err = 0
                                => \E h \in Holders(block_index(at)) : At(h, at).by = op[c].id
      BY <1>2, <1>3, <1>4, SamePlace, SameBytes DEF Acked, Covers, Advance, Latest, Done
    <2>2. QED  BY <1>1, <1>4, <1>9, <2>1, Zenon DEF CInv, Acked
  <1>12. ~Quiet(c) /\ ~Quiet(c)' /\ Later
    BY <1>1, <1>2, <1>4 DEF Quiet, Later
  <1>13. QED  BY <1>2, <1>3, <1>7, <1>8, <1>10, <1>11, <1>12, WriteStep, Continues, Zenon

(* The answers of the first round: the call returns, or sends the copies.  *)
LEMMA GathersWrite ==
    ASSUME Inv, NEW c \in Clients, GatherWrite(c)
    PROVE  Inv'
  <1>1. DOMAIN op = Clients /\ OpType(c) /\ faults \in Nat /\ CInv(c)
    BY Zenon DEF Inv, GInv, Numbered, CInv
  <1>2. op[c].kind = "write" /\ op[c].pc = "gather" /\ RoundOver(c) /\ ~Quiet(c) /\ Writing(c)
    BY Zenon DEF GatherWrite, Quiet, Writing
  <1>3. PICK err \in RoundErrs(c) :
           IF Replicas = 0 THEN Finish(c, err, RoundSize(c))
           ELSE /\ op' = [op EXCEPT ![c].pc = "copies", ![c].reqs = {}, ![c].err = err, ![c].ret = RoundSize(c)]
                /\ UNCHANGED <<place, store, dirs, msize, loose, nops, faults, last, behind, cut>>
    BY Zenon DEF GatherWrite
  <1>4. err = 0 <=> \A r \in op[c].reqs : r.err = 0
    BY RoundErrors, Zenon
  <1>5. err # 0 => faults >= 1
    BY <1>1, <1>2, <1>4, Zenon DEF CInv, WriteReqs
  <1>6. CASE Replicas = 0
    <2>1. Return(c, err, RoundSize(c)) /\ UNCHANGED <<loose, faults>> /\ Later
      BY <1>1, <1>3, <1>6 DEF Finish, Later
    <2>2. QED  BY <1>2, <1>4, <1>5, <2>1, FirstRound, Returns, Zenon
  <1>7. CASE Replicas # 0
    <2>1. /\ UNCHANGED <<place, store, msize, loose, nops, faults, last, behind, cut>>
          /\ op' = [op EXCEPT ![c].pc = "copies", ![c].reqs = {}, ![c].err = err, ![c].ret = RoundSize(c)]
      BY <1>3, <1>7, Zenon
    <2>2. /\ Advance(c) /\ DOMAIN op'[c] = Fields /\ op'[c].pc = "copies" /\ op'[c].err = err
          /\ op'[c].missed = op[c].missed /\ op'[c].reqs = {}
      BY <1>1, <2>1, Zenon DEF Advance, OpType, Fields
    <2>3. OpType(c)'
      BY <1>1, <1>2, <1>7, <2>1, <2>2, Zenon DEF OpType, Advance
    <2>4. WriteReqs(c)'
      BY <1>5, <2>1, <2>2, Zenon DEF WriteReqs
    <2>A. /\ \A at : (Covers(op[c], at)' <=> Covers(op[c], at)) /\ Stored(at)' = Stored(at)
          /\ Latest(c)' <=> Latest(c)
          /\ op'[c].id = op[c].id /\ op'[c].over = op[c].over
      BY <2>1, <2>2, SameBytes, Zenon DEF Latest, Covers, Advance
    <2>B. /\ \A h, at : At(h, at)' = At(h, at)
          /\ \A k : Holders(k)' = Holders(k)
      BY <2>1, SamePlace, SameBytes, Zenon
    <2>5. Kept(c)'
      <3>1. cut = 0 =>
               \A at \in Offsets : Covers(op[c], at) /\ ~Missed(c, at) => Stored(at) \in op[c].over \cup {op[c].id}
        BY <1>2, FirstRound, Zenon
      <3>2. \A at : Missed(c, at)' <=> Missed(c, at)
        BY <2>1, <2>2, SamePlace, Zenon DEF Missed
      <3>3. QED  BY <2>1, <2>2, <2>A, <3>1, <3>2, Zenon DEF Kept
    <2>6. Acked(c)'
      <3>1. (PostedOnce /\ Latest(c) /\ err = 0) =>
               \A at \in Nat : Covers(op[c], at) => \E h \in Holders(block_index(at)) : At(h, at).by = op[c].id
        BY <1>2, <1>4, FirstRound, Zenon
      <3>2. QED  BY <2>2, <2>A, <2>B, <3>1, Zenon DEF Acked
    <2>7. ~Quiet(c)' /\ Later
      BY <1>1, <2>1, <2>2 DEF Quiet, Later
    <2>8. QED  BY <1>2, <2>1, <2>2, <2>3, <2>4, <2>5, <2>6, <2>7, WriteStep, Continues, Zenon
  <1>8. QED  BY <1>6, <1>7, Zenon

(* The answers of the second round.                                        *)
LEMMA GathersCopies ==
    ASSUME Inv, NEW c \in Clients, GatherCopies(c)
    PROVE  Inv'
  <1>1. OpType(c) /\ faults \in Nat /\ CInv(c)
    BY Zenon DEF Inv, GInv, Numbered, CInv
  <1>2. op[c].kind = "write" /\ op[c].pc = "gather2" /\ RoundOver(c) /\ ~Quiet(c) /\ Writing(c)
    BY <1>1, Zenon DEF GatherCopies, Quiet, Writing, OpType
  <1>3. cut = 0 =>
           \A at \in Offsets : Covers(op[c], at) /\ ~Missed(c, at) => Stored(at) \in op[c].over \cup {op[c].id}
    BY <1>1, <1>2, Zenon DEF CInv, Kept
  <1>4. CASE op[c].err # 0 /\ RoundErrs(c) = {0}
    <2>1. Return(c, 0, op[c].len) /\ UNCHANGED <<loose, faults>> /\ Later
      BY <1>1, <1>4 DEF GatherCopies, Finish, Later
    <2>2. \A r \in op[c].reqs : r.err = 0
      BY <1>4, RoundErrors, 0 \in {0}
    <2>3. (PostedOnce /\ Latest(c)) =>
              \A at \in Nat : Covers(op[c], at) => \E h \in Holders(block_index(at)) : At(h, at).by = op[c].id
      BY <1>2, <1>4, <2>2, SecondRound, Zenon
    <2>4. QED  BY <1>2, <1>3, <2>1, <2>3, Returns, Zenon
  <1>5. CASE ~(op[c].err # 0 /\ RoundErrs(c) = {0})
    <2>1. Return(c, op[c].err, op[c].ret) /\ UNCHANGED <<loose, faults>> /\ Later
      BY <1>1, <1>5 DEF GatherCopies, Finish, Later
    <2>2. op[c].err # 0 => faults >= 1
      BY <1>1, <1>2 DEF CInv, WriteReqs
    <2>3. (PostedOnce /\ Latest(c) /\ op[c].err = 0) =>
              \A at \in Nat : Covers(op[c], at) => \E h \in Holders(block_index(at)) : At(h, at).by = op[c].id
      BY <1>1, <1>2 DEF CInv, Acked
    <2>4. QED  BY <1>2, <1>3, <2>1, <2>2, <2>3, Returns, Zenon
  <1>6. QED  BY <1>4, <1>5, Zenon

-----------------------------------------------------------------------------
(* Failures *)

(* A request whose piece fails: the write notes that it missed the copy.   *)
LEMMA FailedRequest ==
    ASSUME Inv, NEW c \in Clients, NEW r \in op[c].reqs, NEW r2,
           DOMAIN r = ReqType => DOMAIN r2 = ReqType /\ r2.in = r.in /\ r2.todo \subseteq r.todo /\ r2.err # 0,
           Advance(c), DOMAIN op'[c] = Fields, op'[c].pc = op[c].pc, op'[c].err = op[c].err,
           op[c].missed \subseteq op'[c].missed,
           op[c].kind = "write" => \A at \in Offsets : r.in.host = Primary(at) /\ Done(c, r2, at)
              => Done(c, r, at) \/ <<Primary(at), block_index(at)>> \in op'[c].missed,
           op'[c].reqs = (op[c].reqs \ {r}) \cup {r2}, faults' = faults + 1,
           UNCHANGED <<place, store, msize, loose, nops, last, behind, cut>>
    PROVE  Inv'
  <1>1. DOMAIN op = Clients /\ OpType(c) /\ faults \in Nat /\ CInv(c)
    BY Zenon DEF Inv, GInv, Numbered, CInv
  <1>2. ~Quiet(c) /\ ~Quiet(c)' /\ Later /\ op[c].pc \in {"gather", "gather2"}
    BY <1>1, SMTT(30) DEF Quiet, Later, OpType
  <1>3. OpType(c)'
    BY <1>1, <1>2, Zenon DEF OpType, Advance
  <1>4. CASE op[c].kind = "read"
    BY <1>2, <1>3, <1>4, ReadStep, Continues, Zenon
  <1>5. CASE op[c].kind = "truncate"
    <2>1. /\ \A q \in op[c].reqs : DOMAIN q = ReqType /\ q.in.host \in Hosts /\ q.in.length = op[c].len
          /\ DOMAIN r2 = ReqType /\ r2.in = r.in /\ r2.err # 0
      BY <1>1, <1>5, Zenon DEF CInv, TruncReqs
    <2>2. TruncReqs(c)'
      <3>1. \A q \in op'[c].reqs : DOMAIN q = ReqType /\ q.in.host \in Hosts /\ q.in.length = op[c].len
        BY <2>1, Zenon
      <3>2. QED  BY <3>1 DEF TruncReqs, Advance
    <2>3. Emptying(c)'
      <3>1. \A g : (\E q \in op[c].reqs : q.in.host = g) => \E q \in op'[c].reqs : q.in.host = g
        BY <2>1
      <3>2. \A q \in op'[c].reqs : q.err = 0 => q \in op[c].reqs
        BY <2>1, Zenon
      <3>3. QED  BY <1>1, <1>2, <1>5, <3>1, <3>2, Zenon DEF CInv, Emptying, Advance
    <2>4. QED  BY <1>2, <1>3, <1>5, <2>2, <2>3, TruncStep, Continues, Zenon
  <1>6. CASE op[c].kind = "write"
    <2>1. /\ \A q \in op[c].reqs : DOMAIN q = ReqType /\ q.in \in Reqs(c) /\ q.todo \subseteq Pieces(q.in)
          /\ DOMAIN r2 = ReqType /\ r2.in = r.in /\ r2.todo \subseteq r.todo /\ r2.err # 0
      BY <1>1, <1>6, Zenon DEF CInv, WriteReqs
    <2>2. WriteReqs(c)'
      <3>1. Reqs(c)' = Reqs(c)
        BY Zenon DEF Reqs, Advance
      <3>2. \A q \in op'[c].reqs : DOMAIN q = ReqType /\ q.in \in Reqs(c) /\ q.todo \subseteq Pieces(q.in)
        BY <2>1
      <3>3. \A in : (\E q \in op[c].reqs : q.in = in) => \E q \in op'[c].reqs : q.in = in
        BY <2>1
      <3>4. faults' >= 1
        BY <1>1
      <3>5. QED  BY <1>1, <1>6, <3>1, <3>2, <3>3, <3>4, Zenon DEF CInv, WriteReqs, Advance
    <2>3. Kept(c)'
      <3>1. SUFFICES ASSUME cut = 0, NEW at \in Offsets, Covers(op[c], at),
                            <<Primary(at), block_index(at)>> \notin op'[c].missed
                     PROVE  /\ op[c].pc = "gather" =>
                                 \A q \in op'[c].reqs : q.in.host = Primary(at) /\ Done(c, q, at)
                                    => Stored(at) \in op[c].over \cup {op[c].id}
                            /\ op[c].pc \in {"copies", "gather2"} => Stored(at) \in op[c].over \cup {op[c].id}
        BY SamePlace, SameBytes, Zenon DEF Kept, Covers, Advance, Done, Missed
      <3>2. /\ op[c].pc = "gather" =>
                  \A q \in op[c].reqs : q.in.host = Primary(at) /\ Done(c, q, at)
                     => Stored(at) \in op[c].over \cup {op[c].id}
            /\ op[c].pc \in {"copies", "gather2"} => Stored(at) \in op[c].over \cup {op[c].id}
        BY <1>1, <1>2, <1>6, <3>1, Zenon DEF CInv, Kept, Missed, Writing
      <3>3. QED  BY <1>6, <2>1, <3>1, <3>2, Zenon
    <2>4. Acked(c)'
      <3>1. (Latest(c)' <=> Latest(c)) /\ \A at : Covers(op[c], at)' <=> Covers(op[c], at)
        BY DEF Latest, Covers, Advance
      <3>2. \A q \in op'[c].reqs : q.err = 0 => q \in op[c].reqs
        BY <2>1, Zenon
      <3>3. /\ \A h, at : At(h, at)' = At(h, at)
            /\ \A k : Holders(k)' = Holders(k)
        BY SamePlace, SameBytes, Zenon
      <3>4. QED  BY <1>1, <3>1, <3>2, <3>3, Zenon DEF CInv, Acked, Advance, Done
    <2>5. QED  BY <1>2, <1>3, <1>6, <2>2, <2>3, <2>4, WriteStep, Continues, Zenon
  <1>7. QED  BY <1>1, <1>2, <1>4, <1>5, <1>6, Zenon DEF OpType

LEMMA Fails ==
    ASSUME Inv, NEW c \in Clients, NEW r \in op[c].reqs
    PROVE  /\ \A p \in r.todo : TaskFails(c, r, p) => Inv'
           /\ LoseAnswer(c, r) => Inv'
  <1>1. DOMAIN op = Clients /\ OpType(c)
    BY Zenon DEF Inv, GInv, Numbered, CInv
  <1>2. ASSUME NEW p \in r.todo, TaskFails(c, r, p) PROVE Inv'
    <2>1. PICK e \in {EIO, EOther} :
             op' = [op EXCEPT ![c].missed = IF op[c].kind = "write" THEN @ \cup {<<r.in.host, p.chunk>>} ELSE @,
                              ![c].reqs = (@ \ {r}) \cup {[r EXCEPT !.todo = @ \ {p}, !.err = e]}]
      BY <1>2, Zenon DEF TaskFails
    <2> DEFINE r2 == [r EXCEPT !.todo = @ \ {p}, !.err = e]
    <2>2. DOMAIN r = ReqType => DOMAIN r2 = ReqType /\ r2.in = r.in /\ r2.todo \subseteq r.todo /\ r2.err # 0
      BY DEF ReqType, EIO, EOther
    <2>3. /\ Advance(c) /\ DOMAIN op'[c] = Fields /\ op'[c].pc = op[c].pc /\ op'[c].err = op[c].err
          /\ op'[c].missed = IF op[c].kind = "write" THEN op[c].missed \cup {<<r.in.host, p.chunk>>} ELSE op[c].missed
          /\ op'[c].reqs = (op[c].reqs \ {r}) \cup {r2}
      BY <1>1, <2>1, Zenon DEF Advance, OpType, Fields
    <2>A. op[c].missed \subseteq op'[c].missed
      BY <2>3, Zenon
    <2>B. ASSUME op[c].kind = "write", NEW at \in Offsets, r.in.host = Primary(at), Done(c, r2, at)
          PROVE  Done(c, r, at) \/ <<Primary(at), block_index(at)>> \in op'[c].missed
      <3>1. DOMAIN r = ReqType
        BY <2>B, Zenon DEF Inv, CInv, WriteReqs
      <3>2. r2.todo = r.todo \ {p}
        BY <3>1, Zenon DEF ReqType
      <3>3. p.chunk = block_index(at) \/ Done(c, r, at)
        BY <2>B, <3>2, Zenon DEF Done
      <3>4. QED  BY <2>3, <2>B, <3>3, Zenon
    <2>4. faults' = faults + 1 /\ UNCHANGED <<place, store, msize, loose, nops, last, behind, cut>>
      BY <1>2, Zenon DEF TaskFails, Fault
    <2> HIDE DEF r2
    <2>5. QED  BY <2>2, <2>3, <2>4, <2>A, <2>B, FailedRequest, Zenon
  <1>3. ASSUME LoseAnswer(c, r) PROVE Inv'
    <2> DEFINE r2 == [r EXCEPT !.err = EIO]
    <2>1. DOMAIN r = ReqType => DOMAIN r2 = ReqType /\ r2.in = r.in /\ r2.todo \subseteq r.todo /\ r2.err # 0
      BY DEF ReqType, EIO
    <2>A. ASSUME op[c].kind = "write", NEW at \in Offsets, Done(c, r2, at) PROVE Done(c, r, at)
      <3>1. r.todo = {}
        BY <1>3, Zenon DEF LoseAnswer
      <3>2. QED  BY <3>1, Zenon DEF Done
    <2>2. /\ Advance(c) /\ DOMAIN op'[c] = Fields /\ op'[c].pc = op[c].pc /\ op'[c].err = op[c].err
          /\ op[c].missed \subseteq op'[c].missed /\ op'[c].reqs = (op[c].reqs \ {r}) \cup {r2}
      BY <1>1, <1>3, Zenon DEF LoseAnswer, Advance, OpType, Fields
    <2>3. faults' = faults + 1 /\ UNCHANGED <<place, store, msize, loose, nops, last, behind, cut>>
      BY <1>3, Zenon DEF LoseAnswer, Fault
    <2> HIDE DEF r2
    <2>4. QED  BY <2>1, <2>2, <2>3, <2>A, FailedRequest, Zenon
  <1>4. QED  BY <1>2, <1>3, Zenon

(* A request of the second round cannot be posted.                         *)
LEMMA CopiesNotPosted ==
    ASSUME Inv, NEW c \in Clients, PostCopiesFails(c)
    PROVE  Inv'
  <1> DEFINE ins == ForwardWrite(place, op[c].off, op[c].len, Replicas)
  <1>1. DOMAIN op = Clients /\ OpType(c) /\ faults \in Nat /\ CInv(c) /\ Replicas \in Nat
    BY Bounds, Zenon DEF Inv, GInv, Numbered, CInv
  <1>2. PICK lost \in (SUBSET ins) \ {{}} :
           /\ Fault("post", Cardinality(lost))
           /\ op' = [op EXCEPT ![c].pc = "gather2", ![c].missed = @ \cup Targets(lost),
                               ![c].reqs = {Posted(in) : in \in ins \ lost}]
    BY Zenon DEF PostCopiesFails
  <1>3. /\ op[c].kind = "write" /\ op[c].pc = "copies" /\ Replicas # 0
        /\ UNCHANGED <<place, store, msize, loose, nops, last, behind, cut>>
    BY <1>1, Zenon DEF PostCopiesFails, OpType
  <1>4. /\ Advance(c) /\ DOMAIN op'[c] = Fields /\ op'[c].pc = "gather2" /\ op'[c].err = op[c].err
        /\ op[c].missed \subseteq op'[c].missed /\ op'[c].reqs = {Posted(in) : in \in ins \ lost}
    BY <1>1, <1>2, Zenon DEF Advance, OpType, Fields
  <1>5. Reqs(c)' = ins
    BY <1>3, <1>4, Zenon DEF Reqs, Advance
  <1>7. Cardinality(lost) \in Nat \ {0}
    <2> DEFINE off == op[c].off
               len == op[c].len
    <2>1. Sending /\ <<off, len>> \in Ranges /\ lost \in (SUBSET ForwardWrite(place, off, len, Replicas)) \ {{}}
      BY <1>1, <1>2, <1>3, Zenon DEF Inv, GInv, Numbered, OpType
    <2> HIDE DEF off, len
    <2>2. QED  BY <2>1, Sends, Zenon
  <1> HIDE DEF ins
  <1>8. Later /\ faults' >= 1 /\ faults + 1 <= MaxFaults /\ "post" \in Faults
    BY <1>1, <1>2, <1>7, DataAssumption DEF Later, Fault
  <1>9. ~(op[c].err # 0 /\ PostedOnce)
    <2>1. op[c].err # 0 => faults >= 1
      BY <1>1, <1>3 DEF CInv, WriteReqs
    <2>2. PostedOnce => MaxFaults <= 1
      BY <1>3, <1>8, Zenon DEF PostedOnce
    <2>3. QED  BY <1>1, <1>8, <2>1, <2>2, DataAssumption
  <1>10. OpType(c)'
    BY <1>1, <1>3, <1>4, Zenon DEF OpType, Advance
  <1>11. \A in \in ins : /\ DOMAIN Posted(in) = ReqType /\ Posted(in).in = in
                         /\ Posted(in).todo \subseteq Pieces(in)
    BY Zenon DEF Posted, ReqType
  <1>12. WriteReqs(c)'
    <2>1. \A r \in op'[c].reqs : DOMAIN r = ReqType /\ r.in \in ins /\ r.todo \subseteq Pieces(r.in)
      BY <1>4, <1>11
    <2>2. QED  BY <1>4, <1>5, <1>8, <1>9, <2>1, Zenon DEF WriteReqs
  <1>13. Kept(c)'
    <2>1. /\ \A at : /\ Covers(op[c], at)' <=> Covers(op[c], at)
                     /\ Stored(at)' = Stored(at)
                     /\ Missed(c, at) => Missed(c, at)'
          /\ op'[c].id = op[c].id /\ op'[c].over = op[c].over
      BY <1>3, <1>4, SamePlace, SameBytes, Zenon DEF Covers, Advance, Missed
    <2>2. QED  BY <1>1, <1>3, <1>4, <2>1, Zenon DEF CInv, Kept, Writing, Quiet
  <1>14. Acked(c)'
    <2>1. SUFFICES ASSUME PostedOnce, Latest(c), NEW at \in Nat, Covers(op[c], at)
                   PROVE  /\ \A r \in op'[c].reqs : ~(block_index(at) \in r.in.bitset /\ Done(c, r, at))
                          /\ op[c].err = 0 => \E h \in Holders(block_index(at)) : At(h, at).by = op[c].id
      BY <1>3, <1>4, SamePlace, SameBytes DEF Acked, Covers, Advance, Latest, Done
    <2>2. ASSUME NEW r \in op'[c].reqs PROVE ~(block_index(at) \in r.in.bitset /\ Done(c, r, at))
      <3>1. PICK in \in ins : r = Posted(in)
        BY <1>4
      <3>2. QED  BY <1>3, <1>11, <2>1, <3>1, NothingDone, Replicas \in {0, Replicas}, ZenonT(30) DEF ins
    <2>3. QED  BY <1>1, <1>3, <2>1, <2>2, ZenonT(30) DEF CInv, Acked
  <1>15. ~Quiet(c) /\ ~Quiet(c)'
    BY <1>3, <1>4 DEF Quiet
  <1>16. QED  BY <1>3, <1>4, <1>8, <1>10, <1>12, <1>13, <1>14, <1>15, WriteStep, Continues, Zenon

(* The requests posted before the one that fails are left behind.          *)
LEMMA LeftBehind ==
    ASSUME Inv, NEW c \in Clients, Writing(c), op[c].pc = "send", Advance(c), op'[c].pc \in {"copies", "done"}, Later,
           UNCHANGED <<place, store, msize, nops, behind, cut>>,
           \A m \in loose' : \/ m \in loose
                             \/ /\ DOMAIN m = {"id", "off", "host", "todo"} /\ m.id = op[c].id /\ m.off = op[c].off
                                /\ \E in \in ForwardWrite(place, op[c].off, op[c].len, 0) :
                                      m.host = in.host /\ m.todo = Pieces(in),
           DOMAIN last' = Offsets,
           \A at \in Offsets : /\ last[at] \cup Covering(at) \subseteq last'[at] \cup Covering(at)'
                               /\ Covers(op[c], at) => op[c].id \in last'[at] \cup Covering(at)'
    PROVE  GInv'
  <1> DEFINE New(m) == /\ DOMAIN m = {"id", "off", "host", "todo"} /\ m.id = op[c].id /\ m.off = op[c].off
                       /\ \E in \in ForwardWrite(place, op[c].off, op[c].len, 0) :
                             m.host = in.host /\ m.todo = Pieces(in)
  <1>1. /\ Numbered /\ InPlace /\ Sized /\ LooseInv /\ Alone /\ Overlaps /\ LatestAlone /\ LastOrRunning
        /\ OpType(c) /\ op[c].kind = "write" /\ ~Quiet(c)
    BY DEF Inv, GInv, CInv, Writing
  <1>2. \A m \in loose' : m \in loose \/ New(m)
    BY Zenon
  <1> HIDE DEF New
  <1>3. \A d \in Clients : /\ op'[d].kind = op[d].kind /\ op'[d].id = op[d].id /\ op'[d].off = op[d].off
                           /\ op'[d].len = op[d].len /\ op'[d].over = op[d].over
                           /\ Quiet(d) => Quiet(d)'
    BY <1>1, Zenon DEF Advance, Quiet
  <1>4. \A d \in Clients : (Writing(d)' => Writing(d)) /\ (Latest(d)' <=> Latest(d))
    BY <1>3, Zenon DEF Writing, Latest
  <1>5. Numbered'
    BY <1>1, SamePlace, Zenon DEF Numbered, Later, Advance
  <1>6. InPlace' /\ Sized'
    <2>1. \A k : Holders(k)' = Holders(k)
      BY SamePlace, Zenon
    <2>2. \A h, at : At(h, at)' = At(h, at)
      BY SameBytes, Zenon
    <2>3. InPlace'
      BY <1>1, <2>1, <2>2, Zenon DEF InPlace, Files
    <2>4. QED  BY <1>1, <1>3, <1>4, <2>2, <2>3, Zenon DEF Sized
  <1>7. LooseInv'
    <2>1. ASSUME NEW m, New(m)
          PROVE  /\ DOMAIN m = {"id", "off", "host", "todo"} /\ m.id \in Nat /\ m.id <= nops
                 /\ \E r \in Ranges : LooseFrom(m, r)'
      <3>1. PICK r \in Ranges : r[1] = op[c].off /\ r[2] = op[c].len
        BY <1>1, Zenon DEF OpType
      <3>2. cut = 0 => op[c].off + op[c].len <= msize
        BY <1>1 DEF Sized
      <3>3. LooseFrom(m, r)'
        <4>1. PICK in \in ForwardWrite(place, op[c].off, op[c].len, 0) : m.host = in.host /\ m.todo = Pieces(in)
          BY <2>1, Zenon DEF New
        <4>2. in \in ForwardWrite(place, r[1], r[2], 0)' /\ (cut' = 0 => r[1] + r[2] <= msize') /\ r[1] = m.off
          BY <2>1, <3>1, <3>2, <4>1, Zenon DEF New
        <4>3. QED  BY <4>1, <4>2, Zenon DEF LooseFrom
      <3>4. m.id \in Nat /\ m.id <= nops /\ DOMAIN m = {"id", "off", "host", "todo"}
        BY <1>1, <2>1, Zenon DEF New, OpType
      <3>5. QED  BY <3>1, <3>3, <3>4, Zenon
    <2>2. \A m \in loose : /\ DOMAIN m = {"id", "off", "host", "todo"} /\ m.id \in Nat /\ m.id <= nops
                           /\ \E r \in Ranges : LooseFrom(m, r)'
      BY <1>1, Zenon DEF LooseInv, LooseFrom
    <2>3. QED  BY <1>2, <2>1, <2>2, Zenon DEF LooseInv
  <1>8. Alone'
    <2>1. \A d \in Clients : op[d].kind = "truncate" => nops # op[d].id /\ op[d].pc = "done" /\ cut # 0 /\ d # c
      BY <1>1, Zenon DEF Alone
    <2>2. QED  BY <1>3, <2>1 DEF Alone, Advance
  <1>9. Overlaps'
    <2>1. \A d \in Clients : Writing(d) => op[c].id \in op[d].over \cup {op[d].id}
      BY <1>1, ZenonT(30) DEF Overlaps
    <2>2. QED  BY <1>1, <1>2, <1>3, <1>4, <2>1, Zenon DEF Overlaps, New
  <1>10. LatestAlone'
    <2>1. \A d \in Clients : Latest(d) => d = c
      BY <1>1, Zenon DEF LatestAlone
    <2>2. QED  BY <1>1, <1>2, <1>3, <1>4, <2>1, ZenonT(30) DEF LatestAlone, New
  <1>11. LastOrRunning'
    <2>1. ASSUME NEW m, New(m), NEW p \in m.todo, NEW at \in Offsets, InPiece(p, at) PROVE Covers(op[c], at)
      <3> DEFINE off == op[c].off
                 len == op[c].len
      <3>1. PICK in \in ForwardWrite(place, off, len, 0) : p \in Pieces(in)
        BY <2>1, Zenon DEF New
      <3>2. Sending /\ <<off, len>> \in Ranges
        BY <1>1, Zenon DEF Numbered, OpType
      <3> HIDE DEF off, len
      <3>3. Fits(off, len, p) /\ at \in Nat
        BY <3>1, <3>2, Sends, 0 \in {0, Replicas}, Bounds, Zenon
      <3>4. QED  BY <2>1, <3>3, Zenon DEF Fits, Covers, off, len
    <2>2. \A at \in Offsets : Stored(at)' = Stored(at) /\ Primary(at)' = Primary(at)
      BY SamePlace, SameBytes, Zenon
    <2>3. ASSUME cut = 0, NEW m \in loose', NEW p \in m.todo, NEW at \in Offsets, InPiece(p, at)
          PROVE  m.id \in last'[at] \cup Covering(at)'
      <3>1. CASE m \in loose
        BY <1>1, <2>3, <3>1, Zenon DEF LastOrRunning
      <3>2. CASE New(m)
        BY <2>1, <2>3, <3>2, Zenon DEF New
      <3>3. QED  BY <1>2, <2>3, <3>1, <3>2, Zenon
    <2>4. QED  BY <1>1, <2>2, <2>3, Zenon DEF LastOrRunning
  <1>12. QED  BY <1>5, <1>6, <1>7, <1>8, <1>9, <1>10, <1>11, ZenonT(30) DEF GInv

(* A request of the first round cannot be posted; those that were are left *)
(* to the daemons.                                                         *)
LEMMA WriteNotPosted ==
    ASSUME Inv, NEW c \in Clients, PostWriteFails(c)
    PROVE  Inv'
  <1> DEFINE ins == ForwardWrite(place, op[c].off, op[c].len, 0)
  <1>1. DOMAIN op = Clients /\ OpType(c) /\ faults \in Nat /\ CInv(c) /\ DOMAIN last = Offsets
    BY Zenon DEF Inv, GInv, Numbered, CInv
  <1>2. op[c].kind = "write" /\ op[c].pc = "send" /\ Writing(c) /\ ~Quiet(c) /\ op[c].reqs = {} /\ EOther # 0
    BY <1>1 DEF PostWriteFails, Writing, Quiet, OpType, EOther
  <1>3. Later /\ faults' >= 1
    <2>1. faults' = faults + 1
      BY Zenon DEF PostWriteFails, Fault
    <2>2. QED  BY <1>1, <2>1 DEF Later
  <1>4. \A m \in loose' : \/ m \in loose
                          \/ /\ DOMAIN m = {"id", "off", "host", "todo"} /\ m.id = op[c].id /\ m.off = op[c].off
                             /\ \E in \in ins : m.host = in.host /\ m.todo = Pieces(in)
    <2>1. PICK f \in ins : loose' = loose \cup
               {[id |-> op[c].id, off |-> op[c].off, host |-> in.host, todo |-> Pieces(in)] :
                    in \in {x \in ins : Min(x.bitset) < Min(f.bitset)}}
      BY Zenon DEF PostWriteFails
    <2> HIDE DEF ins
    <2>2. QED  BY <2>1
  <1>5. \A at \in Offsets : Covering(at) \subseteq Covering(at)' \cup {op[c].id}
    <2>0. ASSUME Advance(c), NEW d \in Clients, d # c, NEW at \in Offsets, Writing(d), Covers(op[d], at)
          PROVE  (Writing(d) /\ Covers(op[d], at))' /\ op'[d].id = op[d].id
      BY <2>0 DEF Advance, Writing, Quiet, Covers
    <2>1. Advance(c)
      BY <1>1 DEF PostWriteFails, Return, Advance, OpType, Fields
    <2>2. QED  BY <2>0, <2>1 DEF Covering
  <1> HIDE DEF ins
  <1>6. CASE Replicas = 0
    <2>1. Return(c, EOther, 0)
      BY <1>6 DEF PostWriteFails
    <2>2. /\ Advance(c) /\ DOMAIN op'[c] = Fields /\ op'[c].pc = "done" /\ op'[c].reqs = {} /\ op'[c].err = EOther
          /\ UNCHANGED <<place, store, msize, nops, behind, cut>> /\ Settle(c, EOther)
      BY <1>1, <1>2, <2>1, Zenon DEF Return, Settle, Advance, OpType, Fields
    <2>3. DOMAIN last' = Offsets /\ \A at \in Offsets :
             last'[at] = IF Covers(op[c], at) THEN last[at] \cup op[c].over \cup {op[c].id} ELSE last[at]
      BY <1>2, <2>2, Zenon DEF Settle
    <2>4. \A at \in Offsets : /\ last[at] \cup Covering(at) \subseteq last'[at] \cup Covering(at)'
                              /\ Covers(op[c], at) => op[c].id \in last'[at] \cup Covering(at)'
      <3>1. \A at \in Offsets : ~Covers(op[c], at) => Covering(at) \subseteq Covering(at)'
        BY <2>2, SMTT(30) DEF Covering, Advance, Writing, Quiet, Covers
      <3>2. QED  BY <1>5, <2>3, <3>1, Zenon
    <2>5. GInv'
      BY <1>2, <1>3, <1>4, <2>2, <2>3, <2>4, LeftBehind, ZenonT(30) DEF ins
    <2>6. OpType(c)'
      BY <1>1, <1>2, <2>2, Zenon DEF OpType, Advance
    <2>7. WriteReqs(c)' /\ Kept(c)' /\ Acked(c)'
      BY <1>2, <1>3, <2>2, Zenon DEF WriteReqs, Kept, Acked, Writing, Quiet
    <2>8. QED  BY <1>2, <1>3, <2>2, <2>5, <2>6, <2>7, WriteStep, Others, Zenon DEF Inv
  <1>7. CASE Replicas # 0
    <2>1. /\ op' = [op EXCEPT ![c].pc = "copies", ![c].err = EOther, ![c].missed = Targets(ins)]
          /\ UNCHANGED <<place, store, msize, nops, last, behind, cut>>
      BY <1>7 DEF PostWriteFails, ins
    <2>2. /\ Advance(c) /\ DOMAIN op'[c] = Fields /\ op'[c].pc = "copies" /\ op'[c].reqs = {} /\ op'[c].err = EOther
          /\ op'[c].missed = Targets(ins)
      BY <1>1, <1>2, <2>1, Zenon DEF Advance, OpType, Fields
    <2>3. \A at \in Offsets : Covering(at)' = Covering(at) /\ (Covers(op[c], at) => op[c].id \in Covering(at))
      <3>1. \A d \in Clients, at \in Offsets :
               (Writing(d) /\ Covers(op[d], at) <=> (Writing(d) /\ Covers(op[d], at))') /\ op'[d].id = op[d].id
        BY <1>2, <2>2 DEF Advance, Writing, Quiet, Covers
      <3>2. QED  BY <1>2, <3>1, Zenon DEF Covering
    <2>4. GInv'
      <3>1. \A at \in Offsets : /\ last[at] \cup Covering(at) \subseteq last'[at] \cup Covering(at)'
                                /\ Covers(op[c], at) => op[c].id \in last'[at] \cup Covering(at)'
        BY <2>1, <2>3, Zenon
      <3>2. QED  BY <1>1, <1>2, <1>3, <1>4, <2>1, <2>2, <3>1, LeftBehind, ZenonT(30) DEF ins
    <2>5. OpType(c)'
      BY <1>1, <1>2, <1>7, <2>1, <2>2, Zenon DEF OpType, Advance
    <2>A. ASSUME NEW at \in Offsets, Covers(op[c], at) PROVE Missed(c, at)'
      <3>1. 0 \in WriteCopies(0) /\ at \in Nat
        BY Bounds, Zenon DEF WriteCopies
      <3>2. PICK in \in ins : in.host = Primary(at) /\ block_index(at) \in in.bitset
        BY <1>2, <2>A, <3>1, Carried, 0 \in {0, Replicas}, Zenon DEF ins, Primary
      <3>3. <<Primary(at), block_index(at)>> \in Targets(ins)
        BY <3>2 DEF Targets
      <3>4. QED  BY <2>1, <2>2, <3>3, SamePlace, Zenon DEF Missed
    <2>6. WriteReqs(c)' /\ Kept(c)' /\ Acked(c)'
      <3>1. \A at : Covers(op[c], at)' <=> Covers(op[c], at)
        BY <2>2, Zenon DEF Covers, Advance
      <3>2. Kept(c)'
        BY <2>A, <3>1, Zenon DEF Kept
      <3>3. QED  BY <1>2, <1>3, <2>2, <3>2 DEF WriteReqs, Acked
    <2>7. QED  BY <1>2, <1>3, <2>1, <2>2, <2>4, <2>5, <2>6, WriteStep, Others, Zenon DEF Inv
  <1>8. QED  BY <1>6, <1>7

-----------------------------------------------------------------------------
(* The beginning of an operation *)

Begun(c, new) ==
    /\ DOMAIN op' = Clients /\ nops' = nops + 1 /\ DOMAIN op'[c] = Fields /\ Quiet(c)
    /\ op'[c].kind = new.kind /\ op'[c].id = nops + 1 /\ op'[c].off = new.off /\ op'[c].len = new.len
    /\ op'[c].old = new.old /\ op'[c].pc = "send" /\ op'[c].reqs = {} /\ op'[c].err = 0
    /\ op'[c].over = {op[w].id : w \in {d \in Clients : Writing(d)}} \cup {l.id : l \in loose}
    /\ \A d \in Clients : d # c =>
          /\ DOMAIN op'[d] = Fields /\ op'[d].kind = op[d].kind /\ op'[d].id = op[d].id /\ op'[d].off = op[d].off
          /\ op'[d].len = op[d].len /\ op'[d].old = op[d].old /\ op'[d].pc = op[d].pc /\ op'[d].reqs = op[d].reqs
          /\ op'[d].err = op[d].err /\ op'[d].missed = op[d].missed
          /\ op'[d].over = op[d].over \cup (IF ~Quiet(d) /\ new.kind = "write" THEN {nops + 1} ELSE {})

LEMMA BegunNew ==
    ASSUME Inv, NEW c \in Clients, CanBegin(c), NEW new, DOMAIN new = Fields, new.id = nops + 1, new.pc = "send",
           new.reqs = {}, new.err = 0, Begin(c, new)
    PROVE  Begun(c, new)
  <1>1. DOMAIN op = Clients /\ \A d \in Clients : DOMAIN op[d] = Fields
    BY Zenon DEF Inv, GInv, Numbered, CInv, OpType
  <1>2. \A d \in Clients : d \in Active <=> ~Quiet(d)
    BY DEF Active, Quiet
  <1> DEFINE writers == {d \in Active : op[d].kind = "write"}
             over == {op[w].id : w \in writers} \cup {l.id : l \in loose}
  <1>3. writers = {d \in Clients : Writing(d)}
    BY <1>2 DEF Writing, Active
  <1>4. DOMAIN op' = Clients /\ nops' = nops + 1 /\ op'[c] = [new EXCEPT !.over = over]
    BY Zenon DEF Begin
  <1>5. over = {op[w].id : w \in {d \in Clients : Writing(d)}} \cup {l.id : l \in loose}
    BY <1>3, Zenon
  <1> HIDE DEF over, writers
  <1>6. /\ DOMAIN op'[c] = Fields /\ Quiet(c)
        /\ op'[c].kind = new.kind /\ op'[c].id = nops + 1 /\ op'[c].off = new.off /\ op'[c].len = new.len
        /\ op'[c].old = new.old /\ op'[c].pc = "send" /\ op'[c].reqs = {} /\ op'[c].err = 0 /\ op'[c].over = over
    BY <1>4, Zenon DEF Fields, CanBegin, Quiet
  <1>7. ASSUME NEW d \in Clients, d # c
        PROVE  /\ DOMAIN op'[d] = Fields /\ op'[d].kind = op[d].kind /\ op'[d].id = op[d].id /\ op'[d].off = op[d].off
               /\ op'[d].len = op[d].len /\ op'[d].old = op[d].old /\ op'[d].pc = op[d].pc /\ op'[d].reqs = op[d].reqs
               /\ op'[d].err = op[d].err /\ op'[d].missed = op[d].missed
               /\ op'[d].over = op[d].over \cup (IF ~Quiet(d) /\ new.kind = "write" THEN {nops + 1} ELSE {})
    <2>1. CASE ~Quiet(d) /\ new.kind = "write"
      <3>1. op'[d] = [op[d] EXCEPT !.over = @ \cup {new.id}]
        BY <1>2, <1>7, <2>1, Zenon DEF Begin
      <3>2. QED  BY <1>1, <2>1, <3>1, Zenon DEF Fields
    <2>2. CASE ~(~Quiet(d) /\ new.kind = "write")
      <3>1. op'[d] = op[d]
        BY <1>2, <1>7, <2>2, Zenon DEF Begin
      <3>2. QED  BY <1>1, <2>2, <3>1, Zenon
    <2>3. QED  BY <2>1, <2>2, Zenon
  <1>8. QED  BY <1>4, <1>5, <1>6, <1>7, ZenonT(30) DEF Begun

(* The numbers of the calls and of the truncations.                        *)
LEMMA NextNumber ==
    \A n \in Nat : n + 1 \in Nat /\ n + 1 # 0 /\ (n + 1 = 1 => n = 0) /\ \A a \in Nat : a <= n => a <= n + 1 /\ a # n + 1
  OBVIOUS

(* A place below the size is below a greater size.                         *)
LEMMA Grows ==
    \A m, n \in Nat : n >= m => \A a \in Nat : (a < m => a < n) /\ (a <= m => a <= n)
  OBVIOUS

(* The places of ranges and chunks in the file.                            *)
LEMMA Places ==
    /\ \A off, len : <<off, len>> \in Ranges => off + len \in Nat
    /\ \A r \in Ranges : r[1] + r[2] \in Nat
    /\ \A k \in Nat : k * ChunkSize \in Nat
  BY DataAssumption, LayoutAssumption

LEMMA BeginOthers ==
    ASSUME Inv, NEW c \in Clients, NEW new, Begun(c, new), UNCHANGED <<place, store, faults>>,
           cut' = cut \/ cut' = cut + 1, NEW d \in Clients, d # c
    PROVE  CInv(d)'
  <1>1. CInv(d) /\ nops \in Nat /\ cut \in Nat /\ nops' = nops + 1
    BY Zenon DEF Inv, GInv, Numbered, Begun
  <1>2. /\ DOMAIN op'[d] = Fields /\ op'[d].kind = op[d].kind /\ op'[d].id = op[d].id /\ op'[d].off = op[d].off
        /\ op'[d].len = op[d].len /\ op'[d].old = op[d].old /\ op'[d].pc = op[d].pc /\ op'[d].reqs = op[d].reqs
        /\ op'[d].err = op[d].err /\ op'[d].missed = op[d].missed /\ op[d].over \subseteq op'[d].over
    BY Zenon DEF Begun
  <1>3. op[d].id \in Nat /\ op[d].id <= nops' /\ op[d].id # nops' /\ nops' \in Nat
    <2>1. op[d].id \in Nat /\ op[d].id <= nops
      BY <1>1, Zenon DEF CInv, OpType
    <2>2. QED  BY <1>1, <2>1, NextNumber, Zenon
  <1>4. OpType(d)'
    <2>1. OpType(d)
      BY <1>1, Zenon DEF CInv
    <2>2. QED  BY <1>2, <1>3, <2>1, Zenon DEF OpType
  <1>5. Reqs(d)' = Reqs(d) /\ (Writing(d)' <=> Writing(d)) /\ ~Latest(d)'
    BY <1>2, <1>3, Zenon DEF Reqs, Writing, Quiet, Latest
  <1>6. WriteReqs(d)' /\ TruncReqs(d)'
    BY <1>1, <1>2, <1>5 DEF CInv, WriteReqs, TruncReqs
  <1>7. Emptying(d)' /\ Acked(d)'
    BY <1>2, <1>3, <1>5, Zenon DEF Emptying, Acked
  <1>8. Kept(d)'
    <2>1. cut' = 0 => cut = 0
      BY <1>1, NextNumber, Zenon
    <2>2. \A at : (Covers(op[d], at)' <=> Covers(op[d], at)) /\ (Missed(d, at)' <=> Missed(d, at))
      BY <1>2, SamePlace, Zenon DEF Covers, Missed
    <2>3. QED  BY <1>1, <1>2, <1>5, <2>1, <2>2, SamePlace, SameBytes, ZenonT(30) DEF CInv, Kept, Done
  <1>9. QED  BY <1>4, <1>6, <1>7, <1>8, Zenon DEF CInv

(* What is shared, when nobody truncates.                                  *)
LEMMA BeginShared ==
    ASSUME Inv, NEW c \in Clients, NEW new, Begun(c, new), UNCHANGED <<place, store, faults, loose, last, behind>>,
           cut' = cut \/ cut' = cut + 1, msize' \in Nat, msize' <= EndOf, cut' = 0 => msize' >= msize,
           cut' = 0 /\ new.kind = "write" => new.off + new.len <= msize',
           new.kind # "truncate" => \A d \in Clients : op[d].kind = "truncate" => Quiet(d),
           new.kind = "truncate" => /\ cut' = cut + 1 /\ \A d \in Clients : Quiet(d)
    PROVE  GInv'
  <1>1. /\ Numbered /\ InPlace /\ Sized /\ LooseInv /\ Alone /\ Overlaps /\ LatestAlone /\ LastOrRunning
        /\ nops \in Nat /\ cut \in Nat /\ msize \in Nat /\ (cut' = 0 => cut = 0) /\ cut' \in Nat
    <2>1. GInv /\ nops \in Nat /\ cut \in Nat /\ msize \in Nat
      BY Zenon DEF Inv, GInv, Numbered
    <2>2. QED  BY <2>1, NextNumber, Zenon DEF GInv
  <1>0. nops' = nops + 1 /\ nops' \in Nat
    BY <1>1, NextNumber, Zenon DEF Begun
  <1>2. \A d \in Clients : op[d].id \in Nat /\ op[d].id <= nops' /\ op[d].id # nops'
    <2>1. \A d \in Clients : op[d].id \in Nat /\ op[d].id <= nops
      BY ZenonT(30) DEF Inv, CInv, OpType
    <2>2. QED  BY <1>0, <1>1, <2>1, NextNumber, Zenon
  <1>3. \A d \in Clients : d # c => /\ op'[d].kind = op[d].kind /\ op'[d].id = op[d].id /\ op'[d].off = op[d].off
                                    /\ op'[d].len = op[d].len /\ op'[d].pc = op[d].pc
                                    /\ op[d].over \subseteq op'[d].over
                                    /\ (Writing(d)' <=> Writing(d)) /\ (Quiet(d)' <=> Quiet(d)) /\ ~Latest(d)'
    BY <1>2 DEF Begun, Writing, Quiet, Latest
  <1>4. /\ op'[c].kind = new.kind /\ op'[c].id = nops' /\ op'[c].off = new.off /\ op'[c].len = new.len
        /\ op'[c].pc = "send" /\ ~Quiet(c)' /\ ~Writing(c) /\ (Writing(c)' <=> new.kind = "write")
        /\ op'[c].over = {op[w].id : w \in {d \in Clients : Writing(d)}} \cup {l.id : l \in loose}
    BY ZenonT(30) DEF Begun, Quiet, Writing
  <1>5. Numbered'
    <2>1. Sending => Sending'
      BY SamePlace, Zenon
    <2>2. QED  BY <1>0, <1>1, <2>1, Zenon DEF Numbered, Begun
  <1>6. InPlace'
    <2>1. \A k : Holders(k)' = Holders(k)
      BY SamePlace, Zenon
    <2>2. \A h, at : At(h, at)' = At(h, at)
      BY SameBytes, Zenon
    <2>3. QED  BY <1>1, <2>1, <2>2, Zenon DEF InPlace, Files
  <1>7. Sized'
    <2>1. SUFFICES ASSUME cut' = 0
                   PROVE  /\ \A h \in Hosts : \A k \in DOMAIN store[h] : k * ChunkSize < msize'
                          /\ \A h \in Hosts, at \in Nat : At(h, at) # Hole => at < msize'
                          /\ \A d \in Clients : Writing(d)' => op'[d].off + op'[d].len <= msize'
      BY SameBytes DEF Sized
    <2>2. cut = 0 /\ \A a \in Nat : (a < msize => a < msize') /\ (a <= msize => a <= msize')
      BY <1>1, <2>1, Grows, Zenon
    <2>3. ASSUME NEW h \in Hosts, NEW k \in DOMAIN store[h] PROVE k * ChunkSize < msize'
      <3>1. k \in Nat /\ k * ChunkSize < msize
        BY <1>1, <2>2, Zenon DEF InPlace, Files, Sized
      <3>2. QED  BY <2>2, <3>1, Places, Zenon
    <2>4. ASSUME NEW h \in Hosts, NEW at \in Nat, At(h, at) # Hole PROVE at < msize'
      <3>1. at < msize
        BY <1>1, <2>2, <2>4, Zenon DEF Sized
      <3>2. QED  BY <2>2, <3>1, Zenon
    <2>5. ASSUME NEW d \in Clients, Writing(d)' PROVE op'[d].off + op'[d].len <= msize'
      <3>1. CASE d = c
        BY <1>4, <2>1, <2>5, <3>1, Zenon
      <3>2. CASE d # c
        <4>1. op[d].off + op[d].len <= msize /\ <<op[d].off, op[d].len>> \in Ranges
          BY <1>1, <1>3, <2>2, <2>5, <3>2, ZenonT(30) DEF Sized, Inv, CInv, OpType, Writing
        <4>2. op[d].off + op[d].len \in Nat
          BY <4>1, Places, Zenon
        <4>3. QED  BY <1>3, <2>2, <3>2, <4>1, <4>2, Zenon
      <3>3. QED  BY <3>1, <3>2, Zenon
    <2>6. QED  BY <2>3, <2>4, <2>5, Zenon
  <1>8. LooseInv'
    <2>1. SUFFICES ASSUME NEW l \in loose PROVE l.id <= nops' /\ \E r \in Ranges : LooseFrom(l, r)'
      BY <1>1 DEF LooseInv
    <2>2. PICK r \in Ranges : LooseFrom(l, r)
      BY <1>1, Zenon DEF LooseInv
    <2>3. cut' = 0 => r[1] + r[2] <= msize'
      <3>1. r[1] + r[2] \in Nat /\ (cut = 0 => r[1] + r[2] <= msize)
        BY <2>2, Places, Zenon DEF LooseFrom
      <3>2. QED  BY <1>1, <3>1, Grows, Zenon
    <2>4. LooseFrom(l, r)'
      BY <2>2, <2>3, Zenon DEF LooseFrom
    <2>5. l.id <= nops'
      BY <1>0, <1>1, <2>2, NextNumber, Zenon DEF LooseInv, LooseFrom
    <2>6. QED  BY <2>4, <2>5, Zenon
  <1>9. Alone'
    <2>1. ASSUME NEW d \in Clients, d # c, op[d].kind = "truncate" PROVE cut' # 0 /\ op[d].pc = "done"
      <3>1. Quiet(d) /\ op[d].pc # "idle"
        BY <2>1, Zenon DEF Inv, CInv, OpType
      <3>2. QED  BY <1>1, <2>1, <3>1, Zenon DEF Alone, Quiet
    <2>2. ASSUME new.kind = "truncate"
          PROVE  /\ cut' # 0 /\ (\A d \in Clients : d # c => Quiet(d)') /\ (op'[c].over = {} => loose' = {})
      <3>1. cut' # 0 /\ \A d \in Clients : d # c => Quiet(d)'
        BY <1>1, <1>3, <2>2, NextNumber, Zenon
      <3>2. \A l \in loose : l.id \in op'[c].over
        BY <1>4
      <3>3. op'[c].over = {} => loose' = {}
        BY <3>2, ZenonT(30)
      <3>4. QED  BY <3>1, <3>3, Zenon
    <2>3. QED  BY <1>2, <1>3, <1>4, <2>1, <2>2, ZenonT(30) DEF Alone
  <1>10. Overlaps'
    <2>1. ASSUME NEW d \in Clients, d # c, Writing(d)
          PROVE  op[d].id \in op'[c].over /\ (new.kind = "write" => op'[c].id \in op'[d].over)
      BY <1>4, <2>1, SMTT(30) DEF Begun, Writing
    <2>2. \A l \in loose : l.id \in op'[c].over
      BY <1>4
    <2>3. ASSUME NEW d \in Clients, Writing(d)'
          PROVE  /\ \A e \in Clients : e # d /\ Writing(e)' => op'[e].id \in op'[d].over
                 /\ \A l \in loose' : l.id \in op'[d].over \cup {op'[d].id}
      <3>1. CASE d = c
        BY <1>3, <1>4, <2>1, <2>2, <3>1, ZenonT(30)
      <3>2. CASE d # c
        <4>1. /\ Writing(d) /\ op'[d].id = op[d].id /\ op[d].over \subseteq op'[d].over
              /\ \A e \in Clients : e # d /\ Writing(e) => op[e].id \in op[d].over
              /\ \A l \in loose : l.id \in op[d].over \cup {op[d].id}
          BY <1>1, <1>3, <2>3, <3>2, ZenonT(30) DEF Overlaps
        <4>2. ASSUME NEW e \in Clients, e # d, Writing(e)' PROVE op'[e].id \in op'[d].over
          <5>1. CASE e = c
            BY <1>4, <2>1, <3>2, <4>1, <4>2, <5>1, ZenonT(30)
          <5>2. CASE e # c
            BY <1>3, <4>1, <4>2, <5>2, ZenonT(30)
          <5>3. QED  BY <5>1, <5>2, Zenon
        <4>3. QED  BY <4>1, <4>2, ZenonT(30)
      <3>3. QED  BY <3>1, <3>2, Zenon
    <2>4. QED  BY <2>3, Zenon DEF Overlaps
  <1>11. LatestAlone'
    <2>1. Latest(c)' => loose = {} /\ new.kind = "write" /\ \A d \in Clients : ~Writing(d)
      BY <1>4, ZenonT(30) DEF Latest
    <2>2. QED  BY <1>3, <2>1, ZenonT(30) DEF LatestAlone
  <1>12. LastOrRunning'
    <2>1. \A at \in Offsets : Covering(at) \subseteq Covering(at)'
      <3>1. \A d \in Clients, at \in Offsets : Writing(d) /\ Covers(op[d], at) =>
                                                  (Writing(d) /\ Covers(op[d], at))' /\ op'[d].id = op[d].id
        BY <1>3, <1>4 DEF Covers
      <3>2. QED  BY <3>1, ZenonT(30) DEF Covering
    <2>2. QED  BY <1>1, <2>1, SamePlace, SameBytes, Zenon DEF LastOrRunning
  <1>13. QED  BY <1>5, <1>6, <1>7, <1>8, <1>9, <1>10, <1>11, <1>12, ZenonT(30) DEF GInv

(* The size that a write sends to the metadata server before its data.     *)
LEMMA Extends ==
    ASSUME NEW m \in Nat, NEW n \in Nat, NEW e \in Nat, m <= e, n <= e
    PROVE  Max({m, n}) \in Nat /\ Max({m, n}) <= e /\ Max({m, n}) >= m /\ n <= Max({m, n})
  <1>1. Max({m, n}) = IF m >= n THEN m ELSE n
    BY Greater
  <1>2. QED  BY <1>1

(* A write, a read and a truncation begin.                                 *)
LEMMA Begins ==
    ASSUME Inv, NEW c \in Clients
    PROVE  /\ \A r \in Ranges : BeginWrite(c, r) => Inv'
           /\ \A r \in Ranges : BeginRead(c, r) => Inv'
           /\ \A n \in Lengths : BeginTruncate(c, n) => Inv'
  <1>1. /\ msize \in Nat /\ msize <= EndOf /\ EndOf \in Nat /\ nops \in Nat /\ cut \in Nat /\ Sized /\ faults \in Nat
        /\ \A d \in Clients : d \in Active <=> ~Quiet(d)
    BY Bounds DEF Inv, GInv, Numbered, Active, Quiet
  <1>2. ASSUME NEW new, Begun(c, new), CInv(c)', GInv', UNCHANGED <<place, store, faults>>,
               cut' = cut \/ cut' = cut + 1
        PROVE  Inv'
    BY <1>2, BeginOthers, Zenon DEF Inv
  <1>3. ASSUME NEW r \in Ranges, BeginWrite(c, r) PROVE Inv'
    <2> DEFINE new == [Idle EXCEPT !.kind = "write", !.id = nops + 1, !.off = r[1], !.len = r[2], !.pc = "send"]
    <2>1. /\ DOMAIN new = Fields /\ new.id = nops + 1 /\ new.pc = "send" /\ new.reqs = {} /\ new.err = 0
          /\ new.kind = "write" /\ new.off = r[1] /\ new.len = r[2]
      BY Zenon DEF Idle, Fields
    <2>2. /\ CanBegin(c) /\ Begin(c, new) /\ UNCHANGED <<place, store, loose, faults, last, behind, cut>>
          /\ msize' = Max({msize, r[1] + r[2]}) /\ \A d \in Clients : op[d].kind = "truncate" => Quiet(d)
      BY <1>1, <1>3, Zenon DEF BeginWrite
    <2> HIDE DEF new
    <2>3. Begun(c, new)
      BY <2>1, <2>2, BegunNew, Zenon
    <2>4. r[1] \in Nat /\ r[2] \in Nat /\ r[1] + r[2] <= EndOf /\ <<r[1], r[2]>> = r
      BY DataAssumption, Bounds
    <2>5. msize' \in Nat /\ msize' <= EndOf /\ msize' >= msize /\ r[1] + r[2] <= msize'
      <3>1. r[1] + r[2] \in Nat
        BY Places, Zenon
      <3>2. QED  BY <1>1, <2>2, <2>4, <3>1, Extends, Zenon
    <2>6. GInv'
      BY <2>1, <2>2, <2>3, <2>5, BeginShared, ZenonT(30)
    <2>7. CInv(c)'
      <3>1. /\ DOMAIN op'[c] = Fields /\ op'[c].kind = "write" /\ op'[c].id = nops + 1 /\ op'[c].off = r[1]
            /\ op'[c].len = r[2] /\ op'[c].pc = "send" /\ op'[c].reqs = {} /\ op'[c].err = 0 /\ nops' = nops + 1
        BY <2>1, <2>3, Zenon DEF Begun
      <3>2. OpType(c)'
        BY <1>1, <2>4, <3>1 DEF OpType
      <3>3. QED  BY <3>1, <3>2, Zenon DEF CInv, WriteReqs, TruncReqs, Emptying, Kept, Acked
    <2>8. QED  BY <1>2, <2>2, <2>3, <2>6, <2>7, Zenon
  <1>4. ASSUME NEW r \in Ranges, BeginRead(c, r) PROVE Inv'
    <2> DEFINE new == [Idle EXCEPT !.kind = "read", !.id = nops + 1, !.off = r[1], !.len = r[2], !.pc = "send",
                                   !.seen = last, !.stale = behind, !.buf = [i \in 1 .. r[2] |-> Hole]]
    <2>1. /\ DOMAIN new = Fields /\ new.id = nops + 1 /\ new.pc = "send" /\ new.reqs = {} /\ new.err = 0
          /\ new.kind = "read"
      BY Zenon DEF Idle, Fields
    <2>2. /\ CanBegin(c) /\ Begin(c, new) /\ UNCHANGED <<place, store, msize, loose, faults, last, behind, cut>>
          /\ \A d \in Clients : op[d].kind = "truncate" => Quiet(d)
      BY <1>1, <1>4, Zenon DEF BeginRead
    <2> HIDE DEF new
    <2>3. Begun(c, new)
      BY <2>1, <2>2, BegunNew, Zenon
    <2>4. GInv'
      <3>1. msize >= msize
        BY <1>1
      <3>2. QED  BY <1>1, <2>1, <2>2, <2>3, <3>1, BeginShared, Zenon
    <2>5. CInv(c)'
      <3>1. /\ DOMAIN op'[c] = Fields /\ op'[c].kind = "read" /\ op'[c].id = nops + 1
            /\ op'[c].pc = "send" /\ op'[c].reqs = {} /\ op'[c].err = 0 /\ nops' = nops + 1
        BY <2>1, <2>3, Zenon DEF Begun
      <3>2. OpType(c)'
        BY <1>1, <3>1 DEF OpType
      <3>3. QED  BY <3>1, <3>2, Zenon DEF CInv, WriteReqs, TruncReqs, Emptying, Kept, Acked, Latest
    <2>6. QED  BY <1>2, <2>2, <2>3, <2>4, <2>5, Zenon
  <1>5. ASSUME NEW n \in Lengths, BeginTruncate(c, n) PROVE Inv'
    <2> DEFINE new == [Idle EXCEPT !.kind = "truncate", !.id = nops + 1, !.len = n, !.old = msize, !.pc = "send"]
    <2>1. /\ DOMAIN new = Fields /\ new.id = nops + 1 /\ new.pc = "send" /\ new.reqs = {} /\ new.err = 0
          /\ new.kind = "truncate" /\ new.len = n /\ new.old = msize
      BY DEF Idle, Fields
    <2>2. /\ CanBegin(c) /\ Begin(c, new) /\ UNCHANGED <<place, store, loose, faults, last, behind>>
          /\ msize' = n /\ n < msize /\ cut' = cut + 1 /\ \A d \in Clients : Quiet(d)
      BY <1>1, <1>5, Zenon DEF BeginTruncate
    <2> HIDE DEF new
    <2>3. Begun(c, new)
      BY <2>1, <2>2, BegunNew
    <2>4. n \in Nat /\ msize' \in Nat /\ msize' <= EndOf /\ cut' # 0 /\ (cut' = 1 => cut = 0)
      <3>1. n \in Nat
        BY DataAssumption, Zenon
      <3>2. n <= EndOf
        BY <1>1, <2>2, <3>1
      <3>3. QED  BY <1>1, <2>2, <3>1, <3>2, NextNumber, Zenon
    <2>5. GInv'
      BY <2>1, <2>2, <2>3, <2>4, BeginShared, Zenon
    <2>6. CInv(c)'
      <3>1. /\ DOMAIN op'[c] = Fields /\ op'[c].kind = "truncate" /\ op'[c].id = nops + 1 /\ op'[c].len = n
            /\ op'[c].old = msize /\ op'[c].pc = "send" /\ op'[c].reqs = {} /\ op'[c].err = 0 /\ nops' = nops + 1
        BY <2>1, <2>3, Zenon DEF Begun
      <3>2. OpType(c)'
        <4>1. nops' \in Nat /\ nops' <= nops'
          BY <1>1, <3>1
        <4>2. QED  BY <1>1, <2>2, <2>4, <3>1, <4>1, Zenon DEF OpType
      <3>3. Emptying(c)'
        BY <1>1, <2>2, <2>4, <3>1, Zenon DEF Emptying, Sized
      <3>4. QED  BY <3>1, <3>2, <3>3, ZenonT(30) DEF CInv, WriteReqs, TruncReqs, Kept, Acked, Latest, Writing
    <2>7. QED  BY <1>2, <2>2, <2>3, <2>5, <2>6, Zenon
  <1>6. QED  BY <1>3, <1>4, <1>5, Zenon

-----------------------------------------------------------------------------
(* Every step *)

(* Every step keeps the invariant.                                         *)
LEMMA Inductive ==
    ASSUME Inv, [Next]_vars
    PROVE  Inv'
  <1>1. CASE UNCHANGED vars
    BY <1>1, Unchanged DEF vars
  <1>2. ASSUME NEW c \in Clients, Call(c) PROVE Inv'
    BY <1>2, Begins, ZenonT(30) DEF Call
  <1>3. ASSUME NEW c \in Clients, Send(c) PROVE Inv'
    <2>1. SendRead(c) \/ PostReadFails(c) => op[c].kind = "read"
      BY ZenonT(30) DEF SendRead, PostReadFails
    <2>2. QED  BY <1>3, <2>1, SendsWrite, Reading, Truncating, WriteNotPosted, CopiesNotPosted, ZenonT(30) DEF Send, PostFails
  <1>4. ASSUME NEW c \in Clients, Daemon(c) PROVE Inv'
    <2>1. PICK r \in op[c].reqs :
             \/ \E p \in r.todo : WriteTask(c, r, p) \/ ReadTask(c, r, p) \/ TruncateTask(c, r, p) \/ TaskFails(c, r, p)
             \/ LoseAnswer(c, r)
      BY <1>4, Zenon DEF Daemon
    <2>2. \A p : ReadTask(c, r, p) => op[c].kind = "read"
      BY Zenon DEF ReadTask
    <2>3. QED  BY <2>1, <2>2, StoreTask, Reading, CutTask, Fails, Zenon
  <1>5. ASSUME NEW c \in Clients, Gather(c) PROVE Inv'
    <2>1. GatherRead(c) => op[c].kind = "read"
      BY Zenon DEF GatherRead
    <2>2. QED  BY <1>5, <2>1, Reading, Truncating, GathersWrite, GathersCopies, Zenon DEF Gather
  <1>6. ASSUME Loose PROVE Inv'
    BY <1>6, LooseTasks DEF Loose
  <1>7. QED  BY <1>1, <1>2, <1>3, <1>4, <1>5, <1>6, Zenon DEF Next
=============================================================================
