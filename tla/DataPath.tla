----------------------------- MODULE DataPath -----------------------------
(***************************************************************************)
(* Reads, writes and truncations of one file by several clients, down to   *)
(* the chunk files of the daemons.                                         *)
(*                                                                         *)
(* A client call is a sequence of RPC rounds (gkfs_functions.cpp): the     *)
(* size is updated on the metadata server before any data is sent, and     *)
(* with replicas the data is sent twice, first to copy 0 and then to the   *)
(* other copies.  Within a round every daemon moves its pieces in          *)
(* tasklets, one step per piece, in any order and interleaved with other   *)
(* requests; no daemon holds a lock over a request.  Tasklets fail,        *)
(* answers are lost, and requests cannot be posted; a read with replicas   *)
(* tries again on other copies.                                            *)
(*                                                                         *)
(* A stored byte carries the operation that wrote it and the file offset   *)
(* it was written for, so that a byte in the wrong place is visible.  The  *)
(* hashes of the chunks are chosen freely in the initial state.            *)
(***************************************************************************)
EXTENDS ChunkLayout

CONSTANTS Clients,
          Ranges,      \* the <<offset, length>> a read or write may have
          Lengths,     \* the lengths a truncation may cut to
          Replicas,    \* CTX->get_replicas()
          MaxOps,      \* bound on the operations of a behaviour
          Faults,      \* failures that occur: "task", "answer", "post"
          MaxFaults    \* bound on their number

ASSUME DataAssumption ==
    /\ Ranges \subseteq Nat \X (Nat \ {0})
    /\ \E r \in Ranges : \A t \in Ranges : t[1] + t[2] <= r[1] + r[2]
    /\ Lengths \subseteq Nat /\ MaxOps \in Nat /\ MaxFaults \in Nat
    /\ Replicas \in 0 .. Cardinality(Hosts) - 1

VARIABLES place,    \* the hash of each chunk, modulo the number of hosts
          store,    \* chunk files: host -> chunk id -> bytes
          dirs,     \* hosts on which the file has a chunk directory
          msize,    \* size of the file on its metadata server
          op,       \* the operation of each client
          loose,    \* posted writes of calls that have returned an error
          nops, faults,
          last,     \* history: offset -> writes whose byte may be there
          behind,   \* history: <<host, offset>> that missed an acknowledged write
          cut       \* history: truncations begun

vars == <<place, store, dirs, msize, op, loose, nops, faults, last, behind, cut>>

EndOf    == Max({r[1] + r[2] : r \in Ranges})
ChunkIds == 0 .. block_index(EndOf - 1)
Offsets  == 0 .. EndOf - 1
OpIds    == 1 .. MaxOps
Hole     == [by |-> 0, at |-> 0]       \* a byte no write has set
Byte     == [by : OpIds, at : Offsets] \cup {Hole}

Idle == [kind |-> "idle", id |-> 0, off |-> 0, len |-> 0, old |-> 0,
         pc |-> "idle", reqs |-> {}, err |-> 0, ret |-> 0, buf |-> <<>>,
         over |-> {}, seen |-> <<>>, stale |-> {}, missed |-> {}, failed |-> {}]
Active == {c \in Clients : op[c].pc \notin {"idle", "done"}}
Span(o) == block_index(o.off) .. block_index(o.off + o.len - 1)
Covers(o, at) == o.off <= at /\ at < o.off + o.len

(* Error codes: a call repeats a read that failed with EIO.                *)
EIO    == 1
EOther == 2

Fault(kind, n) == /\ kind \in Faults /\ faults + n <= MaxFaults
                  /\ faults' = faults + n

(* The chunks that requests carry to their hosts.                          *)
Targets(ins) == UNION {{in.host} \X in.bitset : in \in ins}

(* A request in flight: what is left to do, what went wrong, what moved.   *)
Posted(in) == [in |-> in, todo |-> Pieces(in), err |-> 0, moved |-> 0]

TypeOK ==
    /\ place \in [ChunkIds -> Hosts]
    /\ \A h \in Hosts : /\ DOMAIN store[h] \subseteq ChunkIds
                        /\ \A c \in DOMAIN store[h] :
                              /\ Len(store[h][c]) \in 1 .. ChunkSize
                              /\ \A i \in 1 .. Len(store[h][c]) :
                                    store[h][c][i] \in Byte
    /\ \A h \in Hosts : DOMAIN store[h] # {} => h \in dirs
    /\ dirs \subseteq Hosts /\ msize \in 0 .. EndOf
    /\ nops \in 0 .. MaxOps /\ faults \in 0 .. MaxFaults
    /\ \A c \in Clients : /\ op[c].id \in 0 .. MaxOps
                          /\ op[c].ret \in 0 .. EndOf
                          /\ op[c].err \in {0, EIO, EOther}
                          /\ op[c].failed \subseteq Hosts
                          /\ op[c].missed \subseteq Hosts \X ChunkIds
    /\ behind \subseteq Hosts \X Offsets

-----------------------------------------------------------------------------
(* Chunk files (chunk_storage.cpp).                                        *)

write_chunk_anew(h, c, off, bytes) ==                              \* mutation
    /\ store' = [store EXCEPT ![h] = [x \in DOMAIN @ \cup {c} |-> IF x = c THEN bytes ELSE @[x]]]
    /\ dirs' = dirs \cup {h}

(* write_chunk: creates the directory and the file, fills a gap with zero. *)
write_chunk(h, c, off, bytes) ==
    LET old == IF c \in DOMAIN store[h] THEN store[h][c] ELSE <<>>
        len == Max({Len(old), off + Len(bytes)})
        new == [i \in 1 .. len |->
                  IF i > off /\ i <= off + Len(bytes) THEN bytes[i - off]
                  ELSE IF i <= Len(old) THEN old[i] ELSE Hole]
    IN  /\ store' = [store EXCEPT ![h] =
                       [x \in DOMAIN @ \cup {c} |->
                           IF x = c THEN new ELSE @[x]]]
        /\ dirs' = dirs \cup {h}

(* read_chunk: what the file has of the range; nothing without a file,     *)
(* which the gathering of results skips as a sparse region.                *)
read_chunk(h, c, off, size) ==
    IF c \notin DOMAIN store[h] THEN <<>>
    ELSE SubSeq(store[h][c], off + 1, Min({Len(store[h][c]), off + size}))

(* truncate_abt: cut the chunk in which the new end lies, then unlink the  *)
(* chunk files after it.  Cutting a chunk file that does not exist throws  *)
(* before anything is unlinked; so does listing a missing directory.       *)
truncate_abt_drops_chunk(h, size) ==                             \* mutation
    [err |-> IF h \in dirs THEN 0 ELSE 1,
     files |-> [c \in {x \in DOMAIN store[h] : x < block_index(size)} |->
                  store[h][c]]]

truncate_abt(h, size) ==
    LET start == block_index(size)
        pad   == block_overrun(size)
        from  == IF pad # 0 THEN start + 1 ELSE start
        fails == \/ pad # 0 /\ start \notin DOMAIN store[h]
                 \/ h \notin dirs
        kept  == {c \in DOMAIN store[h] : c < from}
    IN  [err   |-> IF fails THEN 1 ELSE 0,
         files |-> IF fails THEN store[h]
                   ELSE [c \in kept |->
                          IF c = start /\ pad # 0
                            THEN [i \in 1 .. pad |->
                                    IF i <= Len(store[h][c])
                                      THEN store[h][c][i] ELSE Hole]
                            ELSE store[h][c]]]

-----------------------------------------------------------------------------
(* Client operations.  History: every operation learns which writes were   *)
(* in flight together with it, loose ones included.                        *)

Begin(c, new) ==
    LET writers == {d \in Active : op[d].kind = "write"}
    IN  /\ nops' = nops + 1
        /\ op' = [d \in Clients |->
                    IF d = c
                      THEN [new EXCEPT !.over = {op[w].id : w \in writers}
                                          \cup {l.id : l \in loose}]
                    ELSE IF d \in Active /\ new.kind = "write"
                      THEN [op[d] EXCEPT !.over = @ \cup {new.id}]
                    ELSE op[d]]

CanBegin(c) == op[c].pc \in {"idle", "done"} /\ nops < MaxOps

(* gkfs_do_write: the size update comes first and is kept if the data is   *)
(* not written.                                                            *)
BeginWriteNoSize(c, r) ==                                        \* mutation
    /\ CanBegin(c) /\ \A d \in Active : op[d].kind # "truncate"
    /\ Begin(c, [Idle EXCEPT !.kind = "write", !.id = nops + 1,
                             !.off = r[1], !.len = r[2], !.pc = "send"])
    /\ UNCHANGED <<place, store, dirs, msize, loose, faults, last, behind, cut>>

BeginWrite(c, r) ==
    /\ CanBegin(c) /\ \A d \in Active : op[d].kind # "truncate"
    /\ msize' = Max({msize, r[1] + r[2]})
    /\ Begin(c, [Idle EXCEPT !.kind = "write", !.id = nops + 1,
                             !.off = r[1], !.len = r[2], !.pc = "send"])
    /\ UNCHANGED <<place, store, dirs, loose, faults, last, behind, cut>>

(* gkfs_do_read: the buffer keeps what no daemon pushes.                   *)
BeginRead(c, r) ==
    /\ CanBegin(c) /\ \A d \in Active : op[d].kind # "truncate"
    /\ Begin(c, [Idle EXCEPT !.kind = "read", !.id = nops + 1,
                             !.off = r[1], !.len = r[2], !.pc = "send",
                             !.seen = last, !.stale = behind,
                             !.buf = [i \in 1 .. r[2] |-> Hole]])
    /\ UNCHANGED <<place, store, dirs, msize, loose, faults, last, behind, cut>>

(* gkfs_truncate(path, old, new), with nobody else modifying the file: the *)
(* size is decreased, then the hosts are contacted.                        *)
BeginTruncate(c, new) ==
    /\ CanBegin(c) /\ Active = {} /\ new < msize
    /\ msize' = new /\ cut' = cut + 1
    /\ Begin(c, [Idle EXCEPT !.kind = "truncate", !.id = nops + 1,
                             !.len = new, !.old = msize, !.pc = "send"])
    /\ UNCHANGED <<place, store, dirs, loose, faults, last, behind>>

(* One round of forward_write: copy 0 from "send", the rest from "copies". *)
SendWriteOnce(c) ==                                              \* mutation
    /\ op[c].kind = "write" /\ op[c].pc = "send"
    /\ op' = [op EXCEPT ![c].pc = "gather",
                        ![c].reqs = {Posted(in) : in \in
                           ForwardWrite(place, op[c].off, op[c].len, 0)}]
    /\ UNCHANGED <<place, store, dirs, msize, loose, nops, faults, last, behind, cut>>

SendWrite(c) ==
    /\ op[c].kind = "write" /\ op[c].pc \in {"send", "copies"}
    /\ LET n == IF op[c].pc = "send" THEN 0 ELSE Replicas
       IN  op' = [op EXCEPT ![c].pc = IF n = 0 THEN "gather" ELSE "gather2",
                            ![c].reqs =
                               {Posted(in) : in \in ForwardWrite(place,
                                                op[c].off, op[c].len, n)}]
    /\ UNCHANGED <<place, store, dirs, msize, loose, nops, faults, last, behind, cut>>

(* One round of forward_read.  A chunk whose daemon failed is read from a  *)
(* copy that rand() % num_copies names, drawn until its daemon has not     *)
(* failed.  The draws go on for ever when there is none: no step.          *)
SendRead(c) ==
    /\ op[c].kind = "read" /\ op[c].pc = "send"
    /\ \E pick \in [ChunkIds -> 0 .. Max({Replicas - 1, 0})] :
          /\ \A k \in ChunkIds :
                IF /\ k \in Span(op[c])
                   /\ locate_data(place, k, 0) \in op[c].failed
                  THEN locate_data(place, k, pick[k]) \notin op[c].failed
                  ELSE pick[k] = 0
          /\ op' = [op EXCEPT ![c].pc = "gather",
                              ![c].reqs = {Posted(in) : in \in ForwardRead(
                                  place, op[c].off, op[c].len, pick)}]
    /\ UNCHANGED <<place, store, dirs, msize, loose, nops, faults, last, behind, cut>>

CutAt(h, new) == [in |-> [host |-> h, length |-> new], todo |-> {"truncate"},
                  err |-> 0, moved |-> 0]
ToCut(c) == TruncateHosts(place, op[c].old, op[c].len, Replicas)

SendTruncate(c) ==
    /\ op[c].kind = "truncate" /\ op[c].pc = "send"
    /\ op' = [op EXCEPT ![c].pc = "gather",
                        ![c].reqs = {CutAt(h, op[c].len) : h \in ToCut(c)}]
    /\ UNCHANGED <<place, store, dirs, msize, loose, nops, faults, last, behind, cut>>

(* History: a write that reports success replaces what was there, except   *)
(* for writes that overlapped it in time, on every copy it reached; the    *)
(* copies it missed are behind.  A failed one may have reached some chunks. *)
Settle(c, err) ==
    /\ last' = [at \in Offsets |->
                  IF op[c].kind # "write" \/ ~Covers(op[c], at) THEN last[at]
                  ELSE IF err # 0 THEN last[at] \cup op[c].over \cup {op[c].id}
                  ELSE {op[c].id} \cup op[c].over]
    /\ behind' = IF op[c].kind # "write" \/ err # 0 THEN behind
                 ELSE {x \in Hosts \X Offsets :
                         IF Covers(op[c], x[2])
                           THEN <<x[1], block_index(x[2])>> \in op[c].missed
                           ELSE x \in behind}

Return(c, err, ret) ==
    /\ op' = [op EXCEPT ![c].pc = "done", ![c].reqs = {}, ![c].err = err,
                        ![c].ret = ret]
    /\ Settle(c, err)
    /\ UNCHANGED <<place, store, dirs, msize, nops, cut>>

-----------------------------------------------------------------------------
(* Requests that cannot be posted.                                         *)

(* The first round of a write returns EBUSY at the first target it cannot  *)
(* post to, and nobody waits for the targets before that one.              *)
PostWriteFails(c) ==
    /\ op[c].kind = "write" /\ op[c].pc = "send" /\ Fault("post", 1)
    /\ LET ins == ForwardWrite(place, op[c].off, op[c].len, 0)
       IN  \E f \in ins :
             loose' = loose \cup
               {[id |-> op[c].id, off |-> op[c].off, host |-> in.host,
                 todo |-> Pieces(in)] :
                    in \in {x \in ins : Min(x.bitset) < Min(f.bitset)}}
    /\ IF Replicas = 0
         THEN Return(c, EOther, 0)
         ELSE /\ op' = [op EXCEPT ![c].pc = "copies", ![c].err = EOther,
                    ![c].missed = Targets(ForwardWrite(place, op[c].off, op[c].len, 0))]
              /\ UNCHANGED <<place, store, dirs, msize, nops, last, behind, cut>>

(* The second round leaves out the targets it cannot post to.              *)
PostCopiesFails(c) ==
    /\ op[c].kind = "write" /\ op[c].pc = "copies"
    /\ LET ins == ForwardWrite(place, op[c].off, op[c].len, Replicas)
       IN  \E lost \in (SUBSET ins) \ {{}} :
             /\ Fault("post", Cardinality(lost))
             /\ op' = [op EXCEPT ![c].pc = "gather2", ![c].missed = @ \cup Targets(lost),
                                 ![c].reqs = {Posted(in) : in \in ins \ lost}]
    /\ UNCHANGED <<place, store, dirs, msize, loose, nops, last, behind, cut>>

(* A read returns EBUSY; what was posted pushes into a buffer nobody uses. *)
PostReadFails(c) ==
    /\ op[c].kind = "read" /\ op[c].pc = "send" /\ Fault("post", 1)
    /\ Return(c, EOther, 0) /\ UNCHANGED loose

(* A truncation posts no further, and gathers what it has posted.          *)
PostTruncateFails(c) ==
    /\ op[c].kind = "truncate" /\ op[c].pc = "send" /\ Fault("post", 1)
    /\ \E hosts \in (SUBSET ToCut(c)) \ {ToCut(c)} :
          op' = [op EXCEPT ![c].pc = "gather", ![c].err = EIO,
                           ![c].reqs = {CutAt(h, op[c].len) : h \in hosts}]
    /\ UNCHANGED <<place, store, dirs, msize, loose, nops, last, behind, cut>>

PostFails(c) == PostWriteFails(c) \/ PostCopiesFails(c) \/ PostReadFails(c)
                \/ PostTruncateFails(c)

-----------------------------------------------------------------------------
(* Daemon steps: one tasklet of one request.                               *)

Progress(c, r, p, n) ==
    op' = [op EXCEPT ![c].reqs = (@ \ {r}) \cup
             {[r EXCEPT !.todo = @ \ {p}, !.moved = @ + n]}]

Bytes(id, off, p) ==
    [i \in 1 .. p.size |-> [by |-> id, at |-> off + p.origin + i - 1]]

WriteTask(c, r, p) ==
    /\ op[c].kind = "write" /\ op[c].pc \in {"gather", "gather2"}
    /\ write_chunk(r.in.host, p.chunk, p.off, Bytes(op[c].id, op[c].off, p))
    /\ Progress(c, r, p, p.size)
    /\ UNCHANGED <<place, msize, loose, nops, faults, last, behind, cut>>

(* wait_for_tasks_and_push_back: what a tasklet has read goes to the       *)
(* client's buffer; a short or missing chunk leaves the rest as it was.    *)
PushBack(buf, origin, got) ==
    [i \in DOMAIN buf |-> IF i > origin /\ i <= origin + Len(got)
                            THEN got[i - origin] ELSE buf[i]]

ReadTask(c, r, p) ==
    /\ op[c].kind = "read" /\ op[c].pc = "gather"
    /\ LET got == read_chunk(r.in.host, p.chunk, p.off, p.size)
       IN  op' = [op EXCEPT ![c].buf = PushBack(@, p.origin, got),
                     ![c].reqs = (@ \ {r}) \cup
                        {[r EXCEPT !.todo = @ \ {p}, !.moved = @ + Len(got)]}]
    /\ UNCHANGED <<place, store, dirs, msize, loose, nops, faults, last, behind, cut>>

TruncateTask(c, r, p) ==
    /\ op[c].kind = "truncate" /\ op[c].pc = "gather"
    /\ LET t == truncate_abt(r.in.host, r.in.length)
       IN  /\ store' = [store EXCEPT ![r.in.host] = t.files]
           /\ op' = [op EXCEPT ![c].reqs = (@ \ {r}) \cup
                        {[r EXCEPT !.todo = {}, !.err = t.err]}]
    /\ UNCHANGED <<place, dirs, msize, loose, nops, faults, last, behind, cut>>

(* A posted write whose call has returned still runs, unless the daemon    *)
(* finds the buffer of the client gone.                                    *)
LooseTask(l, p) ==
    /\ write_chunk(l.host, p.chunk, p.off, Bytes(l.id, l.off, p))
    /\ loose' = (loose \ {l}) \cup
          IF l.todo = {p} THEN {} ELSE {[l EXCEPT !.todo = @ \ {p}]}
    /\ UNCHANGED <<place, msize, op, nops, faults, last, behind, cut>>

LooseEnds(l) ==
    /\ loose' = loose \ {l}
    /\ UNCHANGED <<place, store, dirs, msize, op, nops, faults, last, behind, cut>>

(* A tasklet whose file operation fails: the request reports the error     *)
(* number and no size, the other tasklets still run.                       *)
TaskFails(c, r, p) ==
    /\ Fault("task", 1)
    /\ \E e \in {EIO, EOther} :
          op' = [op EXCEPT ![c].missed = IF op[c].kind = "write"
                                           THEN @ \cup {<<r.in.host, p.chunk>>} ELSE @,
                           ![c].reqs = (@ \ {r}) \cup
                             {[r EXCEPT !.todo = @ \ {p}, !.err = e]}]
    /\ UNCHANGED <<place, store, dirs, msize, loose, nops, last, behind, cut>>

(* The answer of a daemon is lost after it has done its work; a read notes *)
(* the daemon.                                                             *)
LoseAnswer(c, r) ==
    /\ r.todo = {} /\ r.err = 0
    /\ Fault("answer", 1)
    /\ op' = [op EXCEPT ![c].failed = IF op[c].kind = "read"
                                        THEN @ \cup {r.in.host} ELSE @,
                        ![c].reqs = (@ \ {r}) \cup {[r EXCEPT !.err = EIO]}]
    /\ UNCHANGED <<place, store, dirs, msize, loose, nops, last, behind, cut>>

-----------------------------------------------------------------------------
(* Gathering: any error fails the call, otherwise the sizes add up.        *)

(* The error of a round is that of its last failing request.               *)
RoundErrs(c) == LET errs == {r.err : r \in op[c].reqs} \ {0}
                IN  IF errs = {} THEN {0} ELSE errs
RoundSize(c) == IF RoundErrs(c) # {0} THEN 0
                ELSE MapThenSumSet(LAMBDA r : r.moved, op[c].reqs)
RoundOver(c) == \A r \in op[c].reqs : r.todo = {}

Finish(c, err, ret) == Return(c, err, ret) /\ UNCHANGED <<loose, faults>>

(* With replicas a read that failed with EIO is made again.                *)
GatherRead(c) ==
    /\ op[c].kind = "read" /\ op[c].pc = "gather" /\ RoundOver(c)
    /\ \E err \in RoundErrs(c) :
          IF err = EIO /\ Replicas # 0
            THEN /\ op' = [op EXCEPT ![c].pc = "send", ![c].reqs = {}]
                 /\ UNCHANGED <<place, store, dirs, msize, loose, nops,
                                faults, last, behind, cut>>
            ELSE Finish(c, err, RoundSize(c))

GatherTruncate(c) ==
    /\ op[c].kind = "truncate" /\ op[c].pc = "gather" /\ RoundOver(c)
    /\ Finish(c, IF RoundErrs(c) # {0} THEN EIO ELSE op[c].err, 0)

(* The first round of a write; with replicas a second one follows whatever *)
(* the first returned.                                                     *)
GatherWrite(c) ==
    /\ op[c].kind = "write" /\ op[c].pc = "gather" /\ RoundOver(c)
    /\ \E err \in RoundErrs(c) :
         IF Replicas = 0
         THEN Finish(c, err, RoundSize(c))
         ELSE /\ op' = [op EXCEPT ![c].pc = "copies", ![c].reqs = {},
                                  ![c].err = err,
                                  ![c].ret = RoundSize(c)]
              /\ UNCHANGED <<place, store, dirs, msize, loose, nops, faults,
                             last, behind, cut>>

(* A failed first round is made good by a successful second one, whose     *)
(* size is the whole length whatever the daemons answered.                 *)
GatherCopiesIgnored(c) ==                                        \* mutation
    /\ op[c].pc = "gather2" /\ RoundOver(c)
    /\ Finish(c, 0, op[c].len)

GatherCopies(c) ==
    /\ op[c].pc = "gather2" /\ RoundOver(c)
    /\ IF op[c].err # 0 /\ RoundErrs(c) = {0}
         THEN Finish(c, 0, op[c].len)
         ELSE Finish(c, op[c].err, op[c].ret)

-----------------------------------------------------------------------------
Init ==
    /\ place \in [ChunkIds -> Hosts]
    /\ store = [h \in Hosts |-> [c \in {} |-> <<>>]]
    /\ dirs = {} /\ msize = 0
    /\ op = [c \in Clients |-> Idle] /\ loose = {}
    /\ nops = 0 /\ faults = 0
    /\ last = [at \in Offsets |-> {0}] /\ behind = {}
    /\ cut = 0

Call(c) == \/ \E r \in Ranges : BeginWrite(c, r) \/ BeginRead(c, r)
           \/ \E n \in Lengths : BeginTruncate(c, n)

Send(c) == SendWrite(c) \/ SendRead(c) \/ SendTruncate(c) \/ PostFails(c)

Daemon(c) ==
    \E r \in op[c].reqs :
       \/ \E p \in r.todo : \/ WriteTask(c, r, p)
                            \/ ReadTask(c, r, p)
                            \/ TruncateTask(c, r, p)
                            \/ TaskFails(c, r, p)
       \/ LoseAnswer(c, r)

Gather(c) == GatherRead(c) \/ GatherTruncate(c) \/ GatherWrite(c)
             \/ GatherCopies(c)

Loose == \E l \in loose : LooseEnds(l) \/ \E p \in l.todo : LooseTask(l, p)

Next == \/ \E c \in Clients : Call(c) \/ Send(c) \/ Daemon(c) \/ Gather(c)
        \/ Loose

(* Daemons serve what they are sent and clients wait for all answers, so   *)
(* every started call keeps moving; starting one is up to the program.     *)
Spec == Init /\ [][Next]_vars
        /\ \A c \in Clients : WF_vars(Send(c) \/ Daemon(c) \/ Gather(c))

-----------------------------------------------------------------------------
(* Properties.                                                             *)

Primary(at) == locate_data(place, block_index(at), 0)
Holders(c)  == {locate_data(place, c, k) : k \in 0 .. Replicas}

(* The byte that host h has for offset at.                                 *)
At(h, at) == LET c == block_index(at) IN
    IF c \in DOMAIN store[h] /\ block_overrun(at) < Len(store[h][c])
      THEN store[h][c][block_overrun(at) + 1] ELSE Hole

(* Every byte in a chunk file was written for exactly that offset of the   *)
(* file, and the chunk lies on a host the distributor names for it: the    *)
(* daemon's walk over the interval (srv_data.cpp) inverts the client's     *)
(* grouping by target (forward_data.cpp).                                  *)
BytesInPlace ==
    \A h \in Hosts : \A c \in DOMAIN store[h] :
        /\ h \in Holders(c)
        /\ \A i \in 1 .. Len(store[h][c]) :
              \/ store[h][c][i] = Hole
              \/ store[h][c][i].at = c * ChunkSize + i - 1

(* When no call is in flight, the first copy of every byte comes from the  *)
(* last write of that byte that reported success, or from one that         *)
(* overlapped it in time or failed; nothing older, nothing lost.  Only a   *)
(* copy that such a write did not reach may be older: gkfs_do_write        *)
(* reports success when one of its two rounds did.                         *)
LastWriteStored ==
    Active = {} /\ cut = 0 =>
    \A at \in Offsets :
       <<Primary(at), at>> \in behind \/ At(Primary(at), at).by \in last[at]

(* A read that succeeds returns, at each position, a byte of a write that  *)
(* was the last one to report success when it started or ran meanwhile,    *)
(* whatever copy it came from, unless that copy was behind when the read   *)
(* started; and it counts every byte if none of the range was a hole.      *)
ReadIsFresh ==
    \A c \in Clients :
       (op[c].kind = "read" /\ op[c].pc = "gather" /\ RoundOver(c)
          /\ RoundErrs(c) = {0} /\ cut = 0) =>
       LET o == op[c]
           at(i)  == o.off + i - 1
           may(i) == o.seen[at(i)] \cup o.over
           old(i) == \E r \in o.reqs : /\ block_index(at(i)) \in r.in.bitset
                                       /\ <<r.in.host, at(i)>> \in o.stale
       IN  /\ \A i \in 1 .. o.len :
                 \/ o.buf[i] = Hole /\ (0 \in may(i) \/ old(i))
                 \/ o.buf[i].at = at(i) /\ (o.buf[i].by \in may(i) \/ old(i))
           /\ (\A i \in 1 .. o.len : 0 \notin may(i) /\ ~old(i)) => RoundSize(c) = o.len

(* A write that reports success reports its whole length (gkfs_do_write).  *)
FullWrite ==
    \A c \in Clients :
       op[c].kind = "write" /\ op[c].pc = "done" /\ op[c].err = 0
          => op[c].ret = op[c].len

(* A write that reports success is stored completely on the copies of each *)
(* of its chunks taken together, even when the first round failed and the  *)
(* replicas saved it (gkfs_do_write, "We succesfully write the data to     *)
(* some replica").  It does not hold when requests of both rounds cannot   *)
(* be posted (README, "Disagreements"), and is stated for one such failure. *)
AckedOnACopy ==
    \A c \in Clients :
       (op[c].kind = "write" /\ op[c].pc = "done" /\ op[c].err = 0
          /\ nops = op[c].id /\ op[c].over = {}) =>
       \A at \in op[c].off .. op[c].off + op[c].len - 1 :
          \E h \in Holders(block_index(at)) : At(h, at).by = op[c].id

(* The metadata server knows of every byte before a daemon stores it: a    *)
(* file is never shorter than its data unless it was truncated.            *)
SizeCoversData ==
    cut = 0 => \A h \in Hosts, at \in Offsets : At(h, at) # Hole => at < msize

(* A truncation never touches a byte below the length it cuts to (an       *)
(* earlier write that still runs may).                                     *)
TruncateKeepsHead ==
    [][\A c \in Clients, h \in Hosts, at \in Offsets :
          (op[c].kind = "truncate" /\ op[c].pc = "gather" /\ at < op[c].len
             /\ op[c].over = {}) => At(h, at)' = At(h, at)]_vars

(* A successful truncation to zero, which is what O_TRUNC does, leaves no  *)
(* chunk file of the file on any host, if no truncation came before it     *)
(* (an earlier one may have left chunks beyond the size it recorded).      *)
TruncateToZeroEmpties ==
    \A c \in Clients :
       (op[c].kind = "truncate" /\ op[c].pc = "done" /\ op[c].err = 0
          /\ op[c].len = 0 /\ nops = op[c].id /\ cut = 1 /\ op[c].over = {})
       => \A h \in Hosts : DOMAIN store[h] = {}

(* Every call returns.                                                     *)
CallsReturn ==
    \A c \in Clients : (op[c].pc \notin {"idle", "done"}) ~> (op[c].pc = "done")

-----------------------------------------------------------------------------
(* Statements of the repository that the code does not meet: TLC refutes   *)
(* each of those below (README, "Disagreements").                          *)

(* forward_data.cpp:529-530, "Find out which data servers need to delete   *)
(* data chunks in order to contact only them": a truncation contacts every *)
(* host that holds a chunk beyond the new end.                             *)
TruncateContactsHolders ==
    \A c \in Clients :
       (op[c].kind = "truncate" /\ op[c].pc = "gather") =>
       \A h \in Hosts : \A k \in DOMAIN store[h] :
          k * ChunkSize >= op[c].len => \E r \in op[c].reqs : r.in.host = h

(* srv_data.cpp:1211-1216, "Serves a file truncate request and remove all  *)
(* corresponding chunk files on this daemon": a daemon that has served the *)
(* request without a failing tasklet has no chunk beyond the new end.      *)
DaemonTrims ==
    \A c \in Clients :
       (op[c].kind = "truncate" /\ op[c].pc = "gather" /\ faults = 0) =>
       \A r \in op[c].reqs :
          r.todo = {} => \A k \in DOMAIN store[r.in.host] :
                             k * ChunkSize < op[c].len
=============================================================================
