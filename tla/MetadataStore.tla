--------------------------- MODULE MetadataStore ---------------------------
(***************************************************************************)
(* The metadata of one daemon under concurrent RPC handlers.               *)
(*                                                                         *)
(* The handlers of srv_metadata.cpp run as Argobots threads on several     *)
(* execution streams and share the RocksDB store, the append reservation   *)
(* map and the chunk directories without a lock.  Every store call, map    *)
(* access and chunk directory operation is a step of its own; an RPC that  *)
(* makes several of them interleaves with the others between any two.      *)
(*                                                                         *)
(* A client decides on a request from metadata it has read before, which   *)
(* may be stale when the request arrives: it writes to a path that existed *)
(* at some time, and truncates to less than a size the file once had.      *)
(***************************************************************************)
EXTENDS MetadataEntry

CONSTANTS Rpcs,        \* the RPCs a run may issue, each served once
          Paths,       \* keys of the store
          IoSizes,     \* sizes and offsets a request may carry
          UniqueIds    \* gen_unique_id returns no id that is still in use

ASSUME StoreAssumption ==
    /\ IoSizes \subseteq Nat
    /\ UniqueIds \in BOOLEAN

VARIABLES db,          \* the RocksDB store, by path
          reserve,     \* MetadataModule::append_offset_reserve_
          chunks,      \* paths with a chunk directory on this daemon
          pc,          \* the step each handler is at
          req,         \* the request it serves
          reply,       \* its answer
          peak,        \* history: largest size a path ever had, -1 for never
          grant,       \* history: size of the file when an append's operand
                       \* was written
          live         \* history: RPCs that created or grew a file which has
                       \* not been removed, truncated or overwritten since

hist == <<peak, grant, live>>
vars == <<db, reserve, chunks, pc, req, reply, peak, grant, live>>

-----------------------------------------------------------------------------
(* Requests and answers.  The size of a request is the end of the written  *)
(* range for a size update, the io_size of an append, the length of a      *)
(* decrease, and the size of the metadata a removal or an update has read. *)

Ops == {"none", "create", "stat", "decr", "remove", "update_size", "append",
        "update", "write", "remove_data"}
PCs == {"idle", "put", "force_merge", "take_offset", "delete", "destroy",
        "overwrite", "done"}
Errs == {"0", "EEXIST", "ENOENT", "EBUSY", "EISDIR", "ENOTDIR", "failed"}

Unset == "unset"

Request == [op : Ops, path : Paths \cup {Unset}, kind : Kinds, size : Nat,
            id : MergeIds \cup {Unset}]
Reply   == [err : Errs, ret : Nat \cup {NoOffset}]

TypeOK ==
    /\ db \in [Paths -> Entry]
    /\ reserve \in Reserve
    /\ chunks \subseteq Paths
    /\ pc \in [Rpcs -> PCs]
    /\ req \in [Rpcs -> Request]
    /\ reply \in [Rpcs -> Reply]
    /\ peak \in [Paths -> Nat \cup {-1}]
    /\ grant \in [Rpcs -> Nat]
    /\ live \subseteq Rpcs

Init ==
    /\ db = [p \in Paths |-> Absent]
    /\ reserve = [i \in MergeIds |-> NoOffset]
    /\ chunks = {}
    /\ pc = [r \in Rpcs |-> "idle"]
    /\ req = [r \in Rpcs |-> [op |-> "none", path |-> Unset, kind |-> "file",
                              size |-> 0, id |-> Unset]]
    /\ reply = [r \in Rpcs |-> [err |-> "0", ret |-> NoOffset]]
    /\ peak = [p \in Paths |-> -1]
    /\ grant = [r \in Rpcs |-> 0]
    /\ live = {}

-----------------------------------------------------------------------------
(* Building blocks of the handlers.                                        *)

\* Handler r takes up a request.
Begin(r, op, p, kind, size, id) ==
    /\ pc[r] = "idle"
    /\ req' = [req EXCEPT ![r] = [op |-> op, path |-> p, kind |-> kind,
                                  size |-> size, id |-> id]]

\* Handler r goes on to step l.
Goto(r, l) ==
    /\ pc' = [pc EXCEPT ![r] = l]
    /\ UNCHANGED reply

\* Handler r answers its client.
Respond(r, err, ret) ==
    /\ pc' = [pc EXCEPT ![r] = "done"]
    /\ reply' = [reply EXCEPT ![r] = [err |-> err, ret |-> ret]]

\* The error of an RPC whose get of e throws, by the catch clauses of the
\* stat, remove and size update handlers.
GetError(e) == IF e.st = "absent" THEN "ENOENT" ELSE "EBUSY"

\* A read of p folds its operands (FullMergeV2), whoever reads.
Get(p) ==
    reserve' = IF Present(db[p]) THEN Puts(reserve, db[p].pend) ELSE reserve

\* The new content of p, with the history of its sizes.
Write(p, e) ==
    /\ db' = [db EXCEPT ![p] = e]
    /\ peak' = [peak EXCEPT ![p] =
                   IF Present(e) /\ e.size > @ THEN e.size ELSE @]

\* p has been removed, truncated or overwritten.
Superseded(p) == live' = {r \in live : req[r].path # p}

\* An append between its first and its last step.
InFlight(r) == pc[r] \in {"force_merge", "take_offset"}

\* An id held by an append in progress, an unfolded operand or the map.
InUse(i) ==
    \/ reserve[i] # NoOffset
    \/ \E r \in Rpcs : InFlight(r) /\ req[r].id = i
    \/ \E p \in Paths : \E k \in DOMAIN db[p].pend : db[p].pend[k].id = i

-----------------------------------------------------------------------------
(* rpc_srv_create: put_no_exist looks the key up, then writes it.          *)

create_exists(r, p, kind) ==
    /\ Begin(r, "create", p, kind, 0, Unset)
    /\ Get(p)
    /\ \/ db[p].st = "absent" /\ Goto(r, "put")
       \/ Present(db[p]) /\ Respond(r, "EEXIST", NoOffset)
       \/ db[p].st = "broken" /\ Respond(r, "failed", NoOffset)
    /\ UNCHANGED <<db, chunks, hist>>

create_put(r) ==
    LET p == req[r].path
        e == MergeCreate(db[p], req[r].kind, 0)
    IN  /\ pc[r] = "put"
        /\ Write(p, e)
        /\ live' = IF Present(e) THEN live \cup {r} ELSE live
        /\ Respond(r, "0", NoOffset)
        /\ UNCHANGED <<reserve, chunks, req, grant>>

\* rpc_srv_stat and rpc_srv_get_metadentry_size.
stat(r, p) ==
    /\ Begin(r, "stat", p, "file", 0, Unset)
    /\ Get(p)
    /\ \/ Present(db[p]) /\ Respond(r, "0", db[p].size)
       \/ ~ Present(db[p]) /\ Respond(r, GetError(db[p]), NoOffset)
    /\ UNCHANGED <<db, chunks, hist>>

-----------------------------------------------------------------------------
(* rpc_srv_decr_size and rpc_srv_update_metadentry_size.                   *)

decr_size(r, p, length) ==
    /\ length < peak[p]
    /\ Begin(r, "decr", p, "file", length, Unset)
    /\ Write(p, MergeDecrease(db[p], length))
    /\ Superseded(p)
    /\ Respond(r, "0", NoOffset)
    /\ UNCHANGED <<reserve, chunks, grant>>

update_size(r, p, off, size) ==
    /\ peak[p] >= 0
    /\ Begin(r, "update_size", p, "file", off + size, Unset)
    /\ Write(p, MergeIncrease(db[p], off + size))
    /\ live' = IF Present(db[p]) THEN live \cup {r} ELSE live
    /\ Respond(r, "0", NoOffset)
    /\ UNCHANGED <<reserve, chunks, grant>>

\* Mutant: the operand is not folded before the offset is taken.
append_merge_unread(r, p, size, id) ==
    /\ peak[p] >= 0
    /\ UniqueIds => ~ InUse(id)
    /\ Begin(r, "append", p, "file", size, id)
    /\ Write(p, MergeAppend(db[p], size, id))
    /\ grant' = [grant EXCEPT ![r] = db[p].size]
    /\ live' = IF Present(db[p]) THEN live \cup {r} ELSE live
    /\ Goto(r, "take_offset")
    /\ UNCHANGED <<reserve, chunks>>

\* An append writes its operand under a new id, ...
append_merge(r, p, size, id) ==
    /\ peak[p] >= 0
    /\ UniqueIds => ~ InUse(id)
    /\ Begin(r, "append", p, "file", size, id)
    /\ Write(p, MergeAppend(db[p], size, id))
    /\ grant' = [grant EXCEPT ![r] = db[p].size]
    /\ live' = IF Present(db[p]) THEN live \cup {r} ELSE live
    /\ Goto(r, "force_merge")
    /\ UNCHANGED <<reserve, chunks>>

\* ... reads the key to have the operand folded, ...
append_force_merge(r) ==
    LET p == req[r].path IN
    /\ pc[r] = "force_merge"
    /\ Get(p)
    /\ \/ Present(db[p]) /\ Goto(r, "take_offset")
       \/ ~ Present(db[p]) /\ Respond(r, GetError(db[p]), NoOffset)
    /\ UNCHANGED <<db, chunks, req, hist>>

\* ... and takes the offset the fold has stored under the id, if it is there.
append_take_offset(r) ==
    /\ pc[r] = "take_offset"
    /\ Respond(r, "0", reserve[req[r].id])
    /\ reserve' = [reserve EXCEPT ![req[r].id] = NoOffset]
    /\ UNCHANGED <<db, chunks, req, hist>>

-----------------------------------------------------------------------------
(* rpc_srv_remove_metadata: kind is "dir" for an rmdir request.            *)

remove_get(r, p, kind) ==
    /\ Begin(r, "remove", p, kind, db[p].size, Unset)
    /\ Get(p)
    /\ \/ ~ Present(db[p]) /\ Respond(r, GetError(db[p]), NoOffset)
       \/ db[p].st = kind /\ Goto(r, "delete")
       \/ db[p].st = "dir" /\ kind = "file" /\ Respond(r, "EISDIR", NoOffset)
       \/ db[p].st = "file" /\ kind = "dir" /\ Respond(r, "ENOTDIR", NoOffset)
    /\ UNCHANGED <<db, chunks, hist>>

remove_delete(r) ==
    /\ pc[r] = "delete"
    /\ Write(req[r].path, Absent)
    /\ Superseded(req[r].path)
    /\ IF req[r].kind = "file" /\ req[r].size # 0
       THEN Goto(r, "destroy")
       ELSE Respond(r, "0", 0)
    /\ UNCHANGED <<reserve, chunks, req, grant>>

\* implicit_data_removal
remove_destroy(r) ==
    /\ pc[r] = "destroy"
    /\ chunks' = chunks \ {req[r].path}
    /\ Respond(r, "0", req[r].size)
    /\ UNCHANGED <<db, reserve, req, hist>>

-----------------------------------------------------------------------------
(* rpc_srv_update_metadentry and rpc_srv_mk_symlink read the metadata,     *)
(* change fields of it (the size only when the request's size_flag is      *)
(* set, to a size the client has read before), and write it all back.      *)

update_get(r, p, size) ==
    /\ size = db[p].size \/ size <= peak[p]
    /\ Begin(r, "update", p, IF Present(db[p]) THEN db[p].st ELSE "file",
             size, Unset)
    /\ Get(p)
    /\ IF Present(db[p])
       THEN Goto(r, "overwrite")
       ELSE Respond(r, "failed", NoOffset)
    /\ UNCHANGED <<db, chunks, hist>>

update_overwrite(r) ==
    /\ pc[r] = "overwrite"
    /\ Write(req[r].path, Value(req[r].kind, req[r].size))
    /\ Superseded(req[r].path)
    /\ Respond(r, "0", NoOffset)
    /\ UNCHANGED <<reserve, chunks, req, grant>>

-----------------------------------------------------------------------------
(* The data of the path on this daemon: rpc_srv_write creates the chunk    *)
(* directory, rpc_srv_remove_data destroys it.                             *)

write_chunk(r, p) ==
    /\ peak[p] >= 0
    /\ Begin(r, "write", p, "file", 0, Unset)
    /\ chunks' = chunks \cup {p}
    /\ Respond(r, "0", NoOffset)
    /\ UNCHANGED <<db, reserve, hist>>

remove_data(r, p) ==
    /\ peak[p] >= 0
    /\ Begin(r, "remove_data", p, "file", 0, Unset)
    /\ chunks' = chunks \ {p}
    /\ Respond(r, "0", NoOffset)
    /\ UNCHANGED <<db, reserve, hist>>

\* Mutant: a fold in the background drops the offsets.
compact_silent(p, k) ==
    /\ Present(db[p])
    /\ db' = [db EXCEPT ![p] = Folded(@, k)]
    /\ UNCHANGED <<reserve, chunks, pc, req, reply, hist>>

\* RocksDB folds the oldest k unfolded appends of p in the background.
compact(p, k) ==
    /\ Present(db[p])
    /\ reserve' = Puts(reserve, SubSeq(db[p].pend, 1, k))
    /\ db' = [db EXCEPT ![p] = Folded(@, k)]
    /\ UNCHANGED <<chunks, pc, req, reply, hist>>

-----------------------------------------------------------------------------
Step(r) ==
    \/ create_put(r)
    \/ append_force_merge(r)
    \/ append_take_offset(r)
    \/ remove_delete(r)
    \/ remove_destroy(r)
    \/ update_overwrite(r)

Start(r, p) ==
    \/ \E kind \in Kinds : create_exists(r, p, kind) \/ remove_get(r, p, kind)
    \/ \E length \in IoSizes : decr_size(r, p, length)
    \/ \E off, size \in IoSizes : update_size(r, p, off, size)
    \/ \E size \in IoSizes, id \in MergeIds : append_merge(r, p, size, id)
    \/ \E size \in IoSizes \cup {db[p].size} : update_get(r, p, size)
    \/ stat(r, p)
    \/ write_chunk(r, p)
    \/ remove_data(r, p)

Next ==
    \/ \E r \in Rpcs : Step(r)
    \/ \E r \in Rpcs, p \in Paths : Start(r, p)
    \/ \E p \in Paths : \E k \in 1..Len(db[p].pend) : compact(p, k)

Spec == Init /\ [][Next]_vars

-----------------------------------------------------------------------------
(* Properties.                                                             *)

\* r has been answered, without an error.
Acked(r, op) == pc[r] = "done" /\ req[r].op = op /\ reply[r].err = "0"

\* The end of what an acknowledged append r was told to write.
AppendEnd(r) == reply[r].ret + req[r].size

\* An acknowledged append got the file size at which its operand entered the
\* log, however often and by whomever the log was folded between the three
\* steps of increase_size_impl; it may miss it (-1) only when the path was
\* removed, truncated or overwritten in between.
AppendGetsItsOffset ==
    \A r \in Rpcs : Acked(r, "append") =>
        /\ reply[r].ret \in {grant[r], NoOffset}
        /\ r \in live => reply[r].ret = grant[r]

\* Two acknowledged appends to one file never write the same byte: update_size
\* assigns "a safe write interval to each parallel write operation"
\* (metadentry.cpp, update_size).
DisjointAppends ==
    \A r, q \in live :
        /\ r # q /\ req[r].path = req[q].path
        /\ Acked(r, "append") /\ Acked(q, "append")
        => AppendEnd(r) <= reply[q].ret \/ AppendEnd(q) <= reply[r].ret

\* What an acknowledged size update has covered stays inside the file, until
\* the path is removed, truncated or overwritten: no concurrent create, fold
\* or other size update undoes it (increase_size_impl, FullMergeV2).
AckedSizeVisible ==
    \A r \in live :
        /\ Acked(r, "update_size") => req[r].size <= db[req[r].path].size
        /\ Acked(r, "append") => AppendEnd(r) <= db[req[r].path].size

\* A file that exists keeps its kind and never shrinks in a step of any
\* handler but a decrease, a removal or an update of that path: a put that
\* lost the race against another creation changes nothing (put_no_exist_impl
\* and the create branch of FullMergeV2).
KeptUnlessReplaced ==
    [][\A p \in Paths : Present(db[p]) =>
          \/ db'[p].st = db[p].st /\ db'[p].size >= db[p].size
          \/ \E r \in Rpcs : /\ pc[r] # pc'[r]
                             /\ req'[r].op \in {"decr", "remove", "update"}
                             /\ req'[r].path = p]_vars

-----------------------------------------------------------------------------
(* The inductive invariant behind these properties.                        *)

\* Which operation a handler serves, by the step it is at.
ControlOK(r) ==
    /\ pc[r] = "idle" <=> req[r].op = "none"
    /\ pc[r] # "idle" => req[r].path \in Paths
    /\ pc[r] = "put" => req[r].op = "create"
    /\ InFlight(r) => req[r].op = "append" /\ req[r].id \in MergeIds
    /\ pc[r] \in {"delete", "destroy"} => req[r].op = "remove"
    /\ pc[r] = "overwrite" => req[r].op = "update"

HandlerOK ==
    /\ \A r \in Rpcs : ControlOK(r)
    /\ \A r \in live : pc[r] # "idle" /\ Present(db[req[r].path])

\* What a size update has covered lies inside the file.
Covered ==
    \A r \in live :
        /\ req[r].op = "append" =>
              grant[r] + req[r].size <= db[req[r].path].size
        /\ req[r].op = "update_size" => req[r].size <= db[req[r].path].size

\* Appends were granted disjoint intervals.
GrantsDisjoint ==
    \A r, q \in live :
        /\ r # q /\ req[r].path = req[q].path
        /\ req[r].op = "append" /\ req[q].op = "append"
        => \/ grant[r] + req[r].size <= grant[q]
           \/ grant[q] + req[q].size <= grant[r]

\* What the map or an unfolded operand holds under the id of append r is the
\* offset it was granted, and while r is live one of the two holds it.
Owned(r) ==
    /\ reserve[req[r].id] \in {grant[r], NoOffset}
    /\ \A p \in Paths : \A k \in DOMAIN db[p].pend :
          db[p].pend[k].id = req[r].id => db[p].pend[k].at = grant[r]
    /\ r \in live =>
          \/ reserve[req[r].id] = grant[r]
          \/ /\ pc[r] = "force_merge"
             /\ \E k \in DOMAIN db[req[r].path].pend :
                   db[req[r].path].pend[k].id = req[r].id

\* An append in progress shares its id with no other.
IdsOwned ==
    \A r \in Rpcs : InFlight(r) =>
        /\ \A q \in Rpcs : InFlight(q) /\ req[q].id = req[r].id => q = r
        /\ Owned(r)

StoreInv == TypeOK /\ HandlerOK /\ Covered /\ GrantsDisjoint

\* With unique ids, besides.
AppendInv == IdsOwned /\ AppendGetsItsOffset

-----------------------------------------------------------------------------
(* What comments and assertions of the code claim, and concurrency breaks. *)

\* "Puts an entry into the KV store if it doesn't exist" and throws "if entry
\* already exists" (rocksdb_backend.cpp, put_no_exist_impl): of two creations
\* of one path without a removal in between, one fails.
ExclusiveCreate ==
    \A r, q \in live :
        /\ r # q /\ req[r].path = req[q].path
        /\ Acked(r, "create")
        => ~ Acked(q, "create")

\* FullMergeV2 throws when a "key do not exists and first operand is not a
\* creation" (merge.cpp): no key ever gets into that state, in which every
\* later stat, create and remove of the path fails.
FirstOperandIsCreate ==
    \A p \in Paths : db[p].st # "broken"

\* assert(op.size() < fsize); // we assume no concurrency here (merge.cpp): a
\* decrease of a file is below the size it has when the operand is folded.
DecreaseShrinks ==
    [][\A r \in Rpcs : req[r].op = "none" /\ req'[r].op = "decr" =>
          LET p == req'[r].path IN
          Present(db[p]) => req'[r].size < db[p].size]_vars

\* "The metadata is removed first to ensure data isn't removed while the
\* metadata is still available" (srv_metadata.cpp, rpc_srv_remove_metadata).
NoDataRemovalUnderMetadata ==
    [][\A r \in Rpcs : pc[r] = "destroy" /\ pc'[r] = "done" =>
          ~ Present(db[req[r].path])]_vars
=============================================================================
