------------------------------- MODULE Proxy -------------------------------
(***************************************************************************)
(* File operations that go through the GekkoFS proxy.                      *)
(*                                                                         *)
(* A client on a node with a proxy posts each RPC to the proxy of its node *)
(* (forward_metadata_proxy.cpp, forward_data_proxy.cpp).  The proxy's      *)
(* handler (proxy/rpc/srv_*.cpp) forwards it to one daemon or to several   *)
(* (proxy/rpc/forward_*.cpp), waits for them all and answers the client.   *)
(* Proxied I/O carries no chunk bitset: the daemon decides itself, with    *)
(* the distributor, which chunks of the interval are its own               *)
(* (rpc_srv_proxy_write, rpc_srv_proxy_read).                              *)
(*                                                                         *)
(* One file and its directory entry.  A stored byte is the number of the   *)
(* operation that wrote it, 0 for none, -1 for a byte that was meant for   *)
(* another offset.                                                         *)
(***************************************************************************)
EXTENDS ChunkLayout

CONSTANTS Clients,
          Kinds,       \* the file operations clients perform
          Ranges,      \* the <<offset, length>> a read or write may have
          Faults,      \* the kinds of failure that may happen
          MaxOps,      \* bound on the operations of a behaviour
          MaxFaults    \* bound on the failures of a behaviour

VARIABLES place,     \* the hash of each chunk, modulo the number of hosts
          md,        \* metadata of the file on its metadata server
          store,     \* host -> file offset -> byte
          dirs,      \* hosts on which the file has a chunk directory
          op,        \* the operation of each client
          loose,     \* requests whose proxy handler has given up on them
          nops, nfaults,
          reserved   \* history: the bytes an append was assigned

vars == <<place, md, store, dirs, op, loose, nops, nfaults, reserved>>

ENOENT  == 2
EIO     == 5
EBUSY   == 16
EEXIST  == 17
ENOTDIR == 20
EISDIR  == 21
S_IFREG == 32768
S_IFDIR == 16384
S_ISREG(mode) == (mode % 65536) \div 4096 = 8
S_ISDIR(mode) == (mode % 65536) \div 4096 = 4

EndOf    == Max({r[1] + r[2] : r \in Ranges})
Offsets  == 0 .. EndOf - 1
OpIds    == 1 .. MaxOps
ChunkIds == 0 .. block_index(EndOf - 1)
MetaHost == 0             \* locate_file_metadata: hosts are interchangeable
NoEntry  == [mode |-> 0, size |-> 0]
Exists   == md.mode # 0
NoBulk   == -1

Idle == [kind |-> "idle", rpc |-> "none", pc |-> "idle", id |-> 0, off |-> 0,
         len |-> 0, dir |-> FALSE, old |-> 0, reqs |-> {}, err |-> 0,
         val |-> 0, bytes |-> {}, bad |-> FALSE]
Request(h, what) == [host |-> h, what |-> what, st |-> "sent", err |-> 0,
                     val |-> 0, mode |-> 0, size |-> 0, bytes |-> {},
                     in |-> [none |-> TRUE]]

TypeOK ==
    /\ place \in [ChunkIds -> Hosts]
    /\ md \in [mode : {0, S_IFREG, S_IFDIR}, size : 0 .. EndOf]
    /\ store \in [Hosts -> [Offsets -> -2 .. MaxOps]]
    /\ dirs \subseteq Hosts
    /\ \A c \in Clients :
          /\ op[c].pc \in {"idle", "post", "proxy", "wait", "answer", "done"}
          /\ op[c].err \in {-1, 0, ENOENT, EIO, EBUSY, EEXIST, ENOTDIR, EISDIR}
          /\ op[c].id \in 0 .. MaxOps
    /\ nops \in 0 .. MaxOps /\ nfaults \in 0 .. MaxFaults

Init ==
    /\ place \in [ChunkIds -> Hosts]
    /\ md = NoEntry
    /\ store = [h \in Hosts |-> [o \in Offsets |-> 0]]
    /\ dirs = {}
    /\ op = [c \in Clients |-> Idle]
    /\ loose = {} /\ nops = 0 /\ nfaults = 0
    /\ reserved = [i \in OpIds |-> {}]

(* A failure of kind f, if the bound allows one more.                      *)
Fault(f) == f \in Faults /\ nfaults < MaxFaults /\ nfaults' = nfaults + 1
NoFault  == UNCHANGED nfaults

-----------------------------------------------------------------------------
(* Client: the RPCs of each file operation (gkfs_functions.cpp).           *)

FirstRpc(kind) ==
    CASE kind = "create" -> "create"
      [] kind \in {"unlink", "stat", "open_trunc"} -> "stat"
      [] kind = "rmdir" -> "remove"
      [] kind \in {"write", "append"} -> "update_size"
      [] kind = "read" -> "read"
      [] kind = "seek_end" -> "get_size"
      [] kind = "list" -> "get_dirents"
      [] OTHER -> "chunk_stat"

(* Reads and writes start on a file that exists and is open.               *)
Begin(c, kind) ==
    \E r \in IF kind \in {"write", "read"} THEN Ranges
             ELSE IF kind = "append" THEN {x \in Ranges : x[1] = 0}
             ELSE {<<0, 1>>},
       dir \in IF kind = "create" THEN BOOLEAN ELSE {kind = "rmdir"} :
          /\ op[c].pc \in {"idle", "done"} /\ nops < MaxOps
          /\ kind \in {"write", "append", "read"} => S_ISREG(md.mode)
          /\ nops' = nops + 1
          /\ op' = [op EXCEPT ![c] =
                      [Idle EXCEPT !.kind = kind, !.rpc = FirstRpc(kind),
                                   !.pc = "post", !.id = nops + 1, !.dir = dir,
                                   !.off = r[1], !.len = r[2]]]
          /\ UNCHANGED <<place, md, store, dirs, loose, nfaults, reserved>>

(* The client's half of an RPC: the proxy's answer, or what is made of an  *)
(* exception while the call is posted or its answer awaited.               *)

forward_create_proxy(out)    == [err |-> out.err, val |-> 0]
forward_stat_proxy(out)      == [err |-> out.err, val |-> out.val]
forward_remove_proxy(out)    == [err |-> out.err, val |-> 0]
forward_decr_size_proxy(out) == [err |-> out.err, val |-> 0]
forward_update_metadentry_size_proxy(out) ==
    IF out.err # 0 THEN [err |-> out.err, val |-> 0]
                   ELSE [err |-> 0, val |-> out.val]
forward_get_metadentry_size_proxy(out) ==
    IF out.err # 0 THEN [err |-> out.err, val |-> 0]
                   ELSE [err |-> 0, val |-> out.val]
forward_get_dirents_single_proxy(out) == [err |-> out.err, val |-> out.val]
forward_write_proxy(out) ==
    IF out.err # 0 THEN [err |-> out.err, val |-> 0]
                   ELSE [err |-> 0, val |-> out.val]
forward_read_proxy(out) ==
    IF out.err # 0 THEN [err |-> out.err, val |-> 0]
                   ELSE [err |-> 0, val |-> out.val]
forward_truncate_proxy(out)       == [err |-> out.err, val |-> 0]
forward_get_chunk_stat_proxy(out) == [err |-> out.err, val |-> out.val]

ClientHalf(rpc, out) ==
    CASE rpc = "create"      -> forward_create_proxy(out)
      [] rpc = "stat"        -> forward_stat_proxy(out)
      [] rpc = "remove"      -> forward_remove_proxy(out)
      [] rpc = "decr_size"   -> forward_decr_size_proxy(out)
      [] rpc = "update_size" -> forward_update_metadentry_size_proxy(out)
      [] rpc = "get_size"    -> forward_get_metadentry_size_proxy(out)
      [] rpc = "get_dirents" -> forward_get_dirents_single_proxy(out)
      [] rpc = "write"       -> forward_write_proxy(out)
      [] rpc = "read"        -> forward_read_proxy(out)
      [] rpc = "truncate"    -> forward_truncate_proxy(out)
      [] OTHER               -> forward_get_chunk_stat_proxy(out)

Post(c) ==
    /\ op[c].pc = "post"
    /\ \/ /\ op' = [op EXCEPT ![c].pc = "proxy"] /\ NoFault
       \/ /\ op' = [op EXCEPT ![c].pc = "done", ![c].err = EBUSY]
          /\ Fault("post")
    /\ UNCHANGED <<place, md, store, dirs, loose, nops, reserved>>

(* What the operation does with the result: return, or go on to the next   *)
(* RPC.  A stat result is the mode, with the size kept in old.             *)
Goto(o, rpc) == [o EXCEPT !.rpc = rpc, !.pc = "post", !.reqs = {}, !.val = 0]
Return(o, err) == [o EXCEPT !.pc = "done", !.err = err, !.reqs = {}]
Answer(o, err, val) ==
    [o EXCEPT !.pc = "answer", !.err = err, !.val = val, !.reqs = {}]
(* History: a step of the operation failed.  Not set for the two size      *)
(* RPCs, whose failures the proxy does not report.                         *)
Failed(o) == [o EXCEPT !.bad = @ \/ o.rpc \notin {"update_size", "get_size"}]

gkfs_remove_then(o, mode) ==
    IF S_ISDIR(mode) THEN Return(o, EISDIR) ELSE Goto(o, "remove")
(* open with O_TRUNC truncates the regular file it finds to zero.          *)
gkfs_open_then(o, mode) ==
    IF S_ISDIR(mode) \/ o.old = 0 THEN Return(o, 0) ELSE Goto(o, "decr_size")
gkfs_truncate_then(o) == Goto(o, "truncate")
gkfs_do_write_then(o, ret) ==
    Goto(IF o.kind = "append" THEN [o EXCEPT !.off = ret] ELSE o, "write")

Receive(c) ==
    LET o   == op[c]
        res == ClientHalf(o.rpc, [err |-> o.err, val |-> o.val])
        nxt == IF res.err # 0 THEN Return(o, res.err)
               ELSE IF o.kind = "unlink" /\ o.rpc = "stat" THEN
                       gkfs_remove_then(o, res.val)
               ELSE IF o.kind = "open_trunc" /\ o.rpc = "stat" THEN
                       gkfs_open_then(o, res.val)
               ELSE IF o.rpc = "decr_size" THEN gkfs_truncate_then(o)
               ELSE IF o.kind \in {"write", "append"} /\ o.rpc = "update_size" THEN
                       gkfs_do_write_then(o, res.val)
               ELSE Return(o, 0)
    IN  /\ o.pc = "answer"
        /\ op' = [op EXCEPT ![c] = nxt]
        /\ UNCHANGED <<place, md, store, dirs, loose, nops, nfaults, reserved>>

-----------------------------------------------------------------------------
(* Proxy: the requests a call is forwarded as (proxy/rpc/forward_*.cpp).   *)

forward_write(o) ==
    {[Request(q.host, "write") EXCEPT !.in = q] :
        q \in ForwardWrite(place, o.off, o.len, 0)}
forward_read(o) ==
    {[Request(q.host, "read") EXCEPT !.in = q] :
        q \in ForwardRead(place, o.off, o.len, [c \in ChunkIds |-> 0])}
forward_truncate(o) ==
    {Request(h, "truncate") : h \in TruncateHosts(place, o.old, o.off, 0)}
forward_get_chunk_stat == {Request(h, "chunk_stat") : h \in Hosts}
remove_data            == {Request(h, "remove_data") : h \in Hosts}

(* Post the requests one after the other; a failure leaves the ones posted *)
(* before it behind, with nobody to take their answers.                    *)
SendAll(c, reqs, failure) ==
    \/ /\ op' = [op EXCEPT ![c].pc = "wait", ![c].reqs = reqs]
       /\ NoFault /\ UNCHANGED loose
    \/ \E sent \in SUBSET reqs :
          /\ sent # reqs /\ Fault("send")
          /\ op' = [op EXCEPT ![c] = Failed(Answer(@, failure, 0))]
          /\ loose' = loose \cup {[of |-> op[c], req |-> q] : q \in sent}

(* The first half of a handler: the input is decoded, for a call with a    *)
(* buffer the bulk memory is set up (and for a write filled), and the      *)
(* requests are sent.  bad_input, bad_bulk and bad_send are what the       *)
(* client is told when that fails.                                         *)
HandlerSilent(c, rpc, reqs, bad_input, bad_bulk, bad_send) ==    \* mutation
    /\ op[c].pc = "proxy" /\ op[c].rpc = rpc
    /\ \/ SendAll(c, reqs, bad_send)
       \/ /\ op' = [op EXCEPT ![c].pc = "unanswered"]
          /\ Fault("input") /\ UNCHANGED loose
    /\ UNCHANGED <<place, md, store, dirs, nops, reserved>>

Handler(c, rpc, reqs, bad_input, bad_bulk, bad_send) ==
    /\ op[c].pc = "proxy" /\ op[c].rpc = rpc
    /\ \/ SendAll(c, reqs, bad_send)
       \/ /\ op' = [op EXCEPT ![c] = Failed(Answer(@, bad_input, 0))]
          /\ Fault("input") /\ UNCHANGED loose
       \/ /\ bad_bulk # NoBulk
          /\ op' = [op EXCEPT ![c] = Failed(Answer(@, bad_bulk, 0))]
          /\ Fault("bulk") /\ UNCHANGED loose
    /\ UNCHANGED <<place, md, store, dirs, nops, reserved>>

ToMeta(rpc) == {Request(MetaHost, rpc)}

(* The metadata handlers answer an input they cannot decode with the zero  *)
(* their output was initialised with; the two size handlers answer zero    *)
(* whatever the error was.                                                 *)
proxy_rpc_srv_create(c) ==
    Handler(c, "create", ToMeta("create"), 0, NoBulk, EBUSY)
proxy_rpc_srv_stat(c) ==
    Handler(c, "stat", ToMeta("stat"), 0, NoBulk, EBUSY)
proxy_rpc_srv_remove(c) ==
    Handler(c, "remove", ToMeta("remove"), 0, NoBulk, EBUSY)
proxy_rpc_srv_decr_size(c) ==
    Handler(c, "decr_size", ToMeta("decr_size"), 0, NoBulk, EBUSY)
proxy_rpc_srv_get_metadentry_size(c) ==
    Handler(c, "get_size", ToMeta("get_size"), 0, NoBulk, 0)
proxy_rpc_srv_update_metadentry_size(c) ==
    Handler(c, "update_size", ToMeta("update_size"), 0, NoBulk, 0)
proxy_rpc_srv_get_dirents_extended(c) ==
    Handler(c, "get_dirents", ToMeta("get_dirents"), 0, 0, EBUSY)
proxy_rpc_srv_write(c) ==
    Handler(c, "write", forward_write(op[c]), EBUSY, EIO, EBUSY)
proxy_rpc_srv_read(c) ==
    Handler(c, "read", forward_read(op[c]), EBUSY, EIO, EBUSY)
proxy_rpc_srv_truncate(c) ==
    Handler(c, "truncate", forward_truncate(op[c]), 0, NoBulk, EIO)
proxy_rpc_srv_chunk_stat(c) ==
    Handler(c, "chunk_stat", forward_get_chunk_stat, 0, NoBulk, EBUSY)

-----------------------------------------------------------------------------
(* Daemon: q is the request, o the operation it is for.                    *)

Ok(q, val)   == [q EXCEPT !.st = "answered", !.val = val]
Err(q, code) == [q EXCEPT !.st = "answered", !.err = code]

create(o, q) ==
    /\ md' = IF Exists THEN md
             ELSE [mode |-> IF o.dir THEN S_IFDIR ELSE S_IFREG, size |-> 0]
    /\ UNCHANGED <<store, dirs, reserved>>
CreateReply(o, q) == IF Exists THEN Err(q, EEXIST) ELSE Ok(q, 0)

stat(o, q) == UNCHANGED <<md, store, dirs, reserved>>
StatReply(o, q) ==
    IF Exists THEN [Ok(q, md.mode) EXCEPT !.size = md.size]
              ELSE Err(q, ENOENT)

(* rpc_srv_remove_metadata drops the chunks on its own host itself.        *)
RemoveReply(o, q) ==
    IF ~Exists THEN Err(q, ENOENT)
    ELSE IF S_ISDIR(md.mode) /\ ~o.dir THEN Err(q, EISDIR)
    ELSE IF ~S_ISDIR(md.mode) /\ o.dir THEN Err(q, ENOTDIR)
    ELSE [Ok(q, 0) EXCEPT !.mode = md.mode, !.size = md.size]
Emptied(h) == [store EXCEPT ![h] = [x \in Offsets |-> 0]]
remove(o, q) ==
    LET gone == RemoveReply(o, q).err = 0
        data == gone /\ S_ISREG(md.mode) /\ md.size # 0
    IN  /\ md' = IF gone THEN NoEntry ELSE md
        /\ store' = IF data THEN Emptied(q.host) ELSE store
        /\ dirs' = IF data THEN dirs \ {q.host} ELSE dirs
        /\ UNCHANGED reserved

destroy_chunk_space(o, q) ==
    /\ store' = Emptied(q.host) /\ dirs' = dirs \ {q.host}
    /\ UNCHANGED <<md, reserved>>

decr_size(o, q) ==
    /\ md' = IF Exists THEN [md EXCEPT !.size = o.off] ELSE md
    /\ UNCHANGED <<store, dirs, reserved>>

(* An append is assigned the bytes after the current end.                  *)
update_size(o, q) ==
    LET end == IF o.kind = "append" THEN md.size + o.len
                                    ELSE Max({md.size, o.off + o.len})
    IN  /\ end <= EndOf
        /\ md' = IF Exists THEN [md EXCEPT !.size = end] ELSE md
        /\ reserved' = IF Exists /\ o.kind = "append"
                         THEN [reserved EXCEPT ![o.id] = md.size .. end - 1]
                         ELSE reserved
        /\ UNCHANGED <<store, dirs>>
UpdateReply(o, q) ==
    IF o.kind # "append" THEN Ok(q, -1)
    ELSE IF Exists THEN Ok(q, md.size) ELSE Err(q, ENOENT)

GetSizeReply(o, q) == IF Exists THEN Ok(q, md.size) ELSE Err(q, ENOENT)
DirentsReply(o, q) == Ok(q, IF Exists THEN 1 ELSE 0)

(* rpc_srv_proxy_write and rpc_srv_proxy_read walk over the chunks of the  *)
(* interval that the distributor gives to this host.                       *)
next_chunks(q) ==                                                \* mutation
    {c \in q.in.start .. q.in.end - 1 : locate_data(place, c, 0) = q.host}
own_chunks(q) ==
    {c \in q.in.start .. q.in.end : locate_data(place, c, 0) = q.host}
ProxyWritePieces(q) == Pieces([q.in EXCEPT !.bitset = own_chunks(q)])
ProxyReadPieces(q)  == Pieces([q.in EXCEPT !.bitset = own_chunks(q)])

(* What may have been done when the handler answers with an error: chunks  *)
(* whose tasklets were started are written, reads have no effect.          *)
proxy_write_failure(q) == SUBSET ProxyWritePieces(q)
proxy_read_failure(q)  == {{}}

FileOffset(p, i) == p.chunk * ChunkSize + p.off + i
Moved(p) == {FileOffset(p, i) : i \in 0 .. p.size - 1}
(* The byte a piece moves for file offset x, given by operation id.        *)
Fits(o, p, x) == o.off + p.origin + (x - FileOffset(p, 0)) = x

(* pieces are the ones whose tasklets ran; id is what their bytes are.     *)
write_pieces(o, q, pieces, id) ==
    /\ store' = [store EXCEPT ![q.host] =
                   [x \in Offsets |->
                      IF \E p \in pieces : x \in Moved(p)
                        THEN LET p == CHOOSE p \in pieces : x \in Moved(p)
                             IN  IF Fits(o, p, x) THEN id ELSE -1
                        ELSE @[x]]]
    /\ dirs' = IF pieces = {} THEN dirs ELSE dirs \cup {q.host}
    /\ UNCHANGED <<md, reserved>>
rpc_srv_proxy_write(o, q) ==
    LET bytes == UNION {Moved(p) : p \in ProxyWritePieces(q)}
    IN  [Ok(q, Cardinality(bytes)) EXCEPT !.bytes = bytes]
rpc_srv_proxy_read(o, q) ==
    [Ok(q, 0) EXCEPT !.bytes =
       UNION {{IF Fits(o, p, x) THEN x ELSE -1 : x \in Moved(p)} :
                p \in ProxyReadPieces(q)}]

(* rpc_srv_truncate to length zero.                                        *)
truncate(o, q) ==
    /\ store' = [store EXCEPT ![q.host] =
                   [x \in Offsets |-> IF x >= o.off THEN 0 ELSE @[x]]]
    /\ UNCHANGED <<md, dirs, reserved>>
TruncateReply(o, q) == IF q.host \in dirs THEN Ok(q, 0) ELSE Err(q, ENOENT)

rpc_srv_get_chunk_stat(o, q) == Ok(q, 1)

Execute(o, q) ==
    CASE q.what = "create"      -> create(o, q)
      [] q.what = "remove"      -> remove(o, q)
      [] q.what = "remove_data" -> destroy_chunk_space(o, q)
      [] q.what = "decr_size"   -> decr_size(o, q)
      [] q.what = "update_size" -> update_size(o, q)
      [] q.what = "write" ->
            write_pieces(o, q, ProxyWritePieces(q), o.id)
      [] q.what = "truncate"    -> truncate(o, q)
      [] OTHER                  -> stat(o, q)

Reply(o, q) ==
    CASE q.what = "create"      -> CreateReply(o, q)
      [] q.what = "stat"        -> StatReply(o, q)
      [] q.what = "remove"      -> RemoveReply(o, q)
      [] q.what = "update_size" -> UpdateReply(o, q)
      [] q.what = "get_size"    -> GetSizeReply(o, q)
      [] q.what = "get_dirents" -> DirentsReply(o, q)
      [] q.what = "write"       -> rpc_srv_proxy_write(o, q)
      [] q.what = "read"        -> rpc_srv_proxy_read(o, q)
      [] q.what = "truncate"    -> TruncateReply(o, q)
      [] q.what = "chunk_stat"  -> rpc_srv_get_chunk_stat(o, q)
      [] OTHER                  -> Ok(q, 0)

Replace(c, q, r) == op' = [op EXCEPT ![c].reqs = (@ \ {q}) \cup {r}]

Daemon(c) ==
    \E q \in op[c].reqs :
       /\ q.st = "sent"
       /\ \/ Execute(op[c], q) /\ Replace(c, q, Reply(op[c], q)) /\ NoFault
          \/ /\ Fault("daemon") /\ Replace(c, q, Err(q, EIO))
             /\ \E some \in IF q.what = "write" THEN proxy_write_failure(q)
                                               ELSE proxy_read_failure(q) :
                   write_pieces(op[c], q, some, op[c].id)
       /\ UNCHANGED <<place, loose, nops>>

(* A request nobody waits for is executed too.  The buffer of a write is   *)
(* gone by then: its bytes cannot be fetched or are arbitrary (-2).        *)
DaemonLate ==
    \E l \in loose :
       /\ IF l.req.what = "write"
            THEN \/ write_pieces(l.of, l.req, ProxyWritePieces(l.req), -2)
                 \/ UNCHANGED <<md, store, dirs, reserved>>
            ELSE Execute(l.of, l.req)
       /\ loose' = loose \ {l}
       /\ UNCHANGED <<place, op, nops, nfaults>>

(* The request is lost before or after the daemon executed it: margo_wait  *)
(* or margo_get_output fails.                                              *)
Lose(c) ==
    \E q \in op[c].reqs :
       /\ q.st \in {"sent", "answered"} /\ Fault("lost")
       /\ Replace(c, q, [q EXCEPT !.st = "lost", !.err = EBUSY])
       /\ UNCHANGED <<place, md, store, dirs, loose, nops, reserved>>

-----------------------------------------------------------------------------
(* Proxy: the second half of a handler, once every request is settled.     *)
(* One error is enough to fail the call.                                   *)

Settled(o) == \A q \in o.reqs : q.st # "sent"
Errors(reqs) == {q.err : q \in reqs} \ {0}
OneOf(S) == CHOOSE x \in S : TRUE
Worst(reqs) == IF Errors(reqs) = {} THEN 0 ELSE OneOf(Errors(reqs))
Sum(reqs) == FoldSet(LAMBDA q, n : q.val + n, 0, reqs)

(* forward_create, forward_stat, forward_decr_size: the daemon's error, or *)
(* EBUSY when there is no answer.                                          *)
forward_create_out(q)    == [err |-> q.err, val |-> 0]
forward_stat_out(q)      == [err |-> q.err,
                             val |-> IF q.err = 0 THEN q.val ELSE 0]
forward_decr_size_out(q) == [err |-> q.err, val |-> 0]
forward_get_dirents_single_out(q) ==
    [err |-> q.err, val |-> IF q.err = 0 THEN q.val ELSE 0]

(* The size and the error are taken over, and the handler drops the error. *)
SizeOf(q) == IF q.st = "lost" \/ q.err # 0 THEN 0 ELSE q.val
forward_get_metadentry_size_out(q)    == [err |-> 0, val |-> SizeOf(q)]
forward_update_metadentry_size_out(q) == [err |-> 0, val |-> SizeOf(q)]

forward_write_out(reqs)    == [err |-> Worst(reqs), val |-> Sum(reqs)]
forward_read_out(reqs)     == [err |-> Worst(reqs), val |-> Sum(reqs)]
forward_truncate_out(reqs) ==
    [err |-> IF Errors(reqs) # {} THEN -1 ELSE 0, val |-> 0]
forward_chunk_stat_last(reqs) ==                                 \* mutation
    [err |-> OneOf(reqs).err, val |-> Sum(reqs)]
forward_chunk_stat_out(reqs) ==
    [err |-> Worst(reqs), val |-> IF Errors(reqs) = {} THEN Sum(reqs) ELSE 0]
remove_data_out(reqs) == [err |-> Worst(reqs), val |-> 0]

(* forward_remove binds what remove_metadata returns, <<err, size, mode>>, *)
(* to the names err, mode and size.                                        *)
remove_metadata(q) == IF q.err = 0 THEN <<0, q.size, q.mode>>
                                   ELSE <<q.err, 0, 0>>
forward_remove(q) ==
    LET t    == remove_metadata(q)
        err  == t[1]
        mode == t[2]
        size == t[3]
    IN  [err |-> err, data |-> err = 0 /\ S_ISREG(mode) /\ size # 0]

Out(o) ==
    LET q == OneOf(o.reqs)
    IN  CASE o.rpc = "create"      -> forward_create_out(q)
          [] o.rpc = "stat"        -> forward_stat_out(q)
          [] o.rpc = "remove"      -> remove_data_out(o.reqs)
          [] o.rpc = "decr_size"   -> forward_decr_size_out(q)
          [] o.rpc = "get_size"    -> forward_get_metadentry_size_out(q)
          [] o.rpc = "update_size" -> forward_update_metadentry_size_out(q)
          [] o.rpc = "get_dirents" -> forward_get_dirents_single_out(q)
          [] o.rpc = "write"       -> forward_write_out(o.reqs)
          [] o.rpc = "read"        -> forward_read_out(o.reqs)
          [] o.rpc = "truncate"    -> forward_truncate_out(o.reqs)
          [] OTHER                 -> forward_chunk_stat_out(o.reqs)

(* History: which bytes were moved, and whether something went wrong.      *)
Recorded(o) ==
    LET p == [o EXCEPT !.bytes = UNION {q.bytes : q \in o.reqs},
                       !.old = IF o.rpc = "stat" THEN OneOf(o.reqs).size
                                                 ELSE o.old]
    IN  IF Errors(o.reqs) # {} THEN Failed(p) ELSE p

Gather(c) ==
    LET o   == op[c]
        out == Out(o)
    IN  /\ o.pc = "wait" /\ Settled(o)
        /\ IF o.rpc = "remove" /\ OneOf(o.reqs).what = "remove"
                               /\ forward_remove(OneOf(o.reqs)).data
             THEN SendAll(c, remove_data, EBUSY)
             ELSE \/ /\ op' = [op EXCEPT ![c] =
                                 Answer(Recorded(o), out.err, out.val)]
                     /\ NoFault /\ UNCHANGED loose
                  \/ /\ o.rpc \in {"read", "get_dirents"} /\ out.err = 0
                     /\ op' = [op EXCEPT ![c] =
                                 Failed(Answer(Recorded(o), EBUSY, 0))]
                     /\ Fault("bulk") /\ UNCHANGED loose
        /\ UNCHANGED <<place, md, store, dirs, nops, reserved>>

-----------------------------------------------------------------------------
ProxyHandler(c) ==
    \/ proxy_rpc_srv_create(c)            \/ proxy_rpc_srv_stat(c)
    \/ proxy_rpc_srv_remove(c)            \/ proxy_rpc_srv_decr_size(c)
    \/ proxy_rpc_srv_get_metadentry_size(c)
    \/ proxy_rpc_srv_update_metadentry_size(c)
    \/ proxy_rpc_srv_get_dirents_extended(c)
    \/ proxy_rpc_srv_write(c)             \/ proxy_rpc_srv_read(c)
    \/ proxy_rpc_srv_truncate(c)          \/ proxy_rpc_srv_chunk_stat(c)

Step(c) == Post(c) \/ ProxyHandler(c) \/ Daemon(c) \/ Gather(c) \/ Receive(c)

Next == \/ \E c \in Clients : \/ Step(c) \/ Lose(c)
                              \/ \E k \in Kinds : Begin(c, k)
        \/ DaemonLate

Spec == Init /\ [][Next]_vars

(* Argobots runs every handler that has something to do, and the progress  *)
(* threads of the proxy and of the daemons never stop.                     *)
FairSpec == Spec /\ \A c \in Clients : WF_vars(Step(c))

-----------------------------------------------------------------------------
Done(c) == op[c].pc = "done"

\* An operation that returns success had no failed step: an error of any
\* daemon a call was forwarded to, a lost answer, a request that could not be
\* sent and a failed transfer all reach the client (the loops over the waiters
\* in forward_write, forward_read, forward_truncate, remove_data and
\* forward_get_chunk_stat).  The two size RPCs are excepted.
FailuresAreReported ==
    \A c \in Clients : Done(c) /\ op[c].err = 0 => ~op[c].bad

\* No byte is stored or returned for another offset than its own, although
\* proxied requests name no chunks and each daemon works out its chunks, their
\* order and their place in the client's buffer alone (rpc_srv_proxy_write,
\* rpc_srv_proxy_read).
BytesInPlace ==
    /\ \A h \in Hosts, x \in Offsets : store[h][x] # -1
    /\ \A c \in Clients : -1 \notin op[c].bytes

\* A write or read that succeeds moved every byte of its range exactly through
\* the daemons the range was spread over: nothing falls between two daemons.
WholeRangeMoved ==
    \A c \in Clients :
        Done(c) /\ op[c].err = 0 /\ op[c].rpc \in {"write", "read"} =>
            op[c].bytes = op[c].off .. op[c].off + op[c].len - 1

\* Every operation returns: no failure leaves a handler, or the client behind
\* it, waiting for ever.
OperationsReturn == \A c \in Clients : op[c].pc = "post" ~> Done(c)

-----------------------------------------------------------------------------
(* Statements of the repository that the code does not meet: TLC refutes   *)
(* each of those below (README, "Disagreements").                          *)

\* Removing a regular file that has data removes the data, as forward_remove
\* says: only "if file is not a regular file or it's size is 0, data does not
\* need to be removed".
RemovedLeavesNoData ==
    \A c \in Clients :
        /\ op[c].kind = "unlink" /\ Done(c) /\ op[c].err = 0
        /\ \A d \in Clients \ {c} : op[d].pc \in {"idle", "done"}
        => \A h \in Hosts : \A x \in Offsets : store[h][x] = 0

\* An append writes only the bytes its size update reserved ("it is an atomic
\* operation on the server and reserves the space for this append",
\* gkfs_do_write).
AppendsStayInTheirReserve ==
    \A h \in Hosts, x \in Offsets, c \in Clients :
        op[c].kind = "append" /\ op[c].id # 0 /\ store[h][x] = op[c].id
            => x \in reserved[op[c].id]

\* A creation that returns 0 left an entry behind ("@return 0 on success, -1
\* on failure", gkfs_create).
CreatedExists ==
    \A c \in Clients : op[c].kind = "create" /\ Done(c) /\ op[c].err = 0
                       /\ nops = op[c].id => Exists
=============================================================================
