----------------------------- MODULE Namespace -----------------------------
(***************************************************************************)
(* The metadata operations of the client, RPC by RPC: gkfs_open,           *)
(* gkfs_create, gkfs_stat, gkfs_remove, gkfs_rmdir, gkfs_rename,           *)
(* gkfs_opendir, with the forward_* calls they make to the daemons that    *)
(* hold the copies of an entry.  Clients interleave between two RPCs; a    *)
(* request or its answer may be lost, which the client sees as an          *)
(* exception of hermes.                                                    *)
(*                                                                         *)
(* A client is a record: pc, the call op it executes, the path cur and the *)
(* copy it asks, the metadata md it got last, and the label k where a call *)
(* of get_metadata or forward_remove returns to.                           *)
(***************************************************************************)
EXTENDS MetadataRpc, FiniteSets, Sequences

CONSTANTS Clients,
          Hosts,          \* 0 .. number of daemons - 1
          Replicas,       \* LIBGKFS_NUM_REPL, less than the number of daemons
          Hash(_),        \* the hash of a path
          ChunkHash(_, _),  \* the hash of a path and a chunk number
          CheckParents,   \* GKFS_CREATE_CHECK_PARENTS
          Calls,          \* the calls of the clients
          MaxCalls,       \* bound on the calls of a behaviour
          Faults,         \* a subset of {"request", "answer", "post"}
          MaxFaults       \* bound on the lost messages of a behaviour

VARIABLES db,        \* the store of each daemon
          data,      \* pairs <<host, path>>: chunks of path on host
          cl,        \* the clients
          ncalls, nfaults,
          made,      \* history: paths made and not yet removed or renamed
          span,      \* history: entries there all along, or at times, a call
          view       \* history: what the names stood for between two calls

vars == <<db, data, cl, ncalls, nfaults, made, span, view>>

NHosts == Cardinality(Hosts)
Copies == 0 .. Replicas

locate_file_metadata(p, copy) == (Hash(p) + copy) % NHosts
locate_data(p, chunk, copy)   == (ChunkHash(p, chunk) + copy) % NHosts

Call(kind, path, new, flags) ==
    [kind |-> kind, path |-> path, new |-> new, flags |-> flags]
NoCall == Call("none", Root, Root, {})
Idle == [pc |-> "idle", op |-> NoCall, id |-> 0, k |-> "idle", cur |-> Root,
         copy |-> 0, md |-> NoEntry, old |-> NoEntry, ok |-> FALSE,
         err |-> "0", todo |-> {}, got |-> {}, ret |-> 0, fds |-> {}, end |-> Root]

Errors == {"0", "ENOENT", "EEXIST", "EISDIR", "ENOTDIR", "ENOTEMPTY", "EBUSY",
           "EIO", "1", "-1"}

TypeOK ==
    /\ \A h \in Hosts, p \in Paths :
          /\ db[h][p].mode \in Modes \cup {"absent", "broken"}
          /\ db[h][p].target \in Paths \cup {NoPath}
          /\ db[h][p].size \in {0, 1, NHosts}
    /\ data \subseteq Hosts \X Paths
    /\ \A c \in Clients :
          /\ cl[c].err \in Errors /\ cl[c].ret \in {-1, 0}
          /\ cl[c].copy \in Copies
          /\ cl[c].todo \subseteq Hosts
          /\ cl[c].fds \subseteq Paths

--------------------------------------------------------------------------
(* Steps of a client *)

At(c, label) == cl[c].pc = label
Become(c, r) == cl' = [cl EXCEPT ![c] = r]
Goto(r, label) == [r EXCEPT !.pc = label]
Fail(r, err) == [r EXCEPT !.pc = "done", !.ret = -1, !.err = err]
Success(r)   == [r EXCEPT !.pc = "done", !.ret = 0, !.err = "0"]
Opened(r, p) == [Success(r) EXCEPT !.fds = @ \cup {p}]

(* A call of get_metadata, of forward_remove.                              *)
get_metadata(r, p, k) == [r EXCEPT !.pc = "stat", !.cur = p, !.copy = 0, !.k = k]
Remove(r, p, k) == [r EXCEPT !.pc = "rm", !.cur = p, !.copy = 0, !.k = k]

Lost(kind) == kind \in Faults /\ nfaults < MaxFaults /\ nfaults' = nfaults + 1

(* An RPC to daemon h whose handler leaves the store out: the client goes  *)
(* on with next, or with fail after an exception.                          *)
Rpc(c, h, out, next, fail) ==
    /\ \/ /\ db' = [db EXCEPT ![h] = out] /\ Become(c, next)
          /\ UNCHANGED nfaults
       \/ Lost("request") /\ UNCHANGED db /\ Become(c, fail)
       \/ /\ Lost("answer") /\ out # db[h]
          /\ db' = [db EXCEPT ![h] = out] /\ Become(c, fail)
    /\ UNCHANGED data

Local(c, r) == Become(c, r) /\ UNCHANGED <<db, data, nfaults>>

(* forward_stat, with the loop over the copies of get_metadata.            *)
NextCopyOnce(r, err) == [r EXCEPT !.md = NoEntry, !.err = err, !.pc = r.k]
NextCopySame(r, err) == [r EXCEPT !.err = err, !.copy = 0]
NextCopy(r, err) ==
    IF r.copy < Replicas THEN [r EXCEPT !.copy = @ + 1, !.err = err]
    ELSE [r EXCEPT !.md = NoEntry, !.err = err, !.pc = r.k]
forward_stat(c) ==
    LET r == cl[c]
        h == locate_file_metadata(r.cur, r.copy)
        out == rpc_srv_stat(db[h], r.cur)
    IN  /\ At(c, "stat")
        /\ Rpc(c, h, db[h],
               IF out.err # "0" THEN NextCopy(r, out.err)
               ELSE [r EXCEPT !.md = db[h][r.cur], !.pc = r.k],
               NextCopy(r, "EBUSY"))

--------------------------------------------------------------------------
(* gkfs_create *)

create_all(r) == [r EXCEPT !.pc = "create", !.copy = 0, !.ok = FALSE]
gkfs_create(r) == IF CheckParents THEN get_metadata(r, Parent(r.op.path), "parent")
                  ELSE create_all(r)

check_parent_dir(c) ==
    LET r == cl[c] IN
    /\ At(c, "parent")
    /\ Local(c, IF r.md = NoEntry THEN Fail(r, r.err)
                ELSE IF r.md.mode # "dir" THEN Fail(r, "ENOTDIR")
                ELSE create_all(r))

CreateMode(op) == IF op.kind = "mkdir" THEN "dir" ELSE "file"

(* At least one copy has to succeed; errno is that of the last one.        *)
Created(r, err) ==
    [r EXCEPT !.ok = @ \/ err = "0", !.err = err,
              !.copy = IF @ < Replicas THEN @ + 1 ELSE @,
              !.pc = IF r.copy < Replicas THEN "create" ELSE "created"]
forward_create(c) ==
    LET r == cl[c]
        h == locate_file_metadata(r.op.path, r.copy)
        out == rpc_srv_create(db[h], r.op.path, CreateMode(r.op), r.id)
    IN  /\ At(c, "create")
        /\ Rpc(c, h, out.db, Created(r, out.err), Created(r, "EBUSY"))

gkfs_create_done(c) ==
    LET r == cl[c] IN
    /\ At(c, "created")
    /\ Local(c, IF r.op.kind = "mkdir" THEN IF r.ok THEN Success(r) ELSE Fail(r, r.err)
                ELSE IF r.ok THEN Opened(r, r.op.path)
                ELSE IF r.err = "EEXIST" /\ "excl" \notin r.op.flags THEN
                        get_metadata(r, r.op.path, "exists")
                ELSE Fail(r, r.err))

--------------------------------------------------------------------------
(* gkfs_open *)

Truncates(r) == "trunc" \in r.op.flags /\ r.md.size > 0
OpenEntry(r, p) ==
    IF r.md.mode = "dir" THEN get_metadata(r, p, "opendir")
    ELSE IF Truncates(r) THEN [r EXCEPT !.pc = "decr", !.cur = p, !.copy = 0]
    ELSE Opened(r, p)

open_entry(r) ==
    IF r.md.blocks = -1 THEN Fail(r, "ENOENT")
    ELSE IF r.md.target # NoPath THEN get_metadata(r, r.md.target, "target")
    ELSE OpenEntry(r, r.op.path)

(* An existing file under O_CREAT: get_metadata left errno as it was.      *)
open_existing(c) ==
    LET r == cl[c] IN
    /\ At(c, "exists")
    /\ Local(c, IF r.md = NoEntry THEN Fail(r, r.err)
                ELSE IF r.md.blocks = -1 THEN Fail(r, "EEXIST")
                ELSE open_entry(r))

gkfs_open(c) ==
    /\ At(c, "open")
    /\ Local(c, IF cl[c].md = NoEntry THEN Fail(cl[c], cl[c].err)
                ELSE open_entry(cl[c]))

(* The renamed path is followed to its end.  The first metadata is used    *)
(* unchecked: value() of an empty optional throws, and nobody catches it.  *)
open_target(c) ==
    LET r == cl[c] IN
    /\ \/ At(c, "target") \/ At(c, "follow")
    /\ Local(c, IF r.md = NoEntry /\ r.pc = "target" THEN Goto(r, "aborted")
                ELSE IF r.md = NoEntry THEN Fail(r, r.err)
                ELSE IF r.md.target # NoPath THEN get_metadata(r, r.md.target, "follow")
                ELSE OpenEntry(r, r.cur))

(* gkfs_truncate to 0: the size on every copy, then the data.              *)
forward_decr_size(c) ==
    LET r == cl[c]
        h == locate_file_metadata(r.cur, r.copy)
    IN  /\ At(c, "decr")
        /\ Rpc(c, h, rpc_srv_decr_size(db[h], r.cur, 0).db,
               IF r.copy < Replicas THEN [r EXCEPT !.copy = @ + 1]
               ELSE Goto(r, "truncate"),
               Fail(r, "EBUSY"))
forward_truncate(c) ==
    /\ At(c, "truncate")
    /\ \/ /\ data' = data \ (Hosts \X {cl[c].cur})
          /\ Become(c, Opened(cl[c], cl[c].cur)) /\ UNCHANGED nfaults
       \/ Lost("request") /\ Become(c, Fail(cl[c], "EBUSY")) /\ UNCHANGED data
    /\ UNCHANGED db

gkfs_opendir(c) ==
    LET r == cl[c] IN
    /\ At(c, "opendir")
    /\ Local(c, IF r.md = NoEntry THEN Fail(r, r.err)
                ELSE IF r.md.mode # "dir" THEN Fail(r, "ENOTDIR")
                ELSE [r EXCEPT !.pc = "dirents", !.todo = Hosts,
                                        !.got = {}, !.err = "0"])

(* A listing that stops at the first daemon.                               *)
forward_get_dirents_first(c) ==
    /\ At(c, "dirents")
    /\ \E h \in cl[c].todo :
          Rpc(c, h, db[h],
              [cl[c] EXCEPT !.todo = {}, !.got = get_dirents(db[h], cl[c].cur),
                            !.pc = "listed"],
              [cl[c] EXCEPT !.err = "EBUSY", !.pc = "listed"])

(* forward_get_dirents: all daemons are asked at once and answer in any    *)
(* order; one error is an error of the call.                               *)
forward_get_dirents_lenient(c) ==
    /\ At(c, "dirents")
    /\ \E h \in cl[c].todo :
          LET r == cl[c]
              out == rpc_srv_get_dirents(db[h], r.cur)
              s == [r EXCEPT !.todo = @ \ {h},
                             !.pc = IF r.todo = {h} THEN "listed" ELSE @]
          IN Rpc(c, h, db[h], [s EXCEPT !.got = @ \cup out.names], s)
forward_get_dirents(c) ==
    /\ At(c, "dirents")
    /\ \E h \in cl[c].todo :
          LET r == cl[c]
              out == rpc_srv_get_dirents(db[h], r.cur)
              s == [r EXCEPT !.todo = @ \ {h},
                             !.pc = IF r.todo = {h} THEN "listed" ELSE @]
          IN Rpc(c, h, db[h],
                 IF out.err # "0" THEN [s EXCEPT !.err = out.err]
                 ELSE [s EXCEPT !.got = @ \cup out.names],
                 [s EXCEPT !.err = "EBUSY"])

(* The end of gkfs_opendir and the check of gkfs_rmdir.                    *)
Listed(c) ==
    LET r == cl[c] IN
    /\ At(c, "listed")
    /\ Local(c, IF r.err # "0" THEN Fail(r, r.err)
                ELSE IF r.op.kind = "open" THEN Success(r)
                ELSE IF r.got # {} THEN Fail(r, "ENOTEMPTY")
                ELSE Remove(r, r.op.path, "removed"))

--------------------------------------------------------------------------
(* gkfs_stat, gkfs_statx, gkfs_access *)

(* A renamed path is not there; targets are followed to the end, without   *)
(* another look at blocks.                                                 *)
LookUp(c, first, follow) ==
    LET r == cl[c] IN
    /\ \/ At(c, first) \/ At(c, follow)
    /\ Local(c, IF r.md = NoEntry THEN Fail(r, r.err)
                ELSE IF r.pc = first /\ r.md.blocks = -1 THEN Fail(r, "ENOENT")
                ELSE IF r.md.target # NoPath THEN get_metadata(r, r.md.target, follow)
                ELSE Success(r))

gkfs_stat(c)   == LookUp(c, "gkfs_stat", "stat_follow")
gkfs_statx(c)  == LookUp(c, "gkfs_statx", "statx_follow")
gkfs_access(c) == LookUp(c, "gkfs_access", "access_follow")

--------------------------------------------------------------------------
(* gkfs_remove and gkfs_rmdir *)

(* The first target is asked for twice by the code; the copy it keeps in   *)
(* md_ is not used.                                                        *)
gkfs_remove(c) ==
    LET r == cl[c] IN
    /\ At(c, "remove")
    /\ Local(c, IF r.md = NoEntry THEN Fail(r, r.err)
                ELSE IF r.md.mode = "dir" THEN Fail(r, "EISDIR")
                ELSE IF r.md.blocks = -1 THEN Fail(r, "ENOENT")
                ELSE IF r.md.target # NoPath THEN get_metadata(r, r.md.target, "remove_follow")
                ELSE Remove(r, r.op.path, "removed"))

remove_follow(c) ==
    LET r == cl[c] IN
    /\ At(c, "remove_follow")
    /\ Local(c, IF r.md = NoEntry THEN Fail(r, r.err)
                ELSE IF r.md.target # NoPath THEN get_metadata(r, r.md.target, "remove_follow")
                ELSE Remove([r EXCEPT !.end = r.cur], r.cur, "remove_name"))

remove_name(c) ==
    /\ At(c, "remove_name")
    /\ Local(c, IF cl[c].err # "0" THEN Fail(cl[c], cl[c].err)
                ELSE Remove(cl[c], cl[c].op.path, "removed"))

gkfs_rmdir(c) ==
    LET r == cl[c] IN
    /\ At(c, "rmdir")
    /\ Local(c, IF r.md = NoEntry THEN Fail(r, r.err)
                ELSE [r EXCEPT !.pc = "dirents", !.todo = Hosts, !.got = {},
                               !.err = "0"])

(* forward_remove: the metadata of every copy, in turn; an error ends the  *)
(* call.  rm_dir is set by gkfs_rmdir and when a directory is renamed back.*)
RmDir(r) == r.op.kind = "rmdir" \/ (r.op.kind = "rename" /\ r.old.mode = "dir")
DataHosts_first(p, size) ==
    {locate_data(p, chunk, 0) : chunk \in 0 .. size}
DataHosts(p, size) ==
    IF size >= NHosts THEN Hosts
    ELSE {locate_file_metadata(p, copy) : copy \in Copies}
         \cup {locate_data(p, chunk, copy) : chunk \in 0 .. size, copy \in Copies}
forward_remove(c) ==
    LET r == cl[c]
        h == locate_file_metadata(r.cur, r.copy)
        out == rpc_srv_remove_metadata(db[h], r.cur, RmDir(r))
        md == db[h][r.cur]
        next == IF out.err # "0" THEN [r EXCEPT !.err = out.err, !.pc = r.k]
                ELSE IF r.copy < Replicas THEN [r EXCEPT !.copy = @ + 1]
                ELSE IF md.mode = "dir" \/ md.size = 0 THEN [r EXCEPT !.err = "0", !.pc = r.k]
                ELSE [r EXCEPT !.err = "0", !.pc = "rmdata",
                                        !.todo = DataHosts(r.cur, md.size)]
        fail == [r EXCEPT !.err = "EBUSY", !.pc = r.k]
    IN  /\ At(c, "rm")
        /\ \/ /\ \/ Become(c, next) /\ UNCHANGED nfaults
                 \/ Lost("answer") /\ Become(c, fail)
              /\ db' = [db EXCEPT ![h] = out.db]
              /\ data' = IF out.err = "0" /\ md.mode = "file" /\ md.size # 0
                         THEN data \ {<<h, r.cur>>} ELSE data
           \/ Lost("request") /\ Become(c, fail) /\ UNCHANGED <<db, data>>

(* remove_data goes to all hosts at once; the call returns when all have   *)
(* answered, or when a request cannot be posted.                           *)
forward_remove_data(c) ==
    LET r == cl[c] IN
    /\ At(c, "rmdata")
    /\ \/ \E h \in r.todo :
             LET s == [r EXCEPT !.todo = @ \ {h},
                                !.pc = IF r.todo = {h} THEN r.k ELSE @]
             IN \/ /\ data' = data \ {<<h, r.cur>>} /\ Become(c, s)
                   /\ UNCHANGED nfaults
                \/ /\ Lost("request") /\ UNCHANGED data
                   /\ Become(c, [s EXCEPT !.err = "EBUSY"])
       \/ /\ Lost("post") /\ UNCHANGED data
          /\ Become(c, [r EXCEPT !.todo = {}, !.err = "EBUSY", !.pc = r.k])
    /\ UNCHANGED db

Removed(c) ==
    /\ At(c, "removed")
    /\ Local(c, IF cl[c].err # "0" THEN Fail(cl[c], cl[c].err) ELSE Success(cl[c]))

--------------------------------------------------------------------------
(* gkfs_rename: the old entry is hidden with blocks = -1, the new one is   *)
(* created and points to the old one, the old one gets the new name.  The  *)
(* errors daemons answer are not looked at.                                *)

gkfs_rename(c) ==
    LET r == cl[c] IN
    /\ At(c, "rename")
    /\ Local(c, IF r.md = NoEntry \/ r.md.blocks = -1 THEN Fail(r, r.err)
                ELSE get_metadata([r EXCEPT !.old = r.md], r.op.new, "rename_new"))

rename_to(c) ==
    LET r == cl[c] IN
    /\ At(c, "rename_new")
    /\ Local(c, IF r.md = NoEntry THEN Goto(r, "rename_hide")
                ELSE IF r.md.blocks = -1 /\ r.old.target = r.op.new THEN Goto(r, "undo")
                ELSE Fail(r, r.err))

(* A file that is renamed back: its first entry is shown again and the     *)
(* second one removed.                                                     *)
forward_update_metadentry_hidden(c) ==
    LET r == cl[c]
        h == locate_file_metadata(r.op.new, 0)
    IN  /\ At(c, "undo")
        /\ Rpc(c, h, db[h], Remove(r, r.op.path, "removed"), Fail(r, "EBUSY"))
forward_update_metadentry(c) ==
    LET r == cl[c]
        h == locate_file_metadata(r.op.new, 0)
        out == rpc_srv_update_metadentry(db[h], r.op.new, 0, 0)
    IN  /\ At(c, "undo")
        /\ Rpc(c, h, out.db,
               IF out.err # "0" THEN Fail(r, out.err) ELSE Remove(r, r.op.path, "removed"),
               Fail(r, "EBUSY"))

forward_rename_hide(c) ==
    LET r == cl[c]
        h == locate_file_metadata(r.op.path, 0)
        out == rpc_srv_update_metadentry(db[h], r.op.path, -1, r.old.size)
    IN  /\ At(c, "rename_hide")
        /\ Rpc(c, h, out.db, Goto(r, "rename_create"), Fail(r, "EBUSY"))

forward_rename_create(c) ==
    LET r == cl[c]
        h == locate_file_metadata(r.op.new, 0)
        out == rpc_srv_create(db[h], r.op.new, r.old.mode, r.id)
    IN  /\ At(c, "rename_create")
        /\ Rpc(c, h, out.db, Goto(r, "rename_link"), Fail(r, "EBUSY"))

forward_rename_link(c) ==
    LET r == cl[c]
        h == locate_file_metadata(r.op.new, 0)
        out == rpc_srv_mk_symlink(db[h], r.op.new, r.op.path)
    IN  /\ At(c, "rename_link")
        /\ Rpc(c, h, out.db, Goto(r, "rename_back"), Fail(r, "EBUSY"))

forward_rename_back(c) ==
    LET r == cl[c]
        h == locate_file_metadata(r.op.path, 0)
        out == rpc_srv_mk_symlink(db[h], r.op.path, r.op.new)
    IN  /\ At(c, "rename_back")
        /\ Rpc(c, h, out.db, Success(r), Fail(r, "EBUSY"))

--------------------------------------------------------------------------
(* A write through an open descriptor, at the grain this module needs: the *)
(* size on every copy, then one chunk, or a chunk for each daemon.         *)
(* DataPath has the details.                                               *)
WriteSize(op) == IF "big" \in op.flags THEN NHosts ELSE 1
forward_update_metadentry_size(c) ==
    LET r == cl[c]
        h == locate_file_metadata(r.cur, r.copy)
    IN  /\ At(c, "size")
        /\ db' = [db EXCEPT ![h] = rpc_srv_update_metadentry_size(@, r.cur, WriteSize(r.op)).db]
        /\ Become(c, IF r.copy < Replicas THEN [r EXCEPT !.copy = @ + 1]
                     ELSE Goto(r, "write"))
        /\ UNCHANGED <<data, nfaults>>
ChunkCopies(p, size) ==
    {<<locate_data(p, chunk, copy), p>> : chunk \in 0 .. size - 1, copy \in Copies}
forward_write(c) ==
    /\ At(c, "write")
    /\ data' = data \cup ChunkCopies(cl[c].cur, WriteSize(cl[c].op))
    /\ Become(c, Success(cl[c]))
    /\ UNCHANGED <<db, nfaults>>

--------------------------------------------------------------------------
Begin(r) ==
    LET p == r.op.path IN
    CASE r.op.kind = "mkdir"  -> gkfs_create(r)
      [] r.op.kind = "open"   -> IF "creat" \in r.op.flags THEN gkfs_create(r)
                                 ELSE get_metadata(r, p, "open")
      [] r.op.kind = "stat"   -> get_metadata(r, p, "gkfs_stat")
      [] r.op.kind = "statx"  -> get_metadata(r, p, "gkfs_statx")
      [] r.op.kind = "access" -> get_metadata(r, p, "gkfs_access")
      [] r.op.kind = "remove" -> get_metadata(r, p, "remove")
      [] r.op.kind = "rmdir"  -> IF CheckParents THEN get_metadata(r, p, "rmdir")
                                 ELSE Remove(r, p, "removed")
      [] r.op.kind = "rename" -> get_metadata(r, p, "rename")
      [] r.op.kind = "write"  -> [r EXCEPT !.pc = "size", !.cur = p, !.copy = 0]

Invoke(c, op) ==
    /\ At(c, "idle") /\ ncalls < MaxCalls
    /\ op.kind = "write" => op.path \in cl[c].fds
    /\ ncalls' = ncalls + 1
    /\ Become(c, Begin([Idle EXCEPT !.op = op, !.id = ncalls + 1, !.fds = cl[c].fds]))
    /\ UNCHANGED <<db, data, nfaults, view>>

(* What a path stands for, by the entries of the first copies: the entry   *)
(* at the end of the chain of targets, if the path itself is not hidden.   *)
First(p) == db[locate_file_metadata(p, 0)][p]
Chain[n \in 0 .. Cardinality(Paths), p \in Paths] ==
    IF First(p).target = NoPath \/ n = 0 THEN First(p).id
    ELSE Chain[n - 1, First(p).target]
StandsFor(p) ==
    IF First(p).mode \notin Modes \/ First(p).blocks = -1 THEN 0
    ELSE Chain[Cardinality(Paths), p]

Return(c) ==
    /\ At(c, "done")
    /\ Become(c, [Idle EXCEPT !.fds = cl[c].fds])
    /\ view' = IF Cardinality(Clients) > 1 THEN view
               ELSE [names |-> [p \in Paths \ {Root} |-> StandsFor(p)],
                     last |-> [kind |-> cl[c].op.kind, ret |-> cl[c].ret]]
    /\ UNCHANGED <<db, data, ncalls, nfaults>>

Step(c) ==
    /\ \/ forward_stat(c) \/ check_parent_dir(c) \/ forward_create(c)
       \/ gkfs_create_done(c) \/ open_existing(c) \/ gkfs_open(c)
       \/ open_target(c) \/ forward_decr_size(c) \/ forward_truncate(c)
       \/ gkfs_opendir(c) \/ forward_get_dirents(c) \/ Listed(c)
       \/ gkfs_stat(c) \/ gkfs_statx(c) \/ gkfs_access(c) \/ gkfs_remove(c) \/ remove_follow(c) \/ remove_name(c)
       \/ gkfs_rmdir(c) \/ forward_remove(c) \/ forward_remove_data(c)
       \/ Removed(c) \/ gkfs_rename(c) \/ rename_to(c)
       \/ forward_update_metadentry(c) \/ forward_rename_hide(c)
       \/ forward_rename_create(c) \/ forward_rename_link(c)
       \/ forward_rename_back(c) \/ forward_update_metadentry_size(c)
       \/ forward_write(c)
    /\ UNCHANGED <<ncalls, view>>

(* History.  made: the paths that were created and that no call took away  *)
(* since that creation began.  span: what was there during the whole of a  *)
(* listing or of a stat, and at some time of it; for a creation, what was  *)
(* taken away in the meantime.                                             *)
Entries == {p \in Paths \ {Root} : First(p).mode \in Modes /\ First(p).blocks # -1}
TakenAway == UNION {{cl[c].op.path, cl[c].op.new} : c \in
    {d \in Clients : /\ cl[d].op.kind \in {"remove", "rmdir", "rename"}
                     /\ cl[d].pc \notin {"idle", "done"}}}
Creates(r) == r.op.kind = "mkdir" \/ "creat" \in r.op.flags
There(c) == IF cl[c].op.kind = "stat" THEN made
            ELSE IF Creates(cl[c]) THEN TakenAway
            ELSE IF cl[c].op.kind = "open" THEN Entries
            ELSE {}
History ==
    /\ made' = (made \cup {cl'[c].op.path : c \in {d \in Clients :
                              /\ cl[d].pc # "done" /\ cl'[d].pc = "done"
                              /\ cl'[d].ret = 0 /\ Creates(cl'[d])
                              /\ cl'[d].op.path \notin span[d].may}})
               \ TakenAway'
    /\ span' = [c \in Clients |->
                  IF At(c, "idle") THEN [must |-> There(c)', may |-> There(c)']
                  ELSE [must |-> span[c].must \cap There(c)',
                        may |-> span[c].may \cup There(c)']]

Init ==
    /\ db = [h \in Hosts |-> [p \in Paths |-> IF p = Root THEN NewEntry("dir", 0)
                                              ELSE NoEntry]]
    /\ data = {}
    /\ cl = [c \in Clients |-> Idle]
    /\ ncalls = 0 /\ nfaults = 0
    /\ made = {}
    /\ span = [c \in Clients |-> [must |-> {}, may |-> {}]]
    /\ view = [names |-> [p \in Paths \ {Root} |-> 0],
               last |-> [kind |-> "none", ret |-> 0]]

Progress(c) == Step(c) /\ History

Next == \E c \in Clients : \/ \E op \in Calls : Invoke(c, op) /\ History
                           \/ Progress(c)
                           \/ Return(c) /\ History

Spec == Init /\ [][Next]_vars

(* A client that is in a call goes on with it.                             *)
FairSpec == Spec /\ \A c \in Clients : WF_vars(Progress(c))

--------------------------------------------------------------------------
Done(c, kind) == At(c, "done") /\ cl[c].op.kind = kind

(* One client without lost messages: between two calls the entries of the  *)
(* daemons, with their chains of targets and their hidden names, implement *)
(* the names a user expects.                                               *)
NamesSpec == INSTANCE Names WITH names <- view.names, last <- view.last,
                                 Paths <- Paths \ {Root},
                                 Files <- 1 .. MaxCalls, NoFile <- 0
RefinesNames == NamesSpec!Spec

(* With parents checked, the parent of every entry is there as well, when  *)
(* one client works at a time, whatever messages it loses.                 *)
StrictHierarchy ==
    \A h \in Hosts, p \in Paths \ {Root} :
        db[h][p].mode \in Modes /\ db[h][p].blocks # -1 =>
            \E g \in Hosts : db[g][Parent(p)].mode = "dir"

(* A remove that succeeds leaves no chunk of the file on any daemon, for   *)
(* small files, whose chunk hosts are computed, and for big ones.          *)
RemovedLeavesNoData ==
    \A c \in Clients :
        Done(c, "remove") /\ cl[c].ret = 0 =>
            \A h \in Hosts : {<<h, cl[c].op.path>>, <<h, cl[c].end>>} \cap data = {}

(* With a replica, one lost message is hidden: a file whose creation       *)
(* succeeded is found by stat until someone removes it.  Where nothing is  *)
(* renamed: README, "Disagreements", tells what a rename changes.          *)
OneFailureHidden ==
    \A c \in Clients :
        Done(c, "stat") /\ cl[c].op.path \in span[c].must => cl[c].ret = 0

(* A directory that is listed while others create, rename and remove has   *)
(* all entries that were there all the time and none that never was.       *)
ListingComplete ==
    \A c \in Clients :
        /\ Done(c, "open") /\ ~Creates(cl[c]) /\ cl[c].ret = 0
        /\ cl[c].md.mode = "dir"
        => /\ {p \in span[c].must : Parent(p) = cl[c].cur} \subseteq cl[c].got
           /\ cl[c].got \subseteq span[c].may

(* Every call returns.                                                     *)
CallsReturn == \A c \in Clients : ~At(c, "idle") ~> At(c, "done")

-----------------------------------------------------------------------------
(* Statements of the repository that the code does not meet: TLC refutes   *)
(* each of those below (README, "Disagreements").                          *)

(* A stat returns, whatever renames went before it.                        *)
StatReturns == \A c \in Clients :
    (~At(c, "idle") /\ cl[c].op.kind = "stat") ~> At(c, "done")

(* Every operation on a path that was renamed away fails with ENOENT.      *)
RenamedIsGone ==
    \A c \in Clients :
        At(c, "done") /\ cl[c].op.kind \in {"open", "stat", "statx", "access", "remove", "rmdir"}
            /\ Cardinality(Clients) = 1 /\ cl[c].md.blocks = -1
            /\ cl[c].cur = cl[c].op.path
        => cl[c].ret = -1 /\ cl[c].err = "ENOENT"

(* When a remove fails with ENOENT no copy of the entry is left.           *)
EnoentMeansGone ==
    \A c \in Clients :
        Done(c, "remove") /\ cl[c].err = "ENOENT" =>
            \A h \in Hosts : LET e == db[h][cl[c].op.path] IN
                             e.mode \notin Modes \/ e.blocks = -1

(* After a rename that succeeded the new path is found again.              *)
RenamedIsFound ==
    \A c \in Clients :
        Done(c, "rename") /\ cl[c].ret = 0 =>
            First(cl[c].op.new).mode \in Modes /\ StandsFor(cl[c].op.new) # 0

(* gkfs_open returns: it does not end the program.                         *)
OpenReturns == \A c \in Clients : ~At(c, "aborted")
=============================================================================
