---------------------------- MODULE MetadataRpc ----------------------------
(***************************************************************************)
(* The metadata RPCs of one daemon as operators: the handlers of           *)
(* srv_metadata.cpp over a key-value store db, a function from paths to    *)
(* entries.  Every operator returns the store after the call and the error *)
(* of the answer.  Handlers are atomic here; what happens when two of them *)
(* interleave inside a daemon is the subject of MetadataStore.             *)
(*                                                                         *)
(* An entry is what the client reads of a Metadata object.  blocks is -1   *)
(* in an entry that was renamed away, target is the path an entry made by  *)
(* a rename stands for, rename the path a renamed entry went to.  id names *)
(* the call that created the entry and is history only.                    *)
(***************************************************************************)
EXTENDS Integers

CONSTANTS Paths, Root, Parent(_)

NoPath  == "none"
NoEntry == [mode |-> "absent", id |-> 0, size |-> 0, blocks |-> 0,
            target |-> NoPath, rename |-> NoPath]

(* A key whose only operand is a size update: FullMergeV2 throws on it.    *)
Broken  == [NoEntry EXCEPT !.mode = "broken"]

Modes   == {"file", "dir"}
NewEntry(mode, id) == [NoEntry EXCEPT !.mode = mode, !.id = id]

(* gkfs::metadata::get: the error, "0" when there is an entry to read.     *)
get_err(db, p) == CASE db[p] = NoEntry -> "ENOENT"
                    [] db[p] = Broken  -> "EBUSY"
                    [] OTHER           -> "0"

Answer(db, err) == [db |-> db, err |-> err]

rpc_srv_create(db, p, mode, id) ==
    CASE get_err(db, p) = "0"      -> Answer(db, "EEXIST")
      [] get_err(db, p) = "ENOENT" -> Answer([db EXCEPT ![p] = NewEntry(mode, id)], "0")
      [] OTHER                     -> Answer(db, "-1")

rpc_srv_stat(db, p) == Answer(db, get_err(db, p))

rpc_srv_remove_metadata(db, p, rm_dir) ==
    IF get_err(db, p) # "0" THEN Answer(db, get_err(db, p))
    ELSE IF db[p].mode = "dir" /\ ~rm_dir THEN Answer(db, "EISDIR")
    ELSE IF db[p].mode # "dir" /\ rm_dir THEN Answer(db, "ENOTDIR")
    ELSE Answer([db EXCEPT ![p] = NoEntry], "0")

(* Size updates are merge operands: they are logged without a look at the  *)
(* key, and break one that is not there.                                   *)
rpc_srv_decr_size(db, p, size) ==
    Answer([db EXCEPT ![p] = IF get_err(db, p) = "0" THEN [@ EXCEPT !.size = size]
                             ELSE Broken], "0")
rpc_srv_update_metadentry_size(db, p, size) ==
    Answer([db EXCEPT ![p] = IF get_err(db, p) # "0" THEN Broken
                             ELSE IF size > @.size THEN [@ EXCEPT !.size = size]
                             ELSE @], "0")

(* update_metadentry with blocks, and a size when it is not zero.          *)
rpc_srv_update_metadentry(db, p, blocks, size) ==
    IF get_err(db, p) # "0" THEN Answer(db, "1")
    ELSE Answer([db EXCEPT ![p].blocks = blocks,
                           ![p].size = IF size = 0 THEN @ ELSE size], "0")

rpc_srv_mk_symlink(db, p, target) ==
    IF get_err(db, p) # "0" THEN Answer(db, "1")
    ELSE IF db[p].blocks = -1 THEN Answer([db EXCEPT ![p].rename = target], "0")
    ELSE Answer([db EXCEPT ![p].target = target], "0")

(* The entries one level below dir that were not renamed away.  The scan   *)
(* reads all keys below dir and throws on one that is broken.              *)
Above[p \in Paths] == IF p = Root THEN {} ELSE {Parent(p)} \cup Above[Parent(p)]
get_dirents(db, dir) ==
    {p \in Paths \ {Root} : /\ Parent(p) = dir
                            /\ db[p].mode \in Modes /\ db[p].blocks # -1}
rpc_srv_get_dirents(db, dir) ==
    [names |-> get_dirents(db, dir),
     err |-> IF \E p \in Paths \ {Root} : db[p] = Broken /\ dir \in Above[p]
             THEN "EIO" ELSE "0"]
=============================================================================
