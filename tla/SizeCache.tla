----------------------------- MODULE SizeCache -----------------------------
(***************************************************************************)
(* The write size cache of a client process and the size updates it sends, *)
(* for one file.  Threads of the process write, fsync, close; the process  *)
(* removes the file and makes it again.  The cache is locked in record and *)
(* in reset, and not in between.  The size update goes to the daemon of    *)
(* every copy at once, and the answers are gathered afterwards.            *)
(***************************************************************************)
EXTENDS Integers, FiniteSets

CONSTANTS Threads,
          Replicas,
          UseCache,      \* LIBGKFS_WRITE_SIZE_CACHE
          Threshold,     \* flush_threshold
          MaxSize,       \* bound on offset + count of a write
          MaxCalls,      \* bound on the calls of a behaviour
          MaxRemoves,    \* bound on the removals of a behaviour
          Failures,      \* a subset of {"post", "lost", "error"}
          MaxFailures

ASSUME SizeCacheAssumption == Threshold \in Nat \ {0} /\ Replicas \in Nat

Copies == 0 .. Replicas

VARIABLES cache,     \* size_cache[path]: [in, cnt, size]
          server,    \* the size each copy has
          th,        \* the threads
          written,   \* history: the largest write since the file was made
          failed,    \* history: a size update was reported as failed
          ncalls, nremoves, nfailures

cacheVars == <<cache, server, th, written, failed, ncalls, nremoves, nfailures>>

NoCache == [in |-> FALSE, cnt |-> 0, size |-> 0]
Idle == [pc |-> "idle", kind |-> "none", size |-> 0, upd |-> 0,
         goal |-> 0, out |-> [c \in Copies |-> "none"], ret |-> 0]

CacheTypeOK ==
    /\ cache.cnt \in 0 .. MaxCalls /\ cache.size \in 0 .. MaxSize
    /\ server \in [Copies -> 0 .. MaxSize]
    /\ \A t \in Threads : /\ th[t].pc \in {"idle", "record", "reset", "send", "wait", "data", "done"}
                          /\ th[t].ret \in {-1, 0}

Larger(a, b) == IF a > b THEN a ELSE b
At(t, label) == th[t].pc = label
Become(t, r) == th' = [th EXCEPT ![t] = r]
Continue(t, label) == Become(t, [th[t] EXCEPT !.pc = label])
Lost(kind) == kind \in Failures /\ nfailures < MaxFailures /\ nfailures' = nfailures + 1

--------------------------------------------------------------------------
(* WriteSizeCache *)

record_sum(size) ==
    cache' = [in |-> TRUE, cnt |-> cache.cnt + 1,
              size |-> IF cache.size + size > MaxSize THEN MaxSize ELSE cache.size + size]
record_last(size) ==
    cache' = [in |-> TRUE, cnt |-> cache.cnt + 1, size |-> size]
record(size) ==
    cache' = [in |-> TRUE, cnt |-> cache.cnt + 1, size |-> Larger(cache.size, size)]

(* flush passes evict = false to reset whatever it was called with.        *)
reset == cache' = [cache EXCEPT !.cnt = 0]

--------------------------------------------------------------------------
FirstStep(kind) == IF kind = "write" THEN IF UseCache THEN "record" ELSE "send"
                   ELSE IF UseCache THEN "reset" ELSE "done"
Call(t, kind, size) ==
    /\ At(t, "idle") /\ ncalls < MaxCalls
    /\ ncalls' = ncalls + 1
    /\ Become(t, [pc |-> FirstStep(kind), kind |-> kind, size |-> size, upd |-> size,
                  goal |-> written, out |-> [c \in Copies |-> "none"], ret |-> 0])
    /\ UNCHANGED <<cache, server, written, failed, nremoves, nfailures>>

(* gkfs_do_write records the end of the write; above the threshold the     *)
(* size is flushed before the data is sent.                                *)
gkfs_do_write(t) ==
    /\ At(t, "record")
    /\ record(th[t].size)
    /\ Continue(t, IF cache'.cnt > Threshold THEN "reset" ELSE "data")
    /\ UNCHANGED <<server, written, failed, ncalls, nremoves, nfailures>>

AfterUpdate(t) == IF th[t].kind = "write" THEN "data" ELSE "done"

(* A flush without a new update sends nothing.                             *)
flush(t) ==
    /\ At(t, "reset")
    /\ reset
    /\ IF cache.cnt = 0 THEN Continue(t, AfterUpdate(t))
       ELSE Become(t, [th[t] EXCEPT !.pc = "send", !.upd = cache.size])
    /\ UNCHANGED <<server, written, failed, ncalls, nremoves, nfailures>>

(* The requests for all copies are posted; one that cannot be posted ends  *)
(* the call.                                                               *)
post_update(t) ==
    /\ At(t, "send")
    /\ \/ Continue(t, "wait") /\ UNCHANGED <<nfailures, failed>>
       \/ /\ Lost("post") /\ failed' = TRUE
          /\ Become(t, [th[t] EXCEPT !.pc = "done", !.ret = -1])
    /\ UNCHANGED <<cache, server, written, ncalls, nremoves>>

(* A daemon takes the update, answers with an error, or is not heard of.   *)
rpc_srv_update_metadentry_size(t, copy) ==
    /\ At(t, "wait") /\ th[t].out[copy] = "none"
    /\ \/ /\ server' = [server EXCEPT ![copy] = Larger(@, th[t].upd)]
          /\ Become(t, [th[t] EXCEPT !.out[copy] = "ok"]) /\ UNCHANGED nfailures
       \/ \E kind \in {"lost", "error"} :
             Lost(kind) /\ Become(t, [th[t] EXCEPT !.out[copy] = kind]) /\ UNCHANGED server
    /\ UNCHANGED <<cache, written, failed, ncalls, nremoves>>

(* One valid answer is enough.  Without one the error is that of a lost    *)
(* answer, and 0 when all daemons answered with an error.                  *)
UpdateFailed_never(out) == FALSE
UpdateFailed(out) ==
    /\ \A copy \in Copies : out[copy] # "ok"
    /\ \E copy \in Copies : out[copy] = "lost"
forward_update_metadentry_size(t) ==
    /\ At(t, "wait") /\ \A copy \in Copies : th[t].out[copy] # "none"
    /\ IF UpdateFailed(th[t].out)
       THEN Become(t, [th[t] EXCEPT !.pc = "done", !.ret = -1]) /\ failed' = TRUE
       ELSE Continue(t, AfterUpdate(t)) /\ UNCHANGED failed
    /\ UNCHANGED <<cache, server, written, ncalls, nremoves, nfailures>>

(* The data goes to the chunk servers.                                     *)
forward_write(t) ==
    /\ At(t, "data")
    /\ written' = Larger(written, th[t].size)
    /\ Continue(t, "done")
    /\ UNCHANGED <<cache, server, failed, ncalls, nremoves, nfailures>>

Return(t) ==
    /\ At(t, "done") /\ Become(t, Idle)
    /\ UNCHANGED <<cache, server, written, failed, ncalls, nremoves, nfailures>>

(* The file is removed and made again while no call is in progress.  The   *)
(* cache is not told.                                                      *)
Remake ==
    /\ nremoves < MaxRemoves /\ \A t \in Threads : At(t, "idle")
    /\ nremoves' = nremoves + 1
    /\ server' = [c \in Copies |-> 0] /\ written' = 0
    /\ UNCHANGED <<cache, th, failed, ncalls, nfailures>>

CacheInit ==
    /\ cache = NoCache
    /\ server = [c \in Copies |-> 0]
    /\ th = [t \in Threads |-> Idle]
    /\ written = 0 /\ failed = FALSE
    /\ ncalls = 0 /\ nremoves = 0 /\ nfailures = 0

CacheNext == \/ \E t \in Threads :
                   \/ \E size \in 1 .. MaxSize : Call(t, "write", size)
                   \/ Call(t, "fsync", 0) \/ Call(t, "close", 0)
                   \/ gkfs_do_write(t) \/ flush(t) \/ post_update(t)
                   \/ \E copy \in Copies : rpc_srv_update_metadentry_size(t, copy)
                   \/ forward_update_metadentry_size(t) \/ forward_write(t) \/ Return(t)
             \/ Remake

CacheSpec == CacheInit /\ [][CacheNext]_cacheVars

--------------------------------------------------------------------------
Flushing == \E t \in Threads : At(t, "send") \/ At(t, "wait")
Covered(size) == \E copy \in Copies : server[copy] >= size

(* A size leaves the cache only for a daemon: when no update is counted    *)
(* and none is under way, a copy has the size of all writes that were      *)
(* made, unless a call has reported an error.                              *)
SizesAccounted == cache.cnt = 0 /\ ~Flushing => failed \/ Covered(written)

(* No size beyond the writes made since the file exists.                   *)
SizeIsWritten ==
    (\A t \in Threads : At(t, "idle")) /\ ~failed =>
        \A copy \in Copies : server[copy] <= written

(* An update of another thread that carries at least this size and whose   *)
(* answers are not all there.                                              *)
UnderWay(size) ==
    \E t \in Threads : (At(t, "send") \/ At(t, "wait")) /\ th[t].upd >= size

(* What a successful fsync or close promises: a daemon has the size of all *)
(* writes that were made before the call, or another thread took it out of *)
(* the cache and is about to send it, or some call has reported an error.  *)
FlushedOrUnderWay ==
    \A t \in Threads :
        At(t, "done") /\ th[t].kind \in {"fsync", "close"} /\ th[t].ret = 0 =>
            failed \/ Covered(th[t].goal) \/ UnderWay(th[t].goal)

(* Without the cache a write sends its data only after one daemon at least *)
(* has taken the size.                                                     *)
OneDaemonTookIt ==
    \A t \in Threads :
        At(t, "data") /\ ~UseCache => \E copy \in Copies : th[t].out[copy] = "ok"
=============================================================================
