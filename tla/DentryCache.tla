---------------------------- MODULE DentryCache ----------------------------
(***************************************************************************)
(* The directory entry cache of a client process (LIBGKFS_DENTRY_CACHE).   *)
(* opendir asks all daemons for the entries of the directory, with their   *)
(* sizes, and puts them into the cache; stat answers from the cache when   *)
(* it can; close of a directory clears what is cached for it.  The cache   *)
(* is locked for one insert, one look-up or one clear at a time.           *)
(*                                                                         *)
(* What stat would say of an entry is a version number, 0 for "no entry".  *)
(* Other processes create, write and remove at any time, and so does this  *)
(* one: none of these calls looks at the cache.                            *)
(***************************************************************************)
EXTENDS Naturals, FiniteSets

CONSTANTS Threads, Dirs, Names,
          Hosts,         \* 0 .. n-1
          Host(_, _),    \* the daemon of an entry
          DirId(_),      \* gen_dir_id: a hash in 32 bits
          Faults,        \* a subset of {"lost"}
          MaxChanges, MaxCalls, MaxFaults

VARIABLES daemon,      \* the version of every entry on its daemon
          entries,     \* entries_: per directory id, name -> version
          ids,         \* the keys of entry_dir_id_
          fds,         \* number of open descriptors per directory
          th,
          truths,      \* versions an entry had since the directory was last
                       \* opened with no descriptor and nothing cached of it
          nchanges, ncalls, nfaults

vars == <<daemon, entries, ids, fds, th, truths, nchanges, ncalls, nfaults>>

Versions == 0 .. MaxChanges
Nothing == [n \in Names |-> 0]
Unasked == [asked |-> FALSE, err |-> FALSE, found |-> Nothing]
Idle == [pc |-> "idle", dir |-> CHOOSE d \in Dirs : TRUE,
         out |-> [h \in Hosts |-> Unasked], host |-> 0, todo |-> {},
         list |-> {}, stayed |-> {}]

TypeOK ==
  /\ daemon \in [Dirs -> [Names -> Versions]]
  /\ entries \in [{DirId(d) : d \in Dirs} -> [Names -> Versions]]
  /\ ids \subseteq Dirs
  /\ fds \in [Dirs -> 0 .. MaxCalls]
  /\ \A t \in Threads :
       /\ th[t].pc \in {"idle", "ask", "gather", "opened", "clear", "remove"}
       /\ th[t].host \in 0 .. Cardinality(Hosts)
       /\ th[t].list \subseteq Names

At(t, label) == th[t].pc = label
Become(t, r) == th' = [th EXCEPT ![t] = r]
Opening(d) == {t \in Threads : th[t].dir = d /\ th[t].pc \in {"ask", "gather"}}
Closing(d) == {t \in Threads : th[t].dir = d /\ th[t].pc \in {"clear", "remove"}}
InUse(d) == fds[d] > 0 \/ Opening(d) # {}

-----------------------------------------------------------------------------
(* emplace keeps an entry that is there already. *)
insert_all(d, n, v) ==
  /\ ids' = ids \cup {d}
  /\ entries' = [entries EXCEPT ![DirId(d)] = [m \in Names |-> IF @[m] = 0 THEN v ELSE @[m]]]
insert(d, n, v) ==
  /\ ids' = ids \cup {d}
  /\ entries' = [entries EXCEPT ![DirId(d)][n] = IF @ = 0 THEN v ELSE @]

clear_dir_kept(d) ==
  IF d \in ids
  THEN ids' = ids \ {d} /\ UNCHANGED entries
  ELSE UNCHANGED <<ids, entries>>
clear_dir(d) ==
  IF d \in ids
  THEN ids' = ids \ {d} /\ entries' = [entries EXCEPT ![DirId(d)] = Nothing]
  ELSE UNCHANGED <<ids, entries>>

(* The directory exists.  One asynchronous request per daemon. *)
gkfs_opendir(t, d) ==
  /\ At(t, "idle") /\ ncalls < MaxCalls
  /\ ncalls' = ncalls + 1
  /\ Become(t, [Idle EXCEPT !.pc = "ask", !.dir = d,
                            !.stayed = {n \in Names : daemon[d][n] # 0}])
  /\ truths' = IF InUse(d) \/ entries[DirId(d)] # Nothing THEN truths
               ELSE [truths EXCEPT ![d] = [n \in Names |-> {daemon[d][n]}]]
  /\ UNCHANGED <<daemon, entries, ids, fds, nchanges, nfaults>>

(* The daemon scans its key value store and pushes what it finds. *)
rpc_srv_get_dirents_extended(t, h) ==
  LET d == th[t].dir
      found == [n \in Names |-> IF Host(d, n) = h THEN daemon[d][n] ELSE 0]
  IN /\ At(t, "ask") /\ ~th[t].out[h].asked
     /\ Become(t, [th[t] EXCEPT !.out[h] = [asked |-> TRUE, err |-> FALSE, found |-> found]])
     /\ UNCHANGED <<daemon, entries, ids, fds, truths, nchanges, ncalls, nfaults>>

(* An exception while waiting for the answer becomes EBUSY, no entries. *)
forward_get_dirents_single(t, h) ==
  /\ At(t, "ask") /\ ~th[t].out[h].asked
  /\ "lost" \in Faults /\ nfaults < MaxFaults
  /\ nfaults' = nfaults + 1
  /\ Become(t, [th[t] EXCEPT !.out[h] = [asked |-> TRUE, err |-> TRUE, found |-> Nothing]])
  /\ UNCHANGED <<daemon, entries, ids, fds, truths, nchanges, ncalls>>

(* The futures are collected in the order of the daemons. *)
Entries(t, h) == {n \in Names : th[t].out[h].found[n] # 0}
StartGather(t) ==
  /\ At(t, "ask") /\ \A h \in Hosts : th[t].out[h].asked
  /\ Become(t, [th[t] EXCEPT !.pc = "gather", !.todo = Entries(t, 0)])
  /\ UNCHANGED <<daemon, entries, ids, fds, truths, nchanges, ncalls, nfaults>>

GatherEntry(t, n) ==
  /\ At(t, "gather") /\ n \in th[t].todo
  /\ insert(th[t].dir, n, th[t].out[th[t].host].found[n])
  /\ Become(t, [th[t] EXCEPT !.todo = @ \ {n}, !.list = @ \cup {n}])
  /\ UNCHANGED <<daemon, fds, truths, nchanges, ncalls, nfaults>>

MoreHosts_short(t) == th[t].host + 2 \in Hosts
MoreHosts(t) == th[t].host + 1 \in Hosts
GatherHost(t) ==
  /\ At(t, "gather") /\ th[t].todo = {} /\ MoreHosts(t)
  /\ Become(t, [th[t] EXCEPT !.host = @ + 1, !.todo = Entries(t, th[t].host + 1)])
  /\ UNCHANGED <<daemon, entries, ids, fds, truths, nchanges, ncalls, nfaults>>

(* Every daemon overwrites ret.first: the error of the last one counts. *)
Opened(t) ==
  /\ At(t, "gather") /\ th[t].todo = {} /\ ~MoreHosts(t)
  /\ IF th[t].out[th[t].host].err
     THEN Become(t, Idle) /\ UNCHANGED fds
     ELSE /\ Become(t, [th[t] EXCEPT !.pc = "opened"])
          /\ fds' = [fds EXCEPT ![th[t].dir] = @ + 1]
  /\ UNCHANGED <<daemon, entries, ids, truths, nchanges, ncalls, nfaults>>

Return(t) ==
  /\ At(t, "opened")
  /\ Become(t, Idle)
  /\ UNCHANGED <<daemon, entries, ids, fds, truths, nchanges, ncalls, nfaults>>

(* A descriptor is closed by one thread; first the cache, then the map. *)
gkfs_close(t, d) ==
  /\ At(t, "idle") /\ Cardinality(Closing(d)) < fds[d]
  /\ Become(t, [Idle EXCEPT !.pc = "clear", !.dir = d])
  /\ UNCHANGED <<daemon, entries, ids, fds, truths, nchanges, ncalls, nfaults>>
CloseClear(t) ==
  /\ At(t, "clear")
  /\ clear_dir(th[t].dir)
  /\ Become(t, [th[t] EXCEPT !.pc = "remove"])
  /\ UNCHANGED <<daemon, fds, truths, nchanges, ncalls, nfaults>>
CloseRemove(t) ==
  /\ At(t, "remove")
  /\ fds' = [fds EXCEPT ![th[t].dir] = @ - 1]
  /\ Become(t, Idle)
  /\ UNCHANGED <<daemon, entries, ids, truths, nchanges, ncalls, nfaults>>

(* What get_metadata answers for an entry: a hit in the cache, or what the *)
(* daemon says now.  The look-up makes an id for the directory.            *)
get(d, n) == entries[DirId(d)][n]
get_metadata(d, n) == IF get(d, n) # 0 THEN get(d, n) ELSE daemon[d][n]
gkfs_stat(t, d) ==
  /\ At(t, "idle") /\ d \notin ids
  /\ ids' = ids \cup {d}
  /\ UNCHANGED <<daemon, entries, fds, th, truths, nchanges, ncalls, nfaults>>

(* Any process creates, writes or removes an entry. *)
Change(d, n) ==
  \E v \in {0, nchanges + 1} :
    /\ nchanges < MaxChanges /\ v # daemon[d][n]
    /\ nchanges' = nchanges + 1
    /\ daemon' = [daemon EXCEPT ![d][n] = v]
    /\ truths' = [truths EXCEPT ![d][n] = @ \cup {v}]
    /\ th' = [t \in Threads |-> IF v = 0 /\ th[t].dir = d
                               THEN [th[t] EXCEPT !.stayed = @ \ {n}] ELSE th[t]]
    /\ UNCHANGED <<entries, ids, fds, ncalls, nfaults>>

Init ==
  /\ daemon = [d \in Dirs |-> Nothing]
  /\ entries = [i \in {DirId(d) : d \in Dirs} |-> Nothing]
  /\ ids = {} /\ fds = [d \in Dirs |-> 0]
  /\ th = [t \in Threads |-> Idle]
  /\ truths = [d \in Dirs |-> [n \in Names |-> {0}]]
  /\ nchanges = 0 /\ ncalls = 0 /\ nfaults = 0

Next ==
  \/ \E t \in Threads :
       \/ \E d \in Dirs : gkfs_opendir(t, d) \/ gkfs_close(t, d) \/ gkfs_stat(t, d)
       \/ \E h \in Hosts : \/ rpc_srv_get_dirents_extended(t, h)
                          \/ forward_get_dirents_single(t, h)
       \/ \E n \in Names : GatherEntry(t, n)
       \/ StartGather(t) \/ GatherHost(t) \/ Opened(t) \/ Return(t)
       \/ CloseClear(t) \/ CloseRemove(t)
  \/ \E d \in Dirs, n \in Names : Change(d, n)

Spec == Init /\ [][Next]_vars

-----------------------------------------------------------------------------
(* Entries of a directory are cached only while it is open or being        *)
(* opened: whichever threads open and close it, the last close leaves      *)
(* nothing behind that a later stat could answer from.                     *)
CachedWhileOpen ==
  \A d \in Dirs : d \in ids /\ entries[DirId(d)] # Nothing => InUse(d)

(* A stat may be answered with an old version of the entry, but only with  *)
(* one that was true since the directory was opened, and while nothing of  *)
(* the directory is open or cached it is answered with the truth.          *)
StatIsRecent ==
  \A d \in Dirs, n \in Names :
    get_metadata(d, n) \in IF InUse(d) \/ (d \in ids /\ entries[DirId(d)] # Nothing)
                          THEN truths[d][n] ELSE {daemon[d][n]}

(* opendir returns a descriptor whose list has every entry that was there  *)
(* from its call to its return.                                            *)
ListingWhole ==
  \A t \in Threads : At(t, "opened") => th[t].stayed \subseteq th[t].list
=============================================================================
