----------------------------- MODULE Expansion -----------------------------
(***************************************************************************)
(* Extending a running file system to more daemons.                        *)
(*                                                                         *)
(* The run script appends the end-of-instance marker to the hosts file,    *)
(* starts the new daemons, which add their lines below it, and calls       *)
(* gkfs_malleability three times: start, status until it prints 0,         *)
(* finalize.  Each call sends one RPC to every daemon it finds in the      *)
(* hosts file.  A daemon that is told to start reads the whole hosts file, *)
(* connects to every daemon and creates a thread that sends each metadata  *)
(* entry and each chunk to its new home and then removes its own copy.     *)
(*                                                                         *)
(* A daemon is a number, its rank in the order of (hostname, address)      *)
(* pairs std::sort puts the lines in.  An item is a metadata entry or a    *)
(* chunk.  Host identifiers count from 0.                                  *)
(***************************************************************************)
EXTENDS Integers, FiniteSets, Sequences

CONSTANTS Old,         \* the daemons of the first file system instance
          Growth,      \* sequence of sets: the daemons each expansion adds
          Hostname,    \* daemon -> name of its node, rootdir suffix removed
          Meta,        \* metadata keys other than "/"
          Chunks,      \* chunk files
          FileOf,      \* chunk -> the file whose chunk directory holds it
          HashRange,   \* bound on the hash values
          Operators,   \* further invocations of gkfs_malleability start
          Faults,      \* failures of a lookup, an RPC or a local file operation
          MaxFaults    \* bound on the failures of a behaviour

Added   == UNION {Growth[i] : i \in DOMAIN Growth}
AllDaemons == Old \cup Added
Items   == Meta \cup Chunks
Tools   == {"script"} \cup Operators
Marker  == 0           \* the line "#FS_INSTANCE_END"

ASSUME ExpansionAssumption ==
    /\ AllDaemons \subseteq Nat \ {Marker} /\ IsFiniteSet(AllDaemons)
    /\ Old # {} /\ Growth \in Seq(SUBSET AllDaemons)
    /\ Hostname \in [AllDaemons -> Nat]
    /\ Meta \cap Chunks = {} /\ "none" \notin Items /\ DOMAIN FileOf = Chunks
    /\ HashRange \in Nat \ {0} /\ MaxFaults \in Nat
    /\ "free" \notin Tools

VARIABLES hash,       \* str_hash of each item
          hostsfile,  \* its lines
          stage,      \* expansions begun
          store,      \* daemon -> items it holds
          cdirs,      \* daemon -> files that have a chunk directory there
          maint,      \* maintenance_mode_ of each daemon
          mutex,      \* holder of maintenance_mode_mutex_, or "free"
          redist,     \* redist_running_ of each daemon
          endpoints,  \* rpc_endpoints of each daemon: id -> daemon
          local,      \* local_host_id of each daemon, -1 before the first
          nhosts,     \* hosts_size of each daemon's distributor
          thread,     \* the redistribution thread of each daemon
          call,       \* tool -> daemon -> the RPC being handled
          tool,       \* the run of gkfs_malleability in progress
          overlap,    \* history: a thread was created over a running one
          mishap,     \* history: items with a transfer or removal that reported an error
          nfaults

vars == <<hash, hostsfile, stage, store, cdirs, maint, mutex, redist, endpoints,
          local, nhosts, thread, call, tool, overlap, mishap, nfaults>>
items == <<store, cdirs, mishap>>

NoCall   == [rpc |-> "none", pc |-> "idle", arg |-> 0, err |-> 0]
NoThread == [pc |-> "none", todo |-> {}, item |-> "none", err |-> 0]
EBUSY    == 16
ENOENT   == 2

TypeOK ==
    /\ hostsfile \in Seq(AllDaemons \cup {Marker})
    /\ store \in [AllDaemons -> SUBSET Items] /\ mishap \subseteq Items
    /\ cdirs \in [AllDaemons -> SUBSET {FileOf[c] : c \in Chunks}]
    /\ maint \in [AllDaemons -> BOOLEAN] /\ redist \in [AllDaemons -> BOOLEAN]
    /\ mutex \in [AllDaemons -> Tools \cup {"free"}]
    /\ \A d \in AllDaemons :
          /\ DOMAIN endpoints[d] \subseteq Nat
          /\ nhosts[d] \in 0 .. Cardinality(AllDaemons)
          /\ local[d] \in -1 .. Cardinality(AllDaemons) - 1
          /\ thread[d].pc \in {"none", "created", "meta", "data", "writing",
                               "sent", "done"}
          /\ thread[d].todo \subseteq Items
    /\ \A t \in Tools : tool[t].pc \in {"setup", "start", "status", "finalize",
                                        "wait", "done"}

--------------------------------------------------------------------------
(* Reading the hosts file *)

(* The elements of a set of numbers in increasing order.                   *)
ById(set) ==
    CHOOSE s \in [1 .. Cardinality(set) -> set] :
        \A i, j \in 1 .. Cardinality(set) : i < j => s[i] < s[j]

Lines(lines) == {lines[i] : i \in DOMAIN lines}

(* The script deletes the marker line; the others stay in their order.     *)
WithoutMarker(lines) ==
    LET kept == ById({i \in DOMAIN lines : lines[i] # Marker})
    IN  [k \in DOMAIN kept |-> lines[kept[k]]]

(* MalleableManager::load_hostfile: every line but the marker, sorted.     *)
(* Each daemon has one line.                                               *)
unsorted_hostfile(lines) == WithoutMarker(lines)
load_hostfile(lines) == ById(Lines(lines) \ {Marker})

(* load_hostfile of the client: only the lines above the marker.           *)
client_hostfile(lines) ==
    ById({lines[i] : i \in {j \in DOMAIN lines :
                               \A k \in 1 .. j : lines[k] # Marker}})

(* get_expansion_host_num: <<hosts above the marker, hosts>>, or <<-1, -1>>. *)
get_expansion_host_num(lines) ==
    LET ends == {i \in DOMAIN lines : lines[i] = Marker}
    IN  IF Cardinality(ends) > 1 THEN <<-1, -1>>
        ELSE <<Len(client_hostfile(lines)), Len(load_hostfile(lines))>>

(* SimpleHashDistributor, primary copy: file metadata and chunks alike.     *)
locate(item, n) == hash[item] % n
HomeOf(item, hosts) == hosts[locate(item, Len(hosts)) + 1]

--------------------------------------------------------------------------
(* The tool: gkfs_init reads the hosts file, then one RPC per daemon *)

Targets(t) == {d \in AllDaemons : call[t][d].rpc # "none"}
Answered(t) == \A d \in Targets(t) : call[t][d].pc = "answered"
Errs(t) == {call[t][d].err : d \in Targets(t)}

(* One RPC after the other is posted; the first that cannot be ends the    *)
(* loop with EBUSY, and the daemons from there on get none.                *)
Broadcast(t, rpc, arg) ==
    LET hosts == client_hostfile(hostsfile)
        Listed(d, ids) == \E i \in ids : hosts[i] = d
    IN  \E n \in 0 .. Len(hosts) :
          /\ n < Len(hosts) => "post" \in Faults /\ nfaults < MaxFaults
          /\ nfaults' = nfaults + (IF n < Len(hosts) THEN 1 ELSE 0)
          /\ call' = [call EXCEPT ![t] = [d \in AllDaemons |->
                IF Listed(d, 1 .. n) THEN [rpc |-> rpc, pc |-> "posted", arg |-> arg, err |-> 0]
                ELSE IF Listed(d, n + 1 .. Len(hosts))
                     THEN [rpc |-> rpc, pc |-> "answered", arg |-> arg, err |-> EBUSY]
                     ELSE NoCall]]

(* A request or its answer is lost: handles[i].get() throws.               *)
rpc_lost(t, d) ==
    /\ "rpc" \in Faults /\ nfaults < MaxFaults /\ nfaults' = nfaults + 1
    /\ call[t][d].rpc # "none" /\ call[t][d].pc \in {"posted", "answered"}
    /\ call' = [call EXCEPT ![t][d].pc = "answered", ![t][d].err = EBUSY]
    /\ UNCHANGED <<hash, hostsfile, stage, items, maint, mutex, redist,
                   endpoints, local, nhosts, thread, tool, overlap>>

Gathered(t) == call' = [call EXCEPT ![t] = [d \in AllDaemons |-> NoCall]]

(* main, action "start", expand_start and the sending half of              *)
(* forward_expand_start: nothing is sent when the counts are refused.      *)
expand_start_refused(counts) ==
    \/ counts[1] = -1 \/ counts[1] = counts[2]
    \/ Len(client_hostfile(hostsfile)) # counts[1]

forward_expand_start(t) ==
    LET counts == get_expansion_host_num(hostsfile)
    IN  /\ tool[t].pc = "start"
        /\ IF expand_start_refused(counts)
           THEN /\ tool' = [tool EXCEPT ![t].pc =
                               IF t = "script" THEN "status" ELSE "done"]
                /\ UNCHANGED <<call, nfaults>>
           ELSE /\ Broadcast(t, "expand_start", counts[2])
                /\ tool' = [tool EXCEPT ![t] = [pc |-> "wait", rpc |-> "start"]]
        /\ UNCHANGED <<hash, hostsfile, stage, items, maint, mutex, redist,
                       endpoints, local, nhosts, thread, overlap>>

(* Whatever the first call printed, the script goes on to ask for status.  *)
forward_expand_start_out(t) ==
    /\ tool[t].pc = "wait" /\ tool[t].rpc = "start" /\ Answered(t)
    /\ Gathered(t)
    /\ tool' = [tool EXCEPT ![t].pc = IF t = "script" THEN "status" ELSE "done"]
    /\ UNCHANGED <<hash, hostsfile, stage, items, maint, mutex, redist,
                   endpoints, local, nhosts, thread, overlap, nfaults>>

forward_expand_status ==
    /\ tool["script"].pc = "status"
    /\ Broadcast("script", "expand_status", 0)
    /\ tool' = [tool EXCEPT !["script"] = [pc |-> "wait", rpc |-> "status"]]
    /\ UNCHANGED <<hash, hostsfile, stage, items, maint, mutex, redist,
                   endpoints, local, nhosts, thread, overlap>>

(* The sum of the answers; the script asks again until it is 0 and then    *)
(* removes the marker.                                                     *)
StatusSum == Cardinality({d \in Targets("script") : call["script"][d].err > 0})

forward_expand_status_out ==
    /\ tool["script"].pc = "wait" /\ tool["script"].rpc = "status"
    /\ Answered("script")
    /\ Gathered("script")
    /\ IF StatusSum > 0
       THEN /\ tool' = [tool EXCEPT !["script"].pc = "status"]
            /\ UNCHANGED hostsfile
       ELSE /\ tool' = [tool EXCEPT !["script"].pc = "finalize"]
            /\ hostsfile' = WithoutMarker(hostsfile)
    /\ UNCHANGED <<hash, stage, items, maint, mutex, redist, endpoints, local,
                   nhosts, thread, overlap, nfaults>>

forward_expand_finalize ==
    /\ tool["script"].pc = "finalize"
    /\ Broadcast("script", "expand_finalize", 0)
    /\ tool' = [tool EXCEPT !["script"] = [pc |-> "wait", rpc |-> "finalize"]]
    /\ UNCHANGED <<hash, hostsfile, stage, items, maint, mutex, redist,
                   endpoints, local, nhosts, thread, overlap>>

forward_expand_finalize_out ==
    /\ tool["script"].pc = "wait" /\ tool["script"].rpc = "finalize"
    /\ Answered("script")
    /\ Gathered("script")
    /\ tool' = [tool EXCEPT !["script"].pc =
                   IF stage < Len(Growth) THEN "setup" ELSE "done"]
    /\ UNCHANGED <<hash, hostsfile, stage, items, maint, mutex, redist,
                   endpoints, local, nhosts, thread, overlap, nfaults>>

(* The lines of a set of daemons in the order they start, which is any:    *)
(* each appends its own.                                                   *)
Orders(set) == {s \in [1 .. Cardinality(set) -> set] :
                   \A i, j \in DOMAIN s : i # j => s[i] # s[j]}

(* expand_setup and start_daemons of the script.                           *)
expand_setup ==
    /\ tool["script"].pc = "setup"
    /\ stage < Len(Growth)
    /\ \E order \in Orders(Growth[stage + 1]) :
          hostsfile' = hostsfile \o <<Marker>> \o order
    /\ stage' = stage + 1
    /\ tool' = [tool EXCEPT !["script"].pc = "start"]
    /\ UNCHANGED <<hash, items, maint, mutex, redist, endpoints, local, nhosts,
                   thread, call, overlap, nfaults>>

--------------------------------------------------------------------------
(* The daemon's handlers *)

InCall(t, d, rpc, pc) == call[t][d].rpc = rpc /\ call[t][d].pc = pc
Answer(t, d, err) ==
    call' = [call EXCEPT ![t][d].pc = "answered", ![t][d].err = err]

(* FsData::maintenance_mode(true): setting it twice throws, and the throw  *)
(* leaves the mutex locked.                                                *)
maintenance_mode_unchecked(t, d) ==
    /\ mutex[d] = "free"
    /\ maint' = [maint EXCEPT ![d] = TRUE]
    /\ call' = [call EXCEPT ![t][d].pc = "expand"]
    /\ UNCHANGED mutex
maintenance_mode(t, d) ==
    /\ mutex[d] = "free"
    /\ IF maint[d]
       THEN /\ mutex' = [mutex EXCEPT ![d] = t]
            /\ call' = [call EXCEPT ![t][d].pc = "catch"]
            /\ UNCHANGED maint
       ELSE /\ maint' = [maint EXCEPT ![d] = TRUE]
            /\ call' = [call EXCEPT ![t][d].pc = "expand"]
            /\ UNCHANGED mutex

rpc_srv_expand_start(t, d) ==
    /\ InCall(t, d, "expand_start", "posted")
    /\ maintenance_mode(t, d)
    /\ UNCHANGED <<hash, hostsfile, stage, items, redist, endpoints, local,
                   nhosts, thread, tool, overlap, nfaults>>

(* rpc_endpoints().insert keeps an entry that is already there.            *)
insert_endpoints(old, hosts, ids) ==
    [i \in DOMAIN old \cup ids |->
        IF i \in DOMAIN old THEN old[i] ELSE hosts[i + 1]]
Ids(hosts) == 0 .. Len(hosts) - 1

(* connect_to_hosts visits the hosts in a random order and takes the first *)
(* line with the daemon's node name as the daemon itself.                  *)
LocalIds(d, hosts) ==
    {i \in Ids(hosts) : Hostname[hosts[i + 1]] = Hostname[d]}

connect_to_hosts(d, hosts) ==
    /\ endpoints' = [endpoints EXCEPT ![d] =
                         insert_endpoints(@, hosts, Ids(hosts))]
    /\ \E i \in LocalIds(d, hosts) : local' = [local EXCEPT ![d] = i]

(* A host that four lookups do not find: those before it are inserted, and *)
(* the daemon may have been among them.                                    *)
connect_failed(d, hosts) ==
    /\ "lookup" \in Faults /\ nfaults < MaxFaults
    /\ nfaults' = nfaults + 1
    /\ \E found \in (SUBSET Ids(hosts)) \ {Ids(hosts)} :
          /\ endpoints' = [endpoints EXCEPT ![d] =
                              insert_endpoints(@, hosts, found)]
          /\ IF LocalIds(d, hosts) \cap found = {} THEN UNCHANGED local
             ELSE \E i \in LocalIds(d, hosts) \cap found :
                    local' = [local EXCEPT ![d] = i]

(* MalleableManager::expand_start                                          *)
expand_start(t, d) ==
    LET hosts == load_hostfile(hostsfile)
    IN  /\ InCall(t, d, "expand_start", "expand")
        /\ IF Len(hosts) # call[t][d].arg
           THEN /\ call' = [call EXCEPT ![t][d].pc = "catch"]
                /\ UNCHANGED <<endpoints, local, nhosts, thread, overlap, nfaults>>
           ELSE \/ /\ connect_failed(d, hosts)
                   /\ call' = [call EXCEPT ![t][d].pc = "catch"]
                   /\ UNCHANGED <<nhosts, thread, overlap>>
                \/ /\ connect_to_hosts(d, hosts)
                   /\ nhosts' = [nhosts EXCEPT ![d] = Len(hosts)]
                   /\ thread' = [thread EXCEPT ![d] =
                                    [NoThread EXCEPT !.pc = "created"]]
                   /\ overlap' = (overlap \/ thread[d].pc \notin {"none", "done"})
                   /\ Answer(t, d, 0)
                   /\ UNCHANGED nfaults
        /\ UNCHANGED <<hash, hostsfile, stage, items, maint, mutex, redist, tool>>

(* The catch block of rpc_srv_expand_start calls maintenance_mode(false),  *)
(* which waits for the mutex even when this handler is the one holding it. *)
expand_start_failed(t, d) ==
    /\ InCall(t, d, "expand_start", "catch")
    /\ mutex[d] = "free"
    /\ maint' = [maint EXCEPT ![d] = FALSE]
    /\ Answer(t, d, -1)
    /\ UNCHANGED <<hash, hostsfile, stage, items, mutex, redist, endpoints,
                   local, nhosts, thread, tool, overlap, nfaults>>

rpc_srv_expand_status(t, d) ==
    /\ InCall(t, d, "expand_status", "posted")
    /\ Answer(t, d, IF redist[d] THEN 1 ELSE 0)
    /\ UNCHANGED <<hash, hostsfile, stage, items, maint, mutex, redist,
                   endpoints, local, nhosts, thread, tool, overlap, nfaults>>

rpc_srv_expand_finalize(t, d) ==
    /\ InCall(t, d, "expand_finalize", "posted")
    /\ mutex[d] = "free"
    /\ maint' = [maint EXCEPT ![d] = FALSE]
    /\ Answer(t, d, 0)
    /\ UNCHANGED <<hash, hostsfile, stage, items, mutex, redist, endpoints,
                   local, nhosts, thread, tool, overlap, nfaults>>

--------------------------------------------------------------------------
(* The redistribution thread *)

SetThread(d, th) == thread' = [thread EXCEPT ![d] = th]
NotThread == UNCHANGED <<hash, hostsfile, stage, maint, mutex, endpoints,
                         local, nhosts, call, tool, overlap>>

(* What goes wrong at a step of the thread: nothing, or one of the kinds.  *)
Meets(f, kinds) ==
    /\ f \in (Faults \cap kinds) \cup {"none"}
    /\ f # "none" => nfaults < MaxFaults
    /\ nfaults' = nfaults + (IF f = "none" THEN 0 ELSE 1)
Noted(item, bad) == mishap' = IF bad THEN mishap \cup {item} ELSE mishap

(* expand_abt up to the iterator over the metadata: a RocksDB iterator     *)
(* sees the entries there were when it was made.                           *)
expand_abt(d) ==
    /\ thread[d].pc = "created"
    /\ redist' = [redist EXCEPT ![d] = TRUE]
    /\ SetThread(d, [NoThread EXCEPT !.pc = "meta",
                                     !.todo = store[d] \cap Meta])
    /\ UNCHANGED <<items, nfaults>> /\ NotThread

(* One turn of the loop of redistribute_metadata or redistribute_data.     *)
SkipsNone(d, item) == FALSE
Skips(d, item) == locate(item, nhosts[d]) = local[d]

Dest(d, item) == endpoints[d][locate(item, nhosts[d])]

skip_item(d) ==
    /\ thread[d].pc \in {"meta", "data"}
    /\ \E i \in thread[d].todo :
          /\ Skips(d, i)
          /\ SetThread(d, [thread[d] EXCEPT !.todo = @ \ {i}])
    /\ UNCHANGED <<items, redist, nfaults>> /\ NotThread

(* A chunk file that cannot be opened or read is passed over.              *)
skip_unreadable(d) ==
    /\ thread[d].pc = "data" /\ "open" \in Faults
    /\ \E i \in thread[d].todo :
          /\ ~Skips(d, i) /\ Meets("open", {"open"}) /\ Noted(i, TRUE)
          /\ SetThread(d, [thread[d] EXCEPT !.todo = @ \ {i}])
    /\ UNCHANGED <<store, cdirs, redist>> /\ NotThread

Sending(d, i, pc, err) ==
    SetThread(d, [pc |-> pc, todo |-> thread[d].todo \ {i}, item |-> i, err |-> err])

(* forward_metadata with rpc_srv_migrate_metadata on the other side.  The  *)
(* request may not arrive, or the answer to it may not.                    *)
forward_metadata(d) ==
    /\ thread[d].pc = "meta"
    /\ \E i \in thread[d].todo, f \in {"none", "send", "reply"} :
          /\ ~Skips(d, i) /\ Meets(f, {"send", "reply"}) /\ Noted(i, f # "none")
          /\ store' = IF f = "send" THEN store
                      ELSE [store EXCEPT ![Dest(d, i)] = @ \cup {i}]
          /\ Sending(d, i, "sent", IF f = "none" THEN 0 ELSE EBUSY)
    /\ UNCHANGED <<cdirs, redist>> /\ NotThread

(* forward_data: a write RPC for the one chunk, for which the receiver     *)
(* makes the chunk directory of the file.  Its bitset is a pointer into a  *)
(* string that is destroyed before the RPC is sent ("bitset"): the         *)
(* receiver may find the bit of the chunk unset, writes nothing and        *)
(* reports no error.                                                       *)
forward_data(d) ==
    /\ thread[d].pc = "data"
    /\ \E i \in thread[d].todo, f \in {"none", "send", "bitset"} :
          /\ ~Skips(d, i) /\ Meets(f, {"send", "bitset"}) /\ Noted(i, f = "send")
          /\ IF f = "none"
             THEN /\ cdirs' = [cdirs EXCEPT ![Dest(d, i)] = @ \cup {FileOf[i]}]
                  /\ Sending(d, i, "writing", 0)
             ELSE /\ UNCHANGED cdirs
                  /\ Sending(d, i, "sent", IF f = "send" THEN EBUSY ELSE 0)
    /\ UNCHANGED <<store, redist>> /\ NotThread

(* write_chunk on the receiver opens the chunk file in that directory,     *)
(* which its own thread may have found empty and removed meanwhile.        *)
write_chunk(d) ==
    LET i == thread[d].item
    IN  /\ thread[d].pc = "writing"
        /\ \E f \in {"none", "reply"} :
             /\ Meets(f, {"reply"})
             /\ IF FileOf[i] \in cdirs[Dest(d, i)]
                THEN /\ store' = [store EXCEPT ![Dest(d, i)] = @ \cup {i}]
                     /\ Noted(i, f = "reply")
                     /\ Sending(d, i, "sent", IF f = "reply" THEN EBUSY ELSE 0)
                ELSE /\ UNCHANGED store /\ Noted(i, TRUE)
                     /\ Sending(d, i, "sent", IF f = "reply" THEN EBUSY ELSE ENOENT)
        /\ UNCHANGED <<cdirs, redist>> /\ NotThread

(* The source's copy is removed whether or not the migration succeeded,    *)
(* and the chunk directory with its last chunk.  An error of the removal   *)
(* is logged.                                                              *)
remove_migrated(d) ==
    LET i == thread[d].item
        rest == store[d] \ {i}
    IN  /\ thread[d].pc = "sent"
        /\ \E f \in {"none", "remove"} :
             /\ Meets(f, IF i \in Chunks THEN {"remove"} ELSE {}) /\ Noted(i, f # "none")
             /\ IF f = "none"
                THEN /\ store' = [store EXCEPT ![d] = rest]
                     /\ cdirs' = IF i \in Meta \/ \E c \in rest \cap Chunks : FileOf[c] = FileOf[i]
                                 THEN cdirs ELSE [cdirs EXCEPT ![d] = @ \ {FileOf[i]}]
                ELSE UNCHANGED <<store, cdirs>>
        /\ SetThread(d, [NoThread EXCEPT !.pc = IF i \in Meta THEN "meta" ELSE "data",
                                         !.todo = thread[d].todo])
        /\ UNCHANGED redist /\ NotThread

(* redistribute_metadata is over: redistribute_data opens the chunk        *)
(* directory.  Chunks that arrive meanwhile belong here and would be       *)
(* skipped.                                                                *)
redistribute_data(d) ==
    /\ thread[d].pc = "meta" /\ thread[d].todo = {}
    /\ SetThread(d, [NoThread EXCEPT !.pc = "data",
                                     !.todo = store[d] \cap Chunks])
    /\ UNCHANGED <<items, redist, nfaults>> /\ NotThread

expand_abt_done_silent(d) ==
    /\ thread[d].pc = "data" /\ thread[d].todo = {}
    /\ SetThread(d, [NoThread EXCEPT !.pc = "done"])
    /\ UNCHANGED <<items, redist, nfaults>> /\ NotThread
expand_abt_done(d) ==
    /\ thread[d].pc = "data" /\ thread[d].todo = {}
    /\ redist' = [redist EXCEPT ![d] = FALSE]
    /\ SetThread(d, [NoThread EXCEPT !.pc = "done"])
    /\ UNCHANGED <<items, nfaults>> /\ NotThread

--------------------------------------------------------------------------
(* Before the first expansion every item is where clients look for it.     *)
Init ==
    /\ hash \in [Items -> 0 .. HashRange - 1]
    /\ hostsfile \in Orders(Old)
    /\ stage = 0
    /\ store = [d \in AllDaemons |->
                   {i \in Items : HomeOf(i, client_hostfile(hostsfile)) = d}]
    /\ cdirs = [d \in AllDaemons |-> {FileOf[c] : c \in store[d] \cap Chunks}]
    /\ maint = [d \in AllDaemons |-> FALSE]
    /\ mutex = [d \in AllDaemons |-> "free"]
    /\ redist = [d \in AllDaemons |-> FALSE]
    /\ endpoints = [d \in AllDaemons |-> <<>>]
    /\ local = [d \in AllDaemons |-> -1]
    /\ nhosts = [d \in AllDaemons |-> 0]
    /\ thread = [d \in AllDaemons |-> NoThread]
    /\ call = [t \in Tools |-> [d \in AllDaemons |-> NoCall]]
    /\ tool = [t \in Tools |-> [pc |-> IF t = "script" THEN "setup" ELSE "start",
                                rpc |-> "none"]]
    /\ overlap = FALSE /\ mishap = {}
    /\ nfaults = 0

Script == \/ expand_setup
          \/ forward_expand_status \/ forward_expand_status_out
          \/ forward_expand_finalize \/ forward_expand_finalize_out

Start(t) == forward_expand_start(t) \/ forward_expand_start_out(t)

Handle(t, d) == \/ rpc_srv_expand_start(t, d) \/ expand_start(t, d)
                \/ expand_start_failed(t, d)
                \/ rpc_srv_expand_status(t, d) \/ rpc_srv_expand_finalize(t, d)

Thread(d) == \/ expand_abt(d) \/ skip_item(d) \/ skip_unreadable(d)
             \/ forward_metadata(d) \/ forward_data(d) \/ write_chunk(d) \/ remove_migrated(d)
             \/ redistribute_data(d) \/ expand_abt_done(d)

Finished == /\ \A t \in Tools : tool[t].pc = "done"
            /\ \A d \in AllDaemons : thread[d].pc \in {"none", "done"}

Next == \/ Script
        \/ \E t \in Tools : Start(t)
        \/ \E t \in Tools, d \in AllDaemons : Handle(t, d) \/ rpc_lost(t, d)
        \/ \E d \in AllDaemons : Thread(d)
        \/ Finished /\ UNCHANGED vars

Spec == Init /\ [][Next]_vars

(* The tool is a process of its own, Argobots runs every handler and the   *)
(* thread of every daemon that can go on.                                  *)
FairSpec == /\ Spec
            /\ WF_vars(Script)
            /\ \A t \in Tools : WF_vars(Start(t))
            /\ \A t \in Tools, d \in AllDaemons : WF_vars(Handle(t, d))
            /\ \A d \in AllDaemons : WF_vars(Thread(d))

--------------------------------------------------------------------------
(* Every metadata entry and every chunk is on some daemon at every moment  *)
(* of an expansion: redistribute_metadata and redistribute_data remove     *)
(* what they have sent, while other daemons send to this one and the chunk *)
(* directories they empty are removed.  Only an item whose transfer was    *)
(* reported to have failed may be missing.                                 *)
NothingLost == \A i \in Items \ mishap : \E d \in AllDaemons : i \in store[d]

(* Once the threads of an expansion have ended, each item is on the daemon *)
(* a client that reads the new hosts file asks for it, and on no other:    *)
(* daemons and clients sort the same lines and compute the same place.     *)
(* Items with a reported error are left out.                               *)
Settled == /\ stage > 0 /\ ~overlap
           /\ \A d \in Old \cup UNION {Growth[i] : i \in 1 .. stage - 1} :
                 /\ thread[d].pc = "done"
                 /\ nhosts[d] = Len(WithoutMarker(hostsfile))
MigrationComplete ==
    Settled => \A i \in Items \ mishap :
                  {d \in AllDaemons : i \in store[d]} =
                      {HomeOf(i, client_hostfile(WithoutMarker(hostsfile)))}

(* maintenance_mode admits one expansion at a time: until the expansion is *)
(* finalized a start request that comes while a daemon migrates never      *)
(* creates a second thread there.                                          *)
OneMigrationAtATime == overlap => tool["script"].rpc = "finalize"

(* An expansion comes to its end: status reaches 0 and finalize is         *)
(* answered, whatever the order in which the daemons migrate.              *)
ExpansionEnds == <>(tool["script"].pc = "done")

-----------------------------------------------------------------------------
(* Statements of the repository that the code does not meet: TLC refutes   *)
(* each of those below (README, "Disagreements").                          *)

(* "remove file after migration": an item that could not be sent is kept.  *)
(* A failed transfer, or the chunk directory that the receiver removes     *)
(* under it, leaves no copy.                                               *)
NeverLost == \A i \in Items : \E d \in AllDaemons : i \in store[d]

(* When the script reports "Expansion done." a client that starts then     *)
(* finds every item on the daemon it asks.                                 *)
Reachable(i) == i \in store[HomeOf(i, client_hostfile(hostsfile))]
ReadyWhenDone == tool["script"].pc = "done" => \A i \in Items : Reachable(i)

(* Every expand_start request is answered, with an error when an expansion *)
(* is already under way.                                                   *)
StartIsAnswered ==
    \A t \in Tools, d \in AllDaemons :
        InCall(t, d, "expand_start", "posted")
            ~> call[t][d].pc \in {"answered", "idle"}
=============================================================================
