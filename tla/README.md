# GekkoFS in TLA+

GekkoFS is a temporary distributed file system for HPC jobs.  A client library
intercepts the system calls of an application and turns them into RPCs; one
daemon per node serves them.  There is no central server and no lock: the hash
of a path names the daemon that holds its metadata, and the hash of a path and a
chunk number names the daemon that holds a piece of its data.  What makes the
system correct is therefore the order in which handlers touch the key-value
store and the chunk files of a daemon, the order in which a client sends its
RPCs, and what each side makes of a failure.  This project models that, from
the source under `src/`.

## The parts of the system

| part | code | modules | checked by run |
|---|---|---|---|
| one key of the metadata store | `daemon/backend/metadata/`, `common/metadata.cpp` | `MergeLog`, `MetadataKey`, `MetadataEntry`, `MetadataText` | `formats` |
| metadata handlers of a daemon | `daemon/handler/srv_metadata.cpp`, `daemon/ops/metadentry.cpp` | `MetadataStore` (handlers interleaved), `MetadataRpc` (handlers as operators) | `store`, `namespace` |
| data handlers, chunk files, client data RPCs | `daemon/handler/srv_data.cpp`, `daemon/ops/data.cpp`, `chunk_storage.cpp`, `client/rpc/forward_data.cpp` | `ChunkLayout`, `DataPath`, `ChunkBitset` | `data`, `formats`, `progress` |
| client metadata operations and RPCs | `client/gkfs_functions.cpp`, `client/rpc/forward_metadata.cpp` | `Namespace`, `Names` | `namespace`, `progress` |
| directory listings | `srv_metadata.cpp`, `forward_metadata.cpp`, `gkfs_getdents` | `DirEntries` | `formats`, `progress` |
| open files and positions | `client/open_file_map.cpp`, `client/hooks.cpp` | `OpenFileMap` | `client`, `progress` |
| client caches | `client/cache.cpp` and its users | `SizeCache`, `DentryCache` | `client` |
| descriptors of the library | `client/preload_context.cpp`, `client/intercept.cpp` | `Descriptors` | `client` |
| paths, working directory | `client/path.cpp`, `common/path_util.cpp` | `PathResolution`, `WorkingDirectory` | `client` |
| message formats and registrations | `*/rpc/rpc_types.*`, registration lists of client, daemon, proxy | `RpcTypes`, `RpcCalls` | `formats` |
| proxy | `src/proxy/`, `client/rpc/*_proxy.cpp` | `Proxy`, `ProxyLife` | `data`, `service`, `progress` |
| daemon start, end, hosts file | `daemon/daemon.cpp`, `daemon/util.cpp` | `DaemonLife` | `service`, `progress` |
| client start, host discovery | `client/preload.cpp`, `preload_util.cpp` | `ProxyLife` | `service`, `progress` |
| expansion | `daemon/malleability/`, `srv_malleability.cpp`, `fs_data.cpp`, `client/malleability.cpp` | `Expansion` | `namespace`, `progress` |

`PROJECT.json` lists every part with its sources, the source lines each
definition stands for, and the hazards of the code with the properties that
cover them.  Options that are off by default but modelled: rename, write size
cache, directory entry cache, replicas, the legacy path resolution.

## The runs

A model module such as `MCData` holds several *parts*.  A part is an instance of
a module with bounds of its own; the variable `part` says which one a behaviour
is about, and a property of the run is `part = "x" => X!Property` for the parts
it concerns.  So one run answers one question about the system (is file data
right? does everything end?) on several small instances.  Where there are proofs
about a module, one part has the variables of that module and the constants of
the configuration, and the run checks the very definitions the theorems name;
the other parts leave these variables in their first state.

| run | module | properties | question |
|---|---|---|---|
| `store` | `MCMetadataStore` | `StoreInv` `AppendInv` `AppendGetsItsOffset` `DisjointAppends` `AckedSizeVisible` `KeptUnlessReplaced` | what concurrent handlers may do to a key |
| `formats` | `MCFormats` | `RoundTrip` `CallsArrive` `ListingsArrive` `ImplementsMergedKey` | what is written in one form and read back in another |
| `data` | `MCData` | `BytesInPlace` `LastWriteStored` `SizeCoversData` `TruncateToZeroEmpties` `TruncateKeepsHead` `AckedOnACopy` `PiecesInPlace` `DataIsLatest` `NoFalseSuccess` | file data, directly and through a proxy |
| `namespace` | `MCNamespace` | `StrictHierarchy` `RemovedLeavesNoData` `LookupsComplete` `RefinesNames` `NothingLost` `MigrationComplete` `OneMigrationAtATime` | metadata calls, RPC by RPC; where entries and chunks are when daemons join |
| `client` | `MCClient` | `SizesAccounted` `FlushedOrUnderWay` `SizesMatchWrites` `DentriesCurrent` `DescriptorsNameTheirFile` `PositionIsExact` `DescriptorsApart` `PathsLeadThere` | what a client process keeps |
| `service` | `MCService` | `ListedDaemonsServe` `DaemonsComplete` `PidFileNamesServer` `ClientsConfigured` | starts and restarts |
| `progress` | `MCProgress` | `CallsReturn` `StartsEnd` | what has to happen in the end |

Five more runs end in a violation; they are described with `MetadataStore`.
Deadlock is not checked in runs whose behaviours end when the bound on calls is
reached and nothing is left to do.

## One key: `MetadataEntry`, `MergeLog`, `MetadataKey`

RocksDB keeps for a key an optional base value and the merge operands written
since (create, increase size, append, decrease size).  `FullMergeV2` folds them
on every read, and again in the background (flush, compaction, or a write past
`max_successive_merges`).  A fold has a side effect: for each append operand it
stores the size so far in the map `append_offset_reserve_`, under the merge id
of the operand, where the handler picks it up.

* `MergeLog` models this as it is: `base`, `ops`, `reserve`; `FullMergeV2` as a
  fold over the operands; one action per `RocksDBBackend` operation, and
  `compact(k)`, RocksDB folding any prefix at any time.
* `MetadataEntry` is the merged form of a key: kind and size after all operands,
  and the list `pend` of append operands that a fold would report again, each
  with its offset.  `broken` is a key whose first operand is not a creation:
  every fold of it throws.
* `MetadataKey` is the abstract machine over that form.

Part `log` of run `formats` checks `MergeLog => MetadataKey` (property
`ImplementsMergedKey`, refinement mapping `MergedEntry`).  It is what justifies
using the merged form in `MetadataStore`.  Bounds: two merge ids, sizes 1 and 2,
appends up to size 2, at most three operands in the log; enough for two appends
with a decrease, increase or second creation before, between or behind them, a
fold that splits them, and folds that repeat.  The same model with size 0 as well
(271,262 states) also passes, but takes 25 minutes and is not kept as a run.

Deviations: a fold of a broken key in the background would throw inside a
RocksDB thread; this is not modelled (such a key is only read by handlers).
`use_mtime` is false, so time operands are never written.  The text form of an
operand and of a value is abstracted to a record.

`MetadataText` (part `text`) is the text form left out there: a `Metadata`
object written with the separator `|` between its fields and parsed again, with
two of the optional fields configured, by handlers that read, change and
store an entry again and again.  `RoundTrip`: every field survives, for paths
that do not contain the separator.

## The metadata of a daemon: `MetadataStore`

Handlers run as Argobots threads on several execution streams.  They share the
store, the reservation map (with a mutex around each access) and the chunk
directories; nothing is held across two accesses.  So each access is a step:

| action | code |
|---|---|
| `create_exists`, `create_put` | `rpc_srv_create` → `put_no_exist_impl`: `exists`, then `put` |
| `stat` | `rpc_srv_stat`, `rpc_srv_get_metadentry_size` |
| `decr_size` | `rpc_srv_decr_size` → `decrease_size_impl` |
| `update_size` | `rpc_srv_update_metadentry_size`, not append |
| `append_merge`, `append_force_merge`, `append_take_offset` | the same for an append: the three accesses of `increase_size_impl` |
| `remove_get`, `remove_delete`, `remove_destroy` | `rpc_srv_remove_metadata`: read, delete, implicit data removal |
| `update_get`, `update_overwrite` | `rpc_srv_update_metadentry`, `rpc_srv_mk_symlink`: read, change, write back |
| `write_chunk`, `remove_data` | a write creating the chunk directory; `rpc_srv_remove_data` |
| `compact` | RocksDB folding in the background |

`pc`, `req` and `reply` are the handlers' control state; a handler serves one
RPC and stops, which is why deadlock is not checked.  Three history variables
carry what the properties speak about: `grant` (the size of the file when an
append's operand entered the log), `live` (RPCs that created or grew a file
which has not been removed, truncated or overwritten since), and `peak`, the
largest size a path ever had.  `peak` stands for what clients may remember: a
request is decided on metadata read before, so a client may write to any path
that once existed and truncate to anything below a size it once had.  Reads fold
the key atomically with storing the reservations.  The `assert` in
`FullMergeV2` is modelled as compiled out; `DecreaseShrinks` states it.

`UniqueIds` is the assumption that `gen_unique_id` returns no id that an append
in progress, an unfolded operand or the map still holds.

### Checked

Run `store` (4 RPCs of any kind, one path, three merge ids, sizes 0 and 1,
symmetric in RPCs and ids; `UniqueIds`).  One path is enough because keys only
interact through merge ids; four RPCs allow two appends with a third handler
reading or removing and a fourth creating.

* `AppendGetsItsOffset`: an acknowledged append got the size at which its
  operand entered the log, or nothing, and nothing only if the path was replaced
  in between.
* `DisjointAppends`: acknowledged appends never overlap.
* `AckedSizeVisible`: what an acknowledged size update covered stays inside the
  file until it is removed, truncated or overwritten.
* `KeptUnlessReplaced`: no other step shrinks a file or changes its kind; in
  particular the loser of two racing creations changes nothing.
* The inductive invariants `StoreInv` and `AppendInv` of the proofs; the first
  contains `TypeOK`.

Five runs end in a violation: what a comment or an assertion of the code says
does not hold under concurrency.

| run | statement | what happens |
|---|---|---|
| `store_exclusive_create` | `EEXIST` if the object exists | both of two racing creations are acknowledged |
| `store_id_reuse` | unique merge ids give safe write intervals | two appends with the same 16-bit id get the same offset |
| `store_late_size_update` | the first operand of a key is a creation | a size update arriving after the removal leaves a key that can neither be read, created nor removed |
| `store_truncate_race` | `assert(op.size() < fsize)` | two truncates decided on the same size |
| `store_remove_race` | data is not removed while metadata exists | a path is created and written again before the implicit data removal |

### Proved

`MetadataStore_proofs` proves for any sets of RPCs, paths and ids and any sizes in
`Nat` what follows.  It has the lemmas about folds, merged entries and types, the
frame of a step and the invariant of the store, and last what needs `UniqueIds`.

* `StoreCorrect`: `Spec => []StoreInv`.  `StoreInv` is `TypeOK`, the
  correspondence of a handler's step and the operation it serves, `Covered` (a
  live RPC's range lies inside its file) and `GrantsDisjoint`.  Granted
  intervals are disjoint because a new grant starts at the size of the file,
  and every earlier live grant ends inside it; so `Covered` is what makes
  `GrantsDisjoint` inductive.
* `AppendCorrect`, with `UniqueIds`: `Spec => []AppendInv`.  While an append is
  in progress, whatever the map or an unfolded operand holds under its id is its
  grant, and while it is live one of the two does hold it.  Reads, folds in the
  background, other appends and removals are shown to keep this one by one.
* `TypeCorrect`, `KeptCorrect`, `OffsetCorrect`, `DisjointCorrect`,
  `VisibleCorrect`: the properties above, from these invariants.

The argument about a step goes through a frame: a step either folds in the
background or belongs to one handler and one path (`NextFrame`), and then keeps
the file, joins the live RPCs, or replaces the file.  The assumptions are
`StoreAssumption` (sizes are natural numbers) and, where stated, `UniqueIds`.

That the merged entry is what RocksDB's log gives (`ImplementsMergedKey`) is
only model-checked: it is a statement about a fold over the log, and needs
induction over sequences.

## Data: `ChunkLayout`, `ChunkBitset`, `DataPath`

`ChunkLayout` has the arithmetic of a request as operators: how the client cuts
a byte range into chunks and groups them by host, and how a daemon walks the
interval it is sent and recomputes, from a few numbers, where each piece lies in
the client's buffer and in the chunk file.  `ChunkBitset` is the bit vector that
tells a daemon which chunks of the interval are its own, with its base64 text.

`DataPath` has the calls of clients on one file.  A call is a record: its kind,
the round of RPCs it is in, what was posted, what came back.  `BeginWrite`
updates the size on the metadata server first; `Send` posts a round (copy 0, then
the other copies); `Daemon` runs one tasklet for one chunk file, in any order and
interleaved with those of other requests; `Gather` waits for the answers in turn.
A tasklet may fail, an answer may be lost, a post may fail; a call that cannot
post returns and leaves what it posted before running (`loose`).  A read with
replicas that failed with EIO draws another copy and is made again.  A stored
byte is the number of the operation that wrote it, so that "whose byte is this"
is a question about the state.

| part | instance |
|---|---|
| `path` | two clients, two copies on three daemons, two overlapping unaligned ranges, truncations, two calls, one failing tasklet, answer or post |
| `shared` | two clients, no copies, the same ranges, truncations to 0 and 1, three calls |
| `layout` | one client, every range in seven bytes, two calls |
| `copies` | two copies on three daemons, two failing tasklets or lost answers |
| `posts` | one failing post, three calls |
| `reread` | three copies on three daemons, one failure of any kind |
| `proxied`, `metadata` | two clients of a proxy, one failure of any kind (below) |

Chunks have two bytes; the host of every chunk is chosen freely in the first
state.  The first chunk is on daemon 0: copies go round from the host of a chunk
(`locate_data`), so turning the numbers of the daemons turns a behaviour into
another, and all placements are covered.  The two clients run the same calls and
are interchangeable (`ClientSymmetry`).  Seven bytes are four chunks: first,
last, both, neither, for an aligned and an unaligned start and end.

* `BytesInPlace` (part `path`), `PiecesInPlace` (the others): every piece is taken
  from the place in the buffer where the client has it, and goes to the place in
  the chunk where the file has it, on a host the distributor names.
* `LastWriteStored` (part `path`), `DataIsLatest` (the others, and `ReadIsFresh`):
  a read never returns an older byte than the writes that were complete when it
  began; when all is quiet a stored byte is from the last write or from a failed
  one.  A replicated write reports success when one of its two rounds did, and the
  copies it missed are *behind* (history variable `behind`, pairs of host and
  offset) until a later write reaches them.  A byte from a copy that is behind is
  the one exception (Disagreements).
* `SizeCoversData`: no byte is on a daemon beyond the size on the metadata server.
* `TruncateToZeroEmpties`: a truncation to 0 leaves no chunk.
  `TruncateKeepsHead`: no truncation touches a byte below the new length.
* `AckedOnACopy` (part `path`), `NoFalseSuccess` (the parts with failures): a write
  that returns success is complete on the copies taken together, also when a
  tasklet, an answer or a post of either round fails; what fails at a daemon is an
  error for the client of a proxy.

Left out: a size update that a daemon answers with an error, after which a write
goes on as if it had been taken (`forward_metadata.cpp:584`; `SizeCache` has it), and
of the proxy's answer to a listing the bulk transfer that cannot be set up
(`proxy/rpc/srv_metadata.cpp:212`).

`Proxy` has every operation that goes through a proxy: the client posts to the
proxy, whose handler forwards to one daemon or several, waits for all and
answers.  Proxied I/O carries no bit vector, so the daemon asks the distributor
which chunks are its own.

## Names: `MetadataRpc`, `Namespace`, `Names`

`MetadataRpc` has the metadata handlers as operators on a key-value store.
`Namespace` has the client's calls (open, create, mkdir, stat, remove, rmdir,
rename, opendir, write of a size) as programs: `pc`, the entry read last, the
copy being asked, and the label where a called function returns to.  One action
is one RPC or one decision; clients interleave between them.  A request or an
answer may be lost, which the client sees as an exception.

`Names` is what a user expects: a name stands for one file or for none.  The
refinement mapping `view`, taken whenever the client is between two calls,
follows the chains of targets and hides the entries renamed away.

| part | instance | property |
|---|---|---|
| `names` | one client, five calls, renames in chains and back | `RefinesNames` |
| `tree` | one client, a replica, two lost messages, parents checked | `StrictHierarchy` |
| `removal` | one client, three daemons, a replica, six calls, files of several chunks | `RemovedLeavesNoData` |
| `renamed` | the same without copies, since rename does not support replication; five calls | `RemovedLeavesNoData` |
| `replica` | two clients, four calls that create, remove and look up one name, one lost message | `LookupsComplete` (a stat finds what was created) |
| `listing` | two clients, one lists while the other changes names | `LookupsComplete` (a listing has what was there all the time) |
| `expand` | a daemon joins two, one failure of any kind | `NothingLost` `MigrationComplete` (with `Expansion`, below) |
| `operators` | the same, asked for by two operators | `OneMigrationAtATime` |

`StrictHierarchy` and `RefinesNames` are claimed for one client at a time; with
two the code does not keep them.  `OneFailureHidden`, the first half of
`LookupsComplete`, is claimed where nothing is renamed (see Disagreements).
Four calls are enough there for a creation that misses a copy, a removal and a
second creation before the lookup.  Clients of one part run the same calls and
are interchangeable.

`DirEntries` follows entries from the daemon's three-array buffer through the
list of the client to the records of `getdents`, byte by byte, with names of
every length that matters for the padding.  `ListingsArrive`: each entry arrives
once and in order; two threads that share a descriptor miss none between them.

## Messages: `RpcTypes`, `RpcCalls`

Every RPC as the client's class, the C struct and the registration lists of
client, daemon and proxy have it.  Integers are scaled to 4 and 8 bits (`M32`,
`M64`), so that every conversion of width or sign is met at its boundary.
`CallsArrive`: no call is refused, the right handler sees the caller's values,
and the caller the handler's.

## A client process

| part | module | instance | property |
|---|---|---|---|
| `cache`, `direct` | `SizeCache` | two threads, two copies, four (three) calls, failing updates; with and without the cache | `SizesAccounted` `FlushedOrUnderWay` `SizesMatchWrites` |
| `dentries` | `DentryCache` | two daemons, two threads that open, close, stat while others change entries | `DentriesCurrent` |
| `table` | `OpenFileMap` | numbers 4 to 6, of which two are open at a time; nine calls, so that the counter starts again and comes back to a number in use | `DescriptorsNameTheirFile` |
| `position` | `OpenFileMap` | every call that uses a position; three calls | `PositionIsExact` |
| `descriptors`, `early` | `Descriptors` | two threads of the library, six (five) opens; in `early` the second thread runs during the start | `DescriptorsApart` |
| `cwd` | `WorkingDirectory` | two processes, one executed by the other; arguments of three components | `PathsLeadThere` |
| `paths` | `PathResolution` | all paths of up to five components | `PathsLeadThere` |

Each critical section of the code is one action, and threads interleave between
them.  `SizesAccounted`: when no update is counted and none is under way, a
daemon has the size of all writes, or an error was reported.
`FlushedOrUnderWay`: when fsync or close returns 0, a daemon has the size, or
another thread is sending it.  The weaker second case is what the code gives: it
clears the count before it sends.

`DescriptorsNameTheirFile` has one exception, a number that an open has generated
and not yet inserted when a close of another thread empties the table and clears
`fd_validation_needed` (`unguarded`).  In `DescriptorsApart` the close of an
application is two steps, the test of `gkfs_close` and the call of the kernel in
`hook_close`; a number that the library takes in between is hit by it (`late`), and
nothing else is.  In part `early` only the application's descriptors are claimed
to be untouched.  Both exceptions are under Disagreements.  `PathsLeadThere` compares both resolutions
with a plain walk of the tree (`Walk`, `Lexical`).

## Processes: `DaemonLife`, `ProxyLife`, `Expansion`

`DaemonLife` goes through `main` of a daemon step by step; any step may fail, a
daemon may be killed, and it starts again on the directories it left.  Removing a
directory takes time: a daemon that fails or is killed meanwhile leaves any part
of it, and `torn` remembers the daemons that have metadata and not its data.  The
end is the steps of `destroy_enviroment` in their order: streams joined, hosts file
removed, server and stores shut down, directories removed.
`ProxyLife` has proxies and clients of a node: the pid file, the hosts file, the
request for the configuration.  `Expansion` has the run script, the tool with its
three RPCs, maintenance mode with its mutex, and the threads that move keys and
chunks; the hash of each item is chosen in the first state.  It is the module of
parts `expand` and `operators` of run `namespace`: daemon 1 joins 2 and 3, so that
all are numbered anew and the two old daemons send to each other and to the new
one.  The two chunks belong to one file, whose chunk directory a thread removes
with its last chunk, also while another daemon is about to write there.  One of
these fails: a lookup, a post or an RPC of the tool, a transfer or its answer,
opening or removing a chunk file.  In `operators` nothing fails and a second
operator asks for the same expansion.  An error of RocksDB in a migrating thread,
which nothing catches, is not modelled.

* `NothingLost`: at no time is an entry or a chunk without a copy, unless its
  transfer reported an error (`mishap`): the code removes it all the same.
* `MigrationComplete`: when the threads have ended, every item without such an
  error is on the daemon where clients look for it, and on no other.
* `OneMigrationAtATime`: maintenance mode keeps a second expansion out until the
  first is finalized.

| part | instance | property |
|---|---|---|
| `hosts` | two daemons that start twice, one failure of any kind | `ListedDaemonsServe` |
| `lines` | the same daemons, five lost lines | `DaemonsComplete` |
| `clean` | one daemon, three starts, any command line, two failures or kills at any step | `DaemonsComplete` |
| `node` | two proxies, two clients, one failure, one restart of the daemons | `PidFileNamesServer`, `ClientsConfigured` |
| `config` | three daemons of which any may be dead | `ClientsConfigured` |

* `ListedDaemonsServe`: a line of the hosts file names a daemon whose server,
  stores and root entry are there, and that has its I/O streams, unless it was
  killed.  Between joining its streams and removing the file an ending daemon is
  listed and has no streams; that state is excepted for the streams only.
* `DaemonsComplete`: a serving daemon has the data of every file it has metadata
  of, whatever was cleaned, and `ListedDaemonsServe` for every layout and when
  registering gives up.  Excepted is a daemon started without cleaning on what an
  interrupted removal left.

## Progress

`MCProgress` has eight small instances with fairness.  Fair, and only weakly, are
the steps code takes by itself: a thread inside a call goes on, a daemon runs
the tasklets it has, a client gathers the answers it waits for, a process gets
on with its start, Argobots runs handlers and threads that can run.  No call, no
signal, no failure and no restart is fair.  For directories it is also assumed
that the application reads on until 0 is returned.  A behaviour stays in its
part, so one fairness condition stands for the first process of every part, one
for the second, and so on.  The first chunk is on daemon 0, as in run `data`.

* `CallsReturn`: reads, writes and truncations return with one failure of any
  kind; so does every operation through a proxy, every call on a descriptor (the
  lock of the table is given back on every path), every metadata call but rename;
  a directory is read to its end.
* `StartsEnd`: daemons, proxies and clients get through their start or end, and
  the script of an expansion ends.

A read is checked with three copies and one failure, because with fewer copies or
more failures it may draw for ever.  Renames are left out of `CallsReturn`,
because two clients can make a chain that leads back to itself.

## Proofs

The modules with theorems are those whose names end in `_proofs`, and those that
continue one of them: `DataPath_calls` and `DataPath_theorems`, `Namespace_copies`.
`Processes_proofs` has the theorems about `DaemonLife`, `SizeCache` and, as the
instance `Node`, `ProxyLife`.

| theorem | says | rests on |
|---|---|---|
| `StoreCorrect`, `TypeCorrect`, `KeptCorrect` | `StoreInv`, `TypeOK`, `KeptUnlessReplaced` | `StoreAssumption` |
| `AppendCorrect`, `OffsetCorrect`, `DisjointCorrect`, `VisibleCorrect` | `AppendInv` and the append properties | `StoreAssumption`, `UniqueIds` |
| `AccountedCorrect`, `FlushCorrect` | `SizesAccounted`, `FlushedOrUnderWay` | `SizeCacheAssumption`, `"error" \notin Failures` |
| `ListedCorrect`, `CleanedCorrect` | `ListedDaemonsServe`, `MetadataHasItsData` (in `DaemonsComplete` of the run) | `DaemonLifeAssumption` |
| `PidFileCorrect` | `PidFileNamesServer` | none on the number of proxies or restarts |
| `HostsCorrect`, `RetriesCorrect` | `ClientsAgree`, `ConfigRetried` (`ClientsConfigured` of the run) | `Nodes` |
| `OriginCorrect`, `SizeCorrect`, `WalkCorrect`, `WriteForwarded` | what a client sends for a write, and what a daemon makes of a request | `LayoutAssumption` |
| `BytesInPlaceCorrect`, `SizeCoversDataCorrect`, `LastWriteCorrect`, `TruncateToZeroCorrect`, `TruncateKeepsHeadCorrect` | `BytesInPlace`, `SizeCoversData`, `LastWriteStored`, `TruncateToZeroEmpties`, `TruncateKeepsHead` | `LayoutAssumption`, `DataAssumption` |
| `AckedCorrect` | `AckedOnACopy` | the same, and `PostedOnce` |
| `NothingLostCorrect`, `MigrationCorrect`, `OneMigrationCorrect` | `NothingLost`, `MigrationComplete`, `OneMigrationAtATime` | `Setting` |
| `HierarchyCorrect` | `StrictHierarchy` of `Namespace` | `Setting`, one client, parents checked, no rename |
| `ListingCorrect` | `ListingComplete` | `Setting`, one copy of each entry |
| `HiddenCorrect` | `OneFailureHidden` | `Setting`, at least two copies, at most one fault, no rename and no write |

The store's argument is given with `MetadataStore` above.  The others:

* The size cache (`Processes_proofs`): the proof follows a size on its way.  It is accounted for when an
  error was reported, a daemon has it, an update that carries it is under way, or
  the cache counts one.  The invariant says this of every write; each step of a
  thread hands the size on to the next of these places.  `SizesAccounted` alone
  is not inductive: it says nothing while an update is under way.  Daemons that
  answer an error are excluded, because the code takes such an answer for a
  success.  (The run does include one such answer, with two copies, where the
  other copy still has the size.)
* Daemons (`Processes_proofs`): a line of the hosts file says something about the daemon
  that wrote it, so `HInv` ties each line to that daemon's place in `main`: it is
  there only between `populate_hosts_file` and the removal of the file in
  `destroy_enviroment`, and what was set up before stays until then, but for the I/O
  streams, which are joined one step earlier.  `MetadataHasItsData` is about serving daemons
  only; `DInv` says of the directories at all times that the database in use has
  no metadata without data unless the daemon is in `torn`, that one whose directory
  is about to be cleaned leaves that set, and, since a forwarding daemon uses a database of its
  own in each start, that those of later starts are still empty.  Older ones may
  name files whose data was cleaned away.
* Proxies and clients of a node (`Processes_proofs`): the pid file is shared and every proxy may remove it, so
  `PidInv` also says who can still write to it, a proxy between the two steps of
  `create_proxy_pid_file`.  Of the clients, `ClientInv` says that they have the
  list `HostList`, which depends on the set of daemons and not on the order of the
  lines (`SortedAlike`), and how far they are in it: everyone asked so far is dead,
  the local daemon first.  That the list exists, for any finite set, is shown by
  the place of each daemon, the number of daemons up to it.  `Nodes`: the daemons
  are finitely many and the local one, if any, is one of them.
* The layout of a request (first parts of `DataPath_proofs` and
  `DataPath_theorems`), for every chunk size,
  range, placement and number of copies: the offset in the client's buffer that a
  daemon computes is the one where the client has those bytes (`OriginCorrect`);
  the pieces of a request are exactly the parts of the range in the chunks of its
  bits, each in its place and of its size (`WalkCorrect`); the requests of a write
  carry every chunk of the range to the hosts of its copies, and nothing else
  (`WriteForwarded`).  The walk of a daemon is a recursive function over the
  interval; the proof takes the least chunk at which the walk would leave what
  `Exact` says of it.  The size of the last piece is what is left of the host's
  total, so `Exact` also counts the chunks not yet visited.
* The data path: `DataPath_proofs` has the invariant `Inv`, a part for what all
  calls share and one for each client, and shows that it implies the properties and
  that the tasklets keep it; `DataPath_calls` that the steps of the clients do;
  `DataPath_theorems` that the requests of a write are what the invariant needs them
  to be, and states the results.  None of the properties is inductive by itself.
  `BytesInPlace` needs `WriteReqs` and `LooseInv`: whatever a tasklet may still
  write is a piece of a request the client built, also when the call has long
  returned.  `LastWriteStored` speaks of quiet states only; the invariant
  (`LastOrRunning`) says in every state that the first copy of a byte comes from
  the last write or from one still running, or is behind, and `Kept` that a write
  does not lose what it has stored but to one that overlaps it, on every copy it has
  not missed; that `missed` has all others is what makes `behind` right when the
  write returns.  `TruncateToZeroEmpties` needs
  `Emptying`: before the requests go out every chunk lies below the old size, so
  every host that has one is contacted.  `Acked` follows a write through its two
  rounds; a request answered without an error has stored its chunk on its host.
  `PostedOnce` excludes that requests of both rounds cannot be posted, where the
  code does report success with the data on no copy.
* `Expansion_proofs`, for any daemons, items, hashes and operators.  From the moment
  the new daemons are in the hosts file whoever reads it gets the same sorted
  list, so all threads agree on the home of every item.  `MInv` says that a thread
  sends an item to its home only, never removes one that is at home, and removes a
  copy only when there is one at home or the item had a mishap; that a chunk
  directory stays while it has a chunk, which is all an arriving write needs to know
  of the others; `AwayInv` that an item away from its home
  is still ahead of a thread that will move it, which gives `MigrationComplete`.
  `OInv` is about the mutex and the mode: of the calls that ask a daemon to start
  at most one has set the mode and not yet started the thread.  `Setting` is one
  expansion of daemons on different nodes in which a chunk is sent with the bit
  vector that was built for it; everything else may fail.  Outside it the code loses
  items (Disagreements).
* `Namespace_proofs` first shows, for all actions of `Namespace` together, where
  a call goes on from each label (`Moves`) and what its step does to the entries
  of the daemons (`Alters`); an invariant then only has to be kept by these two.
  `TreeInv` says of a creation that its parent was found and is still there, and
  of a `rmdir` that the daemons asked so far list nothing; this is where one
  client at a time is needed.  `ListInv` says of a listing under way that an
  entry there since the call began is on a daemon not asked yet or in the answers
  already, and that the answers name nothing that was never there; with one copy an
  entry is on the host of its hash only (`Placed`).  In `Namespace_copies`,
  `HiddenInv` counts copies: of
  a name created with success, and of one being created, all copies so far are
  there, or all but one and the message was lost (`Good`, `Makes`); a stat that
  got an error so far has met that copy, and the next one answers (`Finds`).
  `Setting`: the daemons are numbered from 0, and calls are those of the library.

Only model-checked: all liveness; the refinements `ImplementsMergedKey` and
`RefinesNames`, which speak of folds over a log and of chains of any length; text,
bits and records, which are folds and recursive operators; `ReadIsFresh` and
`FullWrite` of `DataPath` (counts over requests); `RemovedLeavesNoData` of
`Namespace`, which goes through chains of renamed names; `Proxy`, `OpenFileMap`, `DentryCache`, `Descriptors`, paths.

## Disagreements

Besides the five violations of `MetadataStore`, the code does not meet the
following.  In each case the statement is a definition of the module named, or a
property of a run taken outside the bounds the run has; TLC finds a
counterexample when a part is configured that way.  The checked parts stay
inside what the code does keep.

Data (`DataPath`, `Proxy`, `OpenFileMap`):

* `TruncateContactsHolders`: `forward_truncate` computes the last chunk from
  `current_size - new_size - 1`, so hosts with chunks beyond the new end are not
  contacted (`client/rpc/forward_data.cpp:533`).
* `DaemonTrims`: a daemon without the chunk in which the new end lies throws
  before it removes its later chunks (`daemon/ops/data.cpp:79`).
* `rand() % num_copies` never names the last copy: with one replica, one lost
  answer makes a read draw for ever (`forward_data.cpp:337`,
  `gkfs_functions.cpp:1178`).
* With failing posts in both rounds a replicated write reports success with its
  data on no copy (`forward_data.cpp:206`; the comment at 256 says "check that at
  least one copy of all chunks are processed", and `REPLICA_CHECK` is defined by
  no build file).
* `RemovedLeavesNoData` of `Proxy`: size and mode change places, so data stays
  (`proxy/rpc/forward_metadata.cpp:240`).
* `AppendsStayInTheirReserve`: the proxy answers a failed size update with
  success and offset 0 (`proxy/rpc/srv_metadata.cpp:169`).
* `CreatedExists`: an undecodable request is answered with success
  (`proxy/rpc/srv_metadata.cpp:30`).
* A copy that missed an acknowledged write is read later, when the other copies
  fail, or as the first copy, without notice (`forward_data.cpp:206`,
  `gkfs_functions.cpp:993`): `LastWriteStored` and `ReadIsFresh` without `behind`.
* dup2 onto exactly the next number is not noticed: the next open gets the same
  number (`client/open_file_map.cpp:207`).
* `NumberGivenOnce`: "could have the effect that fd are given twice for different
  path. This must not happen" (`open_file_map.cpp:225`).  An open takes a number just
  before the counter wraps and has not inserted it; an open after the wrap sets the
  flag of validation, and its close, which leaves the table empty, clears it
  (`:171`); the first open inserts its number, and the counter comes to it again,
  unvalidated: `insert` keeps the first file.
* `PwritevMoves`: `assert(ret != 0)` fails when the descriptor is closed in
  between (`gkfs_functions.cpp:1136`).
* `ReadvFailsOnError`: readv at the end of a file returns -1
  (`gkfs_functions.cpp:1296`).

Names and entries (`Namespace`, `MetadataText`):

* `StrictHierarchy` with two clients (`gkfs_functions.cpp:1436`), and by rename,
  which checks no parent (`forward_metadata.cpp:458`).
* `OneFailureHidden` with renames: a creation that missed its second copy, a
  rename away and a second creation, which succeeds on the second copy only, make
  a file that stat does not find, because the first copy still has the name
  hidden (`gkfs_functions.cpp:318`: "Write to all replicas, at least one need to
  success").
* `EnoentMeansGone`: remove stops at the first copy that answers ENOENT
  (`forward_metadata.cpp:170`).
* `RenamedIsGone`: open with O_CREAT of a renamed path fails with EEXIST
  (`gkfs_functions.cpp:183`).
* `OpenReturns`: open uses the target's metadata unchecked
  (`gkfs_functions.cpp:228`).
* `RenamedIsFound`: rename drops the errors of its RPCs
  (`forward_metadata.cpp:461`).
* `StatReturns`: two clients that rename back and forth make a cycle
  (`gkfs_functions.cpp:529`).
* `RoundTrip` for a path that contains `|` (`common/metadata.cpp:166`).

Client process (`SizeCache`, `DentryCache`, `Descriptors`, `PathResolution`,
`WorkingDirectory`):

* An fsync beside a flush of another thread returns before the size is sent, a
  failed flush is not repeated, and a size survives the re-creation of its file
  (`client/cache.cpp:164`, `:166`).
* Errors answered to a size update count as success (`forward_metadata.cpp:584`).
* A failing opendir leaves entries cached, an error of any daemon but the last is
  forgotten, and directory ids of 32 bits may collide (`gkfs_functions.cpp:1381`,
  `:1387`, `cache.cpp:50`).
* `LibPrivate` without `late`: `gkfs_close` finds that a number is not internal,
  a thread of the library takes it, and `hook_close` closes it
  (`gkfs_functions.cpp:1643`, `hooks.cpp:99`).
* Descriptor 0 is not registered (`intercept.cpp:117`), relocation replaces an
  application's descriptor of that number (`preload_context.cpp:506`), threads
  that open early are not relocated (`:605`), and an unlocked bit may be lost
  (`:480`).
* `/t/mnt2` counts as inside `/t/mnt` (`path.cpp:190`); ".." after a link cuts at
  the wrong place (`path.cpp:186`); a link to a place below the mount directory
  makes `match_components` throw `out_of_range` (`path.cpp:95`).
* `PrependAsserts`: a working directory of "/" fails the assertion of
  `prepend_path` (`preload_context.cpp:349`, `path_util.cpp:75`).

Processes (`DaemonLife`, `ProxyLife`, `Expansion`):

* `SignalEndsDaemon`: a signal just before the wait is lost (`daemon.cpp:1136`).
* `MetadataHasItsData` without `torn`: after an interrupted cleaning a start without
  `--clean-rootdir` serves metadata whose data is gone (`daemon.cpp:834`).
* An ending daemon joins its I/O streams before it removes the hosts file
  (`daemon.cpp:595`, `:603`): clients still find it, and its reads and writes hang.
* `SameDistribution`: the proxy does not sort the hosts (`proxy/util.cpp:82`).
* `RunningProxyDetected`, `OneProxy`: a second proxy removes the pid file of the
  first (`proxy.cpp:373`); two that start together both run (`proxy/util.cpp:93`).
* `ReadyWhenDone`: a status request before the migration thread first runs is
  answered "done" (`malleable_manager.cpp:323`).
* `NeverLost`: a key or chunk whose transfer failed is removed all the same
  (`:233`; `:300`: "remove file after migration").  A transfer also fails by itself:
  the thread of the receiver removes a chunk directory that it has emptied
  (`:304`) between the creation of that directory and the opening of the chunk file
  in `write_chunk` (`chunk_storage.cpp:158`).
* `NothingLost` when two daemons share a node (`:182`); `MigrationComplete` after a
  second expansion (`:180`).
* `NothingLost` when the bit vector of a moved chunk, sent from a string that no
  longer exists, arrives without its bit (`forward_redistribution.cpp:99`; the
  failure kind `"bitset"` of `Expansion`).
* `StartIsAnswered`: a second start throws while it holds the mutex
  (`daemon/classes/fs_data.cpp:337`).

## Not modelled

* Parallax, AGIOS, Prometheus, the guided distributor, symbolic links: options of
  the build that are off by default.  The forwarding variant of the data walk.
* Statistics and logging: nothing reads them back.
* Truncation beyond the end of a file (only a size update); statfs, statvfs and
  statx as far as they copy an answer into a structure; hooks that only convert
  arguments; parsing of environment variables; matching of user libraries.
* `REPLICA_CHECK`: compiled by no build.
* The data race on the string `cwd_` (`path.cpp:421`): its outcomes have no useful
  bound.
* RocksDB, Margo, Mercury, Hermes and the kernel are external: modelled by what
  the code under `src/` uses of them.
