----------------------------- MODULE DaemonLife ----------------------------
(***************************************************************************)
(* From the start of a daemon to its end: arguments, the steps of          *)
(* init_environment, the hosts file through which clients find daemons,    *)
(* the wait for a signal and destroy_enviroment.  A daemon may be killed,  *)
(* a step of its start may fail, and it may be started again on the        *)
(* directories it left.                                                    *)
(*                                                                         *)
(* Incarnation e of daemon d is the e-th time it is started.  Directories  *)
(* hold the number of the incarnation in which a file was created: its     *)
(* metadata in a database directory, its data in the chunk directory.      *)
(***************************************************************************)
EXTENDS Integers, FiniteSets, Sequences

CONSTANTS Daemons,
          Layouts,     \* the ways daemons are configured, see Layout
          Arguments,   \* what may be wrong with a command line
          Cleaning,    \* the cleaning flags a start may have
          Faults,      \* failures, see FaultKinds
          MaxStarts,   \* bound on the starts of a daemon
          MaxFaults    \* bound on the failures of a behaviour

Layout == [metadir : BOOLEAN, forwarding : BOOLEAN, proxy : BOOLEAN]
FaultKinds == {"step", "line", "kill"}

ASSUME DaemonLifeAssumption ==
    /\ Layouts \subseteq Layout
    /\ Arguments \subseteq {"good", "protocol", "proxy_protocol", "mountdir",
                            "suffix", "backend"}
    /\ Cleaning \subseteq SUBSET {"start", "finish"}
    /\ Faults \subseteq FaultKinds
    /\ MaxStarts \in Nat

VARIABLES layout,     \* the fixed part of each daemon's command line
          hostsfile,  \* the lines <<daemon, incarnation>>
          epoch,      \* the incarnation of each daemon
          pc,         \* where its main function is
          opts,       \* the cleaning flags of this incarnation, and a bad backend
          attempt,    \* attempt of populate_hosts_file
          up,         \* daemon -> the subsystems that have been set up
          mdirs,      \* daemon -> database directory -> metadata in it
          chunks,     \* daemon -> data in its chunk directory
          torn,       \* history: daemons whose data is removed, their metadata not
          killed,     \* incarnations that ended without destroy_enviroment
          signalled,  \* history: daemons whose handler ran
          nfaults

vars == <<layout, hostsfile, epoch, pc, opts, attempt, up, mdirs, chunks,
          torn, killed, signalled, nfaults>>

MAX_RETRIES == 5
Epochs == 1 .. MaxStarts
Root   == 0        \* the metadentry of "/"

(* The steps of a daemon's main function, in order: parse_input, then up   *)
(* to populating the hosts file, and after it.                             *)
After == [backend |-> "mdb", mdb |-> "storage", storage |-> "server",
          server |-> "proxy_server", proxy_server |-> "io_pool", io_pool |-> "root",
          root |-> "register", client |-> "managers", managers |-> "handlers"]
Parsing == {"clean_root", "clean_meta", "backend"}
Initialising == {"mdb", "storage", "server", "proxy_server", "io_pool", "root",
                 "register", "client", "managers"}
Ending == {"destroy", "unlist", "finalize", "delete_meta", "delete_root"}
Down == {"off", "exited"}

(* The daemon can be found in the hosts file and serves.                   *)
InService == {"client", "managers", "handlers", "lock", "wait"}

TypeOK ==
    /\ hostsfile \in Seq(Daemons \X Epochs)
    /\ epoch \in [Daemons -> 0 .. MaxStarts]
    /\ attempt \in [Daemons -> 1 .. MAX_RETRIES + 1]
    /\ \A d \in Daemons :
          /\ pc[d] \in Down \cup Parsing \cup Initialising \cup Ending
                       \cup {"check", "handlers", "lock", "wait"}
          /\ up[d] \subseteq {"mdb", "storage", "server", "proxy_server",
                              "io_pool", "client", "managers"}
          /\ chunks[d] \subseteq Epochs /\ torn \subseteq Daemons
          /\ \A m \in 0 .. MaxStarts : mdirs[d][m] \subseteq {Root} \cup Epochs
    /\ nfaults \in 0 .. MaxFaults

Goto(d, s) == pc' = [pc EXCEPT ![d] = s]
Fault(kind) == /\ kind \in Faults /\ nfaults < MaxFaults
               /\ nfaults' = nfaults + 1

--------------------------------------------------------------------------
(* parse_input.  The protocols and the mountdir are checked first, the     *)
(* rootdir and then the metadir are cleaned and created, and only after    *)
(* that is the database backend checked.                                   *)

parse_protocols(arg) == arg \notin {"protocol", "proxy_protocol", "mountdir"}
parse_suffix(arg)    == arg # "suffix"

(* The head of main, and parse_input up to the cleaning.                   *)
main(d) ==
    /\ pc[d] \in Down
    /\ epoch[d] < MaxStarts
    /\ epoch' = [epoch EXCEPT ![d] = @ + 1]
    /\ \E arg \in Arguments, clean \in Cleaning :
          /\ opts' = [opts EXCEPT ![d] = clean \cup ({"backend"} \cap {arg})]
          /\ Goto(d, IF ~parse_protocols(arg) \/ ~parse_suffix(arg) THEN "exited"
                     ELSE IF "start" \in clean THEN "clean_root" ELSE "backend")
    /\ attempt' = [attempt EXCEPT ![d] = 1]
    /\ up' = [up EXCEPT ![d] = {}]
    /\ signalled' = signalled \ {d}
    /\ UNCHANGED <<layout, hostsfile, mdirs, chunks, torn, killed, nfaults>>

Parses(d, s) ==
    /\ Goto(d, s)
    /\ UNCHANGED <<layout, hostsfile, epoch, opts, attempt, up, killed, signalled>>

(* With forwarding each process has a database directory of its own, named *)
(* by its pid; otherwise the directory is the same at every start.         *)
MetaDir(d) == IF layout[d].forwarding THEN epoch[d] ELSE 0

(* remove_all: of what is below the rootdir, or a part of it if removing   *)
(* is interrupted.  The databases are there if there is no metadir.        *)
BelowRoot(d) == IF layout[d].metadir THEN {"data"} ELSE {"data", "metadata"}

Removed(gone, d) ==
    /\ chunks' = IF "data" \in gone THEN [chunks EXCEPT ![d] = {}] ELSE chunks
    /\ mdirs' = IF "metadata" \in gone
                THEN [mdirs EXCEPT ![d] = [m \in 0 .. MaxStarts |-> {}]] ELSE mdirs
    /\ torn' = IF "metadata" \in gone THEN torn \ {d}
               ELSE IF "data" \in gone /\ mdirs[d][MetaDir(d)] # {} THEN torn \cup {d}
               ELSE torn

RemovingRoot(d) ==
    \/ pc[d] \in {"clean_root", "delete_root"}
    \/ pc[d] = "delete_meta" /\ ~layout[d].metadir /\ ~layout[d].forwarding
PartRemoved(d) ==
    \E gone \in SUBSET BelowRoot(d) : /\ RemovingRoot(d) \/ gone = {}
                                      /\ Removed(gone, d)

clean_rootdir(d) ==
    /\ pc[d] = "clean_root"
    /\ Removed(BelowRoot(d), d)
    /\ Parses(d, IF layout[d].metadir THEN "clean_meta" ELSE "backend")
    /\ UNCHANGED nfaults

(* A separate metadir is emptied after it.                                 *)
clean_metadir_kept(d) ==                                         \* mutation
    /\ pc[d] = "clean_meta"
    /\ torn' = torn \ {d}
    /\ Parses(d, "backend")
    /\ UNCHANGED <<chunks, mdirs, nfaults>>
clean_metadir(d) ==
    /\ pc[d] = "clean_meta"
    /\ mdirs' = [mdirs EXCEPT ![d][MetaDir(d)] = {}]
    /\ torn' = torn \ {d}
    /\ Parses(d, "backend")
    /\ UNCHANGED <<chunks, nfaults>>

parse_backend(d) ==
    /\ pc[d] = "backend"
    /\ Parses(d, IF "backend" \in opts[d] THEN "exited" ELSE After["backend"])
    /\ UNCHANGED <<chunks, mdirs, torn, nfaults>>

(* Removing or creating a directory throws, and main returns; what was     *)
(* being removed may be gone in part.                                      *)
parse_failed(d) ==
    /\ pc[d] \in Parsing
    /\ Fault("step")
    /\ PartRemoved(d)
    /\ Parses(d, "exited")

--------------------------------------------------------------------------
(* init_environment *)

Unchanged == UNCHANGED <<layout, epoch, opts, chunks, torn, killed, signalled>>

SetUp(d, part) ==
    /\ up' = [up EXCEPT ![d] = @ \cup {part}]
    /\ Goto(d, After[part])
    /\ UNCHANGED <<hostsfile, attempt, mdirs, nfaults>> /\ Unchanged

init_metadata_db(d) == pc[d] = "mdb" /\ SetUp(d, "mdb")
init_storage(d)     == pc[d] = "storage" /\ SetUp(d, "storage")
init_rpc_server(d)  == pc[d] = "server" /\ SetUp(d, "server")

init_proxy_rpc_server(d) ==
    /\ pc[d] = "proxy_server"
    /\ IF layout[d].proxy THEN SetUp(d, "proxy_server")
       ELSE /\ Goto(d, "io_pool")
            /\ UNCHANGED <<hostsfile, attempt, up, mdirs, nfaults>> /\ Unchanged

init_io_tasklet_pool(d) == pc[d] = "io_pool" /\ SetUp(d, "io_pool")

(* The entry of "/"; that it exists already is no error.                   *)
create_root_none(d) ==
    /\ pc[d] = "root"
    /\ Goto(d, After["root"])
    /\ UNCHANGED <<hostsfile, attempt, up, mdirs, nfaults>> /\ Unchanged
create_root(d) ==
    /\ pc[d] = "root"
    /\ mdirs' = [mdirs EXCEPT ![d][MetaDir(d)] = @ \cup {Root}]
    /\ Goto(d, After["root"])
    /\ UNCHANGED <<hostsfile, attempt, up, nfaults>> /\ Unchanged

(* populate_hosts_file: append the line, read the file back, try again.    *)
(* On a shared file system the appended line may be lost.                  *)
MyLine(d) == <<d, epoch[d]>>
Listed(d) == \E i \in DOMAIN hostsfile : hostsfile[i] = MyLine(d)

append_line(d) ==
    /\ pc[d] = "register"
    /\ Goto(d, "check")
    /\ \/ /\ hostsfile' = Append(hostsfile, MyLine(d))
          /\ UNCHANGED nfaults
       \/ Fault("line") /\ UNCHANGED hostsfile
    /\ UNCHANGED <<attempt, up, mdirs>> /\ Unchanged

check_line(d) ==
    /\ pc[d] = "check"
    /\ attempt' = [attempt EXCEPT ![d] = IF Listed(d) THEN @ ELSE @ + 1]
    /\ Goto(d, IF Listed(d) THEN "client"
               ELSE IF attempt[d] < MAX_RETRIES THEN "register" ELSE "destroy")
    /\ UNCHANGED <<hostsfile, up, mdirs, nfaults>> /\ Unchanged

init_rpc_client(d) == pc[d] = "client" /\ SetUp(d, "client")
init_managers(d)   == pc[d] = "managers" /\ SetUp(d, "managers")

(* Any step of init_environment may throw: main then runs                  *)
(* destroy_enviroment.                                                     *)
init_failed(d) ==
    /\ pc[d] \in Initialising
    /\ Fault("step")
    /\ Goto(d, "destroy")
    /\ UNCHANGED <<hostsfile, attempt, up, mdirs>> /\ Unchanged

--------------------------------------------------------------------------
(* The rest of main *)

install_handlers(d) ==
    /\ pc[d] = "handlers"
    /\ Goto(d, "lock")
    /\ UNCHANGED <<hostsfile, attempt, up, mdirs, nfaults>> /\ Unchanged

(* The mutex is locked and shutdown_please.wait begins.                    *)
begin_wait(d) ==
    /\ pc[d] = "lock"
    /\ Goto(d, "wait")
    /\ UNCHANGED <<hostsfile, attempt, up, mdirs, nfaults>> /\ Unchanged

(* From when a daemon is in the hosts file clients create files on it.     *)
CreateFile(d) ==
    /\ pc[d] \in InService
    /\ chunks' = [chunks EXCEPT ![d] = @ \cup {epoch[d]}]
    /\ mdirs' = [mdirs EXCEPT ![d][MetaDir(d)] = @ \cup {epoch[d]}]
    /\ UNCHANGED <<layout, hostsfile, epoch, pc, opts, attempt, up, torn, killed,
                   signalled, nfaults>>

(* SIGTERM once the handlers are in place: shutdown_handler notifies the   *)
(* condition variable, which wakes main only if main already waits.        *)
shutdown_handler(d) ==
    /\ pc[d] \in {"lock", "wait"}
    /\ signalled' = signalled \cup {d}
    /\ pc' = IF pc[d] = "wait" THEN [pc EXCEPT ![d] = "destroy"] ELSE pc
    /\ UNCHANGED <<layout, hostsfile, epoch, opts, attempt, up, mdirs, chunks,
                   torn, killed, nfaults>>

(* A signal before that, or SIGKILL at any time, ends the process, also in *)
(* the middle of a removal.                                                *)
Killed(d) ==
    /\ pc[d] \notin Down
    /\ Fault("kill")
    /\ Goto(d, "exited")
    /\ killed' = killed \cup {MyLine(d)}
    /\ up' = [up EXCEPT ![d] = {}]
    /\ PartRemoved(d)
    /\ UNCHANGED <<layout, hostsfile, epoch, opts, attempt, signalled>>

(* destroy_enviroment: the I/O streams are joined first, then the whole    *)
(* hosts file is removed.  In between the daemon is listed, answers, and   *)
(* has nobody to read and write chunks.                                    *)
join_streams(d) ==
    /\ pc[d] = "destroy"
    /\ up' = [up EXCEPT ![d] = @ \ {"io_pool"}]
    /\ Goto(d, "unlist")
    /\ UNCHANGED <<hostsfile, attempt, mdirs, nfaults>> /\ Unchanged

destroy_hosts_file(d) ==
    /\ pc[d] = "unlist"
    /\ hostsfile' = <<>>
    /\ Goto(d, "finalize")
    /\ UNCHANGED <<attempt, up, mdirs, nfaults>> /\ Unchanged

(* The RPC server, the database and the RPC client are shut down, those    *)
(* that were started.                                                      *)
finalize_connected(d) ==                                         \* mutation
    /\ pc[d] = "finalize" /\ "client" \in up[d]
    /\ up' = [up EXCEPT ![d] = {}]
    /\ Goto(d, IF "finish" \in opts[d] THEN "delete_meta" ELSE "exited")
    /\ UNCHANGED <<hostsfile, attempt, mdirs, nfaults>> /\ Unchanged
finalize(d) ==
    /\ pc[d] = "finalize"
    /\ up' = [up EXCEPT ![d] = {}]
    /\ Goto(d, IF "finish" \in opts[d] THEN "delete_meta" ELSE "exited")
    /\ UNCHANGED <<hostsfile, attempt, mdirs, nfaults>> /\ Unchanged

(* --clean-rootdir-finish: the metadir is removed, which is the rootdir if *)
(* there is no other, and then the rootdir.  Errors are not looked at.     *)
delete_metadir(d) ==
    /\ pc[d] = "delete_meta"
    /\ \/ /\ IF layout[d].metadir \/ layout[d].forwarding
               THEN /\ mdirs' = [mdirs EXCEPT ![d][MetaDir(d)] = {}]
                    /\ UNCHANGED <<chunks, torn>>
               ELSE Removed(BelowRoot(d), d)
          /\ UNCHANGED nfaults
       \/ Fault("step") /\ PartRemoved(d)
    /\ Parses(d, "delete_root")

delete_rootdir(d) ==
    /\ pc[d] = "delete_root"
    /\ \/ Removed(BelowRoot(d), d) /\ UNCHANGED nfaults
       \/ Fault("step") /\ PartRemoved(d)
    /\ Parses(d, "exited")

--------------------------------------------------------------------------
Init ==
    /\ layout \in [Daemons -> Layouts]
    /\ hostsfile = <<>>
    /\ epoch = [d \in Daemons |-> 0]
    /\ pc = [d \in Daemons |-> "off"]
    /\ opts = [d \in Daemons |-> {}]
    /\ attempt = [d \in Daemons |-> 1]
    /\ up = [d \in Daemons |-> {}]
    /\ mdirs = [d \in Daemons |-> [m \in 0 .. MaxStarts |-> {}]]
    /\ chunks = [d \in Daemons |-> {}]
    /\ torn = {}
    /\ killed = {}
    /\ signalled = {}
    /\ nfaults = 0

Progress(d) ==
    \/ clean_rootdir(d) \/ clean_metadir(d) \/ parse_backend(d) \/ parse_failed(d)
    \/ init_metadata_db(d) \/ init_storage(d) \/ init_rpc_server(d)
    \/ init_proxy_rpc_server(d) \/ init_io_tasklet_pool(d) \/ create_root(d)
    \/ append_line(d) \/ check_line(d) \/ init_rpc_client(d)
    \/ init_managers(d) \/ init_failed(d) \/ install_handlers(d)
    \/ begin_wait(d) \/ join_streams(d) \/ destroy_hosts_file(d) \/ finalize(d)
    \/ delete_metadir(d) \/ delete_rootdir(d)

Next == \/ \E d \in Daemons : \/ main(d) \/ Progress(d) \/ CreateFile(d)
                               \/ shutdown_handler(d) \/ Killed(d)
        \/ /\ \A d \in Daemons : pc[d] = "exited" /\ epoch[d] = MaxStarts
           /\ UNCHANGED vars

Spec == Init /\ [][Next]_vars

(* The main thread of a daemon runs; nobody has to start, signal or kill   *)
(* a daemon.                                                               *)
FairSpec == Spec /\ \A d \in Daemons : WF_vars(Progress(d))

--------------------------------------------------------------------------
(* Whoever reads the hosts file finds daemons that serve: a line belongs   *)
(* to an incarnation that accepts RPCs with its stores open and the root   *)
(* directory created, unless that incarnation was killed; and it has its   *)
(* I/O streams, unless it has joined them and is about to remove the file. *)
(* Registering comes after everything a client needs, and                  *)
(* destroy_enviroment takes the file away before it shuts the server down, *)
(* also when the start failed.                                             *)
ListedDaemonsServe ==
    \A i \in DOMAIN hostsfile :
        LET d == hostsfile[i][1] IN
        \/ hostsfile[i] \in killed
        \/ /\ MyLine(d) = hostsfile[i]
           /\ {"mdb", "storage", "server"} \subseteq up[d]
           /\ "io_pool" \in up[d] \/ pc[d] = "unlist"
           /\ layout[d].proxy => "proxy_server" \in up[d]
           /\ Root \in mdirs[d][MetaDir(d)]

(* A daemon that serves has the data of every file it has metadata of,     *)
(* whatever was cleaned at the starts and ends before: the two cleaning    *)
(* options treat rootdir and metadir alike, and what an interrupted        *)
(* cleaning left is gone after the next one that is not interrupted.  Only *)
(* the daemon that is started on the directories of an interrupted         *)
(* cleaning without cleaning them may lack data, and not even that one if  *)
(* it has a database directory of its own.                                 *)
MetadataHasItsData ==
    \A d \in Daemons :
        (pc[d] \in InService /\ (d \in torn => layout[d].forwarding))
        => mdirs[d][MetaDir(d)] \ {Root} \subseteq chunks[d]

(* A start comes to its end: the daemon waits for its signal or has        *)
(* exited, after failed steps and lost lines as well.                      *)
StartEnds ==
    \A d \in Daemons : pc[d] \in Parsing \cup Initialising ~> pc[d] \in {"wait", "exited"}

-----------------------------------------------------------------------------
(* Statements of the repository that the code does not meet: TLC refutes   *)
(* each of those below (README, "Disagreements").                          *)

(* A daemon whose shutdown handler has run shuts down.                     *)
SignalEndsDaemon == \A d \in Daemons : d \in signalled ~> pc[d] = "exited"
=============================================================================
