----------------------------- MODULE ProxyLife -----------------------------
(***************************************************************************)
(* How the processes of one node find each other: the proxy registers in a *)
(* pid file, a starting client reads the hosts file, decides by the pid    *)
(* file whether to use the proxy, connects and asks a daemon for the file  *)
(* system configuration.  Proxies may be started while one is running, a   *)
(* step may fail, a proxy may be killed, and the file system may be        *)
(* restarted, its daemons registering in another order.                    *)
(*                                                                         *)
(* A daemon is a number, its rank in the order of (hostname, address).  A  *)
(* proxy is its process id.                                                *)
(***************************************************************************)
EXTENDS Integers, FiniteSets, Sequences, Functions

CONSTANTS Daemons,
          Proxies,     \* processes that run gkfs_proxy, each once
          Clients,     \* processes that use GekkoFS, each once
          LocalDaemon, \* the daemon of this node, 0 if there is none
          Faults,      \* failures, a subset of FaultKinds
          MaxFaults,   \* bound on the failures of a behaviour
          MaxRestarts  \* bound on the restarts of the file system

FaultKinds == {"step", "lookup", "kill", "dead"}

VARIABLES lines,     \* the hosts file
          dead,      \* daemons that answer no RPC
          pidfile,   \* [st, pid, open], open: the proxies that are writing it
          proxy,     \* [pc, hosts] of each proxy
          client,    \* [pc, hosts, proxy, endp, idx] of each client
          first,     \* history: the host list of the first client
          nfaults, nrestarts

vars == <<lines, dead, pidfile, proxy, client, first, nfaults, nrestarts>>

(* All daemons have registered, in any order.                              *)
Registered == Bijection(1 .. Cardinality(Daemons), Daemons)

NoFile     == [st |-> "absent", pid |-> 0, open |-> {}]
NewProxy   == [pc |-> "off", hosts |-> <<>>]
NewClient  == [pc |-> "off", hosts |-> <<>>, proxy |-> 0, endp |-> 0, idx |-> 0]
ProxyDown  == {"off", "exited", "killed"}
Serving    == {"rpc", "pid", "pidwrite", "connect", "lock", "wait", "destroy",
               "remove"}
ClientDown == {"off", "exited", "noconfig", "ended"}

TypeOK ==
    /\ lines \in Seq(Daemons) /\ dead \subseteq Daemons
    /\ pidfile \in [st : {"absent", "empty", "full"}, pid : Proxies \cup {0},
                   open : SUBSET Proxies]
    /\ \A p \in Proxies :
          /\ proxy[p].pc \in ProxyDown \cup Serving \cup {"check", "read", "ipc"}
          /\ proxy[p].hosts \in Seq(Daemons)
    /\ \A c \in Clients :
          /\ client[c].pc \in ClientDown \cup {"hosts", "detect", "hermes",
                                  "connect", "proxy", "config", "running"}
          /\ client[c].hosts \in Seq(Daemons)
          /\ client[c].proxy \in Proxies \cup {0}
          /\ client[c].endp \in Daemons \cup {0}
          /\ client[c].pc = "config" => client[c].endp \in Daemons
          /\ client[c].idx \in 0 .. Cardinality(Daemons)

Fault(kind) == /\ kind \in Faults /\ nfaults < MaxFaults
               /\ nfaults' = nfaults + 1

(* load_hostfile of the client sorts the lines, one of each daemon;        *)
(* load_hostfile of the proxy takes them as they come.                     *)
client_load_unsorted(file) == file
client_load_hostfile(file) ==
    CHOOSE s \in [DOMAIN file -> Range(file)] :
        \A i, j \in DOMAIN file : i < j => s[i] < s[j]
proxy_load_hostfile(file) == file

--------------------------------------------------------------------------
(* The proxy *)

Alive(p) == p # 0 /\ proxy[p].pc \notin ProxyDown
AtProxy(p, s) == proxy[p].pc = s
ProxyGoto(p, s) == proxy' = [proxy EXCEPT ![p].pc = s]
ProxyOnly == UNCHANGED <<lines, dead, client, first, nrestarts>>

main(p) ==
    /\ AtProxy(p, "off") /\ ProxyGoto(p, "check")
    /\ UNCHANGED <<pidfile, nfaults>> /\ ProxyOnly

(* is_proxy_already_running; a file whose process is gone is removed.      *)
is_proxy_already_running(p) ==
    /\ AtProxy(p, "check")
    /\ IF pidfile.st = "full" /\ Alive(pidfile.pid)
       THEN ProxyGoto(p, "destroy") /\ UNCHANGED pidfile
       ELSE ProxyGoto(p, "read") /\ pidfile' = NoFile
    /\ UNCHANGED nfaults /\ ProxyOnly

read_hosts_file(p) ==
    /\ AtProxy(p, "read")
    /\ proxy' = [proxy EXCEPT ![p] = [pc |-> "ipc",
                                      hosts |-> proxy_load_hostfile(lines)]]
    /\ UNCHANGED <<pidfile, nfaults>> /\ ProxyOnly

init_ipc_server(p) ==
    /\ AtProxy(p, "ipc") /\ ProxyGoto(p, "rpc")
    /\ UNCHANGED <<pidfile, nfaults>> /\ ProxyOnly

init_rpc_client(p) ==
    /\ AtProxy(p, "rpc") /\ ProxyGoto(p, "pid")
    /\ UNCHANGED <<pidfile, nfaults>> /\ ProxyOnly

(* create_proxy_pid_file: the file is truncated when it is opened and has  *)
(* its two lines when it is closed.  What is written to a file that was    *)
(* removed in between is lost.                                             *)
create_proxy_pid_file(p) ==
    /\ \/ /\ AtProxy(p, "pid") /\ ProxyGoto(p, "pidwrite")
          /\ pidfile' = [st |-> "empty", pid |-> 0, open |-> pidfile.open \cup {p}]
       \/ /\ AtProxy(p, "pidwrite") /\ ProxyGoto(p, "connect")
          /\ pidfile' = IF p \in pidfile.open
                        THEN [st |-> "full", pid |-> p, open |-> pidfile.open \ {p}]
                        ELSE pidfile
    /\ UNCHANGED nfaults /\ ProxyOnly

(* connect_to_hosts and the rest of init_environment: an address that four *)
(* lookups do not find is an error.                                        *)
connect_to_hosts(p) ==
    /\ AtProxy(p, "connect")
    /\ \/ ProxyGoto(p, "lock") /\ UNCHANGED nfaults
       \/ ProxyGoto(p, "destroy") /\ Fault("lookup")
    /\ UNCHANGED pidfile /\ ProxyOnly

begin_wait(p) ==
    /\ AtProxy(p, "lock") /\ ProxyGoto(p, "wait")
    /\ UNCHANGED <<pidfile, nfaults>> /\ ProxyOnly

init_failed(p) ==
    /\ proxy[p].pc \in {"check", "read", "ipc", "rpc", "pid"}
    /\ Fault("step")
    /\ ProxyGoto(p, "destroy")
    /\ UNCHANGED pidfile /\ ProxyOnly

shutdown_handler(p) ==
    /\ AtProxy(p, "wait") /\ ProxyGoto(p, "destroy")
    /\ UNCHANGED <<pidfile, nfaults>> /\ ProxyOnly

(* destroy_enviroment, from a failed start as well: the servers are        *)
(* finalized, then the pid file is removed, whoever wrote it.              *)
destroy_enviroment(p) ==
    /\ AtProxy(p, "destroy") /\ ProxyGoto(p, "remove")
    /\ UNCHANGED <<pidfile, nfaults>> /\ ProxyOnly

remove_proxy_pid_file_kept(p) ==
    /\ AtProxy(p, "remove") /\ ProxyGoto(p, "exited")
    /\ UNCHANGED <<pidfile, nfaults>> /\ ProxyOnly
remove_proxy_pid_file(p) ==
    /\ AtProxy(p, "remove") /\ ProxyGoto(p, "exited")
    /\ pidfile' = NoFile
    /\ UNCHANGED nfaults /\ ProxyOnly

Killed(p) ==
    /\ Alive(p) /\ Fault("kill")
    /\ ProxyGoto(p, "killed")
    /\ pidfile' = [pidfile EXCEPT !.open = @ \ {p}]
    /\ ProxyOnly

--------------------------------------------------------------------------
(* The client: init_environment of preload.cpp *)

AtClient(c, s) == client[c].pc = s
ClientGoto(c, s) == client' = [client EXCEPT ![c].pc = s]
ClientOnly == UNCHANGED <<lines, dead, pidfile, proxy, nrestarts>>

init_preload(c) ==
    /\ AtClient(c, "off") /\ ClientGoto(c, "hosts")
    /\ UNCHANGED <<first, nfaults>> /\ ClientOnly

client_read_hosts_file(c) ==
    /\ AtClient(c, "hosts")
    /\ client' = [client EXCEPT ![c].pc = "detect",
                                ![c].hosts = client_load_hostfile(lines)]
    /\ first' = IF first = <<>> THEN client_load_hostfile(lines) ELSE first
    /\ UNCHANGED nfaults /\ ClientOnly

check_for_proxy(c) ==
    /\ AtClient(c, "detect")
    /\ client' = [client EXCEPT ![c].pc = "hermes",
                     ![c].proxy = IF pidfile.st = "full" /\ Alive(pidfile.pid)
                                  THEN pidfile.pid ELSE 0]
    /\ UNCHANGED <<first, nfaults>> /\ ClientOnly

init_hermes_client(c) ==
    /\ AtClient(c, "hermes")
    /\ \/ ClientGoto(c, "connect") /\ UNCHANGED nfaults
       \/ ClientGoto(c, "exited") /\ Fault("step")
    /\ UNCHANGED first /\ ClientOnly

(* connect_to_hosts: three lookups for each host; the local daemon, or     *)
(* host 0, is asked first for the configuration.                           *)
LocalHost(hosts) ==
    IF LocalDaemon \in Range(hosts) THEN LocalDaemon ELSE hosts[1]
client_connect_to_hosts(c) ==
    /\ AtClient(c, "connect")
    /\ \/ /\ client' = [client EXCEPT
                 ![c].pc = IF client[c].proxy = 0 THEN "config" ELSE "proxy",
                 ![c].endp = LocalHost(client[c].hosts)]
          /\ UNCHANGED nfaults
       \/ ClientGoto(c, "exited") /\ Fault("lookup")
    /\ UNCHANGED first /\ ClientOnly

(* A proxy that no longer serves is not found; the client then exits.      *)
lookup_proxy_addr(c) ==
    /\ AtClient(c, "proxy")
    /\ ClientGoto(c, IF proxy[client[c].proxy].pc \in Serving \ {"remove"}
                     THEN "config" ELSE "exited")
    /\ UNCHANGED <<first, nfaults>> /\ ClientOnly

(* forward_get_fs_config: one turn of its loop.                            *)
forward_get_fs_config_same(c) ==
    /\ AtClient(c, "config")
    /\ IF client[c].idx = Len(client[c].hosts) THEN ClientGoto(c, "noconfig")
       ELSE IF client[c].endp \notin dead THEN ClientGoto(c, "running")
       ELSE client' = [client EXCEPT ![c].idx = @ + 1]
    /\ UNCHANGED <<first, nfaults>> /\ ClientOnly
forward_get_fs_config_stuck(c) ==
    /\ AtClient(c, "config")
    /\ IF client[c].idx = Len(client[c].hosts) THEN ClientGoto(c, "noconfig")
       ELSE IF client[c].endp \notin dead THEN ClientGoto(c, "running")
       ELSE client' = [client EXCEPT
                          ![c].endp = client[c].hosts[client[c].idx + 1]]
    /\ UNCHANGED <<first, nfaults>> /\ ClientOnly
forward_get_fs_config(c) ==
    /\ AtClient(c, "config")
    /\ IF client[c].idx = Len(client[c].hosts) THEN ClientGoto(c, "noconfig")
       ELSE IF client[c].endp \notin dead THEN ClientGoto(c, "running")
       ELSE client' = [client EXCEPT
                          ![c].endp = client[c].hosts[client[c].idx + 1],
                          ![c].idx = @ + 1]
    /\ UNCHANGED <<first, nfaults>> /\ ClientOnly

destroy_preload(c) ==
    /\ AtClient(c, "running") /\ ClientGoto(c, "ended")
    /\ UNCHANGED <<first, nfaults>> /\ ClientOnly

--------------------------------------------------------------------------
(* The daemons are stopped and started again on their directories.         *)
Restart ==
    /\ nrestarts < MaxRestarts
    /\ \A p \in Proxies : ~Alive(p)
    /\ \A c \in Clients : client[c].pc \in ClientDown
    /\ lines' \in Registered
    /\ nrestarts' = nrestarts + 1
    /\ UNCHANGED <<dead, pidfile, proxy, client, first, nfaults>>

Init ==
    /\ lines \in Registered
    /\ dead \in IF "dead" \in Faults THEN SUBSET Daemons ELSE {{}}
    /\ pidfile = NoFile
    /\ proxy = [p \in Proxies |-> NewProxy]
    /\ client = [c \in Clients |-> NewClient]
    /\ first = <<>>
    /\ nfaults = 0 /\ nrestarts = 0

ProxyStep(p) == \/ is_proxy_already_running(p) \/ read_hosts_file(p)
                \/ init_ipc_server(p) \/ init_rpc_client(p)
                \/ create_proxy_pid_file(p) \/ connect_to_hosts(p)
                \/ begin_wait(p) \/ init_failed(p)
                \/ destroy_enviroment(p) \/ remove_proxy_pid_file(p)
ClientStep(c) == \/ client_read_hosts_file(c) \/ check_for_proxy(c)
                 \/ init_hermes_client(c) \/ client_connect_to_hosts(c)
                 \/ lookup_proxy_addr(c) \/ forward_get_fs_config(c)

Next == \/ \E p \in Proxies : \/ main(p) \/ ProxyStep(p)
                              \/ shutdown_handler(p) \/ Killed(p)
        \/ \E c \in Clients : \/ init_preload(c) \/ ClientStep(c)
                              \/ destroy_preload(c)
        \/ Restart
        \/ /\ \A p \in Proxies : proxy[p].pc \in {"exited", "killed"}
           /\ \A c \in Clients : client[c].pc \in ClientDown \ {"off"}
           /\ UNCHANGED vars

Spec == Init /\ [][Next]_vars

(* Processes that were started run.                                        *)
FairSpec == /\ Spec
            /\ \A p \in Proxies : WF_vars(ProxyStep(p))
            /\ \A c \in Clients : WF_vars(ClientStep(c))

--------------------------------------------------------------------------
(* A pid file with content names a proxy whose IPC server was set up and   *)
(* which has not exited, or one that was killed: create_proxy_pid_file     *)
(* comes after init_ipc_server and every orderly end removes the file,     *)
(* however the starts and ends of two proxies interleave.                  *)
PidFileNamesServer ==
    pidfile.st = "full" => proxy[pidfile.pid].pc \in Serving \cup {"killed"}

(* Every client, before and after the daemons have been restarted and have *)
(* registered in another order, numbers the hosts in the same way, so that *)
(* it finds the files of earlier clients.                                  *)
ClientsAgree ==
    \A c \in Clients : client[c].hosts \in {<<>>, first}

(* A client that gives up on the file system configuration has found the   *)
(* local daemon and every daemon but the last of its list dead.            *)
ConfigRetried ==
    \A c \in Clients :
        client[c].pc = "noconfig" =>
            /\ LocalDaemon \in dead \cup {0}
            /\ \A i \in 1 .. Len(client[c].hosts) - 1 : client[c].hosts[i] \in dead

(* Every start of a proxy or a client ends, in service or in an exit.      *)
StartsEnd ==
    /\ \A p \in Proxies : AtProxy(p, "check") ~> proxy[p].pc \in {"wait"} \cup ProxyDown
    /\ \A c \in Clients : AtClient(c, "hosts") ~> client[c].pc \in {"running"} \cup ClientDown

-----------------------------------------------------------------------------
(* Statements of the repository that the code does not meet: TLC refutes   *)
(* each of those below (README, "Disagreements").                          *)

(* A proxy and a client of the node compute the same distribution: the     *)
(* same daemon for every host identifier.                                  *)
SameDistribution ==
    \A p \in Proxies, c \in Clients :
        proxy[p].pc = "wait" /\ client[c].pc = "running"
            => proxy[p].hosts = client[c].hosts

(* While a proxy runs, clients detect it.                                  *)
RunningProxyDetected ==
    \A p \in Proxies : proxy[p].pc = "wait" => pidfile.st = "full" /\ pidfile.pid = p

(* At most one proxy of a node is running.                                 *)
OneProxy ==
    \A p, q \in Proxies : proxy[p].pc = "wait" /\ proxy[q].pc = "wait" => p = q
=============================================================================
