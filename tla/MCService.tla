----------------------------- MODULE MCService -----------------------------
(***************************************************************************)
(* The processes that make up a file system: daemons that start and end    *)
(* (DaemonLife), proxies and clients of a node (ProxyLife).  A behaviour   *)
(* is about one of the parts below, each with bounds of its own; the       *)
(* variables of the other module keep their first value.                   *)
(***************************************************************************)
EXTENDS DaemonLife

VARIABLES part,
          lines, dead, pidfile, proxy, client, first, nrestarts        \* ProxyLife

daemonVars == <<layout, hostsfile, epoch, pc, opts, attempt, up, mdirs, chunks, torn, killed,
                signalled>>
proxyVars  == <<lines, dead, pidfile, proxy, client, first, nrestarts>>

-----------------------------------------------------------------------------
(* "hosts", with the constants of the configuration: two daemons that      *)
(* start twice, with every kind of failure.                                *)
SomeLayouts == {[metadir |-> FALSE, forwarding |-> FALSE, proxy |-> TRUE]}
NoCleaning == {{}}

(* "lines": a daemon whose lines are lost until it gives up. *)
Lines == INSTANCE DaemonLife WITH Faults <- {"line"}, MaxStarts <- 1, MaxFaults <- MAX_RETRIES

(* "clean": one daemon that starts again and again with any command line,  *)
(* and is killed or fails at any step, in the middle of cleaning too.      *)
Clean == INSTANCE DaemonLife WITH
  Daemons <- {1}, Layouts <- [metadir : BOOLEAN, forwarding : BOOLEAN, proxy : BOOLEAN],
  Arguments <- {"good", "protocol", "proxy_protocol", "mountdir", "suffix", "backend"},
  Cleaning <- SUBSET {"start", "finish"}, Faults <- {"step", "kill"},
  MaxStarts <- 3, MaxFaults <- 2

(* "node": two proxies and two clients of a node, the daemons restarted. *)
OnNode == INSTANCE ProxyLife WITH
  Daemons <- {1, 2}, Proxies <- {1, 2}, Clients <- {"c1", "c2"}, LocalDaemon <- 0,
  Faults <- {"step", "lookup", "kill"}, MaxFaults <- 1, MaxRestarts <- 1

(* "config": clients of three daemons, of which any may be dead. *)
Config == INSTANCE ProxyLife WITH
  Daemons <- {1, 2, 3}, Proxies <- {}, Clients <- {"c1", "c2"}, LocalDaemon <- 2,
  Faults <- {"dead"}, MaxFaults <- 0, MaxRestarts <- 1

NoDaemons == Init
NoProxies == /\ lines = 0 /\ dead = 0 /\ pidfile = 0 /\ proxy = 0 /\ client = 0
             /\ first = 0 /\ nrestarts = 0

MCInit ==
  \/ part = "hosts" /\ Init /\ NoProxies
  \/ part = "lines" /\ Lines!Init /\ NoProxies
  \/ part = "clean" /\ Clean!Init /\ NoProxies
  \/ part = "node" /\ OnNode!Init /\ NoDaemons
  \/ part = "config" /\ Config!Init /\ NoDaemons

MCNext ==
  \/ part = "hosts" /\ Next /\ UNCHANGED <<part, proxyVars>>
  \/ part = "lines" /\ Lines!Next /\ UNCHANGED <<part, proxyVars>>
  \/ part = "clean" /\ Clean!Next /\ UNCHANGED <<part, proxyVars>>
  \/ part = "node" /\ OnNode!Next /\ UNCHANGED <<part, daemonVars>>
  \/ part = "config" /\ Config!Next /\ UNCHANGED <<part, daemonVars>>

MCSpec == MCInit /\ [][MCNext]_<<part, daemonVars, proxyVars, nfaults>>

-----------------------------------------------------------------------------
(* MetadataHasItsData of DaemonLife: the cleaning options of a daemon that *)
(* is started again treat metadata and data alike, and what an interrupted *)
(* cleaning left is mended by the next.  ListedDaemonsServe also with      *)
(* every layout, and when populate_hosts_file gives up after its last      *)
(* attempt.                                                                *)
DaemonsComplete ==
  /\ part = "clean" => Clean!MetadataHasItsData /\ Clean!ListedDaemonsServe
  /\ part = "lines" => Lines!ListedDaemonsServe

(* PidFileNamesServer of ProxyLife: whoever reads the pid file of a proxy  *)
(* finds an IPC server, or one that was killed.                            *)
PidFileNamesServer == part = "node" => OnNode!PidFileNamesServer

(* ClientsAgree of ProxyLife: clients of one file system number its hosts  *)
(* alike, also after a restart of the daemons.  ConfigRetried: a client    *)
(* gives up only when all daemons it could have asked for the              *)
(* configuration are dead.                                                 *)
ClientsConfigured ==
  /\ part = "node" => OnNode!ClientsAgree
  /\ part = "config" => Config!ConfigRetried
=============================================================================
