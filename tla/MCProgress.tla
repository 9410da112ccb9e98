----------------------------- MODULE MCProgress -----------------------------
(***************************************************************************)
(* What has to happen in the end: calls return, processes get through      *)
(* their start, an expansion ends.  A behaviour is about one of the parts  *)
(* below.  The expansion has its own variables, which the other parts      *)
(* leave alone.  The other parts share theirs: main holds the threads,     *)
(* clients or processes of a part, s1, s2, ... the rest of its state, and  *)
(* what a part does not need is 0.  The first chunk of a file is on daemon *)
(* 0 (see MCData).                                                         *)
(*                                                                         *)
(* Only the steps that the code takes by itself are fair: those of a       *)
(* thread inside a call, of a daemon that has a request, of a process that *)
(* starts.                                                                 *)
(***************************************************************************)
EXTENDS Expansion

VARIABLES part, main, s1, s2, s3, s4, s5, s6, s7, s8, s9, s10, s11, s12

From11 == <<s11, s12>>
From10 == <<s10, From11>>
From9  == <<s9, From10>>
From8  == <<s8, From9>>
Others == <<main, s1, s2, s3, s4, s5, s6, s7, From8>>
MCVars == <<part, vars, Others>>
None11 == s11 = 0 /\ s12 = 0
None10 == s10 = 0 /\ None11
None9  == s9 = 0 /\ None10
None8  == s8 = 0 /\ None9

-----------------------------------------------------------------------------
(* "data": three copies on three daemons, and one failure of any kind.     *)
(* When every copy that a read may draw has lost an answer, the read draws *)
(* for ever (README, "Disagreements"); with one replica one loss is enough. *)
Data == INSTANCE DataPath WITH
  op <- main, place <- s1, store <- s2, dirs <- s3, msize <- s4, nops <- s5, faults <- s6, last <- s7,
  cut <- s8, loose <- s9, behind <- s10,
  Hosts <- {0, 1, 2}, ChunkSize <- 2, Clients <- {"c1"}, Ranges <- {<<1, 3>>}, Lengths <- {1},
  Replicas <- 2, MaxOps <- 2, Faults <- {"task", "answer", "post"}, MaxFaults <- 1

(* "proxy": every operation through a proxy, with every kind of failure. *)
Proxied == INSTANCE Proxy WITH
  op <- main, place <- s1, md <- s2, store <- s3, dirs <- s4, loose <- s5, nops <- s6, nfaults <- s7,
  reserved <- s8,
  Hosts <- {0, 1}, ChunkSize <- 2, Clients <- {"c1"}, Ranges <- {<<1, 3>>}, MaxOps <- 2, MaxFaults <- 2,
  Kinds <- {"create", "unlink", "rmdir", "stat", "seek_end", "list", "statfs", "write", "read", "open_trunc"},
  Faults <- {"post", "send", "daemon", "lost", "bulk", "input"}

(* "files": two threads that share open files. *)
Files == INSTANCE OpenFileMap WITH
  call <- main, files <- s1, obj <- s2, fd_idx <- s3, fd_validation_needed <- s4, files_mutex <- s5,
  ret <- s6, size <- s7, ncalls <- s8, owner <- s9, expected <- s10, raced <- s11, unguarded <- s12,
  Threads <- {"t1", "t2"}, NoThread <- "nobody", FirstFd <- 4, WrapFd <- 5, LastFd <- 8, MaxOpenFds <- 3,
  MaxSize <- 0, Entries <- 2, Offsets <- {0}, Objs <- 1 .. 2, Dup2Targets <- {1}, MaxCalls <- 3,
  Kinds <- {<<"regular", FALSE>>, <<"directory", FALSE>>},
  Ops <- {"open", "dup", "close", "write", "seek_end", "getdents", "fsync"}

(* "names": two clients, one lost message; no renames, since a stat can    *)
(* follow two entries that are each other's target for ever.               *)
To(kind, p, flags) == [kind |-> kind, path |-> p, new |-> "/", flags |-> flags]
MCParent(p) == "/"
MCHash(p) == IF p = "d" THEN 1 ELSE 0
MCChunkHash(p, chunk) == chunk
Names == INSTANCE Namespace WITH
  cl <- main, db <- s1, data <- s2, ncalls <- s3, nfaults <- s4, made <- s5, span <- s6, view <- s7,
  Paths <- {"/", "a", "d"}, Root <- "/", Parent <- MCParent, Hash <- MCHash, ChunkHash <- MCChunkHash,
  Clients <- {"c1", "c2"}, Hosts <- {0, 1}, Replicas <- 0, CheckParents <- FALSE, MaxCalls <- 2,
  Calls <- {To("open", "a", {"creat"}), To("open", "a", {"creat", "trunc"}), To("open", "/", {}),
            To("write", "a", {}), To("remove", "a", {}), To("stat", "a", {}), To("rmdir", "d", {}),
            To("mkdir", "d", {})},
  Faults <- {"request", "answer", "post"}, MaxFaults <- 1

(* "dirs": two threads read a directory until 0 is returned. *)
MCNameSize(n) == CASE n = "i" -> 1 [] n = "iiii" -> 4 [] n = "vvvvv" -> 5 [] OTHER -> 12
Entry(n) == [name |-> n, dir |-> FALSE, size |-> 1, ctime |-> 2]
Counts == {40, 60, 80}
Dirs == INSTANCE DirEntries WITH
  dir <- main, held <- s1, out <- s2, th <- s3, got <- s4, from <- s5, seen <- s6, single <- s7,
  Threads <- {"t1", "t2"}, Hosts <- <<"h0", "h1">>, BuffSize <- 60, NameSize <- MCNameSize,
  Contents <- {[h0 |-> <<Entry("i"), Entry("vvvvv")>>, h1 |-> <<Entry("iiii"), Entry("vvvvvvvvvvvv")>>]},
  Extended <- FALSE, Counts <- Counts, Seeks <- FALSE, Record <- "getdents64"

(* "daemons": two daemons that start once, with failing steps. *)
Starting == INSTANCE DaemonLife WITH
  pc <- main, layout <- s1, hostsfile <- s2, epoch <- s3, opts <- s4, attempt <- s5, up <- s6,
  mdirs <- s7, chunks <- s8, killed <- s9, signalled <- s10, nfaults <- s11, torn <- s12,
  Daemons <- {1, 2}, Layouts <- {[metadir |-> FALSE, forwarding |-> FALSE, proxy |-> FALSE]},
  Arguments <- {"good"}, Cleaning <- {{}}, Faults <- {"step", "line"}, MaxStarts <- 1, MaxFaults <- 1

(* "node": a proxy and a client of a node, daemons that may be dead. *)
Node == INSTANCE ProxyLife WITH
  proxy <- main, client <- s1, lines <- s2, dead <- s3, pidfile <- s4, first <- s5, nfaults <- s6,
  nrestarts <- s7,
  Daemons <- {1, 2}, Proxies <- {1}, Clients <- {"c1"}, LocalDaemon <- 0,
  Faults <- {"dead", "step", "lookup", "kill"}, MaxFaults <- 1, MaxRestarts <- 0

(* "expand": daemon 1 joins daemons 2 and 3, which get other numbers and   *)
(* have something to send to each other; one thing fails.                  *)
Joining   == <<{1}>>
Hostnames == <<1, 2, 3>>
OneFile   == [c |-> "file"]
NoExpansion == Init /\ hostsfile = <<3, 2>> /\ hash = [i \in Items |-> 0]

-----------------------------------------------------------------------------
MCInit ==
  \/ part = "data" /\ Data!Init /\ s1[0] = 0 /\ NoExpansion /\ None11
  \/ part = "proxy" /\ Proxied!Init /\ s1[0] = 0 /\ NoExpansion /\ None9
  \/ part = "files" /\ Files!Init /\ NoExpansion
  \/ part = "names" /\ Names!Init /\ NoExpansion /\ None8
  \/ part = "dirs" /\ Dirs!Init /\ NoExpansion /\ None8
  \/ part = "daemons" /\ Starting!Init /\ NoExpansion
  \/ part = "node" /\ Node!Init /\ NoExpansion /\ None8
  \/ /\ part = "expand" /\ Init /\ hostsfile = <<3, 2>> /\ hash["f"] = 1 /\ hash["c"] = 2 /\ None8 /\ main = 0
     /\ s1 = 0 /\ s2 = 0 /\ s3 = 0 /\ s4 = 0 /\ s5 = 0 /\ s6 = 0 /\ s7 = 0

MCNext ==
  \/ part = "data" /\ Data!Next /\ UNCHANGED <<part, vars, From11>>
  \/ part = "proxy" /\ Proxied!Next /\ UNCHANGED <<part, vars, From9>>
  \/ part = "files" /\ Files!Next /\ UNCHANGED <<part, vars>>
  \/ part = "names" /\ Names!Next /\ UNCHANGED <<part, vars, From8>>
  \/ part = "dirs" /\ Dirs!Next /\ UNCHANGED <<part, vars, From8>>
  \/ part = "daemons" /\ Starting!Next /\ UNCHANGED <<part, vars>>
  \/ part = "node" /\ Node!Next /\ UNCHANGED <<part, vars, From8>>
  \/ part = "expand" /\ Next /\ UNCHANGED <<part, Others>>

(* A daemon serves the requests it has, and the client that sent them      *)
(* gathers the answers.                                                    *)
DataStep(c) == /\ part = "data"
               /\ Data!Send(c) \/ Data!Daemon(c) \/ Data!Gather(c)
               /\ UNCHANGED <<part, vars, From11>>
ProxyStep(c) == part = "proxy" /\ Proxied!Step(c) /\ UNCHANGED <<part, vars, From9>>
(* A thread inside a call goes on with it. *)
FileStep(t) == part = "files" /\ Files!Work(t) /\ UNCHANGED <<part, vars>>
NameStep(c) == part = "names" /\ Names!Progress(c) /\ UNCHANGED <<part, vars, From8>>
ReadStep(t) == part = "dirs" /\ Dirs!EndRead(t) /\ UNCHANGED <<part, vars, From8>>
(* The application reads on until 0 is returned. *)
ReadAgain(t) == /\ part = "dirs" /\ \E n \in Counts : Dirs!gkfs_getdents(t, n)
                /\ UNCHANGED <<part, vars, From8>>
(* A process that starts, or ends, is not stopped by the system. *)
StartStep(d) == part = "daemons" /\ Starting!Progress(d) /\ UNCHANGED <<part, vars>>
NodeProxy(p) == part = "node" /\ Node!ProxyStep(p) /\ UNCHANGED <<part, vars, From8>>
NodeClient(c) == part = "node" /\ Node!ClientStep(c) /\ UNCHANGED <<part, vars, From8>>
(* The tool is a process of its own, and Argobots runs every handler and   *)
(* thread that can go on.                                                  *)
ScriptStep == part = "expand" /\ (Script \/ Start("script")) /\ UNCHANGED <<part, Others>>
HandleStep(d) == part = "expand" /\ Handle("script", d) /\ UNCHANGED <<part, Others>>
ThreadStep(d) == part = "expand" /\ Thread(d) /\ UNCHANGED <<part, Others>>

(* The fair steps, one kind of each part at most: since a behaviour stays  *)
(* in its part, fairness of the disjunction is fairness of each of them.   *)
First  == \/ DataStep("c1") \/ ProxyStep("c1") \/ FileStep("t1") \/ NameStep("c1") \/ ReadStep("t1")
          \/ StartStep(1) \/ NodeProxy(1) \/ HandleStep(1)
Second == \/ FileStep("t2") \/ NameStep("c2") \/ ReadStep("t2")
          \/ StartStep(2) \/ NodeClient("c1") \/ HandleStep(2)
Third  == ReadAgain("t1") \/ ThreadStep(2)
Fourth == ReadAgain("t2") \/ ThreadStep(3)

MCSpec ==
  /\ MCInit /\ [][MCNext]_MCVars
  /\ WF_MCVars(First) /\ WF_MCVars(Second) /\ WF_MCVars(Third) /\ WF_MCVars(Fourth)
  /\ WF_MCVars(ScriptStep) /\ WF_MCVars(HandleStep(3))

-----------------------------------------------------------------------------
(* Every write, read and truncation returns, whatever tasklet, answer or   *)
(* post fails: each posted request is waited for and forgotten once, and a *)
(* read that is made again finds a copy.                                   *)
DataReturns == (part = "data" /\ main["c1"].pc \notin {"idle", "done"})
               ~> (part = "data" /\ main["c1"].pc = "done")

(* Every operation through a proxy returns: the proxy answers each request *)
(* it took, also when it could not serve it.                               *)
ProxyReturns == (part = "proxy" /\ main["c1"].pc = "post") ~> (part = "proxy" /\ Proxied!Done("c1"))

(* Every call on a descriptor returns: the mutex of the table is released  *)
(* on every path, and the search for a free number ends.                   *)
FilesReturn == \A t \in {"t1", "t2"} :
  (part = "files" /\ main[t] # Files!Idle) ~> (part = "files" /\ main[t] = Files!Idle)

(* Every metadata call returns, whatever message is lost: the loops over   *)
(* copies end.                                                             *)
NamesReturn == \A c \in {"c1", "c2"} :
  (part = "names" /\ ~Names!At(c, "idle")) ~> (part = "names" /\ Names!At(c, "done"))

(* Threads that share a descriptor get to the end of the directory.        *)
ReadsEnd == (part = "dirs" /\ main.state = "open")
            ~> (part = "dirs" /\ (main.pos = Len(main.entries) \/ main.state = "closed"))

(* A daemon that was started serves, or has ended, whatever step fails.    *)
StartEnds == \A d \in {1, 2} :
  (part = "daemons" /\ main[d] \in Starting!Parsing \cup Starting!Initialising)
  ~> (part = "daemons" /\ main[d] \in {"wait", "exited"})

(* So does a proxy, and a client gets through its start or gives up: the   *)
(* search for a daemon that answers ends.                                  *)
NodeStarts ==
  /\ (part = "node" /\ main[1].pc = "check") ~> (part = "node" /\ main[1].pc \in {"wait"} \cup Node!ProxyDown)
  /\ (part = "node" /\ s1["c1"].pc = "hosts") ~> (part = "node" /\ s1["c1"].pc \in {"running"} \cup Node!ClientDown)

(* The script of an expansion ends, though a daemon fails to start its     *)
(* redistribution, a transfer fails, or a request or an answer is lost.    *)
ScriptEnds == (part = "expand") ~> (part = "expand" /\ tool["script"].pc = "done")

(* Every call that a client makes comes back, and a directory is read to   *)
(* its end.                                                                *)
CallsReturn == DataReturns /\ ProxyReturns /\ FilesReturn /\ NamesReturn /\ ReadsEnd

(* Every process that is started gets through its start or ends, and so    *)
(* does an expansion.                                                      *)
StartsEnd == StartEnds /\ NodeStarts /\ ScriptEnds
=============================================================================
