---------------------------- MODULE MCNamespace ----------------------------
(***************************************************************************)
(* The metadata operations of clients on small trees (Namespace), and      *)
(* where entries and chunks are when daemons join (Expansion).  A          *)
(* behaviour is about one of the parts below: plain names, a tree with     *)
(* checked parents, the data of removed files (two parts), one lost        *)
(* message with a replica, listings, an expansion, and one that two        *)
(* operators ask for.                                                      *)
(* The expansions have variables of their own, which the other parts leave *)
(* alone.                                                                  *)
(***************************************************************************)
EXTENDS Expansion, TLC

CONSTANTS c1, c2

VARIABLES part, db, data, cl, ncalls, nlost, made, span, view

nsVars == <<db, data, cl, ncalls, nlost, made, span, view>>
MCVars == <<part, nsVars, vars>>

TreePaths == {"/", "a", "b", "d", "d/f"}
FlatPaths == {"/", "a", "b", "c"}
MCParent(p) == IF p = "d/f" THEN "d" ELSE "/"
MCHash(p) == CASE p = "/" -> 0 [] p = "a" -> 0 [] p = "b" -> 1 [] p = "c" -> 1
               [] p = "d" -> 1 [] p = "d/f" -> 0
MCChunkHash(p, chunk) == MCHash(p) + 1 + chunk \div 2

(* Where there are two clients, they are interchangeable. *)
ClientSymmetry == Permutations({c1, c2})

-----------------------------------------------------------------------------
(* The calls of the clients. *)
To(kind, path, new, flags) == [kind |-> kind, path |-> path, new |-> new, flags |-> flags]
Creat(p)     == To("open", p, "/", {"creat"})
Open(p)      == To("open", p, "/", {})
Trunc(p)     == To("open", p, "/", {"creat", "trunc"})
Excl(p)      == To("open", p, "/", {"creat", "excl"})
Mkdir(p)     == To("mkdir", p, "/", {})
Stat(p)      == To("stat", p, "/", {})
Unlink(p)    == To("remove", p, "/", {})
Rmdir(p)     == To("rmdir", p, "/", {})
Write(p)     == To("write", p, "/", {})
WriteBig(p)  == To("write", p, "/", {"big"})
Rename(p, q) == To("rename", p, q, {})

NameCalls == LET F == FlatPaths \ {"/"} IN
    {Creat(p) : p \in F} \cup {Unlink(p) : p \in F} \cup {Stat(p) : p \in F}
    \cup {Rename(p, q) : p \in F, q \in F}
    \cup {To("statx", "b", "/", {}), To("access", "c", "/", {})}
TreeCalls == {Mkdir("d"), Creat("d/f"), Mkdir("d/f"), Excl("d"), Creat("a"), Unlink("d/f"),
              Rmdir("d"), Rmdir("d/f"), Open("d"), Unlink("d")}
DataCalls == {Creat("a"), Trunc("a"), Write("a"), WriteBig("a"), Unlink("a"), Rename("a", "b"),
              Unlink("b"), Open("b"), Trunc("b"), Rename("b", "a"), Rmdir("a")}
HiddenCalls == {Creat("a"), Mkdir("a"), Stat("a"), Unlink("a")}
ListCalls == {Creat("a"), Creat("c"), Unlink("a"), Rename("a", "b"), Open("/")}

-----------------------------------------------------------------------------
(* One client, no faults, renames in chains and back. *)
Plain == INSTANCE Namespace WITH
  nfaults <- nlost, Paths <- FlatPaths, Root <- "/", Parent <- MCParent, Hash <- MCHash, ChunkHash <- MCChunkHash,
  Clients <- {"c1"}, Hosts <- {0, 1}, Replicas <- 0, CheckParents <- FALSE,
  Calls <- NameCalls, MaxCalls <- 5, Faults <- {}, MaxFaults <- 0

(* One client, two lost messages, a replica of every entry. *)
Tree == INSTANCE Namespace WITH
  nfaults <- nlost, Paths <- TreePaths, Root <- "/", Parent <- MCParent, Hash <- MCHash, ChunkHash <- MCChunkHash,
  Clients <- {"c1"}, Hosts <- {0, 1}, Replicas <- 1, CheckParents <- TRUE,
  Calls <- TreeCalls, MaxCalls <- 4, Faults <- {"request", "answer"}, MaxFaults <- 2

(* One client and three daemons: a file has chunks on some or on all. *)
Removal == INSTANCE Namespace WITH
  nfaults <- nlost, Paths <- FlatPaths, Root <- "/", Parent <- MCParent, Hash <- MCHash, ChunkHash <- MCChunkHash,
  Clients <- {"c1"}, Hosts <- {0, 1, 2}, Replicas <- 1, CheckParents <- FALSE,
  Calls <- DataCalls, MaxCalls <- 6, Faults <- {}, MaxFaults <- 0

(* The same without copies, where files that were renamed can be removed:  *)
(* rename does not support replication.                                    *)
Renamed == INSTANCE Namespace WITH
  nfaults <- nlost, Paths <- FlatPaths, Root <- "/", Parent <- MCParent, Hash <- MCHash, ChunkHash <- MCChunkHash,
  Clients <- {"c1"}, Hosts <- {0, 1, 2}, Replicas <- 0, CheckParents <- FALSE,
  Calls <- DataCalls, MaxCalls <- 5, Faults <- {}, MaxFaults <- 0

(* Two clients, one lost message, a replica. *)
Replicated == INSTANCE Namespace WITH
  nfaults <- nlost, Paths <- TreePaths, Root <- "/", Parent <- MCParent, Hash <- MCHash, ChunkHash <- MCChunkHash,
  Clients <- {c1, c2}, Hosts <- {0, 1}, Replicas <- 1, CheckParents <- FALSE,
  Calls <- HiddenCalls, MaxCalls <- 4, Faults <- {"request", "answer"}, MaxFaults <- 1

(* Two clients: one lists while the other changes names. *)
Listings == INSTANCE Namespace WITH
  nfaults <- nlost, Paths <- FlatPaths, Root <- "/", Parent <- MCParent, Hash <- MCHash, ChunkHash <- MCChunkHash,
  Clients <- {c1, c2}, Hosts <- {0, 1}, Replicas <- 0, CheckParents <- FALSE,
  Calls <- ListCalls, MaxCalls <- 4, Faults <- {}, MaxFaults <- 0

-----------------------------------------------------------------------------
(* Daemon 1 joins daemons 2 and 3, which get other numbers, send to each   *)
(* other and to the new one, and hold chunks of the same file.  In         *)
(* "expand" one thing fails; in "operators" a second operator asks for the *)
(* same expansion and nothing fails.  The hosts file is not in order, and  *)
(* the two chunks are alike.                                               *)
Joining   == <<{1}>>
Hostnames == <<1, 2, 3>>
OneFile   == [k1 |-> "file", k2 |-> "file"]

ExpandInit == /\ Init /\ hostsfile = <<3, 2>>
              /\ \/ part = "expand" /\ hash["f"] = hash["k1"] /\ hash["k1"] <= hash["k2"]
                 \/ part = "operators" /\ hash = [f |-> 1, k1 |-> 1, k2 |-> 2]
ExpandNext == /\ Next
              /\ \/ part = "expand" /\ tool'["op"] = tool["op"]
                 \/ part = "operators" /\ nfaults' = 0
NoExpansion == Init /\ hostsfile = <<3, 2>> /\ hash = [i \in Items |-> 0]
NoNames == /\ db = 0 /\ data = 0 /\ cl = 0 /\ ncalls = 0
           /\ nlost = 0 /\ made = 0 /\ span = 0 /\ view = 0

-----------------------------------------------------------------------------
MCInit == \/ part = "names" /\ Plain!Init /\ NoExpansion
          \/ part = "tree" /\ Tree!Init /\ NoExpansion
          \/ part = "removal" /\ Removal!Init /\ NoExpansion
          \/ part = "renamed" /\ Renamed!Init /\ NoExpansion
          \/ part = "replica" /\ Replicated!Init /\ NoExpansion
          \/ part = "listing" /\ Listings!Init /\ NoExpansion
          \/ part \in {"expand", "operators"} /\ ExpandInit /\ NoNames

MCNext == /\ \/ part = "names" /\ Plain!Next /\ UNCHANGED vars
             \/ part = "tree" /\ Tree!Next /\ UNCHANGED vars
             \/ part = "removal" /\ Removal!Next /\ UNCHANGED vars
             \/ part = "renamed" /\ Renamed!Next /\ UNCHANGED vars
             \/ part = "replica" /\ Replicated!Next /\ UNCHANGED vars
             \/ part = "listing" /\ Listings!Next /\ UNCHANGED vars
             \/ part \in {"expand", "operators"} /\ ExpandNext /\ UNCHANGED nsVars
          /\ UNCHANGED part

MCSpec == MCInit /\ [][MCNext]_MCVars

-----------------------------------------------------------------------------
(* RefinesNames of Namespace: between two calls the entries of the         *)
(* daemons, with their chains of targets and their hidden names, implement *)
(* Names.                                                                  *)
RefinesNames == /\ part = "names" => Plain!NamesSpec!Init
                /\ [][part = "names" => [Plain!NamesSpec!Next]_view]_MCVars

(* StrictHierarchy of Namespace: with parents checked, every entry has its *)
(* parent, whatever messages a client loses.                               *)
StrictHierarchy == part = "tree" => Tree!StrictHierarchy

(* RemovedLeavesNoData of Namespace: a remove that succeeds leaves no      *)
(* chunk of the file on any daemon, under the name it was made with.       *)
RemovedLeavesNoData == /\ part = "removal" => Removal!RemovedLeavesNoData
                       /\ part = "renamed" => Renamed!RemovedLeavesNoData

(* OneFailureHidden of Namespace: with a replica, and without renames,     *)
(* stat finds what was created though one message is lost.                 *)
(* ListingComplete: a listing has every entry that was there all the time, *)
(* and none that never was.                                                *)
LookupsComplete ==
  /\ part = "replica" => Replicated!OneFailureHidden
  /\ part = "listing" => Listings!ListingComplete
=============================================================================
