------------------------------- MODULE MCData -------------------------------
(***************************************************************************)
(* File data on its way between clients and chunk files, directly          *)
(* (DataPath) and through a proxy (Proxy).  A behaviour is about one of    *)
(* the parts below, each with bounds of its own.  The first part has the   *)
(* variables of DataPath, which the other parts leave alone, and so have   *)
(* its properties.  The other parts share s1, s2, ..., and what a part     *)
(* does not need is 0.  Two daemons and chunks of two bytes, where nothing *)
(* else is said.  The daemons differ by their numbers only, and all that   *)
(* is computed with these goes round (locate_data), so that the first      *)
(* chunk is on daemon 0; the clients are interchangeable.                  *)
(***************************************************************************)
EXTENDS DataPath, TLC

VARIABLES part, s1, s2, s3, s4, s5, s6, s7, s8, s9, s10, s11

Others == <<s1, s2, s3, s4, s5, s6, s7, s8, s9, s10, s11>>
MCVars == <<part, vars, Others>>

-----------------------------------------------------------------------------
(* "path", with the constants of the configuration: two copies on three    *)
(* daemons, and writes, reads and truncations of two clients at the same   *)
(* time, one of whose tasklets, answers or posts fails.                    *)
ThreeHosts == {0, 1, 2}
TwoHosts   == {0, 1}
TwoRanges  == {<<0, 3>>, <<1, 2>>}
ClientSymmetry == Permutations(Clients)

(* "shared": three operations of two clients, without copies. *)
SharedFile == INSTANCE DataPath WITH
  place <- s1, store <- s2, dirs <- s3, op <- s4, loose <- s5, nops <- s6, msize <- s7, faults <- s8,
  last <- s9, cut <- s10, behind <- s11,
  Hosts <- TwoHosts, Lengths <- {0, 1}, Replicas <- 0, MaxOps <- 3, Faults <- {}, MaxFaults <- 0

(* "layout": every range within seven bytes, on any placement of chunks. *)
Layout == INSTANCE DataPath WITH
  place <- s1, store <- s2, dirs <- s3, op <- s4, loose <- s5, nops <- s6, msize <- s7, faults <- s8,
  last <- s9, cut <- s10, behind <- s11,
  Hosts <- TwoHosts, Clients <- {"c1"}, Ranges <- {r \in (0 .. 6) \X (1 .. 7) : r[1] + r[2] <= 7},
  Lengths <- {0, 1, 3, 4}, Replicas <- 0, MaxOps <- 2,
  Faults <- {}, MaxFaults <- 0

(* "copies": two copies on three daemons, with two failing tasklets or lost answers. *)
Copies == INSTANCE DataPath WITH
  place <- s1, store <- s2, dirs <- s3, op <- s4, loose <- s5, nops <- s6, msize <- s7, faults <- s8,
  last <- s9, cut <- s10, behind <- s11,
  Clients <- {"c1"}, Ranges <- {<<0, 3>>, <<3, 1>>}, Lengths <- {0, 1, 2},
  Replicas <- 1, MaxOps <- 2, Faults <- {"task", "answer"}, MaxFaults <- 2

(* "posts": requests that cannot be posted, and those left behind by a     *)
(* call that returned.                                                     *)
Posts == INSTANCE DataPath WITH
  place <- s1, store <- s2, dirs <- s3, op <- s4, loose <- s5, nops <- s6, msize <- s7, faults <- s8,
  last <- s9, cut <- s10, behind <- s11, Hosts <- TwoHosts,
  Clients <- {"c1"}, Ranges <- {<<0, 3>>, <<1, 2>>}, Lengths <- {0, 1}, Replicas <- 0, MaxOps <- 3,
  Faults <- {"post"}, MaxFaults <- 1

(* "reread": three copies, one failure of any kind; reads change to        *)
(* another copy.                                                           *)
Reread == INSTANCE DataPath WITH
  place <- s1, store <- s2, dirs <- s3, op <- s4, loose <- s5, nops <- s6, msize <- s7, faults <- s8,
  last <- s9, cut <- s10, behind <- s11,
  Clients <- {"c1"}, Ranges <- {<<0, 3>>}, Lengths <- {0}, Replicas <- 2, MaxOps <- 2,
  Faults <- {"task", "answer", "post"}, MaxFaults <- 1

(* "proxied": data through a proxy; with chunks of two bytes an unaligned  *)
(* range over two chunks, and three chunks of which the last is short.     *)
Proxied == INSTANCE Proxy WITH
  place <- s1, store <- s2, dirs <- s3, op <- s4, loose <- s5, nops <- s6, md <- s7, nfaults <- s8,
  reserved <- s9, Hosts <- TwoHosts,
  Kinds <- {"create", "write", "read", "open_trunc"},
  Ranges <- {<<1, 2>>, <<0, 5>>}, Faults <- {"post", "send", "daemon", "lost", "bulk"},
  MaxOps <- 3, MaxFaults <- 1

(* "metadata": the other operations of the proxy. *)
Metadata == INSTANCE Proxy WITH
  place <- s1, store <- s2, dirs <- s3, op <- s4, loose <- s5, nops <- s6, md <- s7, nfaults <- s8,
  reserved <- s9, Hosts <- TwoHosts,
  Kinds <- {"create", "unlink", "rmdir", "stat", "seek_end", "list", "statfs"},
  Ranges <- {<<0, 2>>}, Faults <- {"post", "send", "daemon", "lost"}, MaxOps <- 2, MaxFaults <- 1

NoPath   == Init /\ place = [c \in ChunkIds |-> 0]
NoOthers == /\ s1 = 0 /\ s2 = 0 /\ s3 = 0 /\ s4 = 0 /\ s5 = 0 /\ s6 = 0 /\ s7 = 0 /\ s8 = 0
            /\ s9 = 0 /\ s10 = 0 /\ s11 = 0

MCInit ==
  \/ part = "path" /\ Init /\ place[0] = 0 /\ NoOthers
  \/ part = "shared" /\ SharedFile!Init /\ s1[0] = 0 /\ NoPath
  \/ part = "layout" /\ Layout!Init /\ s1[0] = 0 /\ NoPath
  \/ part = "copies" /\ Copies!Init /\ s1[0] = 0 /\ NoPath
  \/ part = "posts" /\ Posts!Init /\ s1[0] = 0 /\ NoPath
  \/ part = "reread" /\ Reread!Init /\ s1[0] = 0 /\ NoPath
  \/ part = "proxied" /\ Proxied!Init /\ s1[0] = 0 /\ s10 = 0 /\ s11 = 0 /\ NoPath
  \/ part = "metadata" /\ Metadata!Init /\ s1[0] = 0 /\ s10 = 0 /\ s11 = 0 /\ NoPath

MCNext ==
  \/ part = "path" /\ Next /\ UNCHANGED <<part, Others>>
  \/ part = "shared" /\ SharedFile!Next /\ UNCHANGED <<part, vars>>
  \/ part = "layout" /\ Layout!Next /\ UNCHANGED <<part, vars>>
  \/ part = "copies" /\ Copies!Next /\ UNCHANGED <<part, vars>>
  \/ part = "posts" /\ Posts!Next /\ UNCHANGED <<part, vars>>
  \/ part = "reread" /\ Reread!Next /\ UNCHANGED <<part, vars>>
  \/ part = "proxied" /\ Proxied!Next /\ UNCHANGED <<part, vars, s10, s11>>
  \/ part = "metadata" /\ Metadata!Next /\ UNCHANGED <<part, vars, s10, s11>>

MCSpec == MCInit /\ [][MCNext]_MCVars

-----------------------------------------------------------------------------
(* BytesInPlace of DataPath with the other bounds: the daemons' walk over  *)
(* a request inverts the client's cutting and grouping of the range.       *)
(* BytesInPlace and WholeRangeMoved of Proxy: daemons work out alone which *)
(* bytes of a proxied request are theirs, take none of another's, and      *)
(* leave none between two of them.                                         *)
PiecesInPlace ==
  /\ part = "shared" => SharedFile!BytesInPlace
  /\ part = "layout" => Layout!BytesInPlace
  /\ part = "copies" => Copies!BytesInPlace
  /\ part = "posts" => Posts!BytesInPlace
  /\ part = "reread" => Reread!BytesInPlace
  /\ part = "proxied" => Proxied!BytesInPlace /\ Proxied!WholeRangeMoved

(* ReadIsFresh of DataPath: no read returns an older byte than the writes  *)
(* that were complete when it began, also when it changes to another copy. *)
(* LastWriteStored with the other bounds: what is stored when all calls    *)
(* are done comes from the last write or from a failed one that may still  *)
(* run.                                                                    *)
DataIsLatest ==
  /\ part = "path" => ReadIsFresh
  /\ part = "shared" => SharedFile!ReadIsFresh /\ SharedFile!LastWriteStored
  /\ part = "layout" => Layout!ReadIsFresh /\ Layout!LastWriteStored
  /\ part = "copies" => Copies!ReadIsFresh /\ Copies!LastWriteStored
  /\ part = "posts" => Posts!ReadIsFresh /\ Posts!LastWriteStored
  /\ part = "reread" => Reread!ReadIsFresh /\ Reread!LastWriteStored

(* AckedOnACopy of DataPath with failures: a write that reports success is *)
(* complete on the copies taken together, and reports its whole length; a  *)
(* truncation to zero that reports it has left no chunk file.              *)
(* FailuresAreReported of Proxy: what fails at a daemon, or on the way, is *)
(* an error for the client of the proxy.                                   *)
NoFalseSuccess ==
  /\ part = "path" => FullWrite
  /\ part = "copies" => Copies!AckedOnACopy /\ Copies!FullWrite
  /\ part = "posts" => Posts!AckedOnACopy /\ Posts!FullWrite /\ Posts!TruncateToZeroEmpties
  /\ part = "reread" => Reread!AckedOnACopy /\ Reread!FullWrite
  /\ part = "proxied" => Proxied!FailuresAreReported
  /\ part = "metadata" => Metadata!FailuresAreReported
=============================================================================
