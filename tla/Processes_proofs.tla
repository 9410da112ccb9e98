-------------------------- MODULE Processes_proofs -------------------------
(***************************************************************************)
(* Proofs about single processes and what they leave to others: a daemon   *)
(* and its directories (DaemonLife), the size cache of a client process    *)
(* (SizeCache), the proxies and clients of a node (ProxyLife).             *)
(***************************************************************************)
EXTENDS DaemonLife, SizeCache, TLAPS

(***************************************************************************)
(* A daemon in the hosts file serves, and a daemon that serves has the     *)
(* data its metadata tell of, for any number of daemons, however           *)
(* they are configured, whichever of their steps fail and however often    *)
(* they are killed and started again.                                      *)
(*                                                                         *)
(* A line says something of the daemon that wrote it, so the invariant     *)
(* ties each line to the place of that daemon in its main function: a line *)
(* is there only between populate_hosts_file and the removal of the file   *)
(* by destroy_enviroment, and what has been set up by the time a daemon    *)
(* registers stays until then, the I/O streams excepted.                   *)
(***************************************************************************)

Parts == {"mdb", "storage", "server", "proxy_server", "io_pool", "client", "managers"}
Registering == {"register", "check", "client", "managers", "handlers", "lock", "wait"}
Listing == Registering \cup {"destroy", "unlist"}
Outside == Down \cup Parsing \cup {"finalize", "delete_meta", "delete_root"}
PCs == Down \cup Parsing \cup Initialising \cup Ending
       \cup {"check", "handlers", "lock", "wait"}

TypeInv ==
    /\ layout \in [Daemons -> Layout]
    /\ hostsfile \in Seq(Daemons \X (0 .. MaxStarts))
    /\ epoch \in [Daemons -> 0 .. MaxStarts]
    /\ pc \in [Daemons -> PCs]
    /\ up \in [Daemons -> SUBSET Parts]
    /\ mdirs \in [Daemons -> [0 .. MaxStarts -> SUBSET (0 .. MaxStarts)]]

(* A daemon whose server answers, with its stores open, a root directory   *)
(* and, until it joins them, its I/O streams.                              *)
ServingWith(config, incarnation, parts, dirs, place) ==
    /\ {"mdb", "storage", "server"} \subseteq parts
    /\ "io_pool" \in parts \/ place = "unlist"
    /\ config.proxy => "proxy_server" \in parts
    /\ Root \in dirs[IF config.forwarding THEN incarnation ELSE 0]
Serving(d) == ServingWith(layout[d], epoch[d], up[d], mdirs[d], pc[d])

(* What init_environment has set up by each of its steps.                  *)
SetUpInv(d) ==
    /\ pc[d] \in {"storage", "server", "proxy_server", "io_pool", "root"} => "mdb" \in up[d]
    /\ pc[d] \in {"server", "proxy_server", "io_pool", "root"} => "storage" \in up[d]
    /\ pc[d] \in {"proxy_server", "io_pool", "root"} => "server" \in up[d]
    /\ pc[d] \in {"io_pool", "root"} /\ layout[d].proxy => "proxy_server" \in up[d]
    /\ pc[d] = "root" => "io_pool" \in up[d]
    /\ pc[d] \in Registering => Serving(d)

LineOk(line, dead, incarnation, place, serving) ==
    line \in dead \/ (line[2] = incarnation /\ place \in Listing /\ serving)
LineInv(i) ==
    LET d == hostsfile[i][1] IN LineOk(hostsfile[i], killed, epoch[d], pc[d], Serving(d))

HInv == /\ TypeInv
        /\ \A d \in Daemons : SetUpInv(d)
        /\ \A i \in DOMAIN hostsfile : LineInv(i)

--------------------------------------------------------------------------
(* A step of daemon d that leaves the other daemons alone.                 *)
Elsewhere(d) ==
    /\ layout' = layout /\ killed \subseteq killed'
    /\ \A e \in Daemons \ {d} : /\ epoch'[e] = epoch[e] /\ pc'[e] = pc[e]
                               /\ up'[e] = up[e] /\ mdirs'[e] = mdirs[e]

(* What such a step has to show: its own place, and its own line.          *)
LEMMA DaemonStep ==
    ASSUME HInv, TypeInv', NEW d \in Daemons, Elsewhere(d), SetUpInv(d)',
           hostsfile' \in {<<>>, hostsfile, Append(hostsfile, MyLine(d))},
           hostsfile' # <<>> =>
              \/ epoch'[d] = epoch[d] /\ pc'[d] \in Listing /\ Serving(d)'
              \/ /\ epoch'[d] = epoch[d] /\ pc'[d] \in Listing /\ (Serving(d) => Serving(d)')
                 /\ hostsfile' = hostsfile
              \/ pc[d] \notin Listing /\ hostsfile' = hostsfile
              \/ MyLine(d) \in killed' /\ hostsfile' = hostsfile
    PROVE  HInv'
  <1>1. ASSUME NEW e \in Daemons
        PROVE  SetUpInv(e)'
    <2>1. CASE e = d
      BY <2>1, Zenon
    <2>2. CASE e # d
      BY <2>2, Zenon DEF HInv, SetUpInv, Elsewhere, Serving
    <2>3. QED  BY <2>1, <2>2, Zenon
  <1> DEFINE Before(line) == LineOk(line, killed, epoch[line[1]], pc[line[1]], Serving(line[1]))
             Later(line) == LineOk(line, killed', epoch'[line[1]], pc'[line[1]],
                              ServingWith(layout'[line[1]], epoch'[line[1]], up'[line[1]], mdirs'[line[1]],
                                          pc'[line[1]]))
  <1>2. ASSUME NEW line \in Daemons \X (0 .. MaxStarts), Before(line), hostsfile' # <<>>
        PROVE  Later(line)
    <2>1. CASE line \in killed
      BY <2>1, Zenon DEF LineOk, Elsewhere
    <2>2. CASE line \notin killed /\ line[1] # d
      <3>1. line[1] \in Daemons \ {d}
        BY <2>2, Zenon
      <3>2. QED
        BY <1>2, <2>2, <3>1, Zenon DEF LineOk, Elsewhere, Serving
    <2>3. CASE line \notin killed /\ line[1] = d
      <3>1. line[2] = epoch[d] /\ pc[d] \in Listing /\ Serving(d)
        BY <1>2, <2>3, Zenon DEF LineOk
      <3>2. line = MyLine(d)
        BY <2>3, <3>1, SMTT(30) DEF MyLine
      <3>3. CASE epoch'[d] = epoch[d] /\ pc'[d] \in Listing /\ Serving(d)'
        BY <2>3, <3>1, <3>3, Zenon DEF LineOk, Serving
      <3>4. CASE MyLine(d) \in killed'
        BY <3>2, <3>4, Zenon DEF LineOk
      <3>5. QED  BY <1>2, <3>1, <3>3, <3>4, Zenon
    <2>4. QED  BY <2>1, <2>2, <2>3, Zenon
  <1>3. hostsfile \in Seq(Daemons \X (0 .. MaxStarts)) /\ MyLine(d) \in Daemons \X (0 .. MaxStarts)
    BY Zenon DEF HInv, TypeInv, MyLine
  <1>4. ASSUME NEW i \in DOMAIN hostsfile
        PROVE  Before(hostsfile[i]) /\ hostsfile[i] \in Daemons \X (0 .. MaxStarts)
    BY <1>3, SMTT(30) DEF HInv, LineInv
  <1>5. ASSUME NEW i \in DOMAIN hostsfile'
        PROVE  Later(hostsfile'[i])
    <2>1. CASE hostsfile' = <<>>
      BY <2>1, SMTT(30)
    <2> HIDE DEF Before, Later
    <2>2. CASE hostsfile' = hostsfile /\ hostsfile' # <<>>
      BY <1>2, <1>4, <2>2, Zenon
    <2>3. CASE hostsfile' = Append(hostsfile, MyLine(d)) /\ hostsfile' # hostsfile
                  /\ hostsfile' # <<>>
      <3>1. CASE i \in DOMAIN hostsfile
        <4>1. hostsfile'[i] = hostsfile[i]
          BY <1>3, <2>3, <3>1, SMTT(30)
        <4>2. QED  BY <1>2, <1>4, <2>3, <3>1, <4>1, Zenon
      <3>2. CASE i \notin DOMAIN hostsfile
        <4>1. hostsfile'[i] = <<d, epoch[d]>>
          BY <1>3, <1>5, <2>3, <3>2, SMTT(30) DEF MyLine
        <4>2. QED  BY <2>3, <4>1, SMTT(30) DEF Later, LineOk, Serving
      <3>3. QED  BY <3>1, <3>2, Zenon
    <2>4. QED  BY <2>1, <2>2, <2>3, Zenon
  <1>6. \A i \in DOMAIN hostsfile' : LineInv(i)'
    BY <1>5, Zenon DEF LineInv, Serving
  <1>7. QED  BY <1>1, <1>6, Zenon DEF HInv

--------------------------------------------------------------------------
(* The steps of init_environment that set a part up.                       *)
LEMMA SetUpKeeps ==
    ASSUME HInv, NEW d \in Daemons, NEW part \in Parts, pc[d] = part, SetUp(d, part)
    PROVE  HInv'
  <1>1. /\ up' = [up EXCEPT ![d] = up[d] \cup {part}] /\ pc' = [pc EXCEPT ![d] = After[part]]
        /\ hostsfile' = hostsfile /\ mdirs' = mdirs /\ layout' = layout /\ epoch' = epoch
        /\ killed' = killed
    BY Zenon DEF SetUp, Goto, Unchanged
  <1>2. /\ part = "mdb" => After[part] = "storage"
        /\ part = "storage" => After[part] = "server"
        /\ part = "server" => After[part] = "proxy_server"
        /\ part = "proxy_server" => After[part] = "io_pool"
        /\ part = "io_pool" => After[part] = "root"
        /\ part = "client" => After[part] = "managers"
        /\ part = "managers" => After[part] = "handlers"
    BY SMTT(30) DEF After
  <1>3. After[part] \in PCs
    BY <1>2, Zenon DEF Parts, PCs, Initialising
  <1>4. TypeInv'
    BY <1>1, <1>3, Zenon DEF HInv, TypeInv
  <1>5. up'[d] = up[d] \cup {part} /\ pc'[d] = After[part]
    BY <1>1, Zenon DEF HInv, TypeInv
  <1>6. Elsewhere(d)
    BY <1>1, Zenon DEF Elsewhere, HInv, TypeInv
  <1>7. Serving(d) => Serving(d)'
    <2>1. pc[d] # "unlist"
      BY Zenon DEF Parts
    <2>2. QED  BY <1>1, <1>5, <2>1, Zenon DEF Serving, ServingWith
  <1>8. SetUpInv(d)
    BY Zenon DEF HInv
  <1>9. SetUpInv(d)'
    BY <1>1, <1>2, <1>5, <1>7, <1>8, Zenon DEF SetUpInv, Parts, Registering
  <1>10. part \in {"client", "managers"} => pc'[d] \in Registering /\ Serving(d)'
    BY <1>2, <1>5, <1>7, <1>8, Zenon DEF SetUpInv, Registering
  <1>11. part \notin {"client", "managers"} => pc[d] \notin Listing
    BY Zenon DEF Parts, Registering, Listing
  <1>12. QED
    BY <1>1, <1>4, <1>6, <1>9, <1>10, <1>11, DaemonStep, Zenon DEF Listing

(* The steps that change nothing but where the daemon is.                  *)
LEMMA MoveKeeps ==
    ASSUME HInv, NEW d \in Daemons, NEW s \in PCs,
           pc' = [pc EXCEPT ![d] = s], hostsfile' = hostsfile, up' = up, mdirs' = mdirs,
           layout' = layout, epoch' = epoch, killed' = killed,
           \/ pc[d] \in Registering /\ s \in Registering
           \/ pc[d] \in Registering \cup Initialising /\ s = "destroy"
           \/ pc[d] = "proxy_server" /\ s = "io_pool" /\ ~layout[d].proxy
    PROVE  HInv'
  <1>1. TypeInv'
    BY Zenon DEF HInv, TypeInv
  <1>2. Elsewhere(d) /\ pc'[d] = s
    BY Zenon DEF Elsewhere, HInv, TypeInv
  <1>3. SetUpInv(d) /\ (Serving(d) => Serving(d)')
    <2>1. pc[d] # "unlist"
      BY Zenon DEF Registering, Initialising
    <2>2. QED  BY <2>1, Zenon DEF HInv, Serving, ServingWith
  <1>4. SetUpInv(d)'
    BY <1>2, <1>3, Zenon DEF SetUpInv, Registering
  <1>5. CASE pc[d] \in Registering /\ s \in Registering \cup {"destroy"}
    <2>1. Serving(d)'
      BY <1>3, <1>5, Zenon DEF SetUpInv
    <2>2. QED  BY <1>1, <1>2, <1>4, <1>5, <2>1, DaemonStep, Zenon DEF Listing
  <1>6. CASE pc[d] \notin Registering
    <2>1. pc[d] \notin Listing
      BY <1>6, Zenon DEF Initialising, Listing
    <2>2. QED  BY <1>1, <1>2, <1>4, <1>6, <2>1, DaemonStep, Zenon
  <1>7. QED  BY <1>5, <1>6, Zenon DEF Registering

LEMMA RootKeeps ==
    ASSUME HInv, NEW d \in Daemons, create_root(d)
    PROVE  HInv'
  <1> DEFINE m == MetaDir(d)
  <1>1. /\ pc[d] = "root" /\ pc' = [pc EXCEPT ![d] = "register"]
        /\ mdirs' = [mdirs EXCEPT ![d] = [mdirs[d] EXCEPT ![m] = @ \cup {Root}]]
        /\ hostsfile' = hostsfile /\ up' = up /\ layout' = layout /\ epoch' = epoch
        /\ killed' = killed
    BY Zenon DEF create_root, Goto, Unchanged, After
  <1>2. m \in 0 .. MaxStarts /\ m = (IF layout[d].forwarding THEN epoch[d] ELSE 0)
    BY DaemonLifeAssumption, SMTT(30) DEF MetaDir, HInv, TypeInv
  <1>3. mdirs[d] \in [0 .. MaxStarts -> SUBSET (0 .. MaxStarts)]
    BY Zenon DEF HInv, TypeInv
  <1> HIDE DEF m
  <1>4. /\ mdirs'[d] \in [0 .. MaxStarts -> SUBSET (0 .. MaxStarts)]
        /\ Root \in mdirs'[d][m]
    BY <1>1, <1>2, <1>3, DaemonLifeAssumption, SMTT(30) DEF Root, HInv, TypeInv
  <1>5. TypeInv'
    BY <1>1, <1>4, Zenon DEF HInv, TypeInv, PCs, Initialising
  <1>6. Elsewhere(d) /\ pc'[d] = "register"
    BY <1>1, Zenon DEF Elsewhere, HInv, TypeInv
  <1>7. SetUpInv(d)
    BY Zenon DEF HInv
  <1>8. Serving(d)'
    BY <1>1, <1>2, <1>4, <1>6, <1>7, Zenon DEF SetUpInv, Serving, ServingWith
  <1>9. SetUpInv(d)'
    BY <1>6, <1>8, Zenon DEF SetUpInv
  <1>10. pc[d] \notin Listing
    BY <1>1, Zenon DEF Registering, Listing
  <1>11. QED  BY <1>1, <1>5, <1>6, <1>9, <1>10, DaemonStep, Zenon

LEMMA AppendKeeps ==
    ASSUME HInv, NEW d \in Daemons, append_line(d)
    PROVE  HInv'
  <1>1. /\ pc[d] = "register" /\ pc' = [pc EXCEPT ![d] = "check"]
        /\ hostsfile' \in {hostsfile, Append(hostsfile, MyLine(d))}
        /\ up' = up /\ mdirs' = mdirs /\ layout' = layout /\ epoch' = epoch /\ killed' = killed
    BY Zenon DEF append_line, Goto, Unchanged
  <1>2. hostsfile' \in Seq(Daemons \X (0 .. MaxStarts))
    <2>1. /\ hostsfile \in Seq(Daemons \X (0 .. MaxStarts))
          /\ MyLine(d) \in Daemons \X (0 .. MaxStarts)
      BY Zenon DEF HInv, TypeInv, MyLine
    <2>2. Append(hostsfile, MyLine(d)) \in Seq(Daemons \X (0 .. MaxStarts))
      BY <2>1, SMTT(30)
    <2>3. QED  BY <1>1, <2>1, <2>2, Zenon
  <1>3. TypeInv'
    BY <1>1, <1>2, Zenon DEF HInv, TypeInv, PCs
  <1>4. Elsewhere(d) /\ pc'[d] = "check"
    BY <1>1, Zenon DEF Elsewhere, HInv, TypeInv
  <1>5. Serving(d)
    BY <1>1, Zenon DEF HInv, SetUpInv, Registering
  <1>6. Serving(d)'
    BY <1>1, <1>5, Zenon DEF Serving, ServingWith
  <1>7. SetUpInv(d)'
    BY <1>4, <1>6, Zenon DEF SetUpInv
  <1>8. QED  BY <1>1, <1>3, <1>4, <1>6, <1>7, DaemonStep, Zenon DEF Registering, Listing

LEMMA CreateKeeps ==
    ASSUME HInv, NEW d \in Daemons, CreateFile(d)
    PROVE  HInv'
  <1> DEFINE m == MetaDir(d)
  <1>1. /\ pc[d] \in Registering /\ pc' = pc
        /\ mdirs' = [mdirs EXCEPT ![d] = [mdirs[d] EXCEPT ![m] = @ \cup {epoch[d]}]]
        /\ hostsfile' = hostsfile /\ up' = up /\ layout' = layout /\ epoch' = epoch
        /\ killed' = killed
    BY Zenon DEF CreateFile, InService, Registering
  <1>2. /\ m \in 0 .. MaxStarts /\ m = (IF layout[d].forwarding THEN epoch[d] ELSE 0)
        /\ epoch[d] \in 0 .. MaxStarts
        /\ mdirs[d] \in [0 .. MaxStarts -> SUBSET (0 .. MaxStarts)]
    BY DaemonLifeAssumption, SMTT(30) DEF MetaDir, HInv, TypeInv
  <1> HIDE DEF m
  <1>3. /\ mdirs'[d] \in [0 .. MaxStarts -> SUBSET (0 .. MaxStarts)]
        /\ mdirs[d][m] \subseteq mdirs'[d][m]
    BY <1>1, <1>2, Zenon DEF HInv, TypeInv
  <1>4. TypeInv'
    BY <1>1, <1>3, Zenon DEF HInv, TypeInv
  <1>5. Elsewhere(d)
    BY <1>1, Zenon DEF Elsewhere, HInv, TypeInv
  <1>6. Serving(d)
    BY <1>1, Zenon DEF HInv, SetUpInv
  <1>7. Serving(d)'
    BY <1>1, <1>2, <1>3, <1>6, Zenon DEF Serving, ServingWith
  <1>8. SetUpInv(d)'
    BY <1>1, <1>7, Zenon DEF SetUpInv, Registering
  <1>9. QED  BY <1>1, <1>4, <1>5, <1>7, <1>8, DaemonStep, Zenon DEF Listing

(* The ways a database directory is emptied.                               *)
LEMMA Emptied ==
    ASSUME TypeInv, NEW d \in Daemons, NEW m \in 0 .. MaxStarts,
           \/ mdirs' = mdirs
           \/ mdirs' = [mdirs EXCEPT ![d][m] = {}]
           \/ mdirs' = [mdirs EXCEPT ![d] = [x \in 0 .. MaxStarts |-> {}]]
    PROVE  /\ mdirs' \in [Daemons -> [0 .. MaxStarts -> SUBSET (0 .. MaxStarts)]]
           /\ \A e \in Daemons \ {d} : mdirs'[e] = mdirs[e]
  <1>1. mdirs \in [Daemons -> [0 .. MaxStarts -> SUBSET (0 .. MaxStarts)]]
    BY Zenon DEF TypeInv
  <1>2. CASE mdirs' = mdirs
    BY <1>1, <1>2, Zenon
  <1>3. CASE mdirs' = [mdirs EXCEPT ![d][m] = {}]
    <2>1. [mdirs[d] EXCEPT ![m] = {}] \in [0 .. MaxStarts -> SUBSET (0 .. MaxStarts)]
      BY <1>1, Zenon
    <2>2. mdirs' = [mdirs EXCEPT ![d] = [mdirs[d] EXCEPT ![m] = {}]]
      BY <1>3, Zenon
    <2>3. QED  BY <1>1, <2>1, <2>2, Zenon
  <1>4. CASE mdirs' = [mdirs EXCEPT ![d] = [x \in 0 .. MaxStarts |-> {}]]
    BY <1>1, <1>4, Zenon
  <1>5. QED  BY <1>2, <1>3, <1>4, Zenon

LEMMA KilledKeeps ==
    ASSUME HInv, NEW d \in Daemons, Killed(d)
    PROVE  HInv'
  <1>1. /\ pc' = [pc EXCEPT ![d] = "exited"] /\ up' = [up EXCEPT ![d] = {}]
        /\ killed' = killed \cup {MyLine(d)}
        /\ hostsfile' = hostsfile /\ layout' = layout /\ epoch' = epoch
    BY Zenon DEF Killed, Goto
  <1>2. /\ mdirs' \in [Daemons -> [0 .. MaxStarts -> SUBSET (0 .. MaxStarts)]]
        /\ \A e \in Daemons \ {d} : mdirs'[e] = mdirs[e]
    <2>1. mdirs' = mdirs \/ mdirs' = [mdirs EXCEPT ![d] = [x \in 0 .. MaxStarts |-> {}]]
      BY Zenon DEF Killed, PartRemoved, Removed
    <2>2. 0 \in 0 .. MaxStarts
      BY DaemonLifeAssumption, SMTT(30)
    <2>3. QED  BY <2>1, <2>2, Emptied, Zenon DEF HInv
  <1>3. TypeInv'
    BY <1>1, <1>2, Zenon DEF HInv, TypeInv, PCs, Down
  <1>4. Elsewhere(d) /\ pc'[d] = "exited"
    BY <1>1, <1>2, Zenon DEF Elsewhere, HInv, TypeInv
  <1>5. SetUpInv(d)'
    BY <1>4, Zenon DEF SetUpInv, Registering
  <1>6. QED  BY <1>1, <1>3, <1>4, <1>5, DaemonStep, Zenon

(* destroy_enviroment: the streams go before the line does.                *)
LEMMA JoinKeeps ==
    ASSUME HInv, NEW d \in Daemons, join_streams(d)
    PROVE  HInv'
  <1>1. /\ pc[d] = "destroy" /\ pc' = [pc EXCEPT ![d] = "unlist"]
        /\ up' = [up EXCEPT ![d] = up[d] \ {"io_pool"}]
        /\ hostsfile' = hostsfile /\ mdirs' = mdirs /\ layout' = layout /\ epoch' = epoch
        /\ killed' = killed
    BY Zenon DEF join_streams, Goto, Unchanged
  <1>2. TypeInv'
    BY <1>1, Zenon DEF HInv, TypeInv, PCs, Ending
  <1>3. Elsewhere(d) /\ pc'[d] = "unlist" /\ up'[d] = up[d] \ {"io_pool"}
    BY <1>1, Zenon DEF Elsewhere, HInv, TypeInv
  <1>4. SetUpInv(d)'
    BY <1>3, Zenon DEF SetUpInv, Registering
  <1>5. Serving(d) => Serving(d)'
    BY <1>1, <1>3, Zenon DEF Serving, ServingWith
  <1>6. pc'[d] \in Listing
    BY <1>3, Zenon DEF Listing
  <1>7. QED  BY <1>1, <1>2, <1>3, <1>4, <1>5, <1>6, DaemonStep, Zenon

LEMMA UnlistKeeps ==
    ASSUME HInv, NEW d \in Daemons, destroy_hosts_file(d)
    PROVE  HInv'
  <1>1. /\ pc' = [pc EXCEPT ![d] = "finalize"] /\ up' = up
        /\ hostsfile' = <<>> /\ mdirs' = mdirs /\ layout' = layout /\ epoch' = epoch
        /\ killed' = killed
    BY Zenon DEF destroy_hosts_file, Goto, Unchanged
  <1>2. TypeInv'
    BY <1>1, SMTT(30) DEF HInv, TypeInv, PCs, Ending
  <1>3. Elsewhere(d) /\ pc'[d] = "finalize"
    BY <1>1, Zenon DEF Elsewhere, HInv, TypeInv
  <1>4. SetUpInv(d)'
    BY <1>3, Zenon DEF SetUpInv, Registering
  <1>5. QED  BY <1>1, <1>2, <1>3, <1>4, DaemonStep, Zenon

(* A daemon that is not registered may have its directories cleaned.       *)
LEMMA OutsideKeeps ==
    ASSUME HInv, NEW d \in Daemons, pc[d] \in Outside,
           NEW s \in Outside \cup {"mdb"}, pc' = [pc EXCEPT ![d] = s],
           up' \in [Daemons -> SUBSET Parts], \A e \in Daemons \ {d} : up'[e] = up[e],
           epoch' \in [Daemons -> 0 .. MaxStarts],
           \A e \in Daemons \ {d} : epoch'[e] = epoch[e],
           mdirs' \in [Daemons -> [0 .. MaxStarts -> SUBSET (0 .. MaxStarts)]],
           \A e \in Daemons \ {d} : mdirs'[e] = mdirs[e],
           hostsfile' = hostsfile, layout' = layout, killed' = killed
    PROVE  HInv'
  <1>1. TypeInv'
    <2>1. s \in PCs
      BY Zenon DEF PCs, Outside, Initialising, Ending
    <2>2. QED  BY <2>1, Zenon DEF HInv, TypeInv
  <1>2. Elsewhere(d) /\ pc'[d] = s
    BY Zenon DEF Elsewhere, HInv, TypeInv
  <1>3. SetUpInv(d)'
    BY <1>2, Zenon DEF SetUpInv, Registering, Outside, Down, Parsing
  <1>4. pc[d] \notin Listing
    BY Zenon DEF Registering, Listing, Outside, Down, Parsing
  <1>5. QED  BY <1>1, <1>2, <1>3, <1>4, DaemonStep, Zenon

(* The steps of parse_input, and those of destroy_enviroment after the     *)
(* hosts file is gone.                                                     *)
CleaningStep(d) ==
    \/ clean_rootdir(d) \/ clean_metadir(d) \/ parse_backend(d) \/ parse_failed(d)
    \/ finalize(d) \/ delete_metadir(d) \/ delete_rootdir(d)

LEMMA CleaningKeeps ==
    ASSUME HInv, NEW d \in Daemons, CleaningStep(d)
    PROVE  HInv'
  <1>1. /\ pc[d] \in Outside /\ epoch' = epoch
        /\ hostsfile' = hostsfile /\ layout' = layout /\ killed' = killed
        /\ up' = up \/ up' = [up EXCEPT ![d] = {}]
    BY Zenon DEF CleaningStep, clean_rootdir, clean_metadir, parse_backend, parse_failed, finalize,
       delete_metadir, delete_rootdir, Parses, Unchanged, Outside, Parsing
  <1>2. PICK s \in Outside \cup {"mdb"} : pc' = [pc EXCEPT ![d] = s]
    <2>1. {"exited", "clean_meta", "backend", "delete_meta", "delete_root", "mdb"} \subseteq Outside \cup {"mdb"}
      BY Zenon DEF Outside, Down, Parsing
    <2>2. After["backend"] = "mdb"
      BY SMTT(30) DEF After
    <2>3. QED
      BY <2>1, <2>2, Zenon DEF CleaningStep, clean_rootdir, clean_metadir, parse_backend, parse_failed,
         finalize, delete_metadir, delete_rootdir, Parses, Goto
  <1>3. /\ MetaDir(d) \in 0 .. MaxStarts /\ epoch' \in [Daemons -> 0 .. MaxStarts]
        /\ \A e \in Daemons \ {d} : epoch'[e] = epoch[e]
    BY <1>1, DaemonLifeAssumption, SMTT(30) DEF MetaDir, HInv, TypeInv
  <1>4. /\ up' \in [Daemons -> SUBSET Parts] /\ \A e \in Daemons \ {d} : up'[e] = up[e]
    BY <1>1, Zenon DEF HInv, TypeInv
  <1>5. \/ mdirs' = mdirs
        \/ mdirs' = [mdirs EXCEPT ![d][MetaDir(d)] = {}]
        \/ mdirs' = [mdirs EXCEPT ![d] = [x \in 0 .. MaxStarts |-> {}]]
    BY Zenon DEF CleaningStep, clean_rootdir, clean_metadir, parse_backend, parse_failed, finalize,
       delete_metadir, delete_rootdir, PartRemoved, Removed
  <1>6. /\ mdirs' \in [Daemons -> [0 .. MaxStarts -> SUBSET (0 .. MaxStarts)]]
        /\ \A e \in Daemons \ {d} : mdirs'[e] = mdirs[e]
    BY <1>3, <1>5, Emptied, Zenon DEF HInv
  <1>7. QED  BY <1>1, <1>2, <1>3, <1>4, <1>6, OutsideKeeps, Zenon

LEMMA MainKeeps ==
    ASSUME HInv, NEW d \in Daemons, main(d)
    PROVE  HInv'
  <1>1. /\ pc[d] \in Down /\ epoch[d] < MaxStarts /\ epoch' = [epoch EXCEPT ![d] = @ + 1]
        /\ up' = [up EXCEPT ![d] = {}] /\ mdirs' = mdirs
        /\ hostsfile' = hostsfile /\ layout' = layout /\ killed' = killed
    BY Zenon DEF main
  <1>2. PICK s \in {"exited", "clean_root", "backend"} : pc' = [pc EXCEPT ![d] = s]
    BY Zenon DEF main, Goto
  <1>3. s \in Outside /\ pc[d] \in Outside
    BY <1>1, Zenon DEF Outside, Down, Parsing
  <1>4. epoch[d] \in 0 .. MaxStarts /\ epoch[d] + 1 \in 0 .. MaxStarts
    BY <1>1, DaemonLifeAssumption, SMTT(30) DEF HInv, TypeInv
  <1>5. /\ epoch' \in [Daemons -> 0 .. MaxStarts]
        /\ \A e \in Daemons \ {d} : epoch'[e] = epoch[e]
    BY <1>1, <1>4, Zenon DEF HInv, TypeInv
  <1>6. /\ up' \in [Daemons -> SUBSET Parts] /\ \A e \in Daemons \ {d} : up'[e] = up[e]
        /\ mdirs \in [Daemons -> [0 .. MaxStarts -> SUBSET (0 .. MaxStarts)]]
    BY <1>1, Zenon DEF HInv, TypeInv
  <1>7. QED  BY <1>1, <1>2, <1>3, <1>5, <1>6, OutsideKeeps, Zenon

(* The steps that are moves, and those that set a part up.                 *)
LEMMA MovesKeep ==
    ASSUME HInv, NEW d \in Daemons,
           \/ check_line(d) \/ init_failed(d) \/ install_handlers(d) \/ begin_wait(d)
    PROVE  HInv'
  <1>1. /\ hostsfile' = hostsfile /\ up' = up /\ mdirs' = mdirs /\ layout' = layout
        /\ epoch' = epoch /\ killed' = killed
    BY Zenon DEF check_line, init_failed, install_handlers, begin_wait, Unchanged
  <1>2. PICK s \in PCs :
          /\ pc' = [pc EXCEPT ![d] = s]
          /\ \/ pc[d] \in Registering /\ s \in Registering
             \/ pc[d] \in Registering \cup Initialising /\ s = "destroy"
    <2>1. {"client", "register", "destroy", "lock", "wait"} \subseteq PCs
      BY Zenon DEF PCs, Initialising, Ending
    <2>2. {"check", "client", "register", "lock", "wait", "handlers"} \subseteq Registering
      BY Zenon DEF Registering
    <2>3. QED
      BY <2>1, <2>2, Zenon DEF check_line, init_failed, install_handlers, begin_wait, Goto
  <1>3. QED  BY <1>1, <1>2, MoveKeeps, Zenon

LEMMA PartsKeep ==
    ASSUME HInv, NEW d \in Daemons,
           \/ init_metadata_db(d) \/ init_storage(d) \/ init_rpc_server(d)
           \/ init_proxy_rpc_server(d) \/ init_io_tasklet_pool(d) \/ init_rpc_client(d)
           \/ init_managers(d)
    PROVE  HInv'
  <1>1. ASSUME NEW part \in Parts, pc[d] = part, SetUp(d, part)
        PROVE  HInv'
    BY <1>1, SetUpKeeps, Zenon
  <1>2. CASE init_proxy_rpc_server(d) /\ ~layout[d].proxy
    <2>1. /\ pc[d] = "proxy_server" /\ pc' = [pc EXCEPT ![d] = "io_pool"]
          /\ hostsfile' = hostsfile /\ up' = up /\ mdirs' = mdirs /\ layout' = layout
          /\ epoch' = epoch /\ killed' = killed
      BY <1>2, Zenon DEF init_proxy_rpc_server, Goto, Unchanged
    <2>2. "io_pool" \in PCs
      BY Zenon DEF PCs, Initialising
    <2>3. QED  BY <1>2, <2>1, <2>2, MoveKeeps, Zenon
  <1>3. QED
    BY <1>1, <1>2, Zenon DEF init_metadata_db, init_storage, init_rpc_server, init_proxy_rpc_server,
                      init_io_tasklet_pool, init_rpc_client, init_managers, Parts

LEMMA StutterKeeps ==
    ASSUME HInv, hostsfile' = hostsfile, up' = up, mdirs' = mdirs, layout' = layout,
           epoch' = epoch, killed' = killed, pc' = pc
    PROVE  HInv'
  BY Zenon DEF HInv, TypeInv, SetUpInv, LineInv, Serving

(* A signal that main does not wait for changes nothing; see README for    *)
(* what becomes of the daemon.                                             *)
LEMMA HandlerKeeps ==
    ASSUME HInv, NEW d \in Daemons, shutdown_handler(d)
    PROVE  HInv'
  <1>1. /\ hostsfile' = hostsfile /\ up' = up /\ mdirs' = mdirs /\ layout' = layout
        /\ epoch' = epoch /\ killed' = killed
    BY Zenon DEF shutdown_handler
  <1>2. CASE pc[d] = "wait"
    <2>1. pc' = [pc EXCEPT ![d] = "destroy"] /\ "destroy" \in PCs /\ pc[d] \in Registering
      BY <1>2, Zenon DEF shutdown_handler, PCs, Registering, Ending
    <2>2. QED  BY <1>1, <2>1, MoveKeeps, Zenon
  <1>3. CASE pc[d] # "wait"
    <2>1. pc' = pc
      BY <1>3, Zenon DEF shutdown_handler
    <2>2. QED  BY <1>1, <2>1, StutterKeeps, Zenon
  <1>4. QED  BY <1>2, <1>3, Zenon

LEMMA NextKeeps == HInv /\ [Next]_vars => HInv'
  <1> SUFFICES ASSUME HInv, [Next]_vars
               PROVE  HInv'
    BY Zenon
  <1>1. CASE UNCHANGED vars
    BY <1>1, StutterKeeps, Zenon DEF vars
  <1>2. ASSUME NEW d \in Daemons, main(d) \/ CreateFile(d) \/ shutdown_handler(d) \/ Killed(d)
        PROVE  HInv'
    BY <1>2, MainKeeps, CreateKeeps, HandlerKeeps, KilledKeeps, Zenon
  <1>3. ASSUME NEW d \in Daemons, Progress(d)
        PROVE  HInv'
    BY <1>3, PartsKeep, MovesKeep, RootKeeps, AppendKeeps, JoinKeeps, UnlistKeeps, CleaningKeeps, Zenon
       DEF Progress, CleaningStep
  <1>4. QED  BY <1>1, <1>2, <1>3, Zenon DEF Next

LEMMA InitEstablishes == Init => HInv
  <1> SUFFICES ASSUME Init
               PROVE  HInv
    BY Zenon
  <1>1. /\ layout \in [Daemons -> Layout] /\ hostsfile = <<>>
        /\ epoch = [d \in Daemons |-> 0] /\ pc = [d \in Daemons |-> "off"]
        /\ up = [d \in Daemons |-> {}] /\ mdirs = [d \in Daemons |-> [m \in 0 .. MaxStarts |-> {}]]
    BY DaemonLifeAssumption, Zenon DEF Init
  <1>2. TypeInv
    BY <1>1, DaemonLifeAssumption, SMTT(30) DEF TypeInv, PCs, Down
  <1>3. \A d \in Daemons : SetUpInv(d)
    BY <1>1, Zenon DEF SetUpInv, Registering
  <1>4. QED  BY <1>1, <1>2, <1>3, SMTT(30) DEF HInv

(* The inductive invariant: what init_environment has set up by each of    *)
(* its steps, and where the daemon of each line of the hosts file is.      *)
THEOREM HostsFollowed == Spec => []HInv
  <1>1. QED  BY InitEstablishes, NextKeeps, PTL DEF Spec

(* init_environment registers last, and destroy_enviroment takes the hosts *)
(* file away before it shuts down the server and the stores: whoever finds *)
(* a daemon in the file finds it serving, unless that daemon was killed,   *)
(* or has joined its I/O streams and is about to remove the file.          *)
THEOREM ListedCorrect == Spec => []ListedDaemonsServe
  <1>1. HInv => ListedDaemonsServe
    <2> SUFFICES ASSUME HInv, NEW i \in DOMAIN hostsfile, hostsfile[i] \notin killed
                 PROVE  LET d == hostsfile[i][1]
                        IN  /\ MyLine(d) = hostsfile[i]
                            /\ {"mdb", "storage", "server"} \subseteq up[d]
                            /\ "io_pool" \in up[d] \/ pc[d] = "unlist"
                            /\ layout[d].proxy => "proxy_server" \in up[d]
                            /\ Root \in mdirs[d][MetaDir(d)]
      BY Zenon DEF ListedDaemonsServe
    <2>1. hostsfile[i] \in Daemons \X (0 .. MaxStarts)
      BY SMTT(30) DEF HInv, TypeInv
    <2>2. hostsfile[i][2] = epoch[hostsfile[i][1]] /\ Serving(hostsfile[i][1])
      BY Zenon DEF HInv, LineInv, LineOk
    <2>3. QED  BY <2>1, <2>2, SMTT(30) DEF MyLine, Serving, ServingWith, MetaDir
  <1>2. QED  BY <1>1, HostsFollowed, PTL

-----------------------------------------------------------------------------
(* The directories of a daemon that is started again.  A removal that is   *)
(* interrupted may leave metadata without data, and the daemon is torn     *)
(* until its metadata go.  With forwarding the database directories of     *)
(* earlier incarnations keep such metadata, but no later incarnation opens *)
(* them: it begins with an empty one, and only its own end tears it.       *)
Backed(config, incarnation, dirs, data, place, tear) ==
    /\ (~tear \/ (config.forwarding /\ place # "exited"))
       => dirs[IF config.forwarding THEN incarnation ELSE 0] \ {Root} \subseteq data
    /\ config.forwarding /\ place \in Parsing => dirs[incarnation] = {}
    /\ config.forwarding => \A m \in 0 .. MaxStarts : m > incarnation => dirs[m] = {}
DInv == /\ DOMAIN chunks = Daemons
        /\ \A d \in Daemons : Backed(layout[d], epoch[d], mdirs[d], chunks[d], pc[d], d \in torn)

LEMMA DirectoryStep ==
    ASSUME DInv, NEW d \in Daemons, layout' = layout, DOMAIN chunks' = Daemons,
           \A e \in Daemons \ {d} : /\ epoch'[e] = epoch[e] /\ mdirs'[e] = mdirs[e]
                                     /\ chunks'[e] = chunks[e] /\ pc'[e] = pc[e]
                                     /\ (e \in torn' <=> e \in torn),
           Backed(layout[d], epoch'[d], mdirs'[d], chunks'[d], pc'[d], d \in torn')
    PROVE  DInv'
  <1>1. ASSUME NEW e \in Daemons
        PROVE  Backed(layout'[e], epoch'[e], mdirs'[e], chunks'[e], pc'[e], e \in torn')
    <2>1. CASE e = d
      BY <2>1, Zenon
    <2>2. CASE e # d
      <3>1. Backed(layout[e], epoch[e], mdirs[e], chunks[e], pc[e], e \in torn)
        BY Zenon DEF DInv
      <3>2. /\ epoch'[e] = epoch[e] /\ mdirs'[e] = mdirs[e] /\ chunks'[e] = chunks[e]
            /\ pc'[e] = pc[e] /\ (e \in torn' <=> e \in torn)
        BY <2>2, Zenon
      <3>3. QED  BY <3>1, <3>2, Zenon DEF Backed
    <2>3. QED  BY <2>1, <2>2, Zenon
  <1>2. QED  BY <1>1, Zenon DEF DInv

(* A daemon that moves on keeps its directories.                           *)
LEMMA DirectoriesKept ==
    ASSUME HInv, DInv, NEW d \in Daemons, UNCHANGED <<layout, epoch, mdirs, chunks, torn>>, NEW s,
           pc' = [pc EXCEPT ![d] = s] \/ pc' = pc, s # "exited" => pc[d] # "exited",
           s \notin Parsing
    PROVE  DInv'
  <1>1. CASE pc' = pc
    BY <1>1, Zenon DEF DInv
  <1>2. CASE pc' = [pc EXCEPT ![d] = s]
    <2>1. pc'[d] = s /\ \A e \in Daemons \ {d} : pc'[e] = pc[e]
      BY <1>2, Zenon DEF HInv, TypeInv
    <2>2. /\ DOMAIN chunks = Daemons
          /\ Backed(layout[d], epoch[d], mdirs[d], chunks[d], pc[d], d \in torn)
      BY Zenon DEF DInv
    <2>3. Backed(layout[d], epoch[d], mdirs[d], chunks[d], s, d \in torn)
      BY <2>2, Zenon DEF Backed
    <2>4. QED  BY <2>1, <2>2, <2>3, DirectoryStep, Zenon
  <1>3. QED  BY <1>1, <1>2, Zenon

(* What a removal, complete or not, does to the directories.  It tears a   *)
(* daemon that it leaves with metadata only.                               *)
LEMMA RemovalKeeps ==
    ASSUME HInv, DInv, NEW d \in Daemons, NEW gone \in SUBSET {"data", "metadata"}, Removed(gone, d),
           layout' = layout, epoch' = epoch, NEW s, pc' = [pc EXCEPT ![d] = s],
           pc[d] \notin Parsing => s \notin Parsing,
           layout[d].forwarding /\ "data" \in gone => s = "exited" \/ mdirs[d][MetaDir(d)] = {},
           s # "exited" => pc[d] # "exited"
    PROVE  DInv'
  <1>1. /\ mdirs \in [Daemons -> [0 .. MaxStarts -> SUBSET (0 .. MaxStarts)]]
        /\ MetaDir(d) \in 0 .. MaxStarts /\ epoch[d] \in 0 .. MaxStarts
        /\ MetaDir(d) = IF layout[d].forwarding THEN epoch[d] ELSE 0
    BY DaemonLifeAssumption, SMTT(30) DEF HInv, TypeInv, MetaDir
  <1>2. pc'[d] = s /\ \A e \in Daemons \ {d} : pc'[e] = pc[e]
    BY Zenon DEF HInv, TypeInv
  <1>3. /\ DOMAIN chunks = Daemons
        /\ Backed(layout[d], epoch[d], mdirs[d], chunks[d], pc[d], d \in torn)
    BY Zenon DEF DInv
  <1>4. /\ DOMAIN chunks' = Daemons
        /\ \A e \in Daemons \ {d} : /\ mdirs'[e] = mdirs[e] /\ chunks'[e] = chunks[e]
                                     /\ (e \in torn' <=> e \in torn)
    BY <1>1, <1>3, Zenon DEF Removed
  <1>5. Backed(layout[d], epoch[d], mdirs'[d], chunks'[d], s, d \in torn')
    <2>1. CASE "metadata" \in gone
      <3>1. \A m \in 0 .. MaxStarts : mdirs'[d][m] = {}
        BY <1>1, <2>1, Zenon DEF Removed
      <3>2. QED  BY <1>1, <3>1, Zenon DEF Backed
    <2>2. CASE "metadata" \notin gone /\ "data" \in gone
      <3>1. mdirs' = mdirs /\ torn' = (IF mdirs[d][MetaDir(d)] # {} THEN torn \cup {d} ELSE torn)
        BY <2>2, Zenon DEF Removed
      <3>2. CASE mdirs[d][MetaDir(d)] = {}
        BY <1>1, <1>3, <3>1, <3>2, Zenon DEF Backed
      <3>3. CASE mdirs[d][MetaDir(d)] # {}
        <4>1. d \in torn' /\ (layout[d].forwarding => s = "exited")
          BY <2>2, <3>1, <3>3, Zenon
        <4>2. QED  BY <1>3, <3>1, <4>1, Zenon DEF Backed, Parsing
      <3>4. QED  BY <3>2, <3>3, Zenon
    <2>3. CASE "metadata" \notin gone /\ "data" \notin gone
      <3>1. mdirs' = mdirs /\ torn' = torn /\ chunks' = chunks
        BY <2>3, Zenon DEF Removed
      <3>2. QED  BY <1>3, <3>1, Zenon DEF Backed
    <2>4. QED  BY <2>1, <2>2, <2>3, Zenon
  <1>6. Backed(layout[d], epoch'[d], mdirs'[d], chunks'[d], pc'[d], d \in torn')
    BY <1>2, <1>5, Zenon
  <1>7. QED  BY <1>2, <1>4, <1>6, DirectoryStep, Zenon

(* A database directory is emptied.                                        *)
LEMMA MetadirKeeps ==
    ASSUME HInv, DInv, NEW d \in Daemons, mdirs' = [mdirs EXCEPT ![d][MetaDir(d)] = {}],
           chunks' = chunks, torn' \in {torn, torn \ {d}},
           layout' = layout, epoch' = epoch, NEW s, pc' = [pc EXCEPT ![d] = s]
    PROVE  DInv'
  <1>1. /\ mdirs \in [Daemons -> [0 .. MaxStarts -> SUBSET (0 .. MaxStarts)]]
        /\ MetaDir(d) \in 0 .. MaxStarts
        /\ MetaDir(d) = IF layout[d].forwarding THEN epoch[d] ELSE 0
    BY DaemonLifeAssumption, SMTT(30) DEF HInv, TypeInv, MetaDir
  <1>2. pc'[d] = s /\ \A e \in Daemons \ {d} : pc'[e] = pc[e]
    BY Zenon DEF HInv, TypeInv
  <1>3. /\ DOMAIN chunks = Daemons
        /\ Backed(layout[d], epoch[d], mdirs[d], chunks[d], pc[d], d \in torn)
    BY Zenon DEF DInv
  <1>4. /\ \A e \in Daemons \ {d} : mdirs'[e] = mdirs[e] /\ (e \in torn' <=> e \in torn)
        /\ mdirs'[d][MetaDir(d)] = {}
        /\ \A k \in 0 .. MaxStarts : mdirs[d][k] = {} => mdirs'[d][k] = {}
    BY <1>1, Zenon
  <1>5. Backed(layout[d], epoch[d], mdirs'[d], chunks[d], s, d \in torn')
    BY <1>1, <1>3, <1>4, Zenon DEF Backed
  <1>6. Backed(layout[d], epoch'[d], mdirs'[d], chunks'[d], pc'[d], d \in torn')
    BY <1>2, <1>5, Zenon
  <1>7. QED  BY <1>2, <1>3, <1>4, <1>6, DirectoryStep, Zenon

LEMMA StartKeepsData ==
    ASSUME HInv, DInv, NEW d \in Daemons, main(d)
    PROVE  DInv'
  <1> DEFINE e == epoch[d] + 1
  <1>1. /\ epoch \in [Daemons -> 0 .. MaxStarts] /\ epoch[d] < MaxStarts /\ layout' = layout
        /\ epoch' = [epoch EXCEPT ![d] = e] /\ UNCHANGED <<chunks, mdirs, torn>>
    BY Zenon DEF HInv, TypeInv, main
  <1>2. /\ epoch'[d] = e
        /\ \A x \in Daemons \ {d} : epoch'[x] = epoch[x] /\ pc'[x] = pc[x]
    BY <1>1, Zenon DEF main, Goto, HInv, TypeInv
  <1>3. DOMAIN chunks = Daemons /\ Backed(layout[d], epoch[d], mdirs[d], chunks[d], pc[d], d \in torn)
    BY Zenon DEF DInv
  <1>4. layout[d].forwarding => \A m \in 0 .. MaxStarts : m >= e => mdirs[d][m] = {}
    BY <1>1, <1>3, DaemonLifeAssumption, SMTT(30) DEF Backed
  <1>5. e \in 0 .. MaxStarts /\ e >= e /\ \A m \in 0 .. MaxStarts : m > e => m >= e
    BY <1>1, DaemonLifeAssumption, SMTT(30)
  <1> HIDE DEF e
  <1>6. Backed(layout[d], e, mdirs[d], chunks[d], pc'[d], d \in torn)
    BY <1>3, <1>4, <1>5, Zenon DEF Backed
  <1>7. QED  BY <1>1, <1>2, <1>3, <1>6, DirectoryStep, Zenon

LEMMA KillKeepsData ==
    ASSUME HInv, DInv, NEW d \in Daemons, Killed(d)
    PROVE  DInv'
  <1>1. /\ layout' = layout /\ epoch' = epoch /\ pc' = [pc EXCEPT ![d] = "exited"]
        /\ \E gone \in SUBSET {"data", "metadata"} : Removed(gone, d)
    BY Zenon DEF Killed, Goto, PartRemoved, BelowRoot
  <1>2. "exited" \notin Parsing
    BY Zenon DEF Parsing
  <1>3. QED  BY <1>1, <1>2, RemovalKeeps, Zenon

LEMMA CleaningKeepsData ==
    ASSUME HInv, DInv, NEW d \in Daemons, CleaningStep(d)
    PROVE  DInv'
  <1>1. layout' = layout /\ epoch' = epoch /\ \E s : pc' = [pc EXCEPT ![d] = s]
    BY Zenon DEF CleaningStep, clean_rootdir, clean_metadir, parse_backend, parse_failed, finalize,
       delete_metadir, delete_rootdir, Parses, Goto, Unchanged
  <1>2. BelowRoot(d) \in SUBSET {"data", "metadata"}
    BY Zenon DEF BelowRoot
  <1>3. {"exited", "mdb", "delete_meta", "delete_root"} \cap Parsing = {}
    BY Zenon DEF Parsing
  <1>4. CASE clean_rootdir(d)
    <2>1. PICK s \in {"clean_meta", "backend"} : pc' = [pc EXCEPT ![d] = s]
      BY <1>4, Zenon DEF clean_rootdir, Parses, Goto
    <2>2. pc[d] = "clean_root" /\ pc[d] \in Parsing /\ Removed(BelowRoot(d), d)
      BY <1>4, Zenon DEF clean_rootdir, Parsing
    <2>3. layout[d].forwarding => mdirs[d][MetaDir(d)] = {}
      BY <2>2, Zenon DEF DInv, Backed, MetaDir
    <2>4. QED  BY <1>1, <1>2, <2>1, <2>2, <2>3, RemovalKeeps, Zenon
  <1>5. CASE clean_metadir(d)
    BY <1>1, <1>5, MetadirKeeps, Zenon DEF clean_metadir
  <1>6. CASE parse_backend(d) \/ finalize(d)
    <2>1. /\ UNCHANGED <<layout, epoch, mdirs, chunks, torn>>
          /\ \E s \in {"exited", "mdb", "delete_meta"} : pc' = [pc EXCEPT ![d] = s]
          /\ pc[d] \in {"backend", "finalize"}
      <3>1. After["backend"] = "mdb"
        BY SMTT(30) DEF After
      <3>2. QED  BY <1>6, <3>1, Zenon DEF parse_backend, finalize, Parses, Goto, Unchanged
    <2>2. QED  BY <1>3, <2>1, DirectoriesKept, Zenon
  <1>7. CASE parse_failed(d) \/ delete_rootdir(d)
    <2>1. /\ pc' = [pc EXCEPT ![d] = "exited"]
          /\ \E gone \in SUBSET {"data", "metadata"} : Removed(gone, d)
      BY <1>2, <1>7, Zenon DEF parse_failed, delete_rootdir, Parses, Goto, PartRemoved
    <2>2. QED  BY <1>1, <1>3, <2>1, RemovalKeeps, Zenon
  <1>8. CASE delete_metadir(d)
    <2>1. pc' = [pc EXCEPT ![d] = "delete_root"] /\ pc[d] = "delete_meta"
      BY <1>8, Zenon DEF delete_metadir, Parses, Goto
    <2>2. CASE mdirs' = [mdirs EXCEPT ![d][MetaDir(d)] = {}] /\ UNCHANGED <<chunks, torn>>
      BY <1>1, <2>1, <2>2, MetadirKeeps, Zenon
    <2>3. ASSUME NEW gone \in SUBSET {"data", "metadata"}, Removed(gone, d),
                 layout[d].forwarding => gone = {}
          PROVE  DInv'
      BY <1>1, <1>3, <2>1, <2>3, RemovalKeeps, Zenon
    <2>4. \/ mdirs' = [mdirs EXCEPT ![d][MetaDir(d)] = {}] /\ UNCHANGED <<chunks, torn>>
          \/ \E gone \in SUBSET {"data", "metadata"} :
                Removed(gone, d) /\ (layout[d].forwarding => gone = {})
      BY <1>2, <1>8, <2>1, Zenon DEF delete_metadir, PartRemoved, RemovingRoot
    <2>5. QED  BY <2>2, <2>3, <2>4, Zenon
  <1>9. QED  BY <1>4, <1>5, <1>6, <1>7, <1>8, Zenon DEF CleaningStep

LEMMA CreateKeepsData ==
    ASSUME HInv, DInv, NEW d \in Daemons, create_root(d) \/ CreateFile(d)
    PROVE  DInv'
  <1>1. /\ mdirs \in [Daemons -> [0 .. MaxStarts -> SUBSET (0 .. MaxStarts)]]
        /\ epoch[d] \in 0 .. MaxStarts /\ MetaDir(d) \in 0 .. MaxStarts
    BY DaemonLifeAssumption, SMTT(30) DEF HInv, TypeInv, MetaDir
  <1>2. DOMAIN chunks = Daemons /\ Backed(layout[d], epoch[d], mdirs[d], chunks[d], pc[d], d \in torn)
    BY Zenon DEF DInv
  <1>3. /\ layout' = layout /\ epoch' = epoch /\ torn' = torn /\ DOMAIN chunks' = Daemons
        /\ pc[d] # "exited" /\ pc'[d] \notin Parsing
        /\ \A x \in Daemons \ {d} : pc'[x] = pc[x]
    BY <1>2, Zenon DEF create_root, CreateFile, Unchanged, Goto, After, InService, Parsing, HInv, TypeInv
  <1>4. PICK new \in {Root, epoch[d]} :
           /\ mdirs' = [mdirs EXCEPT ![d][MetaDir(d)] = @ \cup {new}]
           /\ \A x \in Daemons \ {d} : chunks'[x] = chunks[x]
           /\ chunks[d] \subseteq chunks'[d] /\ (new = Root \/ new \in chunks'[d])
    BY <1>2, Zenon DEF create_root, CreateFile, Unchanged
  <1>5. /\ \A x \in Daemons \ {d} : mdirs'[x] = mdirs[x]
        /\ mdirs'[d][MetaDir(d)] = mdirs[d][MetaDir(d)] \cup {new}
        /\ \A k \in 0 .. MaxStarts : k # MetaDir(d) => mdirs'[d][k] = mdirs[d][k]
    BY <1>1, <1>4, Zenon
  <1>6. Backed(layout[d], epoch[d], mdirs'[d], chunks'[d], pc'[d], d \in torn)
    <2>1. ASSUME d \notin torn \/ layout[d].forwarding
          PROVE  mdirs'[d][MetaDir(d)] \ {Root} \subseteq chunks'[d]
      BY <1>2, <1>3, <1>4, <1>5, <2>1, Zenon DEF Backed, MetaDir
    <2>2. ASSUME layout[d].forwarding, NEW k \in 0 .. MaxStarts, k > epoch[d] PROVE mdirs'[d][k] = {}
      BY <1>1, <1>2, <1>5, <2>2, SMTT(30) DEF Backed, MetaDir
    <2>3. QED  BY <1>3, <2>1, <2>2, Zenon DEF Backed, MetaDir
  <1>7. QED  BY <1>3, <1>4, <1>5, <1>6, DirectoryStep, Zenon

(* The other steps leave the directories alone.                            *)
LEMMA OtherStepsKeepData ==
    ASSUME HInv, DInv, NEW d \in Daemons,
           \/ init_metadata_db(d) \/ init_storage(d) \/ init_rpc_server(d)
           \/ init_proxy_rpc_server(d) \/ init_io_tasklet_pool(d)
           \/ append_line(d) \/ check_line(d) \/ init_rpc_client(d)
           \/ init_managers(d) \/ init_failed(d) \/ install_handlers(d)
           \/ begin_wait(d) \/ join_streams(d) \/ destroy_hosts_file(d) \/ shutdown_handler(d)
    PROVE  DInv'
  <1>1. UNCHANGED <<layout, epoch, mdirs, chunks, torn>>
    BY Zenon DEF init_metadata_db, init_storage, init_rpc_server,
       init_proxy_rpc_server, init_io_tasklet_pool, append_line, check_line, init_rpc_client,
       init_managers, init_failed, install_handlers, begin_wait, join_streams, destroy_hosts_file,
       shutdown_handler, SetUp, Unchanged
  <1>2. pc[d] # "exited"
    BY Zenon DEF init_metadata_db, init_storage, init_rpc_server,
       init_proxy_rpc_server, init_io_tasklet_pool, append_line, check_line, init_rpc_client,
       init_managers, init_failed, install_handlers, begin_wait, join_streams, destroy_hosts_file,
       shutdown_handler, Initialising
  <1> DEFINE Ahead == {"storage", "server", "proxy_server", "io_pool", "root", "register", "check", "client",
                       "managers", "handlers", "lock", "wait", "destroy", "unlist", "finalize"}
  <1>3. /\ After["mdb"] \in Ahead /\ After["storage"] \in Ahead /\ After["server"] \in Ahead
        /\ After["proxy_server"] \in Ahead /\ After["io_pool"] \in Ahead /\ After["client"] \in Ahead
        /\ After["managers"] \in Ahead
    BY SMTT(30) DEF After
  <1>4. pc' = pc \/ \E s \in Ahead : pc' = [pc EXCEPT ![d] = s]
    BY <1>3, Zenon DEF init_metadata_db, init_storage, init_rpc_server,
       init_proxy_rpc_server, init_io_tasklet_pool, append_line, check_line, init_rpc_client,
       init_managers, init_failed, install_handlers, begin_wait, join_streams, destroy_hosts_file,
       shutdown_handler, SetUp, Goto
  <1>5. Ahead \cap Parsing = {} /\ "wait" \in Ahead
    BY Zenon DEF Parsing
  <1> HIDE DEF Ahead
  <1>6. QED  BY <1>1, <1>2, <1>4, <1>5, DirectoriesKept, Zenon

(* The two cleaning options treat metadata and data alike: however often a *)
(* daemon is started, fails, ends and is killed, also in the middle of a   *)
(* removal, with any options, when it serves it has the data of every file *)
(* it has metadata of, unless it was started without cleaning on what an   *)
(* interrupted removal left.                                               *)
THEOREM CleanedCorrect == Spec => []MetadataHasItsData
  <1>1. Init => DInv
    <2>1. 0 \in 0 .. MaxStarts
      BY DaemonLifeAssumption, SMTT(30)
    <2>2. QED  BY <2>1, SMTT(30) DEF Init, DInv, Backed, Parsing
  <1>2. HInv /\ DInv /\ [Next]_vars => DInv'
    <2> SUFFICES ASSUME HInv, DInv, [Next]_vars
                 PROVE  DInv'
      BY Zenon
    <2>1. CASE UNCHANGED vars
      BY <2>1, Zenon DEF vars, DInv
    <2>2. ASSUME NEW d \in Daemons, main(d) \/ CreateFile(d) \/ shutdown_handler(d) \/ Killed(d)
          PROVE  DInv'
      BY <2>2, StartKeepsData, CreateKeepsData, KillKeepsData, OtherStepsKeepData, Zenon
    <2>3. ASSUME NEW d \in Daemons, Progress(d)
          PROVE  DInv'
      BY <2>3, CreateKeepsData, CleaningKeepsData, OtherStepsKeepData, Zenon DEF Progress, CleaningStep
    <2>4. QED  BY <2>1, <2>2, <2>3, Zenon DEF Next
  <1>3. DInv => MetadataHasItsData
    <2>1. "exited" \notin InService
      BY Zenon DEF InService
    <2>2. QED  BY <2>1, Zenon DEF DInv, Backed, MetadataHasItsData, MetaDir
  <1>4. QED  BY <1>1, <1>2, <1>3, HostsFollowed, PTL DEF Spec

-----------------------------------------------------------------------------
(***************************************************************************)
(* Proofs for the write size cache: for any number of threads and copies,  *)
(* any flush threshold, and with or without the cache, no size of a write  *)
(* is lost between the cache and the daemons, and a successful fsync or    *)
(* close means what it promises.                                           *)
(*                                                                         *)
(* The argument follows a size on its way.  A size is accounted for when   *)
(* an error was reported, a daemon has it, an update that carries it is    *)
(* under way, or the cache counts an update that carries it.  Every step   *)
(* of a thread hands a size on from one of these places to the next, so a  *)
(* size that is accounted for stays so until the file is made again.       *)
(*                                                                         *)
(* Daemons that answer a size update with an error are left out by         *)
(* assumption: forward_update_metadentry_size takes such an answer for a   *)
(* success when no answer was lost, and then the size is nowhere.          *)
(***************************************************************************)

Labels == {"idle", "record", "reset", "send", "wait", "data", "done"}
Thread == [pc : Labels, kind : {"none", "write", "fsync", "close"}, size : Nat, upd : Nat,
           goal : Nat, out : [Copies -> {"none", "ok", "lost"}], ret : {-1, 0}]

CacheTypeInv ==
    /\ cache \in [in : BOOLEAN, cnt : Nat, size : Nat]
    /\ server \in [Copies -> Nat]
    /\ th \in [Threads -> Thread]
    /\ written \in Nat
    /\ failed \in BOOLEAN

(* A size that has left the cache, and one that may still be in it, as     *)
(* predicates on the parts of a state.                                     *)
SentIn(err, sizes, threads, size) ==
    \/ err
    \/ \E copy \in Copies : sizes[copy] >= size
    \/ \E t \in Threads : threads[t].pc \in {"send", "wait"} /\ threads[t].upd >= size
AccountedIn(err, sizes, threads, kept, size) ==
    SentIn(err, sizes, threads, size) \/ (kept.cnt > 0 /\ kept.size >= size)

Sent(size) == SentIn(failed, server, th, size)
Accounted(size) == AccountedIn(failed, server, th, cache, size)

(* What a thread relies on at each of its steps.                           *)
ThreadInv(t) ==
    /\ th[t].pc \in {"record", "data"} => th[t].kind = "write"
    /\ th[t].pc \in {"record", "reset"} => UseCache
    /\ th[t].pc \in {"reset", "send", "wait"} => th[t].kind # "none"
    /\ th[t].kind = "write" /\ th[t].pc \in {"reset", "send", "wait", "data"} =>
          Accounted(th[t].size)
    /\ th[t].kind \in {"fsync", "close"} /\ th[t].pc = "reset" => Accounted(th[t].goal)
    /\ /\ th[t].kind \in {"fsync", "close"}
       /\ th[t].pc \in {"send", "wait"} \/ (th[t].pc = "done" /\ th[t].ret = 0)
       => Sent(th[t].goal)
    /\ th[t].pc \in {"record", "reset", "send"} =>
          \A copy \in Copies : th[t].out[copy] = "none"
    /\ th[t].pc = "wait" =>
          \A copy \in Copies : th[t].out[copy] = "ok" => server[copy] >= th[t].upd

IInv == /\ CacheTypeInv
        /\ cache.cnt > 0 => UseCache
        /\ Accounted(written)
        /\ \A t \in Threads : ThreadInv(t)

--------------------------------------------------------------------------
(* A step of thread t that keeps every size where it is or hands it on.    *)
Handed == \A size \in Nat : /\ Sent(size) => Sent(size)'
                            /\ Accounted(size) => Accounted(size)'
Rising == server' \in [Copies -> Nat] /\ \A copy \in Copies : server'[copy] >= server[copy]

(* The threads that do not take the step keep what they rely on.           *)
LEMMA OtherThreads ==
    ASSUME CacheTypeInv, Handed, Rising, NEW u \in Threads, ThreadInv(u), th'[u] = th[u]
    PROVE  ThreadInv(u)'
  <1>1. th[u] \in Thread /\ th[u].size \in Nat /\ th[u].goal \in Nat /\ th[u].upd \in Nat
    BY Zenon DEF CacheTypeInv, Thread
  <1>2. /\ Sent(th[u].goal) => SentIn(failed', server', th', th[u].goal)
        /\ Accounted(th[u].goal) => AccountedIn(failed', server', th', cache', th[u].goal)
        /\ Accounted(th[u].size) => AccountedIn(failed', server', th', cache', th[u].size)
    BY <1>1, Zenon DEF Handed, Sent, Accounted
  <1>3. ASSUME th[u].pc = "wait", NEW copy \in Copies, th[u].out[copy] = "ok"
        PROVE  server'[copy] >= th[u].upd
    <2>1. server[copy] >= th[u].upd
      BY <1>3, Zenon DEF ThreadInv
    <2>2. server[copy] \in Nat /\ server'[copy] \in Nat /\ server'[copy] >= server[copy]
      BY Zenon DEF CacheTypeInv, Rising
    <2>3. QED  BY <1>1, <2>1, <2>2, SMTT(30)
  <1>4. QED  BY <1>2, <1>3, Zenon DEF ThreadInv, Sent, Accounted

(* A step of thread t hands every size on when an update it ends is taken  *)
(* by a daemon or reported, and what it takes out of the cache it sends.   *)
LEMMA ThreadHands ==
    ASSUME CacheTypeInv, CacheTypeInv', Rising, failed => failed',
           NEW t \in Threads, \A u \in Threads \ {t} : th'[u] = th[u],
           th[t].pc \in {"send", "wait"} =>
              \/ th'[t].pc \in {"send", "wait"} /\ th'[t].upd = th[t].upd
              \/ failed'
              \/ \E copy \in Copies : server'[copy] >= th[t].upd,
           cache.cnt > 0 =>
              \/ cache'.cnt > 0 /\ cache'.size >= cache.size
              \/ th'[t].pc = "send" /\ th'[t].upd = cache.size
    PROVE  Handed
  <1> SUFFICES ASSUME NEW size \in Nat
               PROVE  /\ Sent(size) => Sent(size)'
                      /\ Accounted(size) => Accounted(size)'
    BY Zenon DEF Handed
  <1>1. ASSUME Sent(size)
        PROVE  Sent(size)'
    <2>1. CASE failed
      BY <2>1, Zenon DEF Sent, SentIn
    <2>2. ASSUME NEW copy \in Copies, server[copy] >= size
          PROVE  Sent(size)'
      <3>1. server'[copy] >= size
        BY <2>2, SMTT(30) DEF Rising, CacheTypeInv
      <3>2. QED  BY <3>1, Zenon DEF Sent, SentIn
    <2>3. ASSUME NEW u \in Threads, th[u].pc \in {"send", "wait"}, th[u].upd >= size
          PROVE  Sent(size)'
      <3>1. CASE u # t
        BY <2>3, <3>1, Zenon DEF Sent, SentIn
      <3>2. CASE u = t
        <4>1. CASE th'[t].pc \in {"send", "wait"} /\ th'[t].upd = th[t].upd
          BY <2>3, <3>2, <4>1, Zenon DEF Sent, SentIn
        <4>2. CASE failed'
          BY <4>2, Zenon DEF Sent, SentIn
        <4>3. ASSUME NEW copy \in Copies, server'[copy] >= th[t].upd
              PROVE  Sent(size)'
          <5>1. server'[copy] \in Nat /\ th[t].upd \in Nat
            BY Zenon DEF CacheTypeInv, Thread
          <5>2. server'[copy] >= size
            BY <2>3, <3>2, <4>3, <5>1, SMTT(30)
          <5>3. QED  BY <5>2, Zenon DEF Sent, SentIn
        <4>4. QED  BY <2>3, <3>2, <4>1, <4>2, <4>3, Zenon
      <3>3. QED  BY <3>1, <3>2, Zenon
    <2>4. QED  BY <1>1, <2>1, <2>2, <2>3, Zenon DEF Sent, SentIn
  <1>2. ASSUME cache.cnt > 0, cache.size >= size
        PROVE  Accounted(size)'
    <2>1. cache.size \in Nat /\ cache'.size \in Nat
      BY Zenon DEF CacheTypeInv
    <2>2. CASE cache'.cnt > 0 /\ cache'.size >= cache.size
      <3>1. cache'.size >= size
        BY <1>2, <2>1, <2>2, SMTT(30)
      <3>2. QED  BY <2>2, <3>1, Zenon DEF Accounted, AccountedIn
    <2>3. CASE th'[t].pc = "send" /\ th'[t].upd = cache.size
      BY <1>2, <2>3, Zenon DEF Accounted, AccountedIn, SentIn
    <2>4. QED  BY <1>2, <2>2, <2>3, Zenon
  <1>3. QED  BY <1>1, <1>2, Zenon DEF Accounted, AccountedIn, Sent

(* What the step of one thread has to show.                                *)
LEMMA ThreadStep ==
    ASSUME IInv, CacheTypeInv', Handed, Rising, cache'.cnt > 0 => UseCache, Accounted(written)',
           NEW t \in Threads, \A u \in Threads \ {t} : th'[u] = th[u], ThreadInv(t)'
    PROVE  IInv'
  <1>1. ASSUME NEW u \in Threads
        PROVE  ThreadInv(u)'
    <2>1. CASE u = t
      BY <2>1, Zenon
    <2>2. CASE u # t
      BY <2>2, OtherThreads, Zenon DEF IInv
    <2>3. QED  BY <2>1, <2>2, Zenon
  <1>2. QED  BY <1>1, Zenon DEF IInv

--------------------------------------------------------------------------
LEMMA CallKeeps ==
    ASSUME IInv, NEW t \in Threads, NEW kind \in {"write", "fsync", "close"},
           NEW size \in Nat, Call(t, kind, size)
    PROVE  IInv'
  <1> DEFINE label == FirstStep(kind)
             r == [pc |-> label, kind |-> kind, size |-> size, upd |-> size, goal |-> written,
                   out |-> [c \in Copies |-> "none"], ret |-> 0]
  <1>1. /\ th[t].pc = "idle" /\ th' = [th EXCEPT ![t] = r]
        /\ cache' = cache /\ server' = server /\ written' = written /\ failed' = failed
    BY Zenon DEF Call, At, Become
  <1>2. /\ kind = "write" /\ UseCache => label = "record"
        /\ kind = "write" /\ ~UseCache => label = "send"
        /\ kind # "write" /\ UseCache => label = "reset"
        /\ kind # "write" /\ ~UseCache => label = "done"
    BY Zenon DEF FirstStep
  <1> HIDE DEF label
  <1>3. r \in Thread
    BY <1>2, Zenon DEF Thread, Labels, IInv, CacheTypeInv
  <1>4. CacheTypeInv'
    BY <1>1, <1>3, Zenon DEF IInv, CacheTypeInv
  <1>5. th'[t] = r /\ \A u \in Threads \ {t} : th'[u] = th[u]
    BY <1>1, Zenon DEF IInv, CacheTypeInv
  <1>6. Rising
    BY <1>1, SMTT(30) DEF Rising, IInv, CacheTypeInv
  <1>7. Handed
    BY <1>1, <1>4, <1>5, <1>6, ThreadHands, SMTT(30) DEF IInv, CacheTypeInv
  <1>8. AccountedIn(failed', server', th', cache', written)
    BY <1>1, <1>7, Zenon DEF IInv, CacheTypeInv, Handed, Accounted
  <1>9. ~UseCache => SentIn(failed', server', th', written)
    BY <1>1, <1>8, Zenon DEF IInv, CacheTypeInv, AccountedIn
  <1>10. label = "send" => SentIn(failed', server', th', size)
    BY <1>5, SMTT(30) DEF SentIn
  <1>11. ThreadInv(t)'
    BY <1>2, <1>5, <1>8, <1>9, <1>10, SMTT(30) DEF ThreadInv, Sent, Accounted, AccountedIn
  <1>12. QED
    BY <1>1, <1>4, <1>5, <1>6, <1>7, <1>8, <1>11, ThreadStep, Zenon DEF IInv, Accounted

LEMMA RecordKeeps ==
    ASSUME IInv, NEW t \in Threads, gkfs_do_write(t)
    PROVE  IInv'
  <1> DEFINE label == IF cache'.cnt > Threshold THEN "reset" ELSE "data"
             r == [th[t] EXCEPT !.pc = label]
  <1>1. /\ th[t].pc = "record" /\ th' = [th EXCEPT ![t] = r]
        /\ cache' = [in |-> TRUE, cnt |-> cache.cnt + 1, size |-> Larger(cache.size, th[t].size)]
        /\ server' = server /\ written' = written /\ failed' = failed
    BY Zenon DEF gkfs_do_write, At, Continue, Become, record
  <1>2. label \in {"reset", "data"}
    BY Zenon
  <1> HIDE DEF label
  <1>3. th[t] \in Thread /\ cache.size \in Nat /\ cache.cnt \in Nat
    BY Zenon DEF IInv, CacheTypeInv
  <1>4. r \in Thread /\ th[t].size \in Nat
    BY <1>2, <1>3, Zenon DEF Thread, Labels
  <1>5. /\ cache'.cnt = cache.cnt + 1 /\ cache'.cnt > 0 /\ cache'.size \in Nat
        /\ cache'.size >= cache.size /\ cache'.size >= th[t].size
        /\ cache' \in [in : BOOLEAN, cnt : Nat, size : Nat]
    BY <1>1, <1>3, <1>4, SMTT(30) DEF Larger
  <1>6. CacheTypeInv'
    BY <1>1, <1>4, <1>5, Zenon DEF IInv, CacheTypeInv
  <1>7. th'[t] = r /\ \A u \in Threads \ {t} : th'[u] = th[u]
    BY <1>1, Zenon DEF IInv, CacheTypeInv
  <1>8. Rising
    BY <1>1, SMTT(30) DEF Rising, IInv, CacheTypeInv
  <1>9. Handed
    BY <1>1, <1>5, <1>6, <1>7, <1>8, ThreadHands, Zenon DEF IInv
  <1>10. AccountedIn(failed', server', th', cache', written)
    BY <1>1, <1>9, Zenon DEF IInv, CacheTypeInv, Handed, Accounted
  <1>11. AccountedIn(failed', server', th', cache', th[t].size)
    BY <1>5, Zenon DEF AccountedIn
  <1>12. /\ UseCache /\ th[t].kind = "write"
         /\ \A copy \in Copies : th[t].out[copy] = "none"
    BY <1>1, Zenon DEF IInv, ThreadInv
  <1>13. r.kind = "write" /\ r.pc = label /\ r.size = th[t].size /\ r.out = th[t].out
    BY <1>3, <1>12, Zenon DEF Thread
  <1>14. ThreadInv(t)'
    BY <1>2, <1>7, <1>11, <1>12, <1>13, ZenonT(30) DEF ThreadInv, Accounted
  <1>15. QED
    BY <1>1, <1>6, <1>7, <1>8, <1>9, <1>10, <1>12, <1>14, ThreadStep, Zenon DEF Accounted

LEMMA FlushKeeps ==
    ASSUME IInv, NEW t \in Threads, flush(t)
    PROVE  IInv'
  <1> DEFINE label == IF cache.cnt = 0 THEN AfterUpdate(t) ELSE "send"
             upd == IF cache.cnt = 0 THEN th[t].upd ELSE cache.size
             r == [th[t] EXCEPT !.pc = label, !.upd = upd]
  <1>1. /\ th[t] \in Thread /\ cache.size \in Nat /\ cache.cnt \in Nat /\ th[t].upd \in Nat
        /\ th[t].size \in Nat /\ th[t].goal \in Nat
    BY Zenon DEF IInv, CacheTypeInv, Thread
  <1>2. /\ th[t].pc = "reset" /\ cache' = [cache EXCEPT !.cnt = 0]
        /\ server' = server /\ written' = written /\ failed' = failed
    BY Zenon DEF flush, At, reset
  <1>3. th' = [th EXCEPT ![t] = r]
    <2>1. CASE cache.cnt = 0
      <3>1. [th[t] EXCEPT !.pc = AfterUpdate(t)] = r
        BY <1>1, <2>1, Zenon DEF Thread
      <3>2. QED  BY <2>1, <3>1, Zenon DEF flush, Continue, Become
    <2>2. CASE cache.cnt # 0
      BY <2>2, Zenon DEF flush, Become
    <2>3. QED  BY <2>1, <2>2, Zenon
  <1>4. UseCache /\ th[t].kind # "none" /\ \A copy \in Copies : th[t].out[copy] = "none"
    BY <1>2, Zenon DEF IInv, ThreadInv
  <1>5. /\ cache.cnt # 0 => label = "send" /\ upd = cache.size
        /\ cache.cnt = 0 => label = (IF th[t].kind = "write" THEN "data" ELSE "done")
        /\ label \in Labels /\ upd \in Nat
    BY <1>1, Zenon DEF AfterUpdate, Labels
  <1> HIDE DEF label, upd
  <1>6. /\ r \in Thread /\ r.pc = label /\ r.upd = upd /\ r.kind = th[t].kind
        /\ r.size = th[t].size /\ r.goal = th[t].goal /\ r.out = th[t].out
    BY <1>1, <1>5, Zenon DEF Thread
  <1>7. cache'.cnt = 0 /\ cache' \in [in : BOOLEAN, cnt : Nat, size : Nat]
    BY <1>2, Zenon DEF IInv, CacheTypeInv
  <1>8. CacheTypeInv'
    BY <1>2, <1>3, <1>6, <1>7, Zenon DEF IInv, CacheTypeInv
  <1>9. th'[t] = r /\ \A u \in Threads \ {t} : th'[u] = th[u]
    BY <1>3, Zenon DEF IInv, CacheTypeInv
  <1> HIDE DEF r
  <1>10. Rising
    BY <1>2, SMTT(30) DEF Rising, IInv, CacheTypeInv
  <1>11. Handed
    BY <1>1, <1>2, <1>5, <1>6, <1>8, <1>9, <1>10, ThreadHands, SMTT(30) DEF IInv
  <1>12. AccountedIn(failed', server', th', cache', written)
    BY <1>2, <1>11, Zenon DEF IInv, CacheTypeInv, Handed, Accounted
  <1>13. /\ th[t].kind = "write" => AccountedIn(failed', server', th', cache', th[t].size)
         /\ th[t].kind \in {"fsync", "close"} =>
               AccountedIn(failed', server', th', cache', th[t].goal)
    BY <1>1, <1>2, <1>11, Zenon DEF IInv, ThreadInv, Handed, Accounted
  <1>14. th[t].kind \in {"fsync", "close"} => SentIn(failed', server', th', th[t].goal)
    BY <1>7, <1>13, SMTT(30) DEF AccountedIn
  <1>15. ThreadInv(t)'
    BY <1>1, <1>4, <1>5, <1>6, <1>9, <1>13, <1>14, Zenon DEF ThreadInv, Sent, Accounted
  <1>16. QED
    BY <1>4, <1>8, <1>9, <1>10, <1>11, <1>12, <1>2, <1>15, ThreadStep, Zenon DEF Accounted

LEMMA PostKeeps ==
    ASSUME IInv, NEW t \in Threads, post_update(t)
    PROVE  IInv'
  <1>1. /\ th[t] \in Thread /\ th[t].size \in Nat /\ th[t].goal \in Nat /\ th[t].kind # "none"
        /\ th[t].pc = "send" /\ cache' = cache /\ server' = server /\ written' = written
    BY Zenon DEF IInv, CacheTypeInv, Thread, ThreadInv, post_update, At
  <1>2. Rising
    BY <1>1, SMTT(30) DEF Rising, IInv, CacheTypeInv
  <1>3. ASSUME NEW r \in Thread, th' = [th EXCEPT ![t] = r], failed' \in BOOLEAN,
               failed => failed', r.kind = th[t].kind, r.size = th[t].size,
               r.goal = th[t].goal, r.upd = th[t].upd,
               \/ r.pc = "wait" /\ \A copy \in Copies : r.out[copy] # "ok"
               \/ r.pc = "done" /\ failed'
        PROVE  IInv'
    <2>1. CacheTypeInv'
      BY <1>1, <1>3, Zenon DEF IInv, CacheTypeInv
    <2>2. th'[t] = r /\ \A u \in Threads \ {t} : th'[u] = th[u]
      BY <1>3, Zenon DEF IInv, CacheTypeInv
    <2>3. Handed
      BY <1>1, <1>2, <1>3, <2>1, <2>2, ThreadHands, SMTT(30) DEF IInv, CacheTypeInv
    <2>4. AccountedIn(failed', server', th', cache', written)
      BY <1>1, <2>3, Zenon DEF IInv, CacheTypeInv, Handed, Accounted
    <2>5. /\ th[t].kind = "write" => AccountedIn(failed', server', th', cache', th[t].size)
          /\ th[t].kind \in {"fsync", "close"} => SentIn(failed', server', th', th[t].goal)
      BY <1>1, <2>3, Zenon DEF IInv, ThreadInv, Handed, Accounted, Sent
    <2>6. ThreadInv(t)'
      BY <1>1, <1>3, <2>2, <2>5, Zenon DEF ThreadInv, Sent, Accounted
    <2>7. QED
      BY <1>1, <1>2, <2>1, <2>2, <2>3, <2>4, <2>6, ThreadStep, Zenon DEF Accounted, IInv
  <1>4. CASE Continue(t, "wait") /\ UNCHANGED <<nfailures, failed>>
    <2> DEFINE r == [th[t] EXCEPT !.pc = "wait"]
    <2>1. r \in Thread /\ r.kind = th[t].kind /\ r.size = th[t].size /\ r.goal = th[t].goal
          /\ r.upd = th[t].upd /\ r.pc = "wait" /\ r.out = th[t].out
      BY <1>1, Zenon DEF Thread, Labels
    <2>2. \A copy \in Copies : th[t].out[copy] # "ok"
      BY <1>1, Zenon DEF IInv, ThreadInv
    <2>3. th' = [th EXCEPT ![t] = r] /\ failed' = failed
      BY <1>4, Zenon DEF Continue, Become
    <2> HIDE DEF r
    <2>4. QED  BY <1>3, <2>1, <2>2, <2>3, Zenon DEF IInv, CacheTypeInv
  <1>5. CASE failed' = TRUE /\ Become(t, [th[t] EXCEPT !.pc = "done", !.ret = -1])
    <2> DEFINE r == [th[t] EXCEPT !.pc = "done", !.ret = -1]
    <2>1. r \in Thread /\ r.kind = th[t].kind /\ r.size = th[t].size /\ r.goal = th[t].goal
          /\ r.upd = th[t].upd /\ r.pc = "done"
      BY <1>1, Zenon DEF Thread, Labels
    <2>2. th' = [th EXCEPT ![t] = r] /\ failed'
      BY <1>5, Zenon DEF Become
    <2> HIDE DEF r
    <2>3. QED  BY <1>3, <2>1, <2>2, Zenon
  <1>6. QED  BY <1>4, <1>5, Zenon DEF post_update

LEMMA AnswerKeeps ==
    ASSUME IInv, "error" \notin Failures, NEW t \in Threads, NEW copy \in Copies,
           rpc_srv_update_metadentry_size(t, copy)
    PROVE  IInv'
  <1>1. /\ th[t] \in Thread /\ th[t].size \in Nat /\ th[t].goal \in Nat /\ th[t].upd \in Nat
        /\ th[t].kind # "none" /\ th[t].pc = "wait" /\ cache' = cache /\ written' = written
        /\ failed' = failed /\ server \in [Copies -> Nat]
    BY Zenon DEF IInv, CacheTypeInv, Thread, ThreadInv, rpc_srv_update_metadentry_size, At
  <1>2. PICK res \in {"ok", "lost"} :
          /\ th' = [th EXCEPT ![t] = [th[t] EXCEPT !.out[copy] = res]]
          /\ res = "ok" => server' = [server EXCEPT ![copy] = Larger(@, th[t].upd)]
          /\ res = "lost" => server' = server
    BY Zenon DEF rpc_srv_update_metadentry_size, Become, Lost
  <1> DEFINE r == [th[t] EXCEPT !.out[copy] = res]
  <1>3. /\ r \in Thread /\ r.kind = th[t].kind /\ r.size = th[t].size /\ r.goal = th[t].goal
        /\ r.upd = th[t].upd /\ r.pc = "wait" /\ r.out = [th[t].out EXCEPT ![copy] = res]
    BY <1>1, Zenon DEF Thread, Labels
  <1>4. /\ server' \in [Copies -> Nat] /\ \A c \in Copies : server'[c] >= server[c]
        /\ res = "ok" => server'[copy] >= th[t].upd
    BY <1>1, <1>2, SMTT(30) DEF Larger
  <1>5. Rising
    BY <1>4, Zenon DEF Rising
  <1>6. th' = [th EXCEPT ![t] = r]
    BY <1>2, Zenon
  <1> HIDE DEF r
  <1>7. CacheTypeInv'
    BY <1>1, <1>3, <1>4, <1>6, Zenon DEF IInv, CacheTypeInv
  <1>8. th'[t] = r /\ \A u \in Threads \ {t} : th'[u] = th[u]
    BY <1>6, Zenon DEF IInv, CacheTypeInv
  <1>9. Handed
    BY <1>1, <1>3, <1>5, <1>7, <1>8, ThreadHands, SMTT(30) DEF IInv, CacheTypeInv
  <1>10. AccountedIn(failed', server', th', cache', written)
    BY <1>1, <1>9, Zenon DEF IInv, CacheTypeInv, Handed, Accounted
  <1>11. /\ th[t].kind = "write" => AccountedIn(failed', server', th', cache', th[t].size)
         /\ th[t].kind \in {"fsync", "close"} => SentIn(failed', server', th', th[t].goal)
    BY <1>1, <1>9, Zenon DEF IInv, ThreadInv, Handed, Accounted, Sent
  <1>12. ASSUME NEW c \in Copies, r.out[c] = "ok"
         PROVE  server'[c] >= th[t].upd
    <2>1. CASE c = copy
      <3>1. res = "ok"
        BY <1>1, <1>3, <1>12, <2>1, Zenon DEF Thread
      <3>2. QED  BY <1>4, <2>1, <3>1, Zenon
    <2>2. CASE c # copy
      <3>1. th[t].out[c] = "ok"
        BY <1>1, <1>3, <1>12, <2>2, Zenon DEF Thread
      <3>2. server[c] >= th[t].upd
        BY <1>1, <3>1, Zenon DEF IInv, ThreadInv
      <3>3. server'[c] \in Nat /\ server[c] \in Nat
        BY <1>1, <1>4, Zenon
      <3>4. QED  BY <1>1, <1>4, <3>2, <3>3, SMTT(30)
    <2>3. QED  BY <2>1, <2>2, Zenon
  <1>13. ThreadInv(t)'
    BY <1>1, <1>3, <1>8, <1>11, <1>12, Zenon DEF ThreadInv, Sent, Accounted
  <1>14. QED
    BY <1>1, <1>5, <1>7, <1>8, <1>9, <1>10, <1>13, ThreadStep, Zenon DEF Accounted, IInv

(* An update that is not reported as failed was taken by a daemon, since   *)
(* an answer is a success or lost.                                         *)
LEMMA GatherKeeps ==
    ASSUME IInv, NEW t \in Threads, forward_update_metadentry_size(t)
    PROVE  IInv'
  <1> DEFINE bad == UpdateFailed(th[t].out)
             label == IF bad THEN "done" ELSE AfterUpdate(t)
             ret == IF bad THEN -1 ELSE th[t].ret
             r == [th[t] EXCEPT !.pc = label, !.ret = ret]
  <1>1. /\ th[t] \in Thread /\ th[t].size \in Nat /\ th[t].goal \in Nat /\ th[t].upd \in Nat
        /\ th[t].kind # "none" /\ th[t].pc = "wait" /\ cache' = cache /\ written' = written
        /\ server' = server /\ \A copy \in Copies : th[t].out[copy] # "none"
    BY Zenon DEF IInv, CacheTypeInv, Thread, ThreadInv, forward_update_metadentry_size, At
  <1>2. th' = [th EXCEPT ![t] = r]
    <2>1. CASE bad
      BY <2>1, Zenon DEF forward_update_metadentry_size, Become
    <2>2. CASE ~bad
      <3>1. [th[t] EXCEPT !.pc = AfterUpdate(t)] = r
        BY <1>1, <2>2, Zenon DEF Thread
      <3>2. QED  BY <2>2, <3>1, Zenon DEF forward_update_metadentry_size, Continue, Become
    <2>3. QED  BY <2>1, <2>2, Zenon
  <1>3. failed' = (failed \/ bad) /\ failed' \in BOOLEAN
    BY Zenon DEF forward_update_metadentry_size, IInv, CacheTypeInv
  <1>4. ~bad => \E copy \in Copies : th[t].out[copy] = "ok"
    <2>1. 0 \in Copies
      BY SizeCacheAssumption, SMTT(30) DEF Copies
    <2>2. th[t].out \in [Copies -> {"none", "ok", "lost"}]
      BY <1>1, Zenon DEF Thread
    <2>3. QED  BY <1>1, <2>1, <2>2, Zenon DEF UpdateFailed
  <1>5. failed' \/ \E copy \in Copies : server'[copy] >= th[t].upd
    <2>1. \A copy \in Copies : th[t].out[copy] = "ok" => server[copy] >= th[t].upd
      BY <1>1, Zenon DEF IInv, ThreadInv
    <2>2. QED  BY <1>1, <1>3, <1>4, <2>1, Zenon
  <1>6. /\ bad => label = "done" /\ ret = -1
        /\ ~bad => label = (IF th[t].kind = "write" THEN "data" ELSE "done") /\ ret = th[t].ret
        /\ label \in {"data", "done"} /\ ret \in {-1, 0}
    BY <1>1, Zenon DEF AfterUpdate, Thread
  <1> HIDE DEF bad, label, ret
  <1>7. /\ r \in Thread /\ r.kind = th[t].kind /\ r.size = th[t].size /\ r.goal = th[t].goal
        /\ r.pc = label
    BY <1>1, <1>6, Zenon DEF Thread, Labels
  <1> HIDE DEF r
  <1>8. Rising
    BY <1>1, SMTT(30) DEF Rising, IInv, CacheTypeInv
  <1>9. CacheTypeInv'
    BY <1>1, <1>2, <1>3, <1>7, Zenon DEF IInv, CacheTypeInv
  <1>10. th'[t] = r /\ \A u \in Threads \ {t} : th'[u] = th[u]
    BY <1>2, Zenon DEF IInv, CacheTypeInv
  <1>11. Handed
    BY <1>1, <1>3, <1>5, <1>8, <1>9, <1>10, ThreadHands, SMTT(30) DEF IInv, CacheTypeInv
  <1>12. AccountedIn(failed', server', th', cache', written)
    BY <1>1, <1>11, Zenon DEF IInv, CacheTypeInv, Handed, Accounted
  <1>13. /\ th[t].kind = "write" => AccountedIn(failed', server', th', cache', th[t].size)
         /\ th[t].kind \in {"fsync", "close"} => SentIn(failed', server', th', th[t].goal)
    BY <1>1, <1>11, Zenon DEF IInv, ThreadInv, Handed, Accounted, Sent
  <1>14. label = "data" => th[t].kind = "write"
    BY <1>6, Zenon
  <1>15. ThreadInv(t)'
    BY <1>6, <1>7, <1>10, <1>13, <1>14, Zenon DEF ThreadInv, Sent, Accounted
  <1>16. QED
    BY <1>1, <1>8, <1>9, <1>10, <1>11, <1>12, <1>15, ThreadStep, Zenon DEF Accounted, IInv

LEMMA DataKeeps ==
    ASSUME IInv, NEW t \in Threads, forward_write(t)
    PROVE  IInv'
  <1> DEFINE r == [th[t] EXCEPT !.pc = "done"]
  <1>1. /\ th[t] \in Thread /\ th[t].size \in Nat /\ th[t].kind = "write" /\ th[t].pc = "data"
        /\ cache' = cache /\ server' = server /\ failed' = failed
        /\ written \in Nat /\ written' = Larger(written, th[t].size)
    BY Zenon DEF IInv, CacheTypeInv, Thread, ThreadInv, forward_write, At
  <1>2. /\ r \in Thread /\ r.kind = "write" /\ r.pc = "done"
    BY <1>1, Zenon DEF Thread, Labels
  <1>3. th' = [th EXCEPT ![t] = r]
    BY Zenon DEF forward_write, Continue, Become
  <1> HIDE DEF r
  <1>4. written' \in {written, th[t].size}
    BY <1>1, Zenon DEF Larger
  <1>5. CacheTypeInv'
    BY <1>1, <1>2, <1>3, <1>4, Zenon DEF IInv, CacheTypeInv
  <1>6. th'[t] = r /\ \A u \in Threads \ {t} : th'[u] = th[u]
    BY <1>3 DEF IInv, CacheTypeInv
  <1>7. Rising
    BY <1>1, SMTT(30) DEF Rising, IInv, CacheTypeInv
  <1>8. Handed
    BY <1>1, <1>5, <1>6, <1>7, ThreadHands, SMTT(30) DEF IInv, CacheTypeInv
  <1>9. /\ AccountedIn(failed', server', th', cache', written)
        /\ AccountedIn(failed', server', th', cache', th[t].size)
    BY <1>1, <1>8, Zenon DEF IInv, CacheTypeInv, ThreadInv, Handed, Accounted
  <1>10. AccountedIn(failed', server', th', cache', written')
    BY <1>4, <1>9, Zenon
  <1>11. ThreadInv(t)'
    BY <1>2, <1>6, Zenon DEF ThreadInv
  <1>12. QED
    BY <1>1, <1>5, <1>6, <1>7, <1>8, <1>10, <1>11, ThreadStep, Zenon DEF Accounted, IInv

LEMMA IdleThread == Idle \in Thread /\ Idle.pc = "idle" /\ Idle.kind = "none"
  BY Zenon DEF Idle, Thread, Labels

LEMMA ReturnKeeps ==
    ASSUME IInv, NEW t \in Threads, Return(t)
    PROVE  IInv'
  <1>1. /\ th[t].pc = "done" /\ th' = [th EXCEPT ![t] = Idle]
        /\ cache' = cache /\ server' = server /\ failed' = failed /\ written' = written
    BY Zenon DEF Return, At, Become
  <1>2. CacheTypeInv'
    BY <1>1, IdleThread, Zenon DEF IInv, CacheTypeInv
  <1>3. th'[t] = Idle /\ \A u \in Threads \ {t} : th'[u] = th[u]
    BY <1>1, Zenon DEF IInv, CacheTypeInv
  <1>4. Rising
    BY <1>1, SMTT(30) DEF Rising, IInv, CacheTypeInv
  <1>5. Handed
    BY <1>1, <1>2, <1>3, <1>4, ThreadHands, SMTT(30) DEF IInv, CacheTypeInv
  <1>6. AccountedIn(failed', server', th', cache', written)
    BY <1>1, <1>5, Zenon DEF IInv, CacheTypeInv, Handed, Accounted
  <1>7. ThreadInv(t)'
    BY <1>3, IdleThread, Zenon DEF ThreadInv
  <1>8. QED
    BY <1>1, <1>2, <1>3, <1>4, <1>5, <1>6, <1>7, ThreadStep, Zenon DEF Accounted, IInv

(* The size of an empty file is covered by every daemon.                   *)
LEMMA EmptyCovered ==
    ASSUME server' = [c \in Copies |-> 0], written' = 0
    PROVE  Accounted(written)'
  <1>1. 0 \in Copies /\ server'[0] >= 0
    BY SizeCacheAssumption, SMTT(30) DEF Copies
  <1>2. QED  BY <1>1, Zenon DEF Accounted, AccountedIn, SentIn

LEMMA RemakeKeeps == IInv /\ Remake => IInv'
  <1> SUFFICES ASSUME IInv, Remake
               PROVE  IInv'
    BY Zenon
  <1>1. /\ \A t \in Threads : th[t].pc = "idle"
        /\ th' = th /\ cache' = cache /\ failed' = failed
        /\ server' = [c \in Copies |-> 0] /\ written' = 0
    BY Zenon DEF Remake, At
  <1>2. CacheTypeInv'
    BY <1>1, Zenon DEF IInv, CacheTypeInv
  <1>3. ASSUME NEW t \in Threads
        PROVE  ThreadInv(t)'
    <2>1. th'[t].pc = "idle"
      BY <1>1, Zenon
    <2>2. QED  BY <2>1, Zenon DEF ThreadInv
  <1>4. QED  BY <1>1, <1>2, <1>3, EmptyCovered, Zenon DEF IInv

--------------------------------------------------------------------------
LEMMA CacheInitially == CacheInit => IInv
  <1> SUFFICES ASSUME CacheInit
               PROVE  IInv
    BY Zenon
  <1>1. /\ cache = [in |-> FALSE, cnt |-> 0, size |-> 0] /\ written = 0 /\ failed = FALSE
        /\ server = [c \in Copies |-> 0] /\ th = [t \in Threads |-> Idle]
    BY Zenon DEF CacheInit, NoCache
  <1>2. CacheTypeInv
    BY <1>1, IdleThread, Zenon DEF CacheTypeInv
  <1>3. Accounted(written)
    <2>1. 0 \in Copies /\ server[0] >= written
      BY <1>1, SizeCacheAssumption, SMTT(30) DEF Copies
    <2>2. QED  BY <2>1, Zenon DEF Accounted, AccountedIn, SentIn
  <1>4. ASSUME NEW t \in Threads
        PROVE  ThreadInv(t)
    <2>1. th[t].pc = "idle" /\ th[t].kind = "none"
      BY <1>1, IdleThread, Zenon
    <2>2. QED  BY <2>1, Zenon DEF ThreadInv
  <1>5. QED  BY <1>1, <1>2, <1>3, <1>4, SMTT(30) DEF IInv

LEMMA CacheStutters == IInv /\ UNCHANGED cacheVars => IInv'
  BY SMTT(30) DEF IInv, CacheTypeInv, ThreadInv, Accounted, Sent, cacheVars

LEMMA CacheKept ==
    ASSUME IInv, "error" \notin Failures, [CacheNext]_cacheVars
    PROVE  IInv'
  <1>1. ASSUME NEW t \in Threads, NEW size \in 1 .. MaxSize, Call(t, "write", size)
        PROVE  IInv'
    BY <1>1, CallKeeps, SMTT(30)
  <1>2. ASSUME NEW t \in Threads, Call(t, "fsync", 0) \/ Call(t, "close", 0)
        PROVE  IInv'
    BY <1>2, CallKeeps, Zenon
  <1>3. ASSUME NEW t \in Threads, NEW copy \in Copies, rpc_srv_update_metadentry_size(t, copy)
        PROVE  IInv'
    BY <1>3, AnswerKeeps, Zenon
  <1>4. ASSUME NEW t \in Threads,
               \/ gkfs_do_write(t) \/ flush(t) \/ post_update(t)
               \/ forward_update_metadentry_size(t) \/ forward_write(t) \/ Return(t)
        PROVE  IInv'
    BY <1>4, RecordKeeps, FlushKeeps, PostKeeps, GatherKeeps, DataKeeps, ReturnKeeps, Zenon
  <1>5. QED  BY <1>1, <1>2, <1>3, <1>4, RemakeKeeps, CacheStutters, Zenon DEF CacheNext

(* The inductive invariant: where each size is, and what each thread knows *)
(* of it at each step of gkfs_do_write, of the flush and of the update.    *)
THEOREM SizesFollowed ==
    ASSUME "error" \notin Failures
    PROVE  CacheSpec => []IInv
  <1>1. CacheInit => IInv
    BY CacheInitially, Zenon
  <1>2. IInv /\ [CacheNext]_cacheVars => IInv'
    BY CacheKept, Zenon
  <1>3. QED  BY <1>1, <1>2, PTL DEF CacheSpec

(* WriteSizeCache::record and ::reset and the flush in gkfs_do_write and   *)
(* gkfs_fsync: a size leaves the cache only for a daemon.                  *)
THEOREM AccountedCorrect ==
    ASSUME "error" \notin Failures
    PROVE  CacheSpec => []SizesAccounted
  <1>1. IInv => SizesAccounted
    BY SMTT(30) DEF IInv, CacheTypeInv, SizesAccounted, Accounted, AccountedIn, SentIn, Flushing, At, Covered
  <1>2. QED  BY <1>1, SizesFollowed, PTL

(* gkfs_fsync and the flush at close: when the call returns 0, a daemon    *)
(* has the size of every write that was complete before it, or another     *)
(* thread took that size out of the cache and is sending it.               *)
THEOREM FlushCorrect ==
    ASSUME "error" \notin Failures
    PROVE  CacheSpec => []FlushedOrUnderWay
  <1>1. IInv => FlushedOrUnderWay
    BY Zenon DEF IInv, ThreadInv, FlushedOrUnderWay, Sent, SentIn, At, Covered, UnderWay
  <1>2. QED  BY <1>1, SizesFollowed, PTL

-----------------------------------------------------------------------------
(***************************************************************************)
(* The pid file of a node, for any number of proxies that are started,     *)
(* fail and are killed in any order, and the host lists of its clients,    *)
(* for any number of daemons.                                              *)
(*                                                                         *)
(* The file is shared and every proxy may remove it, so the invariant also *)
(* says who can still write to it: a proxy between the two steps of        *)
(* create_proxy_pid_file.  A client has the one sorted list of the set of  *)
(* daemons, and walks along it as long as the daemons it asks are dead.    *)
(***************************************************************************)
CONSTANTS Ranks, Proxies, Clients, LocalDaemon, NodeFaults, MaxNodeFaults, MaxRestarts
VARIABLES lines, dead, pidfile, proxy, client, first, nodefaults, nrestarts

Node == INSTANCE ProxyLife WITH
    Daemons <- Ranks, Faults <- NodeFaults, MaxFaults <- MaxNodeFaults, nfaults <- nodefaults

Shape(f) == f = [p \in Proxies |-> [pc |-> f[p].pc, hosts |-> f[p].hosts]]

(* A proxy that wrote the file and has not removed it.                     *)
Named == {"connect", "lock", "wait", "destroy", "remove", "killed"}

PidInv ==
    /\ Shape(proxy)
    /\ pidfile \in [st : {"absent", "empty", "full"}, pid : Proxies \cup {0},
                    open : SUBSET Proxies]
    /\ \A p \in pidfile.open : proxy[p].pc = "pidwrite"
    /\ pidfile.st = "full" => pidfile.pid \in Proxies /\ proxy[pidfile.pid].pc \in Named

LEMMA ProxyMoves ==
    ASSUME Shape(proxy), NEW p \in Proxies, NEW s, proxy' = [proxy EXCEPT ![p].pc = s]
    PROVE  /\ Shape(proxy') /\ proxy'[p].pc = s
           /\ \A q \in Proxies \ {p} : proxy'[q] = proxy[q]
  <1> DEFINE r == [pc |-> s, hosts |-> proxy[p].hosts]
  <1>1. proxy[p] = [pc |-> proxy[p].pc, hosts |-> proxy[p].hosts]
    BY DEF Shape
  <1>2. DOMAIN proxy = Proxies
    BY DEF Shape
  <1>3. [proxy[p] EXCEPT !.pc = s] = r
    BY <1>1
  <1>4. proxy' = [q \in Proxies |-> IF q = p THEN r ELSE proxy[q]]
    BY <1>2, <1>3, Zenon
  <1>5. \A q \in Proxies : proxy[q] = [pc |-> proxy[q].pc, hosts |-> proxy[q].hosts]
    BY DEF Shape
  <1>6. \A q \in Proxies : proxy'[q] = [pc |-> proxy'[q].pc, hosts |-> proxy'[q].hosts]
    BY <1>4, <1>5
  <1>7. proxy' = [q \in Proxies |-> proxy'[q]]
    BY <1>4, Zenon
  <1>8. Shape(proxy')
    BY <1>6, <1>7 DEF Shape
  <1>9. QED  BY <1>4, <1>8

(* The file is left alone: the proxy that moves has not got it open, and   *)
(* if the file names it, it goes on to another step after writing it.      *)
LEMMA FileKept ==
    ASSUME PidInv, NEW p \in Proxies, NEW s, proxy' = [proxy EXCEPT ![p].pc = s],
           pidfile' = pidfile, proxy[p].pc # "pidwrite", proxy[p].pc \in Named => s \in Named
    PROVE  PidInv'
  <1>1. /\ Shape(proxy') /\ proxy'[p].pc = s
        /\ \A q \in Proxies \ {p} : proxy'[q] = proxy[q]
    BY ProxyMoves, Zenon DEF PidInv
  <1>2. \A q \in pidfile.open : q \in Proxies \ {p} /\ proxy'[q].pc = "pidwrite"
    BY <1>1 DEF PidInv
  <1>3. pidfile.st = "full" => pidfile.pid \in Proxies /\ proxy'[pidfile.pid].pc \in Named
    BY <1>1 DEF PidInv
  <1>4. QED  BY <1>1, <1>2, <1>3 DEF PidInv

LEMMA FileGone ==
    ASSUME PidInv, NEW p \in Proxies, NEW s, proxy' = [proxy EXCEPT ![p].pc = s],
           pidfile' = Node!NoFile
    PROVE  PidInv'
  <1>1. Shape(proxy')
    BY ProxyMoves, Zenon DEF PidInv
  <1>2. QED  BY <1>1 DEF PidInv, Node!NoFile

LEMMA PidCreated ==
    ASSUME PidInv, NEW p \in Proxies, Node!create_proxy_pid_file(p)
    PROVE  PidInv'
  <1>1. CASE /\ Node!AtProxy(p, "pid") /\ Node!ProxyGoto(p, "pidwrite")
             /\ pidfile' = [st |-> "empty", pid |-> 0, open |-> pidfile.open \cup {p}]
    <2>1. /\ Shape(proxy') /\ proxy'[p].pc = "pidwrite"
          /\ \A q \in Proxies \ {p} : proxy'[q] = proxy[q]
      BY <1>1, ProxyMoves, Zenon DEF PidInv, Node!ProxyGoto
    <2>2. QED  BY <1>1, <2>1 DEF PidInv
  <1>2. CASE /\ Node!AtProxy(p, "pidwrite") /\ Node!ProxyGoto(p, "connect")
             /\ pidfile' = IF p \in pidfile.open
                           THEN [st |-> "full", pid |-> p, open |-> pidfile.open \ {p}]
                           ELSE pidfile
    <2>1. /\ Shape(proxy') /\ proxy'[p].pc = "connect"
          /\ \A q \in Proxies \ {p} : proxy'[q] = proxy[q]
      BY <1>2, ProxyMoves, Zenon DEF PidInv, Node!ProxyGoto
    <2>2. CASE p \in pidfile.open
      BY <1>2, <2>1, <2>2 DEF PidInv, Named
    <2>3. CASE p \notin pidfile.open
      <3>1. pidfile' = pidfile /\ proxy[p].pc \notin Named
        BY <1>2, <2>3 DEF Node!AtProxy, Named
      <3>2. QED  BY <2>1, <2>3, <3>1 DEF PidInv
    <2>4. QED  BY <2>2, <2>3
  <1>3. QED  BY <1>1, <1>2 DEF Node!create_proxy_pid_file

LEMMA ProxyKilled ==
    ASSUME PidInv, NEW p \in Proxies, Node!Killed(p)
    PROVE  PidInv'
  <1>1. /\ proxy' = [proxy EXCEPT ![p].pc = "killed"]
        /\ pidfile' = [pidfile EXCEPT !.open = @ \ {p}]
    BY DEF Node!Killed, Node!ProxyGoto
  <1>2. /\ Shape(proxy') /\ proxy'[p].pc = "killed"
        /\ \A q \in Proxies \ {p} : proxy'[q] = proxy[q]
    BY <1>1, ProxyMoves, Zenon DEF PidInv
  <1>3. /\ pidfile'.st = pidfile.st /\ pidfile'.pid = pidfile.pid
        /\ pidfile'.open = pidfile.open \ {p}
        /\ pidfile' \in [st : {"absent", "empty", "full"}, pid : Proxies \cup {0},
                         open : SUBSET Proxies]
    BY <1>1 DEF PidInv
  <1>4. QED  BY <1>2, <1>3 DEF PidInv, Named

LEMMA ReadKeeps ==
    ASSUME PidInv, NEW p \in Proxies, Node!read_hosts_file(p)
    PROVE  PidInv'
  <1> DEFINE r == [pc |-> "ipc", hosts |-> Node!proxy_load_hostfile(lines)]
  <1>1. proxy[p].pc = "read" /\ proxy' = [proxy EXCEPT ![p] = r] /\ pidfile' = pidfile
    BY DEF Node!read_hosts_file, Node!AtProxy
  <1>2. /\ DOMAIN proxy = Proxies
        /\ \A q \in Proxies : proxy[q] = [pc |-> proxy[q].pc, hosts |-> proxy[q].hosts]
    BY DEF PidInv, Shape
  <1>3. proxy' = [q \in Proxies |-> IF q = p THEN r ELSE proxy[q]]
    BY <1>1, <1>2, Zenon
  <1>4. /\ \A q \in Proxies : proxy'[q] = [pc |-> proxy'[q].pc, hosts |-> proxy'[q].hosts]
        /\ proxy' = [q \in Proxies |-> proxy'[q]]
    BY <1>2, <1>3
  <1>5. Shape(proxy') /\ \A q \in Proxies \ {p} : proxy'[q] = proxy[q]
    BY <1>3, <1>4 DEF Shape
  <1>6. \A q \in pidfile.open : q \in Proxies \ {p} /\ proxy'[q].pc = "pidwrite"
    BY <1>1, <1>5 DEF PidInv
  <1>7. pidfile.st = "full" => pidfile.pid \in Proxies /\ proxy'[pidfile.pid].pc \in Named
    BY <1>1, <1>5 DEF PidInv, Named
  <1>8. QED  BY <1>1, <1>5, <1>6, <1>7 DEF PidInv

(* The steps that leave the file alone, and those that remove it.          *)
LEMMA OthersKeep ==
    ASSUME PidInv, NEW p \in Proxies,
           \/ Node!main(p) \/ Node!init_ipc_server(p) \/ Node!init_rpc_client(p) \/ Node!connect_to_hosts(p)
           \/ Node!begin_wait(p) \/ Node!init_failed(p) \/ Node!shutdown_handler(p) \/ Node!destroy_enviroment(p)
    PROVE  PidInv'
  <1>1. pidfile' = pidfile
    BY DEF Node!main, Node!init_ipc_server, Node!init_rpc_client, Node!connect_to_hosts, Node!begin_wait, Node!init_failed,
           Node!shutdown_handler, Node!destroy_enviroment
  <1>2. PICK s : /\ proxy' = [proxy EXCEPT ![p].pc = s]
                 /\ proxy[p].pc # "pidwrite" /\ (proxy[p].pc \in Named => s \in Named)
    BY DEF Node!main, Node!init_ipc_server, Node!init_rpc_client, Node!connect_to_hosts, Node!begin_wait, Node!init_failed,
           Node!shutdown_handler, Node!destroy_enviroment, Node!AtProxy, Node!ProxyGoto, Named
  <1>3. QED  BY <1>1, <1>2, FileKept, Zenon

LEMMA RemovesKeep ==
    ASSUME PidInv, NEW p \in Proxies,
           Node!is_proxy_already_running(p) \/ Node!remove_proxy_pid_file(p)
    PROVE  PidInv'
  <1>1. CASE pidfile' = Node!NoFile
    <2>1. PICK s : proxy' = [proxy EXCEPT ![p].pc = s]
      BY DEF Node!is_proxy_already_running, Node!remove_proxy_pid_file, Node!ProxyGoto
    <2>2. QED  BY <1>1, <2>1, FileGone, Zenon
  <1>2. CASE pidfile' # Node!NoFile
    <2>1. /\ proxy' = [proxy EXCEPT ![p].pc = "destroy"] /\ pidfile' = pidfile
          /\ proxy[p].pc = "check"
      BY <1>2 DEF Node!is_proxy_already_running, Node!remove_proxy_pid_file, Node!ProxyGoto, Node!AtProxy
    <2>2. QED  BY <2>1, FileKept, Zenon DEF Named
  <1>3. QED  BY <1>1, <1>2

LEMMA PidFileKept == PidInv /\ [Node!Next]_Node!vars => PidInv'
  <1> SUFFICES ASSUME PidInv, [Node!Next]_Node!vars
               PROVE  PidInv'
    OBVIOUS
  <1>1. CASE pidfile' = pidfile /\ proxy' = proxy
    BY <1>1, Zenon DEF PidInv
  <1>2. ASSUME NEW c \in Clients, Node!init_preload(c) \/ Node!ClientStep(c) \/ Node!destroy_preload(c)
        PROVE  pidfile' = pidfile /\ proxy' = proxy
    BY <1>2 DEF Node!init_preload, Node!ClientStep, Node!destroy_preload, Node!client_read_hosts_file,
                Node!check_for_proxy, Node!init_hermes_client, Node!client_connect_to_hosts,
                Node!lookup_proxy_addr, Node!forward_get_fs_config, Node!ClientOnly
  <1>3. ASSUME NEW p \in Proxies, Node!main(p) \/ Node!ProxyStep(p) \/ Node!shutdown_handler(p) \/ Node!Killed(p)
        PROVE  PidInv'
    BY <1>3, OthersKeep, RemovesKeep, ReadKeeps, PidCreated, ProxyKilled, Zenon DEF Node!ProxyStep
  <1>4. CASE Node!Restart
    BY <1>1, <1>4 DEF Node!Restart
  <1>5. CASE UNCHANGED Node!vars
    BY <1>1, <1>5 DEF Node!vars
  <1>6. QED  BY <1>1, <1>2, <1>3, <1>4, <1>5 DEF Node!Next

(* create_proxy_pid_file and remove_proxy_pid_file: a client or a proxy    *)
(* that reads a pid file with content finds a proxy whose IPC server was   *)
(* set up and which has not exited, or one that was killed.                *)
THEOREM PidFileCorrect == Node!Spec => []Node!PidFileNamesServer
  <1>1. Node!Init => PidInv
    <2> SUFFICES ASSUME Node!Init
                 PROVE  PidInv
      OBVIOUS
    <2>1. proxy = [p \in Proxies |-> [pc |-> "off", hosts |-> <<>>]] /\ pidfile = Node!NoFile
      BY DEF Node!Init, Node!NewProxy
    <2>2. Shape(proxy)
      BY <2>1 DEF Shape
    <2>3. QED  BY <2>1, <2>2 DEF PidInv, Node!NoFile
  <1>2. PidInv => Node!PidFileNamesServer
    BY DEF PidInv, Node!PidFileNamesServer, Named, Node!Serving
  <1>3. QED  BY <1>1, <1>2, PidFileKept, PTL DEF Node!Spec

-----------------------------------------------------------------------------
(* The host list of a client *)

(* The setting of the theorems about clients: the daemons are finitely     *)
(* many, and at most one of them runs on the node.                         *)
Nodes == /\ Ranks \in SUBSET Nat /\ Node!IsFiniteSet(Ranks)
         /\ LocalDaemon \in Ranks \cup {0}

N == Node!Cardinality(Ranks)
Increasing(s) == \A i, j \in 1 .. N : i < j => s[i] < s[j]
HostList == CHOOSE s \in [1 .. N -> Ranks] : Increasing(s)

(* What is needed of the list; the end of the module shows that it is so.  *)
Sorted == /\ N \in Nat /\ HostList \in [1 .. N -> Ranks]
          /\ Len(HostList) = N /\ Node!Range(HostList) = Ranks

(* However the daemons registered, the sorted list is the same.            *)
LEMMA SortedAlike ==
    ASSUME lines \in Node!Registered
    PROVE  Node!client_load_hostfile(lines) = HostList
  <1>1. lines \in [1 .. N -> Ranks] /\ Node!Range(lines) = Ranks
    BY Zenon DEF Node!Registered, Node!Bijection, Node!Injection, Node!Surjection, Node!Range, N
  <1>2. DOMAIN lines = 1 .. N
    BY <1>1, Zenon
  <1>3. QED  BY <1>1, <1>2, Zenon DEF Node!client_load_hostfile, HostList, Increasing

-----------------------------------------------------------------------------
(* What a client knows: which list it has and, while it asks for the       *)
(* configuration, whom it has asked.                                       *)
Record(r) == r = [pc |-> r.pc, hosts |-> r.hosts, proxy |-> r.proxy, endp |-> r.endp, idx |-> r.idx]

Unasked == {"off", "hosts", "detect", "hermes", "connect", "proxy"}
Holding == {"detect", "hermes", "connect", "proxy", "config", "noconfig"}
AllDead(k, gone) == /\ LocalDaemon \in gone \cup {0}
                    /\ \A i \in 1 .. k - 1 : HostList[i] \in gone

Knows(r, gone) ==
    /\ Record(r)
    /\ r.hosts \in {<<>>, HostList}
    /\ r.pc \in Holding => r.hosts = HostList
    /\ r.pc \in Unasked => r.idx = 0
    /\ r.pc \in {"proxy", "config"} /\ r.idx = 0 => r.endp = Node!LocalHost(HostList)
    /\ r.pc = "config" => r.idx \in 0 .. N
    /\ r.pc = "config" /\ r.idx > 0 => r.endp = HostList[r.idx] /\ AllDead(r.idx, gone)
    /\ r.pc = "noconfig" => AllDead(N, gone)

ClientInv ==
    /\ lines \in Node!Registered
    /\ DOMAIN client = Clients
    /\ \A c \in Clients : Knows(client[c], dead)
    /\ first = HostList \/ \A c \in Clients : client[c].hosts = <<>>
    /\ first \in {<<>>, HostList}

LEMMA PcAnd ==
    ASSUME NEW r, Record(r), NEW a, NEW b
    PROVE  /\ [[r EXCEPT !.pc = a] EXCEPT !.hosts = b] =
                  [pc |-> a, hosts |-> b, proxy |-> r.proxy, endp |-> r.endp, idx |-> r.idx]
           /\ [[r EXCEPT !.pc = a] EXCEPT !.proxy = b] =
                  [pc |-> a, hosts |-> r.hosts, proxy |-> b, endp |-> r.endp, idx |-> r.idx]
  <1>1. PICK q : q = [pc |-> a, hosts |-> r.hosts, proxy |-> r.proxy, endp |-> r.endp, idx |-> r.idx]
    BY Zenon
  <1>2. [r EXCEPT !.pc = a] = q
    BY <1>1 DEF Record
  <1>3. [q EXCEPT !.hosts = b] = [pc |-> a, hosts |-> b, proxy |-> r.proxy, endp |-> r.endp, idx |-> r.idx]
    BY <1>1
  <1>4. [q EXCEPT !.proxy = b] = [pc |-> a, hosts |-> r.hosts, proxy |-> b, endp |-> r.endp, idx |-> r.idx]
    BY <1>1
  <1>5. QED  BY <1>2, <1>3, <1>4, Zenon

LEMMA ClientMoves ==
    ASSUME ClientInv, NEW c \in Clients, NEW r, client' = [client EXCEPT ![c] = r],
           lines' = lines, dead' = dead, first' = first,
           Knows(r, dead), r.hosts = client[c].hosts
    PROVE  ClientInv'
  <1>1. client'[c] = r /\ DOMAIN client' = Clients /\ \A x \in Clients \ {c} : client'[x] = client[x]
    BY DEF ClientInv
  <1>2. \A x \in Clients : Knows(client'[x], dead')
    BY <1>1, Zenon DEF ClientInv
  <1>3. \A x \in Clients : client'[x].hosts = client[x].hosts
    BY <1>1
  <1>4. QED  BY <1>1, <1>2, <1>3, Zenon DEF ClientInv

(* A client goes on to a step that says no more about it.                  *)
LEMMA Goes ==
    ASSUME Nodes, Sorted, ClientInv, NEW c \in Clients, NEW s, Node!ClientGoto(c, s),
           lines' = lines, dead' = dead, first' = first,
           s \in Holding => client[c].pc \in Holding,
           s \in Unasked => client[c].pc \in Unasked,
           s \in {"proxy", "noconfig"} => FALSE,
           s = "config" => client[c].pc = "proxy"
    PROVE  ClientInv'
  <1> DEFINE o == client[c]
             r == [pc |-> s, hosts |-> o.hosts, proxy |-> o.proxy, endp |-> o.endp, idx |-> o.idx]
  <1>1. Knows(o, dead) /\ DOMAIN client = Clients
    BY DEF ClientInv
  <1>2. client' = [client EXCEPT ![c] = r]
    <2>1. client' = [client EXCEPT ![c] = [o EXCEPT !.pc = s]]
      BY DEF Node!ClientGoto
    <2>2. o = [pc |-> o.pc, hosts |-> o.hosts, proxy |-> o.proxy, endp |-> o.endp, idx |-> o.idx]
      BY <1>1 DEF Knows, Record
    <2> HIDE DEF o
    <2>3. [o EXCEPT !.pc = s] = r
      BY <2>2
    <2>4. QED  BY <2>1, <2>3, Zenon
  <1>3. N \in Nat
    BY DEF Sorted
  <1>4. r.pc = s /\ r.hosts = o.hosts /\ r.endp = o.endp /\ r.idx = o.idx /\ Record(r)
    BY DEF Record
  <1> HIDE DEF r, o
  <1>5. s = "config" => o.idx = 0 /\ o.pc = "proxy"
    BY <1>1, Zenon DEF Knows, Unasked, o
  <1>6. Knows(r, dead)
    <2>1. r.hosts \in {<<>>, HostList} /\ (r.pc \in Holding => r.hosts = HostList)
      BY <1>1, <1>4, Zenon DEF Knows, o
    <2>2. r.pc \in Unasked => r.idx = 0
      BY <1>1, <1>4, Zenon DEF Knows, o
    <2>3. r.pc \in {"proxy", "config"} /\ r.idx = 0 => r.endp = Node!LocalHost(HostList)
      BY <1>1, <1>4, <1>5, Zenon DEF Knows
    <2>4. r.pc = "config" => r.idx \in 0 .. N /\ ~ (r.idx > 0)
      BY <1>3, <1>4, <1>5
    <2>5. QED  BY <1>4, <2>1, <2>2, <2>3, <2>4, Zenon DEF Knows
  <1>7. QED  BY <1>2, <1>4, <1>6, ClientMoves, ZenonT(30) DEF o

LEMMA ReadKeepsClients ==
    ASSUME Nodes, Sorted, ClientInv, NEW c \in Clients, Node!client_read_hosts_file(c)
    PROVE  ClientInv'
  <1> DEFINE o == client[c]
             r == [pc |-> "detect", hosts |-> HostList, proxy |-> o.proxy, endp |-> o.endp, idx |-> o.idx]
  <1>1. Knows(o, dead) /\ DOMAIN client = Clients /\ Node!client_load_hostfile(lines) = HostList
    BY SortedAlike DEF ClientInv
  <1>2. /\ o.pc = "hosts" /\ lines' = lines /\ dead' = dead
        /\ client' = [client EXCEPT ![c] = [[o EXCEPT !.pc = "detect"] EXCEPT !.hosts = HostList]]
        /\ first' = IF first = <<>> THEN HostList ELSE first
    BY <1>1, Zenon DEF Node!client_read_hosts_file, Node!ClientOnly, Node!AtClient
  <1>3. client' = [client EXCEPT ![c] = r]
    <2>1. Record(o)
      BY <1>1 DEF Knows
    <2> HIDE DEF o
    <2>2. [[o EXCEPT !.pc = "detect"] EXCEPT !.hosts = HostList] = r
      BY <2>1, PcAnd, Zenon
    <2>3. QED  BY <1>2, <2>2, Zenon
  <1>4. o.idx = 0
    BY <1>1, <1>2, Zenon DEF Knows, Unasked
  <1>5. Knows(r, dead)
    BY <1>4 DEF Knows, Record, Unasked, Holding
  <1> HIDE DEF r
  <1>6. client'[c] = r /\ DOMAIN client' = Clients /\ \A x \in Clients \ {c} : client'[x] = client[x]
    BY <1>1, <1>3
  <1>7. \A x \in Clients : Knows(client'[x], dead')
    BY <1>2, <1>5, <1>6, Zenon DEF ClientInv
  <1>8. first' = HostList
    BY <1>2, Zenon DEF ClientInv
  <1>9. QED  BY <1>2, <1>6, <1>7, <1>8, Zenon DEF ClientInv

LEMMA DetectKeeps ==
    ASSUME ClientInv, NEW c \in Clients, Node!check_for_proxy(c)
    PROVE  ClientInv'
  <1> DEFINE o == client[c]
             p == IF pidfile.st = "full" /\ Node!Alive(pidfile.pid) THEN pidfile.pid ELSE 0
             r == [pc |-> "hermes", hosts |-> o.hosts, proxy |-> p, endp |-> o.endp, idx |-> o.idx]
  <1>1. Knows(o, dead)
    BY DEF ClientInv
  <1>2. /\ o.pc = "detect" /\ lines' = lines /\ dead' = dead /\ first' = first
        /\ client' = [client EXCEPT ![c] = [[o EXCEPT !.pc = "hermes"] EXCEPT !.proxy = p]]
    BY Zenon DEF Node!check_for_proxy, Node!ClientOnly, Node!AtClient
  <1> HIDE DEF p
  <1>3. client' = [client EXCEPT ![c] = r]
    <2>1. Record(o)
      BY <1>1 DEF Knows
    <2> HIDE DEF o
    <2>2. [[o EXCEPT !.pc = "hermes"] EXCEPT !.proxy = p] = r
      BY <2>1, PcAnd, Zenon
    <2>3. QED  BY <1>2, <2>2, Zenon
  <1>4. Knows(r, dead) /\ r.hosts = o.hosts
    BY <1>1, <1>2 DEF Knows, Record, Unasked, Holding
  <1> HIDE DEF r
  <1>5. QED  BY <1>2, <1>3, <1>4, ClientMoves, Zenon

LEMMA ConnectKeeps ==
    ASSUME Nodes, Sorted, ClientInv, NEW c \in Clients, Node!client_connect_to_hosts(c)
    PROVE  ClientInv'
  <1> DEFINE o == client[c]
             s == IF o.proxy = 0 THEN "config" ELSE "proxy"
             r == [pc |-> s, hosts |-> o.hosts, proxy |-> o.proxy, endp |-> Node!LocalHost(o.hosts), idx |-> o.idx]
  <1>1. Knows(o, dead) /\ o.pc = "connect" /\ lines' = lines /\ dead' = dead /\ first' = first
    BY DEF ClientInv, Node!client_connect_to_hosts, Node!AtClient, Node!ClientOnly
  <1>2. CASE Node!ClientGoto(c, "exited")
    BY <1>1, <1>2, Goes, Zenon DEF Holding, Unasked
  <1>3. CASE ~Node!ClientGoto(c, "exited")
    <2>1. client' = [client EXCEPT ![c] = [[o EXCEPT !.pc = s] EXCEPT !.endp = Node!LocalHost(o.hosts)]]
      BY <1>3, Zenon DEF Node!client_connect_to_hosts
    <2>2. s \in {"config", "proxy"}
      OBVIOUS
    <2> HIDE DEF s
    <2>3. client' = [client EXCEPT ![c] = r]
      <3>1. Record(o)
        BY <1>1 DEF Knows
      <3> HIDE DEF o
      <3>2. [[o EXCEPT !.pc = s] EXCEPT !.endp = Node!LocalHost(o.hosts)] = r
        <4>1. PICK q : q = [pc |-> s, hosts |-> o.hosts, proxy |-> o.proxy, endp |-> o.endp, idx |-> o.idx]
          BY Zenon
        <4>2. [o EXCEPT !.pc = s] = q
          BY <3>1, <4>1 DEF Record
        <4>3. [q EXCEPT !.endp = Node!LocalHost(o.hosts)] = r
          BY <4>1
        <4>4. QED  BY <4>2, <4>3, Zenon
      <3>3. QED  BY <2>1, <3>2, Zenon
    <2>4. o.idx = 0 /\ o.hosts = HostList /\ N \in Nat
      BY <1>1 DEF Knows, Unasked, Holding, Sorted
    <2>5. r.idx \in 0 .. N /\ ~ (r.idx > 0)
      BY <2>4
    <2>6. Knows(r, dead) /\ r.hosts = o.hosts
      BY <2>2, <2>4, <2>5, Zenon DEF Knows, Record, Unasked, Holding
    <2> HIDE DEF r
    <2>7. QED  BY <1>1, <2>3, <2>6, ClientMoves, Zenon
  <1>4. QED  BY <1>2, <1>3

(* The daemon asked first is the local one, if there is one.               *)
LEMMA ConfigKeeps ==
    ASSUME Nodes, Sorted, ClientInv, NEW c \in Clients, Node!forward_get_fs_config(c)
    PROVE  ClientInv'
  <1> DEFINE o == client[c]
  <1>1. /\ Knows(o, dead) /\ o.pc = "config" /\ lines' = lines /\ dead' = dead /\ first' = first
        /\ DOMAIN client = Clients
    BY DEF ClientInv, Node!forward_get_fs_config, Node!AtClient, Node!ClientOnly
  <1>2. /\ o.hosts = HostList /\ o.idx \in 0 .. N /\ N \in Nat /\ Record(o)
        /\ HostList \in [1 .. N -> Ranks] /\ Len(HostList) = N /\ Node!Range(HostList) = Ranks
    BY <1>1, Zenon DEF Knows, Holding, Sorted
  <1>3. CASE o.idx # N /\ o.endp \notin dead
    <2>1. Node!ClientGoto(c, "running")
      BY <1>2, <1>3, Zenon DEF Node!forward_get_fs_config
    <2>2. QED  BY <1>1, <2>1, Goes, Zenon DEF Holding, Unasked
  <1>4. CASE o.idx = N
    <2> DEFINE r == [pc |-> "noconfig", hosts |-> o.hosts, proxy |-> o.proxy, endp |-> o.endp, idx |-> o.idx]
    <2>1. client' = [client EXCEPT ![c] = [o EXCEPT !.pc = "noconfig"]]
      BY <1>2, <1>4 DEF Node!forward_get_fs_config, Node!ClientGoto
    <2>2. AllDead(N, dead)
      <3>1. CASE N = 0
        <4>1. Ranks = {}
          BY <1>2, <3>1 DEF Node!Range
        <4>2. QED  BY <1>2, <3>1, <4>1 DEF AllDead, Nodes
      <3>2. CASE N > 0
        BY <1>1, <1>4, <3>2, Zenon DEF Knows
      <3>3. QED  BY <1>2, <3>1, <3>2
    <2> HIDE DEF o
    <2>3. [o EXCEPT !.pc = "noconfig"] = r
      BY <1>2 DEF Record
    <2>4. Knows(r, dead) /\ r.hosts = o.hosts
      BY <1>2, <2>2, Zenon DEF Knows, Record, Unasked, Holding
    <2> HIDE DEF r
    <2>5. client' = [client EXCEPT ![c] = r]
      BY <2>1, <2>3, Zenon
    <2>6. QED  BY <1>1, <2>4, <2>5, ClientMoves, ZenonT(30) DEF o
  <1>5. CASE o.idx # N /\ o.endp \in dead
    <2> DEFINE k == o.idx + 1
               r == [pc |-> "config", hosts |-> o.hosts, proxy |-> o.proxy, endp |-> HostList[k], idx |-> k]
    <2>1. client' = [client EXCEPT ![c] = [[o EXCEPT !.endp = HostList[k]] EXCEPT !.idx = k]]
      BY <1>1, <1>2, <1>5, Zenon DEF Node!forward_get_fs_config
    <2>2. k \in 1 .. N
      BY <1>2, <1>5
    <2>3. AllDead(k, dead)
      <3>1. CASE o.idx = 0
        <4>1. LocalDaemon \in Ranks => LocalDaemon \in dead
          BY <1>1, <1>2, <1>5, <3>1, ZenonT(30) DEF Knows, Node!LocalHost
        <4>2. QED  BY <3>1, <4>1 DEF AllDead, Nodes
      <3>2. CASE o.idx > 0
        <4>1. o.endp = HostList[o.idx] /\ AllDead(o.idx, dead)
          BY <1>1, <3>2, Zenon DEF Knows
        <4>2. \A i \in 1 .. k - 1 : i = o.idx \/ i \in 1 .. o.idx - 1
          BY <1>2
        <4>3. QED  BY <1>5, <4>1, <4>2, Zenon DEF AllDead
      <3>3. QED  BY <1>2, <3>1, <3>2
    <2> HIDE DEF k
    <2>4. client' = [client EXCEPT ![c] = r]
      <3> HIDE DEF o
      <3>1. [[o EXCEPT !.endp = HostList[k]] EXCEPT !.idx = k] = r
        <4>1. PICK q : q = [pc |-> o.pc, hosts |-> o.hosts, proxy |-> o.proxy,
                            endp |-> HostList[k], idx |-> o.idx]
          BY Zenon
        <4>2. [o EXCEPT !.endp = HostList[k]] = q
          BY <1>2, <4>1 DEF Record
        <4>3. o.pc = "config"
          BY <1>1, Zenon
        <4>4. [q EXCEPT !.idx = k] = r
          BY <4>1, <4>3
        <4>5. QED  BY <4>2, <4>4, Zenon
      <3>2. QED  BY <2>1, <3>1, Zenon
    <2>5. Knows(r, dead) /\ r.hosts = o.hosts
      <3>1. k \in 0 .. N /\ k # 0
        BY <1>2, <2>2
      <3> HIDE DEF o
      <3>2. /\ r.pc = "config" /\ r.hosts = o.hosts /\ r.endp = HostList[k] /\ r.idx = k
            /\ r = [pc |-> r.pc, hosts |-> r.hosts, proxy |-> r.proxy, endp |-> r.endp, idx |-> r.idx]
        BY Zenon
      <3>3. Record(r)
        BY <3>2, Zenon DEF Record
      <3> HIDE DEF r
      <3>4. QED  BY <1>2, <2>3, <3>1, <3>2, <3>3, Zenon DEF Knows, Unasked, Holding
    <2> HIDE DEF r
    <2>6. QED  BY <1>1, <2>4, <2>5, ClientMoves, ZenonT(30)
  <1>6. QED  BY <1>3, <1>4, <1>5, Zenon

LEMMA ClientNextKeeps ==
    ASSUME Nodes, Sorted, ClientInv, [Node!Next]_Node!vars
    PROVE  ClientInv'
  <1>1. CASE lines' \in Node!Registered /\ UNCHANGED <<dead, client, first>>
    BY <1>1, Zenon DEF ClientInv
  <1>2. CASE UNCHANGED <<lines, dead, client, first>>
    BY <1>2, Zenon DEF ClientInv
  <1>3. ASSUME NEW p \in Proxies, Node!main(p) \/ Node!ProxyStep(p) \/ Node!shutdown_handler(p) \/ Node!Killed(p)
        PROVE  ClientInv'
    BY <1>2, <1>3, Zenon DEF Node!ProxyStep, Node!main, Node!is_proxy_already_running, Node!read_hosts_file, Node!init_ipc_server,
       Node!init_rpc_client, Node!create_proxy_pid_file, Node!connect_to_hosts, Node!begin_wait, Node!init_failed,
       Node!shutdown_handler, Node!destroy_enviroment, Node!remove_proxy_pid_file, Node!Killed, Node!ProxyOnly
  <1>4. ASSUME NEW c \in Clients, Node!init_preload(c) \/ Node!ClientStep(c) \/ Node!destroy_preload(c)
        PROVE  ClientInv'
    <2>1. CASE \/ Node!init_preload(c) \/ Node!init_hermes_client(c) \/ Node!lookup_proxy_addr(c)
               \/ Node!destroy_preload(c)
      <3>1. /\ Node!init_preload(c) => client[c].pc = "off" /\ Node!ClientGoto(c, "hosts")
            /\ Node!destroy_preload(c) => client[c].pc = "running" /\ Node!ClientGoto(c, "ended")
        BY Zenon DEF Node!init_preload, Node!destroy_preload, Node!AtClient
      <3>2. Node!init_hermes_client(c) =>
                client[c].pc = "hermes" /\ (Node!ClientGoto(c, "connect") \/ Node!ClientGoto(c, "exited"))
        BY Zenon DEF Node!init_hermes_client, Node!AtClient
      <3>3. Node!lookup_proxy_addr(c) =>
                client[c].pc = "proxy" /\ (Node!ClientGoto(c, "config") \/ Node!ClientGoto(c, "exited"))
        BY Zenon DEF Node!lookup_proxy_addr, Node!AtClient
      <3>4. PICK s : /\ Node!ClientGoto(c, s)
                     /\ \/ client[c].pc = "off" /\ s = "hosts"
                        \/ client[c].pc = "hermes" /\ s = "connect"
                        \/ client[c].pc = "proxy" /\ s = "config"
                        \/ s \in {"ended", "exited"}
        BY <2>1, <3>1, <3>2, <3>3, Zenon
      <3>5. /\ s \notin {"proxy", "noconfig"}
            /\ s \in Holding => client[c].pc \in Holding
            /\ s \in Unasked => client[c].pc \in Unasked
            /\ s = "config" => client[c].pc = "proxy"
        BY <3>4 DEF Holding, Unasked
      <3>6. lines' = lines /\ dead' = dead /\ first' = first
        BY <2>1, Zenon DEF Node!init_preload, Node!init_hermes_client, Node!lookup_proxy_addr, Node!destroy_preload, Node!ClientOnly
      <3>7. QED  BY <3>4, <3>5, <3>6, Goes, Zenon
    <2>2. QED  BY <1>4, <2>1, ReadKeepsClients, DetectKeeps, ConnectKeeps, ConfigKeeps, Zenon DEF Node!ClientStep
  <1>5. QED  BY <1>1, <1>2, <1>3, <1>4, Zenon DEF Node!Next, Node!Restart, Node!vars, ClientInv

-----------------------------------------------------------------------------
(* There is such a list: finitely many numbers can be sorted.              *)

Sets == INSTANCE FiniteSetTheorems

(* The facts about finite sets that are needed, in the operators used here. *)
LEMMA SameSets ==
    /\ \A S : Sets!IsFiniteSet(S) <=> Node!IsFiniteSet(S)
    /\ \A S : Sets!Cardinality(S) = Node!Cardinality(S)
  <1>1. \A S : Sets!IsFiniteSet(S) <=> Node!IsFiniteSet(S)
    BY Zenon DEF Sets!IsFiniteSet, Node!IsFiniteSet
  <1>2. \A S : Sets!Cardinality(S) = Node!Cardinality(S)
    BY Zenon DEF Sets!Cardinality, Node!Cardinality
  <1>3. QED  BY <1>1, <1>2

LEMMA Counts ==
    ASSUME NEW S, Node!IsFiniteSet(S)
    PROVE  Node!Cardinality(S) \in Nat /\ (Node!Cardinality(S) = 0 <=> S = {})
  BY SameSets, Sets!FS_CardinalityType, Sets!FS_EmptySet, Zenon

LEMMA Subsets ==
    ASSUME NEW S, Node!IsFiniteSet(S), NEW T \in SUBSET S
    PROVE  /\ Node!IsFiniteSet(T) /\ Node!Cardinality(T) <= Node!Cardinality(S)
           /\ Node!Cardinality(S) = Node!Cardinality(T) => S = T
  BY SameSets, Sets!FS_Subset, Zenon

LEMMA Intervals ==
    ASSUME NEW n \in Nat
    PROVE  Node!IsFiniteSet(1 .. n) /\ Node!Cardinality(1 .. n) = n
  <1>1. 1 \in Int /\ n \in Int
    OBVIOUS
  <1>2. Sets!IsFiniteSet(1 .. n) /\ Sets!Cardinality(1 .. n) = IF 1 > n THEN 0 ELSE n - 1 + 1
    BY <1>1, Sets!FS_Interval, Zenon
  <1>3. (IF 1 > n THEN 0 ELSE n - 1 + 1) = n
    OBVIOUS
  <1>4. QED  BY <1>2, <1>3, SameSets

LEMMA Onto ==
    ASSUME NEW S, NEW T, NEW f \in Node!Injection(S, T), Node!IsFiniteSet(T), Node!Cardinality(S) = Node!Cardinality(T)
    PROVE  f \in Node!Surjection(S, T)
  <1>1. f \in Sets!Injection(S, T)
    BY Zenon DEF Sets!Injection, Sets!IsInjective, Node!Injection, Node!IsInjective
  <1>2. f \in Sets!Surjection(S, T)
    BY <1>1, SameSets, Sets!FS_Injection, Zenon
  <1>3. QED  BY <1>2, Zenon DEF Sets!Surjection, Node!Surjection

(* The number of daemons up to one is its place in the list.               *)
UpTo(d) == {e \in Ranks : e <= d}
Place   == [d \in Ranks |-> Node!Cardinality(UpTo(d))]

LEMMA Placed ==
    ASSUME Nodes
    PROVE  /\ N \in Nat /\ Place \in [Ranks -> 1 .. N]
           /\ \A d, e \in Ranks : d < e => Place[d] < Place[e]
  <1>1. Node!IsFiniteSet(Ranks) /\ Ranks \in SUBSET Nat /\ N \in Nat
    BY Counts DEF Nodes, N
  <1>2. ASSUME NEW d \in Ranks
        PROVE  /\ Node!IsFiniteSet(UpTo(d)) /\ Node!Cardinality(UpTo(d)) \in 1 .. N
    <2>1. UpTo(d) \in SUBSET Ranks /\ d \in UpTo(d)
      BY <1>1 DEF UpTo
    <2>2. Node!IsFiniteSet(UpTo(d)) /\ Node!Cardinality(UpTo(d)) <= N
      BY <1>1, <2>1, Subsets, Zenon DEF N
    <2>3. Node!Cardinality(UpTo(d)) \in Nat /\ Node!Cardinality(UpTo(d)) # 0
      BY <2>1, <2>2, Counts, Zenon
    <2>4. QED  BY <1>1, <2>2, <2>3
  <1>3. ASSUME NEW d \in Ranks, NEW e \in Ranks, d < e
        PROVE  Node!Cardinality(UpTo(d)) < Node!Cardinality(UpTo(e))
    <2>1. UpTo(d) \in SUBSET UpTo(e) /\ UpTo(d) # UpTo(e)
      <3>1. \A x \in UpTo(d) : x \in UpTo(e)
        BY <1>1, <1>3 DEF UpTo
      <3>2. e \in UpTo(e) /\ e \notin UpTo(d)
        BY <1>1, <1>3 DEF UpTo
      <3>3. QED  BY <3>1, <3>2
    <2>2. /\ Node!Cardinality(UpTo(d)) <= Node!Cardinality(UpTo(e))
          /\ Node!Cardinality(UpTo(d)) # Node!Cardinality(UpTo(e))
      BY <1>2, <2>1, Subsets, Zenon
    <2>3. Node!Cardinality(UpTo(d)) \in Nat /\ Node!Cardinality(UpTo(e)) \in Nat
      BY <1>2
    <2>4. QED  BY <2>2, <2>3
  <1>4. QED  BY <1>1, <1>2, <1>3, Zenon DEF Place

(* An injection between sets of the same size is onto.                     *)
LEMMA PlacesFilled ==
    ASSUME Nodes
    PROVE  \A k \in 1 .. N : \E d \in Ranks : Place[d] = k
  <1>1. N \in Nat /\ Node!IsFiniteSet(1 .. N) /\ Node!Cardinality(1 .. N) = N
    BY Placed, Intervals
  <1>2. Place \in Node!Injection(Ranks, 1 .. N)
    <2>1. ASSUME NEW d \in Ranks, NEW e \in Ranks, Place[d] = Place[e] PROVE d = e
      <3>1. d \in Nat /\ e \in Nat /\ Place[d] \in Nat /\ Place[e] \in Nat
        BY Placed DEF Nodes
      <3>2. ~ (d < e) /\ ~ (e < d)
        BY <2>1, <3>1, Placed
      <3>3. QED  BY <3>1, <3>2
    <2>2. QED  BY <2>1, Placed DEF Node!Injection, Node!IsInjective
  <1>3. Place \in Node!Surjection(Ranks, 1 .. N)
    BY <1>1, <1>2, Onto, Zenon DEF N
  <1>4. QED  BY <1>3 DEF Node!Surjection

LEMMA ListSorted ==
    ASSUME Nodes
    PROVE  Sorted
  <1>1. N \in Nat
    BY Placed
  <1> DEFINE s == [k \in 1 .. N |-> CHOOSE d \in Ranks : Place[d] = k]
  <1>2. \A k \in 1 .. N : s[k] \in Ranks /\ Place[s[k]] = k
    BY PlacesFilled
  <1>3. s \in [1 .. N -> Ranks]
    BY <1>2
  <1> HIDE DEF s
  <1>4. Increasing(s)
    <2>1. SUFFICES ASSUME NEW i \in 1 .. N, NEW j \in 1 .. N, i < j PROVE s[i] < s[j]
      BY DEF Increasing
    <2>2. s[i] \in Nat /\ s[j] \in Nat
      BY <1>2, Zenon DEF Nodes
    <2>3. s[i] # s[j] /\ ~ (s[j] < s[i])
      BY <1>1, <1>2, <2>1, Placed
    <2>4. QED  BY <2>2, <2>3
  <1>5. HostList \in [1 .. N -> Ranks] /\ Increasing(HostList)
    BY <1>3, <1>4, Zenon DEF HostList
  <1>6. HostList \in Seq(Ranks) /\ Len(HostList) = N /\ DOMAIN HostList = 1 .. N
    BY <1>1, <1>5
  <1>7. Node!IsFiniteSet(1 .. N) /\ Node!Cardinality(1 .. N) = N
    BY <1>1, Intervals
  <1>8. HostList \in Node!Injection(1 .. N, Ranks)
    <2>1. ASSUME NEW i \in 1 .. N, NEW j \in 1 .. N, HostList[i] = HostList[j] PROVE i = j
      <3>1. HostList[i] \in Nat /\ HostList[j] \in Nat
        BY <1>5, Zenon DEF Nodes
      <3>2. ~ (i < j) /\ ~ (j < i)
        BY <1>5, <2>1, <3>1 DEF Increasing
      <3>3. QED  BY <1>1, <3>2
    <2>2. QED  BY <1>5, <2>1, Zenon DEF Node!Injection, Node!IsInjective
  <1>9. HostList \in Node!Surjection(1 .. N, Ranks)
    BY <1>7, <1>8, Onto DEF N, Nodes
  <1>10. Node!Range(HostList) = Ranks
    BY <1>5, <1>6, <1>9, Zenon DEF Node!Range, Node!Surjection
  <1>11. QED  BY <1>1, <1>5, <1>6, <1>10 DEF Sorted

(* Every client keeps to one list, and asks the daemons in its order.      *)
THEOREM ClientsFollowed ==
    ASSUME Nodes
    PROVE  Node!Spec => []ClientInv
  <1>1. Node!Init => ClientInv
    <2> SUFFICES ASSUME Node!Init PROVE ClientInv
      OBVIOUS
    <2>1. client = [c \in Clients |-> Node!NewClient] /\ first = <<>> /\ lines \in Node!Registered
      BY DEF Node!Init
    <2>2. Knows(Node!NewClient, dead) /\ Node!NewClient.hosts = <<>>
      BY DEF Node!NewClient, Knows, Record, Holding, Unasked
    <2>3. QED  BY <2>1, <2>2, Zenon DEF ClientInv
  <1>2. ClientInv /\ [Node!Next]_Node!vars => ClientInv'
    BY ListSorted, ClientNextKeeps
  <1>3. QED  BY <1>1, <1>2, PTL DEF Node!Spec

(* load_hostfile of the client: every client of a file system numbers its  *)
(* hosts alike, whatever the order in which the daemons registered and     *)
(* however often they were restarted in between.                           *)
THEOREM HostsCorrect ==
    ASSUME Nodes
    PROVE  Node!Spec => []Node!ClientsAgree
  <1>1. ClientInv => Node!ClientsAgree
    BY Zenon DEF ClientInv, Node!ClientsAgree, Knows
  <1>2. QED  BY <1>1, ClientsFollowed, PTL

(* forward_get_fs_config: a client that gives up has asked the local       *)
(* daemon and, in the order of its list, every other one but the last, and *)
(* none of them answered.                                                  *)
THEOREM RetriesCorrect ==
    ASSUME Nodes
    PROVE  Node!Spec => []Node!ConfigRetried
  <1>1. ClientInv => Node!ConfigRetried
    <2> SUFFICES ASSUME ClientInv, NEW c \in Clients, client[c].pc = "noconfig"
                 PROVE  /\ LocalDaemon \in dead \cup {0}
                        /\ \A i \in 1 .. Len(client[c].hosts) - 1 : client[c].hosts[i] \in dead
      BY Zenon DEF Node!ConfigRetried
    <2>1. client[c].hosts = HostList /\ AllDead(N, dead) /\ Len(HostList) = N
      BY ListSorted DEF Sorted, ClientInv, Knows, Holding
    <2>2. QED  BY <2>1 DEF AllDead
  <1>2. QED  BY <1>1, ClientsFollowed, PTL
=============================================================================
