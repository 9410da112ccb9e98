-------------------------- MODULE Namespace_proofs --------------------------
(***************************************************************************)
(* Proofs about Namespace: the tree stays a tree when parents are checked, *)
(* and a listing is complete whatever other clients do meanwhile.  They    *)
(* rest on two facts about a step of a client: where its call may go on    *)
(* (Moves), and what it may do to the entries of the daemons (Alters).     *)
(***************************************************************************)
EXTENDS Namespace, TLAPS

RFields == {"pc", "op", "id", "k", "cur", "copy", "md", "old", "ok", "err",
            "todo", "got", "ret", "fds", "end"}
EFields == {"mode", "id", "size", "blocks", "target", "rename"}

Kinds == {"mkdir", "open", "stat", "statx", "access", "remove", "rmdir", "rename", "write"}
LookLabels == {"gkfs_stat", "stat_follow", "gkfs_statx", "statx_follow",
               "gkfs_access", "access_follow"}
RenameLabels == {"undo", "rename_hide", "rename_create", "rename_link", "rename_back"}

(* The daemons have the numbers the distributor computes with, and a call  *)
(* is one of those of the client library.                                  *)
Setting ==
    /\ NHosts \in Nat \ {0} /\ Hosts = 0 .. NHosts - 1 /\ Replicas \in Nat
    /\ Root \in Paths /\ \A p \in Paths : Hash(p) \in Nat /\ Parent(p) \in Paths
    /\ \A op \in Calls : op.kind \in Kinds /\ op.path \in Paths

-----------------------------------------------------------------------------
(* Where a call may be *)

(* A call of one of the kinds is at a label of its own, waits for the      *)
(* metadata it asked for, or for the removal of an entry.                  *)
Within(r, kinds, asked, own, removed) ==
    /\ r.op.kind \in kinds
    /\ \/ r.pc \in asked \cup own \cup removed
       \/ r.pc = "stat" /\ r.k \in asked
       \/ r.pc \in {"rm", "rmdata"} /\ r.k \in removed

Flow(r) ==
    \/ r.pc = "done"
    \/ Creates(r) /\ Within(r, {"mkdir", "open"}, {"parent"}, {"create", "created"}, {})
    \/ Creates(r) /\ Within(r, {"open"}, {"exists"}, {}, {})
    \/ Within(r, {"open"}, {"open", "target", "follow", "opendir"}, {"dirents", "listed", "aborted"}, {})
    \/ r.md.mode # "dir" /\ Within(r, {"open"}, {}, {"decr", "truncate"}, {})
    \/ Within(r, {"stat", "statx", "access"}, LookLabels, {}, {})
    \/ Within(r, {"remove"}, {"remove", "remove_follow"}, {}, {"remove_name", "removed"})
    \/ Within(r, {"rmdir"}, {"rmdir"}, {"dirents", "listed"}, {"removed"})
    \/ Within(r, {"rename"}, {"rename", "rename_new"}, RenameLabels, {"removed"})
    \/ Within(r, {"write"}, {}, {"size", "write"}, {})

CType(r) == DOMAIN r = RFields /\ r.copy \in Copies /\ r.op.path \in Paths
Control(r) == CType(r) /\ (r.pc = "idle" \/ Flow(r))

(* One daemon answers, or does not, the listing of r.                      *)
Answers(r, s) ==
    \E h \in r.todo :
       /\ s.todo = r.todo \ {h} /\ s.cur = r.cur /\ (s.pc = "listed" => s.todo = {})
       /\ s.err = "0" => r.err = "0" /\ s.got = r.got \cup get_dirents(db[h], r.cur)

(* A step of a call leads from r to s.                                     *)
Goes(r, s) ==
    /\ DOMAIN s = RFields /\ s.op = r.op /\ s.copy \in Copies /\ Flow(s)
    /\ s.pc = "stat" /\ s.k = "parent" => r.pc = "stat" /\ r.k = "parent" /\ s.cur = r.cur
    /\ s.pc = "parent" => \/ s.md = NoEntry
                          \/ /\ r.pc = "stat" /\ r.k = "parent"
                             /\ s.md = db[locate_file_metadata(r.cur, r.copy)][r.cur]
    /\ s.pc = "create" => r.pc = "create" \/ (r.pc = "parent" /\ r.md.mode = "dir")
    /\ s.pc \in {"dirents", "listed"} =>
          \/ s.pc = "dirents" /\ s.todo = Hosts /\ s.got = {}
          \/ r.pc = "dirents" /\ Answers(r, s)
    /\ s.op.kind = "rmdir" => s.cur \in {r.cur, r.op.path}
    /\ s.op.kind = "rmdir" /\ s.pc = "rm" => \/ r.pc = "rm"
                                             \/ r.pc = "listed" /\ r.err = "0" /\ r.got = {}
    /\ s.op.kind = "open" /\ ~Creates(s) /\ s.pc = "done" /\ s.ret = 0 =>
          \/ s.md.mode # "dir"
          \/ r.pc = "listed" /\ r.err = "0" /\ s.got = r.got /\ s.cur = r.cur

-----------------------------------------------------------------------------
(* The kinds of calls that are at a label.                                 *)
LEMMA KindOf ==
    ASSUME NEW r, Flow(r)
    PROVE  /\ r.pc \in {"parent", "create", "created"} => Creates(r) /\ r.op.kind \in {"mkdir", "open"}
           /\ r.pc = "exists" => Creates(r) /\ r.op.kind = "open"
           /\ r.pc \in {"open", "target", "follow", "opendir", "decr", "truncate"} => r.op.kind = "open"
           /\ r.pc \in {"decr", "truncate"} => r.md.mode # "dir"
           /\ r.pc \in {"dirents", "listed"} => r.op.kind \in {"open", "rmdir"}
           /\ r.pc \in LookLabels => r.op.kind \in {"stat", "statx", "access"}
           /\ r.pc \in {"remove", "remove_follow", "remove_name"} => r.op.kind = "remove"
           /\ r.pc = "rmdir" => r.op.kind = "rmdir"
           /\ r.pc \in {"rename", "rename_new"} \cup RenameLabels => r.op.kind = "rename"
           /\ r.pc \in {"size", "write"} => r.op.kind = "write"
  BY DEF Flow, Within, LookLabels, RenameLabels

(* What get_metadata and forward_remove return to.                         *)
LEMMA Resumes ==
    ASSUME NEW r, Flow(r), NEW s, s.op = r.op, s.pc = r.k
    PROVE  /\ r.pc = "stat" => /\ Flow(s) /\ s.pc \notin {"stat", "create", "dirents", "listed", "rm", "done"}
           /\ r.pc \in {"rm", "rmdata"} => Flow(s) /\ s.pc \in {"removed", "remove_name"}
  BY DEF Flow, Within, LookLabels, RenameLabels, Creates

LEMMA Stays ==
    ASSUME NEW r, Flow(r), NEW s, s.op = r.op, s.k = r.k
    PROVE  /\ r.pc = "stat" /\ s.pc = "stat" => Flow(s)
           /\ r.pc \in {"rm", "rmdata"} /\ s.pc \in {"rm", "rmdata"} => Flow(s)
  BY DEF Flow, Within, LookLabels, RenameLabels, Creates

(* Labels of which Goes says nothing but Flow.                             *)
LEMMA Elsewhere ==
    ASSUME NEW r, NEW s, DOMAIN s = RFields, s.op = r.op, s.copy \in Copies, Flow(s),
           s.pc \notin {"parent", "create", "dirents", "listed", "rm", "done"},
           ~(s.pc = "stat" /\ s.k = "parent"), s.op.kind = "rmdir" => s.cur = r.cur
    PROVE  Goes(r, s)
  BY Zenon DEF Goes

LEMMA Failing ==
    ASSUME NEW r, CType(r), NEW e
    PROVE  Goes(r, Fail(r, e))
  <1> DEFINE s == Fail(r, e)
  <1>1. /\ DOMAIN s = RFields /\ s.op = r.op /\ s.copy = r.copy /\ s.cur = r.cur /\ s.pc = "done" /\ s.ret = -1
    BY Zenon DEF CType, RFields, Fail
  <1> HIDE DEF s
  <1>2. -1 # 0
    OBVIOUS
  <1>3. s.pc \notin {"stat", "parent", "create", "dirents", "listed", "rm"} /\ Flow(s)
    BY <1>1 DEF Flow
  <1>4. QED  BY <1>1, <1>2, <1>3, Zenon DEF Goes, CType, s

(* The steps of a call, as the records they lead to.                       *)
Moved(c) == \E s : Become(c, s) /\ Goes(cl[c], s)

LEMMA Asking ==
    ASSUME Setting, NEW r, NEW x, CType(x), x.op = r.op, NEW p, NEW k,
           \/ r.op.kind = "open" /\ k \in {"open", "target", "follow", "opendir"}
           \/ r.op.kind = "open" /\ Creates(r) /\ k = "exists"
           \/ r.op.kind \in {"stat", "statx", "access"} /\ k \in LookLabels
           \/ r.op.kind = "remove" /\ k \in {"remove", "remove_follow"}
           \/ r.op.kind = "rename" /\ k \in {"rename", "rename_new"}
    PROVE  Goes(r, get_metadata(x, p, k))
  <1> DEFINE s == get_metadata(x, p, k)
  <1>1. DOMAIN s = RFields /\ s.op = r.op /\ s.copy = 0 /\ s.cur = p /\ s.pc = "stat" /\ s.k = k
    BY Zenon DEF CType, RFields, get_metadata
  <1> HIDE DEF s
  <1>2. Flow(s)
    BY <1>1 DEF Flow, Within, Creates
  <1>3. /\ s.copy \in Copies /\ s.pc \notin {"parent", "create", "dirents", "listed", "rm", "done"}
        /\ k # "parent" /\ s.op.kind # "rmdir"
    BY <1>1 DEF Copies, Setting, LookLabels
  <1>4. QED  BY <1>1, <1>2, <1>3, Elsewhere, Zenon DEF s

LEMMA Succeeding ==
    ASSUME NEW r, CType(r),
           \/ r.op.kind # "open" \/ Creates(r) \/ r.md.mode # "dir"
           \/ r.pc = "listed" /\ r.err = "0"
    PROVE  Goes(r, Success(r)) /\ \A p : Goes(r, Opened(r, p))
  <1>1. ASSUME NEW s, DOMAIN s = RFields, s.op = r.op, s.copy = r.copy, s.cur = r.cur, s.pc = "done",
               s.md = r.md, s.got = r.got
        PROVE  Goes(r, s)
    <2>1. s.pc \notin {"stat", "parent", "create", "dirents", "listed", "rm"} /\ Flow(s)
      BY <1>1 DEF Flow
    <2>2. QED  BY <1>1, <2>1, Zenon DEF Goes, CType, Creates
  <1>2. Goes(r, Success(r))
    <2> DEFINE s == Success(r)
    <2>1. /\ DOMAIN s = RFields /\ s.op = r.op /\ s.copy = r.copy /\ s.cur = r.cur /\ s.pc = "done"
          /\ s.md = r.md /\ s.got = r.got
      BY Zenon DEF CType, RFields, Success
    <2> HIDE DEF s
    <2>2. QED  BY <1>1, <2>1, Zenon DEF s
  <1>3. ASSUME NEW p PROVE Goes(r, Opened(r, p))
    <2> DEFINE s == Opened(r, p)
    <2>1. /\ DOMAIN s = RFields /\ s.op = r.op /\ s.copy = r.copy /\ s.cur = r.cur /\ s.pc = "done"
          /\ s.md = r.md /\ s.got = r.got
      BY Zenon DEF CType, RFields, Success, Opened
    <2> HIDE DEF s
    <2>2. QED  BY <1>1, <2>1, Zenon DEF s
  <1>4. QED  BY <1>2, <1>3, Zenon

LEMMA Removing ==
    ASSUME Setting, NEW r, NEW x, CType(x), x.op = r.op, NEW p, NEW k,
           \/ r.op.kind = "remove" /\ k \in {"remove_name", "removed"}
           \/ r.op.kind = "rename" /\ k = "removed"
           \/ /\ r.op.kind = "rmdir" /\ k = "removed" /\ p = r.op.path
              /\ r.pc = "listed" /\ r.err = "0" /\ r.got = {}
    PROVE  Goes(r, Remove(x, p, k))
  <1> DEFINE s == Remove(x, p, k)
  <1>1. DOMAIN s = RFields /\ s.op = r.op /\ s.copy = 0 /\ s.cur = p /\ s.pc = "rm" /\ s.k = k
    BY Zenon DEF CType, RFields, Remove
  <1> HIDE DEF s
  <1>2. Flow(s)
    BY <1>1 DEF Flow, Within
  <1>3. s.copy \in Copies /\ s.pc \notin {"stat", "parent", "create", "dirents", "listed", "done"}
    BY <1>1 DEF Copies, Setting
  <1>4. s.op.kind = "rmdir" => s.cur = r.op.path /\ r.pc = "listed" /\ r.err = "0" /\ r.got = {}
    BY <1>1
  <1>5. QED  BY <1>1, <1>2, <1>3, <1>4, Zenon DEF Goes, s

(* forward_stat                                                            *)
LEMMA MovesStat ==
    ASSUME Setting, NEW c \in Clients, CType(cl[c]), Flow(cl[c]), forward_stat(c)
    PROVE  Moved(c)
  <1> DEFINE r == cl[c]
             h == locate_file_metadata(r.cur, r.copy)
             got == [r EXCEPT !.md = db[h][r.cur], !.pc = r.k]
             none(e) == [r EXCEPT !.md = NoEntry, !.err = e, !.pc = r.k]
             again(e) == [r EXCEPT !.copy = @ + 1, !.err = e]
  <1>1. r.pc = "stat" /\ \E s : Become(c, s) /\ (s = got \/ \E e : s = NextCopy(r, e))
    BY Zenon DEF forward_stat, Rpc, At
  <1>2. \A e : NextCopy(r, e) = none(e) \/ (NextCopy(r, e) = again(e) /\ r.copy < Replicas)
    BY Zenon DEF NextCopy
  <1>3. Goes(r, got)
    <2>1. /\ DOMAIN got = RFields /\ got.op = r.op /\ got.copy = r.copy /\ got.cur = r.cur /\ got.pc = r.k
          /\ got.md = db[h][r.cur]
      BY Zenon DEF CType, RFields
    <2> HIDE DEF got
    <2>2. Flow(got) /\ got.pc \notin {"stat", "create", "dirents", "listed", "rm", "done"}
      BY <1>1, <2>1, Resumes, Zenon
    <2>3. QED  BY <1>1, <2>1, <2>2, Zenon DEF Goes, CType
  <1>4. ASSUME NEW e PROVE Goes(r, none(e))
    <2> DEFINE s == none(e)
    <2>1. DOMAIN s = RFields /\ s.op = r.op /\ s.copy = r.copy /\ s.cur = r.cur /\ s.pc = r.k /\ s.md = NoEntry
      BY Zenon DEF CType, RFields
    <2> HIDE DEF s
    <2>2. Flow(s) /\ s.pc \notin {"stat", "create", "dirents", "listed", "rm", "done"}
      BY <1>1, <2>1, Resumes, Zenon
    <2>3. QED  BY <1>1, <2>1, <2>2, Zenon DEF Goes, CType, s
  <1>5. ASSUME NEW e, r.copy < Replicas PROVE Goes(r, again(e))
    <2> DEFINE s == again(e)
    <2>1. DOMAIN s = RFields /\ s.op = r.op /\ s.copy = r.copy + 1 /\ s.cur = r.cur /\ s.pc = r.pc /\ s.k = r.k
      BY Zenon DEF CType, RFields
    <2> HIDE DEF s
    <2>2. s.copy \in Copies
      BY <1>5, <2>1 DEF CType, Copies, Setting
    <2>3. Flow(s)
      BY <1>1, <2>1, Stays, Zenon
    <2>4. s.pc \notin {"parent", "create", "dirents", "listed", "rm", "done"}
      BY <1>1, <2>1
    <2>5. QED  BY <1>1, <2>1, <2>2, <2>3, <2>4, Zenon DEF Goes, s
  <1> HIDE DEF r, got, none, again
  <1>6. \A e : Goes(r, NextCopy(r, e))
    BY <1>2, <1>4, <1>5, Zenon
  <1>7. QED  BY <1>1, <1>3, <1>6, Zenon DEF Moved, r

LEMMA Opening ==
    ASSUME Setting, NEW r, CType(r), r.op.kind = "open"
    PROVE  /\ \A p : Goes(r, OpenEntry(r, p))
           /\ Goes(r, open_entry(r))
  <1>1. ASSUME NEW p PROVE Goes(r, OpenEntry(r, p))
    <2> DEFINE s == [r EXCEPT !.pc = "decr", !.cur = p, !.copy = 0]
    <2>1. CASE r.md.mode = "dir"
      <3>1. "opendir" \in {"open", "target", "follow", "opendir"}
        OBVIOUS
      <3>2. QED  BY <2>1, <3>1, Asking, Zenon DEF OpenEntry
    <2>2. CASE r.md.mode # "dir" /\ Truncates(r)
      <3>1. /\ DOMAIN s = RFields /\ s.op = r.op /\ s.copy = 0 /\ s.pc = "decr" /\ s.md = r.md
        BY Zenon DEF CType, RFields
      <3>2. OpenEntry(r, p) = s
        BY <2>2, Zenon DEF OpenEntry
      <3> HIDE DEF s
      <3>3. /\ s.copy \in Copies /\ s.pc \notin {"stat", "parent", "create", "dirents", "listed", "rm", "done"}
            /\ s.op.kind # "rmdir"
        BY <3>1 DEF Copies, Setting
      <3>4. Flow(s)
        BY <2>2, <3>1 DEF Flow, Within
      <3>5. QED  BY <3>1, <3>2, <3>3, <3>4, Elsewhere, Zenon
    <2>3. CASE r.md.mode # "dir" /\ ~Truncates(r)
      BY <2>3, Succeeding, Zenon DEF OpenEntry
    <2>4. QED  BY <2>1, <2>2, <2>3, Zenon
  <1>2. Goes(r, open_entry(r))
    <2>1. "target" \in {"open", "target", "follow", "opendir"}
      OBVIOUS
    <2>2. \A p : Goes(r, get_metadata(r, p, "target"))
      BY <2>1, Asking, Zenon
    <2>3. QED  BY <1>1, <2>2, Failing, Zenon DEF open_entry
  <1>3. QED  BY <1>1, <1>2, Zenon

(* gkfs_create and gkfs_open between two RPCs.                             *)
LEMMA MovesOpen ==
    ASSUME Setting, NEW c \in Clients, CType(cl[c]), Flow(cl[c])
    PROVE  /\ check_parent_dir(c) => Moved(c)
           /\ gkfs_create_done(c) => Moved(c)
           /\ open_existing(c) => Moved(c)
           /\ gkfs_open(c) => Moved(c)
           /\ open_target(c) => Moved(c)
           /\ gkfs_opendir(c) => Moved(c)
  <1> DEFINE r == cl[c]
  <1>1. ASSUME check_parent_dir(c) PROVE Moved(c)
    <2> DEFINE s == create_all(r)
    <2>1. r.pc = "parent" /\ \E t : Become(c, t) /\ ((\E e : t = Fail(r, e)) \/ (r.md.mode = "dir" /\ t = s))
      BY <1>1, Zenon DEF check_parent_dir, At, Local
    <2>2. DOMAIN s = RFields /\ s.op = r.op /\ s.copy = 0 /\ s.cur = r.cur /\ s.pc = "create"
      BY Zenon DEF CType, RFields, create_all
    <2> HIDE DEF s
    <2>3. s.copy \in Copies /\ s.pc \notin {"stat", "parent", "dirents", "listed", "rm", "done"}
      BY <2>2 DEF Copies, Setting
    <2>4. Creates(r) /\ r.op.kind \in {"mkdir", "open"}
      BY <2>1, KindOf, "parent" \in {"parent", "create", "created"}
    <2>5. Flow(s)
      BY <2>2, <2>4 DEF Flow, Within, Creates
    <2>6. r.md.mode = "dir" => Goes(r, s)
      BY <2>1, <2>2, <2>3, <2>5, Zenon DEF Goes
    <2> HIDE DEF r
    <2>7. QED  BY <2>1, <2>6, Failing, Zenon DEF Moved, r
  <1>2. ASSUME gkfs_create_done(c) PROVE Moved(c)
    <2>1. /\ r.pc = "created"
          /\ \E t : /\ Become(c, t)
                    /\ \/ \E e : t = Fail(r, e)
                       \/ t = Success(r) \/ t = Opened(r, r.op.path)
                       \/ r.op.kind # "mkdir" /\ t = get_metadata(r, r.op.path, "exists")
      BY <1>2, Zenon DEF gkfs_create_done, At, Local
    <2>2. Creates(r) /\ r.op.kind \in {"mkdir", "open"}
      BY <2>1, KindOf, "created" \in {"parent", "create", "created"}
    <2>3. r.op.kind # "mkdir" => r.op.kind = "open"
      BY <2>2
    <2>4. r.op.kind # "mkdir" => Goes(r, get_metadata(r, r.op.path, "exists"))
      BY <2>2, <2>3, Asking, Zenon
    <2> HIDE DEF r
    <2>5. QED  BY <2>1, <2>2, <2>4, Failing, Succeeding, Zenon DEF Moved, r
  <1>3. ASSUME open_existing(c) PROVE Moved(c)
    <2>1. r.pc = "exists" /\ \E t : Become(c, t) /\ ((\E e : t = Fail(r, e)) \/ t = open_entry(r))
      BY <1>3, Zenon DEF open_existing, At, Local
    <2>2. r.op.kind = "open"
      BY <2>1, KindOf, Zenon
    <2> HIDE DEF r
    <2>3. QED  BY <2>1, <2>2, Opening, Failing, Zenon DEF Moved, r
  <1>4. ASSUME gkfs_open(c) PROVE Moved(c)
    <2>1. r.pc = "open" /\ \E t : Become(c, t) /\ ((\E e : t = Fail(r, e)) \/ t = open_entry(r))
      BY <1>4, Zenon DEF gkfs_open, At, Local
    <2>2. r.op.kind = "open"
      BY <2>1, KindOf
    <2> HIDE DEF r
    <2>3. QED  BY <2>1, <2>2, Opening, Failing, Zenon DEF Moved, r
  <1>5. ASSUME open_target(c) PROVE Moved(c)
    <2> DEFINE s == Goto(r, "aborted")
    <2>1. /\ r.pc \in {"target", "follow"}
          /\ \E t : /\ Become(c, t)
                    /\ \/ (\E e : t = Fail(r, e)) \/ t = s \/ (\E p : t = get_metadata(r, p, "follow"))
                       \/ \E p : t = OpenEntry(r, p)
      BY <1>5, Zenon DEF open_target, At, Local
    <2>2. r.op.kind = "open"
      BY <2>1, KindOf
    <2>3. DOMAIN s = RFields /\ s.op = r.op /\ s.copy = r.copy /\ s.cur = r.cur /\ s.pc = "aborted"
      BY Zenon DEF CType, RFields, Goto
    <2> HIDE DEF s
    <2>4. s.pc \notin {"stat", "parent", "create", "dirents", "listed", "rm", "done"} /\ s.copy \in Copies
      BY <2>3 DEF CType
    <2>5. Flow(s)
      BY <2>2, <2>3 DEF Flow, Within
    <2>6. Goes(r, s)
      BY <2>3, <2>4, <2>5, Elsewhere, Zenon
    <2>7. \A p : Goes(r, get_metadata(r, p, "follow"))
      BY <2>2, Asking, "follow" \in {"open", "target", "follow", "opendir"}
    <2> HIDE DEF r
    <2>8. QED  BY <2>1, <2>2, <2>6, <2>7, Opening, Failing, Zenon DEF Moved, r
  <1>6. ASSUME gkfs_opendir(c) PROVE Moved(c)
    <2> DEFINE s == [r EXCEPT !.pc = "dirents", !.todo = Hosts, !.got = {}, !.err = "0"]
    <2>1. r.pc = "opendir" /\ \E t : Become(c, t) /\ ((\E e : t = Fail(r, e)) \/ t = s)
      BY <1>6, Zenon DEF gkfs_opendir, At, Local
    <2>2. r.op.kind = "open"
      BY <2>1, KindOf
    <2>3. /\ DOMAIN s = RFields /\ s.op = r.op /\ s.copy = r.copy /\ s.cur = r.cur /\ s.pc = "dirents"
          /\ s.todo = Hosts /\ s.got = {}
      BY Zenon DEF CType, RFields
    <2> HIDE DEF s
    <2>4. s.pc \notin {"stat", "parent", "create", "listed", "rm", "done"} /\ s.copy \in Copies
      BY <2>3 DEF CType
    <2>5. Flow(s)
      BY <2>2, <2>3 DEF Flow, Within
    <2>6. Goes(r, s)
      BY <2>3, <2>4, <2>5, Zenon DEF Goes
    <2> HIDE DEF r
    <2>7. QED  BY <2>1, <2>6, Failing, Zenon DEF Moved, r
  <1>7. QED  BY <1>1, <1>2, <1>3, <1>4, <1>5, <1>6, Zenon

(* The other calls between two RPCs.                                       *)
LEMMA MovesLocal ==
    ASSUME Setting, NEW c \in Clients, CType(cl[c]), Flow(cl[c])
    PROVE  /\ gkfs_stat(c) \/ gkfs_statx(c) \/ gkfs_access(c) => Moved(c)
           /\ gkfs_remove(c) \/ remove_follow(c) \/ remove_name(c) => Moved(c)
           /\ gkfs_rmdir(c) => Moved(c)
           /\ Listed(c) => Moved(c)
           /\ Removed(c) => Moved(c)
           /\ gkfs_rename(c) \/ rename_to(c) => Moved(c)
  <1> DEFINE r == cl[c]
  <1>1. ASSUME gkfs_stat(c) \/ gkfs_statx(c) \/ gkfs_access(c) PROVE Moved(c)
    <2>1. PICK first \in LookLabels, follow \in LookLabels : LookUp(c, first, follow)
      <3>1. {"gkfs_stat", "gkfs_statx", "gkfs_access", "stat_follow", "statx_follow", "access_follow"} \subseteq LookLabels
        BY DEF LookLabels
      <3>2. QED  BY <1>1, <3>1 DEF gkfs_stat, gkfs_statx, gkfs_access
    <2>2. /\ r.pc \in LookLabels
          /\ \E t : /\ Become(c, t)
                    /\ \/ (\E e : t = Fail(r, e)) \/ t = Success(r) \/ (\E p : t = get_metadata(r, p, follow))
      BY <2>1, Zenon DEF LookUp, At, Local
    <2>3. r.op.kind \in {"stat", "statx", "access"}
      BY <2>2, KindOf, Zenon
    <2>4. r.op.kind # "open"
      BY <2>3
    <2>5. \A p : Goes(r, get_metadata(r, p, follow))
      BY <2>3, Asking, Zenon
    <2> HIDE DEF r
    <2>6. QED  BY <2>2, <2>4, <2>5, Succeeding, Failing, Zenon DEF Moved, r
  <1>2. ASSUME gkfs_remove(c) \/ remove_follow(c) \/ remove_name(c) PROVE Moved(c)
    <2> DEFINE x == [r EXCEPT !.end = r.cur]
    <2>1. /\ r.pc \in {"remove", "remove_follow", "remove_name"}
          /\ \E t : /\ Become(c, t)
                    /\ \/ (\E e : t = Fail(r, e)) \/ (\E p : t = get_metadata(r, p, "remove_follow"))
                       \/ t = Remove(r, r.op.path, "removed") \/ t = Remove(x, r.cur, "remove_name")
      BY <1>2, Zenon DEF gkfs_remove, remove_follow, remove_name, At, Local
    <2>2. CType(x) /\ x.op = r.op
      BY Zenon DEF CType, RFields
    <2> HIDE DEF x
    <2>3. r.op.kind = "remove"
      BY <2>1, KindOf, Zenon
    <2>4. \A p : Goes(r, get_metadata(r, p, "remove_follow"))
      BY <2>3, Asking, "remove_follow" \in {"remove", "remove_follow"}
    <2>5. Goes(r, Remove(r, r.op.path, "removed")) /\ Goes(r, Remove(x, r.cur, "remove_name"))
      BY <2>2, <2>3, Removing
    <2> HIDE DEF r
    <2>6. QED  BY <2>1, <2>4, <2>5, Failing, Zenon DEF Moved, r
  <1>3. ASSUME gkfs_rmdir(c) PROVE Moved(c)
    <2> DEFINE s == [r EXCEPT !.pc = "dirents", !.todo = Hosts, !.got = {}, !.err = "0"]
    <2>1. r.pc = "rmdir" /\ \E t : Become(c, t) /\ ((\E e : t = Fail(r, e)) \/ t = s)
      BY <1>3, Zenon DEF gkfs_rmdir, At, Local
    <2>2. r.op.kind = "rmdir"
      BY <2>1, KindOf, Zenon
    <2>3. /\ DOMAIN s = RFields /\ s.op = r.op /\ s.copy = r.copy /\ s.cur = r.cur /\ s.pc = "dirents"
          /\ s.todo = Hosts /\ s.got = {}
      BY Zenon DEF CType, RFields
    <2> HIDE DEF s
    <2>4. s.pc \notin {"stat", "parent", "create", "listed", "rm", "done"} /\ s.copy \in Copies
      BY <2>3 DEF CType
    <2>5. Flow(s)
      BY <2>2, <2>3 DEF Flow, Within
    <2>6. Goes(r, s)
      BY <2>3, <2>4, <2>5, Zenon DEF Goes
    <2> HIDE DEF r
    <2>7. QED  BY <2>1, <2>6, Failing, Zenon DEF Moved, r
  <1>4. ASSUME Listed(c) PROVE Moved(c)
    <2>1. /\ r.pc = "listed"
          /\ \E t : /\ Become(c, t)
                    /\ \/ \E e : t = Fail(r, e)
                       \/ r.err = "0" /\ t = Success(r)
                       \/ r.err = "0" /\ r.op.kind # "open" /\ r.got = {} /\ t = Remove(r, r.op.path, "removed")
      BY <1>4, Zenon DEF Listed, At, Local
    <2>2. r.op.kind \in {"open", "rmdir"}
      BY <2>1, KindOf
    <2>3. r.op.kind # "open" => r.op.kind = "rmdir"
      BY <2>2
    <2>4. r.err = "0" /\ r.op.kind # "open" /\ r.got = {} => Goes(r, Remove(r, r.op.path, "removed"))
      BY <2>1, <2>3, Removing, Zenon
    <2>5. r.err = "0" => Goes(r, Success(r))
      BY <2>1, Succeeding, Zenon
    <2> HIDE DEF r
    <2>6. QED  BY <2>1, <2>4, <2>5, Failing, Zenon DEF Moved, r
  <1>5. ASSUME Removed(c) PROVE Moved(c)
    <2>1. r.pc = "removed" /\ \E t : Become(c, t) /\ ((\E e : t = Fail(r, e)) \/ t = Success(r))
      BY <1>5, Zenon DEF Removed, At, Local
    <2>2. r.op.kind # "open"
      BY <2>1 DEF Flow, Within, LookLabels, RenameLabels
    <2> HIDE DEF r
    <2>3. QED  BY <2>1, <2>2, Succeeding, Failing, Zenon DEF Moved, r
  <1>6. ASSUME gkfs_rename(c) \/ rename_to(c) PROVE Moved(c)
    <2> DEFINE x == [r EXCEPT !.old = r.md]
               s(l) == Goto(r, l)
    <2>1. /\ r.pc \in {"rename", "rename_new"}
          /\ \E t : /\ Become(c, t)
                    /\ \/ (\E e : t = Fail(r, e)) \/ t = get_metadata(x, r.op.new, "rename_new")
                       \/ \E l \in {"undo", "rename_hide"} : t = s(l)
      BY <1>6 DEF gkfs_rename, rename_to, At, Local
    <2>2. CType(x) /\ x.op = r.op
      BY Zenon DEF CType, RFields
    <2>3. r.op.kind = "rename"
      BY <2>1, KindOf DEF RenameLabels
    <2>4. Goes(r, get_metadata(x, r.op.new, "rename_new"))
      <3> HIDE DEF x
      <3>1. QED  BY <2>2, <2>3, Asking, Zenon
    <2>5. ASSUME NEW l \in {"undo", "rename_hide"} PROVE Goes(r, s(l))
      <3> DEFINE t == s(l)
      <3>1. DOMAIN t = RFields /\ t.op = r.op /\ t.copy = r.copy /\ t.cur = r.cur /\ t.pc = l
        BY Zenon DEF CType, RFields, Goto
      <3> HIDE DEF t
      <3>2. t.pc \notin {"stat", "parent", "create", "dirents", "listed", "rm", "done"} /\ t.copy \in Copies
        BY <3>1 DEF CType
      <3>3. Flow(t)
        BY <2>3, <3>1 DEF Flow, Within, RenameLabels
      <3>4. QED  BY <3>1, <3>2, <3>3, Elsewhere, Zenon DEF t
    <2> HIDE DEF r, x, s
    <2>6. QED  BY <2>1, <2>4, <2>5, Failing, Zenon DEF Moved, r
  <1>7. QED  BY <1>1, <1>2, <1>3, <1>4, <1>5, <1>6, Zenon

(* A record at another label, or at another copy.                          *)
LEMMA Going ==
    ASSUME NEW r, CType(r)
    PROVE  /\ \A l : LET s == Goto(r, l) IN
                     DOMAIN s = RFields /\ s.op = r.op /\ s.copy = r.copy /\ s.cur = r.cur /\ s.pc = l
           /\ LET s == [r EXCEPT !.copy = @ + 1] IN
                     /\ DOMAIN s = RFields /\ s.op = r.op /\ s.copy = r.copy + 1 /\ s.cur = r.cur
                     /\ s.pc = r.pc /\ s.k = r.k /\ s.md = r.md
           /\ Replicas \in Nat /\ r.copy < Replicas => r.copy + 1 \in Copies
  <1>1. Replicas \in Nat /\ r.copy < Replicas => r.copy + 1 \in Copies
    BY DEF CType, Copies
  <1>2. QED  BY <1>1, Zenon DEF CType, RFields, Goto

LEMMA MovesCreate ==
    ASSUME Setting, NEW c \in Clients, CType(cl[c]), Flow(cl[c]), forward_create(c)
    PROVE  Moved(c)
  <1> DEFINE r == cl[c]
  <1>1. r.pc = "create" /\ \E t : Become(c, t) /\ \E e : t = Created(r, e)
    BY Zenon DEF forward_create, Rpc, At
  <1>2. Creates(r) /\ r.op.kind \in {"mkdir", "open"}
    BY <1>1, KindOf, "create" \in {"parent", "create", "created"}
  <1>3. ASSUME NEW e PROVE Goes(r, Created(r, e))
    <2> DEFINE s == Created(r, e)
    <2>1. /\ DOMAIN s = RFields /\ s.op = r.op /\ s.cur = r.cur
          /\ s.copy = IF r.copy < Replicas THEN r.copy + 1 ELSE r.copy
          /\ s.pc = IF r.copy < Replicas THEN "create" ELSE "created"
      BY Zenon DEF CType, RFields, Created
    <2> HIDE DEF s
    <2>2. s.copy \in Copies /\ s.pc \in {"create", "created"}
      BY <2>1 DEF CType, Copies, Setting
    <2>3. s.pc \notin {"stat", "parent", "dirents", "listed", "rm", "done"} /\ s.op.kind # "rmdir"
      BY <1>2, <2>1, <2>2
    <2>4. Flow(s)
      BY <1>2, <2>1, <2>2 DEF Flow, Within, Creates
    <2>5. QED  BY <1>1, <2>1, <2>2, <2>3, <2>4, Zenon DEF Goes, s
  <1> HIDE DEF r
  <1>4. QED  BY <1>1, <1>3, Zenon DEF Moved, r

LEMMA MovesTruncate ==
    ASSUME Setting, NEW c \in Clients, CType(cl[c]), Flow(cl[c])
    PROVE  /\ forward_decr_size(c) => Moved(c)
           /\ forward_truncate(c) => Moved(c)
  <1> DEFINE r == cl[c]
             next == [r EXCEPT !.copy = @ + 1]
             last == Goto(r, "truncate")
  <1>1. ASSUME forward_decr_size(c) PROVE Moved(c)
    <2>1. r.pc = "decr" /\ \E t : /\ Become(c, t)
                                  /\ \/ \E e : t = Fail(r, e)
                                     \/ r.copy < Replicas /\ t = next
                                     \/ t = last
      BY <1>1, Zenon DEF forward_decr_size, Rpc, At
    <2>2. r.op.kind = "open" /\ r.md.mode # "dir"
      BY <2>1, KindOf
    <2>3. r.copy < Replicas => Goes(r, next)
      <3>1. /\ DOMAIN next = RFields /\ next.op = r.op /\ next.copy = r.copy + 1 /\ next.cur = r.cur
            /\ next.pc = r.pc /\ next.md = r.md /\ (r.copy < Replicas => next.copy \in Copies)
        BY Going, Zenon DEF Setting
      <3> HIDE DEF next
      <3>2. next.pc \notin {"stat", "parent", "create", "dirents", "listed", "rm", "done"}
        BY <2>1, <3>1
      <3>3. Flow(next)
        BY <2>1, <2>2, <3>1 DEF Flow, Within
      <3>4. QED  BY <3>1, <3>2, <3>3, Elsewhere, Zenon
    <2>4. Goes(r, last)
      <3>1. /\ DOMAIN last = RFields /\ last.op = r.op /\ last.copy = r.copy /\ last.cur = r.cur
            /\ last.pc = "truncate" /\ last.md = r.md
        BY Zenon DEF Goto, CType, RFields
      <3> HIDE DEF last
      <3>2. last.pc \notin {"stat", "parent", "create", "dirents", "listed", "rm", "done"} /\ last.copy \in Copies
        BY <3>1 DEF CType
      <3>3. Flow(last)
        BY <2>2, <3>1 DEF Flow, Within
      <3>4. QED  BY <3>1, <3>2, <3>3, Elsewhere, Zenon
    <2> HIDE DEF r, next, last
    <2>5. QED  BY <2>1, <2>3, <2>4, Failing, Zenon DEF Moved, r
  <1>2. ASSUME forward_truncate(c) PROVE Moved(c)
    <2>1. r.pc = "truncate" /\ \E t : Become(c, t) /\ ((\E e : t = Fail(r, e)) \/ \E p : t = Opened(r, p))
      BY <1>2, Zenon DEF forward_truncate, At
    <2>2. r.md.mode # "dir"
      BY <2>1, KindOf
    <2> HIDE DEF r
    <2>3. QED  BY <2>1, <2>2, Succeeding, Failing, Zenon DEF Moved, r
  <1>3. QED  BY <1>1, <1>2, Zenon

LEMMA MovesDirents ==
    ASSUME Setting, NEW c \in Clients, CType(cl[c]), Flow(cl[c]), forward_get_dirents(c)
    PROVE  Moved(c)
  <1> DEFINE r == cl[c]
             s0(h) == [r EXCEPT !.todo = @ \ {h}, !.pc = IF r.todo = {h} THEN "listed" ELSE @]
             bad(h, e) == [s0(h) EXCEPT !.err = e]
             good(h) == [s0(h) EXCEPT !.got = @ \cup rpc_srv_get_dirents(db[h], r.cur).names]
  <1>1. /\ r.pc = "dirents"
        /\ \E h \in r.todo : \E t : /\ Become(c, t)
                                    /\ t = good(h) \/ \E e : e # "0" /\ t = bad(h, e)
    <2>1. "EBUSY" # "0"
      OBVIOUS
    <2>2. PICK h \in r.todo :
             Rpc(c, h, db[h], IF rpc_srv_get_dirents(db[h], r.cur).err # "0"
                              THEN bad(h, rpc_srv_get_dirents(db[h], r.cur).err) ELSE good(h), bad(h, "EBUSY"))
      BY Zenon DEF forward_get_dirents
    <2>3. r.pc = "dirents"
      BY Zenon DEF forward_get_dirents, At
    <2> HIDE DEF r, bad, good
    <2>4. QED  BY <2>1, <2>2, <2>3, Zenon DEF Rpc
  <1>2. r.op.kind \in {"open", "rmdir"}
    BY <1>1, KindOf
  <1>3. ASSUME NEW h \in r.todo, NEW s, DOMAIN s = RFields, s.op = r.op, s.copy = r.copy, s.cur = r.cur,
               s.todo = r.todo \ {h}, s.pc = IF r.todo = {h} THEN "listed" ELSE "dirents",
               s.err = "0" => r.err = "0" /\ s.got = r.got \cup get_dirents(db[h], r.cur)
        PROVE  Goes(r, s)
    <2>1. s.pc \in {"dirents", "listed"} /\ s.pc \notin {"stat", "parent", "create", "rm", "done"}
      BY <1>3
    <2>2. Flow(s)
      BY <1>2, <1>3, <2>1 DEF Flow, Within
    <2>3. Answers(r, s)
      BY <1>3 DEF Answers
    <2>4. QED  BY <1>1, <1>3, <2>1, <2>2, <2>3, Zenon DEF Goes, CType
  <1>4. ASSUME NEW h \in r.todo PROVE Goes(r, good(h))
    <2> DEFINE s == good(h)
    <2>1. rpc_srv_get_dirents(db[h], r.cur).names = get_dirents(db[h], r.cur)
      BY Zenon DEF rpc_srv_get_dirents
    <2>2. /\ DOMAIN s = RFields /\ s.op = r.op /\ s.copy = r.copy /\ s.cur = r.cur /\ s.todo = r.todo \ {h}
          /\ s.pc = (IF r.todo = {h} THEN "listed" ELSE r.pc) /\ s.err = r.err
          /\ s.got = r.got \cup rpc_srv_get_dirents(db[h], r.cur).names
      BY Zenon DEF CType, RFields
    <2> HIDE DEF s
    <2>3. /\ s.pc = (IF r.todo = {h} THEN "listed" ELSE "dirents")
          /\ s.err = "0" => r.err = "0" /\ s.got = r.got \cup get_dirents(db[h], r.cur)
      BY <1>1, <2>1, <2>2, Zenon
    <2>4. Goes(r, s)
      BY <1>3, <2>2, <2>3, Zenon
    <2>5. QED  BY <2>4, Zenon DEF s
  <1>5. ASSUME NEW h \in r.todo, NEW e, e # "0" PROVE Goes(r, bad(h, e))
    <2> DEFINE s == bad(h, e)
    <2>1. /\ DOMAIN s = RFields /\ s.op = r.op /\ s.copy = r.copy /\ s.cur = r.cur /\ s.todo = r.todo \ {h}
          /\ s.pc = (IF r.todo = {h} THEN "listed" ELSE r.pc) /\ s.err = e
      BY Zenon DEF CType, RFields
    <2> HIDE DEF s
    <2>2. QED  BY <1>1, <1>3, <1>5, <2>1, Zenon DEF s
  <1> HIDE DEF r, bad, good
  <1>6. QED  BY <1>1, <1>4, <1>5, Zenon DEF Moved, r

LEMMA MovesRemove ==
    ASSUME Setting, NEW c \in Clients, CType(cl[c]), Flow(cl[c])
    PROVE  /\ forward_remove(c) => Moved(c)
           /\ forward_remove_data(c) => Moved(c)
  <1> DEFINE r == cl[c]
  <1>1. ASSUME r.pc \in {"rm", "rmdata"}, NEW s, DOMAIN s = RFields, s.op = r.op, s.copy \in Copies, s.cur = r.cur,
               s.k = r.k, s.pc = r.k \/ s.pc = "rmdata" \/ (r.pc = "rm" /\ s.pc = "rm")
        PROVE  Goes(r, s)
    <2>1. CASE s.pc = r.k
      <3>1. Flow(s) /\ s.pc \in {"removed", "remove_name"}
        BY <1>1, <2>1, Resumes, Zenon
      <3>2. s.pc \notin {"stat", "parent", "create", "dirents", "listed", "rm", "done"}
        BY <3>1
      <3>3. QED  BY <1>1, <3>1, <3>2, Elsewhere, Zenon
    <2>2. CASE s.pc \in {"rm", "rmdata"} /\ (s.pc = "rm" => r.pc = "rm")
      <3>1. Flow(s)
        BY <1>1, <2>2, Stays, Zenon
      <3>2. s.pc \notin {"stat", "parent", "create", "dirents", "listed", "done"}
        BY <2>2
      <3>3. QED  BY <1>1, <2>2, <3>1, <3>2, Zenon DEF Goes
    <2>3. QED  BY <1>1, <2>1, <2>2
  <1>2. ASSUME forward_remove(c) PROVE Moved(c)
    <2> DEFINE ret(e) == [r EXCEPT !.err = e, !.pc = r.k]
               next == [r EXCEPT !.copy = @ + 1]
               dat(hs) == [r EXCEPT !.err = "0", !.pc = "rmdata", !.todo = hs]
    <2>1. /\ r.pc = "rm"
          /\ \E t : /\ Become(c, t)
                    /\ (\E e : t = ret(e)) \/ (r.copy < Replicas /\ t = next) \/ (\E hs : t = dat(hs))
      BY <1>2, Zenon DEF forward_remove, At
    <2>2. r.pc \in {"rm", "rmdata"}
      BY <2>1
    <2>3. ASSUME NEW e PROVE Goes(r, ret(e))
      <3> DEFINE s == ret(e)
      <3>1. DOMAIN s = RFields /\ s.op = r.op /\ s.copy = r.copy /\ s.cur = r.cur /\ s.k = r.k /\ s.pc = r.k
        BY Zenon DEF CType, RFields
      <3> HIDE DEF s
      <3>2. QED  BY <1>1, <2>2, <3>1, Zenon DEF s, CType
    <2>4. r.copy < Replicas => Goes(r, next)
      <3>1. /\ DOMAIN next = RFields /\ next.op = r.op /\ next.cur = r.cur /\ next.k = r.k /\ next.pc = r.pc
            /\ r.copy < Replicas => next.copy \in Copies
        BY Going, Zenon DEF Setting
      <3> HIDE DEF next
      <3>2. QED  BY <1>1, <2>1, <2>2, <3>1, Zenon
    <2>5. ASSUME NEW hs PROVE Goes(r, dat(hs))
      <3> DEFINE s == dat(hs)
      <3>1. DOMAIN s = RFields /\ s.op = r.op /\ s.copy = r.copy /\ s.cur = r.cur /\ s.k = r.k /\ s.pc = "rmdata"
        BY Zenon DEF CType, RFields
      <3> HIDE DEF s
      <3>2. QED  BY <1>1, <2>2, <3>1, Zenon DEF s, CType
    <2> HIDE DEF r, ret, next, dat
    <2>6. QED  BY <2>1, <2>3, <2>4, <2>5, Zenon DEF Moved, r
  <1>3. ASSUME forward_remove_data(c) PROVE Moved(c)
    <2> DEFINE some(h) == [r EXCEPT !.todo = @ \ {h}, !.pc = IF r.todo = {h} THEN r.k ELSE @]
               lost(h) == [some(h) EXCEPT !.err = "EBUSY"]
               none == [r EXCEPT !.todo = {}, !.err = "EBUSY", !.pc = r.k]
    <2>1. r.pc = "rmdata" /\ \E t : Become(c, t) /\ (t = none \/ \E h : t = some(h) \/ t = lost(h))
      BY <1>3, Zenon DEF forward_remove_data, At
    <2>2. r.pc \in {"rm", "rmdata"}
      BY <2>1
    <2>3. Goes(r, none)
      <3>1. DOMAIN none = RFields /\ none.op = r.op /\ none.copy = r.copy /\ none.cur = r.cur /\ none.k = r.k /\ none.pc = r.k
        BY Zenon DEF CType, RFields
      <3> HIDE DEF none
      <3>2. QED  BY <1>1, <2>2, <3>1, Zenon DEF CType
    <2>4. ASSUME NEW h PROVE Goes(r, some(h)) /\ Goes(r, lost(h))
      <3>1. LET s == some(h) IN
              /\ DOMAIN s = RFields /\ s.op = r.op /\ s.copy = r.copy /\ s.cur = r.cur /\ s.k = r.k
              /\ s.pc = IF r.todo = {h} THEN r.k ELSE r.pc
        BY Zenon DEF CType, RFields
      <3>2. LET s == lost(h) IN
              /\ DOMAIN s = RFields /\ s.op = r.op /\ s.copy = r.copy /\ s.cur = r.cur /\ s.k = r.k
              /\ s.pc = IF r.todo = {h} THEN r.k ELSE r.pc
        BY Zenon DEF CType, RFields
      <3> HIDE DEF some, lost
      <3>3. QED  BY <1>1, <2>1, <2>2, <3>1, <3>2, Zenon DEF CType
    <2> HIDE DEF r, some, lost, none
    <2>5. QED  BY <2>1, <2>3, <2>4, Zenon DEF Moved, r
  <1>4. QED  BY <1>2, <1>3, Zenon

LEMMA MovesRename ==
    ASSUME Setting, NEW c \in Clients, CType(cl[c]), Flow(cl[c])
    PROVE  /\ forward_update_metadentry(c) => Moved(c)
           /\ forward_rename_hide(c) => Moved(c)
           /\ forward_rename_create(c) => Moved(c)
           /\ forward_rename_link(c) => Moved(c)
           /\ forward_rename_back(c) => Moved(c)
  <1> DEFINE r == cl[c]
  <1>1. ASSUME r.pc \in RenameLabels
        PROVE  /\ Goes(r, Remove(r, r.op.path, "removed")) /\ Goes(r, Success(r))
               /\ \A l \in RenameLabels : Goes(r, Goto(r, l))
    <2>1. r.op.kind = "rename"
      BY <1>1, KindOf, Zenon
    <2>2. r.op.kind # "open"
      BY <2>1
    <2>3. ASSUME NEW l \in RenameLabels PROVE Goes(r, Goto(r, l))
      <3> DEFINE s == Goto(r, l)
      <3>1. DOMAIN s = RFields /\ s.op = r.op /\ s.copy = r.copy /\ s.cur = r.cur /\ s.pc = l
        BY Going, Zenon
      <3> HIDE DEF s
      <3>2. s.pc \notin {"stat", "parent", "create", "dirents", "listed", "rm", "done"}
        BY <3>1 DEF RenameLabels
      <3>3. Flow(s)
        BY <2>1, <3>1 DEF Flow, Within
      <3>4. QED  BY <3>1, <3>2, <3>3, Elsewhere, Zenon DEF s, CType
    <2>4. QED  BY <2>1, <2>2, <2>3, Removing, Succeeding, Zenon
  <1>2. {"undo", "rename_hide", "rename_create", "rename_link", "rename_back"} \subseteq RenameLabels
    BY DEF RenameLabels
  <1>3. ASSUME \/ forward_update_metadentry(c) \/ forward_rename_hide(c) \/ forward_rename_create(c)
               \/ forward_rename_link(c) \/ forward_rename_back(c)
        PROVE  /\ r.pc \in {"undo", "rename_hide", "rename_create", "rename_link", "rename_back"}
               /\ \E t : /\ Become(c, t)
                         /\ \/ \E e : t = Fail(r, e)
                            \/ t = Remove(r, r.op.path, "removed") \/ t = Success(r)
                            \/ \E l \in {"undo", "rename_hide", "rename_create", "rename_link", "rename_back"} :
                                  t = Goto(r, l)
    <2>1. CASE forward_update_metadentry(c)
      BY <2>1, Zenon DEF forward_update_metadentry, Rpc, At
    <2>2. CASE forward_rename_hide(c)
      BY <2>2, Zenon DEF forward_rename_hide, Rpc, At
    <2>3. CASE forward_rename_create(c)
      BY <2>3, Zenon DEF forward_rename_create, Rpc, At
    <2>4. CASE forward_rename_link(c)
      BY <2>4, Zenon DEF forward_rename_link, Rpc, At
    <2>5. CASE forward_rename_back(c)
      BY <2>5, Zenon DEF forward_rename_back, Rpc, At
    <2>6. QED  BY <1>3, <2>1, <2>2, <2>3, <2>4, <2>5, Zenon
  <1> HIDE DEF r
  <1>4. QED  BY <1>1, <1>2, <1>3, Failing, Zenon DEF Moved, r

LEMMA MovesWrite ==
    ASSUME Setting, NEW c \in Clients, CType(cl[c]), Flow(cl[c])
    PROVE  /\ forward_update_metadentry_size(c) => Moved(c)
           /\ forward_write(c) => Moved(c)
  <1> DEFINE r == cl[c]
             next == [r EXCEPT !.copy = @ + 1]
             last == Goto(r, "write")
  <1>1. ASSUME forward_update_metadentry_size(c) PROVE Moved(c)
    <2>1. r.pc = "size" /\ \E t : Become(c, t) /\ ((r.copy < Replicas /\ t = next) \/ t = last)
      BY <1>1, Zenon DEF forward_update_metadentry_size, At
    <2>2. r.op.kind = "write"
      BY <2>1, KindOf
    <2>3. ASSUME NEW s, DOMAIN s = RFields, s.op = r.op, s.copy \in Copies, s.cur = r.cur, s.pc \in {"size", "write"}
          PROVE  Goes(r, s)
      <3>1. s.pc \notin {"stat", "parent", "create", "dirents", "listed", "rm", "done"}
        BY <2>3
      <3>2. Flow(s)
        BY <2>2, <2>3 DEF Flow, Within
      <3>3. QED  BY <2>3, <3>1, <3>2, Elsewhere, Zenon
    <2>4. r.copy < Replicas => Goes(r, next)
      <3>1. /\ DOMAIN next = RFields /\ next.op = r.op /\ next.cur = r.cur /\ next.pc = r.pc
            /\ r.copy < Replicas => next.copy \in Copies
        BY Going, Zenon DEF Setting
      <3> HIDE DEF next
      <3>2. QED  BY <2>1, <2>3, <3>1, Zenon
    <2>5. Goes(r, last)
      <3>1. DOMAIN last = RFields /\ last.op = r.op /\ last.copy = r.copy /\ last.cur = r.cur /\ last.pc = "write"
        BY Going, Zenon
      <3> HIDE DEF last
      <3>2. QED  BY <2>3, <3>1, Zenon DEF CType
    <2> HIDE DEF r, next, last
    <2>6. QED  BY <2>1, <2>4, <2>5, Zenon DEF Moved, r
  <1>2. ASSUME forward_write(c) PROVE Moved(c)
    <2>1. r.pc = "write" /\ Become(c, Success(r))
      BY <1>2, Zenon DEF forward_write, At
    <2>2. r.op.kind = "write"
      BY <2>1, KindOf
    <2>3. r.op.kind # "open"
      BY <2>2
    <2> HIDE DEF r
    <2>4. QED  BY <2>1, <2>3, Succeeding, Zenon DEF Moved, r
  <1>3. QED  BY <1>1, <1>2, Zenon

(* Every step of a call leads where Goes says.                             *)
LEMMA Moves ==
    ASSUME Setting, DOMAIN cl = Clients, NEW c \in Clients, CType(cl[c]), Flow(cl[c]), Step(c)
    PROVE  /\ DOMAIN cl' = Clients /\ Goes(cl[c], cl'[c])
           /\ \A d \in Clients : d # c => cl'[d] = cl[d]
  <1>1. Moved(c)
    BY MovesStat, MovesOpen, MovesLocal, MovesCreate, MovesTruncate, MovesDirents, MovesRemove,
       MovesRename, MovesWrite, Zenon DEF Step
  <1>2. PICK s : cl' = [cl EXCEPT ![c] = s] /\ Goes(cl[c], s)
    BY <1>1, Zenon DEF Moved, Become
  <1>3. cl'[c] = s
    BY <1>2, Zenon
  <1>4. QED  BY <1>2, <1>3, Zenon

-----------------------------------------------------------------------------
(* What a call may do to the entries *)

DType(d) == DOMAIN d = Paths /\ \A p \in Paths : DOMAIN d[p] = EFields
Typed == DOMAIN db = Hosts /\ \A h \in Hosts : DType(db[h])

Live(h, p) == db[h][p].mode \in Modes /\ db[h][p].blocks # -1
IsDir(h, p) == db[h][p].mode = "dir"
Held(h, p) == \E copy \in Copies : h = locate_file_metadata(p, copy)

(* An answer that leaves the kind of every entry as it is.                 *)
Keeps(d, e) ==
    /\ DType(e)
    /\ \A p \in Paths : \/ e[p].mode = d[p].mode /\ e[p].blocks = d[p].blocks
                        \/ d[p].mode \notin Modes /\ e[p].mode \notin Modes

(* One that creates p, that removes it, and one of a rename.               *)
CreatesIn(d, e, p) ==
    DType(e) /\ \A q \in Paths : e[q] = d[q] \/ (q = p /\ d[q].mode \notin Modes)
RemovesIn(d, e, p, rm) ==
    /\ DType(e)
    /\ \A q \in Paths : e[q] = d[q] \/ (q = p /\ e[q].mode \notin Modes /\ (d[q].mode = "dir" => rm))
KeepsModes(d, e) == DType(e) /\ \A q \in Paths : e[q].mode = d[q].mode

LEMMA EntryFields ==
    /\ DOMAIN NoEntry = EFields /\ NoEntry.mode = "absent"
    /\ DOMAIN Broken = EFields /\ Broken.mode = "broken"
    /\ \A mode, id : DOMAIN NewEntry(mode, id) = EFields /\ NewEntry(mode, id).mode = mode
    /\ "absent" \notin Modes /\ "broken" \notin Modes /\ "dir" \in Modes
  <1>1. DOMAIN NoEntry = EFields /\ NoEntry.mode = "absent"
    BY DEF NoEntry, EFields
  <1>2. "mode" \in EFields /\ "id" \in EFields
    BY DEF EFields
  <1>3. DOMAIN Broken = EFields /\ Broken.mode = "broken"
    BY <1>1, <1>2, Zenon DEF Broken
  <1>4. \A mode, id : DOMAIN NewEntry(mode, id) = EFields /\ NewEntry(mode, id).mode = mode
    BY <1>1, <1>2, "mode" # "id" DEF NewEntry
  <1>5. QED  BY <1>1, <1>3, <1>4 DEF Modes

(* An entry that cannot be read has no mode.                               *)
LEMMA Unreadable ==
    ASSUME NEW d, NEW p, get_err(d, p) # "0"
    PROVE  d[p].mode \notin Modes
  <1>1. d[p] = NoEntry \/ d[p] = Broken
    BY DEF get_err
  <1>2. QED  BY <1>1, EntryFields, Zenon

LEMMA CreateAnswer ==
    ASSUME NEW d, DType(d), NEW p, NEW mode, NEW id
    PROVE  CreatesIn(d, rpc_srv_create(d, p, mode, id).db, p)
  <1> DEFINE e == rpc_srv_create(d, p, mode, id).db
             n == [d EXCEPT ![p] = NewEntry(mode, id)]
  <1>1. e = d \/ (e = n /\ d[p].mode \notin Modes)
    <2>1. CASE get_err(d, p) = "0"
      BY <2>1 DEF rpc_srv_create, Answer
    <2>2. CASE get_err(d, p) = "ENOENT"
      <3>1. e = n
        BY <2>2 DEF rpc_srv_create, Answer
      <3>2. get_err(d, p) # "0"
        BY <2>2
      <3>3. QED  BY <3>1, <3>2, Unreadable, Zenon
    <2>3. CASE get_err(d, p) # "0" /\ get_err(d, p) # "ENOENT"
      BY <2>3 DEF rpc_srv_create, Answer
    <2>4. QED  BY <2>1, <2>2, <2>3, Zenon
  <1>2. DType(n) /\ \A q \in Paths : q # p => n[q] = d[q]
    BY EntryFields, Zenon DEF DType
  <1> HIDE DEF e, n
  <1>3. QED  BY <1>1, <1>2, Zenon DEF CreatesIn, e

LEMMA RemoveAnswer ==
    ASSUME NEW d, DType(d), NEW p, NEW rm
    PROVE  RemovesIn(d, rpc_srv_remove_metadata(d, p, rm).db, p, rm)
  <1> DEFINE e == rpc_srv_remove_metadata(d, p, rm).db
             n == [d EXCEPT ![p] = NoEntry]
  <1>1. e = d \/ (e = n /\ (d[p].mode = "dir" => rm))
    BY DEF rpc_srv_remove_metadata, Answer
  <1>2. DType(n) /\ \A q \in Paths : (q # p => n[q] = d[q]) /\ (q = p => n[q] = NoEntry)
    BY EntryFields, Zenon DEF DType
  <1> HIDE DEF e, n
  <1>3. NoEntry.mode \notin Modes
    BY EntryFields, Zenon
  <1>4. RemovesIn(d, e, p, rm)
    BY <1>1, <1>2, <1>3, Zenon DEF RemovesIn
  <1>5. QED  BY <1>4, Zenon DEF e

(* Size updates, and the updates a rename makes.                           *)
LEMMA UpdateAnswers ==
    ASSUME NEW d, DType(d), NEW p, NEW n
    PROVE  /\ Keeps(d, rpc_srv_decr_size(d, p, n).db)
           /\ Keeps(d, rpc_srv_update_metadentry_size(d, p, n).db)
           /\ Keeps(d, rpc_srv_mk_symlink(d, p, n).db)
           /\ \A b : KeepsModes(d, rpc_srv_update_metadentry(d, p, b, n).db)
  <1>1. Keeps(d, d)
    BY Zenon DEF Keeps
  <1>2. {"mode", "id", "size", "blocks", "target", "rename"} = EFields
    BY DEF EFields
  <1>3. ASSUME NEW x, p \in Paths => /\ DOMAIN x = EFields
                                     /\ \/ x.mode = d[p].mode /\ x.blocks = d[p].blocks
                                        \/ d[p].mode \notin Modes /\ x.mode \notin Modes
        PROVE  Keeps(d, [d EXCEPT ![p] = x])
    BY <1>3, Zenon DEF Keeps, DType
  <1>4. ASSUME NEW x, p \in Paths PROVE
          LET s == [d[p] EXCEPT !.size = x] IN DOMAIN s = EFields /\ s.mode = d[p].mode /\ s.blocks = d[p].blocks
    BY <1>2, <1>4, Zenon DEF DType
  <1>5. get_err(d, p) # "0" => d[p].mode \notin Modes
    BY Unreadable, Zenon
  <1>6. Keeps(d, rpc_srv_decr_size(d, p, n).db)
    <2> DEFINE x == IF get_err(d, p) = "0" THEN [d[p] EXCEPT !.size = n] ELSE Broken
    <2>1. rpc_srv_decr_size(d, p, n).db = [d EXCEPT ![p] = x]
      BY Zenon DEF rpc_srv_decr_size, Answer
    <2>2. p \in Paths => /\ DOMAIN x = EFields
                         /\ \/ x.mode = d[p].mode /\ x.blocks = d[p].blocks
                            \/ d[p].mode \notin Modes /\ x.mode \notin Modes
      BY <1>4, <1>5, EntryFields, Zenon
    <2> HIDE DEF x
    <2>3. QED  BY <1>3, <2>1, <2>2, Zenon
  <1>7. Keeps(d, rpc_srv_update_metadentry_size(d, p, n).db)
    <2> DEFINE x == IF get_err(d, p) # "0" THEN Broken
                    ELSE IF n > d[p].size THEN [d[p] EXCEPT !.size = n] ELSE d[p]
    <2>1. rpc_srv_update_metadentry_size(d, p, n).db = [d EXCEPT ![p] = x]
      BY Zenon DEF rpc_srv_update_metadentry_size, Answer
    <2>2. p \in Paths => /\ DOMAIN x = EFields
                         /\ \/ x.mode = d[p].mode /\ x.blocks = d[p].blocks
                            \/ d[p].mode \notin Modes /\ x.mode \notin Modes
      BY <1>4, <1>5, EntryFields, Zenon DEF DType
    <2> HIDE DEF x
    <2>3. QED  BY <1>3, <2>1, <2>2, Zenon
  <1>8. Keeps(d, rpc_srv_mk_symlink(d, p, n).db)
    <2> DEFINE e == rpc_srv_mk_symlink(d, p, n).db
    <2>1. \/ e = d \/ e = [d EXCEPT ![p].rename = n] \/ e = [d EXCEPT ![p].target = n]
      BY Zenon DEF rpc_srv_mk_symlink, Answer
    <2>2. ASSUME p \in Paths PROVE
            /\ LET s == [d[p] EXCEPT !.rename = n] IN DOMAIN s = EFields /\ s.mode = d[p].mode /\ s.blocks = d[p].blocks
            /\ LET s == [d[p] EXCEPT !.target = n] IN DOMAIN s = EFields /\ s.mode = d[p].mode /\ s.blocks = d[p].blocks
      BY <1>2, <2>2, Zenon DEF DType
    <2>3. Keeps(d, [d EXCEPT ![p] = [d[p] EXCEPT !.rename = n]]) /\ Keeps(d, [d EXCEPT ![p] = [d[p] EXCEPT !.target = n]])
      BY <1>3, <2>2, Zenon
    <2>4. QED  BY <1>1, <2>1, <2>3, Zenon
  <1>9. ASSUME NEW b PROVE KeepsModes(d, rpc_srv_update_metadentry(d, p, b, n).db)
    <2> DEFINE e == rpc_srv_update_metadentry(d, p, b, n).db
               x == [d EXCEPT ![p].blocks = b, ![p].size = IF n = 0 THEN @ ELSE n]
    <2>1. e = d \/ e = x
      BY Zenon DEF rpc_srv_update_metadentry, Answer
    <2>2. DOMAIN x = Paths /\ \A q \in Paths : DOMAIN x[q] = EFields /\ x[q].mode = d[q].mode
      BY <1>2 DEF DType
    <2> HIDE DEF e, x
    <2>3. QED  BY <2>1, <2>2, Zenon DEF DType, KeepsModes, e
  <1>10. QED  BY <1>6, <1>7, <1>8, <1>9, Zenon

(* A step of a call leaves the entries as they are, but for the one it     *)
(* creates, removes or renames.                                            *)
Alters(c) ==
    /\ Typed'
    /\ \A g \in Hosts, q \in Paths :
          /\ db'[g][q].mode \in Modes => db[g][q].mode \in Modes \/ Held(g, q)
          /\ cl[c].op.kind # "rename" /\ Live(g, q)' => Live(g, q) \/ (q = cl[c].op.path /\ cl[c].pc = "create")
          /\ IsDir(g, q) => IsDir(g, q)' \/ (cl[c].pc = "rm" /\ RmDir(cl[c]) /\ q = cl[c].cur)
          /\ cl[c].pc = "dirents" => db'[g][q] = db[g][q]

(* The store of one daemon after an RPC.                                   *)
Put(h, e) == \/ UNCHANGED db
             \/ db' = [db EXCEPT ![h] = e]

LEMMA PutAnswer ==
    ASSUME Typed, NEW h, NEW e, DType(e) \/ h \notin Hosts, Put(h, e)
    PROVE  Typed' /\ \A g \in Hosts : db'[g] = db[g] \/ (g = h /\ db'[g] = e)
  BY Zenon DEF Typed, Put

LEMMA KeepsAlters ==
    ASSUME Typed, NEW c, NEW h, NEW e, h \in Hosts => Keeps(db[h], e), Put(h, e),
           cl[c].pc # "dirents"
    PROVE  Alters(c)
  <1>1. Typed' /\ \A g \in Hosts : db'[g] = db[g] \/ (g = h /\ db'[g] = e)
    BY PutAnswer, Zenon DEF Keeps
  <1>2. \A g \in Hosts, q \in Paths :
           \/ db'[g][q].mode = db[g][q].mode /\ db'[g][q].blocks = db[g][q].blocks
           \/ db[g][q].mode \notin Modes /\ db'[g][q].mode \notin Modes
    BY <1>1, Zenon DEF Keeps
  <1>3. "dir" \in Modes
    BY EntryFields, Zenon
  <1>4. QED  BY <1>1, <1>2, <1>3, Zenon DEF Alters, Live, IsDir

LEMMA SameAlters ==
    ASSUME Typed, NEW c, NEW h, UNCHANGED db \/ db' = [db EXCEPT ![h] = db[h]]
    PROVE  Alters(c)
  <1>1. Typed' /\ \A g \in Hosts : db'[g] = db[g]
    BY Zenon DEF Typed
  <1>2. QED  BY <1>1, Zenon DEF Alters, Live, IsDir

LEMMA UpdateAlters ==
    ASSUME Typed, NEW c \in Clients
    PROVE  /\ forward_decr_size(c) => Alters(c)
           /\ forward_update_metadentry_size(c) => Alters(c)
           /\ forward_rename_link(c) => Alters(c)
           /\ forward_rename_back(c) => Alters(c)
  <1>1. ASSUME forward_decr_size(c) PROVE Alters(c)
    <2> DEFINE h == locate_file_metadata(cl[c].cur, cl[c].copy)
               e == rpc_srv_decr_size(db[h], cl[c].cur, 0).db
    <2>1. Put(h, e) /\ cl[c].pc = "decr"
      BY <1>1, Zenon DEF forward_decr_size, Rpc, Put, At
    <2>2. h \in Hosts => Keeps(db[h], e)
      BY UpdateAnswers, Zenon DEF Typed
    <2>3. cl[c].pc # "dirents"
      BY <2>1
    <2>4. QED  BY <2>1, <2>2, <2>3, KeepsAlters, Zenon
  <1>2. ASSUME forward_update_metadentry_size(c) PROVE Alters(c)
    <2> DEFINE h == locate_file_metadata(cl[c].cur, cl[c].copy)
               e == rpc_srv_update_metadentry_size(db[h], cl[c].cur, WriteSize(cl[c].op)).db
    <2>1. Put(h, e) /\ cl[c].pc = "size"
      BY <1>2, Zenon DEF forward_update_metadentry_size, Put, At
    <2>2. h \in Hosts => Keeps(db[h], e)
      BY UpdateAnswers, Zenon DEF Typed
    <2>3. cl[c].pc # "dirents"
      BY <2>1
    <2>4. QED  BY <2>1, <2>2, <2>3, KeepsAlters, Zenon
  <1>3. ASSUME forward_rename_link(c) PROVE Alters(c)
    <2> DEFINE h == locate_file_metadata(cl[c].op.new, 0)
               e == rpc_srv_mk_symlink(db[h], cl[c].op.new, cl[c].op.path).db
    <2>1. Put(h, e) /\ cl[c].pc = "rename_link"
      BY <1>3, Zenon DEF forward_rename_link, Rpc, Put, At
    <2>2. h \in Hosts => Keeps(db[h], e)
      BY UpdateAnswers, Zenon DEF Typed
    <2>3. cl[c].pc # "dirents"
      BY <2>1
    <2>4. QED  BY <2>1, <2>2, <2>3, KeepsAlters, Zenon
  <1>4. ASSUME forward_rename_back(c) PROVE Alters(c)
    <2> DEFINE h == locate_file_metadata(cl[c].op.path, 0)
               e == rpc_srv_mk_symlink(db[h], cl[c].op.path, cl[c].op.new).db
    <2>1. Put(h, e) /\ cl[c].pc = "rename_back"
      BY <1>4, Zenon DEF forward_rename_back, Rpc, Put, At
    <2>2. h \in Hosts => Keeps(db[h], e)
      BY UpdateAnswers, Zenon DEF Typed
    <2>3. cl[c].pc # "dirents"
      BY <2>1
    <2>4. QED  BY <2>1, <2>2, <2>3, KeepsAlters, Zenon
  <1>5. QED  BY <1>1, <1>2, <1>3, <1>4, Zenon

(* gkfs_rename changes blocks, and kinds of calls other than it do not.    *)
LEMMA RenameAlters ==
    ASSUME Setting, Typed, NEW c \in Clients, Flow(cl[c])
    PROVE  /\ forward_update_metadentry(c) => Alters(c)
           /\ forward_rename_hide(c) => Alters(c)
           /\ forward_rename_create(c) => Alters(c)
  <1>1. ASSUME NEW h, NEW e, Put(h, e), cl[c].pc \in RenameLabels, h \in Hosts => DType(e),
               h \in Hosts => \A q \in Paths : \/ e[q].mode = db[h][q].mode
                                               \/ db[h][q].mode \notin Modes /\ Held(h, q)
        PROVE  Alters(c)
    <2>1. cl[c].op.kind = "rename" /\ cl[c].pc # "dirents"
      BY <1>1, KindOf DEF RenameLabels
    <2>2. Typed' /\ \A g \in Hosts : db'[g] = db[g] \/ (g = h /\ db'[g] = e)
      BY <1>1, PutAnswer, Zenon
    <2>3. \A g \in Hosts, q \in Paths : \/ db'[g][q].mode = db[g][q].mode
                                        \/ db[g][q].mode \notin Modes /\ Held(g, q)
      BY <1>1, <2>2, Zenon
    <2>4. "dir" \in Modes
      BY EntryFields, Zenon
    <2>5. QED  BY <2>1, <2>2, <2>3, <2>4, Zenon DEF Alters, IsDir
  <1>2. {"undo", "rename_hide", "rename_create"} \subseteq RenameLabels
    BY DEF RenameLabels
  <1>3. ASSUME forward_update_metadentry(c) PROVE Alters(c)
    <2> DEFINE h == locate_file_metadata(cl[c].op.new, 0)
               e == rpc_srv_update_metadentry(db[h], cl[c].op.new, 0, 0).db
    <2>1. Put(h, e) /\ cl[c].pc \in RenameLabels
      BY <1>2, <1>3, Zenon DEF forward_update_metadentry, Rpc, Put, At
    <2>2. h \in Hosts => KeepsModes(db[h], e)
      BY UpdateAnswers, Zenon DEF Typed
    <2> HIDE DEF h, e
    <2>3. QED  BY <1>1, <2>1, <2>2, Zenon DEF KeepsModes
  <1>4. ASSUME forward_rename_hide(c) PROVE Alters(c)
    <2> DEFINE h == locate_file_metadata(cl[c].op.path, 0)
               e == rpc_srv_update_metadentry(db[h], cl[c].op.path, -1, cl[c].old.size).db
    <2>1. Put(h, e) /\ cl[c].pc \in RenameLabels
      BY <1>2, <1>4, Zenon DEF forward_rename_hide, Rpc, Put, At
    <2>2. h \in Hosts => KeepsModes(db[h], e)
      BY UpdateAnswers, Zenon DEF Typed
    <2> HIDE DEF h, e
    <2>3. QED  BY <1>1, <2>1, <2>2, Zenon DEF KeepsModes
  <1>5. ASSUME forward_rename_create(c) PROVE Alters(c)
    <2> DEFINE h == locate_file_metadata(cl[c].op.new, 0)
               e == rpc_srv_create(db[h], cl[c].op.new, cl[c].old.mode, cl[c].id).db
    <2>1. Put(h, e) /\ cl[c].pc \in RenameLabels
      BY <1>2, <1>5, Zenon DEF forward_rename_create, Rpc, Put, At
    <2>2. h \in Hosts => CreatesIn(db[h], e, cl[c].op.new)
      BY CreateAnswer, Zenon DEF Typed
    <2>3. 0 \in Copies
      BY DEF Setting, Copies
    <2>4. Held(h, cl[c].op.new)
      BY <2>3, Zenon DEF Held
    <2> HIDE DEF h, e
    <2>5. QED  BY <1>1, <2>1, <2>2, <2>4, Zenon DEF CreatesIn
  <1>6. QED  BY <1>3, <1>4, <1>5, Zenon

LEMMA CreateAlters ==
    ASSUME Typed, NEW c \in Clients, CType(cl[c]), forward_create(c)
    PROVE  Alters(c)
  <1> DEFINE p == cl[c].op.path
             h == locate_file_metadata(p, cl[c].copy)
             e == rpc_srv_create(db[h], p, CreateMode(cl[c].op), cl[c].id).db
  <1>1. Put(h, e) /\ cl[c].pc = "create"
    BY Zenon DEF forward_create, Rpc, Put, At
  <1>2. h \in Hosts => CreatesIn(db[h], e, p)
    BY CreateAnswer, Zenon DEF Typed
  <1>3. Held(h, p)
    BY Zenon DEF Held, CType
  <1> HIDE DEF h, e
  <1>4. Typed' /\ \A g \in Hosts : db'[g] = db[g] \/ (g = h /\ db'[g] = e)
    BY <1>1, <1>2, PutAnswer, Zenon DEF CreatesIn
  <1>5. \A g \in Hosts, q \in Paths : \/ db'[g][q] = db[g][q]
                                      \/ g = h /\ q = p /\ db[g][q].mode \notin Modes
    BY <1>2, <1>4, Zenon DEF CreatesIn
  <1>6. "dir" \in Modes /\ cl[c].pc # "dirents"
    BY <1>1, EntryFields
  <1>7. QED  BY <1>1, <1>3, <1>4, <1>5, <1>6, Zenon DEF Alters, Live, IsDir

LEMMA RemoveAlters ==
    ASSUME Typed, NEW c \in Clients, forward_remove(c)
    PROVE  Alters(c)
  <1> DEFINE p == cl[c].cur
             h == locate_file_metadata(p, cl[c].copy)
             e == rpc_srv_remove_metadata(db[h], p, RmDir(cl[c])).db
  <1>1. Put(h, e) /\ cl[c].pc = "rm"
    BY Zenon DEF forward_remove, Put, At
  <1>2. h \in Hosts => RemovesIn(db[h], e, p, RmDir(cl[c]))
    BY RemoveAnswer, Zenon DEF Typed
  <1> HIDE DEF h, e
  <1>3. Typed' /\ \A g \in Hosts : db'[g] = db[g] \/ (g = h /\ db'[g] = e)
    BY <1>1, <1>2, PutAnswer, Zenon DEF RemovesIn
  <1>4. \A g \in Hosts, q \in Paths : \/ db'[g][q] = db[g][q]
                                      \/ q = p /\ db'[g][q].mode \notin Modes /\ (db[g][q].mode = "dir" => RmDir(cl[c]))
    BY <1>2, <1>3, Zenon DEF RemovesIn
  <1>5. cl[c].pc # "dirents"
    BY <1>1
  <1>6. QED  BY <1>1, <1>3, <1>4, <1>5, Zenon DEF Alters, Live, IsDir

LEMMA EntriesKept ==
    ASSUME Setting, Typed, NEW c \in Clients, CType(cl[c]), Flow(cl[c]), Step(c)
    PROVE  Alters(c)
  <1>1. ASSUME forward_stat(c) \/ forward_get_dirents(c) PROVE Alters(c)
    <2>1. \E h : UNCHANGED db \/ db' = [db EXCEPT ![h] = db[h]]
      BY <1>1, Zenon DEF forward_stat, forward_get_dirents, Rpc
    <2>2. QED  BY <2>1, SameAlters, Zenon
  <1>2. ASSUME UNCHANGED db PROVE Alters(c)
    BY <1>2, SameAlters, Zenon
  <1>3. \A r : Local(c, r) => UNCHANGED db
    BY Zenon DEF Local
  <1>4. check_parent_dir(c) \/ gkfs_create_done(c) \/ open_existing(c) \/ gkfs_open(c) => UNCHANGED db
    BY <1>3, Zenon DEF check_parent_dir, gkfs_create_done, open_existing, gkfs_open
  <1>5. open_target(c) \/ gkfs_opendir(c) \/ Listed(c) \/ gkfs_rmdir(c) \/ Removed(c) => UNCHANGED db
    BY <1>3, Zenon DEF open_target, gkfs_opendir, Listed, gkfs_rmdir, Removed
  <1>6. gkfs_stat(c) \/ gkfs_statx(c) \/ gkfs_access(c) => UNCHANGED db
    BY <1>3, Zenon DEF gkfs_stat, gkfs_statx, gkfs_access, LookUp
  <1>7. gkfs_remove(c) \/ remove_follow(c) \/ remove_name(c) => UNCHANGED db
    BY <1>3, Zenon DEF gkfs_remove, remove_follow, remove_name
  <1>8. gkfs_rename(c) \/ rename_to(c) => UNCHANGED db
    BY <1>3, Zenon DEF gkfs_rename, rename_to
  <1>9. /\ forward_truncate(c) => UNCHANGED db
        /\ forward_remove_data(c) => UNCHANGED db
        /\ forward_write(c) => UNCHANGED db
    <2>1. forward_truncate(c) => UNCHANGED db
      BY Zenon DEF forward_truncate
    <2>2. forward_remove_data(c) => UNCHANGED db
      BY Zenon DEF forward_remove_data
    <2>3. forward_write(c) => UNCHANGED db
      BY Zenon DEF forward_write
    <2>4. QED  BY <2>1, <2>2, <2>3, Zenon
  <1>10. QED  BY <1>1, <1>2, <1>4, <1>5, <1>6, <1>7, <1>8, <1>9, UpdateAlters, RenameAlters, CreateAlters,
                 RemoveAlters, Zenon DEF Step

-----------------------------------------------------------------------------
(* The first record of a call *)

LEMMA Begins ==
    ASSUME Setting, NEW x, DOMAIN x = RFields, x.op \in Calls
    PROVE  LET s == Begin(x) IN
           /\ CType(s) /\ Flow(s) /\ s.op = x.op
           /\ s.pc \notin {"idle", "parent", "dirents", "listed", "done"}
           /\ s.pc = "stat" /\ s.k = "parent" => s.cur = Parent(x.op.path)
           /\ CheckParents = TRUE => s.pc # "create" /\ (x.op.kind = "rmdir" => s.pc = "stat" /\ s.cur = x.op.path)
  <1> DEFINE p == x.op.path
             kind == x.op.kind
             s == Begin(x)
             Asked(t, q, k) == /\ DOMAIN t = RFields /\ t.op = x.op /\ t.copy = 0
                               /\ t.cur = q /\ t.pc = "stat" /\ t.k = k
  <1>1. kind \in Kinds /\ p \in Paths /\ 0 \in Copies
    BY DEF Setting, Copies
  <1>2. \A q, k : Asked(get_metadata(x, q, k), q, k)
    BY Zenon DEF RFields, get_metadata
  <1>3. LET t == create_all(x) IN DOMAIN t = RFields /\ t.op = x.op /\ t.copy = 0 /\ t.pc = "create"
    BY Zenon DEF RFields, create_all
  <1>4. LET t == Remove(x, p, "removed") IN
          DOMAIN t = RFields /\ t.op = x.op /\ t.copy = 0 /\ t.cur = p /\ t.pc = "rm" /\ t.k = "removed"
    BY Zenon DEF RFields, Remove
  <1>5. LET t == [x EXCEPT !.pc = "size", !.cur = p, !.copy = 0] IN
          DOMAIN t = RFields /\ t.op = x.op /\ t.copy = 0 /\ t.cur = p /\ t.pc = "size"
    BY Zenon DEF RFields
  <1>6. CASE kind = "mkdir" \/ (kind = "open" /\ "creat" \in x.op.flags)
    <2>1. s = gkfs_create(x)
      BY <1>6 DEF Begin
    <2>2. s = IF CheckParents THEN get_metadata(x, Parent(p), "parent") ELSE create_all(x)
      BY <2>1, Zenon DEF gkfs_create
    <2> HIDE DEF s
    <2>3. /\ DOMAIN s = RFields /\ s.op = x.op /\ s.copy = 0
          /\ \/ CheckParents /\ s.pc = "stat" /\ s.k = "parent" /\ s.cur = Parent(p)
             \/ ~CheckParents /\ s.pc = "create"
      <3>1. CASE CheckParents
        <4>1. Asked(s, Parent(p), "parent")
          <5> HIDE DEF Asked
          <5>1. QED  BY <1>2, <2>2, <3>1, Zenon
        <4>2. QED  BY <3>1, <4>1, Zenon
      <3>2. CASE ~CheckParents
        BY <1>3, <2>2, <3>2, Zenon
      <3>3. QED  BY <3>1, <3>2, Zenon
    <2>4. Flow(s)
      BY <1>6, <2>3 DEF Flow, Within, Creates
    <2>5. s.pc \notin {"idle", "parent", "dirents", "listed", "done"} /\ kind # "rmdir"
      BY <1>6, <2>3
    <2>6. CheckParents = TRUE => s.pc # "create"
      BY <2>3
    <2>7. QED  BY <1>1, <2>3, <2>4, <2>5, <2>6 DEF CType, s
  <1>7. CASE kind = "rmdir"
    <2>1. s = IF CheckParents THEN get_metadata(x, p, "rmdir") ELSE Remove(x, p, "removed")
      BY <1>7 DEF Begin
    <2> HIDE DEF s
    <2>2. /\ DOMAIN s = RFields /\ s.op = x.op /\ s.copy = 0 /\ s.cur = p
          /\ \/ CheckParents /\ s.pc = "stat" /\ s.k = "rmdir"
             \/ ~CheckParents /\ s.pc = "rm" /\ s.k = "removed"
      <3>1. CASE CheckParents
        <4>1. Asked(s, p, "rmdir")
          <5> HIDE DEF Asked
          <5>1. QED  BY <1>2, <2>1, <3>1, Zenon
        <4>2. QED  BY <3>1, <4>1, Zenon
      <3>2. CASE ~CheckParents
        BY <1>4, <2>1, <3>2, Zenon
      <3>3. QED  BY <3>1, <3>2, Zenon
    <2>3. Flow(s)
      BY <1>7, <2>2 DEF Flow, Within
    <2>4. s.pc \notin {"idle", "parent", "dirents", "listed", "done"}
      BY <2>2
    <2>5. /\ CheckParents = TRUE => s.pc # "create" /\ s.pc = "stat" /\ s.cur = x.op.path
          /\ ~(s.pc = "stat" /\ s.k = "parent")
      BY <2>2
    <2>6. QED  BY <1>1, <2>2, <2>3, <2>4, <2>5 DEF CType, s
  <1>8. CASE kind = "write"
    <2>1. s = [x EXCEPT !.pc = "size", !.cur = p, !.copy = 0]
      BY <1>8 DEF Begin
    <2>2. DOMAIN s = RFields /\ s.op = x.op /\ s.copy = 0 /\ s.cur = p /\ s.pc = "size"
      BY <1>5, <2>1, Zenon
    <2> HIDE DEF s
    <2>3. Flow(s)
      BY <1>8, <2>2 DEF Flow, Within
    <2>4. s.pc \notin {"idle", "stat", "parent", "create", "dirents", "listed", "done"} /\ kind # "rmdir"
      BY <1>8, <2>2
    <2>5. QED  BY <1>1, <2>2, <2>3, <2>4 DEF CType, s
  <1>9. CASE \/ kind = "open" /\ "creat" \notin x.op.flags
             \/ kind \in {"stat", "statx", "access", "remove", "rename"}
    <2>1. PICK k : /\ s = get_metadata(x, p, k)
                   /\ \/ kind = "open" /\ k = "open"
                      \/ kind \in {"stat", "statx", "access"} /\ k \in LookLabels
                      \/ kind = "remove" /\ k = "remove"
                      \/ kind = "rename" /\ k = "rename"
      BY <1>9 DEF Begin, LookLabels
    <2> HIDE DEF s, kind
    <2>6. Asked(s, p, k)
      <3> HIDE DEF Asked
      <3>1. QED  BY <1>2, <2>1, Zenon
    <2>2. /\ DOMAIN s = RFields /\ s.op = x.op /\ s.copy = 0 /\ s.cur = p /\ s.pc = "stat"
          /\ \/ kind = "open" /\ s.k = "open"
             \/ kind \in {"stat", "statx", "access"} /\ s.k \in LookLabels
             \/ kind = "remove" /\ s.k = "remove"
             \/ kind = "rename" /\ s.k = "rename"
      BY <2>1, <2>6, Zenon
    <2>3. Flow(s)
      BY <2>2 DEF Flow, Within, kind
    <2>4. s.pc \notin {"idle", "parent", "create", "dirents", "listed", "done"} /\ s.k # "parent" /\ kind # "rmdir"
      BY <2>2 DEF LookLabels
    <2>5. QED  BY <1>1, <2>2, <2>3, <2>4 DEF CType, s, kind
  <1>10. QED  BY <1>1, <1>6, <1>7, <1>8, <1>9 DEF Kinds

(* Where a call starts.                                                    *)
Started(s, op) ==
    /\ CType(s) /\ Flow(s) /\ s.op = op
    /\ s.pc \notin {"idle", "parent", "dirents", "listed", "done"}
    /\ s.pc = "stat" /\ s.k = "parent" => s.cur = Parent(op.path)
    /\ CheckParents = TRUE => s.pc # "create" /\ (op.kind = "rmdir" => s.pc = "stat" /\ s.cur = op.path)

LEMMA Invokes ==
    ASSUME Setting, DOMAIN cl = Clients, NEW c \in Clients, NEW op \in Calls, Invoke(c, op)
    PROVE  /\ DOMAIN cl' = Clients /\ \A d \in Clients : d # c => cl'[d] = cl[d]
           /\ UNCHANGED db /\ cl[c].pc = "idle" /\ Started(cl'[c], op)
  <1> DEFINE x == [Idle EXCEPT !.op = op, !.id = ncalls + 1, !.fds = cl[c].fds]
  <1>1. DOMAIN x = RFields /\ x.op = op
    <2>1. DOMAIN Idle = RFields
      BY DEF Idle, RFields
    <2>2. "op" \in RFields /\ "id" # "op" /\ "fds" # "op"
      BY DEF RFields
    <2>3. QED  BY <2>1, <2>2, Zenon
  <1>2. cl' = [cl EXCEPT ![c] = Begin(x)] /\ UNCHANGED db /\ cl[c].pc = "idle"
    BY Zenon DEF Invoke, Become, At
  <1> HIDE DEF x
  <1>3. cl'[c] = Begin(x)
    BY <1>2, Zenon
  <1>4. QED  BY <1>1, <1>2, <1>3, Begins, Zenon DEF Started

LEMMA ReturnsIdle ==
    ASSUME Setting, DOMAIN cl = Clients, NEW c \in Clients, Return(c)
    PROVE  LET s == cl'[c] IN
           /\ DOMAIN cl' = Clients /\ \A d \in Clients : d # c => cl'[d] = cl[d]
           /\ UNCHANGED db /\ s.pc = "idle" /\ CType(s) /\ s.op = NoCall
  <1> DEFINE x == [Idle EXCEPT !.fds = cl[c].fds]
  <1>1. CType(Idle) /\ Idle.op = NoCall /\ Idle.pc = "idle"
    BY DEF Idle, RFields, CType, NoCall, Call, Copies, Setting
  <1>2. "op" \in RFields /\ "pc" \in RFields /\ "copy" \in RFields /\ "op" # "fds" /\ "pc" # "fds" /\ "copy" # "fds"
    BY DEF RFields
  <1>3. CType(x) /\ x.op = NoCall /\ x.pc = "idle"
    BY <1>1, <1>2, Zenon DEF CType
  <1>4. cl' = [cl EXCEPT ![c] = x] /\ UNCHANGED db
    BY Zenon DEF Return, Become
  <1> HIDE DEF x
  <1>5. cl'[c] = x
    BY <1>4, Zenon
  <1>6. QED  BY <1>3, <1>4, <1>5, Zenon

-----------------------------------------------------------------------------
(* The tree: one client at a time, parents checked, no renames *)

HasDir(p) == \E g \in Hosts : IsDir(g, p)

(* What a call that creates an entry, or removes a directory, knows.       *)
Stage(r) ==
    /\ r.op.kind # "rename"
    /\ r.pc = "stat" /\ r.k = "parent" => r.cur = Parent(r.op.path)
    /\ r.pc = "parent" /\ r.md.mode = "dir" => HasDir(Parent(r.op.path))
    /\ r.pc = "create" => HasDir(Parent(r.op.path))
    /\ r.op.kind = "rmdir" =>
          /\ r.cur = r.op.path
          /\ r.pc = "listed" => r.todo = {}
          /\ r.pc \in {"dirents", "listed"} /\ r.err = "0" =>
                \A h \in Hosts : h \in r.todo \/ get_dirents(db[h], r.cur) \subseteq r.got
          /\ r.pc = "rm" => \A h \in Hosts : get_dirents(db[h], r.op.path) = {}

TreeInv ==
    /\ DOMAIN cl = Clients /\ Typed /\ StrictHierarchy
    /\ \A c \in Clients : Control(cl[c]) /\ Stage(cl[c])

(* A directory goes only with rmdir, an entry comes only with create.      *)
LEMMA TreeFrame ==
    ASSUME NEW c \in Clients, Alters(c), cl[c].op.kind # "rename"
    PROVE  /\ cl[c].pc # "rm" => \A q \in Paths : HasDir(q) => HasDir(q)'
           /\ cl[c].pc # "create" =>
                 \A h \in Hosts : \A q : get_dirents(db[h], q)' \subseteq get_dirents(db[h], q)
           /\ cl[c].pc = "dirents" =>
                 \A h \in Hosts : \A q : get_dirents(db[h], q)' = get_dirents(db[h], q)
  <1>1. cl[c].pc # "rm" => \A q \in Paths : HasDir(q) => HasDir(q)'
    BY Zenon DEF Alters, HasDir
  <1>2. ASSUME cl[c].pc # "create", NEW h \in Hosts, NEW q
        PROVE  get_dirents(db[h], q)' \subseteq get_dirents(db[h], q)
    <2>1. \A p \in Paths : Live(h, p)' => Live(h, p)
      BY <1>2, Zenon DEF Alters
    <2>2. QED  BY <2>1, Zenon DEF get_dirents, Live
  <1>3. ASSUME cl[c].pc = "dirents", NEW h \in Hosts, NEW q
        PROVE  get_dirents(db[h], q)' = get_dirents(db[h], q)
    <2>1. \A p \in Paths : db'[h][p] = db[h][p]
      BY <1>3, Zenon DEF Alters
    <2>2. QED  BY <2>1, Zenon DEF get_dirents
  <1>4. QED  BY <1>1, <1>2, <1>3, Zenon

LEMMA TreeKept ==
    ASSUME Setting, TreeInv, NEW c \in Clients, Alters(c)
    PROVE  StrictHierarchy'
  <1>1. Stage(cl[c])
    BY Zenon DEF TreeInv
  <1>2. SUFFICES ASSUME NEW h \in Hosts, NEW p \in Paths \ {Root}, Live(h, p)'
                 PROVE  HasDir(Parent(p))'
    BY Zenon DEF StrictHierarchy, Live, HasDir, IsDir
  <1>3. Parent(p) \in Paths
    BY Zenon DEF Setting
  <1>4. Live(h, p) \/ (p = cl[c].op.path /\ cl[c].pc = "create")
    BY <1>1, <1>2, Zenon DEF Alters, Stage
  <1>5. HasDir(Parent(p))
    BY <1>1, <1>4, Zenon DEF TreeInv, StrictHierarchy, Live, HasDir, IsDir, Stage
  <1>6. PICK g \in Hosts : IsDir(g, Parent(p))
    BY <1>5, Zenon DEF HasDir
  <1>7. IsDir(g, Parent(p))'
    <2>1. SUFFICES ASSUME cl[c].pc = "rm", RmDir(cl[c]), Parent(p) = cl[c].cur PROVE FALSE
      BY <1>3, <1>6, Zenon DEF Alters
    <2>2. cl[c].op.kind = "rmdir"
      BY <1>1, <2>1, Zenon DEF RmDir, Stage
    <2>3. cl[c].pc # "create"
      BY <2>1
    <2>4. p \in get_dirents(db[h], cl[c].op.path)
      BY <1>1, <1>4, <2>1, <2>2, <2>3, Zenon DEF get_dirents, Live, Stage
    <2>5. QED  BY <1>1, <2>1, <2>2, <2>4, Zenon DEF Stage
  <1>8. QED  BY <1>7, Zenon DEF HasDir

LEMMA Located ==
    ASSUME Setting, NEW p \in Paths, NEW copy \in Copies
    PROVE  locate_file_metadata(p, copy) \in Hosts
  BY DEF Setting, locate_file_metadata, Copies

LEMMA StageKept ==
    ASSUME Setting, NEW c \in Clients, Alters(c),
           NEW r, r = cl[c], Stage(r), CType(r), NEW s, Goes(r, s)
    PROVE  Stage(s)'
  <1>1. Stage(r) /\ CType(r)
    OBVIOUS
  <1>2. s.op = r.op /\ r.op.kind # "rename" /\ r.op.path \in Paths /\ Parent(r.op.path) \in Paths
    BY <1>1, Zenon DEF Goes, Stage, CType, Setting
  <1>3. s.pc = "stat" /\ s.k = "parent" => s.cur = Parent(s.op.path)
    BY <1>1, <1>2, Zenon DEF Goes, Stage
  <1>4. ASSUME s.pc = "parent", s.md.mode = "dir" PROVE HasDir(Parent(s.op.path))'
    <2>1. s.md # NoEntry
      <3>1. "absent" # "dir"
        OBVIOUS
      <3>2. QED  BY <1>4, <3>1, EntryFields, Zenon
    <2>2. /\ r.pc = "stat" /\ r.k = "parent"
          /\ s.md = db[locate_file_metadata(r.cur, r.copy)][r.cur]
      BY <1>4, <2>1, Zenon DEF Goes
    <2>3. r.cur = Parent(r.op.path) /\ r.copy \in Copies
      BY <1>1, <2>2, Zenon DEF Stage, CType
    <2>4. HasDir(Parent(r.op.path))
      BY <1>2, <1>4, <2>2, <2>3, Located, Zenon DEF HasDir, IsDir
    <2>5. r.pc # "rm"
      BY <2>2
    <2>6. QED  BY <1>2, <2>4, <2>5, TreeFrame, Zenon
  <1>5. ASSUME s.pc = "create" PROVE HasDir(Parent(s.op.path))'
    <2>1. r.pc = "create" \/ (r.pc = "parent" /\ r.md.mode = "dir")
      BY <1>5, Zenon DEF Goes
    <2>2. r.pc # "rm"
      BY <2>1
    <2>3. HasDir(Parent(r.op.path))
      BY <1>1, <2>1, Zenon DEF Stage
    <2>4. QED  BY <1>2, <2>2, <2>3, TreeFrame, Zenon
  <1>6. ASSUME s.op.kind = "rmdir" PROVE s.cur = s.op.path
    BY <1>1, <1>2, <1>6, Zenon DEF Goes, Stage
  <1>7. ASSUME s.op.kind = "rmdir", s.pc \in {"dirents", "listed"}
        PROVE  /\ s.pc = "listed" => s.todo = {}
               /\ s.err = "0" => \A h \in Hosts : h \in s.todo \/ get_dirents(db[h], s.cur)' \subseteq s.got
    <2>1. CASE s.pc = "dirents" /\ s.todo = Hosts
      <3>1. s.pc # "listed"
        BY <2>1
      <3>2. QED  BY <2>1, <3>1, Zenon
    <2>2. CASE r.pc = "dirents" /\ Answers(r, s)
      <3>1. PICK g \in r.todo :
               /\ s.todo = r.todo \ {g} /\ s.cur = r.cur /\ (s.pc = "listed" => s.todo = {})
               /\ s.err = "0" => r.err = "0" /\ s.got = r.got \cup get_dirents(db[g], r.cur)
        BY <2>2, Zenon DEF Answers
      <3>2. ASSUME s.err = "0", NEW h \in Hosts, h \notin s.todo
            PROVE  get_dirents(db[h], s.cur)' \subseteq s.got
        <4>1. get_dirents(db[h], s.cur)' = get_dirents(db[h], r.cur)
          <5>1. \A q : get_dirents(db[h], q)' = get_dirents(db[h], q)
            BY <1>2, <2>2, TreeFrame, Zenon
          <5>2. QED  BY <3>1, <5>1, Zenon
        <4>2. h = g \/ h \notin r.todo
          BY <3>1, <3>2
        <4>3. h = g \/ get_dirents(db[h], r.cur) \subseteq r.got
          BY <1>1, <1>2, <1>7, <2>2, <3>1, <3>2, <4>2, Zenon DEF Stage
        <4>4. QED  BY <3>1, <3>2, <4>1, <4>3, Zenon
      <3>3. QED  BY <3>1, <3>2, Zenon
    <2>3. QED  BY <1>7, <2>1, <2>2, Zenon DEF Goes
  <1>8. ASSUME s.op.kind = "rmdir", s.pc = "rm", NEW h \in Hosts
        PROVE  get_dirents(db[h], s.op.path)' = {}
    <2>1. r.pc = "rm" \/ (r.pc = "listed" /\ r.err = "0" /\ r.got = {})
      BY <1>8, Zenon DEF Goes
    <2>2. r.pc # "create"
      BY <2>1
    <2>3. get_dirents(db[h], r.op.path) = {}
      BY <1>1, <1>2, <1>8, <2>1, Zenon DEF Stage
    <2>4. \A q : get_dirents(db[h], q)' \subseteq get_dirents(db[h], q)
      BY <1>2, <2>2, TreeFrame, Zenon
    <2>5. QED  BY <1>2, <2>3, <2>4, Zenon DEF get_dirents
  <1>9. QED  BY <1>2, <1>3, <1>4, <1>5, <1>6, <1>7, <1>8, Zenon DEF Stage

(* A step of a call is one of a client that is in a call.                  *)
LEMMA Busy ==
    ASSUME NEW c \in Clients, Step(c)
    PROVE  cl[c].pc # "idle"
  BY DEF Step, At, forward_stat, check_parent_dir, forward_create, gkfs_create_done, open_existing,
         gkfs_open, open_target, forward_decr_size, forward_truncate, gkfs_opendir, forward_get_dirents,
         Listed, LookUp, gkfs_stat, gkfs_statx, gkfs_access, gkfs_remove, remove_follow, remove_name,
         gkfs_rmdir, forward_remove, forward_remove_data, Removed, gkfs_rename, rename_to,
         forward_update_metadentry, forward_rename_hide, forward_rename_create, forward_rename_link,
         forward_rename_back, forward_update_metadentry_size, forward_write

LEMMA TreeStep ==
    ASSUME Setting, CheckParents = TRUE, \A c, d \in Clients : c = d,
           \A op \in Calls : op.kind # "rename", TreeInv, [Next]_vars
    PROVE  TreeInv'
  <1>1. ASSUME NEW c \in Clients, Typed', StrictHierarchy', DOMAIN cl' = Clients,
               NEW s, cl'[c] = s, Control(s), Stage(s)'
        PROVE  TreeInv'
    <2>1. ASSUME NEW d \in Clients PROVE Control(cl[d])' /\ Stage(cl[d])'
      <3>1. cl'[d] = s
        BY <1>1, Zenon
      <3>2. Control(cl[d])'
        BY <1>1, <3>1, Zenon DEF Control, CType, Flow, Within, Creates
      <3>3. Stage(cl[d])'
        BY <1>1, <3>1, Zenon DEF Stage
      <3>4. QED  BY <3>2, <3>3, Zenon
    <2>2. QED  BY <1>1, <2>1, Zenon DEF TreeInv
  <1>2. ASSUME NEW c \in Clients, NEW op \in Calls, Invoke(c, op) PROVE TreeInv'
    <2>1. PICK s : s = cl'[c]
      OBVIOUS
    <2>2. DOMAIN cl' = Clients /\ UNCHANGED db /\ Started(s, op)
      BY <1>2, <2>1, Invokes, Zenon DEF TreeInv
    <2>3. Typed' /\ StrictHierarchy'
      BY <2>2, Zenon DEF TreeInv, Typed, StrictHierarchy
    <2>4. /\ s.op = op /\ s.op.kind # "rename" /\ s.pc \notin {"parent", "create"}
          /\ s.pc = "stat" /\ s.k = "parent" => s.cur = Parent(op.path)
          /\ op.kind = "rmdir" => s.cur = op.path /\ s.pc \notin {"dirents", "listed", "rm"}
      BY <2>2 DEF Started
    <2>5. Stage(s)'
      BY <2>4, Zenon DEF Stage
    <2>6. QED  BY <1>1, <2>1, <2>2, <2>3, <2>5, Zenon DEF Control, Started
  <1>3. ASSUME NEW c \in Clients, Step(c) PROVE TreeInv'
    <2>1. PICK r : r = cl[c]
      OBVIOUS
    <2>2. PICK s : s = cl'[c]
      OBVIOUS
    <2>3. CType(r) /\ Stage(r) /\ Flow(r)
      <3>1. CType(r) /\ Stage(r) /\ (r.pc = "idle" \/ Flow(r))
        BY <2>1, Zenon DEF TreeInv, Control
      <3>2. r.pc # "idle"
        BY <1>3, <2>1, Busy, Zenon
      <3>3. QED  BY <3>1, <3>2, Zenon
    <2>4. Alters(c)
      BY <1>3, <2>1, <2>3, EntriesKept, Zenon DEF TreeInv
    <2>5. DOMAIN cl' = Clients /\ Goes(r, s)
      BY <1>3, <2>1, <2>2, <2>3, Moves, Zenon DEF TreeInv
    <2>6. Control(s)
      <3>1. s.op = r.op /\ DOMAIN s = RFields /\ s.copy \in Copies /\ Flow(s)
        BY <2>5, Zenon DEF Goes
      <3>2. QED  BY <2>3, <3>1, Zenon DEF Control, CType
    <2>7. Stage(s)'
      BY <2>1, <2>3, <2>4, <2>5, StageKept, Zenon
    <2>8. StrictHierarchy' /\ Typed'
      BY <2>4, TreeKept, Zenon DEF Alters
    <2>9. QED  BY <1>1, <2>2, <2>5, <2>6, <2>7, <2>8, Zenon
  <1>4. ASSUME NEW c \in Clients, Return(c) PROVE TreeInv'
    <2>1. PICK s : s = cl'[c]
      OBVIOUS
    <2>2. DOMAIN cl' = Clients /\ UNCHANGED db /\ s.pc = "idle" /\ CType(s) /\ s.op = NoCall
      BY <1>4, <2>1, ReturnsIdle, Zenon DEF TreeInv
    <2>3. Typed' /\ StrictHierarchy'
      BY <2>2, Zenon DEF TreeInv, Typed, StrictHierarchy
    <2>4. /\ s.op.kind \notin {"rename", "rmdir"}
          /\ s.pc \notin {"stat", "parent", "create"}
      BY <2>2 DEF NoCall, Call
    <2>5. Stage(s)'
      BY <2>4, Zenon DEF Stage
    <2>6. QED  BY <1>1, <2>1, <2>2, <2>3, <2>5, Zenon DEF Control
  <1>5. CASE UNCHANGED vars
    <2>1. UNCHANGED <<db, cl>>
      BY <1>5, Zenon DEF vars
    <2>2. Typed' /\ StrictHierarchy' /\ DOMAIN cl' = Clients
      BY <2>1, Zenon DEF TreeInv, Typed, StrictHierarchy
    <2>3. ASSUME NEW d \in Clients PROVE Control(cl[d])' /\ Stage(cl[d])'
      <3>1. Control(cl[d]) /\ Stage(cl[d])
        BY Zenon DEF TreeInv
      <3>2. Stage(cl[d])'
        BY <2>1, <3>1, Zenon DEF Stage, HasDir, IsDir, get_dirents, Creates
      <3>3. Control(cl[d])'
        BY <2>1, <3>1, Zenon DEF Control, CType, Flow, Within, Creates
      <3>4. QED  BY <3>2, <3>3, Zenon
    <2>4. QED  BY <2>2, <2>3, Zenon DEF TreeInv
  <1>6. QED  BY <1>2, <1>3, <1>4, <1>5, Zenon DEF Next, Progress

LEMMA TreeInit ==
    ASSUME Setting, Init
    PROVE  TreeInv
  <1>1. Typed
    BY EntryFields, Zenon DEF Init, Typed, DType
  <1>2. ASSUME NEW h \in Hosts, NEW p \in Paths \ {Root} PROVE db[h][p].mode \notin Modes
    BY EntryFields, Zenon DEF Init
  <1>3. StrictHierarchy
    BY <1>2, Zenon DEF StrictHierarchy
  <1>4. DOMAIN cl = Clients /\ \A c \in Clients : cl[c] = Idle
    BY Zenon DEF Init
  <1>5. CType(Idle) /\ Idle.pc = "idle" /\ Idle.op.kind = "none"
    BY DEF Idle, RFields, CType, NoCall, Call, Copies, Setting
  <1>6. Control(Idle) /\ Stage(Idle)
    BY <1>5 DEF Control, Stage
  <1>7. QED  BY <1>1, <1>3, <1>4, <1>6, Zenon DEF TreeInv

(* With parents checked, the parent of every entry on every daemon is a    *)
(* directory of some daemon: gkfs_create asks for the parent before it     *)
(* creates, gkfs_rmdir lists the directory on every daemon before it       *)
(* removes.  For any tree of paths, number of daemons and copies, and for  *)
(* any lost requests and answers, when one client works at a time and      *)
(* renames nothing.                                                        *)
THEOREM HierarchyCorrect ==
    ASSUME Setting, CheckParents = TRUE, \A c, d \in Clients : c = d,
           \A op \in Calls : op.kind # "rename"
    PROVE  Spec => []StrictHierarchy
  <1>1. Init => TreeInv
    BY TreeInit, Zenon
  <1>2. TreeInv /\ [Next]_vars => TreeInv'
    BY TreeStep, Zenon
  <1>3. TreeInv => StrictHierarchy
    BY Zenon DEF TreeInv
  <1>4. QED  BY <1>1, <1>2, <1>3, PTL DEF Spec

-----------------------------------------------------------------------------
(* Listings: any number of clients, one copy of every entry *)

(* An entry is on the daemon its path is hashed to.                        *)
Placed == \A h \in Hosts, p \in Paths \ {Root} :
              db[h][p].mode \in Modes => h = locate_file_metadata(p, 0)

(* r has a listing, or a part of one, whose daemons all answered.          *)
Lists(r) == r.op.kind = "open" /\ ~Creates(r)
HasListed(r) ==
    /\ Lists(r)
    /\ \/ r.pc \in {"dirents", "listed"} /\ r.err = "0"
       \/ r.pc = "done" /\ r.ret = 0 /\ r.md.mode = "dir"

(* What it lacks is on daemons that have yet to answer.                    *)
Spanned(r, must, may) ==
    /\ Lists(r) /\ r.pc = "dirents" => r.todo \subseteq Hosts
    /\ Lists(r) /\ r.pc = "listed" => r.todo = {}
    /\ HasListed(r) =>
          /\ \A p \in must : \/ Parent(p) # r.cur \/ p \in r.got
                             \/ r.pc = "dirents" /\ locate_file_metadata(p, 0) \in r.todo
          /\ r.got \subseteq may

ListInv ==
    /\ DOMAIN cl = Clients /\ Typed /\ Placed
    /\ \A c \in Clients : Control(cl[c]) /\ Spanned(cl[c], span[c].must, span[c].may)

LEMMA Spans ==
    ASSUME History, NEW c \in Clients, ~At(c, "idle"), Lists(cl'[c])
    PROVE  /\ span'[c].must = span[c].must \cap Entries'
           /\ span'[c].may = span[c].may \cup Entries'
  <1>1. There(c)' = Entries'
    <2>1. cl'[c].op.kind # "stat" /\ cl'[c].op.kind = "open" /\ ~Creates(cl'[c])
      BY DEF Lists
    <2>2. QED  BY <2>1, Zenon DEF There, Creates
  <1>2. span'[c] = [must |-> span[c].must \cap There(c)', may |-> span[c].may \cup There(c)']
    BY Zenon DEF History
  <1>3. QED  BY <1>1, <1>2

(* A listing goes on while another client makes a step.                    *)
LEMMA SpansWiden ==
    ASSUME NEW r, NEW must, NEW may, Spanned(r, must, may),
           NEW m, NEW n, HasListed(r) => m \subseteq must /\ may \subseteq n
    PROVE  Spanned(r, m, n)
  BY Zenon DEF Spanned

LEMMA OthersSpan ==
    ASSUME History, NEW d \in Clients, cl'[d] = cl[d], Control(cl[d]),
           Spanned(cl[d], span[d].must, span[d].may)
    PROVE  Control(cl[d])' /\ Spanned(cl[d], span[d].must, span[d].may)'
  <1>1. PICK r : r = cl[d]
    OBVIOUS
  <1>2. r = cl'[d]
    BY <1>1, Zenon
  <1>3. PICK m : m = span'[d].must
    OBVIOUS
  <1>4. PICK n : n = span'[d].may
    OBVIOUS
  <1>5. ASSUME HasListed(r) PROVE m \subseteq span[d].must /\ span[d].may \subseteq n
    <2>1. ~At(d, "idle") /\ Lists(cl'[d])
      BY <1>1, <1>2, <1>5 DEF At, HasListed
    <2>2. QED  BY <1>3, <1>4, <2>1, Spans, Zenon
  <1>6. Spanned(r, m, n)
    BY <1>1, <1>5, SpansWiden, Zenon
  <1>7. Control(cl[d])'
    BY <1>1, <1>2, Zenon DEF Control, CType, Flow, Within, Creates
  <1>8. QED  BY <1>2, <1>3, <1>4, <1>6, <1>7, Zenon DEF Spanned, HasListed, Lists, Creates

LEMMA SpansGrow ==
    ASSUME Setting, Placed, NEW c \in Clients, Alters(c),
           NEW r, r = cl[c], NEW must, NEW may, Spanned(r, must, may), NEW s, Goes(r, s)
    PROVE  Spanned(s, must \cap Entries', may \cup Entries')
  <1> 0 \in Copies
    BY DEF Copies, Setting
  <1>1. CASE ~(Lists(s) /\ s.pc \in {"dirents", "listed"}) /\ ~HasListed(s)
    <2>1. ~(Lists(s) /\ s.pc = "dirents") /\ ~(Lists(s) /\ s.pc = "listed")
      BY <1>1
    <2>2. QED  BY <1>1, <2>1, Zenon DEF Spanned
  <1>2. CASE Lists(s) /\ s.pc \in {"dirents", "listed"}
    <2>1. CASE s.pc = "dirents" /\ s.todo = Hosts /\ s.got = {}
      <3>1. \A p \in Entries' : locate_file_metadata(p, 0) \in s.todo
        BY <2>1, Located, Zenon DEF Entries
      <3>2. s.pc # "listed"
        BY <2>1
      <3>3. QED  BY <2>1, <3>1, <3>2, Zenon DEF Spanned
    <2>2. CASE r.pc = "dirents" /\ Answers(r, s)
      <3>1. PICK g \in r.todo :
               /\ s.todo = r.todo \ {g} /\ s.cur = r.cur /\ (s.pc = "listed" => s.todo = {})
               /\ s.err = "0" => r.err = "0" /\ s.got = r.got \cup get_dirents(db[g], r.cur)
        BY <2>2, Zenon DEF Answers
      <3>2. ASSUME HasListed(s)
            PROVE  HasListed(r) /\ s.got = r.got \cup get_dirents(db[g], r.cur)
        <4>1. s.pc # "done" /\ s.op = r.op
          BY <1>2, Zenon DEF Goes
        <4>2. s.err = "0" /\ Lists(r)
          BY <3>2, <4>1, Zenon DEF HasListed, Lists, Creates
        <4>3. r.pc \in {"dirents", "listed"}
          BY <2>2
        <4>4. QED  BY <3>1, <4>2, <4>3, Zenon DEF HasListed
      <3>3. g \in Hosts
        <4>1. Lists(r)
          BY <1>2, Zenon DEF Goes, Lists, Creates
        <4>2. QED  BY <2>2, <4>1, Zenon DEF Spanned
      <3>4. Lists(s) /\ s.pc = "dirents" => s.todo \subseteq Hosts
        <4>1. Lists(r)
          BY <1>2, Zenon DEF Goes, Lists, Creates
        <4>2. r.todo \subseteq Hosts
          BY <2>2, <4>1, Zenon DEF Spanned
        <4>3. QED  BY <3>1, <4>2
      <3>5. ASSUME HasListed(s), NEW p \in must, p \in Entries', Parent(p) = s.cur, p \notin s.got
            PROVE  s.pc = "dirents" /\ locate_file_metadata(p, 0) \in s.todo
        <4>1. p \notin r.got /\ p \notin get_dirents(db[g], r.cur)
          BY <3>2, <3>5, Zenon
        <4>2. locate_file_metadata(p, 0) \in r.todo
          BY <3>1, <3>2, <3>5, <4>1, Zenon DEF Spanned
        <4>3. locate_file_metadata(p, 0) # g
          <5>1. ASSUME locate_file_metadata(p, 0) = g PROVE FALSE
            <6>1. p \in Paths \ {Root} /\ db'[g][p].mode \in Modes /\ db'[g][p].blocks # -1
              BY <3>5, <5>1, Zenon DEF Entries, First
            <6>2. db'[g][p] = db[g][p]
              BY <2>2, <3>3, <6>1, Zenon DEF Alters
            <6>3. QED  BY <3>1, <3>5, <4>1, <6>1, <6>2, Zenon DEF get_dirents
          <5>2. QED  BY <5>1, Zenon
        <4>4. locate_file_metadata(p, 0) \in s.todo
          BY <3>1, <4>2, <4>3
        <4>5. s.pc # "listed"
          BY <3>1, <4>4
        <4>6. QED  BY <1>2, <4>4, <4>5
      <3>6. ASSUME HasListed(s) PROVE s.got \subseteq may \cup Entries'
        <4>1. ASSUME NEW p \in get_dirents(db[g], r.cur) PROVE p \in Entries'
          <5>1. p \in Paths \ {Root} /\ db[g][p].mode \in Modes /\ db[g][p].blocks # -1
            BY <4>1, Zenon DEF get_dirents
          <5>2. g = locate_file_metadata(p, 0)
            BY <3>3, <5>1, Zenon DEF Placed
          <5>3. db'[g][p] = db[g][p]
            BY <2>2, <3>3, <5>1, Zenon DEF Alters
          <5>4. QED  BY <5>1, <5>2, <5>3, Zenon DEF Entries, First
        <4>2. r.got \subseteq may
          BY <3>2, <3>6, Zenon DEF Spanned
        <4>3. QED  BY <3>2, <3>6, <4>1, <4>2, Zenon
      <3>7. QED  BY <3>1, <3>5, <3>6, <3>4, Zenon DEF Spanned
    <2>3. QED  BY <1>2, <2>1, <2>2, Zenon DEF Goes
  <1>3. CASE Lists(s) /\ s.pc = "done" /\ s.ret = 0 /\ s.md.mode = "dir"
    <2>1. r.pc = "listed" /\ r.err = "0" /\ s.got = r.got /\ s.cur = r.cur /\ s.op = r.op
      BY <1>3, Zenon DEF Goes, Lists
    <2>2. HasListed(r) /\ r.pc # "dirents"
      <3>1. Lists(r)
        BY <1>3, <2>1, Zenon DEF Lists, Creates
      <3>2. r.pc \in {"dirents", "listed"} /\ r.pc # "dirents"
        BY <2>1
      <3>3. QED  BY <2>1, <3>1, <3>2, Zenon DEF HasListed
    <2>3. s.pc # "listed" /\ s.pc # "dirents"
      BY <1>3
    <2>4. (\A p \in must : Parent(p) # s.cur \/ p \in s.got) /\ s.got \subseteq may
      BY <2>1, <2>2, Zenon DEF Spanned
    <2>5. QED  BY <2>3, <2>4, Zenon DEF Spanned
  <1>4. QED  BY <1>1, <1>2, <1>3, Zenon DEF HasListed

LEMMA PlacedKept ==
    ASSUME Setting, Replicas = 0, Placed, NEW c \in Clients, Alters(c)
    PROVE  Placed'
  <1>1. \A copy \in Copies : copy = 0
    BY DEF Copies
  <1>2. \A h, p : Held(h, p) => h = locate_file_metadata(p, 0)
    BY <1>1, Zenon DEF Held
  <1>3. ASSUME NEW h \in Hosts, NEW p \in Paths \ {Root}, db'[h][p].mode \in Modes
        PROVE  h = locate_file_metadata(p, 0)
    <2>1. db[h][p].mode \in Modes \/ Held(h, p)
      BY <1>3, Zenon DEF Alters
    <2>2. QED  BY <1>2, <2>1, Zenon DEF Placed
  <1>4. QED  BY <1>3, Zenon DEF Placed, locate_file_metadata

LEMMA ListStep ==
    ASSUME Setting, Replicas = 0, ListInv, [Next]_vars
    PROVE  ListInv'
  <1>1. ASSUME NEW c \in Clients, History, Typed', Placed', DOMAIN cl' = Clients,
               \A d \in Clients : d # c => cl'[d] = cl[d],
               NEW s, cl'[c] = s, Control(s), Spanned(s, span'[c].must, span'[c].may)
        PROVE  ListInv'
    <2>1. ASSUME NEW d \in Clients
          PROVE  Control(cl[d])' /\ Spanned(cl[d], span[d].must, span[d].may)'
      <3>1. CASE d = c
        <4>1. Control(cl[d])'
          BY <1>1, <3>1, Zenon DEF Control, CType, Flow, Within, Creates
        <4>2. Spanned(cl[d], span[d].must, span[d].may)'
          BY <1>1, <3>1, Zenon DEF Spanned, HasListed, Lists, Creates
        <4>3. QED  BY <4>1, <4>2, Zenon
      <3>2. CASE d # c
        <4>1. Control(cl[d]) /\ Spanned(cl[d], span[d].must, span[d].may)
          BY Zenon DEF ListInv
        <4>2. QED  BY <1>1, <3>2, <4>1, OthersSpan, Zenon
      <3>3. QED  BY <3>1, <3>2, Zenon
    <2>2. QED  BY <1>1, <2>1, Zenon DEF ListInv
  <1>2. ASSUME NEW s, NEW m, NEW n, s.pc \notin {"dirents", "listed", "done"} PROVE Spanned(s, m, n)
    <2>1. s.pc # "dirents" /\ s.pc # "listed" /\ s.pc # "done"
      BY <1>2
    <2>2. QED  BY <1>2, <2>1, Zenon DEF Spanned, HasListed
  <1>3. ASSUME UNCHANGED db PROVE Typed' /\ Placed'
    BY <1>3, Zenon DEF ListInv, Typed, Placed, locate_file_metadata
  <1>4. ASSUME NEW c \in Clients, NEW op \in Calls, Invoke(c, op), History PROVE ListInv'
    <2>1. PICK s : s = cl'[c]
      OBVIOUS
    <2>2. /\ DOMAIN cl' = Clients /\ UNCHANGED db /\ Started(s, op)
          /\ \A d \in Clients : d # c => cl'[d] = cl[d]
      BY <1>4, <2>1, Invokes, Zenon DEF ListInv
    <2>3. Control(s) /\ s.pc \notin {"dirents", "listed", "done"}
      BY <2>2 DEF Started, Control
    <2>4. QED  BY <1>1, <1>2, <1>3, <1>4, <2>1, <2>2, <2>3, Zenon
  <1>5. ASSUME NEW c \in Clients, Step(c), History PROVE ListInv'
    <2>1. PICK r : r = cl[c]
      OBVIOUS
    <2>2. PICK s : s = cl'[c]
      OBVIOUS
    <2>3. CType(r) /\ Flow(r) /\ Spanned(r, span[c].must, span[c].may) /\ r.pc # "idle"
      <3>1. /\ CType(r) /\ (r.pc = "idle" \/ Flow(r))
            /\ Spanned(r, span[c].must, span[c].may)
        BY <2>1, Zenon DEF ListInv, Control
      <3>2. r.pc # "idle"
        BY <1>5, <2>1, Busy, Zenon
      <3>3. QED  BY <3>1, <3>2, Zenon
    <2>4. Alters(c)
      BY <1>5, <2>1, <2>3, EntriesKept, Zenon DEF ListInv
    <2>5. DOMAIN cl' = Clients /\ Goes(r, s) /\ \A d \in Clients : d # c => cl'[d] = cl[d]
      BY <1>5, <2>1, <2>2, <2>3, Moves, Zenon DEF ListInv
    <2>6. Control(s)
      <3>1. s.op = r.op /\ DOMAIN s = RFields /\ s.copy \in Copies /\ Flow(s)
        BY <2>5, Zenon DEF Goes
      <3>2. QED  BY <2>3, <3>1, Zenon DEF Control, CType
    <2>7. Placed' /\ Typed'
      BY <2>4, PlacedKept, Zenon DEF Alters, ListInv
    <2>8. Spanned(s, span'[c].must, span'[c].may)
      <3>1. Spanned(s, span[c].must \cap Entries', span[c].may \cup Entries')
        BY <2>1, <2>3, <2>4, <2>5, SpansGrow, Zenon DEF ListInv
      <3>2. CASE Lists(s)
        BY <1>5, <2>1, <2>2, <2>3, <3>1, <3>2, Spans, Zenon DEF At
      <3>3. CASE ~Lists(s)
        BY <3>3, Zenon DEF Spanned, HasListed
      <3>4. QED  BY <3>2, <3>3, Zenon
    <2>9. QED  BY <1>1, <1>5, <2>2, <2>5, <2>6, <2>7, <2>8, Zenon
  <1>6. ASSUME NEW c \in Clients, Return(c), History PROVE ListInv'
    <2>1. PICK s : s = cl'[c]
      OBVIOUS
    <2>2. /\ DOMAIN cl' = Clients /\ UNCHANGED db /\ s.pc = "idle" /\ CType(s)
          /\ \A d \in Clients : d # c => cl'[d] = cl[d]
      BY <1>6, <2>1, ReturnsIdle, Zenon DEF ListInv
    <2>3. Control(s) /\ s.pc \notin {"dirents", "listed", "done"}
      BY <2>2 DEF Control
    <2>4. QED  BY <1>1, <1>2, <1>3, <1>6, <2>1, <2>2, <2>3, Zenon
  <1>7. CASE UNCHANGED vars
    <2>1. UNCHANGED <<db, cl, span>>
      BY <1>7, Zenon DEF vars
    <2>2. Typed' /\ Placed' /\ DOMAIN cl' = Clients
      BY <1>3, <2>1, Zenon DEF ListInv
    <2>3. ASSUME NEW d \in Clients
          PROVE  Control(cl[d])' /\ Spanned(cl[d], span[d].must, span[d].may)'
      <3>1. Control(cl[d]) /\ Spanned(cl[d], span[d].must, span[d].may)
        BY Zenon DEF ListInv
      <3>2. Control(cl[d])'
        BY <2>1, <3>1, Zenon DEF Control, CType, Flow, Within, Creates
      <3>3. Spanned(cl[d], span[d].must, span[d].may)'
        BY <2>1, <3>1, Zenon DEF Spanned, HasListed, Lists, Creates, locate_file_metadata
      <3>4. QED  BY <3>2, <3>3, Zenon
    <2>4. QED  BY <2>2, <2>3, Zenon DEF ListInv
  <1>8. QED  BY <1>4, <1>5, <1>6, <1>7, Zenon DEF Next, Progress

LEMMA ListInit ==
    ASSUME Setting, Init
    PROVE  ListInv
  <1>1. Typed
    BY EntryFields, Zenon DEF Init, Typed, DType
  <1>2. ASSUME NEW h \in Hosts, NEW p \in Paths \ {Root} PROVE db[h][p].mode \notin Modes
    BY EntryFields, Zenon DEF Init
  <1>3. Placed
    BY <1>2, Zenon DEF Placed
  <1>4. DOMAIN cl = Clients /\ \A c \in Clients : cl[c] = Idle
    BY Zenon DEF Init
  <1>5. CType(Idle) /\ Idle.pc = "idle" /\ Idle.op.kind = "none"
    BY DEF Idle, RFields, CType, NoCall, Call, Copies, Setting
  <1>6. Control(Idle) /\ ~Lists(Idle)
    BY <1>5 DEF Control, Lists
  <1>7. \A m, n : Spanned(Idle, m, n)
    BY <1>6, Zenon DEF Spanned, HasListed
  <1>8. QED  BY <1>1, <1>3, <1>4, <1>6, <1>7, Zenon DEF ListInv

(* A listing that gkfs_opendir gathers from the daemons, one answer after  *)
(* the other while other clients create, remove and rename, has every      *)
(* entry of the directory that was there from the beginning of the call to *)
(* its end, and no entry that was never there.  For any number of clients, *)
(* daemons, calls and lost messages, when entries have one copy.           *)
THEOREM ListingCorrect ==
    ASSUME Setting, Replicas = 0
    PROVE  Spec => []ListingComplete
  <1>1. Init => ListInv
    BY ListInit, Zenon
  <1>2. ListInv /\ [Next]_vars => ListInv'
    BY ListStep, Zenon
  <1>3. ListInv => ListingComplete
    <2>1. SUFFICES ASSUME ListInv, NEW c \in Clients, Done(c, "open"), ~Creates(cl[c]),
                          cl[c].ret = 0, cl[c].md.mode = "dir"
                   PROVE  /\ {p \in span[c].must : Parent(p) = cl[c].cur} \subseteq cl[c].got
                          /\ cl[c].got \subseteq span[c].may
      BY Zenon DEF ListingComplete
    <2>2. HasListed(cl[c]) /\ cl[c].pc # "dirents"
      BY <2>1 DEF HasListed, Lists, Done, At
    <2>3. Spanned(cl[c], span[c].must, span[c].may)
      BY <2>1, Zenon DEF ListInv
    <2>4. QED  BY <2>2, <2>3, Zenon DEF Spanned
  <1>4. QED  BY <1>1, <1>2, <1>3, PTL DEF Spec
=============================================================================
