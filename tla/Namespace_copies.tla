-------------------------- MODULE Namespace_copies -------------------------
(***************************************************************************)
(* With one more copy of the metadata, one lost message is hidden: for any *)
(* number of clients, a stat finds what was created and not removed.       *)
(*                                                                         *)
(* Of the copies of an entry at most one is missing, the one whose message *)
(* was lost; a creation in progress keeps this for the copies it has gone  *)
(* through, and a stat in progress has one of the others still before it.  *)
(***************************************************************************)
EXTENDS Namespace_proofs

(* Nothing is renamed or written, so an entry is as it was created.        *)
PlainEntry(e) == /\ e.blocks # -1 /\ e.target = NoPath /\ e.size = 0
                 /\ e.mode \in Modes \/ e = NoEntry
PlainStore(d) == DType(d) /\ \A q \in Paths : PlainEntry(d[q])
PlainCalls == \A op \in Calls : /\ op.kind \notin {"rename", "write"}
                                /\ "creat" \in op.flags => op.kind = "open"

(* The labels of calls that meet a renamed entry, or one with data.        *)
Odd == {"target", "follow", "decr", "truncate", "remove_follow", "remove_name",
        "stat_follow", "statx_follow", "access_follow"}

Plainly(r) ==
    /\ PlainEntry(r.md) /\ r.cur \in Paths
    /\ r.op.kind \notin {"rename", "write"} /\ ("creat" \in r.op.flags => r.op.kind = "open")
    /\ r.pc \notin Odd
    /\ r.pc = "stat" => r.k \notin Odd
    /\ r.pc \in {"rm", "rmdata"} => r.k = "removed"
    /\ r.pc = "rm" => r.cur = r.op.path
    /\ r.op.kind = "stat" => /\ r.pc \in {"stat", "gkfs_stat", "done"}
                             /\ r.pc = "stat" => r.cur = r.op.path /\ r.k = "gkfs_stat"

Readable(p, copy) == db[locate_file_metadata(p, copy)][p].mode \in Modes

(* Of the first n copies of p at most one is missing, by the lost message. *)
Good(p, n) ==
    \A i \in Copies : i < n /\ ~Readable(p, i) =>
        nfaults = 1 /\ \A j \in Copies : j < n /\ j # i => Readable(p, j)

(* A creation that went through all copies.                                *)
Past(r) == /\ r.pc \notin {"idle", "parent", "create"} /\ ~(r.pc = "stat" /\ r.k = "parent")
           /\ r.pc = "done" => r.ret = 0
Makes(r, may) ==
    Creates(r) /\ r.op.path \notin may =>
        /\ r.pc = "create" => Good(r.op.path, r.copy)
        /\ Past(r) => Good(r.op.path, Replicas + 1)

(* A stat of an entry that is there finds one of its copies.               *)
Finds(r, must) ==
    r.op.kind = "stat" /\ r.op.path \in must =>
        /\ r.pc = "stat" /\ r.copy # 0 =>
              nfaults = 1 /\ \A j \in Copies : j >= r.copy => Readable(r.op.path, j)
        /\ r.pc = "gkfs_stat" => r.md.mode \in Modes
        /\ r.pc = "done" => r.ret = 0

HiddenInv ==
    /\ DOMAIN cl = Clients /\ DOMAIN db = Hosts /\ \A h \in Hosts : PlainStore(db[h])
    /\ nfaults \in {0, 1}
    /\ \A p \in made : p \in Paths /\ Good(p, Replicas + 1)
    /\ \A c \in Clients :
          /\ Control(cl[c]) /\ Makes(cl[c], span[c].may) /\ Finds(cl[c], span[c].must)
          /\ cl[c].pc # "idle" => Plainly(cl[c])
          /\ cl[c].op.kind = "stat" => span[c].must \subseteq made

-----------------------------------------------------------------------------
(* What the daemons answer when entries are plain.                         *)
LEMMA PlainEntries ==
    /\ PlainEntry(NoEntry) /\ NoEntry.mode \notin Modes
    /\ \A mode \in Modes : \A id : PlainEntry(NewEntry(mode, id))
  <1>1. PlainEntry(NoEntry) /\ NoEntry.mode \notin Modes
    BY DEF PlainEntry, NoEntry, Modes
  <1>2. ASSUME NEW mode \in Modes, NEW id PROVE PlainEntry(NewEntry(mode, id))
    <2>1. LET e == NewEntry(mode, id) IN
            e.blocks = 0 /\ e.target = NoPath /\ e.size = 0 /\ e.mode = mode
      BY DEF NewEntry, NoEntry
    <2>2. QED  BY <2>1 DEF PlainEntry
  <1>3. QED  BY <1>1, <1>2, Zenon

LEMMA PlainRead ==
    ASSUME NEW d, PlainStore(d), NEW p \in Paths
    PROVE  /\ d[p].mode \in Modes => get_err(d, p) = "0"
           /\ d[p].mode \notin Modes => get_err(d, p) = "ENOENT"
  <1>1. d[p].mode \in Modes \/ d[p] = NoEntry
    BY Zenon DEF PlainStore, PlainEntry
  <1>2. d[p].mode \in Modes => d[p] # NoEntry /\ d[p] # Broken
    BY EntryFields, Zenon
  <1>3. d[p] # NoEntry /\ d[p] # Broken => get_err(d, p) = "0"
    BY DEF get_err
  <1>4. d[p] = NoEntry => get_err(d, p) = "ENOENT"
    <2>1. NoEntry # Broken
      <3>1. "absent" # "broken"
        OBVIOUS
      <3>2. QED  BY <3>1, EntryFields, Zenon
    <2>2. QED  BY <2>1 DEF get_err
  <1>5. QED  BY <1>1, <1>2, <1>3, <1>4, Zenon

(* A creation that is answered leaves an entry, one that removes takes no  *)
(* other.                                                                  *)
PlainlyMade(d, e, p) ==
    PlainStore(e) /\ e[p].mode \in Modes /\ \A q \in Paths : d[q].mode \in Modes => e[q].mode \in Modes
PlainlyGone(d, e, p) ==
    PlainStore(e) /\ \A q \in Paths : q # p => e[q] = d[q]

LEMMA PlainCreate ==
    ASSUME NEW d, PlainStore(d), NEW p \in Paths, NEW mode \in Modes, NEW id
    PROVE  PlainlyMade(d, rpc_srv_create(d, p, mode, id).db, p)
  <1> DEFINE n == [d EXCEPT ![p] = NewEntry(mode, id)]
  <1>1. CASE d[p].mode \in Modes
    <2>1. get_err(d, p) = "0"
      BY <1>1, PlainRead, Zenon
    <2>2. rpc_srv_create(d, p, mode, id).db = d
      BY <2>1 DEF rpc_srv_create, Answer
    <2>3. QED  BY <1>1, <2>2, Zenon DEF PlainlyMade
  <1>2. CASE d[p].mode \notin Modes
    <2>1. get_err(d, p) = "ENOENT"
      BY <1>2, PlainRead, Zenon
    <2>2. rpc_srv_create(d, p, mode, id).db = n
      BY <2>1 DEF rpc_srv_create, Answer
    <2>3. DOMAIN n = Paths /\ n[p] = NewEntry(mode, id) /\ \A q \in Paths : q # p => n[q] = d[q]
      BY Zenon DEF PlainStore, DType
    <2> HIDE DEF n
    <2>4. PlainEntry(n[p]) /\ DOMAIN n[p] = EFields /\ n[p].mode \in Modes
      <3>1. /\ PlainEntry(NewEntry(mode, id)) /\ DOMAIN NewEntry(mode, id) = EFields
            /\ NewEntry(mode, id).mode = mode
        BY PlainEntries, EntryFields, Zenon
      <3>2. QED  BY <2>3, <3>1, Zenon
    <2>5. PlainStore(n)
      BY <2>3, <2>4, Zenon DEF PlainStore, DType
    <2>6. QED  BY <2>2, <2>3, <2>4, <2>5, Zenon DEF PlainlyMade
  <1>3. QED  BY <1>1, <1>2, Zenon

LEMMA PlainRemove ==
    ASSUME NEW d, PlainStore(d), NEW p \in Paths, NEW rm
    PROVE  PlainlyGone(d, rpc_srv_remove_metadata(d, p, rm).db, p)
  <1> DEFINE e == rpc_srv_remove_metadata(d, p, rm).db
             n == [d EXCEPT ![p] = NoEntry]
  <1>1. e = d \/ e = n
    BY DEF rpc_srv_remove_metadata, Answer
  <1>2. DOMAIN n = Paths /\ \A q \in Paths : n[q] = IF q = p THEN NoEntry ELSE d[q]
    BY Zenon DEF PlainStore, DType
  <1> HIDE DEF e, n
  <1>3. PlainlyGone(d, n, p)
    BY <1>2, PlainEntries, EntryFields, Zenon DEF PlainStore, DType, PlainlyGone
  <1>4. PlainlyGone(d, d, p)
    BY Zenon DEF PlainlyGone
  <1>5. QED  BY <1>1, <1>3, <1>4, Zenon DEF e

-----------------------------------------------------------------------------
(* Calls on plain entries *)

LEMMA PlainlyAt ==
    ASSUME NEW r, Plainly(r), NEW s, s.op = r.op, s.md = r.md, s.cur = r.cur,
           s.pc \notin Odd, s.pc \notin {"stat", "rm", "rmdata"},
           r.op.kind = "stat" => s.pc \in {"gkfs_stat", "done"}
    PROVE  Plainly(s)
  <1>1. s.pc # "stat" /\ s.pc # "rm" /\ s.pc \notin {"rm", "rmdata"} /\ (r.op.kind = "stat" => s.pc \in {"stat", "gkfs_stat", "done"})
    OBVIOUS
  <1>2. QED  BY <1>1, Zenon DEF Plainly

LEMMA PlainlyEnds ==
    ASSUME NEW r, CType(r), Plainly(r)
    PROVE  /\ \A e : Plainly(Fail(r, e))
           /\ Plainly(Success(r))
           /\ \A p : Plainly(Opened(r, p))
  <1>1. ASSUME NEW s, s.op = r.op, s.md = r.md, s.cur = r.cur, s.pc = "done" PROVE Plainly(s)
    <2>1. s.pc \notin Odd /\ s.pc \notin {"stat", "rm", "rmdata"} /\ s.pc \in {"gkfs_stat", "done"}
      BY <1>1 DEF Odd
    <2>2. QED  BY <1>1, <2>1, PlainlyAt, Zenon
  <1>2. ASSUME NEW e PROVE Plainly(Fail(r, e))
    <2> DEFINE s == Fail(r, e)
    <2>1. s.op = r.op /\ s.md = r.md /\ s.cur = r.cur /\ s.pc = "done"
      BY Zenon DEF CType, RFields, Fail
    <2> HIDE DEF s
    <2>2. QED  BY <1>1, <2>1, Zenon DEF s
  <1>3. Plainly(Success(r))
    <2> DEFINE s == Success(r)
    <2>1. s.op = r.op /\ s.md = r.md /\ s.cur = r.cur /\ s.pc = "done"
      BY Zenon DEF CType, RFields, Success
    <2> HIDE DEF s
    <2>2. QED  BY <1>1, <2>1, Zenon DEF s
  <1>4. ASSUME NEW p PROVE Plainly(Opened(r, p))
    <2> DEFINE s == Opened(r, p)
    <2>1. s.op = r.op /\ s.md = r.md /\ s.cur = r.cur /\ s.pc = "done"
      BY Zenon DEF CType, RFields, Success, Opened
    <2> HIDE DEF s
    <2>2. QED  BY <1>1, <2>1, Zenon DEF s
  <1>5. QED  BY <1>2, <1>3, <1>4, Zenon

LEMMA PlainlyAsks ==
    ASSUME NEW r, CType(r), Plainly(r), r.op.kind # "stat", NEW p \in Paths, NEW k, k \notin Odd
    PROVE  Plainly(get_metadata(r, p, k))
  <1> DEFINE s == get_metadata(r, p, k)
  <1>1. s.op = r.op /\ s.md = r.md /\ s.cur = p /\ s.pc = "stat" /\ s.k = k
    BY Zenon DEF CType, RFields, get_metadata
  <1> HIDE DEF s
  <1>2. s.pc \notin Odd /\ s.pc \notin {"rm", "rmdata"} /\ s.pc # "rm"
    BY <1>1 DEF Odd
  <1>3. Plainly(s)
    BY <1>1, <1>2, Zenon DEF Plainly
  <1>4. QED  BY <1>3, Zenon DEF s

LEMMA PlainlyRemoves ==
    ASSUME NEW r, CType(r), Plainly(r), r.op.kind # "stat"
    PROVE  Plainly(Remove(r, r.op.path, "removed"))
  <1> DEFINE s == Remove(r, r.op.path, "removed")
  <1>1. s.op = r.op /\ s.md = r.md /\ s.cur = r.op.path /\ s.pc = "rm" /\ s.k = "removed"
    BY Zenon DEF CType, RFields, Remove
  <1> HIDE DEF s
  <1>2. s.pc \notin Odd /\ s.pc # "stat"
    BY <1>1 DEF Odd
  <1>3. Plainly(s)
    BY <1>1, <1>2, Zenon DEF Plainly, CType
  <1>4. QED  BY <1>3, Zenon DEF s

LEMMA ReturnsTo ==
    ASSUME NEW r, Flow(r), r.pc = "stat"
    PROVE  r.k \notin {"stat", "rm", "rmdata"}
  BY DEF Flow, Within, LookLabels, RenameLabels

(* The steps of a call on plain entries, as the records they lead to.      *)
PlainMoved(c) == \E s : Become(c, s) /\ Plainly(s)

LEMMA PlainStat ==
    ASSUME Setting, \A h \in Hosts : PlainStore(db[h]), NEW c \in Clients, CType(cl[c]), Flow(cl[c]), Plainly(cl[c]),
           forward_stat(c)
    PROVE  PlainMoved(c)
  <1> DEFINE r == cl[c]
             h == locate_file_metadata(r.cur, r.copy)
             again(e) == [r EXCEPT !.copy = @ + 1, !.err = e]
             none(e) == [r EXCEPT !.md = NoEntry, !.err = e, !.pc = r.k]
             found == [r EXCEPT !.md = db[h][r.cur], !.pc = r.k]
  <1>1. r.pc = "stat" /\ \E s : Become(c, s) /\ (s = found \/ \E e : s = again(e) \/ s = none(e))
    <2>1. \A e : NextCopy(r, e) = again(e) \/ NextCopy(r, e) = none(e)
      BY Zenon DEF NextCopy
    <2>2. /\ r.pc = "stat"
          /\ \E e, f : Become(c, NextCopy(r, e)) \/ Become(c, IF f # "0" THEN NextCopy(r, f) ELSE found)
      BY Zenon DEF forward_stat, At, Rpc
    <2> HIDE DEF r, again, none, found
    <2>3. QED  BY <2>1, <2>2, Zenon
  <1>2. r.k \notin Odd /\ r.k \notin {"stat", "rm", "rmdata"} /\ (r.op.kind = "stat" => r.k \in {"gkfs_stat", "done"})
    <2>1. r.k \notin Odd /\ (r.op.kind = "stat" => r.k = "gkfs_stat")
      BY <1>1, Zenon DEF Plainly
    <2>2. r.k \notin {"stat", "rm", "rmdata"}
      BY <1>1, ReturnsTo, Zenon
    <2>3. QED  BY <2>1, <2>2
  <1>3. PlainEntry(db[h][r.cur]) /\ PlainEntry(NoEntry)
    <2>1. h \in Hosts /\ r.cur \in Paths
      BY Located, Zenon DEF Plainly, CType
    <2>2. QED  BY <2>1, PlainEntries, Zenon DEF PlainStore
  <1>4. ASSUME NEW s, s.op = r.op, s.cur = r.cur, PlainEntry(s.md), s.pc = r.k PROVE Plainly(s)
    <2>1. /\ s.pc \notin Odd /\ s.pc # "stat" /\ s.pc # "rm" /\ s.pc \notin {"rm", "rmdata"}
          /\ r.op.kind = "stat" => s.pc \in {"stat", "gkfs_stat", "done"}
      BY <1>2, <1>4
    <2>2. QED  BY <1>4, <2>1, Zenon DEF Plainly
  <1>5. ASSUME NEW e PROVE Plainly(none(e))
    <2> DEFINE s == none(e)
    <2>1. s.op = r.op /\ s.cur = r.cur /\ s.md = NoEntry /\ s.pc = r.k
      BY Zenon DEF CType, RFields
    <2> HIDE DEF s, r
    <2>2. QED  BY <1>3, <1>4, <2>1, Zenon DEF s
  <1>6. Plainly(found)
    <2> DEFINE s == found
    <2>1. s.op = r.op /\ s.cur = r.cur /\ s.md = db[h][r.cur] /\ s.pc = r.k
      BY Zenon DEF CType, RFields
    <2> HIDE DEF s, r, h
    <2>2. QED  BY <1>3, <1>4, <2>1, Zenon DEF s
  <1>7. ASSUME NEW e PROVE Plainly(again(e))
    <2> DEFINE s == again(e)
    <2>1. s.op = r.op /\ s.cur = r.cur /\ s.md = r.md /\ s.pc = r.pc /\ s.k = r.k
      BY Zenon DEF CType, RFields
    <2> HIDE DEF s
    <2>2. Plainly(s)
      BY <2>1, Zenon DEF Plainly
    <2>3. QED  BY <2>2, Zenon DEF s
  <1> HIDE DEF r, h, again, none, found
  <1>8. QED  BY <1>1, <1>5, <1>6, <1>7, Zenon DEF PlainMoved

LEMMA PlainLocal ==
    ASSUME Setting, NEW c \in Clients, CType(cl[c]), Flow(cl[c]), Plainly(cl[c])
    PROVE  /\ check_parent_dir(c) => PlainMoved(c)
           /\ gkfs_create_done(c) => PlainMoved(c)
           /\ open_existing(c) => PlainMoved(c)
           /\ gkfs_open(c) => PlainMoved(c)
           /\ gkfs_opendir(c) => PlainMoved(c)
           /\ Listed(c) => PlainMoved(c)
           /\ gkfs_stat(c) \/ gkfs_statx(c) \/ gkfs_access(c) => PlainMoved(c)
           /\ gkfs_remove(c) => PlainMoved(c)
           /\ gkfs_rmdir(c) => PlainMoved(c)
           /\ Removed(c) => PlainMoved(c)
  <1> DEFINE r == cl[c]
             list == [r EXCEPT !.pc = "dirents", !.todo = Hosts, !.got = {}, !.err = "0"]
  <1>1. \A s : Local(c, s) /\ Plainly(s) => PlainMoved(c)
    BY Zenon DEF Local, PlainMoved
  <1>2. \A e : Plainly(Fail(r, e)) /\ Plainly(Success(r)) /\ \A p : Plainly(Opened(r, p))
    BY PlainlyEnds, Zenon
  <1>3. r.md.blocks # -1 /\ r.md.target = NoPath /\ r.md.size = 0 /\ r.cur \in Paths /\ r.op.path \in Paths
    BY Zenon DEF Plainly, PlainEntry, CType
  <1>4. "exists" \notin Odd /\ "opendir" \notin Odd
    BY DEF Odd
  <1>5. r.op.kind # "stat" =>
          /\ \A p \in Paths : Plainly(get_metadata(r, p, "exists")) /\ Plainly(get_metadata(r, p, "opendir"))
          /\ Plainly(Remove(r, r.op.path, "removed"))
    BY <1>4, PlainlyAsks, PlainlyRemoves, Zenon
  <1>6. r.op.kind # "stat" => Plainly(create_all(r)) /\ Plainly(list)
    <2>1. ASSUME NEW s, s.op = r.op, s.md = r.md, s.cur = r.cur, s.pc \in {"create", "dirents"},
                 r.op.kind # "stat"
          PROVE  Plainly(s)
      <3>1. s.pc \notin Odd /\ s.pc \notin {"stat", "rm", "rmdata"}
        BY <2>1 DEF Odd
      <3>2. QED  BY <2>1, <3>1, PlainlyAt, Zenon
    <2>2. LET s == create_all(r) IN s.op = r.op /\ s.md = r.md /\ s.cur = r.cur /\ s.pc = "create"
      BY Zenon DEF CType, RFields, create_all
    <2>3. list.op = r.op /\ list.md = r.md /\ list.cur = r.cur /\ list.pc = "dirents"
      BY Zenon DEF CType, RFields
    <2> HIDE DEF list, r
    <2>4. "create" \in {"create", "dirents"} /\ "dirents" \in {"create", "dirents"}
      OBVIOUS
    <2>5. QED  BY <2>1, <2>2, <2>3, <2>4, Zenon
  <1>7. r.pc \in {"parent", "created", "exists", "open", "opendir", "listed", "remove", "rmdir"} => r.op.kind # "stat"
    BY KindOf
  <1>8. ~Truncates(r)
    BY <1>3 DEF Truncates
  <1>9. r.op.kind # "stat" => Plainly(open_entry(r))
    <2>1. open_entry(r) = OpenEntry(r, r.op.path)
      BY <1>3, Zenon DEF open_entry
    <2>2. OpenEntry(r, r.op.path) = IF r.md.mode = "dir" THEN get_metadata(r, r.op.path, "opendir") ELSE Opened(r, r.op.path)
      BY <1>8, Zenon DEF OpenEntry
    <2> HIDE DEF r
    <2>3. QED  BY <1>2, <1>3, <1>5, <2>1, <2>2, Zenon
  <1>10. ASSUME check_parent_dir(c) PROVE PlainMoved(c)
    <2>1. r.pc = "parent" /\ Local(c, IF r.md = NoEntry THEN Fail(r, r.err)
                ELSE IF r.md.mode # "dir" THEN Fail(r, "ENOTDIR") ELSE create_all(r))
      BY <1>10, Zenon DEF check_parent_dir, At
    <2>2. r.op.kind # "stat"
      BY <1>7, <2>1
    <2> HIDE DEF r
    <2>3. QED  BY <1>1, <1>2, <1>6, <2>1, <2>2, Zenon
  <1>11. ASSUME gkfs_create_done(c) PROVE PlainMoved(c)
    <2>1. /\ r.pc = "created"
          /\ \E s : /\ Local(c, s)
                    /\ \/ s = Success(r) \/ s = Fail(r, r.err) \/ s = Opened(r, r.op.path)
                       \/ s = get_metadata(r, r.op.path, "exists")
      BY <1>11, Zenon DEF gkfs_create_done, At
    <2>2. r.op.kind # "stat"
      BY <1>7, <2>1
    <2> HIDE DEF r
    <2>3. QED  BY <1>1, <1>2, <1>3, <1>5, <2>1, <2>2, Zenon
  <1>12. ASSUME open_existing(c) \/ gkfs_open(c) PROVE PlainMoved(c)
    <2>1. /\ r.pc = "exists" \/ r.pc = "open"
          /\ \E s : Local(c, s) /\ (s = open_entry(r) \/ \E e : s = Fail(r, e))
      BY <1>12, Zenon DEF open_existing, gkfs_open, At
    <2>2. r.op.kind # "stat"
      BY <1>7, <2>1
    <2> HIDE DEF r
    <2>3. QED  BY <1>1, <1>2, <1>9, <2>1, <2>2, Zenon
  <1>13. ASSUME gkfs_opendir(c) \/ gkfs_rmdir(c) PROVE PlainMoved(c)
    <2>1. /\ r.pc = "opendir" \/ r.pc = "rmdir"
          /\ \E s : Local(c, s) /\ (s = list \/ \E e : s = Fail(r, e))
      BY <1>13, Zenon DEF gkfs_opendir, gkfs_rmdir, At
    <2>2. r.op.kind # "stat"
      BY <1>7, <2>1
    <2> HIDE DEF r, list
    <2>3. QED  BY <1>1, <1>2, <1>6, <2>1, <2>2, Zenon
  <1>14. ASSUME Listed(c) PROVE PlainMoved(c)
    <2>1. /\ r.pc = "listed"
          /\ \E s : Local(c, s) /\ (s = Success(r) \/ s = Remove(r, r.op.path, "removed") \/ \E e : s = Fail(r, e))
      BY <1>14, Zenon DEF Listed, At
    <2>2. r.op.kind # "stat"
      BY <1>7, <2>1
    <2> HIDE DEF r
    <2>3. QED  BY <1>1, <1>2, <1>5, <2>1, <2>2, Zenon
  <1>15. ASSUME gkfs_stat(c) \/ gkfs_statx(c) \/ gkfs_access(c) PROVE PlainMoved(c)
    <2>1. \E s : Local(c, s) /\ (s = Success(r) \/ \E e : s = Fail(r, e))
      BY <1>3, <1>15, Zenon DEF gkfs_stat, gkfs_statx, gkfs_access, LookUp
    <2> HIDE DEF r
    <2>2. QED  BY <1>1, <1>2, <2>1, Zenon
  <1>16. ASSUME gkfs_remove(c) PROVE PlainMoved(c)
    <2>1. /\ r.pc = "remove"
          /\ \E s : Local(c, s) /\ (s = Remove(r, r.op.path, "removed") \/ \E e : s = Fail(r, e))
      BY <1>3, <1>16, Zenon DEF gkfs_remove, At
    <2>2. r.op.kind # "stat"
      BY <1>7, <2>1
    <2> HIDE DEF r
    <2>3. QED  BY <1>1, <1>2, <1>5, <2>1, <2>2, Zenon
  <1>17. ASSUME Removed(c) PROVE PlainMoved(c)
    <2>1. \E s : Local(c, s) /\ (s = Success(r) \/ \E e : s = Fail(r, e))
      BY <1>17, Zenon DEF Removed
    <2> HIDE DEF r
    <2>2. QED  BY <1>1, <1>2, <2>1, Zenon
  <1>18. QED  BY <1>10, <1>11, <1>12, <1>13, <1>14, <1>15, <1>16, <1>17, Zenon

LEMMA PlainRemote ==
    ASSUME Setting, NEW c \in Clients, CType(cl[c]), Flow(cl[c]), Plainly(cl[c])
    PROVE  /\ forward_create(c) => PlainMoved(c)
           /\ forward_get_dirents(c) => PlainMoved(c)
           /\ forward_remove(c) => PlainMoved(c)
           /\ forward_remove_data(c) => PlainMoved(c)
  <1> DEFINE r == cl[c]
  <1>1. ASSUME NEW s, s.op = r.op, s.md = r.md, s.cur = r.cur, r.op.kind # "stat",
               s.pc \in {"create", "created", "dirents", "listed", "removed"}
        PROVE  Plainly(s)
    <2>1. s.pc \notin Odd /\ s.pc \notin {"stat", "rm", "rmdata"}
      BY <1>1 DEF Odd
    <2>2. QED  BY <1>1, <2>1, PlainlyAt, Zenon
  <1>2. r.pc \in {"create", "dirents", "rm", "rmdata"} => r.op.kind # "stat"
    BY DEF Plainly
  <1>3. ASSUME forward_create(c) PROVE PlainMoved(c)
    <2>1. r.pc = "create" /\ \E e : Become(c, Created(r, e))
      BY <1>3, Zenon DEF forward_create, Rpc, At
    <2>2. r.op.kind # "stat"
      BY <1>2, <2>1
    <2>3. ASSUME NEW e PROVE Plainly(Created(r, e))
      <3> DEFINE s == Created(r, e)
      <3>1. s.op = r.op /\ s.md = r.md /\ s.cur = r.cur /\ (s.pc = "create" \/ s.pc = "created")
        BY Zenon DEF CType, RFields, Created
      <3> HIDE DEF s, r
      <3>2. s.pc \in {"create", "created", "dirents", "listed", "removed"}
        BY <3>1
      <3>3. QED  BY <1>1, <2>2, <3>1, <3>2, Zenon DEF s
    <2>4. QED  BY <2>1, <2>3, Zenon DEF PlainMoved
  <1>4. ASSUME forward_get_dirents(c) PROVE PlainMoved(c)
    <2> DEFINE t(h) == [r EXCEPT !.todo = @ \ {h}, !.pc = IF r.todo = {h} THEN "listed" ELSE @]
               bad(h, e) == [t(h) EXCEPT !.err = e]
               good(h, n) == [t(h) EXCEPT !.got = @ \cup n]
    <2>1. r.pc = "dirents" /\ \E h, s : Become(c, s) /\ ((\E e : s = bad(h, e)) \/ \E n : s = good(h, n))
      <3>1. r.pc = "dirents"
        BY <1>4, Zenon DEF forward_get_dirents, At
      <3>2. PICK h \in r.todo :
               Rpc(c, h, db[h], IF rpc_srv_get_dirents(db[h], r.cur).err # "0"
                                THEN bad(h, rpc_srv_get_dirents(db[h], r.cur).err)
                                ELSE good(h, rpc_srv_get_dirents(db[h], r.cur).names), bad(h, "EBUSY"))
        BY <1>4, Zenon DEF forward_get_dirents
      <3> HIDE DEF r, bad, good
      <3>3. QED  BY <3>1, <3>2, Zenon DEF Rpc
    <2>2. r.op.kind # "stat"
      BY <1>2, <2>1
    <2>3. ASSUME NEW s, s.op = r.op, s.md = r.md, s.cur = r.cur, s.pc = "listed" \/ s.pc = "dirents" PROVE Plainly(s)
      <3>1. s.pc \in {"create", "created", "dirents", "listed", "removed"}
        BY <2>3
      <3>2. QED  BY <1>1, <2>2, <2>3, <3>1, Zenon
    <2>4. ASSUME NEW h, NEW e PROVE Plainly(bad(h, e))
      <3> DEFINE s == bad(h, e)
      <3>1. s.op = r.op /\ s.md = r.md /\ s.cur = r.cur /\ (s.pc = "listed" \/ s.pc = "dirents")
        BY <2>1, Zenon DEF CType, RFields
      <3> HIDE DEF s, r
      <3>2. QED  BY <2>3, <3>1, Zenon DEF s
    <2>5. ASSUME NEW h, NEW n PROVE Plainly(good(h, n))
      <3> DEFINE s == good(h, n)
      <3>1. s.op = r.op /\ s.md = r.md /\ s.cur = r.cur /\ (s.pc = "listed" \/ s.pc = "dirents")
        BY <2>1, Zenon DEF CType, RFields
      <3> HIDE DEF s, r
      <3>2. QED  BY <2>3, <3>1, Zenon DEF s
    <2> HIDE DEF r, bad, good
    <2>6. QED  BY <2>1, <2>4, <2>5, Zenon DEF PlainMoved
  <1>5. ASSUME r.pc = "rm" \/ r.pc = "rmdata", NEW s, s.op = r.op, s.md = r.md, s.cur = r.cur, s.k = r.k,
               \/ s.pc = r.k \/ s.pc = "rmdata"
               \/ r.pc = "rm" /\ s.pc = "rm"
        PROVE  Plainly(s)
    <2>1. r.op.kind # "stat" /\ r.pc \in {"rm", "rmdata"}
      BY <1>2, <1>5
    <2>2. r.k = "removed"
      BY <2>1, Zenon DEF Plainly
    <2>3. CASE s.pc = r.k
      <3>1. s.pc \in {"create", "created", "dirents", "listed", "removed"}
        BY <2>2, <2>3
      <3>2. QED  BY <1>1, <1>5, <2>1, <3>1, Zenon
    <2>4. CASE s.pc = "rmdata" \/ (r.pc = "rm" /\ s.pc = "rm")
      <3>1. s.pc \notin Odd /\ s.pc # "stat" /\ (s.pc = "rm" => r.pc = "rm")
        BY <2>4 DEF Odd
      <3>2. QED  BY <1>5, <2>1, <2>2, <3>1, Zenon DEF Plainly
    <2>5. QED  BY <1>5, <2>3, <2>4, Zenon
  <1>6. ASSUME forward_remove(c) PROVE PlainMoved(c)
    <2> DEFINE fail(e) == [r EXCEPT !.err = e, !.pc = r.k]
               more == [r EXCEPT !.copy = @ + 1]
               then(t) == [r EXCEPT !.err = "0", !.pc = "rmdata", !.todo = t]
    <2>1. r.pc = "rm" /\ \E s : Become(c, s) /\ (s = more \/ (\E e : s = fail(e)) \/ \E t : s = then(t))
      BY <1>6, Zenon DEF forward_remove, At
    <2>2. ASSUME NEW e PROVE Plainly(fail(e))
      <3> DEFINE s == fail(e)
      <3>1. s.op = r.op /\ s.md = r.md /\ s.cur = r.cur /\ s.k = r.k /\ s.pc = r.k
        BY Zenon DEF CType, RFields
      <3> HIDE DEF s, r
      <3>2. QED  BY <1>5, <2>1, <3>1, Zenon DEF s
    <2>3. Plainly(more)
      <3> DEFINE s == more
      <3>1. s.op = r.op /\ s.md = r.md /\ s.cur = r.cur /\ s.k = r.k /\ s.pc = r.pc
        BY Zenon DEF CType, RFields
      <3> HIDE DEF s, r
      <3>2. QED  BY <1>5, <2>1, <3>1, Zenon DEF s
    <2>4. ASSUME NEW t PROVE Plainly(then(t))
      <3> DEFINE s == then(t)
      <3>1. s.op = r.op /\ s.md = r.md /\ s.cur = r.cur /\ s.k = r.k /\ s.pc = "rmdata"
        BY Zenon DEF CType, RFields
      <3> HIDE DEF s, r
      <3>2. QED  BY <1>5, <2>1, <3>1, Zenon DEF s
    <2> HIDE DEF r, fail, more, then
    <2>5. QED  BY <2>1, <2>2, <2>3, <2>4, Zenon DEF PlainMoved
  <1>7. ASSUME forward_remove_data(c) PROVE PlainMoved(c)
    <2> DEFINE some(h) == [r EXCEPT !.todo = @ \ {h}, !.pc = IF r.todo = {h} THEN r.k ELSE @]
               lost(h) == [some(h) EXCEPT !.err = "EBUSY"]
               post == [r EXCEPT !.todo = {}, !.err = "EBUSY", !.pc = r.k]
    <2>1. r.pc = "rmdata" /\ \E s : Become(c, s) /\ (s = post \/ \E h : s = some(h) \/ s = lost(h))
      BY <1>7, Zenon DEF forward_remove_data, At
    <2>2. ASSUME NEW h PROVE Plainly(some(h)) /\ Plainly(lost(h))
      <3>1. LET s == some(h) IN s.op = r.op /\ s.md = r.md /\ s.cur = r.cur /\ s.k = r.k /\ (s.pc = r.k \/ s.pc = "rmdata")
        BY <2>1, Zenon DEF CType, RFields
      <3>2. LET s == lost(h) IN s.op = r.op /\ s.md = r.md /\ s.cur = r.cur /\ s.k = r.k /\ (s.pc = r.k \/ s.pc = "rmdata")
        BY <2>1, Zenon DEF CType, RFields
      <3> HIDE DEF some, lost, r
      <3>3. QED  BY <1>5, <2>1, <3>1, <3>2, Zenon
    <2>3. Plainly(post)
      <3> DEFINE s == post
      <3>1. s.op = r.op /\ s.md = r.md /\ s.cur = r.cur /\ s.k = r.k /\ s.pc = r.k
        BY Zenon DEF CType, RFields
      <3> HIDE DEF s, r
      <3>2. QED  BY <1>5, <2>1, <3>1, Zenon DEF s
    <2> HIDE DEF r, some, lost, post
    <2>4. QED  BY <2>1, <2>2, <2>3, Zenon DEF PlainMoved
  <1>8. QED  BY <1>3, <1>4, <1>6, <1>7, Zenon

(* The steps of a call that neither renames nor writes.                    *)
LEMMA PlainSteps ==
    ASSUME NEW c \in Clients, Flow(cl[c]), Plainly(cl[c]), Step(c)
    PROVE  \/ forward_stat(c) \/ forward_create(c) \/ forward_get_dirents(c)
           \/ forward_remove(c) \/ forward_remove_data(c)
           \/ check_parent_dir(c) \/ gkfs_create_done(c) \/ open_existing(c) \/ gkfs_open(c)
           \/ gkfs_opendir(c) \/ Listed(c) \/ gkfs_stat(c) \/ gkfs_statx(c) \/ gkfs_access(c)
           \/ gkfs_remove(c) \/ gkfs_rmdir(c) \/ Removed(c)
  <1> DEFINE r == cl[c]
  <1>1. r.pc \notin Odd /\ r.op.kind # "rename" /\ r.op.kind # "write"
    BY DEF Plainly
  <1>2. ~open_target(c) /\ ~forward_decr_size(c) /\ ~forward_truncate(c) /\ ~remove_follow(c) /\ ~remove_name(c)
    BY <1>1 DEF Odd, At, open_target, forward_decr_size, forward_truncate, remove_follow, remove_name
  <1>3. r.pc \notin {"rename", "rename_new", "size", "write"} \cup RenameLabels
    BY <1>1, KindOf
  <1>4. ~gkfs_rename(c) /\ ~rename_to(c) /\ ~forward_update_metadentry_size(c) /\ ~forward_write(c)
    BY <1>3 DEF At, gkfs_rename, rename_to, forward_update_metadentry_size, forward_write
  <1>5. /\ ~forward_update_metadentry(c) /\ ~forward_rename_hide(c) /\ ~forward_rename_create(c)
        /\ ~forward_rename_link(c) /\ ~forward_rename_back(c)
    BY <1>3 DEF At, RenameLabels, forward_update_metadentry, forward_rename_hide, forward_rename_create,
                forward_rename_link, forward_rename_back
  <1>6. QED  BY <1>2, <1>4, <1>5, Zenon DEF Step

LEMMA PlainMoves ==
    ASSUME Setting, \A h \in Hosts : PlainStore(db[h]), NEW c \in Clients, CType(cl[c]), Flow(cl[c]), Plainly(cl[c]),
           Step(c)
    PROVE  PlainMoved(c)
  BY PlainSteps, PlainStat, PlainLocal, PlainRemote, Zenon

(* The action a call is at.                                                *)
LEMMA StepAt ==
    ASSUME NEW c \in Clients, Step(c)
    PROVE  /\ cl[c].pc # "done"
           /\ cl[c].pc = "stat" => forward_stat(c)
           /\ cl[c].pc = "parent" => check_parent_dir(c)
           /\ cl[c].pc = "create" => forward_create(c)
           /\ cl[c].pc = "gkfs_stat" => gkfs_stat(c)
           /\ cl[c].pc = "rm" => forward_remove(c)
  BY DEF Step, At, forward_stat, check_parent_dir, forward_create, gkfs_create_done, open_existing,
         gkfs_open, open_target, forward_decr_size, forward_truncate, gkfs_opendir, forward_get_dirents,
         Listed, LookUp, gkfs_stat, gkfs_statx, gkfs_access, gkfs_remove, remove_follow, remove_name,
         gkfs_rmdir, forward_remove, forward_remove_data, Removed, gkfs_rename, rename_to,
         forward_update_metadentry, forward_rename_hide, forward_rename_create, forward_rename_link,
         forward_rename_back, forward_update_metadentry_size, forward_write

(* Only creations and removals touch plain entries.                        *)
LEMMA PlainTouch ==
    ASSUME NEW c \in Clients, Flow(cl[c]), Plainly(cl[c]), Step(c)
    PROVE  forward_create(c) \/ forward_remove(c) \/ \E h : UNCHANGED db \/ db' = [db EXCEPT ![h] = db[h]]
  <1> DEFINE same == \E h : UNCHANGED db \/ db' = [db EXCEPT ![h] = db[h]]
  <1>1. forward_stat(c) \/ forward_get_dirents(c) => same
    BY Zenon DEF forward_stat, forward_get_dirents, Rpc
  <1>2. UNCHANGED db => same
    BY Zenon
  <1>3. \A s : Local(c, s) => UNCHANGED db
    BY Zenon DEF Local
  <1>4. /\ check_parent_dir(c) \/ gkfs_create_done(c) \/ open_existing(c) \/ gkfs_open(c) => UNCHANGED db
        /\ gkfs_opendir(c) \/ Listed(c) \/ gkfs_rmdir(c) \/ Removed(c) \/ gkfs_remove(c) => UNCHANGED db
        /\ gkfs_stat(c) \/ gkfs_statx(c) \/ gkfs_access(c) => UNCHANGED db
    BY <1>3, Zenon DEF check_parent_dir, gkfs_create_done, open_existing, gkfs_open, gkfs_opendir, Listed,
                       gkfs_rmdir, Removed, gkfs_remove, gkfs_stat, gkfs_statx, gkfs_access, LookUp
  <1>5. forward_remove_data(c) => UNCHANGED db
    BY Zenon DEF forward_remove_data
  <1> HIDE DEF same
  <1>6. forward_create(c) \/ forward_remove(c) \/ same
    BY <1>1, <1>2, <1>4, <1>5, PlainSteps, Zenon
  <1>7. QED  BY <1>6, Zenon DEF same

(* At most one message is lost.                                            *)
Loses == UNCHANGED nfaults \/ (nfaults < MaxFaults /\ nfaults' = nfaults + 1)

LEMMA StepLoses ==
    ASSUME NEW c \in Clients, Step(c)
    PROVE  Loses
  <1>1. \A kind : Lost(kind) => Loses
    BY Zenon DEF Lost, Loses
  <1>2. UNCHANGED nfaults => Loses
    BY Zenon DEF Loses
  <1>3. \A h, out, next, fail : Rpc(c, h, out, next, fail) => Loses
    BY <1>1, <1>2, Zenon DEF Rpc
  <1>4. \A s : Local(c, s) => Loses
    BY <1>2, Zenon DEF Local
  <1> HIDE DEF Loses
  <1>5. /\ forward_stat(c) \/ forward_create(c) \/ forward_decr_size(c) \/ forward_get_dirents(c) => Loses
        /\ forward_update_metadentry(c) \/ forward_rename_hide(c) \/ forward_rename_create(c) => Loses
        /\ forward_rename_link(c) \/ forward_rename_back(c) => Loses
    BY <1>3, Zenon DEF forward_stat, forward_create, forward_decr_size, forward_get_dirents, forward_update_metadentry,
       forward_rename_hide, forward_rename_create, forward_rename_link, forward_rename_back
  <1>6. /\ check_parent_dir(c) \/ gkfs_create_done(c) \/ open_existing(c) \/ gkfs_open(c) \/ open_target(c) => Loses
        /\ gkfs_opendir(c) \/ Listed(c) \/ gkfs_rmdir(c) \/ Removed(c) \/ gkfs_remove(c) => Loses
        /\ gkfs_stat(c) \/ gkfs_statx(c) \/ gkfs_access(c) \/ remove_follow(c) \/ remove_name(c) => Loses
        /\ gkfs_rename(c) \/ rename_to(c) => Loses
    BY <1>4, Zenon DEF check_parent_dir, gkfs_create_done, open_existing, gkfs_open, gkfs_opendir, Listed,
                       gkfs_rmdir, Removed, gkfs_remove, gkfs_stat, gkfs_statx, gkfs_access, LookUp, open_target,
                       remove_follow, remove_name, gkfs_rename, rename_to
  <1>7. forward_truncate(c) \/ forward_remove_data(c) => Loses
    BY <1>1, <1>2, Zenon DEF forward_truncate, forward_remove_data
  <1>8. forward_remove(c) => Loses
    BY <1>1, <1>2, Zenon DEF forward_remove
  <1>9. forward_update_metadentry_size(c) \/ forward_write(c) => Loses
    BY <1>2, Zenon DEF forward_update_metadentry_size, forward_write
  <1>10. QED  BY <1>5, <1>6, <1>7, <1>8, <1>9, Zenon DEF Step

(* What every step leaves: plain entries, that only a removal takes away.  *)
Tame ==
    /\ DOMAIN db' = Hosts /\ \A h \in Hosts : PlainStore(db'[h])
    /\ nfaults' \in {0, 1} /\ (nfaults = 1 => nfaults' = 1)
    /\ \A q \in Paths, j \in Copies : Readable(q, j) => Readable(q, j)' \/ q \in TakenAway'

LEMMA TameFrom ==
    ASSUME Setting, DOMAIN db' = Hosts, \A h \in Hosts : PlainStore(db'[h]),
           MaxFaults \in Nat, MaxFaults <= 1, nfaults \in {0, 1}, Loses,
           \A g \in Hosts, q \in Paths : db[g][q].mode \in Modes => db'[g][q].mode \in Modes \/ q \in TakenAway'
    PROVE  Tame
  <1>1. nfaults' \in {0, 1} /\ (nfaults = 1 => nfaults' = 1)
    BY DEF Loses
  <1>2. ASSUME NEW q \in Paths, NEW j \in Copies, Readable(q, j) PROVE Readable(q, j)' \/ q \in TakenAway'
    <2>1. locate_file_metadata(q, j) \in Hosts
      BY Located, Zenon
    <2>2. QED  BY <1>2, <2>1, Zenon DEF Readable, locate_file_metadata
  <1>3. QED  BY <1>1, <1>2, Zenon DEF Tame

LEMMA RemoverTakes ==
    ASSUME Setting, DOMAIN cl = Clients, NEW c \in Clients, CType(cl[c]), Flow(cl[c]), Plainly(cl[c]), forward_remove(c)
    PROVE  cl[c].op.path \in TakenAway'
  <1> DEFINE r == cl[c]
             fail(e) == [r EXCEPT !.err = e, !.pc = r.k]
             more == [r EXCEPT !.copy = @ + 1]
             then(t) == [r EXCEPT !.err = "0", !.pc = "rmdata", !.todo = t]
  <1>1. r.pc = "rm" /\ \E s : cl' = [cl EXCEPT ![c] = s] /\ (s = more \/ (\E e : s = fail(e)) \/ \E t : s = then(t))
    BY Zenon DEF forward_remove, At, Become
  <1>2. PICK s : cl' = [cl EXCEPT ![c] = s] /\ (s = more \/ (\E e : s = fail(e)) \/ \E t : s = then(t))
    BY <1>1, Zenon
  <1>3. cl'[c] = s
    BY <1>2, Zenon
  <1>4. s.op = r.op /\ (s.pc = r.pc \/ s.pc = r.k \/ s.pc = "rmdata")
    BY <1>2, Zenon DEF CType, RFields
  <1> HIDE DEF r, fail, more, then
  <1>5. r.k = "removed"
    <2>1. r.pc \in {"rm", "rmdata"}
      BY <1>1
    <2>2. QED  BY <2>1, Zenon DEF Plainly, r
  <1>6. s.pc \notin {"idle", "done"}
    BY <1>1, <1>4, <1>5
  <1>7. r.op.kind \in {"remove", "rmdir", "rename"}
    BY <1>1 DEF Flow, Within, LookLabels, RenameLabels, r
  <1>8. c \in {d \in Clients : /\ cl'[d].op.kind \in {"remove", "rmdir", "rename"}
                               /\ cl'[d].pc \notin {"idle", "done"}}
    BY <1>3, <1>4, <1>6, <1>7, Zenon
  <1>9. r.op.path \in {cl'[c].op.path, cl'[c].op.new}
    BY <1>3, <1>4, Zenon
  <1>10. QED  BY <1>8, <1>9, Zenon DEF TakenAway, r

LEMMA StepTame ==
    ASSUME Setting, DOMAIN cl = Clients, DOMAIN db = Hosts, \A h \in Hosts : PlainStore(db[h]),
           MaxFaults \in Nat, MaxFaults <= 1, nfaults \in {0, 1},
           NEW c \in Clients, CType(cl[c]), Flow(cl[c]), Plainly(cl[c]), Step(c)
    PROVE  Tame
  <1> DEFINE Reads == \A g \in Hosts, q \in Paths :
                          db[g][q].mode \in Modes => db'[g][q].mode \in Modes \/ q \in TakenAway'
             Stores == DOMAIN db' = Hosts /\ \A h \in Hosts : PlainStore(db'[h])
  <1>1. Loses
    BY StepLoses, Zenon
  <1>2. CASE \E h : UNCHANGED db \/ db' = [db EXCEPT ![h] = db[h]]
    <2>1. DOMAIN db' = Hosts /\ \A g \in Hosts : db'[g] = db[g]
      BY <1>2, Zenon
    <2>2. Stores /\ Reads
      BY <2>1, Zenon
    <2> HIDE DEF Stores, Reads
    <2>3. QED  BY <1>1, <2>2, TameFrom, Zenon DEF Stores, Reads
  <1>3. CASE forward_create(c)
    <2> DEFINE p == cl[c].op.path
               h == locate_file_metadata(p, cl[c].copy)
               e == rpc_srv_create(db[h], p, CreateMode(cl[c].op), cl[c].id).db
    <2>1. UNCHANGED db \/ db' = [db EXCEPT ![h] = e]
      BY <1>3, Zenon DEF forward_create, Rpc
    <2>2. h \in Hosts /\ p \in Paths
      BY Located, Zenon DEF CType
    <2>3. CreateMode(cl[c].op) \in Modes
      BY DEF CreateMode, Modes
    <2>4. PlainlyMade(db[h], e, p)
      BY <2>2, <2>3, PlainCreate, Zenon
    <2> HIDE DEF h, e, p
    <2>5. DOMAIN db' = Hosts /\ \A g \in Hosts : db'[g] = db[g] \/ (g = h /\ db'[g] = e)
      BY <2>1, <2>2, Zenon
    <2>6. Stores /\ Reads
      BY <2>4, <2>5, Zenon DEF PlainlyMade
    <2> HIDE DEF Stores, Reads
    <2>7. QED  BY <1>1, <2>6, TameFrom, Zenon DEF Stores, Reads
  <1>4. CASE forward_remove(c)
    <2> DEFINE p == cl[c].cur
               h == locate_file_metadata(p, cl[c].copy)
               e == rpc_srv_remove_metadata(db[h], p, RmDir(cl[c])).db
    <2>1. cl[c].pc = "rm" /\ (UNCHANGED db \/ db' = [db EXCEPT ![h] = e])
      BY <1>4, Zenon DEF forward_remove, At
    <2>2. h \in Hosts /\ p \in Paths /\ p = cl[c].op.path
      BY <2>1, Located, Zenon DEF CType, Plainly
    <2>3. PlainlyGone(db[h], e, p)
      BY <2>2, PlainRemove, Zenon
    <2>4. p \in TakenAway'
      BY <1>4, <2>2, RemoverTakes, Zenon
    <2> HIDE DEF h, e, p
    <2>5. DOMAIN db' = Hosts /\ \A g \in Hosts : db'[g] = db[g] \/ (g = h /\ db'[g] = e)
      BY <2>1, <2>2, Zenon
    <2>6. Stores /\ Reads
      BY <2>3, <2>4, <2>5, Zenon DEF PlainlyGone
    <2> HIDE DEF Stores, Reads
    <2>7. QED  BY <1>1, <2>6, TameFrom, Zenon DEF Stores, Reads
  <1>5. QED  BY <1>2, <1>3, <1>4, PlainTouch, Zenon

-----------------------------------------------------------------------------
(* The history of creations and stats *)

LEMMA HistoryOf ==
    ASSUME History, NEW d \in Clients
    PROVE  /\ cl'[d].op.kind = "stat" =>
                 span'[d].must \subseteq made' /\ (cl[d].pc # "idle" => span'[d].must \subseteq span[d].must)
           /\ Creates(cl'[d]) /\ cl'[d].op.kind # "stat" =>
                 /\ TakenAway' \subseteq span'[d].may /\ span'[d].may \subseteq span[d].may \cup TakenAway'
                 /\ cl[d].pc # "idle" => span[d].may \subseteq span'[d].may
           /\ \A p \in made' : p \notin TakenAway'
  <1> DEFINE t == There(d)'
  <1>1. span'[d] = IF cl[d].pc = "idle" THEN [must |-> t, may |-> t]
                   ELSE [must |-> span[d].must \cap t, may |-> span[d].may \cup t]
    BY Zenon DEF History, At
  <1>2. cl'[d].op.kind = "stat" => t = made'
    BY Zenon DEF There
  <1>3. Creates(cl'[d]) /\ cl'[d].op.kind # "stat" => t = TakenAway'
    BY Zenon DEF There, Creates, TakenAway
  <1>4. \A p \in made' : p \notin TakenAway'
    BY Zenon DEF History
  <1> HIDE DEF t
  <1>5. /\ span'[d].must \subseteq t /\ t \subseteq span'[d].may /\ span'[d].may \subseteq span[d].may \cup t
        /\ cl[d].pc # "idle" => span'[d].must \subseteq span[d].must /\ span[d].may \subseteq span'[d].may
    <2>1. CASE cl[d].pc = "idle"
      <3>1. span'[d] = [must |-> t, may |-> t]
        BY <1>1, <2>1, Zenon
      <3>2. span'[d].must = t /\ span'[d].may = t
        BY <3>1
      <3>3. QED  BY <2>1, <3>2, Zenon
    <2>2. CASE cl[d].pc # "idle"
      <3>1. span'[d] = [must |-> span[d].must \cap t, may |-> span[d].may \cup t]
        BY <1>1, <2>2, Zenon
      <3>2. span'[d].must = span[d].must \cap t /\ span'[d].may = span[d].may \cup t
        BY <3>1
      <3>3. QED  BY <3>2, Zenon
    <2>3. QED  BY <2>1, <2>2, Zenon
  <1>6. QED  BY <1>2, <1>3, <1>4, <1>5, Zenon

LEMMA GoodKept ==
    ASSUME Tame, NEW q \in Paths, NEW n, Good(q, n), q \notin TakenAway'
    PROVE  Good(q, n)'
  <1>1. ASSUME NEW i \in Copies, i < n, ~Readable(q, i)'
        PROVE  nfaults' = 1 /\ \A j \in Copies : j < n /\ j # i => Readable(q, j)'
    <2>1. ~Readable(q, i)
      BY <1>1, Zenon DEF Tame
    <2>2. nfaults = 1 /\ \A j \in Copies : j < n /\ j # i => Readable(q, j)
      BY <1>1, <2>1, Zenon DEF Good
    <2>3. QED  BY <2>2, Zenon DEF Tame
  <1>2. QED  BY <1>1, Zenon DEF Good

(* A call that waits while another client makes a step.                    *)
LEMMA MakesKept ==
    ASSUME Tame, NEW r, CType(r), NEW may, Makes(r, may),
           NEW n, r.pc # "idle" /\ Creates(r) => may \subseteq n /\ TakenAway' \subseteq n
    PROVE  Makes(r, n)'
  <1>1. CASE r.pc = "idle"
    <2>1. r.pc # "create" /\ ~Past(r)
      BY <1>1 DEF Past
    <2>2. QED  BY <2>1, Zenon DEF Makes, Past
  <1>2. ASSUME r.pc # "idle", Creates(r), r.op.path \notin n
        PROVE  /\ r.pc = "create" => Good(r.op.path, r.copy)'
               /\ Past(r) => Good(r.op.path, Replicas + 1)'
    <2>1. r.op.path \notin TakenAway' /\ r.op.path \notin may /\ r.op.path \in Paths
      BY <1>2, Zenon DEF CType
    <2>2. /\ r.pc = "create" => Good(r.op.path, r.copy)
          /\ Past(r) => Good(r.op.path, Replicas + 1)
      BY <1>2, <2>1, Zenon DEF Makes
    <2>3. QED  BY <2>1, <2>2, GoodKept, Zenon
  <1>3. QED  BY <1>1, <1>2, Zenon DEF Makes, Past, Creates

LEMMA FindsKept ==
    ASSUME Tame, NEW r, CType(r), NEW must, Finds(r, must),
           NEW m, r.pc # "idle" /\ r.op.kind = "stat" => m \subseteq must /\ \A p \in m : p \notin TakenAway'
    PROVE  Finds(r, m)'
  <1>1. CASE r.pc = "idle"
    <2>1. r.pc # "stat" /\ r.pc # "gkfs_stat" /\ r.pc # "done"
      BY <1>1
    <2>2. QED  BY <2>1, Zenon DEF Finds
  <1>2. ASSUME r.pc # "idle", r.op.kind = "stat", r.op.path \in m
        PROVE  /\ r.pc = "stat" /\ r.copy # 0 =>
                     nfaults' = 1 /\ \A j \in Copies : j >= r.copy => Readable(r.op.path, j)'
               /\ r.pc = "gkfs_stat" => r.md.mode \in Modes
               /\ r.pc = "done" => r.ret = 0
    <2>1. r.op.path \notin TakenAway' /\ r.op.path \in must /\ r.op.path \in Paths
      BY <1>2, Zenon DEF CType
    <2>2. /\ r.pc = "stat" /\ r.copy # 0 =>
                nfaults = 1 /\ \A j \in Copies : j >= r.copy => Readable(r.op.path, j)
          /\ r.pc = "gkfs_stat" => r.md.mode \in Modes
          /\ r.pc = "done" => r.ret = 0
      BY <1>2, <2>1, Zenon DEF Finds
    <2>3. QED  BY <2>1, <2>2, Zenon DEF Tame
  <1>3. QED  BY <1>1, <1>2, Zenon DEF Finds

-----------------------------------------------------------------------------
(* A creation goes through the copies *)

LEMMA GoodNext ==
    ASSUME Setting, Tame, NEW p \in Paths, NEW k \in Copies, Good(p, k), p \notin TakenAway',
           Readable(p, k)' \/ (nfaults = 0 /\ nfaults' = 1)
    PROVE  Good(p, k + 1)'
  <1>1. \A i \in Copies : i < k + 1 <=> i < k \/ i = k
    BY DEF Copies, Setting
  <1>2. CASE Readable(p, k)'
    <2>1. Good(p, k)'
      BY GoodKept, Zenon
    <2>2. QED  BY <1>1, <1>2, <2>1, Zenon DEF Good
  <1>3. CASE nfaults = 0 /\ nfaults' = 1
    <2>1. nfaults # 1
      BY <1>3
    <2>2. \A i \in Copies : i < k => Readable(p, i)
      BY <2>1, Zenon DEF Good
    <2>3. \A i \in Copies : i < k => Readable(p, i)'
      BY <2>2, Zenon DEF Tame
    <2>4. QED  BY <1>1, <1>3, <2>3, Zenon DEF Good
  <1>4. QED  BY <1>2, <1>3, Zenon

(* One message is lost, when none was before.                              *)
LEMMA LostFirst ==
    ASSUME MaxFaults \in Nat, MaxFaults <= 1, nfaults \in {0, 1}, NEW kind, Lost(kind)
    PROVE  nfaults = 0 /\ nfaults' = 1
  BY DEF Lost

LEMMA CreateStep ==
    ASSUME Setting, DOMAIN cl = Clients, DOMAIN db = Hosts, \A h \in Hosts : PlainStore(db[h]),
           MaxFaults \in Nat, MaxFaults <= 1, nfaults \in {0, 1},
           NEW c \in Clients, NEW r, r = cl[c], CType(r), forward_create(c), NEW s, s = cl'[c]
    PROVE  /\ Readable(r.op.path, r.copy)' \/ (nfaults = 0 /\ nfaults' = 1)
           /\ \/ r.copy < Replicas /\ s.pc = "create" /\ s.copy = r.copy + 1
              \/ r.copy = Replicas /\ s.pc = "created"
  <1> DEFINE p == r.op.path
             h == locate_file_metadata(p, r.copy)
             out == rpc_srv_create(db[h], p, CreateMode(r.op), r.id)
  <1>1. CType(r) /\ r = cl[c]
    OBVIOUS
  <1>2. Rpc(c, h, out.db, Created(r, out.err), Created(r, "EBUSY"))
    BY Zenon DEF forward_create
  <1>3. h \in Hosts /\ p \in Paths /\ r.copy \in Copies
    BY <1>1, Located, Zenon DEF CType
  <1>4. CreateMode(r.op) \in Modes
    BY DEF CreateMode, Modes
  <1>5. PlainlyMade(db[h], out.db, p)
    BY <1>3, <1>4, PlainCreate, Zenon
  <1> HIDE DEF out
  <1>6. \/ db' = [db EXCEPT ![h] = out.db]
        \/ \E kind : Lost(kind)
    BY <1>2, Zenon DEF Rpc
  <1>7. db' = [db EXCEPT ![h] = out.db] => Readable(p, r.copy)'
    <2>1. db' = [db EXCEPT ![h] = out.db] => db'[h] = out.db
      BY <1>3, Zenon
    <2>2. QED  BY <1>5, <2>1, Zenon DEF PlainlyMade, Readable, locate_file_metadata
  <1>8. \E e : cl' = [cl EXCEPT ![c] = Created(r, e)]
    BY <1>2, Zenon DEF Rpc, Become
  <1>9. PICK e : s = Created(r, e)
    BY <1>8, Zenon
  <1>10. /\ r.copy < Replicas => s.pc = "create" /\ s.copy = r.copy + 1
         /\ ~(r.copy < Replicas) => s.pc = "created"
    BY <1>1, <1>9, Zenon DEF Created, CType, RFields
  <1>11. r.copy < Replicas \/ r.copy = Replicas
    BY <1>3 DEF Copies, Setting
  <1>12. ~(r.copy < Replicas /\ r.copy = Replicas)
    BY <1>3 DEF Copies, Setting
  <1>13. QED  BY <1>6, <1>7, <1>10, <1>11, <1>12, LostFirst, Zenon

LEMMA BeforeCreate ==
    ASSUME DOMAIN cl = Clients, NEW c \in Clients, NEW r, r = cl[c], CType(r), Step(c), NEW s, s = cl'[c], Goes(r, s)
    PROVE  /\ r.pc = "parent" \/ (r.pc = "stat" /\ r.k = "parent") => ~Past(s)
           /\ s.pc = "create" => r.pc = "create" \/ s.copy = 0
  <1>0. r = cl[c] /\ s = cl'[c] /\ CType(r)
    OBVIOUS
  <1>1. ASSUME r.pc = "parent" PROVE (s.pc = "create" /\ s.copy = 0) \/ (s.pc = "done" /\ s.ret = -1)
    <2>1. check_parent_dir(c)
      BY <1>0, <1>1, StepAt, Zenon
    <2>2. \E t : cl' = [cl EXCEPT ![c] = t] /\ (t = create_all(r) \/ \E e : t = Fail(r, e))
      BY <1>0, <2>1, Zenon DEF check_parent_dir, Local, Become
    <2>3. s = create_all(r) \/ \E e : s = Fail(r, e)
      BY <1>0, <2>2, Zenon
    <2>4. LET t == create_all(r) IN t.pc = "create" /\ t.copy = 0
      BY <1>0, Zenon DEF create_all, CType, RFields
    <2>5. \A e : LET t == Fail(r, e) IN t.pc = "done" /\ t.ret = -1
      BY <1>0, Zenon DEF Fail, CType, RFields
    <2>6. QED  BY <2>3, <2>4, <2>5, Zenon
  <1>2. ASSUME r.pc = "stat", r.k = "parent" PROVE (s.pc = "stat" /\ s.k = "parent") \/ s.pc = "parent"
    <2> DEFINE h == locate_file_metadata(r.cur, r.copy)
               again(e) == [r EXCEPT !.copy = @ + 1, !.err = e]
               none(e) == [r EXCEPT !.md = NoEntry, !.err = e, !.pc = r.k]
               found == [r EXCEPT !.md = db[h][r.cur], !.pc = r.k]
    <2>1. forward_stat(c)
      BY <1>0, <1>2, StepAt, Zenon
    <2>2. \E t : cl' = [cl EXCEPT ![c] = t] /\ (t = found \/ \E e : t = again(e) \/ t = none(e))
      <3>1. \A e : NextCopy(r, e) = again(e) \/ NextCopy(r, e) = none(e)
        BY Zenon DEF NextCopy
      <3>2. \E e, f : Become(c, NextCopy(r, e)) \/ Become(c, IF f # "0" THEN NextCopy(r, f) ELSE found)
        BY <1>0, <2>1, Zenon DEF forward_stat, Rpc
      <3> HIDE DEF again, none, found
      <3>3. QED  BY <3>1, <3>2, Zenon DEF Become
    <2>3. s = found \/ \E e : s = again(e) \/ s = none(e)
      BY <1>0, <2>2, Zenon
    <2>4. s.pc = r.k \/ (s.pc = r.pc /\ s.k = r.k)
      BY <1>0, <2>3, Zenon DEF CType, RFields
    <2> HIDE DEF h, again, none, found
    <2>5. QED  BY <1>2, <2>4, Zenon
  <1>3. ASSUME r.pc = "parent" \/ (r.pc = "stat" /\ r.k = "parent") PROVE ~Past(s)
    BY <1>1, <1>2, <1>3 DEF Past
  <1>4. s.pc = "create" => r.pc = "create" \/ s.copy = 0
    <2>1. s.pc = "create" => r.pc = "create" \/ r.pc = "parent"
      BY Zenon DEF Goes
    <2>2. s.pc = "create" => s.pc # "done"
      OBVIOUS
    <2>3. QED  BY <1>1, <2>1, <2>2, Zenon
  <1>5. QED  BY <1>3, <1>4, Zenon

LEMMA MakesStep ==
    ASSUME Setting, DOMAIN cl = Clients, DOMAIN db = Hosts, \A h \in Hosts : PlainStore(db[h]),
           MaxFaults \in Nat, MaxFaults <= 1, nfaults \in {0, 1}, Tame,
           NEW c \in Clients, NEW r, r = cl[c], CType(r), Step(c), NEW s, s = cl'[c], Goes(r, s),
           NEW may, Makes(r, may), NEW n, Creates(r) => may \subseteq n /\ TakenAway' \subseteq n
    PROVE  Makes(s, n)'
  <1> DEFINE p == r.op.path
  <1>0. r = cl[c] /\ s = cl'[c] /\ CType(r) /\ Goes(r, s) /\ Makes(r, may)
    OBVIOUS
  <1>1. s.op = r.op /\ r.pc # "idle" /\ r.pc # "done" /\ p \in Paths /\ r.copy \in Copies
    BY <1>0, Busy, StepAt, Zenon DEF Goes, CType
  <1>2. SUFFICES ASSUME Creates(r), p \notin n
                 PROVE  /\ s.pc = "create" => Good(p, s.copy)'
                        /\ Past(s) => Good(p, Replicas + 1)'
    BY <1>1, Zenon DEF Makes, Past, Creates
  <1>3. p \notin may /\ p \notin TakenAway'
    BY <1>2, Zenon
  <1>4. /\ r.pc = "create" => Good(p, r.copy)
        /\ Past(r) => Good(p, Replicas + 1)
    BY <1>0, <1>2, <1>3, Zenon DEF Makes
  <1>5. CASE r.pc = "create"
    <2>1. forward_create(c)
      BY <1>0, <1>5, StepAt, Zenon
    <2>2. /\ Readable(p, r.copy)' \/ (nfaults = 0 /\ nfaults' = 1)
          /\ \/ r.copy < Replicas /\ s.pc = "create" /\ s.copy = r.copy + 1
             \/ r.copy = Replicas /\ s.pc = "created"
      BY <1>0, <2>1, CreateStep, Zenon
    <2>3. Good(p, r.copy + 1)'
      BY <1>1, <1>3, <1>4, <1>5, <2>2, GoodNext, Zenon
    <2>4. s.pc = "create" => ~Past(s) /\ s.pc # "created"
      BY DEF Past
    <2>5. QED  BY <2>2, <2>3, <2>4, Zenon DEF Good
  <1>6. CASE r.pc # "create"
    <2>1. s.pc = "create" => Good(p, s.copy)'
      <3>1. s.pc = "create" => s.copy = 0
        BY <1>0, <1>6, BeforeCreate, Zenon
      <3>2. \A i \in Copies : ~(i < 0)
        BY DEF Copies, Setting
      <3>3. Good(p, 0)'
        BY <3>2, Zenon DEF Good
      <3>4. QED  BY <3>1, <3>3, Zenon DEF Good
    <2>2. Past(s) => Good(p, Replicas + 1)'
      <3>1. Past(s) => ~(r.pc = "parent" \/ (r.pc = "stat" /\ r.k = "parent"))
        BY <1>0, BeforeCreate, Zenon
      <3>2. Past(s) => Past(r)
        BY <1>1, <1>6, <3>1 DEF Past
      <3>3. QED  BY <1>1, <1>3, <1>4, <3>2, GoodKept, Zenon
    <2>3. QED  BY <2>1, <2>2, Zenon
  <1>7. QED  BY <1>5, <1>6, Zenon

-----------------------------------------------------------------------------
(* A stat asks one copy after the other *)

LEMMA StatStep ==
    ASSUME Setting, DOMAIN cl = Clients, DOMAIN db = Hosts, \A h \in Hosts : PlainStore(db[h]),
           MaxFaults \in Nat, MaxFaults <= 1, nfaults \in {0, 1},
           NEW c \in Clients, NEW r, r = cl[c], CType(r), r.cur \in Paths, forward_stat(c), NEW s, s = cl'[c]
    PROVE  \/ s.pc = r.k /\ s.md.mode \in Modes
           \/ /\ \/ ~Readable(r.cur, r.copy) /\ nfaults' = nfaults
                 \/ nfaults = 0 /\ nfaults' = 1
              /\ r.copy < Replicas => s.pc = "stat" /\ s.copy = r.copy + 1
  <1> DEFINE p == r.cur
             h == locate_file_metadata(p, r.copy)
             err == get_err(db[h], p)
             found == [r EXCEPT !.md = db[h][p], !.pc = r.k]
  <1>0. r = cl[c] /\ s = cl'[c] /\ CType(r) /\ r.cur \in Paths
    OBVIOUS
  <1>1. /\ r.pc = "stat"
        /\ \/ Become(c, IF err # "0" THEN NextCopy(r, err) ELSE found) /\ UNCHANGED nfaults
           \/ Become(c, NextCopy(r, "EBUSY")) /\ \E kind : Lost(kind)
    <2>1. rpc_srv_stat(db[h], p).err = err
      BY DEF rpc_srv_stat, Answer
    <2> HIDE DEF err
    <2>2. QED  BY <1>0, <2>1, Zenon DEF forward_stat, At, Rpc
  <1>2. h \in Hosts
    BY <1>0, Located, Zenon DEF CType
  <1>3. db[h][p].mode \in Modes \/ ~Readable(p, r.copy)
    BY Zenon DEF Readable
  <1>4. /\ db[h][p].mode \in Modes => err = "0"
        /\ db[h][p].mode \notin Modes => err # "0"
    <2>1. "ENOENT" # "0"
      OBVIOUS
    <2>2. QED  BY <1>0, <1>2, <2>1, PlainRead, Zenon
  <1>5. \A t : Become(c, t) => s = t
    BY <1>0, Zenon DEF Become
  <1>6. found.pc = r.k /\ found.md = db[h][p]
    BY <1>0, Zenon DEF CType, RFields
  <1>7. \A e : LET t == NextCopy(r, e) IN r.copy < Replicas => t.pc = r.pc /\ t.copy = r.copy + 1
    BY <1>0, Zenon DEF NextCopy, CType, RFields
  <1> HIDE DEF found, err, h
  <1>8. CASE Become(c, IF err # "0" THEN NextCopy(r, err) ELSE found) /\ UNCHANGED nfaults
    <2>1. s = (IF err # "0" THEN NextCopy(r, err) ELSE found) /\ nfaults' = nfaults
      BY <1>5, <1>8, Zenon
    <2>2. CASE err = "0"
      BY <1>4, <1>6, <2>1, <2>2, Zenon
    <2>3. CASE err # "0"
      BY <1>1, <1>3, <1>4, <1>7, <2>1, <2>3, Zenon
    <2>4. QED  BY <2>2, <2>3, Zenon
  <1>9. CASE Become(c, NextCopy(r, "EBUSY")) /\ \E kind : Lost(kind)
    <2>1. s = NextCopy(r, "EBUSY") /\ nfaults = 0 /\ nfaults' = 1
      BY <1>5, <1>9, LostFirst, Zenon
    <2>2. QED  BY <1>1, <1>7, <2>1, Zenon
  <1>10. QED  BY <1>1, <1>8, <1>9, Zenon

LEMMA StatEnds ==
    ASSUME DOMAIN cl = Clients, NEW c \in Clients, NEW r, r = cl[c], CType(r), Plainly(r), gkfs_stat(c), r.pc = "gkfs_stat",
           NEW s, s = cl'[c], r.md.mode \in Modes
    PROVE  s.pc = "done" /\ s.ret = 0
  <1>1. r = cl[c] /\ s = cl'[c] /\ CType(r) /\ Plainly(r) /\ r.md.mode \in Modes
    OBVIOUS
  <1>2. r.md # NoEntry /\ r.md.blocks # -1 /\ r.md.target = NoPath
    BY <1>1, PlainEntries, Zenon DEF Plainly, PlainEntry
  <1>3. Become(c, Success(r))
    BY <1>1, <1>2, Zenon DEF gkfs_stat, LookUp, Local
  <1>4. s = Success(r)
    BY <1>1, <1>3, Zenon DEF Become
  <1>5. QED  BY <1>1, <1>4, Zenon DEF Success, CType, RFields

LEMMA FindsStep ==
    ASSUME Setting, Replicas # 0, DOMAIN cl = Clients, DOMAIN db = Hosts, \A h \in Hosts : PlainStore(db[h]),
           MaxFaults \in Nat, MaxFaults <= 1, nfaults \in {0, 1}, Tame,
           NEW c \in Clients, NEW r, r = cl[c], CType(r), Plainly(r), Step(c), NEW s, s = cl'[c], Goes(r, s),
           NEW must, Finds(r, must), NEW m,
           r.op.kind = "stat" => m \subseteq must /\ \A p \in m : p \notin TakenAway' /\ Good(p, Replicas + 1)
    PROVE  Finds(s, m)'
  <1> DEFINE p == r.op.path
  <1>0. r = cl[c] /\ s = cl'[c] /\ CType(r) /\ Plainly(r) /\ Goes(r, s) /\ Finds(r, must)
    OBVIOUS
  <1>1. s.op = r.op /\ r.pc # "done" /\ p \in Paths /\ r.copy \in Copies
    BY <1>0, StepAt, Zenon DEF Goes, CType
  <1>2. SUFFICES ASSUME r.op.kind = "stat", p \in m
                 PROVE  /\ s.pc = "stat" /\ s.copy # 0 =>
                              nfaults' = 1 /\ \A j \in Copies : j >= s.copy => Readable(p, j)'
                        /\ s.pc = "gkfs_stat" => s.md.mode \in Modes
                        /\ s.pc = "done" => s.ret = 0
    BY <1>1, Zenon DEF Finds
  <1>3. p \in must /\ p \notin TakenAway' /\ Good(p, Replicas + 1)
    BY <1>2, Zenon
  <1>4. CASE r.pc = "gkfs_stat"
    <2>1. gkfs_stat(c) /\ r.md.mode \in Modes
      BY <1>0, <1>2, <1>3, <1>4, StepAt, Zenon DEF Finds
    <2>2. s.pc = "done" /\ s.ret = 0
      BY <1>0, <1>4, <2>1, StatEnds, Zenon
    <2>3. QED  BY <2>2
  <1>5. CASE r.pc = "stat"
    <2>1. forward_stat(c) /\ r.cur = p /\ r.k = "gkfs_stat"
      BY <1>0, <1>2, <1>5, StepAt, Zenon DEF Plainly
    <2>2. \/ s.pc = r.k /\ s.md.mode \in Modes
          \/ /\ \/ ~Readable(r.cur, r.copy) /\ nfaults' = nfaults
                \/ nfaults = 0 /\ nfaults' = 1
             /\ r.copy < Replicas => s.pc = "stat" /\ s.copy = r.copy + 1
      BY <1>0, <1>1, <2>1, StatStep, Zenon
    <2>3. CASE s.pc = r.k /\ s.md.mode \in Modes
      BY <2>1, <2>3
    <2>4. CASE /\ \/ ~Readable(r.cur, r.copy) /\ nfaults' = nfaults
                  \/ nfaults = 0 /\ nfaults' = 1
               /\ r.copy < Replicas => s.pc = "stat" /\ s.copy = r.copy + 1
      <3>1. r.copy = 0
        <4>1. SUFFICES ASSUME r.copy # 0 PROVE FALSE
          OBVIOUS
        <4>2. nfaults = 1 /\ \A j \in Copies : j >= r.copy => Readable(p, j)
          BY <1>0, <1>2, <1>3, <1>5, <4>1, Zenon DEF Finds
        <4>3. r.copy >= r.copy /\ ~(nfaults = 0)
          BY <1>1, <4>2 DEF Copies, Setting
        <4>4. QED  BY <1>1, <2>1, <2>4, <4>2, <4>3, Zenon
      <3>2. r.copy < Replicas /\ r.copy + 1 = 1
        BY <3>1 DEF Setting
      <3>3. s.pc = "stat" /\ s.copy = 1
        BY <2>4, <3>2, Zenon
      <3>4. \A j \in Copies : j < Replicas + 1 /\ (j >= 1 => j # r.copy)
        BY <3>1 DEF Copies, Setting
      <3>5. nfaults' = 1 /\ \A j \in Copies : j >= 1 => Readable(p, j)
        <4>1. CASE ~Readable(r.cur, r.copy) /\ nfaults' = nfaults
          BY <1>1, <1>3, <2>1, <3>4, <4>1, Zenon DEF Good
        <4>2. CASE nfaults = 0 /\ nfaults' = 1
          <5>1. nfaults # 1
            BY <4>2
          <5>2. QED  BY <1>3, <3>4, <4>2, <5>1, Zenon DEF Good
        <4>3. QED  BY <2>4, <4>1, <4>2, Zenon
      <3>6. \A j \in Copies : j >= 1 => Readable(p, j)'
        BY <1>1, <1>3, <3>5, Zenon DEF Tame
      <3>7. s.pc # "gkfs_stat" /\ s.pc # "done"
        BY <3>3
      <3>8. QED  BY <3>3, <3>5, <3>6, <3>7, Zenon
    <2>5. QED  BY <2>2, <2>3, <2>4, Zenon
  <1>6. r.pc = "stat" \/ r.pc = "gkfs_stat"
    BY <1>0, <1>1, <1>2 DEF Plainly
  <1>7. QED  BY <1>4, <1>5, <1>6, Zenon

(* The first record of a call on plain entries.                            *)
LEMMA PlainBegins ==
    ASSUME Setting, PlainCalls, NEW x, DOMAIN x = RFields, x.op \in Calls, PlainEntry(x.md), x.cur \in Paths
    PROVE  LET s == Begin(x) IN
           /\ Plainly(s) /\ s.op = x.op
           /\ Creates(s) => ~Past(s) /\ (s.pc = "create" => s.copy = 0)
           /\ s.op.kind = "stat" => s.pc = "stat" /\ s.copy = 0
  <1> DEFINE p == x.op.path
             kind == x.op.kind
             s == Begin(x)
             Asked(t, q, k) == /\ t.op = x.op /\ t.copy = 0 /\ t.md = x.md
                               /\ t.cur = q /\ t.pc = "stat" /\ t.k = k
  <1>1. /\ kind \in Kinds /\ p \in Paths /\ Parent(p) \in Paths
        /\ kind \notin {"rename", "write"} /\ ("creat" \in x.op.flags => kind = "open")
    BY Zenon DEF Setting, PlainCalls
  <1>2. \A q, k : Asked(get_metadata(x, q, k), q, k)
    BY Zenon DEF RFields, get_metadata
  <1>3. LET t == create_all(x) IN t.op = x.op /\ t.copy = 0 /\ t.md = x.md /\ t.cur = x.cur /\ t.pc = "create"
    BY Zenon DEF RFields, create_all
  <1>4. LET t == Remove(x, p, "removed") IN
          t.op = x.op /\ t.md = x.md /\ t.cur = p /\ t.pc = "rm" /\ t.k = "removed"
    BY Zenon DEF RFields, Remove
  <1> DEFINE Goal(t) == /\ Plainly(t) /\ t.op = x.op
                        /\ Creates(t) => ~Past(t) /\ (t.pc = "create" => t.copy = 0)
                        /\ t.op.kind = "stat" => t.pc = "stat" /\ t.copy = 0
  <1>5. CASE kind = "mkdir" \/ (kind = "open" /\ "creat" \in x.op.flags)
    <2>1. s = gkfs_create(x)
      BY <1>5 DEF Begin
    <2>2. s = IF CheckParents THEN get_metadata(x, Parent(p), "parent") ELSE create_all(x)
      BY <2>1, Zenon DEF gkfs_create
    <2> HIDE DEF s
    <2>3. /\ s.op = x.op /\ s.copy = 0 /\ s.md = x.md /\ s.cur \in Paths
          /\ (s.pc = "stat" /\ s.k = "parent") \/ s.pc = "create"
      <3>1. CASE CheckParents
        <4>1. Asked(s, Parent(p), "parent")
          <5> HIDE DEF Asked
          <5>1. QED  BY <1>2, <2>2, <3>1, Zenon
        <4>2. QED  BY <1>1, <4>1, Zenon
      <3>2. CASE ~CheckParents
        BY <1>3, <2>2, <3>2, Zenon
      <3>3. QED  BY <3>1, <3>2, Zenon
    <2>4. kind # "stat" /\ ~Past(s)
      BY <1>5, <2>3 DEF Past
    <2>5. /\ s.pc \notin Odd /\ (s.pc = "stat" => s.k \notin Odd) /\ s.pc \notin {"rm", "rmdata"} /\ s.pc # "rm"
      BY <2>3 DEF Odd
    <2>6. Plainly(s)
      BY <1>1, <2>3, <2>4, <2>5, Zenon DEF Plainly
    <2>7. Goal(s)
      BY <2>3, <2>4, <2>6, Zenon
    <2>8. QED  BY <2>7, Zenon DEF s
  <1>6. ASSUME NEW k, Asked(s, p, k), k \notin Odd \cup {"parent"}, kind # "mkdir", "creat" \notin x.op.flags,
               kind = "stat" => k = "gkfs_stat"
        PROVE  Goal(s)
    <2> HIDE DEF s
    <2>1. /\ s.pc \notin Odd /\ s.k \notin Odd /\ s.pc \notin {"rm", "rmdata"} /\ s.pc # "rm"
          /\ s.pc \in {"stat", "gkfs_stat", "done"}
      BY <1>6 DEF Odd
    <2>2. Plainly(s)
      BY <1>1, <1>6, <2>1, Zenon DEF Plainly
    <2>3. ~Creates(s)
      BY <1>6, Zenon DEF Creates
    <2>4. QED  BY <1>6, <2>2, <2>3, Zenon
  <1>7. CASE kind = "rmdir"
    <2>1. s = IF CheckParents THEN get_metadata(x, p, "rmdir") ELSE Remove(x, p, "removed")
      BY <1>7 DEF Begin
    <2>2. kind # "mkdir" /\ kind # "stat" /\ "creat" \notin x.op.flags /\ "rmdir" \notin Odd \cup {"parent"}
      BY <1>1, <1>7 DEF Odd
    <2> HIDE DEF s
    <2>3. CASE CheckParents
      <3>1. Asked(s, p, "rmdir")
        <4> HIDE DEF Asked
        <4>1. QED  BY <1>2, <2>1, <2>3, Zenon
      <3>2. Goal(s)
        <4> HIDE DEF Asked, Goal
        <4>1. QED  BY <1>6, <2>2, <3>1, Zenon
      <3>3. QED  BY <3>2, Zenon DEF s
    <2>4. CASE ~CheckParents
      <3>1. s.op = x.op /\ s.md = x.md /\ s.cur = p /\ s.pc = "rm" /\ s.k = "removed"
        BY <1>4, <2>1, <2>4, Zenon
      <3>2. s.pc \notin Odd /\ s.pc # "stat"
        BY <3>1 DEF Odd
      <3>3. Plainly(s)
        BY <1>1, <2>2, <3>1, <3>2, Zenon DEF Plainly
      <3>4. ~Creates(s)
        BY <2>2, <3>1, Zenon DEF Creates
      <3>5. QED  BY <2>2, <3>1, <3>3, <3>4, Zenon DEF s
    <2>5. QED  BY <2>3, <2>4, Zenon
  <1>8. CASE \/ kind = "open" /\ "creat" \notin x.op.flags
             \/ kind \in {"stat", "statx", "access", "remove"}
    <2>1. PICK k : /\ s = get_metadata(x, p, k)
                   /\ k \in {"open", "gkfs_stat", "gkfs_statx", "gkfs_access", "remove"}
                   /\ kind = "stat" => k = "gkfs_stat"
      BY <1>8 DEF Begin
    <2>2. k \notin Odd \cup {"parent"}
      BY <2>1 DEF Odd
    <2>3. kind # "mkdir" /\ "creat" \notin x.op.flags
      BY <1>1, <1>8
    <2> HIDE DEF s
    <2>4. Asked(s, p, k)
      <3> HIDE DEF Asked
      <3>1. QED  BY <1>2, <2>1, Zenon
    <2>5. Goal(s)
      <3> HIDE DEF Asked, Goal
      <3>1. QED  BY <1>6, <2>1, <2>2, <2>3, <2>4, Zenon
    <2>6. QED  BY <2>5, Zenon DEF s
  <1>9. QED  BY <1>1, <1>5, <1>7, <1>8 DEF Kinds

-----------------------------------------------------------------------------
(* What is known of client d, for its record and its span.                 *)
Hides(r, must, may) ==
    /\ Control(r) /\ Makes(r, may) /\ Finds(r, must)
    /\ r.pc # "idle" => Plainly(r)

LEMMA HidesOf ==
    ASSUME HiddenInv, NEW d \in Clients
    PROVE  Hides(cl[d], span[d].must, span[d].may)
  BY Zenon DEF HiddenInv, Hides

LEMMA OthersHide ==
    ASSUME Tame, History, HiddenInv, NEW d \in Clients, NEW r, r = cl[d], r = cl'[d],
           NEW m, m = span'[d].must, NEW n, n = span'[d].may
    PROVE  Hides(r, m, n)'
  <1>0. r = cl[d] /\ r = cl'[d] /\ m = span'[d].must /\ n = span'[d].may
    OBVIOUS
  <1>1. Control(r) /\ Makes(r, span[d].may) /\ Finds(r, span[d].must) /\ (r.pc # "idle" => Plainly(r))
    BY <1>0, HidesOf, Zenon DEF Hides
  <1>2. CType(r)
    BY <1>1, Zenon DEF Control
  <1>3. r.pc # "idle" /\ Creates(r) => r.op.kind # "stat"
    <2>1. r.pc # "idle" /\ Creates(r) => r.op.kind = "mkdir" \/ r.op.kind = "open"
      BY <1>1, Zenon DEF Plainly, Creates
    <2>2. QED  BY <2>1
  <1>4. r.pc # "idle" /\ Creates(r) => span[d].may \subseteq n /\ TakenAway' \subseteq n
    BY <1>0, <1>3, HistoryOf, Zenon DEF Creates
  <1>5. r.pc # "idle" /\ r.op.kind = "stat" => m \subseteq span[d].must /\ \A p \in m : p \notin TakenAway'
    BY <1>0, HistoryOf, Zenon
  <1>6. Makes(r, n)'
    <2>1. PICK may : may = span[d].may
      OBVIOUS
    <2>2. QED  BY <1>1, <1>2, <1>4, <2>1, MakesKept, Zenon
  <1>7. Finds(r, m)'
    <2>1. PICK must : must = span[d].must
      OBVIOUS
    <2>2. QED  BY <1>1, <1>2, <1>5, <2>1, FindsKept, Zenon
  <1>8. QED  BY <1>1, <1>6, <1>7, Zenon DEF Hides

LEMMA HiddenNext ==
    ASSUME Setting, Tame, History, HiddenInv, NEW c \in Clients, DOMAIN cl' = Clients,
           \A d \in Clients : d # c => cl'[d] = cl[d],
           NEW s, s = cl'[c], NEW m, m = span'[c].must, NEW n, n = span'[c].may, Hides(s, m, n)'
    PROVE  HiddenInv'
  <1>0. s = cl'[c] /\ m = span'[c].must /\ n = span'[c].may
    OBVIOUS
  <1>1. ASSUME NEW d \in Clients PROVE \E r, x, y : r = cl'[d] /\ x = span'[d].must /\ y = span'[d].may /\ Hides(r, x, y)'
    <2>1. CASE d = c
      BY <1>0, <2>1, Zenon
    <2>2. CASE d # c
      <3>1. PICK r, x, y : r = cl'[d] /\ x = span'[d].must /\ y = span'[d].may
        OBVIOUS
      <3>2. r = cl[d]
        BY <2>2, <3>1, Zenon
      <3>3. Hides(r, x, y)'
        BY <3>1, <3>2, OthersHide, Zenon
      <3>4. QED  BY <3>1, <3>3, Zenon
    <2>3. QED  BY <2>1, <2>2, Zenon
  <1>2. ASSUME NEW p \in made' PROVE p \in Paths /\ Good(p, Replicas + 1)'
    <2>1. p \notin TakenAway'
      BY <1>2, HistoryOf, Zenon
    <2>2. CASE p \in made
      <3>1. p \in Paths /\ Good(p, Replicas + 1)
        BY <2>2, Zenon DEF HiddenInv
      <3>2. QED  BY <2>1, <3>1, GoodKept, Zenon
    <2>3. CASE p \notin made
      <3>1. PICK d \in Clients : /\ cl'[d].pc = "done" /\ cl'[d].ret = 0 /\ Creates(cl'[d])
                                 /\ cl'[d].op.path = p /\ p \notin span[d].may
        BY <1>2, <2>3, Zenon DEF History
      <3>2. PICK r, x, y : r = cl'[d] /\ x = span'[d].must /\ y = span'[d].may /\ Hides(r, x, y)'
        BY <1>1, Zenon
      <3>3. r.pc = "done" /\ r.ret = 0 /\ r.op.path = p /\ Creates(r)
        BY <3>1, <3>2, Zenon DEF Creates
      <3>4. r.pc # "idle" /\ Past(r)
        BY <3>3 DEF Past
      <3>5. CType(r) /\ Plainly(r) /\ Makes(r, y)'
        BY <3>2, <3>4, Zenon DEF Hides, Control, CType, Plainly
      <3>6. r.op.kind # "stat"
        <4>1. r.op.kind = "mkdir" \/ r.op.kind = "open"
          BY <3>3, <3>5, Zenon DEF Plainly, Creates
        <4>2. QED  BY <4>1
      <3>7. p \notin y
        BY <2>1, <3>1, <3>2, <3>6, HistoryOf, Zenon
      <3>8. Good(p, Replicas + 1)'
        BY <3>3, <3>4, <3>5, <3>7, Zenon DEF Makes, Past, Creates
      <3>9. QED  BY <3>3, <3>5, <3>8, Zenon DEF CType
    <2>4. QED  BY <2>2, <2>3, Zenon
  <1>3. ASSUME NEW d \in Clients
        PROVE  /\ Control(cl[d])' /\ Makes(cl[d], span[d].may)' /\ Finds(cl[d], span[d].must)'
               /\ cl'[d].pc # "idle" => Plainly(cl[d])'
               /\ cl'[d].op.kind = "stat" => span'[d].must \subseteq made'
    <2>1. PICK r, x, y : r = cl'[d] /\ x = span'[d].must /\ y = span'[d].may /\ Hides(r, x, y)'
      BY <1>1, Zenon
    <2>2. Control(cl[d])'
      BY <2>1, Zenon DEF Hides, Control, CType, Flow, Within, Creates
    <2>3. Makes(cl[d], span[d].may)'
      BY <2>1, Zenon DEF Hides, Makes, Past, Creates, Good, Readable, locate_file_metadata
    <2>4. Finds(cl[d], span[d].must)'
      BY <2>1, Zenon DEF Hides, Finds, Readable, locate_file_metadata
    <2>5. cl'[d].pc # "idle" => Plainly(cl[d])'
      BY <2>1, Zenon DEF Hides, Plainly, PlainEntry
    <2>6. QED  BY <2>2, <2>3, <2>4, <2>5, HistoryOf, Zenon
  <1>4. DOMAIN db' = Hosts /\ (\A h \in Hosts : PlainStore(db[h])') /\ nfaults' \in {0, 1}
    BY Zenon DEF Tame, PlainStore, DType, PlainEntry
  <1>5. QED  BY <1>2, <1>3, <1>4, Zenon DEF HiddenInv

LEMMA PlainInvokes ==
    ASSUME Setting, PlainCalls, DOMAIN cl = Clients, NEW c \in Clients, NEW op \in Calls, Invoke(c, op),
           NEW s, s = cl'[c]
    PROVE  /\ UNCHANGED <<db, nfaults>> /\ Plainly(s)
           /\ Creates(s) => ~Past(s) /\ (s.pc = "create" => s.copy = 0)
           /\ s.op.kind = "stat" => s.pc = "stat" /\ s.copy = 0
  <1> DEFINE x == [Idle EXCEPT !.op = op, !.id = ncalls + 1, !.fds = cl[c].fds]
  <1>1. DOMAIN x = RFields /\ x.op = op /\ x.md = NoEntry /\ x.cur = Root
    <2>1. DOMAIN Idle = RFields /\ Idle.md = NoEntry /\ Idle.cur = Root
      BY DEF Idle, RFields
    <2>2. /\ "op" \in RFields /\ "id" # "op" /\ "fds" # "op" /\ "md" \in RFields /\ "cur" \in RFields
          /\ "md" # "op" /\ "md" # "id" /\ "md" # "fds" /\ "cur" # "op" /\ "cur" # "id" /\ "cur" # "fds"
      BY DEF RFields
    <2>3. QED  BY <2>1, <2>2, Zenon
  <1>2. cl' = [cl EXCEPT ![c] = Begin(x)] /\ UNCHANGED <<db, nfaults>>
    BY Zenon DEF Invoke, Become
  <1>3. PlainEntry(x.md) /\ x.cur \in Paths
    BY <1>1, PlainEntries, Zenon DEF Setting
  <1> HIDE DEF x
  <1>4. s = Begin(x)
    BY <1>2, Zenon
  <1>5. QED  BY <1>1, <1>2, <1>3, <1>4, PlainBegins, Zenon

LEMMA HiddenStep ==
    ASSUME Setting, Replicas # 0, MaxFaults \in Nat, MaxFaults <= 1, PlainCalls, HiddenInv, [Next]_vars
    PROVE  HiddenInv'
  <1>0. /\ DOMAIN cl = Clients /\ DOMAIN db = Hosts /\ nfaults \in {0, 1}
        /\ \A h \in Hosts : PlainStore(db[h])
    BY Zenon DEF HiddenInv
  <1>1. ASSUME UNCHANGED <<db, nfaults>> PROVE Tame
    <2>1. DOMAIN db' = Hosts /\ (\A h \in Hosts : PlainStore(db'[h])) /\ Loses
      BY <1>0, <1>1, Zenon DEF Loses
    <2>2. \A g \in Hosts, q \in Paths : db[g][q].mode \in Modes => db'[g][q].mode \in Modes \/ q \in TakenAway'
      BY <1>1, Zenon
    <2>3. QED  BY <1>0, <2>1, <2>2, TameFrom, Zenon
  <1>2. ASSUME NEW c \in Clients, NEW op \in Calls, Invoke(c, op), History PROVE HiddenInv'
    <2>1. PICK s, m, n : s = cl'[c] /\ m = span'[c].must /\ n = span'[c].may
      OBVIOUS
    <2>2. /\ DOMAIN cl' = Clients /\ Started(s, op)
          /\ \A d \in Clients : d # c => cl'[d] = cl[d]
      BY <1>0, <1>2, <2>1, Invokes, Zenon
    <2>3. /\ UNCHANGED <<db, nfaults>> /\ Plainly(s)
          /\ Creates(s) => ~Past(s) /\ (s.pc = "create" => s.copy = 0)
          /\ s.op.kind = "stat" => s.pc = "stat" /\ s.copy = 0
      BY <1>0, <1>2, <2>1, PlainInvokes, Zenon
    <2>4. Control(s)
      BY <2>2, Zenon DEF Started, Control
    <2>5. Makes(s, n)'
      <3>1. \A i \in Copies : ~(i < 0)
        BY DEF Copies, Setting
      <3>2. \A p : Good(p, 0)'
        BY <3>1, Zenon DEF Good
      <3>3. Creates(s) => ~Past(s) /\ (s.pc = "create" => Good(s.op.path, s.copy)')
        BY <2>3, <3>2, Zenon
      <3>4. QED  BY <3>3, Zenon DEF Makes, Past, Creates
    <2>6. Finds(s, m)'
      <3>1. s.pc = "stat" => s.pc # "gkfs_stat" /\ s.pc # "done"
        OBVIOUS
      <3>2. QED  BY <2>3, <3>1, Zenon DEF Finds
    <2>7. Hides(s, m, n)'
      BY <2>3, <2>4, <2>5, <2>6, Zenon DEF Hides
    <2>8. QED  BY <1>1, <1>2, <2>1, <2>2, <2>3, <2>7, HiddenNext, Zenon
  <1>3. ASSUME NEW c \in Clients, Step(c), History PROVE HiddenInv'
    <2>1. PICK r, must, may : r = cl[c] /\ must = span[c].must /\ may = span[c].may
      OBVIOUS
    <2>2. PICK s, m, n : s = cl'[c] /\ m = span'[c].must /\ n = span'[c].may
      OBVIOUS
    <2>3. CType(r) /\ Flow(r) /\ Plainly(r) /\ Makes(r, may) /\ Finds(r, must) /\ r.pc # "idle"
      <3>1. r.pc # "idle"
        BY <1>3, <2>1, Busy, Zenon
      <3>2. Hides(r, must, may)
        BY <2>1, HidesOf, Zenon
      <3>3. QED  BY <3>1, <3>2, Zenon DEF Hides, Control
    <2>4. /\ DOMAIN cl' = Clients /\ Goes(r, s)
          /\ \A d \in Clients : d # c => cl'[d] = cl[d]
      BY <1>0, <1>3, <2>1, <2>2, <2>3, Moves, Zenon
    <2>5. Tame
      BY <1>0, <1>3, <2>1, <2>3, StepTame, Zenon
    <2>6. Plainly(s)
      <3>1. PlainMoved(c)
        BY <1>0, <1>3, <2>1, <2>3, PlainMoves, Zenon
      <3>2. QED  BY <1>0, <2>2, <3>1, Zenon DEF PlainMoved, Become
    <2>7. Control(s) /\ s.op = r.op
      <3>1. s.op = r.op /\ DOMAIN s = RFields /\ s.copy \in Copies /\ Flow(s)
        BY <2>4, Zenon DEF Goes
      <3>2. QED  BY <2>3, <3>1, Zenon DEF Control, CType
    <2>8. Makes(s, n)'
      <3>1. Creates(r) => r.op.kind # "stat"
        <4>1. Creates(r) => r.op.kind = "mkdir" \/ r.op.kind = "open"
          BY <2>3, Zenon DEF Plainly, Creates
        <4>2. QED  BY <4>1
      <3>2. Creates(r) => may \subseteq n /\ TakenAway' \subseteq n
        BY <1>3, <2>1, <2>2, <2>3, <2>7, <3>1, HistoryOf, Zenon DEF Creates
      <3>3. QED  BY <1>0, <1>3, <2>1, <2>2, <2>3, <2>4, <2>5, <3>2, MakesStep, Zenon
    <2>9. Finds(s, m)'
      <3>1. r.op.kind = "stat" => m \subseteq must /\ \A p \in m : p \notin TakenAway'
        BY <1>3, <2>1, <2>2, <2>3, <2>7, HistoryOf, Zenon
      <3>2. r.op.kind = "stat" => must \subseteq made
        BY <2>1, Zenon DEF HiddenInv
      <3>3. r.op.kind = "stat" => m \subseteq must /\ \A p \in m : p \notin TakenAway' /\ Good(p, Replicas + 1)
        BY <3>1, <3>2, Zenon DEF HiddenInv
      <3>4. QED  BY <1>0, <1>3, <2>1, <2>2, <2>3, <2>4, <2>5, <3>3, FindsStep, Zenon
    <2>10. Hides(s, m, n)'
      BY <2>6, <2>7, <2>8, <2>9, Zenon DEF Hides
    <2>11. QED  BY <1>3, <2>2, <2>4, <2>5, <2>10, HiddenNext, Zenon
  <1>4. ASSUME NEW c \in Clients, Return(c), History PROVE HiddenInv'
    <2>1. PICK s, m, n : s = cl'[c] /\ m = span'[c].must /\ n = span'[c].may
      OBVIOUS
    <2>2. /\ DOMAIN cl' = Clients /\ s.pc = "idle" /\ CType(s)
          /\ \A d \in Clients : d # c => cl'[d] = cl[d]
      BY <1>0, <1>4, <2>1, ReturnsIdle, Zenon
    <2>3. UNCHANGED <<db, nfaults>>
      BY <1>4, Zenon DEF Return
    <2>4. ~Past(s) /\ s.pc # "create" /\ s.pc # "stat" /\ s.pc # "gkfs_stat" /\ s.pc # "done"
      BY <2>2 DEF Past
    <2>5. Makes(s, n)' /\ Finds(s, m)'
      BY <2>4, Zenon DEF Makes, Past, Finds
    <2>6. Hides(s, m, n)'
      BY <2>2, <2>5, Zenon DEF Hides, Control
    <2>7. QED  BY <1>1, <1>4, <2>1, <2>2, <2>3, <2>6, HiddenNext, Zenon
  <1>5. CASE UNCHANGED vars
    <2>1. UNCHANGED <<db, cl, nfaults, made, span>>
      BY <1>5, Zenon DEF vars
    <2>2. /\ DOMAIN cl' = Clients /\ DOMAIN db' = Hosts /\ nfaults' \in {0, 1}
          /\ \A h \in Hosts : PlainStore(db[h])'
      BY <1>0, <2>1, Zenon DEF PlainStore, DType, PlainEntry
    <2>3. ASSUME NEW p \in made' PROVE p \in Paths /\ Good(p, Replicas + 1)'
      <3>1. p \in Paths /\ Good(p, Replicas + 1)
        BY <2>1, <2>3, Zenon DEF HiddenInv
      <3>2. QED  BY <2>1, <3>1, Zenon DEF Good, Readable, locate_file_metadata
    <2>4. ASSUME NEW d \in Clients
          PROVE  /\ Control(cl[d])' /\ Makes(cl[d], span[d].may)' /\ Finds(cl[d], span[d].must)'
                 /\ cl'[d].pc # "idle" => Plainly(cl[d])'
                 /\ cl'[d].op.kind = "stat" => span'[d].must \subseteq made'
      <3>1. /\ Control(cl[d]) /\ Makes(cl[d], span[d].may) /\ Finds(cl[d], span[d].must)
            /\ cl[d].pc # "idle" => Plainly(cl[d])
            /\ cl[d].op.kind = "stat" => span[d].must \subseteq made
        BY Zenon DEF HiddenInv
      <3>2. Control(cl[d])'
        BY <2>1, <3>1, Zenon DEF Control, CType, Flow, Within, Creates
      <3>3. Makes(cl[d], span[d].may)'
        BY <2>1, <3>1, Zenon DEF Makes, Past, Creates, Good, Readable, locate_file_metadata
      <3>4. Finds(cl[d], span[d].must)'
        BY <2>1, <3>1, Zenon DEF Finds, Readable, locate_file_metadata
      <3>5. cl'[d].pc # "idle" => Plainly(cl[d])'
        BY <2>1, <3>1, Zenon DEF Plainly, PlainEntry
      <3>6. QED  BY <2>1, <3>1, <3>2, <3>3, <3>4, <3>5, Zenon
    <2>5. QED  BY <2>2, <2>3, <2>4, Zenon DEF HiddenInv
  <1>6. QED  BY <1>2, <1>3, <1>4, <1>5, Zenon DEF Next, Progress

LEMMA HiddenInit ==
    ASSUME Setting, Init
    PROVE  HiddenInv
  <1>1. DOMAIN cl = Clients /\ DOMAIN db = Hosts /\ nfaults = 0 /\ made = {} /\ \A c \in Clients : cl[c] = Idle
    BY Zenon DEF Init
  <1>2. ASSUME NEW h \in Hosts PROVE PlainStore(db[h])
    <2>1. DOMAIN db[h] = Paths /\ \A q \in Paths : db[h][q] = NewEntry("dir", 0) \/ db[h][q] = NoEntry
      BY Zenon DEF Init
    <2>2. "dir" \in Modes
      BY DEF Modes
    <2>3. /\ PlainEntry(NewEntry("dir", 0)) /\ DOMAIN NewEntry("dir", 0) = EFields
          /\ PlainEntry(NoEntry) /\ DOMAIN NoEntry = EFields
      BY <2>2, PlainEntries, EntryFields, Zenon
    <2>4. QED  BY <2>1, <2>3, Zenon DEF PlainStore, DType
  <1>3. CType(Idle) /\ Idle.pc = "idle" /\ Idle.op.kind = "none"
    BY DEF Idle, RFields, CType, NoCall, Call, Copies, Setting
  <1>4. /\ Idle.pc # "create" /\ ~Past(Idle) /\ Idle.pc # "stat" /\ Idle.pc # "gkfs_stat" /\ Idle.pc # "done"
        /\ Idle.op.kind # "stat" /\ nfaults \in {0, 1}
    BY <1>1, <1>3 DEF Past
  <1>5. \A m, n : Control(Idle) /\ Makes(Idle, n) /\ Finds(Idle, m)
    BY <1>3, <1>4, Zenon DEF Control, Makes, Finds
  <1>6. QED  BY <1>1, <1>2, <1>3, <1>4, <1>5, Zenon DEF HiddenInv

(* With at least one more copy of every entry, one lost request or answer  *)
(* is hidden: once a creation succeeded, and until someone begins to       *)
(* remove the entry, every stat of it succeeds.  Of its copies at most one *)
(* is missing, and only by the lost message, so that get_metadata, which   *)
(* goes on to the next copy, meets the other ones.  For any number of      *)
(* clients, daemons, copies and calls that neither rename nor write: after *)
(* a rename the statement fails (README, "Disagreements").                 *)
THEOREM HiddenCorrect ==
    ASSUME Setting, Replicas # 0, MaxFaults \in Nat, MaxFaults <= 1, PlainCalls
    PROVE  Spec => []OneFailureHidden
  <1>1. Init => HiddenInv
    BY HiddenInit, Zenon
  <1>2. HiddenInv /\ [Next]_vars => HiddenInv'
    BY HiddenStep, Zenon
  <1>3. HiddenInv => OneFailureHidden
    BY Zenon DEF HiddenInv, OneFailureHidden, Finds, Done, At
  <1>4. QED  BY <1>1, <1>2, <1>3, PTL DEF Spec
=============================================================================
