----------------------------- MODULE DirEntries -----------------------------
(***************************************************************************)
(* The way of directory entries from the daemons to the application.  A    *)
(* daemon lays its entries out in a buffer which is pushed into the        *)
(* client's memory; the client decodes it and keeps the entries with the   *)
(* descriptor; getdents lays them out once more, as many as fit, in the    *)
(* records the kernel would return.  Buffers are functions from offsets to *)
(* bytes, and a byte is <<field, value, number of the byte>>.              *)
(***************************************************************************)
EXTENDS Naturals, Sequences, SequencesExt

CONSTANTS Threads,
          Hosts,         \* a sequence
          BuffSize,      \* dirents_buff_size
          Contents,      \* what the daemons may hold: Hosts -> Seq(Entry)
          NameSize(_),
          Extended,      \* opendir uses get_dirents_extended (dentry cache)
          Counts,        \* buffer sizes of the application
          Seeks,         \* whether the application seeks
          Record         \* "getdents", "getdents64" or "extended"

VARIABLES held,    \* the entries of every daemon
          out,     \* the answers of the daemons
          dir,     \* OpenDir: entries_ and pos_
          th,
          got,     \* what the application has decoded since it last seeked
          from,    \* where it seeked to
          seen,    \* positions of all entries any thread was given
          single   \* the last answer of gkfs_getsingleserverdir

vars == <<held, out, dir, th, got, from, seen, single>>

Nul == <<"nul", 0, 0>>
Fresh(size) == [o \in 0 .. size - 1 |-> <<"fresh", 0, 0>>]
Field(name, at, width, value) == [name |-> name, at |-> at, width |-> width, value |-> value]
(* strcpy: the characters and the terminator *)
Chars(at, name) == Field("name", at, NameSize(name), name)

Store(buf, f) ==
  [o \in DOMAIN buf |->
     IF o >= f.at /\ o < f.at + f.width THEN <<f.name, f.value, o - f.at>>
     ELSE IF f.name = "name" /\ o = f.at + f.width THEN Nul ELSE buf[o]]
StoreAll(buf, fs) == FoldLeft(Store, buf, fs)

(* What a load of the field finds, with a default for bytes of others. *)
Load(buf, name, at, width, default) ==
  IF at \in DOMAIN buf /\ buf[at][1] = name
     /\ \A k \in 0 .. width - 1 : at + k \in DOMAIN buf /\ buf[at + k] = <<name, buf[at][2], k>>
  THEN buf[at][2] ELSE default
LoadName(buf, at) ==
  LET n == Load(buf, "name", at, 1, "")
  IN IF n # "" /\ Load(buf, "name", at, NameSize(n), "") = n
        /\ at + NameSize(n) \in DOMAIN buf /\ buf[at + NameSize(n)] = Nul
     THEN n ELSE ""

-----------------------------------------------------------------------------
(* The buffer of a daemon: all types, then (extended) all sizes and all    *)
(* times, then the names.                                                  *)
Before(es, j) == FoldLeft(LAMBDA x, e : x + NameSize(e.name) + 1, 0, SubSeq(es, 1, j - 1))
FixedSize == IF Extended THEN 17 ELSE 1
Laid(es, j) ==
  LET n == Len(es)
  IN <<Field("dir", j - 1, 1, es[j].dir)>>
     \o (IF Extended THEN <<Field("size", n + 8 * (j - 1), 8, es[j].size),
                            Field("ctime", 9 * n + 8 * (j - 1), 8, es[j].ctime)>>
         ELSE <<>>)
     \o <<Chars(FixedSize * n + Before(es, j), es[j].name)>>

out_size_bare(es) == Len(es) * FixedSize + Before(es, Len(es) + 1) - Len(es)
out_size(es) == Len(es) * FixedSize + Before(es, Len(es) + 1)

Serialize(es) ==
  StoreAll(Fresh(out_size(es)), FlattenSeq([j \in 1 .. Len(es) |-> Laid(es, j)]))

PerHost == IF Extended THEN BuffSize ELSE BuffSize \div Len(Hosts)
Closed == [state |-> "closed", pos |-> 0, entries |-> <<>>]
NoAnswer == [done |-> FALSE, err |-> FALSE, n |-> 0, buf |-> Fresh(1)]

gkfs_opendir ==
  /\ dir.state = "closed"
  /\ dir' = [Closed EXCEPT !.state = "opening"]
  /\ UNCHANGED <<held, out, th, got, from, seen, single>>

rpc_srv_get_dirents(h) ==
  LET es == held[h]
  IN /\ dir.state = "opening" /\ ~out[h].done
     /\ out' = [out EXCEPT ![h] =
          IF PerHost < out_size(es)
          THEN [done |-> TRUE, err |-> TRUE, n |-> 0, buf |-> Fresh(1)]
          ELSE [done |-> TRUE, err |-> FALSE, n |-> Len(es), buf |-> Serialize(es)]]
     /\ UNCHANGED <<held, dir, th, got, from, seen, single>>

(* The client walks types, sizes, times and names with four pointers. *)
RECURSIVE DecodeFrom(_, _, _, _)
DecodeFrom(buf, n, j, names_ptr) ==
  IF j > n THEN <<>>
  ELSE LET name == LoadName(buf, names_ptr)
       IN <<[name |-> name, dir |-> Load(buf, "dir", j - 1, 1, FALSE),
             size |-> IF Extended THEN Load(buf, "size", n + 8 * (j - 1), 8, 0) ELSE 0,
             ctime |-> IF Extended THEN Load(buf, "ctime", 9 * n + 8 * (j - 1), 8, 0) ELSE 0]>>
          \o DecodeFrom(buf, n, j + 1, names_ptr + NameSize(name) + 1)
Decode_flat(buf, n) == DecodeFrom(buf, n, 1, n)
Decode(buf, n) == DecodeFrom(buf, n, 1, FixedSize * n)

(* All answers are gathered in the order of the daemons; without the cache *)
(* any error fails the call, with it the error of the last daemon does.    *)
Failed == IF Extended THEN out[Last(Hosts)].err ELSE \E h \in ToSet(Hosts) : out[h].err
forward_get_dirents ==
  /\ dir.state = "opening" /\ \A h \in ToSet(Hosts) : out[h].done
  /\ dir' = IF Failed THEN Closed
            ELSE [state |-> "open", pos |-> 0,
                  entries |-> FlattenSeq([i \in 1 .. Len(Hosts) |->
                                Decode(out[Hosts[i]].buf, out[Hosts[i]].n)])]
  /\ out' = [h \in ToSet(Hosts) |-> NoAnswer]
  /\ UNCHANGED <<held, th, got, from, seen, single>>

-----------------------------------------------------------------------------
(* The records of struct linux_dirent, linux_dirent64, dirent_extended. *)
NameAt == IF Record = "getdents" THEN 18 ELSE 19
Align8(x) == 8 * ((x + 7) \div 8)
total_size(e) == Align8(NameAt + NameSize(e.name) + (IF Record = "getdents" THEN 3 ELSE 1))
TypeAt(size) == IF Record = "getdents" THEN size - 1 ELSE 18

RecordFields(e, at, next) ==
  (IF Record = "extended"
   THEN <<Field("size", at, 8, e.size), Field("ctime", at + 8, 8, e.ctime)>>
   ELSE <<Field("off", at + 8, 8, next)>>)
  \o <<Field("reclen", at + 16, 2, total_size(e)),
       Field("dir", at + TypeAt(total_size(e)), 1, e.dir),
       Chars(at + NameAt, e.name)>>

(* The loop of the three calls: entries from pos on while they fit. *)
RECURSIVE Fill(_, _, _, _, _)
Fill(es, pos, fields, count, written) ==
  IF pos < Len(es) /\ total_size(es[pos + 1]) <= count - written
  THEN Fill(es, pos + 1, fields \o RecordFields(es[pos + 1], written, pos + 1),
            count, written + total_size(es[pos + 1]))
  ELSE [pos |-> pos, fields |-> fields, written |-> written]

(* How an application walks the records it got. *)
RECURSIVE WalkFrom(_, _, _)
WalkFrom(buf, written, at) ==
  LET reclen == Load(buf, "reclen", at + 16, 2, written)
  IN IF at >= written THEN <<>>
     ELSE <<[name |-> LoadName(buf, at + NameAt),
             dir |-> Load(buf, "dir", at + TypeAt(reclen), 1, FALSE),
             size |-> Load(buf, "size", at, 8, 0), ctime |-> Load(buf, "ctime", at + 8, 8, 0)]>>
          \o WalkFrom(buf, written, at + reclen)
Walk(r, count) == WalkFrom(StoreAll(Fresh(count), r.fields), r.written, 0)

Idle == [pc |-> "idle", pos |-> 0, count |-> 0]
(* The position is read, the records are written, the position is set. *)
gkfs_getdents(t, count) ==
  /\ dir.state = "open" /\ th[t].pc = "idle" /\ dir.pos < Len(dir.entries)
  /\ th' = [th EXCEPT ![t] = [pc |-> "fill", pos |-> dir.pos, count |-> count]]
  /\ UNCHANGED <<held, out, dir, got, from, seen, single>>

EndRead_relative(t) ==
  LET r == Fill(dir.entries, th[t].pos, <<>>, th[t].count, 0)
  IN /\ th[t].pc = "fill"
     /\ th' = [th EXCEPT ![t] = Idle]
     /\ dir' = [dir EXCEPT !.pos = @ + r.pos - th[t].pos]
     /\ seen' = seen \cup (th[t].pos + 1 .. r.pos)
     /\ UNCHANGED <<held, out, got, from, single>>
EndRead_unset(t) ==
  /\ th[t].pc = "fill"
  /\ th' = [th EXCEPT ![t] = Idle]
  /\ UNCHANGED <<held, out, dir, got, from, seen, single>>
EndRead(t) ==
  LET r == Fill(dir.entries, th[t].pos, <<>>, th[t].count, 0)
  IN /\ th[t].pc = "fill"
     /\ th' = [th EXCEPT ![t] = Idle]
     /\ IF r.written = 0 THEN UNCHANGED <<dir, got, seen>>     \* EINVAL
        ELSE /\ dir' = [dir EXCEPT !.pos = r.pos]
             /\ got' = IF Threads = {t} THEN got \o Walk(r, th[t].count) ELSE got
             /\ seen' = seen \cup (th[t].pos + 1 .. r.pos)
     /\ UNCHANGED <<held, out, from, single>>

(* rewinddir, or seekdir to the d_off of an entry: other threads may be in *)
(* the middle of getdents.                                                 *)
gkfs_lseek(t, pos) ==
  /\ Seeks /\ dir.state = "open" /\ th[t].pc = "idle"
  /\ dir' = [dir EXCEPT !.pos = pos]
  /\ got' = <<>> /\ from' = pos
  /\ UNCHANGED <<held, out, th, seen, single>>

(* The application closes a descriptor that no thread of it is using. *)
gkfs_close ==
  /\ dir.state = "open" /\ \A t \in Threads : th[t].pc = "idle"
  /\ dir' = Closed /\ got' = <<>> /\ from' = 0 /\ seen' = {}
  /\ UNCHANGED <<held, out, th, single>>

(* gfind and sfind ask one daemon and bring their own buffer. *)
gkfs_getsingleserverdir(h, count) ==
  LET r == Fill(Decode(Serialize(held[h]), Len(held[h])), 0, <<>>, count, 0)
  IN /\ Record = "extended" /\ BuffSize >= out_size(held[h]) /\ r.written > 0
     /\ single' = [host |-> h, count |-> count, got |-> Walk(r, count)]
     /\ UNCHANGED <<held, out, dir, th, got, from, seen>>

Init ==
  /\ held \in Contents
  /\ out = [h \in ToSet(Hosts) |-> NoAnswer]
  /\ dir = Closed /\ got = <<>> /\ from = 0 /\ seen = {}
  /\ th = [t \in Threads |-> Idle]
  /\ single = [host |-> Hosts[1], count |-> 0, got |-> <<>>]

Next ==
  \/ gkfs_opendir \/ forward_get_dirents \/ gkfs_close
  \/ \E h \in ToSet(Hosts) : \/ rpc_srv_get_dirents(h)
                           \/ \E c \in Counts : gkfs_getsingleserverdir(h, c)
  \/ \E t \in Threads : \/ EndRead(t)
                       \/ \E c \in Counts : gkfs_getdents(t, c)
                       \/ \E pos \in seen \cup {0} : gkfs_lseek(t, pos)

Spec == Init /\ [][Next]_vars
(* The calls of a client return, and the application reads on until 0 is   *)
(* returned.                                                               *)
FairSpec ==
  Spec /\ \A t \in Threads : WF_vars(EndRead(t)) /\ WF_vars(\E c \in Counts : gkfs_getdents(t, c))

-----------------------------------------------------------------------------
Held(h) == IF Extended THEN held[h]
           ELSE [i \in DOMAIN held[h] |-> [held[h][i] EXCEPT !.size = 0, !.ctime = 0]]
Shown(es) == [i \in DOMAIN es |-> IF Record = "extended" THEN es[i]
                                 ELSE [es[i] EXCEPT !.size = 0, !.ctime = 0]]

TypeOK ==
  /\ dir.state \in {"closed", "opening", "open"}
  /\ dir.pos \in 0 .. Len(dir.entries)
  /\ from \in 0 .. Len(dir.entries) /\ seen \subseteq 1 .. Len(dir.entries)

(* The entries of an open directory are those of all daemons, and what an  *)
(* application decodes from the records of successive getdents calls,      *)
(* with buffers of any size and after any seek, are the entries from there *)
(* on, each once and in order: name, type and, from one daemon, size and   *)
(* time come out as the daemon stored them.                                *)
EntriesArrive ==
  dir.state = "open" =>
    /\ dir.entries = FlattenSeq([i \in 1 .. Len(Hosts) |-> Held(Hosts[i])])
    /\ got = Shown(SubSeq(dir.entries, from + 1, dir.pos))

(* Threads that read one descriptor may be given an entry twice, but every *)
(* entry before the position of the descriptor was given to one of them.   *)
NothingSkipped == 1 .. dir.pos \subseteq seen

(* The records of gkfs_getsingleserverdir are the first entries of that    *)
(* daemon, and they are all of them unless the next one does not fit.      *)
SingleServerPrefix ==
  single.got # <<>> =>
    LET es == held[single.host]
    IN /\ IsPrefix(single.got, es)
       /\ Len(single.got) < Len(es) =>
            FoldLeft(LAMBDA x, e : x + total_size(e), 0, SubSeq(es, 1, Len(single.got) + 1))
              > single.count

(* An application that reads until the end gets there: no entry stops the  *)
(* position of the descriptor when the buffer holds the largest record.    *)
ReadsEnd == dir.state = "open" ~> dir.pos = Len(dir.entries) \/ dir.state = "closed"
=============================================================================
