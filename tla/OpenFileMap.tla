---- MODULE OpenFileMap ----
(***************************************************************************)
(* The open files of one client process: the descriptor table of           *)
(* open_file_map.cpp, the hooks that take a descriptor (hooks.cpp) and the *)
(* gkfs_* calls that use the position of an open file (gkfs_functions.cpp).*)
(* Threads of the process interleave between the critical sections: the    *)
(* table has a recursive mutex, the descriptor counter another one, and    *)
(* the position of an open file a third; nothing is held across an RPC.    *)
(* One regular file and one directory stand for the file system.           *)
(***************************************************************************)
EXTENDS Integers, Sequences, FiniteSets

CONSTANTS Threads, NoThread,
          Objs,            \* ids of OpenFile objects, positive numbers
          FirstFd,         \* 10000 in the constructor; greater than 2
          WrapFd,          \* 100000, where the counter restarts; not below FirstFd
          LastFd,          \* numeric_limits<int>::max(); out of reach of MaxOpenFds files
          Dup2Targets,     \* descriptors an application passes to dup2
          Kinds,           \* kinds of files it opens: <<type, append>>
          Ops,             \* the calls the application makes
          Offsets,         \* offsets it passes to lseek and pread/pwrite
          Entries,         \* number of entries of the directory
          MaxCalls, MaxOpenFds, MaxSize

VARIABLES
  files,                 \* files_: descriptor -> OpenFile
  obj,                   \* the OpenFile objects
  fd_idx, fd_validation_needed,
  files_mutex,           \* held by dup while it generates descriptors
  call,                  \* what each thread executes
  ret,                   \* the result of a call that returned in this step
  size,                  \* size of the regular file
  ncalls,
  owner,                 \* object the application believes a descriptor names
  expected,              \* position the calls so far should have led to
  raced,                 \* objects used by two overlapping calls
  unguarded              \* numbers on their way into the table when remove reset the flag

mapvars == <<files, obj, fd_idx, fd_validation_needed, files_mutex>>
ghosts  == <<owner, expected, raced, unguarded>>
vars == <<mapvars, call, ret, size, ncalls, ghosts>>

None == 0
Idle == [op |-> "idle"]
Quiet == [op |-> "idle", r |-> 0]
EBADF == -9
EINVAL == -22
ENOTSUP == -95
Kernel == -1000          \* the call is forwarded to the kernel
Null   == -2000          \* the call dereferences a null pointer
Fds  == 0 .. LastFd
Positional == {"read", "write", "readv", "writev", "seek_set", "seek_cur",
               "seek_end", "getdents"}
AtOffset   == {"pread", "pwrite", "preadv", "pwritev"}
Vectored   == {"readv", "writev", "preadv", "pwritev"}
Reading    == {"read", "readv", "pread", "preadv"}
Refused    == {"dup3", "fchmod", "flistxattr", "fallocate", "fadvise64"}
min(a, b) == IF a < b THEN a ELSE b
max(a, b) == IF a < b THEN b ELSE a

Init ==
  /\ files = [fd \in {} |-> None] /\ obj = [o \in {} |-> None]
  /\ fd_idx = FirstFd /\ fd_validation_needed = FALSE
  /\ files_mutex = NoThread
  /\ call = [t \in Threads |-> Idle] /\ ret = Quiet
  /\ size \in 0 .. MaxSize /\ ncalls = 0
  /\ owner = [fd \in {} |-> None] /\ expected = [o \in {} |-> 0]
  /\ raced = {} /\ unguarded = {}

exist(fd) == fd \in DOMAIN files
get(fd) == IF exist(fd) THEN files[fd] ELSE None
Unlocked(t) == files_mutex \in {NoThread, t}

\* std::map::insert: an entry that is already there stays.
insert(m, fd, o) == IF fd \in DOMAIN m THEN m
                    ELSE [d \in DOMAIN m \cup {fd} |-> IF d = fd THEN o ELSE m[d]]
Assign(m, fd, o) == [d \in DOMAIN m \cup {fd} |-> IF d = fd THEN o ELSE m[d]]
Erase(m, fd) == [d \in DOMAIN m \ {fd} |-> m[d]]

Goto(t, c) == call' = [call EXCEPT ![t] = c]
Return(t, r) ==
  /\ call' = [call EXCEPT ![t] = Idle]
  /\ ret' = [op |-> call[t].op, r |-> r]

\* An application thread enters a call; nothing is shared yet.
Enter(t, op, fd, step, n) ==
  /\ call[t] = Idle /\ ncalls < MaxCalls /\ ncalls' = ncalls + 1
  /\ call' = [call EXCEPT ![t] = [op |-> op, fd |-> fd, step |-> step, o |-> None,
                                  pos |-> n, done |-> 0, left |-> 2, failed |-> FALSE]]

Answer(t, op, r) ==
  /\ call[t] = Idle /\ ncalls < MaxCalls /\ ncalls' = ncalls + 1
  /\ ret' = [op |-> op, r |-> r] /\ UNCHANGED call

----------------------------------------------------------------------------
(* Descriptors *)

\* The process has fewer files open than there are descriptors.
Room == Cardinality(DOMAIN files)
        + Cardinality({t \in Threads : call[t].op \in {"open", "dup"}}) < MaxOpenFds

\* hook_openat / gkfs_open: the metadata calls are over, the OpenFile is built.
Open(t, type, append) ==
  /\ "open" \in Ops /\ Room
  /\ \E o \in Objs \ DOMAIN obj :
       /\ \A p \in Objs \ DOMAIN obj : o <= p
       /\ call[t] = Idle /\ ncalls < MaxCalls /\ ncalls' = ncalls + 1
       /\ call' = [call EXCEPT ![t] = [op |-> "open", fd |-> None, step |-> "gen",
                                       o |-> o, loop |-> FALSE]]
       /\ obj' = [p \in DOMAIN obj \cup {o} |->
                    IF p = o THEN [type |-> type, append |-> append,
                                   cloexec |-> FALSE, pos |-> 0]
                    ELSE obj[p]]
       /\ expected' = [p \in DOMAIN expected \cup {o} |->
                         IF p = o THEN 0 ELSE expected[p]]
  /\ UNCHANGED <<files, fd_idx, fd_validation_needed, files_mutex, size, owner, raced, unguarded>> /\ ret' = Quiet

\* dup takes the mutex of the table before it generates a descriptor.
StartDup(t) ==
  /\ call[t].op = "dup" /\ call[t].step = "get" /\ Unlocked(t)
  /\ IF exist(call[t].fd)
     THEN /\ files_mutex' = t /\ ret' = Quiet
          /\ Goto(t, [op |-> "dup", fd |-> None, step |-> "gen",
                      o |-> get(call[t].fd), loop |-> FALSE])
     ELSE /\ Return(t, EBADF) /\ UNCHANGED files_mutex
  /\ UNCHANGED <<files, obj, fd_idx, fd_validation_needed, size, ncalls, ghosts>>

\* The counter does not come back to a number that another thread has
\* generated and not yet inserted: that takes 2^31 calls during one call.
InFlight == {u \in Threads : call[u].op \in {"open", "dup"}}
NotLapped(t, fd) == \A u \in InFlight \ {t} : call[u].fd # fd

generate_unvalidated(t, step) ==
  LET fd == IF fd_idx = LastFd THEN WrapFd ELSE fd_idx
  IN /\ NotLapped(t, fd) /\ fd_idx' = fd + 1 /\ UNCHANGED fd_validation_needed
     /\ Goto(t, [call[t] EXCEPT !.fd = fd, !.step = step[1], !.loop = step[2]])
     /\ UNCHANGED <<files, obj, files_mutex, size, ncalls, ghosts>> /\ ret' = Quiet
\* generate_fd_idx, under the mutex of the counter.
generate_fd_idx(t, step) ==
  LET wraps == fd_idx = LastFd
      fd == IF wraps THEN WrapFd ELSE fd_idx
  IN /\ NotLapped(t, fd) /\ fd_idx' = fd + 1
     /\ fd_validation_needed' = (wraps \/ fd_validation_needed)
     /\ Goto(t, [call[t] EXCEPT !.fd = fd, !.step = step[1], !.loop = step[2]])
     /\ UNCHANGED <<files, obj, files_mutex, size, ncalls, ghosts>> /\ ret' = Quiet

Generate(t) ==
  /\ call[t].op \in {"open", "dup"} /\ call[t].step = "gen"
  /\ generate_fd_idx(t, <<"check", FALSE>>)

\* The loop of safe_generate_fd_idx_: once validation was seen to be needed,
\* it generates until the descriptor is not in the table.
SafeGenerate(t) ==
  /\ call[t].op \in {"open", "dup"} /\ call[t].step = "check"
  /\ IF call[t].loop \/ fd_validation_needed
     THEN /\ Unlocked(t)
          /\ IF exist(call[t].fd)
             THEN generate_fd_idx(t, <<"check", TRUE>>)
             ELSE /\ Goto(t, [call[t] EXCEPT !.step = "insert"])
                  /\ UNCHANGED <<mapvars, size, ncalls, ghosts>> /\ ret' = Quiet
     ELSE /\ Goto(t, [call[t] EXCEPT !.step = "insert"])
          /\ UNCHANGED <<mapvars, size, ncalls, ghosts>> /\ ret' = Quiet

InsertKeepsLock(t) ==
  /\ call[t].op \in {"open", "dup"} /\ call[t].step = "insert" /\ Unlocked(t)
  /\ files' = insert(files, call[t].fd, call[t].o)
  /\ owner' = Assign(owner, call[t].fd, call[t].o)
  /\ Return(t, call[t].fd)
  /\ UNCHANGED <<files_mutex, obj, fd_idx, fd_validation_needed, size, ncalls, expected, raced, unguarded>>
\* The end of add and of dup: insert under the mutex, hand the number out.
Insert(t) ==
  /\ call[t].op \in {"open", "dup"} /\ call[t].step = "insert" /\ Unlocked(t)
  /\ files' = insert(files, call[t].fd, call[t].o)
  /\ owner' = Assign(owner, call[t].fd, call[t].o)
  /\ files_mutex' = NoThread
  /\ Return(t, call[t].fd)
  /\ UNCHANGED <<obj, fd_idx, fd_validation_needed, size, ncalls, expected, raced, unguarded>>

\* dup2 is one critical section.
dup2_validates(newfd) == fd_idx < newfd /\ newfd \notin {0, 1, 2}
Dup2(t) ==
  /\ call[t].op = "dup2" /\ call[t].step = "get" /\ Unlocked(t)
  /\ LET o == get(call[t].fd)
         newfd == call[t].pos
     IN \/ /\ o = None /\ Return(t, EBADF)
           /\ UNCHANGED <<files, fd_validation_needed, owner>>
        \/ /\ o # None /\ call[t].fd = newfd /\ Return(t, newfd)
           /\ UNCHANGED <<files, fd_validation_needed, owner>>
        \/ /\ o # None /\ call[t].fd # newfd
           /\ files' = insert(Erase(files, newfd), newfd, o)
           /\ fd_validation_needed' = (fd_validation_needed \/ dup2_validates(newfd))
           /\ owner' = Assign(owner, newfd, o)
           /\ Return(t, newfd)
  /\ UNCHANGED <<obj, fd_idx, files_mutex, size, ncalls, expected, raced, unguarded>>

\* gkfs_close looks the file up, then removes the descriptor in a second
\* critical section; what is not ours is closed by the kernel.
CloseGet(t) ==
  /\ call[t].op = "close" /\ call[t].step = "get" /\ Unlocked(t)
  /\ IF exist(call[t].fd)
     THEN Goto(t, [call[t] EXCEPT !.step = "remove"]) /\ ret' = Quiet
     ELSE Return(t, Kernel)
  /\ UNCHANGED <<mapvars, size, ncalls, ghosts>>
remove(t) ==
  /\ call[t].op = "close" /\ call[t].step = "remove" /\ Unlocked(t)
  /\ files' = Erase(files, call[t].fd) /\ owner' = Erase(owner, call[t].fd)
  /\ LET resets == fd_validation_needed /\ exist(call[t].fd) /\ files' = << >>
     IN /\ fd_validation_needed' = (fd_validation_needed /\ ~resets)
        /\ unguarded' = (unguarded \ {call[t].fd})
                         \cup {call[u].fd : u \in {v \in InFlight : resets /\ call[v].fd # None}}
  /\ Return(t, 0)
  /\ UNCHANGED <<obj, fd_idx, files_mutex, size, ncalls, expected, raced>>

----------------------------------------------------------------------------
(* Calls on a descriptor *)

\* The hooks test exist(fd): a call on a descriptor that is ours goes on in
\* gkfs_x, which looks the file up again; any other goes to the kernel.
Dispatch(t, op, fd, n) ==
  /\ op \in Ops /\ Unlocked(t)
  /\ IF exist(fd) THEN Enter(t, op, fd, "get", n) /\ ret' = Quiet
                  ELSE Answer(t, op, Kernel)
  /\ UNCHANGED <<mapvars, size, ghosts>>
hook_io(t, op, fd, n) ==
  /\ op \in {"read", "write", "readv", "writev"} \cup AtOffset
  /\ Dispatch(t, op, fd, IF op \in AtOffset THEN n ELSE 0)
hook_lseek(t, op, fd, n) ==
  op \in {"seek_set", "seek_cur", "seek_end"} /\ Dispatch(t, op, fd, n)
hook_getdents(t, fd) == Dispatch(t, "getdents", fd, 0)
hook_dup(t, fd) == Room /\ Dispatch(t, "dup", fd, 0)
hook_dup2(t, fd) == \E newfd \in Dup2Targets : Dispatch(t, "dup2", fd, newfd)
hook_fsync(t, fd) == Dispatch(t, "fsync", fd, 0)
\* F_DUPFD is gkfs_dup; F_SETFD stores the flag in the shared OpenFile.
hook_fcntl(t, fd) == hook_dup(t, fd) \/ Dispatch(t, "setfd", fd, 0)
\* gkfs_close makes the test itself.
hook_close(t, fd) ==
  /\ "close" \in Ops /\ Enter(t, "close", fd, "get", 0) /\ ret' = Quiet
  /\ UNCHANGED <<mapvars, size, ghosts>>
\* Calls that are answered at once.
hook_flock(t, fd) ==
  /\ "flock" \in Ops /\ Unlocked(t)
  /\ Answer(t, "flock", IF exist(fd) THEN 0 ELSE EBADF)
  /\ UNCHANGED <<mapvars, size, ghosts>>
hook_refused(t, op, fd) ==
  /\ op \in Ops \cap Refused /\ Unlocked(t)
  /\ Answer(t, op, IF exist(fd) THEN ENOTSUP ELSE Kernel)
  /\ UNCHANGED <<mapvars, size, ghosts>>

\* Calls that another thread makes on the same open file at the same time.
Overlaps(t, o) == \E u \in Threads \ {t} :
  call[u].op \in Positional /\ call[u].o = o

\* The second lookup, inside gkfs_x.  A descriptor closed in between: the
\* I/O calls return 0, gkfs_lseek and fcntl dereference a null pointer.
Lookup(t) ==
  /\ call[t].op \in Positional \cup AtOffset \cup {"fsync", "setfd"}
  /\ call[t].step = "get" /\ Unlocked(t)
  /\ LET c == call[t]
         o == get(c.fd)
     IN \/ /\ o = None
           /\ Return(t, CASE c.op \in {"seek_set", "seek_cur", "seek_end", "setfd"}
                                -> Null
                          [] c.op = "getdents" -> EBADF
                          [] OTHER -> 0)
           /\ UNCHANGED <<obj, raced>>
        \/ /\ o # None /\ c.op = "getdents" /\ obj[o].type # "directory"
           /\ Return(t, EBADF) /\ UNCHANGED <<obj, raced>>
        \/ /\ o # None /\ c.op = "fsync" /\ Return(t, 0) /\ UNCHANGED <<obj, raced>>
        \/ /\ o # None /\ c.op = "setfd" /\ Return(t, 0) /\ UNCHANGED raced
           /\ \E b \in BOOLEAN : obj' = [obj EXCEPT ![o].cloexec = b]
        \/ /\ o # None
           /\ c.op \in AtOffset \/ (c.op \in Positional /\
                                    ~(c.op = "getdents" /\ obj[o].type # "directory"))
           /\ Goto(t, [c EXCEPT !.o = o,
                                !.step = IF c.op \in AtOffset THEN "io" ELSE "pos"])
           /\ raced' = IF c.op \in Positional /\ Overlaps(t, o)
                       THEN raced \cup {o} ELSE raced
           /\ UNCHANGED <<obj>> /\ ret' = Quiet
  /\ UNCHANGED <<files, fd_idx, fd_validation_needed, files_mutex, size, ncalls,
                 owner, expected, unguarded>>

\* pos() under the mutex of the open file; gkfs_readv and gkfs_writev then
\* call gkfs_preadv / gkfs_pwritev, which look the descriptor up once more.
ReadPos(t) ==
  /\ call[t].op \in {"read", "write", "readv", "writev", "getdents"}
  /\ call[t].step = "pos"
  /\ Goto(t, [call[t] EXCEPT !.pos = obj[call[t].o].pos,
              !.step = IF call[t].op \in Vectored THEN "again" ELSE "io"])
  /\ UNCHANGED <<mapvars, size, ncalls, ghosts>> /\ ret' = Quiet
LookupAgain(t) ==
  /\ call[t].op \in {"readv", "writev"} /\ call[t].step = "again" /\ Unlocked(t)
  /\ IF exist(call[t].fd)
     THEN Goto(t, [call[t] EXCEPT !.step = "io"]) /\ ret' = Quiet
     ELSE Return(t, 0)
  /\ UNCHANGED <<mapvars, size, ncalls, ghosts>>

\* What one transfer of n bytes at off returns; -1 is an error of the RPCs.
Transfers(op, off, n) ==
  {-1} \cup {IF op \in Reading THEN max(0, min(n, size - off)) ELSE n}

\* gkfs_read_ws / gkfs_write_ws: one transfer for a plain call, one for each
\* element of a vector, until one fails or is short.  An append writes where
\* the daemon says the file ended.
Io(t) ==
  /\ call[t].op \in (Positional \cup AtOffset) \ {"getdents"} /\ call[t].step = "io"
  /\ LET c == call[t]
         o == c.o
         n == 1
         at == IF obj[o].append /\ c.op \notin Reading THEN size ELSE c.pos + c.done
     IN \E r \in IF obj[o].type = "directory" THEN {-1} ELSE Transfers(c.op, at, n) :
          LET more == c.op \in Vectored /\ c.left > 1 /\ r = n
              done == IF r = -1 THEN c.done ELSE c.done + r
          IN /\ c.op \in Reading \/ r = -1 \/ at + n <= MaxSize + 2
             /\ size' = IF c.op \in Reading \/ r = -1 THEN size ELSE max(size, at + n)
             /\ Goto(t, [c EXCEPT !.done = done, !.left = c.left - 1,
                   !.pos = IF c.op = "write" /\ r # -1 THEN at ELSE c.pos,
                   !.failed = (r = -1), !.step = IF more THEN "io" ELSE "end"])
             /\ expected' = IF r > 0 /\ c.op \in Positional
                            THEN [expected EXCEPT ![o] = @ + r] ELSE expected
  /\ UNCHANGED <<mapvars, ncalls, owner, raced, unguarded>> /\ ret' = Quiet

\* What the call returns: the vectored calls return -1 when nothing moved.
Result(c) == IF c.op \in Vectored
             THEN (IF c.done = 0 THEN -1 ELSE c.done)
             ELSE (IF c.failed THEN -1 ELSE c.done)

SetPosOfAll(t) ==
  /\ call[t].op \in (Positional \cup AtOffset) \ {"getdents"} /\ call[t].step = "end"
  /\ obj' = [obj EXCEPT ![call[t].o].pos = call[t].pos + call[t].done]
  /\ Return(t, Result(call[t]))
  /\ UNCHANGED <<files, fd_idx, fd_validation_needed, files_mutex, size, ncalls, ghosts>>
\* pos(p + r): every call that moved the position stores it when it is over.
SetPos(t) ==
  /\ call[t].op \in (Positional \cup AtOffset) \ {"getdents"} /\ call[t].step = "end"
  /\ LET c == call[t]
     IN /\ obj' = IF /\ c.op \in Positional
                     /\ Result(c) > 0 \/ (c.op = "write" /\ ~c.failed)
                  THEN [obj EXCEPT ![c.o].pos = c.pos + c.done]
                  ELSE obj
        /\ Return(t, Result(c))
  /\ UNCHANGED <<files, fd_idx, fd_validation_needed, files_mutex, size, ncalls, ghosts>>

\* gkfs_lseek: SEEK_END asks a daemon for the size first, which may fail.
\* SEEK_CUR stores what it computes, a number below zero too.
Seek(t) ==
  /\ call[t].op \in {"seek_set", "seek_cur", "seek_end"} /\ call[t].step = "pos"
  /\ LET c == call[t]
         to == CASE c.op = "seek_set" -> c.pos
                 [] c.op = "seek_cur" -> obj[c.o].pos + c.pos
                 [] c.op = "seek_end" -> size + c.pos
         should == CASE c.op = "seek_cur" -> expected[c.o] + c.pos
                     [] OTHER -> to
     IN \/ /\ to >= 0 \/ c.op = "seek_cur"
           /\ Goto(t, [c EXCEPT !.step = "store", !.pos = to])
           /\ expected' = [expected EXCEPT ![c.o] = should]
           /\ ret' = Quiet
        \/ /\ (to < 0 /\ c.op # "seek_cur") \/ c.op = "seek_end"
           /\ Return(t, -1) /\ UNCHANGED expected
  /\ UNCHANGED <<mapvars, size, ncalls, owner, raced, unguarded>>
StorePos(t) ==
  /\ call[t].op \in {"seek_set", "seek_cur", "seek_end"} /\ call[t].step = "store"
  /\ obj' = [obj EXCEPT ![call[t].o].pos = call[t].pos]
  /\ Return(t, call[t].pos)
  /\ UNCHANGED <<files, fd_idx, fd_validation_needed, files_mutex, size, ncalls, ghosts>>

\* gkfs_getdents: the entries that fit the buffer, starting at the position.
GetDents(t, room) ==
  /\ call[t].op = "getdents" /\ call[t].step = "io"
  /\ LET c == call[t]
         n == min(room, Entries - c.pos)
     IN \/ /\ c.pos >= Entries /\ Return(t, 0) /\ UNCHANGED <<obj, expected>>
        \/ /\ c.pos < Entries /\ room = 0
           /\ Return(t, EINVAL) /\ UNCHANGED <<obj, expected>>
        \/ /\ c.pos < Entries /\ room > 0
           /\ obj' = [obj EXCEPT ![c.o].pos = c.pos + n]
           /\ expected' = [expected EXCEPT ![c.o] = @ + n]
           /\ Return(t, n)
  /\ UNCHANGED <<files, fd_idx, fd_validation_needed, files_mutex, size, ncalls,
                 owner, raced, unguarded>>

----------------------------------------------------------------------------
Work(t) ==
  \/ Generate(t) \/ SafeGenerate(t) \/ Insert(t) \/ StartDup(t) \/ Dup2(t)
  \/ CloseGet(t) \/ remove(t) \/ Lookup(t) \/ ReadPos(t) \/ LookupAgain(t)
  \/ Io(t) \/ SetPos(t) \/ Seek(t) \/ StorePos(t)
  \/ \E room \in 0 .. 2 : GetDents(t, room)
Begin(t) ==
  \/ \E k \in Kinds : Open(t, k[1], k[2])
  \/ \E fd \in DOMAIN files \cup {FirstFd} :
       \/ hook_close(t, fd) \/ hook_getdents(t, fd) \/ hook_fcntl(t, fd)
       \/ hook_dup(t, fd) \/ hook_dup2(t, fd) \/ hook_fsync(t, fd) \/ hook_flock(t, fd)
       \/ \E op \in Refused : hook_refused(t, op, fd)
       \/ \E op \in Positional \cup AtOffset, n \in Offsets :
            hook_io(t, op, fd, n) \/ hook_lseek(t, op, fd, n)
Next == \E t \in Threads : Begin(t) \/ Work(t)
Spec == Init /\ [][Next]_vars /\ \A t \in Threads : WF_vars(Work(t))

----------------------------------------------------------------------------
TypeOK ==
  /\ DOMAIN files \subseteq Fds /\ DOMAIN obj \subseteq Objs
  /\ \A fd \in DOMAIN files : files[fd] \in DOMAIN obj
  /\ \A o \in DOMAIN obj : obj[o].pos \in Int /\ obj[o].type \in {"regular", "directory"}
  /\ fd_idx \in FirstFd .. LastFd /\ fd_validation_needed \in BOOLEAN
  /\ files_mutex \in Threads \cup {NoThread}
  /\ DOMAIN owner = DOMAIN files /\ DOMAIN expected = DOMAIN obj

\* A descriptor that open, dup or dup2 returned names the file of that call
\* until it is closed or replaced, whatever the other threads do and however
\* often the counter of descriptors wraps around: add and dup insert a number
\* that is not in the table, because std::map::insert would keep the old file.
\* One window is left out: a number that an open had generated, and not yet
\* inserted, when remove found the table empty and reset the flag.
DescriptorsNameTheirFile ==
  \A fd \in DOMAIN owner \ unguarded : files[fd] = owner[fd]

\* As long as the calls on an open file do not overlap, its position is where
\* the bytes and entries transferred so far lead to: read, write, readv,
\* writev and getdents advance it by what they return, the calls with an
\* offset of their own and the failing ones leave it alone, and descriptors
\* made by dup and dup2 share it.
PositionIsExact ==
  \A o \in DOMAIN obj :
    (/\ o \notin raced /\ ~obj[o].append
     /\ \A t \in Threads : call[t] = Idle \/ call[t].op \notin Positional \/ call[t].o # o)
    => obj[o].pos = expected[o]

\* Every call returns: the search for a free descriptor ends, and no thread
\* keeps the mutex of the table.
CallsReturn == \A t \in Threads : call[t] # Idle ~> call[t] = Idle

-----------------------------------------------------------------------------
(* Statements of the repository that the code does not meet: TLC refutes   *)
(* each of those below (README, "Disagreements").                          *)

\* generate_fd_idx says of a number that is given twice for different paths:
\* "This must not happen."  It does when remove resets the flag, because the
\* table is empty, while another open is about to insert its number.
NumberGivenOnce == \A fd \in DOMAIN owner : files[fd] = owner[fd]

\* gkfs_writev asserts that gkfs_pwritev, called with the descriptor whose
\* file it has already looked up, does not return 0.
PwritevMoves ==
  [][\A t \in Threads :
       (call[t].op = "writev" /\ call[t].step \in {"again", "end"} /\ call'[t] = Idle)
         => ret'.r # 0]_vars

\* readv returns the bytes read, or -1 on error: a thread that sees -1 met a
\* transfer that failed.
ReadvFailsOnError ==
  [][\A t \in Threads :
       (call[t].op = "readv" /\ call'[t] = Idle /\ ret'.r = -1) => call[t].failed]_vars
====
