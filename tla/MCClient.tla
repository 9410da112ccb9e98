------------------------------ MODULE MCClient ------------------------------
(***************************************************************************)
(* The state a client process keeps: the write size cache (SizeCache), the *)
(* directory entry cache (DentryCache), the table of open files            *)
(* (OpenFileMap), the descriptors of the library itself (Descriptors), the *)
(* working directory (WorkingDirectory) and the paths it resolves          *)
(* (PathResolution).  A behaviour is about one of the parts below, each    *)
(* with bounds of its own; the other variables keep their first value.     *)
(***************************************************************************)
EXTENDS SizeCache, Sequences, SequencesExt, TLC

CONSTANTS NoThread

VARIABLES part,
          daemon, entries, ids, fds, opener, truths, nchanges, lookups, lost,   \* DentryCache
          files, obj, fd_idx, fd_validation_needed, files_mutex, call, ret,
          size, issued, owner, expected, raced, unguarded,                      \* OpenFileMap
          kernel, bits, relocate, protected, phase, lock, libth, user, lib, nopens,
          closing, late,                                                        \* Descriptors
          proc, tree, asserts,                                                  \* WorkingDirectory
          path                                                                  \* PathResolution

dentryVars == <<daemon, entries, ids, fds, opener, truths, nchanges, lookups, lost>>
fileVars   == <<files, obj, fd_idx, fd_validation_needed, files_mutex, call, ret, size,
                issued, owner, expected, raced, unguarded>>
fdVars     == <<kernel, bits, relocate, protected, phase, lock, libth, user, lib, nopens,
                closing, late>>
cwdVars    == <<proc, tree, asserts>>

-----------------------------------------------------------------------------
(* "cache", with the constants of the configuration; "direct": no cache,   *)
(* the file may be removed and made again.                                 *)
Direct == INSTANCE SizeCache WITH
  UseCache <- FALSE, MaxRemoves <- 1, Failures <- {"post", "lost"}, MaxFailures <- 2, MaxCalls <- 3

(* "dentries": two daemons, an entry of the directory on each. *)
Dentries == INSTANCE DentryCache WITH
  Dirs <- {"d1"}, Names <- {"a", "b"}, Hosts <- {0, 1},
  Host <- LAMBDA d, n : IF n = "a" THEN 0 ELSE 1, DirId <- LAMBDA d : 1,
  Faults <- {}, MaxChanges <- 3, MaxCalls <- 3, MaxFaults <- 0,
  th <- opener, ncalls <- lookups, nfaults <- lost

(* "table": few descriptor numbers, so that the counter starts again. *)
Table == INSTANCE OpenFileMap WITH
  FirstFd <- 4, WrapFd <- 5, LastFd <- 7, MaxOpenFds <- 2, MaxSize <- 0, Entries <- 0, Offsets <- {0},
  Kinds <- {<<"regular", FALSE>>}, Objs <- 1 .. 7, Dup2Targets <- {1},
  Ops <- {"open", "close", "dup", "dup2"}, MaxCalls <- 9, ncalls <- issued

(* "position": the calls that use the position of an open file. *)
Position == INSTANCE OpenFileMap WITH
  FirstFd <- 4, WrapFd <- 5, LastFd <- 8, MaxOpenFds <- 3, MaxSize <- 1, Entries <- 3, Offsets <- {0, 1},
  Kinds <- {<<"regular", FALSE>>, <<"regular", TRUE>>, <<"directory", FALSE>>}, Objs <- 1 .. 2, Dup2Targets <- {1},
  Ops <- {"open", "dup", "close", "read", "readv", "pread", "write", "writev", "pwritev",
          "seek_set", "seek_cur", "seek_end", "getdents", "fsync", "flock", "setfd", "fallocate"},
  MaxCalls <- 3, ncalls <- issued

(* "descriptors": two threads of the library, the first the constructor.   *)
(* "early": the second runs before the constructor is over.                *)
Numbers == INSTANCE Descriptors WITH
  LibThreads <- {"l1", "l2"}, MinInternal <- 4, MaxInternal <- 2, Inherited <- {0}, UserLimit <- 2,
  KeepsZero <- TRUE, EarlyThreads <- FALSE, MaxOpens <- 5, th <- libth
Early == INSTANCE Descriptors WITH
  LibThreads <- {"l1", "l2"}, MinInternal <- 4, MaxInternal <- 2, Inherited <- {0}, UserLimit <- 2,
  KeepsZero <- TRUE, EarlyThreads <- TRUE, MaxOpens <- 5, th <- libth

(* "cwd": mount directory /t/mnt, all arguments up to three components. *)
MCMnt == <<"t", "mnt">>
MCSize(c) == CASE c = "mnt" -> 3 [] c = "mnt2" -> 4 [] c = ".." -> 2 [] OTHER -> 1
MCKernel(p) ==
  CASE p \in {<<>>, <<"sys">>, <<"t">>, <<"t", "mnt">>, <<"t", "a">>, <<"t", "mnt2">>} -> "dir"
    [] p \in {<<"l">>, <<"k">>} -> "link"
    [] p = <<"t", "l">> -> "dangling"
    [] p = <<"a">> -> "file"
    [] OTHER -> "none"
MCTarget(p) == IF p = <<"l">> THEN <<"t", "mnt">> ELSE <<"t", "a">>
MCStartsWith(c, m) == c = m \/ <<c, m>> = <<"mnt2", "mnt">>
Plain == {"t", "mnt", "a", ".", ".."}
Cwd == INSTANCE WorkingDirectory WITH
  Mnt <- MCMnt, StartsWith <- MCStartsWith, Size <- MCSize, Kernel <- MCKernel, Target <- MCTarget, Excluded <- {"sys"},
  FollowLinks <- FALSE, Directories <- {<<>>, <<"a">>, <<"a", "t">>}, Processes <- {1, 2},
  Arguments <- [abs : BOOLEAN, path : UNION {[1 .. n -> Plain] : n \in 1 .. 3}]

(* "paths": all paths up to five components, in a kernel tree with a link  *)
(* to the mount directory, one to a directory beside it, and a directory   *)
(* whose name begins like that of the mount directory.                     *)
Resolver == INSTANCE PathResolution WITH
  Mnt <- MCMnt, StartsWith <- MCStartsWith, Size <- MCSize, Kernel <- MCKernel, Target <- MCTarget, Excluded <- {"sys"},
  FollowLinks <- FALSE
TypePath == /\ Len(path) < 5
            /\ \E c \in Plain \cup {"l", "k", "mnt2"} \cup (IF path = <<>> THEN {"sys"} ELSE {}) :
                 path' = Append(path, c)

-----------------------------------------------------------------------------
NoDentries == /\ daemon = 0 /\ entries = 0 /\ ids = 0 /\ fds = 0 /\ opener = 0 /\ truths = 0
              /\ nchanges = 0 /\ lookups = 0 /\ lost = 0
NoFiles == /\ files = 0 /\ obj = 0 /\ fd_idx = 0 /\ fd_validation_needed = 0 /\ files_mutex = 0
           /\ call = 0 /\ ret = 0 /\ size = 0 /\ issued = 0 /\ owner = 0 /\ expected = 0 /\ raced = 0
           /\ unguarded = 0
NoFds == /\ kernel = 0 /\ bits = 0 /\ relocate = 0 /\ protected = 0 /\ phase = 0 /\ lock = 0
         /\ libth = 0 /\ user = 0 /\ lib = 0 /\ nopens = 0 /\ closing = 0 /\ late = 0
NoCwd == proc = 0 /\ tree = 0 /\ asserts = 0
NoPath == path = <<>>

MCInit ==
  /\ CacheInit
  /\ \/ part \in {"cache", "direct"} /\ NoDentries /\ NoFiles /\ NoFds /\ NoCwd /\ NoPath
     \/ part = "dentries" /\ Dentries!Init /\ NoFiles /\ NoFds /\ NoCwd /\ NoPath
     \/ part = "table" /\ Table!Init /\ NoDentries /\ NoFds /\ NoCwd /\ NoPath
     \/ part = "position" /\ Position!Init /\ NoDentries /\ NoFds /\ NoCwd /\ NoPath
     \/ part = "descriptors" /\ Numbers!Init /\ NoDentries /\ NoFiles /\ NoCwd /\ NoPath
     \/ part = "early" /\ Early!Init /\ NoDentries /\ NoFiles /\ NoCwd /\ NoPath
     \/ part = "cwd" /\ Cwd!Init /\ NoDentries /\ NoFiles /\ NoFds /\ NoPath
     \/ part = "paths" /\ NoPath /\ NoDentries /\ NoFiles /\ NoFds /\ NoCwd

MCNext ==
  /\ \/ /\ \/ part = "cache" /\ CacheNext
           \/ part = "direct" /\ Direct!CacheNext
        /\ UNCHANGED <<dentryVars, fileVars, fdVars, cwdVars, path>>
     \/ part = "dentries" /\ Dentries!Next /\ UNCHANGED <<cacheVars, fileVars, fdVars, cwdVars, path>>
     \/ /\ \/ part = "table" /\ Table!Next
           \/ part = "position" /\ Position!Next
        /\ UNCHANGED <<cacheVars, dentryVars, fdVars, cwdVars, path>>
     \/ /\ \/ part = "descriptors" /\ Numbers!Next
           \/ part = "early" /\ Early!Next
        /\ UNCHANGED <<cacheVars, dentryVars, fileVars, cwdVars, path>>
     \/ part = "cwd" /\ Cwd!Next /\ UNCHANGED <<cacheVars, dentryVars, fileVars, fdVars, path>>
     \/ part = "paths" /\ TypePath /\ UNCHANGED <<cacheVars, dentryVars, fileVars, fdVars, cwdVars>>
  /\ UNCHANGED part

MCSpec == MCInit /\ [][MCNext]_<<part, cacheVars, dentryVars, fileVars, fdVars, cwdVars, path>>

(* The threads of the caches and of the table of open files are alike. *)
MCSymmetry == Permutations(Threads)

-----------------------------------------------------------------------------
(* Where a path leads, for comparison: remove each name that is followed   *)
(* by "..", to the end.                                                    *)
RECURSIVE Lexical(_)
Lexical(p) ==
  LET ups == {i \in DOMAIN p : p[i] = ".."}
      up == CHOOSE u \in ups : \A v \in ups : u <= v
  IN IF "." \in Range(p) THEN Lexical(SelectSeq(p, LAMBDA c : c # "."))
     ELSE IF ups = {} THEN p
     ELSE Lexical(SubSeq(p, 1, up - 2) \o SubSeq(p, up + 1, Len(p)))

(* The same with links: below the mount directory nothing is looked up,    *)
(* outside a link is replaced by its target before the next component.     *)
RECURSIVE Walk(_, _)
Walk(at, p) ==
  LET next == CASE Head(p) = "." -> at
                [] Head(p) = ".." -> IF at = <<>> THEN at ELSE Front(at)
                [] OTHER -> Append(at, Head(p))
      inside == IsPrefix(MCMnt, next)
      there == IF ~inside /\ MCKernel(next) = "link" THEN MCTarget(next) ELSE next
      missing == ~inside /\ (MCKernel(next) \in {"none", "dangling"} \/ (MCKernel(next) = "file" /\ Len(p) > 1))
  IN IF p = <<>> THEN [found |-> TRUE, path |-> at]
     ELSE IF missing THEN [found |-> FALSE, path |-> next \o Tail(p)]
     ELSE Walk(there, Tail(p))
InMount(p) == IF IsPrefix(MCMnt, p) THEN Resolver!Internal(SubSeq(p, 3, Len(p))) ELSE Resolver!External(p)

-----------------------------------------------------------------------------
(* SizeIsWritten and OneDaemonTookIt of SizeCache: daemons have no size    *)
(* beyond what was written, and without the cache a write sends its data   *)
(* only after one daemon at least has taken the size.                      *)
SizesMatchWrites == SizeIsWritten /\ (part = "direct" => Direct!OneDaemonTookIt)

(* DentryCache: what is cached of a directory that nobody has open is      *)
(* cleared, a cached entry was true at some time since the directory was   *)
(* opened, and opendir returns the entries that were there all the time.   *)
DentriesCurrent ==
  part = "dentries" => Dentries!CachedWhileOpen /\ Dentries!StatIsRecent /\ Dentries!ListingWhole

(* DescriptorsNameTheirFile of OpenFileMap: a descriptor number names the  *)
(* open file it was given out for, though the counter starts again.        *)
DescriptorsNameTheirFile == part = "table" => Table!DescriptorsNameTheirFile

(* PositionIsExact of OpenFileMap: calls that do not overlap move the      *)
(* position of an open file by what they return.                           *)
PositionIsExact == part = "position" => Position!PositionIsExact

(* Descriptors: a number of the application names what it opened until it  *)
(* closes it, also when threads of the library run during its start; the   *)
(* library's descriptors name what it opened, in its own range, but for a  *)
(* close whose test came first; no position of that range stays marked as  *)
(* used when its descriptor is gone, and no assertion of                   *)
(* register_internal_fd or unregister_internal_fd fails.                   *)
DescriptorsApart ==
  /\ part = "descriptors" => /\ Numbers!UserUntouched /\ Numbers!LibPrivate
                             /\ Numbers!PositionsUsed /\ Numbers!AssertsHold
  /\ part = "early" => Early!UserUntouched

(* resolve_new takes "." and ".." out of a path and tells whether the rest *)
(* lies in the GekkoFS name space, and where.  It does not look links up,  *)
(* and it takes a sibling whose name begins like the mount directory for a *)
(* part of it: such paths are left out here.                               *)
NewResolves ==
  Range(path) \subseteq Plain => Resolver!resolve_new(path) = InMount(Lexical(path))

(* The legacy resolve leads to the same place as a walk of the tree; when  *)
(* a component outside GekkoFS is missing, a link leads nowhere or the path *)
(* begins with an excluded one, it is left to the kernel.                  *)
LegacyResolves ==
  LET w == Walk(<<>>, path)
  IN Resolver!resolve(path, TRUE) = IF Len(path) > 1 /\ Head(path) = "sys" THEN Resolver!External(path)
                                   ELSE IF w.found THEN InMount(w.path) ELSE Resolver!External(w.path)

(* Both, and CwdIsGoal and FdLikeCwd of WorkingDirectory: the working      *)
(* directory is where the calls of a process, and of the process that      *)
(* started it, led, and a path relative to a descriptor leads where it     *)
(* leads relative to a working directory.                                  *)
PathsLeadThere ==
  /\ part = "paths" => NewResolves /\ LegacyResolves
  /\ part = "cwd" => Cwd!CwdIsGoal /\ Cwd!FdLikeCwd
=============================================================================
