-------------------------- MODULE WorkingDirectory --------------------------
(***************************************************************************)
(* The working directory of client processes, which is in three places:    *)
(* cwd_ of the context, the working directory of the kernel, and an        *)
(* environment variable that hands it on to the programs they execute.     *)
(* chdir and fchdir set all three; relative paths are resolved from cwd_.  *)
(* Directories of GekkoFS come and go meanwhile.                           *)
(***************************************************************************)
EXTENDS PathResolution

CONSTANTS Processes,
          Arguments,   \* the paths of calls: [abs |-> BOOLEAN, path |-> components]
          Directories  \* that GekkoFS may have, without the mount directory

VARIABLES proc,    \* of every process: cwd (CTX->cwd()), env (LIBGKFS_CWD, <<>>
                   \* or <<path>>), sys (the kernel's), goal (where its calls
                   \* have led it)
          tree,    \* the directories of GekkoFS
          asserts  \* an assertion of prepend_path failed

vars == <<proc, tree, asserts>>

IsKernelDir(p) == Kernel(p) = "dir"

TypeOK ==
  /\ \A p \in Processes : Len(proc[p].env) <= 1 /\ IsKernelDir(proc[p].sys)
  /\ tree \subseteq Directories /\ <<>> \in tree
  /\ asserts \in BOOLEAN

-----------------------------------------------------------------------------
(* relativize_path and relativize_fd_path.  prepend_path wants a prefix    *)
(* without a slash at its end, which "/" has.                              *)
relativize_path(p, a) == resolve_new(IF a.abs THEN a.path ELSE proc[p].cwd \o a.path)
relativize_fd_path_bare(dir, a) == resolve_new(IF a.abs THEN a.path ELSE dir \o a.path)
relativize_fd_path(dir, a) == resolve_new(IF a.abs THEN a.path ELSE Mnt \o dir \o a.path)
prepend_path(p, a) == asserts' = (asserts \/ (~a.abs /\ proc[p].cwd = <<>>))

(* set_cwd: the kernel first, which may refuse; then the environment. *)
set_cwd_kept(p, path, internal, goal) ==
  proc' = [proc EXCEPT ![p] = [cwd |-> path, goal |-> goal,
                               sys |-> IF internal THEN Mnt ELSE path,
                               env |-> IF internal THEN <<path>> ELSE @.env]]
set_cwd(p, path, internal, goal) ==
  proc' = [proc EXCEPT ![p] = [cwd |-> path, goal |-> goal,
                               sys |-> IF internal THEN Mnt ELSE path,
                               env |-> IF internal THEN <<path>> ELSE <<>>]]

(* The directory an argument means: names and ".." from where it starts. *)
Means(from, a) ==
  FoldLeft(LAMBDA d, c : CASE c = "." -> d [] c = ".." /\ d = <<>> -> d
                           [] c = ".." /\ d # <<>> -> Front(d) [] OTHER -> Append(d, c),
           IF a.abs THEN <<>> ELSE from, a.path)

(* ENOENT, ENOTDIR, or what the kernel says, change nothing. *)
hook_chdir(p, a) ==
  LET r == relativize_path(p, a)
  IN /\ IF r.internal /\ r.path \in tree
        THEN set_cwd(p, Mnt \o r.path, TRUE, Means(proc[p].goal, a))
        ELSE IF ~r.internal /\ IsKernelDir(r.path)
        THEN set_cwd(p, r.path, FALSE, Means(proc[p].goal, a))
        ELSE UNCHANGED proc
     /\ prepend_path(p, a)
     /\ UNCHANGED tree

(* fchdir to a directory of GekkoFS that is open, and that may be gone *)
hook_fchdir(p, d) ==
  /\ set_cwd(p, Mnt \o d, TRUE, Mnt \o d)
  /\ UNCHANGED <<tree, asserts>>

(* fchdir to a directory of the kernel: its getcwd says where that is. *)
KernelFchdir(p, path) ==
  /\ IsKernelDir(path) /\ ~BelowMount(path)
  /\ set_cwd(p, path, FALSE, path)
  /\ UNCHANGED <<tree, asserts>>

(* execve, in this process or after fork in the other one: the new program *)
(* starts with init_cwd.                                                   *)
init_cwd(p, child) ==
  /\ proc' = [proc EXCEPT ![child] = [proc[p] EXCEPT !.cwd =
                IF proc[p].env # <<>> THEN proc[p].env[1] ELSE proc[p].sys]]
  /\ UNCHANGED <<tree, asserts>>

(* mkdir, in a directory, and rmdir, of an empty one, by any client *)
ChangeTree(d) ==
  /\ d # <<>>
  /\ \/ Front(d) \in tree /\ d \notin tree /\ tree' = tree \cup {d}
     \/ {e \in tree : IsPrefix(d, e)} = {d} /\ tree' = tree \ {d}
  /\ UNCHANGED <<proc, asserts>>

Init ==
  /\ \E start \in {<<>>, Front(Mnt)} :
       proc = [p \in Processes |-> [cwd |-> start, env |-> <<>>, sys |-> start, goal |-> start]]
  /\ tree = {<<>>} /\ asserts = FALSE

Next ==
  \/ \E p \in Processes :
       \/ \E a \in Arguments : hook_chdir(p, a) \/ (a.abs /\ KernelFchdir(p, a.path))
       \/ \E d \in Directories : hook_fchdir(p, d)
       \/ \E child \in Processes : init_cwd(p, child)
  \/ \E d \in Directories : ChangeTree(d)

Spec == Init /\ [][Next]_vars

-----------------------------------------------------------------------------
(* After any chdir, fchdir, fork and execve, getcwd names the directory    *)
(* that the calls led to, also in the program that was executed; and the   *)
(* kernel is there too, or at the mount directory when that is inside      *)
(* GekkoFS, where the environment carries the rest.                        *)
CwdIsGoal ==
  \A p \in Processes :
    LET inside == IsPrefix(Mnt, proc[p].goal)
    IN /\ proc[p].cwd = proc[p].goal
       /\ proc[p].sys = IF inside THEN Mnt ELSE proc[p].goal
       /\ proc[p].env = IF inside THEN <<proc[p].goal>> ELSE <<>>

(* A path relative to an open directory reaches the same place as the same *)
(* path after fchdir to it, "..", "." and the way out included.            *)
FdLikeCwd ==
  \A p \in Processes, d \in Directories : proc[p].cwd = Mnt \o d =>
    \A a \in Arguments : relativize_fd_path(d, a) = relativize_path(p, a)

-----------------------------------------------------------------------------
(* Statements of the repository that the code does not meet: TLC refutes   *)
(* each of those below (README, "Disagreements").                          *)

(* The assertion of prepend_path: the prefix has no slash at its end. *)
PrependAsserts == ~asserts
=============================================================================
