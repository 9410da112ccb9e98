--------------------------- MODULE PathResolution ---------------------------
(***************************************************************************)
(* How a client maps the path of a system call to GekkoFS or the kernel:   *)
(* resolve_new, and the older resolve that looks up the kernel's links.    *)
(* A path is the sequence of its components, with "." and ".." as they are *)
(* written; positions in the string are kept where the code cuts there.    *)
(***************************************************************************)
EXTENDS Naturals, Sequences, SequencesExt

CONSTANTS Mnt,              \* components of the mount directory
          StartsWith(_, _), \* of two components: the first begins with the second
          Size(_),          \* characters of a component
          Kernel(_),        \* what lstat of the kernel says: "dir", "file", "link", "none";
                            \* "dangling" is a link for which realpath fails
          Target(_),        \* realpath of a link
          Excluded,         \* excluded_paths, each one component and a slash
          FollowLinks       \* GKFS_FOLLOW_EXTERNAL_SYMLINKS

Internal(p) == [internal |-> TRUE, path |-> p]
External(p) == [internal |-> FALSE, path |-> p]
Thrown == [internal |-> FALSE, path |-> <<"thrown">>]

StringSize(p) == FoldLeft(LAMBDA n, c : n + 1 + Size(c), 0, p)
(* resolved.erase(pos): a cut inside a component leaves a piece of it. *)
Erase(p, pos) ==
  LET whole == {n \in 0 .. Len(p) : StringSize(SubSeq(p, 1, n)) <= pos}
      n == CHOOSE m \in whole : \A k \in whole : k <= m
  IN SubSeq(p, 1, n) \o (IF StringSize(SubSeq(p, 1, n)) < pos THEN <<"piece">> ELSE <<>>)

follow_symlinks(p) ==
  IF FollowLinks /\ Kernel(p) = "link" THEN Target(p) ELSE p

(* One component: the path so far, and last_component_pos, the stack of    *)
(* the positions where its components begin.                               *)
StepNew_rooted(s, c) ==
  IF s.thrown \/ c = "." THEN s
  ELSE IF c = ".." THEN [s EXCEPT !.path = <<>>, !.pos = <<>>]
  ELSE [s EXCEPT !.path = follow_symlinks(Append(s.path, c)),
                          !.pos = Append(s.pos, StringSize(s.path))]
StepNew(s, c) ==
  IF s.thrown \/ c = "." THEN s
  ELSE IF c = ".." /\ s.pos = <<>> THEN [s EXCEPT !.path = <<>>]
  ELSE IF c = ".." /\ s.pos # <<>> THEN
         IF Last(s.pos) > StringSize(s.path) THEN [s EXCEPT !.thrown = TRUE]
         ELSE [s EXCEPT !.path = Erase(s.path, Last(s.pos)), !.pos = Front(s.pos)]
  ELSE [s EXCEPT !.path = follow_symlinks(Append(s.path, c)),
                          !.pos = Append(s.pos, StringSize(s.path))]

(* substr(0, mountdir.size()) == mountdir: only the beginning of the last  *)
(* component is compared.                                                  *)
BelowMount(p) ==
  /\ Len(p) >= Len(Mnt)
  /\ SubSeq(p, 1, Len(Mnt) - 1) = Front(Mnt)
  /\ StartsWith(p[Len(Mnt)], Last(Mnt))
(* erase(1, mountdir.size()): also the slash behind it, or the character   *)
(* there when the component is longer.                                     *)
StripMount(p) ==
  LET rest == SubSeq(p, Len(Mnt) + 1, Len(p))
      over == Size(p[Len(Mnt)]) - Size(Last(Mnt))
  IN CASE over = 0 \/ (over = 1 /\ rest = <<>>) -> rest
       [] over = 1 /\ rest # <<>> -> <<"">> \o rest
       [] OTHER -> <<"piece">> \o rest

resolve_new(p) ==
  LET s == FoldLeft(StepNew, [path |-> <<>>, pos |-> <<>>, thrown |-> FALSE], p)
  IN IF s.thrown THEN Thrown
     ELSE IF BelowMount(s.path) THEN Internal(StripMount(s.path)) ELSE External(s.path)

-----------------------------------------------------------------------------
(* The legacy resolve: s.matched counts the leading components that match  *)
(* the mount directory, s.resolved all components.                         *)
(* match_components asks for one component more than the mount directory   *)
(* has when the target of a link lies below it.                            *)
OutOfRange(p) == Len(p) > Len(Mnt) /\ SubSeq(p, 1, Len(Mnt)) = Mnt
match_components(p) ==
  LET ns == {n \in 0 .. Len(p) : n <= Len(Mnt) /\ SubSeq(p, 1, n) = SubSeq(Mnt, 1, n)}
  IN CHOOSE n \in ns : \A k \in ns : k <= n
GiveUp(s, p, i) == [s EXCEPT !.done = TRUE, !.path = @ \o SubSeq(p, i + 1, Len(p))]

DotDot_unmatched(s) ==
  [s EXCEPT !.path = IF @ = <<>> THEN @ ELSE Front(@),
            !.resolved = IF @ > 0 THEN @ - 1 ELSE 0]
DotDot(s) ==
  [s EXCEPT !.path = IF @ = <<>> THEN @ ELSE Front(@),
            !.matched = IF s.resolved > 0 /\ @ = s.resolved THEN @ - 1 ELSE @,
            !.resolved = IF @ > 0 THEN @ - 1 ELSE 0]

StepOutside(s, p, i, last_link) ==
  LET path == Append(s.path, p[i])
      t == [s EXCEPT !.path = path,
                     !.matched = IF @ = s.resolved /\ p[i] = Mnt[@ + 1] THEN @ + 1 ELSE @]
      kind == Kernel(path)
  IN CASE kind = "none" -> GiveUp(t, p, i)
       [] kind \in {"link", "dangling"} /\ ~last_link /\ i = Len(p) -> t
       [] kind = "dangling" /\ (last_link \/ i < Len(p)) -> GiveUp(t, p, i)
       [] kind = "link" /\ (last_link \/ i < Len(p)) /\ OutOfRange(Target(path)) ->
            [t EXCEPT !.done = TRUE, !.path = Thrown.path]
       [] kind = "link" /\ (last_link \/ i < Len(p)) /\ ~OutOfRange(Target(path)) ->
            [t EXCEPT !.path = Target(path), !.matched = match_components(Target(path)),
                      !.resolved = Len(Target(path))]
       [] kind = "file" /\ i < Len(p) -> GiveUp(t, p, i)
       [] OTHER -> [t EXCEPT !.resolved = @ + 1]

StepLegacy(s, p, i, last_link) ==
  CASE s.done \/ p[i] = "." -> s
    [] ~s.done /\ p[i] = ".." -> DotDot(s)
    [] ~s.done /\ p[i] \notin {".", ".."} /\ s.matched < Len(Mnt) ->
         StepOutside(s, p, i, last_link)
    [] OTHER -> [s EXCEPT !.path = Append(@, p[i]), !.matched = @ + 1, !.resolved = @ + 1]

resolve(p, last_link) ==
  LET s == FoldLeft(LAMBDA r, i : StepLegacy(r, p, i, last_link),
                    [path |-> <<>>, matched |-> 0, resolved |-> 0, done |-> FALSE],
                    [i \in 1 .. Len(p) |-> i])
  IN IF Len(p) > 1 /\ p[1] \in Excluded THEN External(p)
     ELSE IF ~s.done /\ s.matched >= Len(Mnt)
     THEN Internal(SubSeq(s.path, Len(Mnt) + 1, Len(s.path))) ELSE External(s.path)
=============================================================================
