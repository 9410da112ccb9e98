---------------------------- MODULE Descriptors ----------------------------
(***************************************************************************)
(* How a client process keeps the descriptors of GekkoFS (log file,        *)
(* sockets, epoll sets of the network library) apart from those of the     *)
(* application.  The kernel gives out the lowest free number.  While the   *)
(* library starts, the numbers of the user are occupied with /dev/null, so *)
(* that its own descriptors come out above them; later every descriptor    *)
(* the library opens is moved to its private range by register_internal_fd.*)
(*                                                                         *)
(* Every open gets a new identity, so that a number that was closed and    *)
(* given out again, or replaced by dup3, can be told from the old one.     *)
(***************************************************************************)
EXTENDS Naturals, FiniteSets, FiniteSetsExt

CONSTANTS MinInternal,   \* MIN_INTERNAL_FD = MAX_USER_FDS
          MaxInternal,   \* GKFS_MAX_INTERNAL_FDS
          LibThreads,    \* threads in GekkoFS code; the constructor is one
          Inherited,     \* numbers the process starts with
          UserLimit,     \* descriptors the application holds at a time
          KeepsZero,     \* the application never closes number 0
          EarlyThreads,  \* network threads open descriptors during start-up
          MaxOpens

Fds == 0 .. MinInternal + MaxInternal - 1
Positions == 0 .. MaxInternal - 1
Ids == 1 .. MaxOpens

VARIABLES kernel,      \* number -> identity, 0 if free, Null for /dev/null
          bits,        \* internal_fds_: the positions that are set, i.e. free
          relocate,    \* internal_fds_must_relocate_
          protected,   \* protected_fds_
          phase,       \* "start", "protected", "closing", "running", "dead"
          lock,        \* internal_fds_mutex_
          th,          \* library threads
          user,        \* <<number, identity>> the application holds
          lib,         \* <<number, identity>> the library holds
          nopens,
          closing,     \* <<number, identity>> an application thread is about to close
          late         \* <<number, identity>> it closed, opened after its test

appVars == <<closing, late>>
vars == <<kernel, bits, relocate, protected, phase, lock, th, user, lib, nopens, appVars>>

Null == MaxOpens + 1
None == <<>>
Idle == [pc |-> "idle", fd |-> 0, id |-> 0, pos |-> 0, word |-> {}]

TypeOK ==
  /\ kernel \in [Fds -> Ids \cup {0, Null}]
  /\ bits \subseteq Positions
  /\ \A t \in LibThreads : th[t].fd \in Fds /\ th[t].pos \in Positions
  /\ user \subseteq Fds \X Ids /\ lib \subseteq Fds \X Ids
  /\ lock \in LibThreads \cup {"free"}
  /\ closing = None \/ closing \in Fds \X (Ids \cup {0, Null})
  /\ late \subseteq Fds \X Ids

-----------------------------------------------------------------------------
Free == {fd \in Fds : kernel[fd] = 0}
Lowest == Min(Free)
Main == CHOOSE t \in LibThreads : TRUE
Goto(t, r) == th' = [th EXCEPT ![t] = r]
Alive == phase # "dead"
MayRun(t) == \/ phase = "running"
             \/ phase \in {"start", "protected"} /\ t = Main
             \/ phase \in {"protected", "closing"} /\ t # Main /\ EarlyThreads

(* A system call of the library that makes a descriptor.  open and its     *)
(* kind register a result > 0, sockets, pipes and the others one >= 0.     *)
RegisteredFrom_sockets(kind) == IF kind = "open" THEN MinInternal ELSE 0
RegisteredFrom(kind) == IF kind = "open" THEN 1 ELSE 0
hook_internal(t, kind) ==
  /\ MayRun(t) /\ th[t].pc = "idle" /\ nopens < MaxOpens /\ Free # {}
  /\ nopens' = nopens + 1
  /\ kernel' = [kernel EXCEPT ![Lowest] = nopens + 1]
  /\ IF Lowest >= RegisteredFrom(kind)
     THEN /\ Goto(t, [Idle EXCEPT !.pc = "register", !.fd = Lowest, !.id = nopens + 1])
          /\ UNCHANGED lib
     ELSE /\ lib' = lib \cup {<<Lowest, nopens + 1>>}
          /\ UNCHANGED th
  /\ UNCHANGED <<bits, relocate, protected, phase, lock, user, appVars>>

(* Without relocation the bit is cleared in place, outside the lock: a     *)
(* load and a store of the word.                                           *)
RegisterInPlace(t) ==
  /\ Alive /\ th[t].pc = "register" /\ ~relocate
  /\ IF th[t].fd >= MinInternal
     THEN Goto(t, [th[t] EXCEPT !.pc = "store", !.word = bits \ {th[t].fd - MinInternal}])
     ELSE Goto(t, [th[t] EXCEPT !.pc = "assert"])
  /\ UNCHANGED <<kernel, bits, relocate, protected, phase, lock, user, lib, nopens, appVars>>
StoreWord(t) ==
  /\ Alive /\ th[t].pc = "store"
  /\ bits' = th[t].word
  /\ lib' = lib \cup {<<th[t].fd, th[t].id>>}
  /\ Goto(t, Idle)
  /\ UNCHANGED <<kernel, relocate, protected, phase, lock, user, nopens, appVars>>

(* Otherwise: the first free position, dup3 there, close of the old number, *)
(* all under the lock; no position left throws.                             *)
Relocate(t) ==
  /\ Alive /\ th[t].pc = "register" /\ relocate /\ lock = "free"
  /\ IF bits = {}
     THEN phase' = "dead" /\ UNCHANGED <<bits, lock, th>>
     ELSE /\ bits' = bits \ {Min(bits)} /\ lock' = t
          /\ Goto(t, [th[t] EXCEPT !.pc = "dup3", !.pos = Min(bits)])
          /\ UNCHANGED phase
  /\ UNCHANGED <<kernel, relocate, protected, user, lib, nopens, appVars>>
dup3_closing(t) ==
  LET new == th[t].pos + MinInternal
  IN /\ Alive /\ th[t].pc = "dup3"
     /\ kernel' = [kernel EXCEPT ![new] = kernel[th[t].fd], ![th[t].fd] = 0]
     /\ Goto(t, [th[t] EXCEPT !.pc = "close"])
     /\ UNCHANGED <<bits, relocate, protected, phase, lock, user, lib, nopens, appVars>>
dup3(t) ==
  LET new == th[t].pos + MinInternal
  IN /\ Alive /\ th[t].pc = "dup3"
     /\ IF new = th[t].fd \/ kernel[th[t].fd] = 0
        THEN Goto(t, [th[t] EXCEPT !.pc = "assert"]) /\ UNCHANGED kernel
        ELSE /\ kernel' = [kernel EXCEPT ![new] = kernel[th[t].fd]]
             /\ Goto(t, [th[t] EXCEPT !.pc = "close"])
     /\ UNCHANGED <<bits, relocate, protected, phase, lock, user, lib, nopens, appVars>>
CloseOld(t) ==
  /\ Alive /\ th[t].pc = "close"
  /\ kernel' = [kernel EXCEPT ![th[t].fd] = 0]
  /\ lib' = lib \cup {<<th[t].pos + MinInternal, th[t].id>>}
  /\ lock' = "free"
  /\ Goto(t, Idle)
  /\ UNCHANGED <<bits, relocate, protected, phase, user, nopens, appVars>>

(* The library closes a descriptor: the kernel first, then the position. *)
LibClose_only(t, h) ==
  /\ MayRun(t) /\ th[t].pc = "idle" /\ h \in lib
  /\ lib' = lib \ {h}
  /\ kernel' = [kernel EXCEPT ![h[1]] = 0]
  /\ UNCHANGED <<bits, relocate, protected, phase, lock, th, user, nopens, appVars>>
LibClose(t, h) ==
  /\ MayRun(t) /\ th[t].pc = "idle" /\ h \in lib
  /\ lib' = lib \ {h}
  /\ kernel' = [kernel EXCEPT ![h[1]] = 0]
  /\ Goto(t, IF h[1] >= MinInternal
             THEN [Idle EXCEPT !.pc = "unregister", !.pos = h[1] - MinInternal]
             ELSE [Idle EXCEPT !.pc = "assert"])
  /\ UNCHANGED <<bits, relocate, protected, phase, lock, user, nopens, appVars>>
unregister_internal_fd(t) ==
  /\ Alive /\ th[t].pc = "unregister" /\ lock = "free"
  /\ bits' = bits \cup {th[t].pos}
  /\ Goto(t, Idle)
  /\ UNCHANGED <<kernel, relocate, protected, phase, lock, user, lib, nopens, appVars>>

-----------------------------------------------------------------------------
(* The constructor of the library, with no other thread of the process. *)
protect_short ==
  /\ phase = "start" /\ \A t \in LibThreads : th[t].pc = "idle"
  /\ LET new == {fd \in 0 .. MinInternal - 2 : kernel[fd] = 0}
     IN /\ protected' = new
        /\ kernel' = [fd \in Fds |-> IF fd \in new THEN Null ELSE kernel[fd]]
  /\ relocate' = FALSE /\ phase' = "protected"
  /\ UNCHANGED <<bits, lock, th, user, lib, nopens, appVars>>
protect_user_fds ==
  /\ phase = "start" /\ \A t \in LibThreads : th[t].pc = "idle"
  /\ LET new == {fd \in 0 .. MinInternal - 1 : kernel[fd] = 0}
     IN /\ protected' = new
        /\ kernel' = [fd \in Fds |-> IF fd \in new THEN Null ELSE kernel[fd]]
  /\ relocate' = FALSE /\ phase' = "protected"
  /\ UNCHANGED <<bits, lock, th, user, lib, nopens, appVars>>
(* The numbers are closed first and the flag is set afterwards. *)
unprotect_user_fds ==
  /\ phase = "protected" /\ th[Main].pc = "idle"
  /\ kernel' = [fd \in Fds |-> IF fd \in protected THEN 0 ELSE kernel[fd]]
  /\ phase' = "closing"
  /\ UNCHANGED <<bits, relocate, protected, lock, th, user, lib, nopens, appVars>>
RelocateAgain ==
  /\ phase = "closing"
  /\ relocate' = TRUE /\ phase' = "running"
  /\ UNCHANGED <<kernel, bits, protected, lock, th, user, lib, nopens, appVars>>

-----------------------------------------------------------------------------
(* The application: kernel descriptors, and close of any number. *)
UserOpen ==
  /\ phase = "running" /\ nopens < MaxOpens /\ Free # {}
  /\ Cardinality(user) < UserLimit
  /\ nopens' = nopens + 1
  /\ kernel' = [kernel EXCEPT ![Lowest] = nopens + 1]
  /\ user' = user \cup {<<Lowest, nopens + 1>>}
  /\ UNCHANGED <<bits, relocate, protected, phase, lock, th, lib, appVars>>

is_internal_fd(fd) == fd >= MinInternal /\ fd - MinInternal \notin bits
(* hook_close: gkfs_close ignores an internal number; for any other the    *)
(* hook calls the kernel afterwards, with no lock held, so that the        *)
(* library may take the number in between.  Below the private range the    *)
(* application closes only its own; above it, as a program that closes     *)
(* every number does, any.                                                 *)
gkfs_close_untested(fd) ==
  /\ phase = "running" /\ lock = "free" /\ closing = None
  /\ fd = 0 => ~KeepsZero
  /\ fd >= MinInternal \/ \E h \in user : h[1] = fd
  /\ closing' = <<fd, kernel[fd]>>
  /\ UNCHANGED <<kernel, bits, relocate, protected, phase, lock, th, user, lib, nopens, late>>
gkfs_close(fd) ==
  /\ phase = "running" /\ lock = "free" /\ closing = None
  /\ fd = 0 => ~KeepsZero
  /\ ~is_internal_fd(fd)
  /\ fd >= MinInternal \/ \E h \in user : h[1] = fd
  /\ closing' = <<fd, kernel[fd]>>
  /\ UNCHANGED <<kernel, bits, relocate, protected, phase, lock, th, user, lib, nopens, late>>
hook_close ==
  /\ Alive /\ closing # None
  /\ LET fd == closing[1]
     IN /\ kernel' = [kernel EXCEPT ![fd] = 0]
        /\ user' = {h \in user : h[1] # fd}
        /\ late' = IF kernel[fd] \in {0, closing[2]} THEN late
                   ELSE late \cup {<<fd, kernel[fd]>>}
  /\ closing' = None
  /\ UNCHANGED <<bits, relocate, protected, phase, lock, th, lib, nopens>>

Init ==
  /\ nopens = Cardinality(Inherited)
  /\ kernel = [fd \in Fds |-> IF fd \in Inherited THEN fd + 1 ELSE 0]
  /\ user = {<<fd, fd + 1>> : fd \in Inherited}
  /\ bits = Positions /\ relocate = TRUE /\ protected = {} /\ phase = "start"
  /\ lock = "free" /\ lib = {} /\ th = [t \in LibThreads |-> Idle]
  /\ closing = None /\ late = {}

Next ==
  \/ protect_user_fds \/ unprotect_user_fds \/ RelocateAgain
  \/ UserOpen \/ hook_close \/ \E fd \in Fds : gkfs_close(fd)
  \/ \E t \in LibThreads :
       \/ \E kind \in {"open", "socket"} : hook_internal(t, kind)
       \/ RegisterInPlace(t) \/ StoreWord(t)
       \/ Relocate(t) \/ dup3(t) \/ CloseOld(t)
       \/ \E h \in lib : LibClose(t, h)
       \/ unregister_internal_fd(t)

Spec == Init /\ [][Next]_vars

-----------------------------------------------------------------------------
(* A number the application was given names what it opened until the       *)
(* application closes it: relocation never replaces or closes it.          *)
UserUntouched == \A h \in user : kernel[h[1]] = h[2]

(* A number GekkoFS holds names what it opened, lies in the private range  *)
(* and is registered, so that the close of an application is ignored.      *)
(* Only a close whose test came before the number was taken can hit it.    *)
LibPrivate ==
  Alive => \A h \in lib : /\ h \notin late => kernel[h[1]] = h[2]
                           /\ h[1] >= MinInternal /\ h[1] - MinInternal \notin bits

(* A position that is taken belongs to a descriptor, or to one that is     *)
(* being registered or unregistered: none is lost, whatever the order.     *)
PositionsUsed ==
  Alive => \A pos \in Positions \ bits :
             \/ \E h \in lib : h[1] = pos + MinInternal
             \/ \E t \in LibThreads : th[t].pc \in {"dup3", "close", "unregister"} /\ th[t].pos = pos

(* The assertions of register_internal_fd and unregister_internal_fd. *)
AssertsHold == \A t \in LibThreads : th[t].pc # "assert"
=============================================================================
