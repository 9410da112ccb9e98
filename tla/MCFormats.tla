----------------------------- MODULE MCFormats -----------------------------
(***************************************************************************)
(* What is written in one form and read back in another: the operand log   *)
(* of a metadata key (MergeLog), the text of a metadata entry              *)
(* (MetadataText), the arguments and answers of RPCs (RpcCalls), the       *)
(* chunks of a request (ChunkBitset), and the records of directory entries *)
(* (DirEntries).  A behaviour is about one of the parts below, each with   *)
(* bounds of its own; the variables of the other modules keep their first  *)
(* value.                                                                  *)
(***************************************************************************)
EXTENDS MergeLog, TLC, FiniteSets, FiniteSetsExt

VARIABLES part,
          md, text, stored,                                \* MetadataText
          registered, call,                                \* RpcCalls
          total, vect, marked,                             \* ChunkBitset
          held, out, dir, th, got, from, seen, single      \* DirEntries

textVars == <<md, text, stored>>
callVars == <<registered, call>>
bitVars  == <<total, vect, marked>>
dirVars  == <<held, out, dir, th, got, from, seen, single>>

-----------------------------------------------------------------------------
(* "log", with the constants of the configuration: a file that appends     *)
(* grow to at most two bytes, a log of at most three operands.             *)
MCIoSizes == {1, 2}

(* "text": names without the separator of the text. *)
Texts == INSTANCE MetadataText WITH
  Numbers <- {"0", "1"}, Names <- {<<>>, <<"/", "x">>, <<"/", "x", "/", "y">>},
  Optional <- {"mtime", "blocks"}

(* "calls": every RPC of the system, with scaled-down integer widths. *)
Calls == INSTANCE RpcCalls WITH M32 <- 16, M64 <- 256

(* "bits": up to five bytes, with every remainder of three; few chunks of  *)
(* a daemon, or all.                                                       *)
Bits == INSTANCE ChunkBitset WITH Totals <- {1, 8, 9, 16, 17, 24, 25, 33}, MaxMarks <- 2, Positions <- 40

(* Directory entries: the names are as long as it takes for every          *)
(* remainder of the record size that matters.                              *)
MCNameSize(n) == CASE n = "i" -> 1 [] n = "iii" -> 3 [] n = "iiii" -> 4
                   [] n = "vvvvv" -> 5 [] n = "vvvvvvvvvvvv" -> 12 [] OTHER -> 0
Entry(n, d, s) == [name |-> n, dir |-> d, size |-> s, ctime |-> s + 1]
SomeEntries == {Entry("i", TRUE, 3), Entry("iii", FALSE, 0), Entry("iiii", FALSE, 5),
                Entry("vvvvv", TRUE, 7), Entry("vvvvvvvvvvvv", TRUE, 9)}
Lists == {s \in UNION {[1 .. n -> SomeEntries] : n \in 0 .. 2} : IsInjective(s)}
TwoHosts == <<"h0", "h1">>
AllContents == {[h0 |-> l, h1 |-> m] : l \in Lists, m \in {l \in Lists : Len(l) < 2}}
OneHost == {[h0 |-> l, h1 |-> <<>>] : l \in Lists}
OneContent == {[h0 |-> <<Entry("i", TRUE, 3), Entry("vvvvv", TRUE, 7)>>,
                h1 |-> <<Entry("iiii", FALSE, 5), Entry("vvvvvvvvvvvv", TRUE, 9)>>]}

(* "getdents" and "getdents64": one reader, buffers of several sizes, seeks. *)
Getdents == INSTANCE DirEntries WITH
  Threads <- {"t1"}, Hosts <- TwoHosts, BuffSize <- 40, Contents <- AllContents, NameSize <- MCNameSize,
  Extended <- FALSE, Counts <- {24, 40, 64}, Seeks <- TRUE, Record <- "getdents"
Getdents64 == INSTANCE DirEntries WITH
  Threads <- {"t1"}, Hosts <- TwoHosts, BuffSize <- 60, Contents <- AllContents, NameSize <- MCNameSize,
  Extended <- TRUE, Counts <- {30, 56}, Seeks <- TRUE, Record <- "getdents64"
(* "single": gkfs_getsingleserverdir. *)
Single == INSTANCE DirEntries WITH
  Threads <- {}, Hosts <- TwoHosts, BuffSize <- 60, Contents <- OneHost, NameSize <- MCNameSize,
  Extended <- TRUE, Counts <- {30, 56, 80}, Seeks <- FALSE, Record <- "extended"
(* "shared": two threads that read and seek one descriptor. *)
Shared == INSTANCE DirEntries WITH
  Threads <- {"t1", "t2"}, Hosts <- TwoHosts, BuffSize <- 60, Contents <- OneContent, NameSize <- MCNameSize,
  Extended <- FALSE, Counts <- {30, 40, 60, 80}, Seeks <- TRUE, Record <- "getdents64"

NoTexts == md = 0 /\ text = 0 /\ stored = 0
NoCalls == registered = 0 /\ call = 0
NoBits  == total = 0 /\ vect = 0 /\ marked = 0
NoDirs  == /\ held = 0 /\ out = 0 /\ dir = 0 /\ th = 0 /\ got = 0 /\ from = 0 /\ seen = 0
           /\ single = 0

MCInit ==
  \/ part = "log" /\ Init /\ NoTexts /\ NoCalls /\ NoBits /\ NoDirs
  \/ part = "text" /\ Texts!Init /\ Init /\ NoCalls /\ NoBits /\ NoDirs
  \/ part = "calls" /\ Calls!Init /\ Init /\ NoTexts /\ NoBits /\ NoDirs
  \/ part = "bits" /\ Bits!Init /\ Init /\ NoTexts /\ NoCalls /\ NoDirs
  \/ part = "getdents" /\ Getdents!Init /\ Init /\ NoTexts /\ NoCalls /\ NoBits
  \/ part = "getdents64" /\ Getdents64!Init /\ Init /\ NoTexts /\ NoCalls /\ NoBits
  \/ part = "single" /\ Single!Init /\ Init /\ NoTexts /\ NoCalls /\ NoBits
  \/ part = "shared" /\ Shared!Init /\ Init /\ NoTexts /\ NoCalls /\ NoBits

MCNext ==
  \/ part = "log" /\ Next /\ UNCHANGED <<part, textVars, callVars, bitVars, dirVars>>
  \/ part = "text" /\ Texts!Next /\ UNCHANGED <<part, vars, callVars, bitVars, dirVars>>
  \/ part = "calls" /\ Calls!Next /\ UNCHANGED <<part, vars, textVars, bitVars, dirVars>>
  \/ part = "bits" /\ Bits!Next /\ UNCHANGED <<part, vars, textVars, callVars, dirVars>>
  \/ part = "getdents" /\ Getdents!Next /\ UNCHANGED <<part, vars, textVars, callVars, bitVars>>
  \/ part = "getdents64" /\ Getdents64!Next /\ UNCHANGED <<part, vars, textVars, callVars, bitVars>>
  \/ part = "single" /\ Single!Next /\ UNCHANGED <<part, vars, textVars, callVars, bitVars>>
  \/ part = "shared" /\ Shared!Next /\ UNCHANGED <<part, vars, textVars, callVars, bitVars>>

MCSpec == MCInit /\ [][MCNext]_<<part, vars, textVars, callVars, bitVars, dirVars>>

-----------------------------------------------------------------------------
(* RoundTrip of MetadataText: an entry that is read, changed and stored    *)
(* again and again keeps every field.  BitsArrive of ChunkBitset: a daemon *)
(* takes the chunks of a request that the client meant.                    *)
RoundTrip == (part = "text" => Texts!RoundTrip) /\ (part = "bits" => Bits!BitsArrive)

(* RpcCalls: every RPC a process may send is registered where it goes with *)
(* the same structs, the right handler sees the caller's values, and the   *)
(* caller the handler's.                                                   *)
CallsArrive ==
  part = "calls" => Calls!NoCallRefused /\ Calls!ArgumentsArrive /\ Calls!AnswersArrive

(* DirEntries: through the daemon's buffer, the client's list and the      *)
(* records of getdents every entry arrives once and in order, threads that *)
(* share a descriptor miss none between them, and gkfs_getsingleserverdir  *)
(* returns the first entries of a daemon, as many as fit.                  *)
ListingsArrive ==
  /\ part = "getdents" => Getdents!EntriesArrive
  /\ part = "getdents64" => Getdents64!EntriesArrive
  /\ part = "shared" => Shared!NothingSkipped /\ Shared!TypeOK
  /\ part = "single" => Single!SingleServerPrefix
=============================================================================
