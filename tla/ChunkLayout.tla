---------------------------- MODULE ChunkLayout ----------------------------
(***************************************************************************)
(* How a byte range of a file becomes requests to daemons and operations   *)
(* on chunk files.                                                         *)
(*                                                                         *)
(* The client (forward_data.cpp) cuts the range into chunks, groups them   *)
(* by the host the distributor names and sends each host one request with  *)
(* the interval of chunks, a bitset of the ones that are its own, their    *)
(* number and their total size.  The daemon (srv_data.cpp) walks over the  *)
(* interval and recomputes, from these numbers only, where each piece lies *)
(* in the client's buffer and in the chunk file.                           *)
(***************************************************************************)
EXTENDS Integers, Sequences, FiniteSets, FiniteSetsExt

CONSTANTS Hosts,        \* the daemons, numbered from 0
          ChunkSize     \* gkfs::config::rpc::chunksize

ASSUME LayoutAssumption ==
    /\ ChunkSize \in Nat \ {0}
    /\ IsFiniteSet(Hosts) /\ Cardinality(Hosts) \in Nat \ {0}
    /\ Hosts = 0 .. Cardinality(Hosts) - 1

-----------------------------------------------------------------------------
(* Block arithmetic.  The code masks with the block size minus one, which  *)
(* for a power of two is the remainder.                                    *)

block_overrun(o)  == o % ChunkSize
align_left(o)     == o - block_overrun(o)
is_aligned(o)     == block_overrun(o) = 0
block_underrun(o) == align_left(o) + ChunkSize - o
block_index(o)    == o \div ChunkSize

-----------------------------------------------------------------------------
(* SimpleHashDistributor::locate_data for the file whose chunk hashes are  *)
(* place: copies of a chunk go to consecutive hosts.                       *)

locate_data(place, chunk, copy) == (place[chunk] + copy) % Cardinality(Hosts)

(* forward_write and forward_read.  A target with the first chunk takes    *)
(* the offset in it off its size, one with the last chunk what the range   *)
(* leaves of it.  Copies is the set of copies a call sends to.             *)

(* A mutation: the size of the last chunk is not reduced.                  *)
RequestWithoutUnderrun(host, off, len, chunks, n) ==
    [host |-> host, offset |-> block_overrun(off), start |-> block_index(off),
     end |-> block_index(off + len - 1), bitset |-> chunks, n |-> n,
     total |-> n * ChunkSize - (IF block_index(off) \in chunks
                                  THEN block_overrun(off) ELSE 0),
     bulk |-> len]

RequestTo(host, off, len, chunks, n) ==
    LET start == block_index(off)
        end   == block_index(off + len - 1)
        total == n * ChunkSize
                 - (IF start \in chunks THEN block_overrun(off) ELSE 0)
                 - (IF end \in chunks /\ ~is_aligned(off + len)
                      THEN block_underrun(off + len) ELSE 0)
    IN  [host |-> host, offset |-> block_overrun(off), start |-> start,
         end |-> end, bitset |-> chunks, n |-> n, total |-> total,
         bulk |-> len]

WriteCopiesShort(num_copies) == IF num_copies = 0 THEN {0} ELSE 1 .. num_copies - 1 \* mutation
WriteCopies(num_copies) == IF num_copies = 0 THEN {0} ELSE 1 .. num_copies

ForwardWrite(place, off, len, num_copies) ==
    LET range    == block_index(off) .. block_index(off + len - 1)
        pushed   == range \X WriteCopies(num_copies)
        at(h)    == {p \in pushed : locate_data(place, p[1], p[2]) = h}
        target   == {h \in Hosts : at(h) # {}}
    IN  {RequestTo(h, off, len, {p[1] : p \in at(h)}, Cardinality(at(h))) :
            h \in target}

(* pick[c] is the copy that chunk c is read from.                          *)
ForwardRead(place, off, len, pick) ==
    LET range  == block_index(off) .. block_index(off + len - 1)
        at(h)  == {c \in range : locate_data(place, c, pick[c]) = h}
        target == {h \in Hosts : at(h) # {}}
    IN  {RequestTo(h, off, len, at(h), Cardinality(at(h))) : h \in target}

(* The hosts forward_truncate contacts.  The last chunk is computed from   *)
(* the number of bytes cut off, as the code does, not from the old size.   *)
TruncateLastHost(place, current_size, new_size, num_copies) ==   \* mutation
    {locate_data(place, block_index(current_size - 1), k) :
        k \in 0 .. num_copies}
TruncateHosts(place, current_size, new_size, num_copies) ==
    LET chunk_start == block_index(new_size)
        chunk_end   == block_index(current_size - new_size - 1)
    IN  {locate_data(place, c, k) :
            c \in chunk_start .. chunk_end, k \in 0 .. num_copies}

-----------------------------------------------------------------------------
(* rpc_srv_write and rpc_srv_read: the walk over the interval.  left is    *)
(* chnk_size_left_host, curr is chnk_id_curr; a piece is what one tasklet  *)
(* moves between the client's buffer (from origin) and a chunk (at off).   *)

PieceSize(in, c, curr, left) ==
    CASE c = in.start /\ in.offset > 0 ->
            IF in.offset + in.bulk <= ChunkSize THEN in.bulk
                                                ELSE ChunkSize - in.offset
      [] OTHER ->
            IF curr = in.n - 1 THEN left
            ELSE IF in.bulk <= ChunkSize THEN in.bulk ELSE ChunkSize

PieceOriginAligned(in, c) == (c - in.start) * ChunkSize          \* mutation

PieceOrigin(in, c) ==
    CASE c = in.start /\ in.offset > 0 -> 0
      [] c # in.start /\ in.offset > 0 ->
            (ChunkSize - in.offset) + ((c - in.start) - 1) * ChunkSize
      [] OTHER -> (c - in.start) * ChunkSize

(* The loop body for chunk c of the interval.                              *)
Visit(in, acc, c) ==
    IF c \notin in.bitset \/ acc.curr >= in.n THEN acc
    ELSE LET size == PieceSize(in, c, acc.curr, acc.left)
         IN  [curr   |-> acc.curr + 1,
              left   |-> acc.left - size,
              pieces |-> acc.pieces \cup
                         {[chunk |-> c, size |-> size,
                           origin |-> PieceOrigin(in, c),
                           local |-> in.total - acc.left,
                           off |-> IF c = in.start THEN in.offset ELSE 0]}]

Walk(in) ==
    LET visited[i \in 0 .. in.end - in.start + 1] ==
          IF i = 0 THEN [curr |-> 0, left |-> in.total, pieces |-> {}]
          ELSE Visit(in, visited[i - 1], in.start + i - 1)
    IN  visited[in.end - in.start + 1]

Pieces(in) == Walk(in).pieces
=============================================================================
