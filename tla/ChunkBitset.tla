---------------------------- MODULE ChunkBitset ----------------------------
(***************************************************************************)
(* Which chunks of its interval a write or read request is about: the      *)
(* client sets a bit per chunk in a vector of bytes, sends the vector as   *)
(* base64 text, and the daemon asks for the bit of every chunk of the      *)
(* interval (rpc_util.cpp).  A character of the text is its index in       *)
(* base64_chars, or Pad.                                                   *)
(***************************************************************************)
EXTENDS Integers, Sequences, SequencesExt

CONSTANTS Totals,      \* numbers of chunks in an interval (chnk_total)
          MaxMarks,    \* bound on the chunks of one daemon
          Positions    \* number of values of a position, 2^16 in the code

VARIABLES total,    \* chnk_total of the call
          vect,     \* write_ops_vect[target] or read_bitset_vect[target]
          marked    \* history: the chunks of the target, from chnk_start on

vars == <<total, vect, marked>>

Pad == 64    \* '='

(* The buffers have 32 bits; no bit above these 22 is ever looked at, and  *)
(* what is shifted out is dropped in both.                                 *)
Kept == 2 ^ 22

-----------------------------------------------------------------------------
set_bitset(data, position) ==
  LET p == position % Positions
      byte == data[p \div 8 + 1]
      bit == 2 ^ (p % 8)
  IN  [data EXCEPT ![p \div 8 + 1] = IF (byte \div bit) % 2 = 1 THEN byte ELSE byte + bit]

get_bitset(data, position) ==
  LET p == position % Positions
  IN  (data[p \div 8 + 1] \div 2 ^ (p % 8)) % 2 = 1

(* A byte gives one character, or two when six bits are already waiting.   *)
EncodeByte(s, byte) ==
  LET buffer == (s.buffer * 256 + byte) % Kept
      bits == s.padding + 8
      Char(i) == (buffer \div 2 ^ (bits - 6 * i)) % 64
  IN  [buffer |-> buffer, padding |-> bits % 6, text |-> s.text \o [i \in 1 .. bits \div 6 |-> Char(i)]]

Filled(text) == text \o [i \in 1 .. (-Len(text)) % 4 |-> Pad]

base64_encode_unshifted(data) ==
  LET s == FoldLeft(EncodeByte, [buffer |-> 0, padding |-> 0, text |-> <<>>], data)
  IN  Filled(IF s.padding = 0 THEN s.text ELSE Append(s.text, s.buffer % 64))
base64_encode(data) ==
  LET s == FoldLeft(EncodeByte, [buffer |-> 0, padding |-> 0, text |-> <<>>], data)
  IN  Filled(IF s.padding = 0 THEN s.text
             ELSE Append(s.text, (s.buffer * 2 ^ (6 - s.padding)) % 64))

DecodeChar(s, c) ==
  LET buffer == (s.buffer * 64 + c) % Kept
      bits == s.padding + 6
  IN  IF bits < 8 THEN [s EXCEPT !.buffer = buffer, !.padding = bits]
      ELSE [buffer |-> buffer, padding |-> bits - 8,
            data |-> Append(s.data, (buffer \div 2 ^ (bits - 8)) % 256)]

(* The bits that are left over are taken off the buffer, and one more byte *)
(* is appended: the vector that comes out is longer than the one sent.     *)
base64_decode(text) ==
  LET end == SelectInSeq(text, LAMBDA c : c = Pad)
      chars == IF end = 0 THEN text ELSE SubSeq(text, 1, end - 1)
      s == FoldLeft(DecodeChar, [buffer |-> 0, padding |-> 0, data |-> <<>>], chars)
      over == 2 ^ s.padding
      rest == s.padding \in 1 .. 5 /\ s.buffer % over = 0
      data == IF rest THEN Append(s.data, (s.buffer \div (over * 256)) % 256) ELSE s.data
  IN  IF data = <<>> \/ (~rest /\ s.padding % 8 # 0) THEN <<>> ELSE data

compress_bitset(bytes) == base64_encode(bytes)
decompress_bitset(text) == base64_decode(text)

-----------------------------------------------------------------------------
(* forward_write and forward_read find that a chunk belongs to the target. *)
Mark(c) == /\ vect' = set_bitset(vect, c)
           /\ marked' = marked \cup {c}
           /\ UNCHANGED total

(* The vector of a target in a new call, with no chunk yet or with all.    *)
NewVect(n, chunks) ==
  FoldSet(LAMBDA c, data : set_bitset(data, c), [i \in 1 .. (n + 7) \div 8 |-> 0], chunks)

Init == \E n \in Totals : \E chunks \in {{}, 0 .. n - 1} :
          total = n /\ marked = chunks /\ vect = NewVect(n, chunks)

Call(n, chunks) == total' = n /\ marked' = chunks /\ vect' = NewVect(n, chunks)

Next == \/ \E c \in (0 .. total - 1) \ marked : Cardinality(marked) < MaxMarks /\ Mark(c)
        \/ \E n \in Totals : \E chunks \in {{}, 0 .. n - 1} : Call(n, chunks)

Spec == Init /\ [][Next]_vars

-----------------------------------------------------------------------------
(* rpc_srv_write and rpc_srv_read: the daemon finds a bit for every chunk  *)
(* of the interval, and takes the chunks the client meant and no other,    *)
(* for every length of the vector modulo the groups of base64.             *)
BitsArrive ==
  LET data == decompress_bitset(compress_bitset(vect))
  IN  /\ Len(data) >= Len(vect)
      /\ \A c \in 0 .. total - 1 : get_bitset(data, c) <=> c \in marked
=============================================================================
