---------------------------- MODULE MetadataText ----------------------------
(***************************************************************************)
(* The text a Metadata object is stored and sent as: numbers and paths     *)
(* with the separator MSP between them.  A daemon handler reads an entry   *)
(* of the store, sets fields and stores it again; the client parses the    *)
(* same text.  A text is a sequence of tokens: a number is one token, a    *)
(* path a sequence of characters, and MSP may be one of them.              *)
(***************************************************************************)
EXTENDS Integers, Sequences, SequencesExt

CONSTANTS Numbers,    \* the numbers of the small instance, as tokens
          Names,      \* paths, as sequences of characters
          Optional    \* the optional fields that are configured (use_atime, ...)

MSP == "|"

(* The order is important: serialize and the constructor share it.         *)
OptionalOrder == <<"atime", "mtime", "ctime", "link_count", "blocks">>
NumberOrder == <<"mode", "size">>
               \o SelectSeq(OptionalOrder, LAMBDA f : f \in Optional)
NumberFields == {"mode", "size"} \cup {OptionalOrder[i] : i \in DOMAIN OptionalOrder}

VARIABLES md,       \* the object of the handler
          text,     \* the value in the store
          stored    \* history: the object that was stored last

vars == <<md, text, stored>>

(* Metadata(mode).                                                         *)
NewMetadata(mode) ==
    [num |-> [f \in NumberFields |-> IF f = "mode" THEN mode ELSE "0"],
     target_path |-> <<>>, rename_path |-> <<>>]

serialize_swapped(o) ==
    FoldLeft(LAMBDA s, f : s \o <<o.num[f], MSP>>, <<>>, NumberOrder)
    \o o.rename_path \o <<MSP>> \o o.target_path
serialize(o) ==
    FoldLeft(LAMBDA s, f : s \o <<o.num[f], MSP>>, <<>>, NumberOrder)
    \o o.target_path \o <<MSP>> \o o.rename_path

(* Metadata(binary_str): the numbers one after the other; what remains is  *)
(* split at its last separator.                                            *)
Parse(s) ==
    LET n == Len(NumberOrder)
        rest == SubSeq(s, 2 * n + 1, Len(s))
        index == SelectLastInSeq(rest, LAMBDA ch : ch = MSP)
        At(f) == CHOOSE i \in 1 .. n : NumberOrder[i] = f
    IN [num |-> [f \in NumberFields |->
                   IF \E i \in 1 .. n : NumberOrder[i] = f THEN s[2 * At(f) - 1]
                   ELSE "0"],
        target_path |-> SubSeq(rest, 1, index - 1),
        rename_path |-> SubSeq(rest, index + 1, Len(rest))]

(* The setters.  Only fields the configuration uses are set by a handler.  *)
SetNumber(f, v) == md' = [md EXCEPT !.num[f] = v] /\ UNCHANGED <<text, stored>>
SetTarget(p) == md' = [md EXCEPT !.target_path = p] /\ UNCHANGED <<text, stored>>
SetRename(p) == md' = [md EXCEPT !.rename_path = p] /\ UNCHANGED <<text, stored>>

Store == text' = serialize(md) /\ stored' = md /\ UNCHANGED md
Load == md' = Parse(text) /\ UNCHANGED <<text, stored>>

Init == /\ \E mode \in Numbers : md = NewMetadata(mode)
        /\ text = serialize(md) /\ stored = md

Next == \/ \E f \in {"mode", "size"} \cup Optional, v \in Numbers : SetNumber(f, v)
        \/ \E p \in Names : SetTarget(p) \/ SetRename(p)
        \/ Store \/ Load

Spec == Init /\ [][Next]_vars

(* However often an entry is read, changed and stored again, what is read  *)
(* is what was stored: no field moves into another.                        *)
RoundTrip == Parse(text) = stored
=============================================================================
