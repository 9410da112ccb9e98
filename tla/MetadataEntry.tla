--------------------------- MODULE MetadataEntry ---------------------------
(***************************************************************************)
(* One key of a daemon's metadata store, in merged form.                   *)
(*                                                                         *)
(* RocksDB keeps, for a key, an optional base value and the merge operands *)
(* written since; MetadataMergeOperator::FullMergeV2 folds them whenever   *)
(* the key is read.  An entry holds the outcome of that fold and what a    *)
(* repeated fold would do again: `pend' lists, in the order of the log,    *)
(* the append operands that have not been folded into the base yet, each   *)
(* with the offset its fold stores in the append reservation map.          *)
(* MergeLog checks that this form agrees with folding the log.             *)
(***************************************************************************)
EXTENDS Integers, Sequences

CONSTANT MergeIds      \* the ids gen_unique_id can return (uint16_t)

Kinds  == {"file", "dir"}
States == Kinds \cup {"absent", "broken"}

\* No reservation under an id; increase_size_impl also returns it when there
\* is none to take.
NoOffset == -1

Reservation == [id : MergeIds, at : Nat]
Entry       == [st : States, size : Nat, pend : Seq(Reservation)]
Reserve     == [MergeIds -> Nat \cup {NoOffset}]

\* No value and no operand (never written, or hidden by a Delete).
Absent == [st |-> "absent", size |-> 0, pend |-> <<>>]

\* Operands without a base whose first one is not a creation: every fold of
\* the key throws, before it looks at any other operand.
Broken == [st |-> "broken", size |-> 0, pend |-> <<>>]

Present(e) == e.st \in Kinds

Value(kind, size) == [st |-> kind, size |-> size, pend |-> <<>>]

\* Mutant: a creation overwrites a key that exists.
MergeCreateOverwrites(e, kind, size) == Value(kind, size)

\* db_->Merge of a CreateOperand: the first operand of a key becomes its
\* value, a later one is skipped.
MergeCreate(e, kind, size) ==
    IF e.st = "absent" THEN Value(kind, size) ELSE e

\* db_->Merge of an operand that needs an existing value.
MergeInto(e, merged) ==
    IF Present(e) THEN merged ELSE Broken

\* Mutant: a size update sets the size instead of raising it.
MergeIncreaseSets(e, size) ==
    MergeInto(e, [st |-> e.st, size |-> size, pend |-> e.pend])

\* The fold of a plain IncreaseSizeOperand.
MergeIncrease(e, size) ==
    MergeInto(e, [st |-> e.st, size |-> IF size > e.size THEN size ELSE e.size,
                  pend |-> e.pend])

\* Mutant: an append raises the size like any other size update.
MergeAppendMax(e, size, id) ==
    MergeInto(e, [st |-> e.st, size |-> IF size > e.size THEN size ELSE e.size,
                  pend |-> Append(e.pend, [id |-> id, at |-> e.size])])

\* Mutant: the offset of an append is computed as if the file had grown.
MergeAppendTooEarly(e, size, id) ==
    MergeInto(e, [st |-> e.st, size |-> e.size + size,
                  pend |-> Append(e.pend, [id |-> id, at |-> e.size - size])])

\* The fold of an append: the file grows by size, and the fold stores the
\* previous size under the operand's id.
MergeAppend(e, size, id) ==
    MergeInto(e, [st |-> e.st, size |-> e.size + size,
                  pend |-> Append(e.pend, [id |-> id, at |-> e.size])])

\* The fold of a DecreaseSizeOperand, compiled without its assertion.
MergeDecrease(e, size) ==
    MergeInto(e, [st |-> e.st, size |-> size, pend |-> e.pend])

\* RocksDB folds the oldest k unfolded appends into the base.
Folded(e, k) ==
    [st |-> e.st, size |-> e.size, pend |-> SubSeq(e.pend, k + 1, Len(e.pend))]

\* The reservation map after a fold has stored the offsets of the operands
\* in s, in order: append_offset_reserve_put overwrites.
Puts(res, s) ==
    [i \in MergeIds |->
        LET at == {k \in DOMAIN s : s[k].id = i} IN
        IF at = {} THEN res[i]
        ELSE s[CHOOSE k \in at : \A j \in at : j <= k].at]
=============================================================================
