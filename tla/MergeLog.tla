------------------------------ MODULE MergeLog ------------------------------
(***************************************************************************)
(* One key as RocksDB stores it: an optional base value and a log of merge *)
(* operands, folded by MetadataMergeOperator::FullMergeV2 on every read    *)
(* and, at times RocksDB chooses, in the background (a flush, a            *)
(* compaction, or a write past max_successive_merges).                     *)
(***************************************************************************)
EXTENDS Integers, Sequences, SequencesExt

CONSTANTS MergeIds, IoSizes,
          MaxSize,     \* bound on the file size
          MaxOps       \* bound on the length of the operand log

VARIABLES base,        \* the existing value: [st, size], or NoBase
          ops,         \* merge operands since, oldest first
          reserve      \* MetadataModule::append_offset_reserve_

vars == <<base, ops, reserve>>

E == INSTANCE MetadataEntry

NoBase == [st |-> "absent", size |-> 0]
Values == [st : E!Kinds, size : Nat]

Operand ==
         [op : {"create"}, st : E!Kinds, size : Nat]
    \cup [op : {"increase", "decrease"}, size : Nat]
    \cup [op : {"append"}, size : Nat, id : MergeIds]

\* Mutant: the offset of an append is stored after the file has grown.
MergeOperandLateOffset(acc, o) ==
    CASE o.op = "append" ->
            [acc EXCEPT !.size = @ + o.size,
                        !.reserve[o.id] = acc.size + o.size]
      [] o.op = "increase" ->
            [acc EXCEPT !.size = IF o.size > @ THEN o.size ELSE @]
      [] o.op = "decrease" -> [acc EXCEPT !.size = o.size]
      [] o.op = "create" -> acc

\* One turn of the loop over the operands.
MergeOperand(acc, o) ==
    CASE o.op = "append" ->
            [acc EXCEPT !.size = @ + o.size,
                        !.reserve[o.id] = acc.size]
      [] o.op = "increase" ->
            [acc EXCEPT !.size = IF o.size > @ THEN o.size ELSE @]
      [] o.op = "decrease" -> [acc EXCEPT !.size = o.size]
      [] o.op = "create" -> acc

\* The exception of FullMergeV2.
Throws(existing, s) ==
    existing = NoBase /\ (s # <<>> => Head(s).op # "create")

\* The new value of a fold, with the reservations it has stored in res.
FullMergeV2(existing, s, res) ==
    LET first == IF existing = NoBase THEN Head(s) ELSE existing
        rest  == IF existing = NoBase THEN Tail(s) ELSE s
    IN  FoldLeft(MergeOperand,
                 [st |-> first.st, size |-> first.size, reserve |-> res],
                 rest)

TypeOK ==
    /\ base \in Values \cup {NoBase}
    /\ ops \in Seq(Operand)
    /\ reserve \in E!Reserve

Init ==
    /\ base = NoBase
    /\ ops = <<>>
    /\ reserve = [i \in MergeIds |-> E!NoOffset]

LogMerge(o) ==
    /\ Len(ops) < MaxOps
    /\ ops' = Append(ops, o)
    /\ UNCHANGED <<base, reserve>>

put(kind, size)     == LogMerge([op |-> "create", st |-> kind, size |-> size])
increase(size)      == LogMerge([op |-> "increase", size |-> size])
decrease(size)      == LogMerge([op |-> "decrease", size |-> size])

appendSize(size, id) ==
    /\ ~ Throws(base, ops) =>
          FullMergeV2(base, ops, reserve).size + size <= MaxSize
    /\ LogMerge([op |-> "append", size |-> size, id |-> id])

remove ==
    /\ base' = NoBase /\ ops' = <<>>
    /\ UNCHANGED reserve

\* WriteBatch { Delete; Put }
update(kind, size) ==
    /\ base' = [st |-> kind, size |-> size] /\ ops' = <<>>
    /\ UNCHANGED reserve

\* db_->Get of a key that exists and whose fold does not throw.
get ==
    /\ ~ Throws(base, ops)
    /\ reserve' = FullMergeV2(base, ops, reserve).reserve
    /\ UNCHANGED <<base, ops>>

\* RocksDB folds the oldest k operands into the base.
compact(k) ==
    LET old == SubSeq(ops, 1, k)
        md  == FullMergeV2(base, old, reserve)
    IN  /\ ~ Throws(base, old)
        /\ base' = [st |-> md.st, size |-> md.size]
        /\ ops' = SubSeq(ops, k + 1, Len(ops))
        /\ reserve' = md.reserve

append_offset_reserve_get_and_erase(id) ==
    /\ reserve[id] # E!NoOffset
    /\ reserve' = [reserve EXCEPT ![id] = E!NoOffset]
    /\ UNCHANGED <<base, ops>>

Next ==
    \/ \E kind \in E!Kinds, size \in IoSizes :
          put(kind, size) \/ update(kind, size)
    \/ \E size \in IoSizes : increase(size) \/ decrease(size)
    \/ \E size \in IoSizes, id \in MergeIds : appendSize(size, id)
    \/ \E k \in 1..Len(ops) : compact(k)
    \/ \E id \in MergeIds : append_offset_reserve_get_and_erase(id)
    \/ remove
    \/ get

Spec == Init /\ [][Next]_vars

-----------------------------------------------------------------------------
(* The merged entry of the log, operand by operand.                        *)

MergedEntry ==
    LET Apply(e, o) ==
            CASE o.op = "create"   -> E!MergeCreate(e, o.st, o.size)
              [] o.op = "increase" -> E!MergeIncrease(e, o.size)
              [] o.op = "decrease" -> E!MergeDecrease(e, o.size)
              [] o.op = "append"   -> E!MergeAppend(e, o.size, o.id)
    IN  FoldLeft(Apply, [st |-> base.st, size |-> base.size, pend |-> <<>>],
                 ops)

K == INSTANCE MetadataKey WITH entry <- MergedEntry

\* RocksDB's log and lazy folds implement the merged entry: a fold on a read
\* or in the background, of any prefix and any number of times, gives the
\* value and stores the offsets that the operands had when they were
\* written (merge.cpp, FullMergeV2; rocksdb_backend.cpp).
ImplementsMergedKey == K!KeySpec
=============================================================================
