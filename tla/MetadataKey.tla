---------------------------- MODULE MetadataKey ----------------------------
(***************************************************************************)
(* What one key of the metadata store promises, whatever RocksDB does with *)
(* its operands: every operation takes effect on the merged entry at once, *)
(* a read stores the offsets of the appends that are still unfolded, and a *)
(* fold in the background stores the offsets of those it removes.          *)
(***************************************************************************)
EXTENDS MetadataEntry

CONSTANTS IoSizes, MaxSize   \* sizes an operation may carry; the size bound

VARIABLES entry, reserve

keyVars == <<entry, reserve>>

KeyInit ==
    /\ entry = Absent
    /\ reserve = [i \in MergeIds |-> NoOffset]

KeyCreate(kind, size) ==
    /\ entry' = MergeCreate(entry, kind, size)
    /\ UNCHANGED reserve

KeyIncrease(size) ==
    /\ entry' = MergeIncrease(entry, size)
    /\ UNCHANGED reserve

KeyAppend(size, id) ==
    /\ entry.size + size <= MaxSize
    /\ entry' = MergeAppend(entry, size, id)
    /\ UNCHANGED reserve

KeyDecrease(size) ==
    /\ entry' = MergeDecrease(entry, size)
    /\ UNCHANGED reserve

KeyDelete ==
    /\ entry' = Absent
    /\ UNCHANGED reserve

KeyOverwrite(kind, size) ==
    /\ entry' = Value(kind, size)
    /\ UNCHANGED reserve

KeyGet ==
    /\ Present(entry)
    /\ reserve' = Puts(reserve, entry.pend)
    /\ UNCHANGED entry

\* The oldest k unfolded appends are folded into the base.
KeyFold(k) ==
    /\ Present(entry)
    /\ reserve' = Puts(reserve, SubSeq(entry.pend, 1, k))
    /\ entry' = Folded(entry, k)

KeyTake(id) ==
    /\ reserve[id] # NoOffset
    /\ reserve' = [reserve EXCEPT ![id] = NoOffset]
    /\ UNCHANGED entry

KeyNext ==
    \/ \E kind \in Kinds, size \in IoSizes :
          KeyCreate(kind, size) \/ KeyOverwrite(kind, size)
    \/ \E size \in IoSizes : KeyIncrease(size) \/ KeyDecrease(size)
    \/ \E size \in IoSizes, id \in MergeIds : KeyAppend(size, id)
    \/ \E k \in 0..Len(entry.pend) : KeyFold(k)
    \/ \E id \in MergeIds : KeyTake(id)
    \/ KeyDelete
    \/ KeyGet

KeySpec == KeyInit /\ [][KeyNext]_keyVars
=============================================================================
