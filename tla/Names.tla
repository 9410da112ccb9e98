-------------------------------- MODULE Names --------------------------------
(***************************************************************************)
(* What a user expects of the names of a file system: a name stands for    *)
(* one file or for none; a file is created under a free name, is opened,   *)
(* renamed from its name to a free one, and removed.  These calls may also *)
(* fail and change nothing; stat tells exactly whether the name stands for *)
(* a file.                                                                 *)
(***************************************************************************)
EXTENDS Integers

CONSTANTS Paths, Files, NoFile

VARIABLES names,     \* [Paths -> Files \cup {NoFile}]
          last       \* the last call and what it returned

Init == /\ names = [p \in Paths |-> NoFile]
        /\ last = [kind |-> "none", ret |-> 0]

Returns(kind, ret) == last' = [kind |-> kind, ret |-> ret]

Open(p) == /\ \/ names[p] # NoFile /\ UNCHANGED names
              \/ /\ names[p] = NoFile
                 /\ \E f \in Files : /\ \A q \in Paths : names[q] # f
                                     /\ names' = [names EXCEPT ![p] = f]
           /\ Returns("open", 0)

Remove(p) == /\ names[p] # NoFile
             /\ names' = [names EXCEPT ![p] = NoFile]
             /\ Returns("remove", 0)

Rename(p, q) == /\ names[p] # NoFile /\ names[q] = NoFile
                /\ names' = [names EXCEPT ![p] = NoFile, ![q] = names[p]]
                /\ Returns("rename", 0)

Stat(p) == /\ \E kind \in {"stat", "statx", "access"} :
                 Returns(kind, IF names[p] = NoFile THEN -1 ELSE 0)
           /\ UNCHANGED names

Write == Returns("write", 0) /\ UNCHANGED names

Fail == /\ \E kind \in {"open", "remove", "rename"} : Returns(kind, -1)
        /\ UNCHANGED names

Next == \/ \E p \in Paths : \/ Open(p) \/ Remove(p) \/ Stat(p)
                            \/ \E q \in Paths : Rename(p, q)
        \/ Write \/ Fail

Spec == Init /\ [][Next]_<<names, last>>
=============================================================================
