----------------------------- MODULE MCContents -----------------------------
(* Instances of Contents for TLC.                                          *)
EXTENDS Contents, TLC

ReadCall(o, n) == [op |-> "read", o |-> o, n |-> n]
WriteCall(o, n) == [op |-> "write", o |-> o, n |-> n]
StatCall(o) == [op |-> "stat", o |-> o]
TruncCall(o) == [op |-> "open", o |-> o]

\* o1 and o3 are the same file, opened twice; the processes share o1, as after
\* fork().  o2 is another file.
TwoFiles == [o \in Opens |-> IF o = "o2" THEN 2 ELSE 1]
TwoRoles == [p \in Procs |->
  IF p = "p1" THEN {WriteCall("o1", 7), TruncCall("o1")}
  ELSE {ReadCall("o1", -1), WriteCall("o3", 3), ReadCall("o3", 3),
        WriteCall("o2", 3), StatCall("o2"), TruncCall("o2")}]
TwoAndThree == [p \in Procs |-> IF p = "p1" THEN 2 ELSE 3]
PackedBytes == <<2, 1>>
ByPosition(p, k) == 1 + ((k \div 2) % 2)
=============================================================================
