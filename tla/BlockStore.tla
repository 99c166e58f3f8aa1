----------------------------- MODULE BlockStore -----------------------------
(***************************************************************************)
(* What the buffer cache (kernel/bio.c) promises its callers: every disk   *)
(* block is one object, locked by one process at a time, and only the      *)
(* process that has it locked changes its contents.                        *)
(***************************************************************************)
CONSTANTS Procs, Blocks, Val, Zero, NoProc

VARIABLES contents, holder

svars == <<contents, holder>>

Init ==
  /\ contents = [k \in Blocks |-> Zero]
  /\ holder = [k \in Blocks |-> NoProc]

Lock(p, k) ==
  /\ holder[k] = NoProc
  /\ holder' = [holder EXCEPT ![k] = p]
  /\ UNCHANGED contents

Change(p, k, v) ==
  /\ holder[k] = p
  /\ contents' = [contents EXCEPT ![k] = v]
  /\ UNCHANGED holder

Unlock(p, k) ==
  /\ holder[k] = p
  /\ holder' = [holder EXCEPT ![k] = NoProc]
  /\ UNCHANGED contents

Next ==
  \E p \in Procs, k \in Blocks :
    Lock(p, k) \/ Unlock(p, k) \/ \E v \in Val : Change(p, k, v)

Spec == Init /\ [][Next]_svars
=============================================================================
