----------------------------- MODULE AtomicDisk -----------------------------
(***************************************************************************)
(* What the logging layer (kernel/log.c) promises to the file system       *)
(* above it.  Between begin_op() and end_op() a system call updates blocks *)
(* that every other system call sees at once (mem).  A crash throws mem    *)
(* away and leaves stable, which only ever holds the updates of whole      *)
(* system calls: stable moves, in one step, and only while no call is      *)
(* between its begin_op() and its end_op().                                *)
(***************************************************************************)
CONSTANTS Procs,   \* processes that make file system calls
          Blocks,  \* home blocks of the file system
          Val,     \* contents of a block
          Zero     \* what mkfs writes to every block

VARIABLES mem,     \* the blocks as the running kernel sees them
          stable,  \* the blocks as a restart would find them
          active   \* the processes inside a file system call

avars == <<mem, stable, active>>

Init ==
  /\ mem = [b \in Blocks |-> Zero]
  /\ stable = [b \in Blocks |-> Zero]
  /\ active = {}

Begin(p) ==
  /\ p \notin active
  /\ active' = active \cup {p}
  /\ UNCHANGED <<mem, stable>>

Write(p, b, v) ==
  /\ p \in active
  /\ mem' = [mem EXCEPT ![b] = v]
  /\ UNCHANGED <<stable, active>>

End(p) ==
  /\ p \in active
  /\ active' = active \ {p}
  /\ UNCHANGED <<mem, stable>>

Commit ==
  /\ active = {}
  /\ stable' = mem
  /\ UNCHANGED <<mem, active>>

Crash ==
  /\ mem' = stable
  /\ active' = {}
  /\ UNCHANGED stable

Next ==
  \/ \E p \in Procs : Begin(p) \/ End(p)
  \/ \E p \in Procs, b \in Blocks, v \in Val : Write(p, b, v)
  \/ Commit
  \/ Crash

Spec == Init /\ [][Next]_avars
=============================================================================
