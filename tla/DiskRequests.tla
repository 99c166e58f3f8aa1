---------------------------- MODULE DiskRequests ----------------------------
(***************************************************************************)
(* What virtio_disk_rw() (kernel/virtio_disk.c) promises: a request reads  *)
(* or writes its block at one instant between the call and the return.     *)
(***************************************************************************)
CONSTANTS Procs, Blocks, Val, Zero, None

VARIABLES disk, data, phase, request

dvars == <<disk, data, phase, request>>

Request == [block : Blocks, write : BOOLEAN]

Init ==
  /\ disk = [k \in Blocks |-> Zero]
  /\ data = [p \in Procs |-> Zero]
  /\ phase = [p \in Procs |-> "returned"]
  /\ request = [p \in Procs |-> [block |-> None, write |-> FALSE]]

\* A caller writes what it likes and reads into a buffer of no particular contents.
Ask(p) ==
  /\ phase[p] = "returned"
  /\ phase' = [phase EXCEPT ![p] = "asked"]
  /\ \E r \in Request, v \in Val :
       /\ request' = [request EXCEPT ![p] = r]
       /\ data' = [data EXCEPT ![p] = v]
  /\ UNCHANGED disk

Perform(p) ==
  /\ phase[p] = "asked"
  /\ LET k == request[p].block IN
       IF request[p].write
       THEN disk' = [disk EXCEPT ![k] = data[p]] /\ UNCHANGED data
       ELSE data' = [data EXCEPT ![p] = disk[k]] /\ UNCHANGED disk
  /\ phase' = [phase EXCEPT ![p] = "performed"]
  /\ UNCHANGED request

Return(p) ==
  /\ phase[p] = "performed"
  /\ phase' = [phase EXCEPT ![p] = "returned"]
  /\ request' = [request EXCEPT ![p] = [block |-> None, write |-> FALSE]]
  /\ data' = [data EXCEPT ![p] = Zero]
  /\ UNCHANGED disk

Next == \E p \in Procs : Ask(p) \/ Perform(p) \/ Return(p)

Spec == Init /\ [][Next]_dvars
=============================================================================
