----------------------------- MODULE ByteQueue ------------------------------
(***************************************************************************)
(* What a pipe (kernel/pipe.c) promises: a bounded first-in first-out      *)
(* queue of bytes between a write end and a read end that are closed once. *)
(***************************************************************************)
EXTENDS Naturals, Sequences

CONSTANTS Byte, Capacity

VARIABLES queue, readopen, writeopen

qvars == <<queue, readopen, writeopen>>

Init == queue = << >> /\ readopen = 1 /\ writeopen = 1

Put(v) ==
  /\ readopen = 1 /\ writeopen = 1
  /\ Len(queue) < Capacity
  /\ queue' = Append(queue, v)
  /\ UNCHANGED <<readopen, writeopen>>

Get ==
  /\ readopen = 1
  /\ queue # << >>
  /\ queue' = Tail(queue)
  /\ UNCHANGED <<readopen, writeopen>>

CloseRead == readopen = 1 /\ readopen' = 0 /\ UNCHANGED <<queue, writeopen>>

CloseWrite == writeopen = 1 /\ writeopen' = 0 /\ UNCHANGED <<queue, readopen>>

Next == (\E v \in Byte : Put(v)) \/ Get \/ CloseRead \/ CloseWrite

Spec == Init /\ [][Next]_qvars
=============================================================================
