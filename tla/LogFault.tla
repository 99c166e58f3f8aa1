------------------------------ MODULE LogFault ------------------------------
(***************************************************************************)
(* The log when a write() system call passes a buffer that is not all      *)
(* mapped.  writei() copies user memory straight into the block's buffer;  *)
(* either_copyin() works page by page and may fail after it has copied a   *)
(* first part.  writei() then gives the buffer back without log_write().   *)
(***************************************************************************)
EXTENDS Log

\* The error path of writei(): brelse(bp) and out of the loop.
CopyinFault(p) ==
  /\ pc[p] = "buf"
  /\ buf' = [buf EXCEPT ![p] = NoBlock]
  /\ pc' = [pc EXCEPT ![p] = "op"]
  /\ UNCHANGED <<diskVars, cacheVars, logVars, wrote, tail, mode>>

FaultNext == Next \/ \E p \in Procs : CopyinFault(p)

FaultSpec == Init /\ [][FaultNext]_vars
=============================================================================
