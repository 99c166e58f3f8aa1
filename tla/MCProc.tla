------------------------------- MODULE MCProc -------------------------------
(***************************************************************************)
(* TLC instances of Proc.  The CPUs are interchangeable.                   *)
(***************************************************************************)
EXTENDS Proc, TLC

Sym == Permutations(Cpus)
=============================================================================
