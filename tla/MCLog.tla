------------------------------- MODULE MCLog --------------------------------
(* Instances of Log for TLC.                                               *)
EXTENDS Log, TLC

Sym == Permutations(Procs) \cup Permutations(Blocks)
=============================================================================
