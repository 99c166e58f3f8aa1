---------------------------- MODULE MCVirtioDisk ----------------------------
(***************************************************************************)
(* TLC instance of VirtioDisk: descriptors for two requests and one over.  *)
(* Processes and blocks are interchangeable.                               *)
(***************************************************************************)
EXTENDS VirtioDisk, TLC

Sym == Permutations(Procs) \cup Permutations(Blocks)
=============================================================================
