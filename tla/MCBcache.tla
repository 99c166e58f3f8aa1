------------------------------ MODULE MCBcache ------------------------------
(***************************************************************************)
(* TLC instance of Bcache: more blocks than buffers, and the indirect      *)
(* block ind held while the bitmap block map is read.  Processes are       *)
(* interchangeable.                                                        *)
(***************************************************************************)
EXTENDS Bcache, TLC

CONSTANTS ind, map

IndirectThenBitmap == {<<ind, map>>}

Sym == Permutations(Procs)
=============================================================================
