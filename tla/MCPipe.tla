------------------------------- MODULE MCPipe -------------------------------
(***************************************************************************)
(* TLC instances of Pipe.  Processes at the same end are interchangeable,  *)
(* and so are the bytes.                                                   *)
(***************************************************************************)
EXTENDS Pipe, TLC

Sym == Permutations(Readers) \cup Permutations(Writers) \cup Permutations(Byte)
=============================================================================
