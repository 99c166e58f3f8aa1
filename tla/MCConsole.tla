------------------------------ MODULE MCConsole ------------------------------
(* An instance of Console for TLC.                                         *)
EXTENDS Console, TLC

Load(keys, writes, prints, kills) == [keys |-> keys, writes |-> writes, prints |-> prints, kills |-> kills]
\* Much input, or output with some echo.
InAndOut == {Load(4, 0, 0, 1), Load(1, 3, 1, 0)}
=============================================================================
