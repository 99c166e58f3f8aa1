------------------------------ MODULE MCMemory ------------------------------
(* An instance of Memory for TLC.                                          *)
EXTENDS Memory, TLC

Seg(va, memsz, filesz, perm) == [va |-> va, memsz |-> memsz, filesz |-> filesz, perm |-> perm]
\* Below zero with -9.
UpAndDown == {3, -9, -2}
\* A program with text and data, and one whose second header is bad.
TwoPrograms == {<<Seg(0, 2, 2, {"x"}), Seg(1, 1, 1, {"w"})>>, <<Seg(0, 1, 1, {"w"}), Seg(1, 1, 2, {"w"})>>}
=============================================================================
