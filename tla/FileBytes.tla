----------------------------- MODULE FileBytes ------------------------------
(***************************************************************************)
(* What reading and writing a file promises: a file is a sequence of       *)
(* bytes, an open file has an offset, and one visit to the file transfers  *)
(* a run of bytes at the offset and moves the offset past them, in one     *)
(* step.                                                                   *)
(***************************************************************************)
EXTENDS Integers, Sequences

CONSTANTS Files, Opens, Procs,
          FileOf,      \* the file of each open file
          MaxBytes,    \* how long a file may be
          MaxMore,     \* what a failed write may overwrite besides
          Byte(_, _)   \* what a process writes at a position

VARIABLES bytes, off, result

\* s with the bytes w from position k on (counted from 0).
Overwrite(s, k, w) ==
  [j \in 1..(IF k + Len(w) > Len(s) THEN k + Len(w) ELSE Len(s)) |->
     IF j > k /\ j <= k + Len(w) THEN w[j - k] ELSE s[j]]

Init ==
  /\ bytes \in [Files -> Seq(Int)]
  /\ off = [o \in Opens |-> 0]
  /\ result = [p \in Procs |-> << >>]

\* A read hands out the bytes that follow the offset, at most as many as there are.
Read(p, o) ==
  LET s == bytes[FileOf[o]] IN
  \E k \in 1..Len(s) - off[o] :
    /\ off' = [off EXCEPT ![o] = @ + k]
    /\ result' = [result EXCEPT ![p] = SubSeq(s, off[o] + 1, off[o] + k)]
    /\ bytes' = bytes

\* A write may be cut short; it never leaves a gap behind the end of the file.  One
\* that is cut short may have overwritten a few bytes more than it reports, within
\* the file.
Write(p, o) ==
  LET s == bytes[FileOf[o]]
      Run(k) == [j \in 1..k |-> Byte(p, off[o] + j - 1)]
  IN
  \E k \in 0..MaxBytes - off[o], more \in 0..MaxMore :
    /\ off[o] <= Len(s)
    /\ off' = [off EXCEPT ![o] = @ + k]
    /\ bytes' = [bytes EXCEPT ![FileOf[o]] =
         LET done == Overwrite(s, off[o], Run(k)) IN
         SubSeq(Overwrite(done, off[o], Run(k + more)), 1, Len(done))]
    /\ result' = result

Truncate(f) == bytes' = [bytes EXCEPT ![f] = << >>] /\ UNCHANGED <<off, result>>

\* An open file is opened anew.
Open(o) == off' = [off EXCEPT ![o] = 0] /\ UNCHANGED <<bytes, result>>

Stat(p, f) == result' = [result EXCEPT ![p] = <<Len(bytes[f])>>] /\ UNCHANGED <<bytes, off>>

Return(p) == result' = [result EXCEPT ![p] = << >>] /\ UNCHANGED <<bytes, off>>

Next ==
  \/ \E p \in Procs, o \in Opens : Read(p, o) \/ Write(p, o) \/ Open(o)
  \/ \E f \in Files : Truncate(f) \/ \E p \in Procs : Stat(p, f)
  \/ \E p \in Procs : Return(p)

Spec == Init /\ [][Next]_<<bytes, off, result>>
=============================================================================
