---------------------------- MODULE AddressSpaces ---------------------------
(***************************************************************************)
(* What virtual memory promises: every process has an address space of its *)
(* own, pages 0..n-1 with their contents.  fork() copies it, sbrk() moves  *)
(* its end and adds zeroes, exec() replaces it, and no operation of one    *)
(* process touches the space of another.                                   *)
(***************************************************************************)
EXTENDS Integers

CONSTANTS Procs,
          Text,      \* what is loaded from a program file
          Values,    \* what processes store
          MaxPages   \* how large a process may be

VARIABLES space

None == [k \in {} |-> 0]

Init == space \in [Procs -> {None} \cup [{0} -> {Text}]]

Fork(p, c) == space[c] = None /\ space' = [space EXCEPT ![c] = space[p]]

Others(p) == \A q \in Procs \ {p} : space'[q] = space[q]

\* The pages that stay keep their contents, the new ones are zero.
Resize(p) ==
  /\ DOMAIN space'[p] \in {0..n - 1 : n \in 0..MaxPages}
  /\ \A k \in DOMAIN space'[p] : space'[p][k] = IF k \in DOMAIN space[p] THEN space[p][k] ELSE 0
  /\ Others(p)

\* The program, and on top of it the stack with arguments from the old space.
Exec(p) ==
  /\ \E n \in 1..MaxPages :
       /\ DOMAIN space'[p] = 0..n - 1
       /\ \A k \in 0..n - 2 : space'[p][k] \in {0, Text}
       /\ space'[p][n - 1] \in {0} \cup {space[p][k] : k \in DOMAIN space[p]}
  /\ Others(p)

\* A run of pages is written, from a system call or by the program.
Write(p) ==
  /\ DOMAIN space'[p] = DOMAIN space[p]
  /\ \E first, last \in DOMAIN space[p], v \in Values :
       \A k \in DOMAIN space[p] : space'[p][k] = IF k \in first..last THEN v ELSE space[p][k]
  /\ Others(p)

Free(p) == space' = [space EXCEPT ![p] = None]

Next ==
  \E p \in Procs :
    (\E c \in Procs : Fork(p, c)) \/ Resize(p) \/ Exec(p) \/ Write(p) \/ Free(p)

Spec == Init /\ [][Next]_space
=============================================================================
