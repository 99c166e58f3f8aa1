------------------------------ MODULE LineInput ------------------------------
(***************************************************************************)
(* What the console promises its readers: a line under edit, and the       *)
(* characters of the lines that were finished.  Editing reaches back to    *)
(* the start of the line and no further; readers take finished characters  *)
(* in the order they were typed, each once.                                *)
(***************************************************************************)
EXTENDS Sequences, Integers

CONSTANTS Size,     \* the characters kept in all
          Chars,    \* what may be typed, without the editing keys
          Finish    \* the characters that finish a line

VARIABLES line, ready

Init == line = << >> /\ ready = << >>

Type(c) ==
  LET new == Append(line, c) IN
  /\ Len(ready) + Len(line) < Size
  /\ IF c \in Finish \/ Len(ready) + Len(new) = Size
     THEN ready' = ready \o new /\ line' = << >>
     ELSE ready' = ready /\ line' = new

Delete == line # << >> /\ line' = SubSeq(line, 1, Len(line) - 1) /\ ready' = ready

Take == ready # << >> /\ ready' = Tail(ready) /\ line' = line

Next == Delete \/ Take \/ \E c \in Chars : Type(c)

Spec == Init /\ [][Next]_<<line, ready>>
=============================================================================
