------------------------------- MODULE MCNames ------------------------------
(* Instances of Names for TLC.                                             *)
EXTENDS Names, TLC

Abs(path) == [abs |-> TRUE, path |-> path]
Rel(path) == [abs |-> FALSE, path |-> path]
OpenCall(w, create) == [op |-> "open", create |-> create, write |-> TRUE, abs |-> w.abs, path |-> w.path]
PathCall(op, w) == [op |-> op, abs |-> w.abs, path |-> w.path]
LinkCall(old, w) == [op |-> "link", old |-> old, abs |-> w.abs, path |-> w.path]
CloseCall == [op |-> "close"]

\* One process makes and removes a directory and links, the other one works in
\* that directory.
OutsideCalls == {
  OpenCall(Abs(<<"a">>), TRUE), CloseCall, PathCall("mkdir", Abs(<<"a">>)),
  PathCall("unlink", Abs(<<"a">>)), PathCall("unlink", Abs(<<"b">>)),
  PathCall("mknod", Abs(<<"b">>)), LinkCall(<<"a">>, Abs(<<"b">>))}
InsideCalls == {
  PathCall("chdir", Abs(<<"a">>)), PathCall("chdir", Rel(<<"..">>)),
  OpenCall(Rel(<<"b">>), TRUE), OpenCall(Abs(<<"a", "..", "b">>), FALSE), CloseCall,
  PathCall("mkdir", Rel(<<"b">>)), PathCall("chdir", Rel(<<"b">>)), PathCall("unlink", Abs(<<"a", "b">>)),
  PathCall("unlink", Abs(<<"a">>)), LinkCall(<<"a", "b">>, Abs(<<"a">>))}
\* The runs end where the parent of a removed directory is freed in its turn: the
\* ".." that is left names a free inode, and whatever is made there next.
ParentKept ==
  \A d \in Dirs : ~Named(d) /\ dinode[d].ents[".."] \in Inums =>
    dinode[dinode[d].ents[".."]].type # "none"
TwoRoles == [p \in Procs |-> IF p = "p1" THEN OutsideCalls ELSE InsideCalls]
=============================================================================
