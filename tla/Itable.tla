------------------------------- MODULE Itable -------------------------------
(***************************************************************************)
(* The inode table of kernel/fs.c: references, sleep locks and the cached  *)
(* copies of the on-disk inodes.                                           *)
(*                                                                         *)
(* iget() finds the one entry with ref > 0 for an inode or recycles a free *)
(* one under itable.lock, so an entry is identified with its inode number; *)
(* an entry with ref = 0 has no contents worth keeping, and NINODE is      *)
(* taken to be enough (iget() panics otherwise).  A section that           *)
(* locks one inode, works on it and unlocks it, with at most one visit to  *)
(* the table or the inode blocks, is one step; a lock that is held while   *)
(* another is asked for, or while an inode is put, is held over steps.     *)
(*                                                                         *)
(* A process keeps the inode namex() has reached in `at' (dp of the system *)
(* calls), a second one in `ip', and in `puts' the inodes it is about to   *)
(* pass to iput(), the first of them being put.                            *)
(***************************************************************************)
EXTENDS Integers, Sequences, FiniteSets

CONSTANTS Procs, NoProc,
          NINODES,   \* inodes on the disk, sb.ninodes: numbers 1..NINODES-1
          Names      \* names besides "." and ".."

ASSUME ItableAssumption ==
  /\ NINODES \in Nat /\ NINODES > 1 /\ NoProc \notin Procs
  /\ {".", ".."} \cap Names = {}

ROOTINO == 1
Inums == 1..NINODES-1
NoInode == 0
Entry == Names \cup {".", ".."}

VARIABLES
  dinode,  \* struct dinode in the inode blocks; ents: the entries of a directory
  itable,  \* ref, valid and the cached type and nlink
  holder,  \* ip->lock
  th,      \* the system call of each process
  cwd,     \* p->cwd
  file     \* the inode behind the one descriptor of each process

vars == <<dinode, itable, holder, th, cwd, file>>

NoEnts == [n \in Entry |-> NoInode]
FreeDinode == [type |-> "none", nlink |-> 0, ents |-> NoEnts]
FreeEntry == [ref |-> 0, valid |-> 0, type |-> "none", nlink |-> 0]

Idle == [pc |-> "user", call |-> [op |-> "none"], path |-> << >>, then |-> "none",
         at |-> NoInode, ip |-> NoInode, puts |-> << >>, stage |-> 0]

At(p, label) == th[p].pc = label /\ th[p].puts = << >>

-----------------------------------------------------------------------------
(* References.                                                             *)

\* iget(), idup(): the table with one more reference to i.
Iget(t, i) ==
  IF t[i].ref > 0
  THEN [t EXCEPT ![i].ref = @ + 1]
  ELSE [t EXCEPT ![i] = [ref |-> 1, valid |-> 0, type |-> "none", nlink |-> 0]]

\* ip->ref--, the entry is free at zero.
Drop(t, i) == IF t[i].ref = 1 THEN [t EXCEPT ![i] = FreeEntry] ELSE [t EXCEPT ![i].ref = @ - 1]

-----------------------------------------------------------------------------
(* Locks and the cached copy.                                              *)

CanLock(i) == holder[i] = NoProc
Iunlock(h, i) == [h EXCEPT ![i] = NoProc]

\* ilock() once the sleep lock is there: an entry that is not valid is read.
Ilock(t, i) ==
  IF t[i].valid = 1 THEN t
  ELSE [t EXCEPT ![i].valid = 1, ![i].type = dinode[i].type, ![i].nlink = dinode[i].nlink]

\* panic("ilock: no type").
NoType(i) == Ilock(itable, i)[i].type = "none"

\* ip->nlink = k; iupdate(ip).
SetNlink(t, i, k) == [t EXCEPT ![i].nlink = k]
Iupdate(d, t, i) == [d EXCEPT ![i].type = t[i].type, ![i].nlink = t[i].nlink]

-----------------------------------------------------------------------------
(* iput(): stage counts the steps of freeing an inode that are done.       *)

LastUse_AnyRef(i) == itable[i].valid = 1 /\ itable[i].nlink = 0
\* The condition under which iput() frees the inode.
LastUse(i) == itable[i].ref = 1 /\ itable[i].valid = 1 /\ itable[i].nlink = 0

Putting(p, stage) == th[p].puts # << >> /\ th[p].stage = stage
Victim(p) == Head(th[p].puts)

\* ip->ref--, at once or after the inode has been freed.
IputDrop(p) ==
  /\ Putting(p, 3) \/ (Putting(p, 0) /\ ~LastUse(Victim(p)))
  /\ itable' = Drop(itable, Victim(p))
  /\ th' = [th EXCEPT ![p].puts = Tail(@), ![p].stage = 0]
  /\ UNCHANGED <<dinode, holder, cwd, file>>

\* The last reference to an inode without links: acquiresleep() under itable.lock.
IputLock(p) ==
  /\ Putting(p, 0)
  /\ LastUse(Victim(p))
  /\ CanLock(Victim(p))
  /\ holder' = [holder EXCEPT ![Victim(p)] = p]
  /\ th' = [th EXCEPT ![p].stage = 1]
  /\ UNCHANGED <<dinode, itable, cwd, file>>

\* itrunc(); type = 0; iupdate(): the inode is free for ialloc().
IputFree(p) ==
  /\ Putting(p, 1)
  /\ itable' = [itable EXCEPT ![Victim(p)].type = "none"]
  /\ dinode' = [dinode EXCEPT ![Victim(p)] = FreeDinode]
  /\ th' = [th EXCEPT ![p].stage = 2]
  /\ UNCHANGED <<holder, cwd, file>>

\* valid = 0; releasesleep(): the reference is dropped in a later step.
IputUnlock(p) ==
  /\ Putting(p, 2)
  /\ itable' = [itable EXCEPT ![Victim(p)].valid = 0]
  /\ holder' = Iunlock(holder, Victim(p))
  /\ th' = [th EXCEPT ![p].stage = 3]
  /\ UNCHANGED <<dinode, cwd, file>>

Iput(p) == IputDrop(p) \/ IputLock(p) \/ IputFree(p) \/ IputUnlock(p)
=============================================================================
