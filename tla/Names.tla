-------------------------------- MODULE Names -------------------------------
(***************************************************************************)
(* Path names, directories and the system calls of kernel/sysfile.c that   *)
(* change them, over the inode table.                                      *)
(*                                                                         *)
(* A directory is a function from entry names to inode numbers; where in   *)
(* its blocks an entry lies is left out.  An inode's lock covers its       *)
(* directory contents.  dirlink() fails when the directory needs a block   *)
(* and balloc() has none, which is a choice.  Each process has one place   *)
(* for an open file (NOFILE = 1), so open() also fails with fdalloc().     *)
(***************************************************************************)
EXTENDS Itable

CONSTANTS Calls    \* the system calls each process may make

\* What mkfs leaves: a root directory that is its own parent.
Init ==
  /\ dinode = [i \in Inums |->
       IF i = ROOTINO
       THEN [type |-> "dir", nlink |-> 1, ents |-> [NoEnts EXCEPT !["."] = ROOTINO, ![".."] = ROOTINO]]
       ELSE FreeDinode]
  /\ itable = [i \in Inums |->
       IF i = ROOTINO THEN [FreeEntry EXCEPT !.ref = Cardinality(Procs)] ELSE FreeEntry]
  /\ holder = [i \in Inums |-> NoProc]
  /\ th = [p \in Procs |-> Idle]
  /\ cwd = [p \in Procs |-> ROOTINO]
  /\ file = [p \in Procs |-> NoInode]

Lastname(p) == LET s == th[p].call.path IN s[Len(s)]

\* skipelem(): a path is the sequence of its elements.
Skipelem(path) == [name |-> Head(path), rest |-> Tail(path)]

\* The calls of namex() made for the parent directory.
WantsParent(then) == then \in {"create", "unlink", "link_dp"}

\* dirlookup(): the inode a directory has under a name.  dirlink(): one more name.
Dirlookup(d, n) == dinode[d].ents[n]
Dirlink(blocks, d, n, i) == [blocks EXCEPT ![d].ents[n] = i]

\* The process gives the inodes s back and goes on at label.
Goto(p, label, s) == th' = [th EXCEPT ![p].pc = label, ![p].puts = s]
Ret(p, s) == th' = [th EXCEPT ![p] = [Idle EXCEPT !.pc = "ret", !.puts = s]]

-----------------------------------------------------------------------------
(* Entering the kernel, namex().                                           *)

\* The first inode of a path: iget() of the root or idup() of the directory.
From(p, c) == IF c.abs THEN ROOTINO ELSE cwd[p]

Begin(p, c) ==
  /\ At(p, "user")
  /\ c.op # "close"
  /\ itable' = Iget(itable, From(p, c))
  /\ th' = [th EXCEPT ![p] = [Idle EXCEPT
       !.pc = "walk", !.call = c, !.at = From(p, c),
       !.path = IF c.op = "link" THEN c.old ELSE c.path,
       !.then = CASE c.op = "open" -> IF c.create THEN "create" ELSE "open"
                  [] c.op \in {"mkdir", "mknod"} -> "create"
                  [] OTHER -> c.op]]
  /\ UNCHANGED <<dinode, holder, cwd, file>>

\* fileclose() of the last descriptor of an inode.
Close(p, c) ==
  /\ At(p, "user")
  /\ c.op = "close"
  /\ file[p] # NoInode
  /\ th' = [th EXCEPT ![p] = [Idle EXCEPT !.pc = "ret", !.call = c, !.puts = <<file[p]>>]]
  /\ file' = [file EXCEPT ![p] = NoInode]
  /\ UNCHANGED <<dinode, itable, holder, cwd>>

\* The call fails and puts its inode `at'; link() has a link to take back.
GiveUp(p) ==
  IF th[p].then = "link_dp"
  THEN th' = [th EXCEPT ![p].pc = "link_bad", ![p].path = << >>, ![p].puts = <<th[p].at>>,
                        ![p].at = NoInode]
  ELSE Ret(p, <<th[p].at>>)

\* The path is used up.
WalkEnd(p) ==
  /\ At(p, "walk")
  /\ th[p].path = << >>
  /\ IF WantsParent(th[p].then) THEN GiveUp(p) ELSE Goto(p, th[p].then, << >>)
  /\ UNCHANGED <<dinode, itable, holder, cwd, file>>

\* One element: lock, look up, unlock, and put the directory.
WalkStep(p) ==
  LET d == th[p].at
      e == Skipelem(th[p].path)
      stop == WantsParent(th[p].then) /\ e.rest = << >>
      next == Dirlookup(d, e.name)
      locked == Ilock(itable, d)
  IN
  /\ At(p, "walk")
  /\ th[p].path # << >>
  /\ CanLock(d) /\ ~NoType(d)
  /\ \/ /\ locked[d].type # "dir"
        /\ itable' = locked
        /\ GiveUp(p)
     \/ /\ locked[d].type = "dir"
        /\ stop
        /\ itable' = locked
        /\ th' = [th EXCEPT ![p].pc = th[p].then, ![p].path = << >>]
     \/ /\ locked[d].type = "dir"
        /\ ~stop
        /\ next = NoInode
        /\ itable' = locked
        /\ GiveUp(p)
     \/ /\ locked[d].type = "dir"
        /\ ~stop
        /\ next # NoInode
        /\ itable' = Iget(locked, next)
        /\ th' = [th EXCEPT ![p].path = e.rest, ![p].at = next, ![p].puts = <<d>>]
  /\ UNCHANGED <<dinode, holder, cwd, file>>

-----------------------------------------------------------------------------
(* open() of an existing file, chdir().                                    *)

\* filealloc() and fdalloc(); with O_TRUNC itrunc() as well.  On failure the
\* inode is put.
OpenFile(p, i) ==
  IF file[p] = NoInode
  THEN file' = [file EXCEPT ![p] = i] /\ Ret(p, << >>)
  ELSE file' = file /\ Ret(p, <<i>>)

Open(p) ==
  LET i == th[p].at
      locked == Ilock(itable, i)
  IN
  /\ At(p, "open")
  /\ CanLock(i) /\ ~NoType(i)
  /\ itable' = locked
  /\ IF locked[i].type = "dir" /\ th[p].call.write
     THEN Ret(p, <<i>>) /\ file' = file
     ELSE OpenFile(p, i)
  /\ UNCHANGED <<dinode, holder, cwd>>

Chdir(p) ==
  LET i == th[p].at
      locked == Ilock(itable, i)
  IN
  /\ At(p, "chdir")
  /\ CanLock(i) /\ ~NoType(i)
  /\ itable' = locked
  /\ IF locked[i].type # "dir"
     THEN Ret(p, <<i>>) /\ cwd' = cwd
     ELSE Ret(p, <<cwd[p]>>) /\ cwd' = [cwd EXCEPT ![p] = i]
  /\ UNCHANGED <<dinode, holder, file>>

-----------------------------------------------------------------------------
(* create().                                                               *)

\* The name is there: its inode is locked after the directory is given back.
CreateFound(p) ==
  LET d == th[p].at
      i == Dirlookup(d, Lastname(p))
  IN
  /\ At(p, "create")
  /\ CanLock(d) /\ ~NoType(d)
  /\ i # NoInode
  /\ itable' = Iget(Ilock(itable, d), i)
  /\ th' = [th EXCEPT ![p].pc = "exists", ![p].puts = <<d>>, ![p].at = NoInode, ![p].ip = i]
  /\ UNCHANGED <<dinode, holder, cwd, file>>

CreateExists(p) ==
  LET i == th[p].ip
      locked == Ilock(itable, i)
  IN
  /\ At(p, "exists")
  /\ CanLock(i) /\ ~NoType(i)
  /\ itable' = locked
  /\ IF th[p].call.op = "open" /\ locked[i].type \in {"file", "dev"}
     THEN OpenFile(p, i)
     ELSE Ret(p, <<i>>) /\ file' = file
  /\ UNCHANGED <<dinode, holder, cwd>>

CreateAbsent(p) ==
  LET d == th[p].at IN
  /\ At(p, "create")
  /\ CanLock(d) /\ ~NoType(d)
  /\ Dirlookup(d, Lastname(p)) = NoInode
  /\ itable' = Ilock(itable, d)
  /\ holder' = [holder EXCEPT ![d] = p]
  /\ Goto(p, "ialloc", << >>)
  /\ UNCHANGED <<dinode, cwd, file>>

CallType(p) ==
  CASE th[p].call.op = "mkdir" -> "dir" [] th[p].call.op = "mknod" -> "dev" [] OTHER -> "file"

FreeInums == {i \in Inums : dinode[i].type = "none"}

\* ialloc(): the first free inode is marked, its iget() comes after.
Ialloc(p) ==
  /\ At(p, "ialloc")
  /\ FreeInums # {}
  /\ LET i == CHOOSE k \in FreeInums : \A j \in FreeInums : k <= j IN
       /\ dinode' = [dinode EXCEPT ![i].type = CallType(p)]
       /\ th' = [th EXCEPT ![p].pc = "iget_new", ![p].ip = i]
  /\ UNCHANGED <<itable, holder, cwd, file>>

IallocFails(p) ==
  /\ At(p, "ialloc")
  /\ FreeInums = {}
  /\ holder' = Iunlock(holder, th[p].at)
  /\ Ret(p, <<th[p].at>>)
  /\ UNCHANGED <<dinode, itable, cwd, file>>

IgetNew(p) ==
  /\ At(p, "iget_new")
  /\ itable' = Iget(itable, th[p].ip)
  /\ Goto(p, "new", << >>)
  /\ UNCHANGED <<dinode, holder, cwd, file>>

\* The inode is filled in and entered into the directory; both are locked.
\* The directory is then given back, the new inode stays locked.
CreateLink(p) ==
  LET d == th[p].at
      i == th[p].ip
      isdir == CallType(p) = "dir"
      t == SetNlink(Ilock(itable, i), i, 1)
      t2 == IF isdir THEN SetNlink(t, d, t[d].nlink + 1) ELSE t
      own == IF isdir THEN [NoEnts EXCEPT !["."] = i, ![".."] = d] ELSE NoEnts
  IN
  /\ At(p, "new")
  /\ CanLock(i) /\ ~NoType(i)
  /\ itable' = t2
  /\ dinode' = [Dirlink(Iupdate(Iupdate(dinode, t2, i), t2, d), d, Lastname(p), i)
                EXCEPT ![i].ents = own]
  /\ holder' = [Iunlock(holder, d) EXCEPT ![i] = p]
  /\ th' = [th EXCEPT ![p].pc = "created", ![p].puts = <<d>>, ![p].at = NoInode]
  /\ UNCHANGED <<cwd, file>>

\* No block for an entry: the inode is left without links and put.
CreateFail(p) ==
  LET i == th[p].ip
      t == SetNlink(Ilock(itable, i), i, 0)
  IN
  /\ At(p, "new")
  /\ CanLock(i) /\ ~NoType(i)
  /\ itable' = t
  /\ dinode' = Iupdate(dinode, t, i)
  /\ th' = [th EXCEPT ![p].pc = "unlock_dp", ![p].puts = <<i>>, ![p].ip = NoInode]
  /\ UNCHANGED <<holder, cwd, file>>

\* iunlockput(dp) on the way out.
UnlockDp(p) ==
  /\ At(p, "unlock_dp")
  /\ holder' = Iunlock(holder, th[p].at)
  /\ GiveUp(p)
  /\ UNCHANGED <<dinode, itable, cwd, file>>

\* open() takes the new inode; mkdir() and mknod() unlock and put it.
Created(p) ==
  /\ At(p, "created")
  /\ holder' = Iunlock(holder, th[p].ip)
  /\ IF th[p].call.op = "open"
     THEN OpenFile(p, th[p].ip)
     ELSE Ret(p, <<th[p].ip>>) /\ file' = file
  /\ UNCHANGED <<dinode, itable, cwd>>

-----------------------------------------------------------------------------
(* link().                                                                 *)

\* The link count goes up before the new name is looked up.
Link(p) ==
  LET i == th[p].at
      locked == Ilock(itable, i)
      t == SetNlink(locked, i, locked[i].nlink + 1)
  IN
  /\ At(p, "link")
  /\ CanLock(i) /\ ~NoType(i)
  /\ IF locked[i].type = "dir"
     THEN Ret(p, <<i>>) /\ itable' = locked /\ dinode' = dinode
     ELSE /\ itable' = t
          /\ dinode' = Iupdate(dinode, t, i)
          /\ th' = [th EXCEPT ![p].pc = "link_new", ![p].ip = i, ![p].at = NoInode]
  /\ UNCHANGED <<holder, cwd, file>>

\* nameiparent(new) starts.
LinkNew(p) ==
  LET c == th[p].call IN
  /\ At(p, "link_new")
  /\ itable' = Iget(itable, From(p, c))
  /\ th' = [th EXCEPT ![p].pc = "walk", ![p].at = From(p, c), ![p].path = c.path,
                      ![p].then = "link_dp"]
  /\ UNCHANGED <<dinode, holder, cwd, file>>

\* dirlink() finds the name free.
LinkEntry(p) ==
  LET d == th[p].at IN
  /\ At(p, "link_dp")
  /\ CanLock(d) /\ ~NoType(d)
  /\ Dirlookup(d, Lastname(p)) = NoInode
  /\ itable' = Ilock(itable, d)
  /\ dinode' = Dirlink(dinode, d, Lastname(p), th[p].ip)
  /\ Ret(p, <<d, th[p].ip>>)
  /\ UNCHANGED <<holder, cwd, file>>

LinkTaken_NoIput(p) ==
  LET d == th[p].at
      e == Dirlookup(d, Lastname(p))
  IN
  /\ At(p, "link_dp")
  /\ CanLock(d) /\ ~NoType(d)
  /\ e # NoInode
  /\ itable' = Iget(Ilock(itable, d), e)
  /\ holder' = [holder EXCEPT ![d] = p]
  /\ Goto(p, "unlock_dp", << >>)
  /\ UNCHANGED <<dinode, cwd, file>>
\* dirlink() finds the name taken, gets and puts its inode and fails.
LinkTaken(p) ==
  LET d == th[p].at
      e == Dirlookup(d, Lastname(p))
  IN
  /\ At(p, "link_dp")
  /\ CanLock(d) /\ ~NoType(d)
  /\ e # NoInode
  /\ itable' = Iget(Ilock(itable, d), e)
  /\ holder' = [holder EXCEPT ![d] = p]
  /\ Goto(p, "unlock_dp", <<e>>)
  /\ UNCHANGED <<dinode, cwd, file>>

\* dirlink() finds no block for the entry.
LinkFull(p) ==
  LET d == th[p].at IN
  /\ At(p, "link_dp")
  /\ CanLock(d) /\ ~NoType(d)
  /\ Dirlookup(d, Lastname(p)) = NoInode
  /\ itable' = Ilock(itable, d)
  /\ th' = [th EXCEPT ![p].pc = "link_bad", ![p].puts = <<d>>, ![p].at = NoInode]
  /\ UNCHANGED <<dinode, holder, cwd, file>>

LinkBad_KeepsCount(p) ==
  LET i == th[p].ip IN
  /\ At(p, "link_bad")
  /\ CanLock(i) /\ ~NoType(i)
  /\ itable' = Ilock(itable, i)
  /\ Ret(p, <<i>>)
  /\ UNCHANGED <<dinode, holder, cwd, file>>
\* The link count is taken back.
LinkBad(p) ==
  LET i == th[p].ip
      locked == Ilock(itable, i)
      t == SetNlink(locked, i, locked[i].nlink - 1)
  IN
  /\ At(p, "link_bad")
  /\ CanLock(i) /\ ~NoType(i)
  /\ itable' = t
  /\ dinode' = Iupdate(dinode, t, i)
  /\ Ret(p, <<i>>)
  /\ UNCHANGED <<holder, cwd, file>>

-----------------------------------------------------------------------------
(* unlink().                                                               *)

UnlinkFails(p) ==
  LET d == th[p].at IN
  /\ At(p, "unlink")
  /\ CanLock(d) /\ ~NoType(d)
  /\ Lastname(p) \in {".", ".."} \/ Dirlookup(d, Lastname(p)) = NoInode
  /\ itable' = Ilock(itable, d)
  /\ Ret(p, <<d>>)
  /\ UNCHANGED <<dinode, holder, cwd, file>>

\* The directory stays locked while the inode is locked.
UnlinkFound(p) ==
  LET d == th[p].at
      i == Dirlookup(d, Lastname(p))
  IN
  /\ At(p, "unlink")
  /\ CanLock(d) /\ ~NoType(d)
  /\ Lastname(p) \notin {".", ".."} /\ i # NoInode
  /\ itable' = Iget(Ilock(itable, d), i)
  /\ holder' = [holder EXCEPT ![d] = p]
  /\ th' = [th EXCEPT ![p].pc = "unlink_ip", ![p].ip = i]
  /\ UNCHANGED <<dinode, cwd, file>>

IsDirEmpty(i) == \A n \in Names : dinode[i].ents[n] = NoInode

UnlinkBusy_KeepsLock(p) ==
  LET i == th[p].ip
      locked == Ilock(itable, i)
  IN
  /\ At(p, "unlink_ip")
  /\ CanLock(i) /\ ~NoType(i)
  /\ locked[i].nlink >= 1
  /\ locked[i].type = "dir" /\ ~IsDirEmpty(i)
  /\ itable' = locked
  /\ Ret(p, <<i, th[p].at>>)
  /\ UNCHANGED <<dinode, holder, cwd, file>>
\* A directory that is not empty: both inodes are unlocked and put.
UnlinkBusy(p) ==
  LET i == th[p].ip
      locked == Ilock(itable, i)
  IN
  /\ At(p, "unlink_ip")
  /\ CanLock(i) /\ ~NoType(i)
  /\ locked[i].nlink >= 1
  /\ locked[i].type = "dir" /\ ~IsDirEmpty(i)
  /\ itable' = locked
  /\ th' = [th EXCEPT ![p].pc = "unlock_dp", ![p].puts = <<i>>, ![p].ip = NoInode]
  /\ UNCHANGED <<dinode, holder, cwd, file>>

\* The entry is cleared and the directory given back; the inode stays locked.
UnlinkEntry(p) ==
  LET d == th[p].at
      i == th[p].ip
      locked == Ilock(itable, i)
      t == IF locked[i].type = "dir" THEN SetNlink(locked, d, locked[d].nlink - 1) ELSE locked
  IN
  /\ At(p, "unlink_ip")
  /\ CanLock(i) /\ ~NoType(i)
  /\ locked[i].nlink >= 1
  /\ locked[i].type = "dir" => IsDirEmpty(i)
  /\ itable' = t
  /\ dinode' = [Iupdate(dinode, t, d) EXCEPT ![d].ents[Lastname(p)] = NoInode]
  /\ holder' = [Iunlock(holder, d) EXCEPT ![i] = p]
  /\ th' = [th EXCEPT ![p].pc = "unlinked", ![p].puts = <<d>>, ![p].at = NoInode]
  /\ UNCHANGED <<cwd, file>>

Unlinked(p) ==
  LET i == th[p].ip
      t == SetNlink(itable, i, itable[i].nlink - 1)
  IN
  /\ At(p, "unlinked")
  /\ itable' = t
  /\ dinode' = Iupdate(dinode, t, i)
  /\ holder' = Iunlock(holder, i)
  /\ Ret(p, <<i>>)
  /\ UNCHANGED <<cwd, file>>

-----------------------------------------------------------------------------
\* end_op() and the return to the user program.
Return(p) ==
  /\ At(p, "ret")
  /\ th' = [th EXCEPT ![p] = Idle]
  /\ UNCHANGED <<dinode, itable, holder, cwd, file>>

\* The inode the process locks next.
Wants(p) ==
  CASE th[p].puts # << >> -> NoInode
    [] th[p].pc = "walk" -> IF th[p].path = << >> THEN NoInode ELSE th[p].at
    [] th[p].pc \in {"open", "chdir", "create", "link", "link_dp", "unlink"} -> th[p].at
    [] th[p].pc \in {"exists", "new", "link_bad", "unlink_ip"} -> th[p].ip
    [] OTHER -> NoInode

Step(p) ==
  \/ \E c \in Calls[p] : Begin(p, c) \/ Close(p, c)
  \/ Iput(p)
  \/ WalkEnd(p) \/ WalkStep(p) \/ Open(p) \/ Chdir(p)
  \/ CreateFound(p) \/ CreateExists(p) \/ CreateAbsent(p) \/ Ialloc(p) \/ IallocFails(p)
  \/ IgetNew(p) \/ CreateLink(p) \/ CreateFail(p) \/ UnlockDp(p) \/ Created(p)
  \/ Link(p) \/ LinkNew(p) \/ LinkEntry(p) \/ LinkTaken(p) \/ LinkFull(p) \/ LinkBad(p)
  \/ UnlinkFails(p) \/ UnlinkFound(p) \/ UnlinkBusy(p) \/ UnlinkEntry(p) \/ Unlinked(p)
  \/ Return(p)

Next == \E p \in Procs : Step(p)

Spec == Init /\ [][Next]_vars

-----------------------------------------------------------------------------
(* Properties.                                                             *)

\* The pointers to inode i that the processes hold.
Pointers(p, i) ==
  LET held == <<th[p].at, IF th[p].pc = "iget_new" THEN NoInode ELSE th[p].ip, cwd[p], file[p]>>
                \o th[p].puts
  IN {k \in DOMAIN held : held[k] = i}

\* ref counts the pointers to the inode: open files, current directories and
\* the calls under way, in every interleaving and on every error path.
RefExact ==
  \A i \in Inums :
    itable[i].ref = Cardinality(UNION {{p} \X Pointers(p, i) : p \in Procs})

Dirs == {d \in Inums : dinode[d].type = "dir"}
Named(i) == i = ROOTINO \/ \E d \in Dirs, n \in Names : dinode[d].ents[n] = i

\* The directory entries that name an inode: all but "." and the ".." of a
\* directory that has been removed and is still in use.
NamesOf(i) ==
  {<<d, n>> \in Dirs \X (Names \cup {".."}) : dinode[d].ents[n] = i /\ (n = ".." => Named(d))}

\* link() has raised the count and not yet made, or not yet taken back, the
\* entry; unlink() has cleared the entry and not yet lowered the count.
Ahead(p, i) ==
  /\ th[p].ip = i
  /\ th[p].call.op = "link" \/ th[p].pc = "unlinked"

Slack(i) == dinode[i].nlink - Cardinality(NamesOf(i)) - Cardinality({p \in Procs : Ahead(p, i)})

\* nlink moves with the directory entries: no step of any call lets the two
\* drift apart, whatever fails or runs in between, except the freeing of a
\* directory that got new entries after it had been removed.
LinksBalanced ==
  [][ (\A d \in Dirs : dinode'[d].type = "none" => IsDirEmpty(d))
        => \A i \in Inums : Slack(i)' = Slack(i) ]_vars

\* A directory that was removed while in use still names its parent in "..",
\* without a reference or a link of it: namex() can reach the parent that way
\* while it is freed, and after.
Leftover(i) == \E d \in Dirs : ~Named(d) /\ dinode[d].ents[".."] = i

\* iput() frees an inode only when no directory names it and no other process
\* has a pointer to it, unless it got it from the ".." of a removed directory.
FreedOnlyUnused ==
  [][ \A i \in Inums : dinode[i].type # "none" /\ dinode'[i].type = "none" =>
        /\ NamesOf(i) = {}
        /\ Leftover(i) \/ Cardinality({p \in Procs : Pointers(p, i) # {}}) = 1 ]_vars

\* Nobody waits for an inode that is locked by a process that waits for it in
\* turn or has left the kernel, and the acquiresleep() iput() makes under
\* itable.lock never has to wait.
LocksReleased ==
  /\ \A p \in Procs : Wants(p) # NoInode =>
       LET q == holder[Wants(p)] IN
         q # NoProc => q # p /\ th[q].pc # "user" /\ (Wants(q) # NoInode => holder[Wants(q)] # p)
  /\ \A p \in Procs : Putting(p, 0) /\ LastUse(Victim(p)) => CanLock(Victim(p))

\* The cached copy of an unlocked inode is what the disk has.
CacheFresh ==
  \A i \in Inums : itable[i].valid = 1 /\ holder[i] = NoProc =>
    itable[i].type = dinode[i].type /\ itable[i].nlink = dinode[i].nlink

\* No call locks an inode that has been freed, panic("ilock: no type"), unless
\* it got it from the ".." of a removed directory, and
\* unlink() finds a link to take away, panic("unlink: nlink < 1").
NoPanic ==
  \A p \in Procs : Wants(p) # NoInode /\ CanLock(Wants(p)) =>
    /\ NoType(Wants(p)) => Leftover(Wants(p))
    /\ th[p].pc = "unlink_ip" => Ilock(itable, Wants(p))[Wants(p)].nlink >= 1

\* An entry of the inode table counts its users and shows them what the disk has.
EntriesExact == RefExact /\ CacheFresh

\* Every call gets on: it meets no lock that is not given back and no panic.
CallsProceed == LocksReleased /\ NoPanic
=============================================================================
