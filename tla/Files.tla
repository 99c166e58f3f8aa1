-------------------------------- MODULE Files --------------------------------
(***************************************************************************)
(* Open files: the table ftable of kernel/file.c, the descriptor tables of *)
(* the processes, and the system calls of kernel/sysfile.c and             *)
(* kernel/proc.c that make and drop references, with the ends of pipes and *)
(* the inodes the files stand for.                                         *)
(*                                                                         *)
(* What happens under ftable.lock or pi->lock is one step.  p->ofile is    *)
(* used by p only, and by its parent before p runs.                        *)
(***************************************************************************)
EXTENDS Integers, Sequences, FiniteSets, FiniteSetsExt

CONSTANTS Procs, InitProc, NFILE, NOFILE,
          NPIPE        \* the pages kalloc() has for pipes

ASSUME FilesAssumption == InitProc \in Procs /\ NFILE \in Nat /\ NOFILE \in Nat /\ NPIPE \in Nat

Files == 1..NFILE
Fds == 0..NOFILE - 1
Pipes == 1..NPIPE
None == 0       \* no file
NoFd == 0 - 1

VARIABLES
  file,    \* ftable.file
  ofile,   \* p->ofile
  pipe,    \* struct pipe
  iref,    \* the references to inodes open() has made and fileclose() dropped
  alive,   \* the processes that run
  th       \* the system call of each process

vars == <<file, ofile, pipe, iref, alive, th>>

NoPipe == [alloc |-> FALSE, readopen |-> 0, writeopen |-> 0]
NoFile == [ref |-> 0, type |-> "FD_NONE", pipe |-> 0, writable |-> FALSE]
\* held: the references the call has and has to close or to install in a
\* descriptor; fd: a descriptor whose reference does not count yet or any more;
\* ff: fileclose()'s copy of the file.
Idle == [pc |-> "user", held |-> << >>, fd |-> NoFd, ff |-> NoFile, pi |-> 0, child |-> InitProc]

Init ==
  /\ file = [f \in Files |-> NoFile]
  /\ ofile = [p \in Procs |-> [fd \in Fds |-> None]]
  /\ pipe = [k \in Pipes |-> NoPipe]
  /\ iref = 0
  /\ alive = {InitProc}
  /\ th = [p \in Procs |-> Idle]

At(p, pc) == p \in alive /\ th[p].pc = pc

\* filealloc() takes the first file without a reference.  Its other fields are
\* those of its last use.
FreeFiles == {f \in Files : file[f].ref = 0}
Filealloc == [file EXCEPT ![Min(FreeFiles)].ref = 1]

\* fdalloc() takes the lowest free descriptor.
FreeFds(p) == {fd \in Fds : ofile[p][fd] = None}

\* argfd().
Argfd(p, fd) == ofile[p][fd] # None

\* The call closes the files it holds and returns.
CloseHeld(t) == IF t.held = << >> THEN Idle ELSE [t EXCEPT !.pc = "fileclose"]

-----------------------------------------------------------------------------
(* fileclose().                                                            *)

Drop_KeepsType(f) == [file EXCEPT ![f].ref = @ - 1]
\* The table entry after fileclose() has dropped a reference.
Drop(f) ==
  [file EXCEPT ![f].ref = @ - 1, ![f].type = IF file[f].ref > 1 THEN @ ELSE "FD_NONE"]

\* fileclose() returns: exit() clears the descriptor and goes on with the next
\* one, the other callers go on with the next file.
Returns(p, t) ==
  IF t.fd = NoFd
  THEN th' = [th EXCEPT ![p] = CloseHeld(t)] /\ ofile' = ofile
  ELSE th' = [th EXCEPT ![p] = [Idle EXCEPT !.pc = "exit"]] /\ ofile' = [ofile EXCEPT ![p][t.fd] = None]

\* A reference is dropped; the last one leaves a copy of the file to tear down.
Fileclose(p) ==
  LET f == Head(th[p].held)
      t == [th[p] EXCEPT !.held = Tail(@)]
  IN
  /\ At(p, "fileclose")
  /\ file' = Drop(f)
  /\ IF file[f].ref > 1 \/ file[f].type = "FD_NONE" THEN Returns(p, t)
     ELSE th' = [th EXCEPT ![p] = [t EXCEPT !.ff = file[f], !.pc = "teardown"]] /\ ofile' = ofile
  /\ UNCHANGED <<pipe, iref, alive>>

Pipeclose_ReadEnd(k, writable) ==
  IF (IF writable THEN pipe[k].readopen ELSE pipe[k].writeopen) = 0 THEN NoPipe
  ELSE [pipe[k] EXCEPT !.readopen = 0]
\* pipeclose(): the page is freed when the other end is closed already.
Pipeclose(k, writable) ==
  IF (IF writable THEN pipe[k].readopen ELSE pipe[k].writeopen) = 0 THEN NoPipe
  ELSE IF writable THEN [pipe[k] EXCEPT !.writeopen = 0] ELSE [pipe[k] EXCEPT !.readopen = 0]

\* The end of fileclose(), outside the lock, from the copy.
Teardown(p) ==
  LET ff == th[p].ff IN
  /\ At(p, "teardown")
  /\ pipe' = IF ff.type = "FD_PIPE" THEN [pipe EXCEPT ![ff.pipe] = Pipeclose(ff.pipe, ff.writable)] ELSE pipe
  /\ iref' = IF ff.type = "FD_INODE" THEN iref - 1 ELSE iref
  /\ Returns(p, [th[p] EXCEPT !.ff = NoFile])
  /\ UNCHANGED <<file, alive>>

-----------------------------------------------------------------------------
(* close(), dup(), fork() and exit().                                      *)

Close(p, fd) ==
  /\ At(p, "user") /\ Argfd(p, fd)
  /\ ofile' = [ofile EXCEPT ![p][fd] = None]
  /\ th' = [th EXCEPT ![p] = [Idle EXCEPT !.pc = "fileclose", !.held = <<ofile[p][fd]>>]]
  /\ UNCHANGED <<file, pipe, iref, alive>>

\* sys_dup() installs the descriptor before filedup().
Dup(p, fd) ==
  /\ At(p, "user") /\ Argfd(p, fd) /\ FreeFds(p) # {}
  /\ ofile' = [ofile EXCEPT ![p][Min(FreeFds(p))] = ofile[p][fd]]
  /\ th' = [th EXCEPT ![p] = [Idle EXCEPT !.pc = "dup", !.fd = Min(FreeFds(p))]]
  /\ UNCHANGED <<file, pipe, iref, alive>>

Duped(p) ==
  /\ At(p, "dup")
  /\ file' = [file EXCEPT ![ofile[p][th[p].fd]].ref = @ + 1]
  /\ th' = [th EXCEPT ![p] = Idle]
  /\ UNCHANGED <<ofile, pipe, iref, alive>>

Fork(p, c) ==
  /\ At(p, "user") /\ c \notin alive
  /\ \A q \in Procs : th[q].pc = "fork" => th[q].child # c
  /\ th' = [th EXCEPT ![p] = [Idle EXCEPT !.pc = "fork", !.child = c]]
  /\ UNCHANGED <<file, ofile, pipe, iref, alive>>

\* The descriptors the loop of fork() has still to copy.
ToCopy(p) == {fd \in Fds : ofile[p][fd] # None /\ ofile[th[p].child][fd] = None}

ForkDup_NoRef(p) ==
  /\ At(p, "fork") /\ ToCopy(p) # {}
  /\ ofile' = [ofile EXCEPT ![th[p].child][Min(ToCopy(p))] = ofile[p][Min(ToCopy(p))]]
  /\ UNCHANGED <<file, pipe, iref, alive, th>>
ForkDup(p) ==
  LET fd == Min(ToCopy(p))
      f == ofile[p][fd]
  IN
  /\ At(p, "fork") /\ ToCopy(p) # {}
  /\ file' = [file EXCEPT ![f].ref = @ + 1]
  /\ ofile' = [ofile EXCEPT ![th[p].child][fd] = f]
  /\ UNCHANGED <<pipe, iref, alive, th>>

Forked(p) ==
  /\ At(p, "fork") /\ ToCopy(p) = {}
  /\ alive' = alive \cup {th[p].child}
  /\ th' = [th EXCEPT ![p] = Idle]
  /\ UNCHANGED <<file, ofile, pipe, iref>>

Exit(p) ==
  /\ At(p, "user") /\ p # InitProc
  /\ th' = [th EXCEPT ![p] = [Idle EXCEPT !.pc = "exit"]]
  /\ UNCHANGED <<file, ofile, pipe, iref, alive>>

\* The loop of exit(): a descriptor is cleared when fileclose() returns.
ExitClose(p) ==
  LET open == Fds \ FreeFds(p) IN
  /\ At(p, "exit")
  /\ IF open = {} THEN alive' = alive \ {p} /\ th' = [th EXCEPT ![p] = Idle]
     ELSE /\ th' = [th EXCEPT ![p] = [Idle EXCEPT !.pc = "fileclose", !.fd = Min(open), !.held = <<ofile[p][Min(open)]>>]]
          /\ alive' = alive
  /\ UNCHANGED <<file, ofile, pipe, iref>>

-----------------------------------------------------------------------------
(* open().                                                                 *)

\* namei() or create() has made a reference to the inode.
Open(p) ==
  /\ At(p, "user")
  /\ iref' = iref + 1
  /\ th' = [th EXCEPT ![p] = [Idle EXCEPT !.pc = "open"]]
  /\ UNCHANGED <<file, ofile, pipe, alive>>

OpenFile(p) ==
  /\ At(p, "open")
  /\ IF FreeFiles = {}
     THEN /\ iref' = iref - 1
          /\ th' = [th EXCEPT ![p] = Idle]
          /\ file' = file
     ELSE /\ file' = Filealloc
          /\ th' = [th EXCEPT ![p].held = <<Min(FreeFiles)>>, ![p].pc = "openfd"]
          /\ iref' = iref
  /\ UNCHANGED <<ofile, pipe, alive>>

\* Without a descriptor the file is closed as it is, and the inode let go.
OpenFd(p) ==
  LET f == Head(th[p].held) IN
  /\ At(p, "openfd")
  /\ IF FreeFds(p) = {}
     THEN /\ iref' = iref - 1
          /\ th' = [th EXCEPT ![p].pc = "fileclose"]
          /\ UNCHANGED <<file, ofile>>
     ELSE /\ ofile' = [ofile EXCEPT ![p][Min(FreeFds(p))] = f]
          /\ file' = [file EXCEPT ![f] = [@ EXCEPT !.type = "FD_INODE", !.writable = FALSE]]
          /\ th' = [th EXCEPT ![p] = Idle]
          /\ iref' = iref
  /\ UNCHANGED <<pipe, alive>>

-----------------------------------------------------------------------------
(* pipe().                                                                 *)

\* The two filealloc() of pipealloc().
PipeFile(p) ==
  /\ At(p, "user") \/ At(p, "pipe")
  /\ IF FreeFiles = {}
     THEN th' = [th EXCEPT ![p] = CloseHeld(@)] /\ file' = file
     ELSE /\ file' = Filealloc
          /\ th' = [th EXCEPT ![p].held = Append(@, Min(FreeFiles)),
                              ![p].pc = IF @ = "user" THEN "pipe" ELSE "pipealloc"]
  /\ UNCHANGED <<ofile, pipe, iref, alive>>

\* kalloc(), and the two files become the ends of the pipe.
Pipealloc(p) ==
  LET room == {k \in Pipes : ~pipe[k].alloc}
      k == Min(room)
      End(writable) == [ref |-> 1, type |-> "FD_PIPE", pipe |-> k, writable |-> writable]
  IN
  /\ At(p, "pipealloc")
  /\ IF room = {} THEN th' = [th EXCEPT ![p] = CloseHeld(@)] /\ UNCHANGED <<file, pipe>>
     ELSE /\ pipe' = [pipe EXCEPT ![k] = [alloc |-> TRUE, readopen |-> 1, writeopen |-> 1]]
          /\ file' = [file EXCEPT ![th[p].held[1]] = End(FALSE), ![th[p].held[2]] = End(TRUE)]
          /\ th' = [th EXCEPT ![p].pc = "pipefds"]
  /\ UNCHANGED <<ofile, iref, alive>>

\* The rest of sys_pipe(): without two descriptors, or when copyout() fails,
\* the descriptors are cleared again and both files closed.
PipeFds(p) ==
  LET fd0 == Min(FreeFds(p))
      fd1 == Min(FreeFds(p) \ {fd0})
  IN
  /\ At(p, "pipefds")
  /\ \/ /\ Cardinality(FreeFds(p)) >= 2
        /\ ofile' = [ofile EXCEPT ![p][fd0] = th[p].held[1], ![p][fd1] = th[p].held[2]]
        /\ th' = [th EXCEPT ![p] = Idle]
     \/ /\ ofile' = ofile
        /\ th' = [th EXCEPT ![p] = CloseHeld(@)]
  /\ UNCHANGED <<file, pipe, iref, alive>>

-----------------------------------------------------------------------------
Kernel(p) ==
  \/ Fileclose(p) \/ Teardown(p) \/ Duped(p) \/ ForkDup(p) \/ Forked(p) \/ ExitClose(p)
  \/ OpenFile(p) \/ OpenFd(p) \/ (At(p, "pipe") /\ PipeFile(p)) \/ Pipealloc(p) \/ PipeFds(p)

User(p) ==
  \/ \E fd \in Fds : Close(p, fd) \/ Dup(p, fd)
  \/ \E c \in Procs : Fork(p, c)
  \/ Exit(p) \/ Open(p) \/ (At(p, "user") /\ PipeFile(p))

Next == \E p \in Procs : Kernel(p) \/ User(p)

\* A system call does not stop half way.
Spec == Init /\ [][Next]_vars /\ \A p \in Procs : WF_vars(Kernel(p))

-----------------------------------------------------------------------------
(* Properties.                                                             *)

\* The descriptors that have a reference to f.
Refs(f) == {x \in Procs \X Fds : ofile[x[1]][x[2]] = f /\ th[x[1]].fd # x[2]}
Held(p, f) == Cardinality({i \in DOMAIN th[p].held : th[p].held[i] = f})

\* f->ref is the number of descriptors and calls that have f, in every state in
\* which another process may look at it: no reference is lost, filedup() and
\* fileclose() never find a count below 1, and no file in use is reallocated.
RefsExact ==
  \A f \in Files :
    /\ file[f].ref = Cardinality(Refs(f)) + MapThenSumSet(LAMBDA p : Held(p, f), Procs)
    /\ \A p \in Procs : At(p, "dup") /\ ofile[p][th[p].fd] = f => file[f].ref > 0

\* The files, and the copies fileclose() tears down, that stand for an end of
\* pipe k.
Ends(k, writable) ==
  {f \in Files : file[f].ref > 0 /\ file[f].type = "FD_PIPE" /\ file[f].pipe = k /\ file[f].writable = writable}
Closing(k, writable) ==
  {p \in Procs : th[p].ff.type = "FD_PIPE" /\ th[p].ff.pipe = k /\ th[p].ff.writable = writable}

\* An end of a pipe is open exactly as long as one file stands for it, up to
\* the pipeclose() that fileclose() calls once; the page of the pipe is
\* allocated as long as an end is open.
PipeEnds ==
  \A k \in Pipes :
    /\ \A w \in BOOLEAN :
         Cardinality(Ends(k, w)) + Cardinality(Closing(k, w)) = IF w THEN pipe[k].writeopen ELSE pipe[k].readopen
    /\ pipe[k].alloc <=> pipe[k].readopen = 1 \/ pipe[k].writeopen = 1

\* open() and fileclose() keep one reference to an inode for each file of type
\* FD_INODE, whatever fails in between.
InodeHeld ==
  iref = Cardinality({f \in Files : file[f].ref > 0 /\ file[f].type = "FD_INODE"}) +
         Cardinality({p \in Procs : th[p].ff.type = "FD_INODE" \/ th[p].pc \in {"open", "openfd"}})

\* A descriptor a process can use names a file that has a type: read() and
\* write() do not panic, and find the pipe allocated.
DescriptorsLive ==
  \A p \in alive, fd \in Fds :
    th[p].pc = "user" /\ ofile[p][fd] # None =>
      LET f == file[ofile[p][fd]] IN
      f.ref > 0 /\ f.type # "FD_NONE" /\ (f.type = "FD_PIPE" => pipe[f.pipe].alloc)

\* No descriptor has the write end of pipe k, and pipe() is not about to make one.
NoWriter(k) == \A f \in Ends(k, TRUE) : Refs(f) = {} /\ \A p \in Procs : th[p].pc # "pipefds" \/ Held(p, f) = 0
\* When no descriptor has the write end of a pipe any more, it is closed in the
\* end: the reader sees the end of the file.
WriteEndCloses == \A k \in Pipes : NoWriter(k) ~> pipe[k].writeopen = 0

\* What a file stands for lives as long as the file, in every interleaving of open(),
\* pipe(), close(), fork() and exit(): ends of pipes, inodes, usable descriptors.
ObjectsHeld == PipeEnds /\ InodeHeld /\ DescriptorsLive
=============================================================================
