------------------------------ MODULE Contents ------------------------------
(***************************************************************************)
(* The contents of files: the block bitmap, the block map of an inode,     *)
(* readi(), writei() and itrunc() of kernel/fs.c under the inode lock, and *)
(* the loops of kernel/file.c around them.                                 *)
(*                                                                         *)
(* A block has a few cells; a cell holds a byte of a file or, in an        *)
(* indirect block, a block number.  The buffer lock of the bitmap makes    *)
(* balloc() and bfree() atomic, so one step makes at most one such call.   *)
(* A copy from or to user memory may fail.  The files stay open, and the   *)
(* buffers stay in the cache: LogFault shows what recycling one does after *)
(* a failed copy.                                                          *)
(***************************************************************************)
EXTENDS Integers, Sequences, FiniteSets, SequencesExt

CONSTANTS
  Procs, NoProc,
  Inodes,
  Opens,        \* the entries of ftable in use
  FileOf,       \* f->ip
  Calls,        \* the system calls each process makes
  Byte(_, _),   \* the byte a process writes at a position
  Packed,       \* the files mkfs has packed: an inode for each byte
  FSSIZE,       \* data blocks, numbered from 1
  BSIZE, NDIRECT, NINDIRECT, MAXOPBLOCKS,
  UINT,         \* 2^32: where uint wraps around
  MaxCalls      \* bound: the calls each process makes

MAXFILE == NDIRECT + NINDIRECT
Bitmap == 0        \* the block of the bitmap; one is enough, FSSIZE <= BPB
Blocks == 1..FSSIZE
Cells == 0..Max({BSIZE, NINDIRECT}) - 1

ASSUME ContentsAssumption ==
  /\ {FSSIZE, BSIZE, NDIRECT, NINDIRECT, MAXOPBLOCKS} \subseteq Nat \ {0}
  /\ MAXOPBLOCKS >= 6 /\ MAXFILE * BSIZE < UINT /\ NoProc \notin Procs

VARIABLES
  used,     \* the bitmap: the blocks in use
  data,     \* the contents of the blocks
  dinode,   \* size and addrs in the inode blocks
  inode,    \* size and addrs in the inode table
  holder,   \* ip->lock
  off,      \* f->off
  th,       \* the system call of each process
  calls     \* how many it has made

vars == <<used, data, dinode, inode, holder, off, th, calls>>

Zeroes == [c \in Cells |-> 0]
\* What is left in a block that has been freed, whatever it is: -1 is no byte.
Junk == [c \in Cells |-> -1]

Idle == [pc |-> "user", call |-> [op |-> "none"], i |-> 0, n |-> 0, tot |-> 0,
         got |-> << >>, logged |-> {}, before |-> << >>]

-----------------------------------------------------------------------------
(* The block map.                                                          *)

\* Block number bn of file f, 0 where there is none.
Addr(ip, bn) ==
  IF bn < NDIRECT THEN ip.addrs[bn]
  ELSE IF ip.addrs[NDIRECT] = 0 THEN 0 ELSE data[ip.addrs[NDIRECT]][bn - NDIRECT]

\* The bytes of a file, by its size and its block map.
CellAt(ip, k) == data[Addr(ip, k \div BSIZE)][k % BSIZE]
BytesOf(ip) == [k \in 1..ip.size |-> CellAt(ip, k - 1)]

-----------------------------------------------------------------------------
(* mkfs: iappend() one byte after the other, taking blocks in their order. *)

Iappend(im, f) ==
  LET ip == im.dinode[f]
      fbn == ip.size \div BSIZE
      indirect == fbn >= NDIRECT /\ ip.addrs[NDIRECT] = 0
      b == IF indirect THEN im.freeblock + 1 ELSE im.freeblock
      ind == IF indirect THEN im.freeblock ELSE ip.addrs[NDIRECT]
      fresh == ip.size % BSIZE = 0
      x == IF fresh THEN b
           ELSE IF fbn < NDIRECT THEN ip.addrs[fbn] ELSE im.data[ind][fbn - NDIRECT]
      addrs == IF fbn < NDIRECT THEN [ip.addrs EXCEPT ![fbn] = x] ELSE [ip.addrs EXCEPT ![NDIRECT] = ind]
      mapped == IF fbn < NDIRECT THEN im.data ELSE [im.data EXCEPT ![ind][fbn - NDIRECT] = x]
  IN [dinode |-> [im.dinode EXCEPT ![f] = [size |-> ip.size + 1, addrs |-> addrs]],
      data |-> [mapped EXCEPT ![x][ip.size % BSIZE] = 1],
      freeblock |-> IF fresh THEN b + 1 ELSE im.freeblock]

Mkfs ==
  FoldLeft(Iappend,
           [dinode |-> [f \in Inodes |-> [size |-> 0, addrs |-> [k \in 0..NDIRECT |-> 0]]],
            data |-> [b \in Blocks |-> Zeroes],
            freeblock |-> 1],
           Packed)

Init ==
  /\ dinode = Mkfs.dinode
  /\ data = Mkfs.data
  /\ used = 1..Mkfs.freeblock - 1
  /\ inode = dinode
  /\ holder = [f \in Inodes |-> NoProc]
  /\ off = [o \in Opens |-> 0]
  /\ th = [p \in Procs |-> Idle]
  /\ calls = [p \in Procs |-> 0]

-----------------------------------------------------------------------------
(* System calls.                                                           *)

File(p) == FileOf[th[p].call.o]
Writing(p) == th[p].call.op = "write"
At(p, label) == th[p].pc = label

\* Where in the file the transfer stands, the `off' of readi() and writei().
Pos(p) == off[th[p].call.o] + th[p].tot
Bn(p) == Pos(p) \div BSIZE

Lock(p) == holder[File(p)] = NoProc /\ holder' = [holder EXCEPT ![File(p)] = p]
Unlock(p) == holder' = [holder EXCEPT ![File(p)] = NoProc]

\* sys_read(), sys_write(), sys_fstat() and sys_open().
Begin(p, c) ==
  /\ At(p, "user")
  /\ calls[p] < MaxCalls[p]
  /\ calls' = [calls EXCEPT ![p] = @ + 1]
  /\ th' = [th EXCEPT ![p] = [Idle EXCEPT !.call = c,
       !.pc = IF c.op = "write" /\ c.n <= 0 THEN "ret" ELSE "lock"]]
  /\ UNCHANGED <<used, data, dinode, inode, holder, off>>

Return(p) ==
  /\ At(p, "ret")
  /\ th' = [th EXCEPT ![p] = Idle]
  /\ UNCHANGED <<used, data, dinode, inode, holder, off>>

\* off + n wraps around.
Wraps(k, n) == (k + n) % UINT < k

\* How much readi() reads.
Readable(size, k, n) ==
  IF k > size \/ Wraps(k, n) THEN 0 ELSE IF k + n > size THEN size - k ELSE n

\* readi(): the bytes read.
Readi(ip, k, n) == [j \in 1..Readable(ip.size, k, n) |-> CellAt(ip, k + j - 1)]

\* fileread(): no block is allocated, so the section under the lock is one step.
\* n is an int that readi() takes for a uint; a copy that fails makes it return -1.
Fileread(p) ==
  LET o == th[p].call.o
      got == Readi(inode[File(p)], off[o], th[p].call.n % UINT)
  IN
  /\ At(p, "lock") /\ th[p].call.op = "read"
  /\ holder[File(p)] = NoProc
  /\ \/ /\ off' = [off EXCEPT ![o] = @ + Len(got)]
        /\ th' = [th EXCEPT ![p] = [Idle EXCEPT !.pc = "ret", !.got = got]]
     \/ /\ got # << >>
        /\ off' = off
        /\ th' = [th EXCEPT ![p] = [Idle EXCEPT !.pc = "ret"]]
  /\ UNCHANGED <<used, data, dinode, inode, holder>>

Chunk_Whole == MAXFILE * BSIZE
\* filewrite() writes a few blocks at a time, to stay within a transaction.
Chunk == ((MAXOPBLOCKS - 1 - 1 - 2) \div 2) * BSIZE

Writable(size, k, n) == ~(k > size \/ Wraps(k, n)) /\ k + n <= MAXFILE * BSIZE

\* One turn of filewrite(): begin_op(), ilock() and writei() up to its loop.
Filewrite(p) ==
  LET left == th[p].call.n - th[p].i
      n1 == Min({left, Chunk})
      ip == inode[File(p)]
  IN
  /\ At(p, "lock") /\ Writing(p)
  /\ IF Writable(ip.size, off[th[p].call.o], n1)
     THEN /\ Lock(p)
          /\ th' = [th EXCEPT ![p].pc = "loop", ![p].n = n1, ![p].tot = 0, ![p].logged = {},
                              ![p].before = BytesOf(ip)]
     ELSE /\ holder[File(p)] = NoProc /\ holder' = holder
          /\ th' = [th EXCEPT ![p] = [Idle EXCEPT !.pc = "ret"]]
  /\ UNCHANGED <<used, data, dinode, inode, off>>

Free == Blocks \ used
\* balloc(): the first free block, zeroed.
Balloc == Min(Free)

\* The part of a block the loop copies in one turn, and the block with n bytes of it.
Span(p) == Min({th[p].n - th[p].tot, BSIZE - (Pos(p) % BSIZE)})

Copied_AtStart(p, d, b, n) ==
  [d EXCEPT ![b] = [c \in Cells |-> IF c < n THEN Byte(p, Pos(p) + c) ELSE @[c]]]
Copied(p, d, b, n) ==
  LET at == Pos(p) % BSIZE IN
  [d EXCEPT ![b] = [c \in Cells |-> IF c \in at..at + n - 1 THEN Byte(p, Pos(p) + c - at) ELSE @[c]]]

Turn(p) == At(p, "loop") /\ th[p].tot < th[p].n

\* bmap() allocates the indirect block.
BmapIndirect(p) ==
  LET f == File(p) IN
  /\ Turn(p)
  /\ Bn(p) >= NDIRECT /\ inode[f].addrs[NDIRECT] = 0 /\ Free # {}
  /\ used' = used \cup {Balloc}
  /\ data' = [data EXCEPT ![Balloc] = Zeroes]
  /\ inode' = [inode EXCEPT ![f].addrs[NDIRECT] = Balloc]
  /\ th' = [th EXCEPT ![p].logged = @ \cup {Bitmap, Balloc}]
  /\ UNCHANGED <<dinode, holder, off>>

\* The block is there, or bmap() allocates it and enters it into the map.
Reachable(p) ==
  /\ Bn(p) >= NDIRECT => inode[File(p)].addrs[NDIRECT] # 0
  /\ Addr(inode[File(p)], Bn(p)) # 0 \/ Free # {}

\* A turn of the loop of writei(): bmap() and the copy into the buffer.  The copy may
\* fail after a first part; writei() gives the buffer back as it is, without logging it.
WriteBlock(p) ==
  LET f == File(p)
      ind == inode[f].addrs[NDIRECT]
      old == Addr(inode[f], Bn(p))
      b == IF old = 0 THEN Balloc ELSE old
      zeroed == IF old = 0 THEN [data EXCEPT ![b] = Zeroes] ELSE data
      mapped == IF Bn(p) < NDIRECT THEN zeroed ELSE [zeroed EXCEPT ![ind][Bn(p) - NDIRECT] = b]
      touched == IF old # 0 THEN {} ELSE {Bitmap, b} \cup (IF Bn(p) < NDIRECT THEN {} ELSE {ind})
  IN
  /\ Turn(p)
  /\ Reachable(p)
  /\ used' = used \cup {b}
  /\ inode' = IF Bn(p) < NDIRECT THEN [inode EXCEPT ![f].addrs[Bn(p)] = b] ELSE inode
  /\ \/ /\ data' = Copied(p, mapped, b, Span(p))
        /\ th' = [th EXCEPT ![p].tot = @ + Span(p), ![p].logged = @ \cup touched \cup {b}]
     \/ /\ \E n \in 0..Span(p) - 1 : data' = Copied(p, mapped, b, n)
        /\ th' = [th EXCEPT ![p].pc = "end", ![p].logged = @ \cup touched]
  /\ UNCHANGED <<dinode, holder, off>>

\* No block is left: the loop ends.
OutOfBlocks(p) ==
  /\ Turn(p)
  /\ Free = {}
  /\ Addr(inode[File(p)], Bn(p)) = 0
  /\ th' = [th EXCEPT ![p].pc = "end"]
  /\ UNCHANGED <<used, data, dinode, inode, holder, off>>

Done(p) == At(p, "end") \/ (At(p, "loop") /\ th[p].tot = th[p].n)

\* writei() ends with iupdate() whether or not the file has grown; filewrite()
\* moves the offset, lets go of the inode and ends the transaction.
WriteEnd(p) ==
  LET f == File(p)
      ip == [inode[f] EXCEPT !.size = Max({Pos(p), @})]
  IN
  /\ Done(p)
  /\ inode' = [inode EXCEPT ![f] = ip]
  /\ dinode' = [dinode EXCEPT ![f] = ip]
  /\ off' = [off EXCEPT ![th[p].call.o] = @ + th[p].tot]
  /\ Unlock(p)
  /\ IF th[p].tot = th[p].n /\ th[p].i + th[p].tot < th[p].call.n
     THEN th' = [th EXCEPT ![p] = [Idle EXCEPT !.pc = "lock", !.call = th[p].call,
                                               !.i = th[p].i + th[p].tot]]
     ELSE th' = [th EXCEPT ![p] = [Idle EXCEPT !.pc = "ret"]]
  /\ UNCHANGED <<used, data>>

\* stati(): the size; the other fields do not change here.
Stati(ip) == <<ip.size>>

Filestat(p) ==
  /\ At(p, "lock") /\ th[p].call.op = "stat"
  /\ holder[File(p)] = NoProc
  /\ th' = [th EXCEPT ![p] = [Idle EXCEPT !.pc = "ret", !.got = Stati(inode[File(p)])]]
  /\ UNCHANGED <<used, data, dinode, inode, holder, off>>

-----------------------------------------------------------------------------
(* itrunc().                                                               *)

\* The slots of an inode in the order itrunc() frees them: the direct blocks,
\* the cells of the indirect block and the indirect block.
Slot(ip, k) == IF k < MAXFILE THEN Addr(ip, k) ELSE ip.addrs[NDIRECT]
ToFree(p) == {k \in th[p].i..MAXFILE : Slot(inode[File(p)], k) # 0}

\* open() with O_TRUNC: a new entry of ftable, with offset 0, takes the place of
\* the one the process had.
Itrunc(p) ==
  /\ At(p, "lock") /\ th[p].call.op = "open"
  /\ Lock(p)
  /\ off' = [off EXCEPT ![th[p].call.o] = 0]
  /\ th' = [th EXCEPT ![p].pc = "trunc", ![p].before = BytesOf(inode[File(p)])]
  /\ UNCHANGED <<used, data, dinode, inode>>

Cleared_Indirect(addrs, k) == IF k < NDIRECT THEN [addrs EXCEPT ![k] = 0] ELSE addrs
Cleared(addrs, k) ==
  IF k < NDIRECT THEN [addrs EXCEPT ![k] = 0]
  ELSE IF k = MAXFILE THEN [addrs EXCEPT ![NDIRECT] = 0] ELSE addrs

Bfree(p) ==
  LET f == File(p)
      k == Min(ToFree(p))
  IN
  /\ At(p, "trunc")
  /\ ToFree(p) # {}
  /\ used' = used \ {Slot(inode[f], k)}
  /\ inode' = [inode EXCEPT ![f].addrs = Cleared(@, k)]
  /\ data' = [data EXCEPT ![Slot(inode[f], k)] = Junk]
  /\ th' = [th EXCEPT ![p].i = k + 1, ![p].logged = @ \cup {Bitmap}]
  /\ UNCHANGED <<dinode, holder, off>>

ItruncEnd(p) ==
  LET f == File(p)
      ip == [inode[f] EXCEPT !.size = 0]
  IN
  /\ At(p, "trunc")
  /\ ToFree(p) = {}
  /\ inode' = [inode EXCEPT ![f] = ip]
  /\ dinode' = [dinode EXCEPT ![f] = ip]
  /\ Unlock(p)
  /\ th' = [th EXCEPT ![p] = [Idle EXCEPT !.pc = "ret"]]
  /\ UNCHANGED <<used, data, off>>

Inside(p) ==
  \/ Fileread(p) \/ Filewrite(p) \/ BmapIndirect(p) \/ WriteBlock(p) \/ OutOfBlocks(p) \/ WriteEnd(p)
  \/ Filestat(p) \/ Itrunc(p) \/ Bfree(p) \/ ItruncEnd(p) \/ Return(p)

Next == \E p \in Procs : (\E c \in Calls[p] : Begin(p, c)) \/ (Inside(p) /\ UNCHANGED calls)

Spec == Init /\ [][Next]_vars

-----------------------------------------------------------------------------
(* Properties.                                                             *)

\* The places that hold block number b: slots of inodes.
Owners(table, b) ==
  {<<f, k>> \in Inodes \X (0..MAXFILE) : Slot(table[f], k) = b}

\* A block is in use if and only if one slot of one inode holds it: no block
\* belongs to two files, and none is lost on any error path.
BlocksOwned ==
  \A b \in Blocks : Cardinality({<<f, k>> \in Owners(inode, b) :
      ~(\E p \in Procs : At(p, "trunc") /\ File(p) = f /\ NDIRECT <= k /\ k < th[p].i)})
    = IF b \in used THEN 1 ELSE 0

\* The inode blocks have what the inode table has whenever the inode is not
\* locked: what a transaction commits never points to a block that is free.
InodeSynced == \A f \in Inodes : holder[f] = NoProc => inode[f] = dinode[f]

\* A reader never meets a hole, so readi() does not allocate: it runs outside
\* of a transaction, where log_write() panics.
ReadAllocatesNothing ==
  \A f \in Inodes : holder[f] = NoProc =>
    \A k \in 0..inode[f].size - 1 : Addr(inode[f], k \div BSIZE) # 0

\* A transaction writes at most MAXOPBLOCKS blocks, the inode block included:
\* what log_write() and begin_op() rely on.
OpFitsLog == \A p \in Procs : Cardinality(th[p].logged) + 1 <= MAXOPBLOCKS

\* Locked, the file is still what it was when the transfer began.
Committed(f) ==
  IF \E p \in Procs : holder[f] = p /\ (Writing(p) \/ At(p, "trunc"))
  THEN th[holder[f]].before ELSE BytesOf(inode[f])

Abstract == INSTANCE FileBytes WITH
  Files <- Inodes,
  MaxBytes <- MAXFILE * BSIZE,
  MaxMore <- BSIZE - 1,
  bytes <- [f \in Inodes |-> Committed(f)],
  result <- [p \in Procs |-> IF At(p, "ret") THEN th[p].got ELSE << >>]

\* Under concurrent reads, writes and truncations, with full disks and failing
\* copies, every file is a sequence of bytes read and written at offsets; a write
\* whose copy fails spoils at most the rest of one block beyond what it reports.
IsFileBytes == Abstract!Spec

\* The block maps: every block in use has one place in one file, files have no holes,
\* and an unlocked inode is on the disk as it is in the table.
MapsSound == BlocksOwned /\ InodeSynced /\ ReadAllocatesNothing
=============================================================================
