-------------------------------- MODULE Log ---------------------------------
(***************************************************************************)
(* The write-ahead log of kernel/log.c over the buffer cache of            *)
(* kernel/bio.c and a disk that survives crashes.                          *)
(*                                                                         *)
(* Each action is one critical section of log.lock, or one disk write:     *)
(* commit() runs without log.lock, so every one of its block writes is a   *)
(* step of its own between which other processes run and the machine may   *)
(* crash.  sleep(&log, &log.lock) parks a process at "asleep" and gives    *)
(* the lock up in the same step; module Proc shows that kernel/proc.c      *)
(* justifies this.  A panic() is a step the process cannot take; NoPanic   *)
(* says that none is ever met.                                             *)
(***************************************************************************)
EXTENDS Integers, Sequences, FiniteSets, Functions

CONSTANTS Procs,        \* processes that make file system calls
          Blocks,       \* home blocks of the file system
          Val,          \* contents of a block
          Zero,         \* what mkfs writes to every block
          NoVal,        \* the block is not in the buffer cache
          NoBlock,      \* the process holds no buffer
          MAXOPBLOCKS,  \* blocks begin_op() reserves for one call
          LOGSIZE,      \* entries of the log header
          NLog,         \* sb->nlog: blocks of the on-disk log, header included
          OpBlocks      \* blocks a call really writes between begin_op and end_op

ASSUME LogAssumption ==
  /\ MAXOPBLOCKS \in Nat /\ LOGSIZE \in Nat /\ NLog \in Nat /\ OpBlocks \in Nat
  /\ Zero \in Val /\ NoVal \notin Val /\ NoBlock \notin Blocks /\ IsFiniteSet(Procs)

\* No call writes more than it reserves, and the log has room for one call.
ASSUME ReserveAssumption == OpBlocks <= MAXOPBLOCKS /\ MAXOPBLOCKS <= LOGSIZE

VARIABLES
  dhead,        \* on disk: the log header, as the sequence block[0..n-1]
  dlog,         \* on disk: the log blocks, start+1 .. start+LOGSIZE
  home,         \* on disk: the home blocks
  cache,        \* contents of the valid buffers, NoVal where there is none
  pins,         \* bpin() minus bunpin() calls on the buffer of a block
  lh,           \* log.lh, as the sequence block[0..n-1]
  outstanding,  \* log.outstanding
  committing,   \* log.committing
  pc,           \* where each process is in the code of log.c
  buf,          \* the locked buffer a process is modifying
  wrote,        \* blocks the current call of a process has logged
  tail,         \* loop index of write_log() and install_trans()
  mode          \* "boot", "install" and "clear" are initlog(), then "up"

diskVars == <<dhead, dlog, home>>
cacheVars == <<cache, pins>>
logVars == <<lh, outstanding, committing>>
procVars == <<pc, buf, wrote>>
vars == <<diskVars, cacheVars, logVars, procVars, tail, mode>>

Quiet == [p \in Procs |-> "idle"]

\* mkfs zeroes the disk; the kernel starts in initlog() with nothing cached.
Init ==
  /\ dhead = << >>
  /\ dlog = [i \in 1..LOGSIZE |-> Zero]
  /\ home = [b \in Blocks |-> Zero]
  /\ cache = [b \in Blocks |-> NoVal]
  /\ pins = [b \in Blocks |-> 0]
  /\ lh = << >>
  /\ outstanding = 0
  /\ committing = 0
  /\ pc = Quiet
  /\ buf = [p \in Procs |-> NoBlock]
  /\ wrote = [p \in Procs |-> {}]
  /\ tail = 1
  /\ mode = "boot"

-----------------------------------------------------------------------------
(* The buffer cache as the log uses it.                                    *)

\* What bread(b) returns: the cached contents, or the disk's.
Bread(b) == IF cache[b] = NoVal THEN home[b] ELSE cache[b]

Unlocked(b) == \A p \in Procs : buf[p] # b

\* b->refcnt == 0: no process holds the buffer and the log has not pinned it.
Recyclable(b) == Unlocked(b) /\ pins[b] = 0

\* A system call outside any transaction reads a block.
Fill(b) ==
  /\ mode = "up"
  /\ cache[b] = NoVal
  /\ cache' = [cache EXCEPT ![b] = home[b]]
  /\ UNCHANGED <<diskVars, pins, logVars, procVars, tail, mode>>

\* bget() recycles the buffer of b for another block.
Recycle(b) ==
  /\ cache[b] # NoVal
  /\ Recyclable(b)
  /\ cache' = [cache EXCEPT ![b] = NoVal]
  /\ UNCHANGED <<diskVars, pins, logVars, procVars, tail, mode>>

-----------------------------------------------------------------------------
(* System calls.                                                           *)

\* wakeup(&log): every sleeper in begin_op() tests its conditions again.
WakeupLog == [p \in Procs |-> IF pc[p] = "asleep" THEN "begin" ELSE pc[p]]

MustWait_NoReserve == committing = 1
\* The two reasons for begin_op() to sleep.
MustWait ==
  \/ committing = 1
  \/ Len(lh) + (outstanding + 1) * MAXOPBLOCKS > LOGSIZE

BeginOp(p) ==
  /\ mode = "up"
  /\ pc[p] \in {"idle", "begin"}
  /\ IF MustWait
     THEN /\ pc' = [pc EXCEPT ![p] = "asleep"]
          /\ UNCHANGED outstanding
     ELSE /\ pc' = [pc EXCEPT ![p] = "op"]
          /\ outstanding' = outstanding + 1
  /\ UNCHANGED <<diskVars, cacheVars, lh, committing, buf, wrote, tail, mode>>

\* bp = bread(b); modify bp->data, keeping the buffer locked.
Modify(p, b, v) ==
  /\ pc[p] = "op"
  /\ Unlocked(b)
  /\ Cardinality(wrote[p] \cup {b}) <= OpBlocks
  /\ cache' = [cache EXCEPT ![b] = v]
  /\ buf' = [buf EXCEPT ![p] = b]
  /\ pc' = [pc EXCEPT ![p] = "buf"]
  /\ UNCHANGED <<diskVars, pins, logVars, wrote, tail, mode>>

TooBig == Len(lh) >= LOGSIZE \/ Len(lh) >= NLog - 1

Pin_Skipped(b) == pins
\* bpin(b).
Pin(b) == [pins EXCEPT ![b] = @ + 1]

\* log_write(bp); brelse(bp).  A block already in the log is absorbed.
LogWrite(p) ==
  /\ pc[p] = "buf"
  /\ ~TooBig
  /\ outstanding >= 1
  /\ LET b == buf[p] IN
     /\ IF b \in Range(lh)
        THEN UNCHANGED <<lh, pins>>
        ELSE /\ lh' = Append(lh, b)
             /\ pins' = Pin(b)
     /\ wrote' = [wrote EXCEPT ![p] = @ \cup {b}]
  /\ buf' = [buf EXCEPT ![p] = NoBlock]
  /\ pc' = [pc EXCEPT ![p] = "op"]
  /\ UNCHANGED <<diskVars, cache, outstanding, committing, tail, mode>>

LastOp_Always == TRUE
LastOp_Missed == outstanding = 0
\* end_op() commits when it takes log.outstanding to zero.
LastOp == outstanding = 1

\* The processes after the wakeup(&log) of a call that does not commit.
SpaceFreed == WakeupLog

EndOp(p) ==
  /\ pc[p] = "op"
  /\ committing = 0
  /\ outstanding' = outstanding - 1
  /\ wrote' = [wrote EXCEPT ![p] = {}]
  /\ IF LastOp
     THEN /\ committing' = 1
          /\ pc' = [pc EXCEPT ![p] = IF Len(lh) > 0 THEN "write_log" ELSE "finish"]
          /\ tail' = 1
     ELSE /\ pc' = [SpaceFreed EXCEPT ![p] = "idle"]
          /\ UNCHANGED <<committing, tail>>
  /\ UNCHANGED <<diskVars, cacheVars, lh, buf, mode>>

-----------------------------------------------------------------------------
(* commit(): one step per disk write.                                      *)

\* The loop step shared by write_log() and install_trans().
Advance(p, here, next) ==
  IF tail < Len(lh)
  THEN /\ tail' = tail + 1
       /\ pc' = [pc EXCEPT ![p] = here]
  ELSE /\ tail' = 1
       /\ pc' = [pc EXCEPT ![p] = next]

WriteLog(p) ==
  /\ pc[p] = "write_log"
  /\ Unlocked(lh[tail])
  /\ dlog' = [dlog EXCEPT ![tail] = Bread(lh[tail])]
  /\ cache' = [cache EXCEPT ![lh[tail]] = Bread(lh[tail])]
  /\ Advance(p, "write_log", "write_head")
  /\ UNCHANGED <<dhead, home, pins, logVars, buf, wrote, mode>>

\* write_head(): the commit point.
WriteHead(p) ==
  /\ pc[p] = "write_head"
  /\ dhead' = lh
  /\ pc' = [pc EXCEPT ![p] = "install"]
  /\ UNCHANGED <<dlog, home, cacheVars, logVars, buf, wrote, tail, mode>>

\* memmove and bwrite of one iteration of install_trans().
InstallBlock ==
  /\ Unlocked(lh[tail])
  /\ home' = [home EXCEPT ![lh[tail]] = dlog[tail]]
  /\ cache' = [cache EXCEPT ![lh[tail]] = dlog[tail]]

\* install_trans(0).
InstallTrans(p) ==
  /\ pc[p] = "install"
  /\ InstallBlock
  /\ pins' = [pins EXCEPT ![lh[tail]] = @ - 1]
  /\ Advance(p, "install", "clear")
  /\ UNCHANGED <<dhead, dlog, logVars, buf, wrote, mode>>

\* log.lh.n = 0; write_head().
ClearHead(p) ==
  /\ pc[p] = "clear"
  /\ lh' = << >>
  /\ dhead' = << >>
  /\ pc' = [pc EXCEPT ![p] = "finish"]
  /\ UNCHANGED <<dlog, home, cacheVars, outstanding, committing, buf, wrote, tail, mode>>

\* The second critical section of end_op().
FinishCommit(p) ==
  /\ pc[p] = "finish"
  /\ committing' = 0
  /\ pc' = [WakeupLog EXCEPT ![p] = "idle"]
  /\ UNCHANGED <<diskVars, cacheVars, lh, outstanding, buf, wrote, tail, mode>>

-----------------------------------------------------------------------------
(* Crash, and initlog() at the next boot.                                  *)

Crash ==
  /\ cache' = [b \in Blocks |-> NoVal]
  /\ pins' = [b \in Blocks |-> 0]
  /\ lh' = << >>
  /\ outstanding' = 0
  /\ committing' = 0
  /\ pc' = Quiet
  /\ buf' = [p \in Procs |-> NoBlock]
  /\ wrote' = [p \in Procs |-> {}]
  /\ tail' = 1
  /\ mode' = "boot"
  /\ UNCHANGED diskVars

\* read_head().
ReadHead ==
  /\ mode = "boot"
  /\ lh' = dhead
  /\ mode' = IF Len(dhead) > 0 THEN "install" ELSE "clear"
  /\ UNCHANGED <<diskVars, cacheVars, outstanding, committing, procVars, tail>>

\* install_trans(1).
RecoverInstall ==
  /\ mode = "install"
  /\ InstallBlock
  /\ IF tail < Len(lh)
     THEN tail' = tail + 1 /\ UNCHANGED mode
     ELSE tail' = 1 /\ mode' = "clear"
  /\ UNCHANGED <<dhead, dlog, pins, logVars, procVars>>

\* log.lh.n = 0; write_head(); then system calls may run.
RecoverClear ==
  /\ mode = "clear"
  /\ lh' = << >>
  /\ dhead' = << >>
  /\ mode' = "up"
  /\ UNCHANGED <<dlog, home, cacheVars, outstanding, committing, procVars, tail>>

-----------------------------------------------------------------------------
Recovery == ReadHead \/ RecoverInstall \/ RecoverClear

CommitStep(p) ==
  \/ WriteLog(p) \/ WriteHead(p) \/ InstallTrans(p) \/ ClearHead(p) \/ FinishCommit(p)

Step(p) ==
  \/ BeginOp(p)
  \/ \E b \in Blocks, v \in Val : Modify(p, b, v)
  \/ LogWrite(p)
  \/ EndOp(p)
  \/ CommitStep(p)

Next ==
  \/ \E p \in Procs : Step(p)
  \/ \E b \in Blocks : Fill(b) \/ Recycle(b)
  \/ Recovery
  \/ Crash

Spec == Init /\ [][Next]_vars

-----------------------------------------------------------------------------
(* Properties.                                                             *)

Pcs == {"idle", "begin", "asleep", "op", "buf", "write_log", "write_head",
        "install", "clear", "finish"}

DiskTypeOK ==
  dhead \in Seq(Blocks) /\ dlog \in [1..LOGSIZE -> Val] /\ home \in [Blocks -> Val]

MemTypeOK ==
  /\ cache \in [Blocks -> Val \cup {NoVal}] /\ pins \in [Blocks -> Nat]
  /\ lh \in Seq(Blocks) /\ outstanding \in Nat /\ committing \in {0, 1}
  /\ tail \in Nat /\ mode \in {"boot", "install", "clear", "up"}

ProcTypeOK ==
  /\ pc \in [Procs -> Pcs] /\ buf \in [Procs -> Blocks \cup {NoBlock}]
  /\ wrote \in [Procs -> SUBSET Blocks]

\* The variables have the types of struct log, struct buf and the disk layout.
TypeOK == DiskTypeOK /\ MemTypeOK /\ ProcTypeOK

\* The home blocks that initlog() makes of a header h, log blocks d and home
\* blocks m: install_trans(1) copies every block that the header names.
Install(h, d, m) ==
  [b \in Blocks |-> IF b \in Range(h) THEN d[CHOOSE i \in DOMAIN h : h[i] = b] ELSE m[b]]

Recovered == Install(dhead, dlog, home)

\* The blocks as a running system call reads them with bread().
Mem == IF mode = "up" THEN [b \in Blocks |-> Bread(b)] ELSE Recovered

Active == {p \in Procs : pc[p] \in {"op", "buf"}}

Abstract == INSTANCE AtomicDisk WITH mem <- Mem, stable <- Recovered, active <- Active

\* log.c implements AtomicDisk: whatever the interleaving of system calls and
\* wherever the crash falls, in commit() or in a recovery, a restart finds the
\* updates of whole system calls only.
CrashAtomic == Abstract!Spec

\* When no call is outstanding and no commit is running, everything the calls
\* wrote is what a restart would find: end_op() of the last call is durable.
QuietIsDurable ==
  mode = "up" /\ outstanding = 0 /\ committing = 0 => Recovered = Mem

\* A buffer that bget() may recycle holds what the disk holds, so the block can
\* be dropped from the cache and read back: log_write() pins every other one.
CleanUnlessPinned ==
  mode = "up" => \A b \in Blocks : Recyclable(b) => Bread(b) = home[b]

\* log_write() is inside a transaction, and end_op() never meets a commit in
\* progress.  (The third panic of log.c, TooBig, can be reached: the header takes
\* one of the NLog blocks, and calls that use all they reserve need it.)
NoPanic ==
  /\ \A p \in Procs : pc[p] = "buf" => outstanding >= 1
  /\ \A p \in Procs : pc[p] = "op" => committing = 0

\* A call sleeps in begin_op() only while it has to wait, and somebody is left to
\* wake it: every end_op() gives the wakeup that its effect calls for.
SleeperHasReason ==
  \A p \in Procs : pc[p] = "asleep" => MustWait /\ (committing = 1 \/ outstanding > 0)

\* What the running calls may still add to the log fits into it, whatever they have
\* logged or shared so far: begin_op() sets MAXOPBLOCKS blocks aside for each.
Reserved ==
  Len(lh) + MAXOPBLOCKS * Cardinality(Active)
    <= LOGSIZE + Cardinality({w \in Active \X Blocks : w[2] \in wrote[w[1]]})

\* The space of the log is accounted for: the reservations fit LOGSIZE blocks, the
\* calls and the commit keep out of each other's way, and begin_op() keeps nobody
\* asleep without a reason.
SpaceAccounted == (mode = "up" => Reserved) /\ NoPanic /\ SleeperHasReason
=============================================================================
