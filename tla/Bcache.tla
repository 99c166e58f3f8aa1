------------------------------- MODULE Bcache -------------------------------
(***************************************************************************)
(* The buffer cache of kernel/bio.c and the sleep locks of its buffers     *)
(* (kernel/sleeplock.c).                                                   *)
(*                                                                         *)
(* bcache.lock and the spinlock inside a sleep lock are held for one step  *)
(* each; what is not covered by them is cut into steps: between bget()'s   *)
(* reference and its acquiresleep(), and between brelse()'s releasesleep() *)
(* and its last reference.  The disk driver is its two ends, the request   *)
(* and its completion (module VirtioDisk).                                 *)
(*                                                                         *)
(* The callers are the ones of log.c and fs.c: a process holds one buffer, *)
(* or an outer and an inner one (bmap() holds the indirect block while     *)
(* balloc() reads the bitmap), and what it changes it either hands to the  *)
(* log, which pins it, or writes to the disk itself.                       *)
(***************************************************************************)
EXTENDS Integers, Sequences, FiniteSets

CONSTANTS NBUF, Procs, Blocks, Val, Zero,
          NoProc, NoBlock,
          Nested,   \* pairs of blocks held together: <<outer, inner>>
          MaxPins   \* bound: blocks in the log

ASSUME BcacheAssumption ==
  /\ NBUF \in Nat \ {0} /\ MaxPins \in Nat
  /\ Zero \in Val /\ NoProc \notin Procs /\ NoBlock \notin Blocks
  /\ IsFiniteSet(Procs)
  /\ Nested \subseteq {x \in Blocks \X Blocks : x[1] # x[2]}

\* An inner block is not held while another one is asked for: balloc() and bfree()
\* give the bitmap block back first.
ASSUME NestingAssumption == \A x, y \in Nested : x[2] # y[1]

Bufs == 1..NBUF

VARIABLES
  blockno, valid, refcnt, data,  \* struct buf
  lru,     \* the list, from bcache.head.next to bcache.head.prev
  lk,      \* b->lock: the process that holds it, or NoProc
  disk,
  pinned,  \* the buffers the log has called bpin() on
  pc,
  held     \* the buffers a process has a reference to, the last one in use

bufVars == <<blockno, valid, refcnt, data, lru>>
vars == <<bufVars, lk, disk, pinned, pc, held>>

\* binit(): each buffer is put at the front of the list.
Init ==
  /\ blockno = [b \in Bufs |-> NoBlock]
  /\ valid = [b \in Bufs |-> 0]
  /\ refcnt = [b \in Bufs |-> 0]
  /\ data = [b \in Bufs |-> Zero]
  /\ lru = [i \in Bufs |-> NBUF + 1 - i]
  /\ lk = [b \in Bufs |-> NoProc]
  /\ disk = [k \in Blocks |-> Zero]
  /\ pinned = {}
  /\ pc = [p \in Procs |-> "idle"]
  /\ held = [p \in Procs |-> << >>]

\* The buffer the process is working on.
Buf(p) == held[p][Len(held[p])]

\* A process asks for a block when it holds none, or for an inner one.
MayAsk(p, k) ==
  \/ pc[p] = "idle"
  \/ pc[p] = "ready" /\ Len(held[p]) = 1 /\ <<blockno[Buf(p)], k>> \in Nested

-----------------------------------------------------------------------------
(* bget().                                                                 *)

Cached_Referenced(k) == \E b \in Bufs : blockno[b] = k /\ refcnt[b] > 0
\* The first scan finds the block.
Cached(k) == \E b \in Bufs : blockno[b] = k

Free_Unlocked == {i \in Bufs : lk[lru[i]] = NoProc}
\* The places of the list whose buffer the second scan may recycle.
Free == {i \in Bufs : refcnt[lru[i]] = 0}

\* The process goes on to acquiresleep(&b->lock).
Reference(p, b) ==
  /\ held' = [held EXCEPT ![p] = Append(@, b)]
  /\ pc' = [pc EXCEPT ![p] = "lock"]

BgetHit(p, k) ==
  /\ MayAsk(p, k)
  /\ \E b \in Bufs :
       /\ blockno[b] = k
       /\ refcnt' = [refcnt EXCEPT ![b] = @ + 1]
       /\ Reference(p, b)
  /\ UNCHANGED <<blockno, valid, data, lru, lk, disk, pinned>>

\* Recycle the least recently used buffer nobody refers to.
BgetRecycle(p, k) ==
  /\ MayAsk(p, k)
  /\ ~Cached(k)
  /\ \E i \in Free :
       /\ \A j \in Free : j <= i
       /\ blockno' = [blockno EXCEPT ![lru[i]] = k]
       /\ valid' = [valid EXCEPT ![lru[i]] = 0]
       /\ refcnt' = [refcnt EXCEPT ![lru[i]] = 1]
       /\ Reference(p, lru[i])
  /\ UNCHANGED <<data, lru, lk, disk, pinned>>

\* panic("bget: no buffers").
BgetPanic(p, k) ==
  /\ MayAsk(p, k)
  /\ ~Cached(k)
  /\ Free = {}
  /\ pc' = [pc EXCEPT ![p] = "panic"]
  /\ UNCHANGED <<bufVars, lk, disk, pinned, held>>

-----------------------------------------------------------------------------
(* acquiresleep(), the rest of bread(), bwrite().                          *)

SleepOnLock(p) ==
  /\ pc[p] = "lock"
  /\ lk[Buf(p)] # NoProc
  /\ pc' = [pc EXCEPT ![p] = "asleep"]
  /\ UNCHANGED <<bufVars, lk, disk, pinned, held>>

TakeLock(p) ==
  /\ pc[p] = "lock"
  /\ lk[Buf(p)] = NoProc
  /\ lk' = [lk EXCEPT ![Buf(p)] = p]
  /\ pc' = [pc EXCEPT ![p] = IF valid[Buf(p)] = 1 THEN "ready" ELSE "reading"]
  /\ UNCHANGED <<bufVars, disk, pinned, held>>

ReadDone(p) ==
  /\ pc[p] = "reading"
  /\ data' = [data EXCEPT ![Buf(p)] = disk[blockno[Buf(p)]]]
  /\ valid' = [valid EXCEPT ![Buf(p)] = 1]
  /\ pc' = [pc EXCEPT ![p] = "ready"]
  /\ UNCHANGED <<blockno, refcnt, lru, lk, disk, pinned, held>>

\* The caller fills a buffer that is not in the log (write_log(), write_head())
\* and writes it, or writes a block of the log to its home (install_trans()).
Bwrite(p, v) ==
  /\ pc[p] = "ready"
  /\ data' = IF Buf(p) \in pinned THEN data ELSE [data EXCEPT ![Buf(p)] = v]
  /\ pc' = [pc EXCEPT ![p] = "writing"]
  /\ UNCHANGED <<blockno, valid, refcnt, lru, lk, disk, pinned, held>>

WriteDone(p) ==
  /\ pc[p] = "writing"
  /\ disk' = [disk EXCEPT ![blockno[Buf(p)]] = data[Buf(p)]]
  /\ pc' = [pc EXCEPT ![p] = IF Buf(p) \in pinned THEN "unpin" ELSE "done"]
  /\ UNCHANGED <<bufVars, lk, pinned, held>>

-----------------------------------------------------------------------------
(* bpin() and bunpin(), as log.c calls them.                               *)

\* The caller changes the buffer and passes it to log_write(), which pins it
\* when the block is new to the transaction.
LogWrite(p, v) ==
  /\ pc[p] = "ready"
  /\ Buf(p) \in pinned \/ Cardinality(pinned) < MaxPins
  /\ data' = [data EXCEPT ![Buf(p)] = v]
  /\ pinned' = pinned \cup {Buf(p)}
  /\ refcnt' = IF Buf(p) \in pinned THEN refcnt ELSE [refcnt EXCEPT ![Buf(p)] = @ + 1]
  /\ pc' = [pc EXCEPT ![p] = "done"]
  /\ UNCHANGED <<blockno, valid, lru, lk, disk, held>>

Bunpin(p) ==
  /\ pc[p] = "unpin"
  /\ refcnt' = [refcnt EXCEPT ![Buf(p)] = @ - 1]
  /\ pinned' = pinned \ {Buf(p)}
  /\ pc' = [pc EXCEPT ![p] = "done"]
  /\ UNCHANGED <<blockno, valid, data, lru, lk, disk, held>>

-----------------------------------------------------------------------------
(* brelse().                                                               *)

Woken_Nobody(b) == pc
\* wakeup(lk): all the sleepers try again.
Woken(b) ==
  [q \in Procs |-> IF pc[q] = "asleep" /\ Buf(q) = b THEN "lock" ELSE pc[q]]

ReleaseSleep(p) ==
  /\ pc[p] \in {"ready", "done"}
  /\ lk' = [lk EXCEPT ![Buf(p)] = NoProc]
  /\ pc' = [Woken(Buf(p)) EXCEPT ![p] = "unref"]
  /\ UNCHANGED <<bufVars, disk, pinned, held>>

Unreference_Missing(b) == refcnt
Unreference(b) == [refcnt EXCEPT ![b] = @ - 1]

\* The buffers that were before b move back by one place.
MoveToFront(b) ==
  LET at == CHOOSE i \in Bufs : lru[i] = b
  IN [i \in Bufs |-> IF i = 1 THEN b ELSE IF i <= at THEN lru[i - 1] ELSE lru[i]]

\* The last reference moves the buffer to the front of the list.
Unref(p) ==
  /\ pc[p] = "unref"
  /\ refcnt' = Unreference(Buf(p))
  /\ lru' = IF refcnt'[Buf(p)] = 0 THEN MoveToFront(Buf(p)) ELSE lru
  /\ held' = [held EXCEPT ![p] = SubSeq(@, 1, Len(@) - 1)]
  /\ pc' = [pc EXCEPT ![p] = IF Len(held[p]) = 1 THEN "idle" ELSE "ready"]
  /\ UNCHANGED <<blockno, valid, data, lk, disk, pinned>>

\* for(;;) at the end of panic().
Panicked(p) == pc[p] = "panic" /\ UNCHANGED vars

-----------------------------------------------------------------------------
Ask(p) == \E k \in Blocks : BgetHit(p, k) \/ BgetRecycle(p, k) \/ BgetPanic(p, k)

Use(p) == (\E v \in Val : Bwrite(p, v) \/ LogWrite(p, v)) \/ ReleaseSleep(p)

Go(p) == SleepOnLock(p) \/ ReadDone(p) \/ WriteDone(p) \/ Bunpin(p) \/ Unref(p)

Next == \E p \in Procs : Ask(p) \/ TakeLock(p) \/ Use(p) \/ Go(p) \/ Panicked(p)

Spec == Init /\ [][Next]_vars

-----------------------------------------------------------------------------
(* Properties.                                                             *)

\* The fields of struct buf have their types, a reference count fits the users
\* there can be, and the list holds every buffer once.
TypeOK ==
  /\ blockno \in [Bufs -> Blocks \cup {NoBlock}] /\ valid \in [Bufs -> {0, 1}]
  /\ refcnt \in [Bufs -> 0..Cardinality(Procs) + 1] /\ data \in [Bufs -> Val]
  /\ lru \in [Bufs -> Bufs] /\ \A i, j \in Bufs : lru[i] = lru[j] => i = j
  /\ lk \in [Bufs -> Procs \cup {NoProc}] /\ disk \in [Blocks -> Val]
  /\ pinned \subseteq Bufs
  /\ pc \in [Procs -> {"idle", "lock", "asleep", "reading", "ready", "writing",
                       "unpin", "done", "unref", "panic"}]
  /\ held \in [Procs -> Seq(Bufs)] /\ \A p \in Procs : Len(held[p]) \in 0..2

\* A block is in one buffer only, however many processes miss it at once.
OneBufferPerBlock ==
  \A b, c \in Bufs : blockno[b] = blockno[c] /\ b # c => blockno[b] = NoBlock

Contains(s, b) == \E i \in 1..Len(s) : s[i] = b

\* The processes that hold the buffer, wait for it or are about to give it up.
Users(b) == {p \in Procs : Contains(held[p], b)}

\* refcnt counts the users of a buffer and the log's pin: bget() recycles nothing
\* somebody still uses, and nothing stays referenced for ever.
RefcntExact ==
  \A b \in Bufs : refcnt[b] = Cardinality(Users(b)) + IF b \in pinned THEN 1 ELSE 0

\* The contents of a block: in its buffer if that is valid, on disk otherwise.
Contents(k) ==
  IF \E b \in Bufs : blockno[b] = k /\ valid[b] = 1
  THEN data[CHOOSE b \in Bufs : blockno[b] = k /\ valid[b] = 1] ELSE disk[k]

HolderOf(k) ==
  IF \E b \in Bufs : blockno[b] = k /\ lk[b] # NoProc
  THEN lk[CHOOSE b \in Bufs : blockno[b] = k /\ lk[b] # NoProc] ELSE NoProc

Store == INSTANCE BlockStore WITH
  contents <- [k \in Blocks |-> Contents(k)],
  holder <- [k \in Blocks |-> HolderOf(k)]

\* The cache is transparent: through recycling, pinning, reading and writing back,
\* each block behaves as one object under one lock whose contents only its holder
\* changes; no update is lost when a buffer is recycled.
IsBlockStore == Store!Spec

\* A process asleep in acquiresleep() waits for a holder that runs, or for one that
\* itself sleeps on an inner block whose holder runs: no sleeper is forgotten and no
\* circle of processes waits for each other.
SleeperHasRunner ==
  LET Holder(p) == lk[Buf(p)]
      Runs(p) == p # NoProc /\ pc[p] # "asleep"
  IN \A p \in Procs :
       pc[p] = "asleep" => Holder(p) # NoProc /\ (Runs(Holder(p)) \/ Runs(Holder(Holder(p))))

\* The cache is a table of its own kind: fields of their types, a list that holds
\* every buffer, and one buffer for a block.
TableSound == TypeOK /\ OneBufferPerBlock
=============================================================================
