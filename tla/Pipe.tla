-------------------------------- MODULE Pipe --------------------------------
(***************************************************************************)
(* One pipe of kernel/pipe.c with the processes that have an end of it     *)
(* open.  pi->lock is held from one acquire() to the next release() or     *)
(* sleep(), over many steps: the bytes of one call are copied one at a     *)
(* time and kill() may strike in between.  sleep() gives the lock up and   *)
(* parks the process in one step (module Proc).                            *)
(*                                                                         *)
(* nread and nwrite are unsigned counters that wrap at WORD, which stands  *)
(* for 2^32.                                                               *)
(***************************************************************************)
EXTENDS Integers, Sequences, FiniteSets

CONSTANTS Readers, Writers,  \* processes with the read or the write end open
          PIPESIZE, WORD,
          Byte,
          MaxN,              \* bound: bytes asked for in one call
          Faulty,            \* processes that pass addresses copyin() and copyout() reject
          Killable,          \* processes that kill() is called on
          NoProc             \* the holder of a free lock

ASSUME PipeAssumption ==
  /\ PIPESIZE \in Nat \ {0} /\ WORD \in Nat \ {0} /\ MaxN \in Nat
  /\ WORD % PIPESIZE = 0 /\ PIPESIZE < WORD
  /\ Readers \cap Writers = {} /\ NoProc \notin Readers \cup Writers

Procs == Readers \cup Writers

VARIABLES
  data, nread, nwrite, readopen, writeopen,  \* struct pipe
  lock,    \* pi->lock: its holder, or NoProc
  freed,   \* kfree(pi) calls
  open,    \* the processes that still have their descriptor
  killed,
  pc, n, i \* the piperead() or pipewrite() call of each process

ringVars == <<data, nread, nwrite>>
endVars == <<readopen, writeopen, freed, open>>
callVars == <<pc, n, i>>
vars == <<ringVars, endVars, lock, killed, callVars>>

\* pipealloc().
Init ==
  /\ data \in [0..PIPESIZE-1 -> Byte]
  /\ nread = 0 /\ nwrite = 0
  /\ readopen = 1 /\ writeopen = 1
  /\ lock = NoProc
  /\ freed = 0
  /\ open = Procs
  /\ killed = {}
  /\ pc = [p \in Procs |-> "idle"]
  /\ n = [p \in Procs |-> 0]
  /\ i = [p \in Procs |-> 0]

Empty == nread = nwrite

Inc_NoWrap(u) == u + 1
\* u++ on an unsigned counter.
Inc(u) == (u + 1) % WORD

Full_NoWrap == nwrite = nread + PIPESIZE
\* Unsigned arithmetic: the sum wraps.
Full == nwrite = (nread + PIPESIZE) % WORD

\* wakeup(&pi->nread) and wakeup(&pi->nwrite): the sleepers go for the lock.
WakeReaders == [p \in Procs |-> IF pc[p] = "r_asleep" THEN "r_lock" ELSE pc[p]]
WakeWriters == [p \in Procs |-> IF pc[p] = "w_asleep" THEN "w_lock" ELSE pc[p]]

\* The call of p ends with the given processes woken.
Finish(p, woken) ==
  /\ lock' = NoProc
  /\ pc' = [woken EXCEPT ![p] = "idle"]
  /\ n' = [n EXCEPT ![p] = 0]
  /\ i' = [i EXCEPT ![p] = 0]

-----------------------------------------------------------------------------
\* read() or write() of k bytes by a process that still has its end open.
Call(p, k) ==
  /\ p \in open \ killed
  /\ pc[p] = "idle"
  /\ n' = [n EXCEPT ![p] = k]
  /\ pc' = [pc EXCEPT ![p] = IF p \in Readers THEN "r_lock" ELSE "w_lock"]
  /\ UNCHANGED <<ringVars, endVars, lock, killed, i>>

\* acquire(&pi->lock), on entry and at the end of sleep().
Acquire(p) ==
  /\ pc[p] \in {"r_lock", "w_lock"}
  /\ lock = NoProc
  /\ lock' = p
  /\ pc' = [pc EXCEPT ![p] = IF @ = "r_lock" THEN "r_wait" ELSE "w_loop"]
  /\ UNCHANGED <<ringVars, endVars, killed, n, i>>

-----------------------------------------------------------------------------
(* pipewrite().                                                            *)

MoreToWrite(p) == pc[p] = "w_loop" /\ i[p] < n[p]

\* Nobody can read any more, or the writer was killed.
WriteFail(p) ==
  /\ MoreToWrite(p)
  /\ readopen = 0 \/ p \in killed
  /\ Finish(p, pc)
  /\ UNCHANGED <<ringVars, endVars, killed>>

WriteSleep(p) ==
  /\ MoreToWrite(p)
  /\ readopen = 1 /\ p \notin killed
  /\ Full
  /\ lock' = NoProc
  /\ pc' = [WakeReaders EXCEPT ![p] = "w_asleep"]
  /\ UNCHANGED <<ringVars, endVars, killed, n, i>>

WriteByte(p, v) ==
  /\ MoreToWrite(p)
  /\ readopen = 1 /\ p \notin killed
  /\ ~Full
  /\ data' = [data EXCEPT ![nwrite % PIPESIZE] = v]
  /\ nwrite' = Inc(nwrite)
  /\ i' = [i EXCEPT ![p] = @ + 1]
  /\ UNCHANGED <<nread, endVars, lock, killed, pc, n>>

\* All bytes are written, or copyin() fails: return i.
WriteDone(p) ==
  /\ pc[p] = "w_loop"
  /\ i[p] = n[p] \/ (p \in Faulty /\ readopen = 1 /\ p \notin killed /\ ~Full)
  /\ Finish(p, WakeReaders)
  /\ UNCHANGED <<ringVars, endVars, killed>>

-----------------------------------------------------------------------------
(* piperead().                                                             *)

ReadKilled(p) ==
  /\ pc[p] = "r_wait"
  /\ Empty /\ writeopen = 1
  /\ p \in killed
  /\ Finish(p, pc)
  /\ UNCHANGED <<ringVars, endVars, killed>>

ReadSleep(p) ==
  /\ pc[p] = "r_wait"
  /\ Empty /\ writeopen = 1
  /\ p \notin killed
  /\ lock' = NoProc
  /\ pc' = [pc EXCEPT ![p] = "r_asleep"]
  /\ UNCHANGED <<ringVars, endVars, killed, n, i>>

ReadReady(p) == pc[p] = "r_wait" /\ ~(Empty /\ writeopen = 1)

ReadStart(p) ==
  /\ ReadReady(p)
  /\ pc' = [pc EXCEPT ![p] = "r_loop"]
  /\ UNCHANGED <<ringVars, endVars, lock, killed, n, i>>

ReadByte(p) ==
  /\ pc[p] = "r_loop"
  /\ i[p] < n[p] /\ ~Empty
  /\ nread' = Inc(nread)
  /\ i' = [i EXCEPT ![p] = @ + 1]
  /\ UNCHANGED <<data, nwrite, endVars, lock, killed, pc, n>>

\* copyout() fails: the byte is gone from the pipe all the same.
ReadFault(p) ==
  /\ p \in Faulty
  /\ pc[p] = "r_loop"
  /\ i[p] < n[p] /\ ~Empty
  /\ nread' = Inc(nread)
  /\ Finish(p, WakeWriters)
  /\ UNCHANGED <<data, nwrite, endVars, killed>>

ReadDone_NoWakeup(p) ==
  /\ pc[p] = "r_loop"
  /\ i[p] = n[p] \/ Empty
  /\ Finish(p, pc)
  /\ UNCHANGED <<ringVars, endVars, killed>>
ReadDone(p) ==
  /\ pc[p] = "r_loop"
  /\ i[p] = n[p] \/ Empty
  /\ Finish(p, WakeWriters)
  /\ UNCHANGED <<ringVars, endVars, killed>>

-----------------------------------------------------------------------------
BothClosed_OneEnd(r, w) == r = 0 \/ w = 0
\* pipeclose() frees the page.
BothClosed(r, w) == r = 0 /\ w = 0

\* The descriptor of p is the last one of that end.
LastIn(end, p) == end \cap open = {p}

\* fileclose() of the descriptor of p; the last one of an end calls pipeclose(),
\* and the last pipeclose() frees the page.
Close(p) ==
  /\ p \in open
  /\ pc[p] = "idle"
  /\ lock = NoProc
  /\ open' = open \ {p}
  /\ readopen' = IF LastIn(Readers, p) THEN 0 ELSE readopen
  /\ writeopen' = IF LastIn(Writers, p) THEN 0 ELSE writeopen
  /\ pc' = IF LastIn(Writers, p) THEN WakeReaders
           ELSE IF LastIn(Readers, p) THEN WakeWriters ELSE pc
  /\ freed' = IF BothClosed(readopen', writeopen') THEN freed + 1 ELSE freed
  /\ UNCHANGED <<ringVars, lock, killed, n, i>>

Kill(p) ==
  /\ p \in Killable \ killed
  /\ killed' = killed \cup {p}
  /\ pc' = [pc EXCEPT ![p] = CASE @ = "r_asleep" -> "r_lock"
                               [] @ = "w_asleep" -> "w_lock"
                               [] OTHER -> @]
  /\ UNCHANGED <<ringVars, endVars, lock, n, i>>

-----------------------------------------------------------------------------
Write(p) ==
  \/ WriteFail(p) \/ WriteSleep(p) \/ (\E v \in Byte : WriteByte(p, v)) \/ WriteDone(p)

Read(p) ==
  \/ ReadKilled(p) \/ ReadSleep(p) \/ ReadStart(p) \/ ReadByte(p) \/ ReadFault(p)
  \/ ReadDone(p)

Ask(p) == Close(p) \/ \E k \in 1..MaxN : Call(p, k)

\* Nothing is left to do once every end is closed.
Next == \E p \in Procs : Ask(p) \/ Acquire(p) \/ Write(p) \/ Read(p) \/ Kill(p)

Spec == Init /\ [][Next]_vars

\* A process inside piperead() or pipewrite() gets on, and obtains pi->lock when
\* it is free again and again; a process that has the pipe open uses it again or
\* closes it, and a writer does not pass a bad address for ever.
Fairness ==
  /\ \A p \in Procs : SF_vars(Acquire(p)) /\ WF_vars(Ask(p) \/ Write(p) \/ Read(p))
  /\ \A p \in Writers : SF_vars(\E v \in Byte : WriteByte(p, v))

FairSpec == Spec /\ Fairness

-----------------------------------------------------------------------------
(* Properties.                                                             *)

\* The variables have the types of struct pipe.
TypeOK ==
  /\ data \in [0..PIPESIZE-1 -> Byte] /\ nread \in 0..WORD-1 /\ nwrite \in 0..WORD-1
  /\ readopen \in {0, 1} /\ writeopen \in {0, 1} /\ freed \in 0..1
  /\ lock \in Procs \cup {NoProc} /\ open \subseteq Procs /\ killed \subseteq Procs
  /\ pc \in [Procs -> {"idle", "r_lock", "r_wait", "r_loop", "r_asleep",
                       "w_lock", "w_loop", "w_asleep"}]
  /\ n \in [Procs -> 0..MaxN] /\ i \in [Procs -> 0..MaxN]

Count == (nwrite - nread) % WORD

\* The bytes between nread and nwrite, oldest first.
Contents == [k \in 1..Count |-> data[((nread + k - 1) % WORD) % PIPESIZE]]

Queue == INSTANCE ByteQueue WITH queue <- Contents, Capacity <- PIPESIZE

\* A pipe is a bounded first-in first-out queue, also when the counters wrap and
\* whatever calls, closes, faults and kills interleave.
IsByteQueue == Queue!Spec

\* Nobody sleeps on a condition that already holds: whenever pi->lock is free, a
\* sleeping reader has nothing to read and a writer to wait for, and a sleeping
\* writer has a full pipe and a reader to wait for.  A writer killed between two
\* bytes is the exception: it returns without a wakeup, and the readers sleep on
\* what it wrote until the next call or the last close of a writer.
NoMissedWakeup ==
  lock = NoProc =>
    \A p \in Procs :
      /\ pc[p] = "r_asleep" => (Empty \/ Writers \cap killed # {}) /\ writeopen = 1
      /\ pc[p] = "w_asleep" => Full /\ readopen = 1

\* piperead() reports end of file, a read of no bytes, only when the write end is
\* closed.
EndOfFile ==
  \A p \in Procs : pc[p] = "r_loop" /\ i[p] = 0 /\ Empty => writeopen = 0

\* The page of the pipe is freed when both ends are closed and nobody is inside.
FreedUnused == freed = 1 => open = {} /\ \A p \in Procs : pc[p] = "idle"

\* Readers and writers never wait for each other for good: as long as they go on
\* reading and writing, or close the pipe, the processes that have one end open
\* are not all stuck in their calls.  (Of two readers one may starve.)
CallReturns ==
  \A end \in {Readers, Writers} :
    (\A p \in end \cap open : pc[p] # "idle") ~> (\E p \in end : pc[p] = "idle")

\* The two ends: their state has its type, the page outlives the last use of either,
\* and a reader is told of the end of the file only when there is no writer.
EndsSound == TypeOK /\ FreedUnused /\ EndOfFile
=============================================================================
