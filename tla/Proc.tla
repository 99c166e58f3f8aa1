-------------------------------- MODULE Proc --------------------------------
(***************************************************************************)
(* The process table and the scheduler of kernel/proc.c on several CPUs.   *)
(*                                                                         *)
(* A CPU runs either its scheduler() thread or the kernel thread of one    *)
(* process (run); swtch() moves it between the two.  A step is the code    *)
(* from one acquire() to the next: a critical section that takes and       *)
(* releases a lock with no other lock operation in between is one step,    *)
(* and every place where two locks are held at once is cut into one step   *)
(* per lock operation.  Interrupts are off while a spinlock is held, so a  *)
(* timer interrupt can only take a CPU away from a process between steps   *)
(* at which it holds none.                                                 *)
(*                                                                         *)
(* User programs are free: a process in user mode makes any of the system  *)
(* calls below, as often as it likes.                                      *)
(***************************************************************************)
EXTENDS Integers, FiniteSets

CONSTANTS NPROC,     \* slots of the process table
          Cpus,
          NoCpu,     \* the holder of a free lock
          PreemptAt, \* where a timer interrupt may take the CPU away
          KillPids,  \* arguments of kill()
          MaxPid     \* bound: no fork() once nextpid passes it

ASSUME ProcAssumption ==
  /\ NPROC \in Nat \ {0} /\ NoCpu \notin Cpus
  /\ KillPids \subseteq Nat /\ MaxPid \in Nat
  /\ PreemptAt \subseteq {"user", "allocproc", "fork_parent", "fork_run", "exit", "wait", "kill"}

Slots == 1..NPROC
NoProc == 0
\* userinit() takes the first slot.
initproc == 1

VARIABLES
  \* protected by p->lock
  state, chan, killed, pid,
  parent,     \* protected by wait_lock
  plock,      \* p->lock: the CPU that holds it, or NoCpu
  wait_lock,  \* the CPU that holds it, or NoCpu
  cur,        \* c->proc
  run,        \* the process whose kernel stack the CPU is on, NoProc: scheduler()
  pc,         \* where the kernel thread of a process is
  idx,        \* its loop index over the table; in fork(), the slot of the child
  widx,       \* the loop index of wakeup()
  arg,        \* kill(): the pid; wait(): havekids
  resume,     \* where yield() returns to
  nextpid

slotVars == <<state, chan, killed, pid>>
lockVars == <<plock, wait_lock>>
cpuVars == <<cur, run>>
locals == <<idx, widx, arg, resume>>
vars == <<slotVars, parent, lockVars, cpuVars, pc, locals, nextpid>>

\* procinit() and userinit(); every CPU has entered scheduler().
Init ==
  /\ state = [p \in Slots |-> IF p = initproc THEN "RUNNABLE" ELSE "UNUSED"]
  /\ chan = [p \in Slots |-> NoProc]
  /\ killed = [p \in Slots |-> 0]
  /\ pid = [p \in Slots |-> IF p = initproc THEN 1 ELSE 0]
  /\ parent = [p \in Slots |-> NoProc]
  /\ plock = [p \in Slots |-> NoCpu]
  /\ wait_lock = NoCpu
  /\ cur = [c \in Cpus |-> NoProc]
  /\ run = [c \in Cpus |-> NoProc]
  /\ pc = [p \in Slots |-> "forkret"]
  /\ idx = [p \in Slots |-> 1]
  /\ widx = [p \in Slots |-> 1]
  /\ arg = [p \in Slots |-> 0]
  /\ resume = [p \in Slots |-> "user"]
  /\ nextpid = 2

\* CPU c is executing the kernel thread of a process at l.
At(c, l) == run[c] # NoProc /\ pc[run[c]] = l

Goto(p, l) == pc' = [pc EXCEPT ![p] = l]

\* Back to user mode: the locals of the kernel thread are gone.
Return(p) ==
  /\ Goto(p, "user")
  /\ idx' = [idx EXCEPT ![p] = 1]
  /\ widx' = [widx EXCEPT ![p] = 1]
  /\ arg' = [arg EXCEPT ![p] = 0]
  /\ UNCHANGED resume

\* The end of a loop over the process table.
LastSlot(i) == i = NPROC

-----------------------------------------------------------------------------
(* scheduler(), sched() and yield().                                       *)

\* scheduler() finds p RUNNABLE.  The order of its scan is left open.
Dispatch(c, p) ==
  /\ run[c] = NoProc /\ cur[c] = NoProc
  /\ plock[p] = NoCpu
  /\ state[p] = "RUNNABLE"
  /\ state' = [state EXCEPT ![p] = "RUNNING"]
  /\ plock' = [plock EXCEPT ![p] = c]
  /\ cur' = [cur EXCEPT ![c] = p]
  /\ run' = [run EXCEPT ![c] = p]
  /\ UNCHANGED <<chan, killed, pid, parent, wait_lock, pc, locals, nextpid>>

\* The swtch() of sched(), by a process in yield(), sleep() or exit().
Sched(c) ==
  /\ \E l \in {"yield", "sleeping", "exiting"} :
        At(c, l) /\ Goto(run[c], CASE l = "yield" -> "forkret"
                                   [] l = "sleeping" -> "woken"
                                   [] l = "exiting" -> "dead")
  /\ run' = [run EXCEPT ![c] = NoProc]
  /\ UNCHANGED <<slotVars, parent, lockVars, cur, locals, nextpid>>

\* scheduler() after its swtch() returns.
SchedulerBack(c) ==
  /\ run[c] = NoProc /\ cur[c] # NoProc
  /\ cur' = [cur EXCEPT ![c] = NoProc]
  /\ plock' = [plock EXCEPT ![cur[c]] = NoCpu]
  /\ UNCHANGED <<slotVars, parent, wait_lock, run, pc, locals, nextpid>>

\* yield() up to sched(), from a timer interrupt in usertrap() or kerneltrap(),
\* at a point where the process holds no spinlock.
Yield(c) ==
  LET p == run[c] IN
  /\ \E l \in PreemptAt : At(c, l)
  /\ plock[p] = NoCpu
  /\ resume' = [resume EXCEPT ![p] = pc[p]]
  /\ plock' = [plock EXCEPT ![p] = c]
  /\ state' = [state EXCEPT ![p] = "RUNNABLE"]
  /\ Goto(p, "yield")
  /\ UNCHANGED <<chan, killed, pid, parent, wait_lock, cpuVars, idx, widx, arg, nextpid>>

\* forkret(), and the end of yield(): release(&p->lock).
Forkret(c) ==
  /\ At(c, "forkret")
  /\ plock' = [plock EXCEPT ![run[c]] = NoCpu]
  /\ Goto(run[c], resume[run[c]])
  /\ resume' = [resume EXCEPT ![run[c]] = "user"]
  /\ UNCHANGED <<slotVars, parent, wait_lock, cpuVars, idx, widx, arg, nextpid>>

-----------------------------------------------------------------------------
(* usertrap(): a process that was killed exits, before a system call and    *)
(* again on its way back to user mode.                                      *)

\* killed(p) returns k, which it reads under p->lock.
Killed(p, k) == plock[p] = NoCpu /\ killed[p] = k

Syscall(c, l) ==
  LET p == run[c] IN
  /\ At(c, "user")
  /\ Killed(p, 0)
  /\ Goto(p, l)
  /\ UNCHANGED <<slotVars, parent, lockVars, cpuVars, nextpid>>

\* sys_exit(), or exit() by usertrap() for a killed process.  exit() of init is a
\* panic.
CallExit(c) ==
  LET p == run[c] IN
  /\ At(c, "user")
  /\ \E k \in {0, 1} : Killed(p, k)
  /\ p # initproc
  /\ Goto(p, "exit")
  /\ UNCHANGED <<slotVars, parent, lockVars, cpuVars, locals, nextpid>>

\* An exception in user mode: setkilled(), and then exit().
Setkilled(c) ==
  LET p == run[c] IN
  /\ At(c, "user")
  /\ plock[p] = NoCpu
  /\ p # initproc
  /\ killed' = [killed EXCEPT ![p] = 1]
  /\ Goto(p, "exit")
  /\ UNCHANGED <<state, chan, pid, parent, lockVars, cpuVars, locals, nextpid>>

-----------------------------------------------------------------------------
(* fork().                                                                 *)

\* Every field of the slot as freeproc() leaves it.
FreeProc(q) ==
  /\ state' = [state EXCEPT ![q] = "UNUSED"]
  /\ pid' = [pid EXCEPT ![q] = 0]
  /\ parent' = [parent EXCEPT ![q] = NoProc]
  /\ chan' = [chan EXCEPT ![q] = NoProc]
  /\ killed' = [killed EXCEPT ![q] = 0]

CallFork(c) ==
  /\ nextpid <= MaxPid
  /\ Syscall(c, "allocproc")
  /\ UNCHANGED locals

\* One iteration of allocproc() over a slot in use.
AllocNext(c) ==
  LET p == run[c]  q == idx[p] IN
  /\ At(c, "allocproc")
  /\ plock[q] = NoCpu
  /\ state[q] # "UNUSED"
  /\ IF LastSlot(q)
     THEN Return(p)
     ELSE idx' = [idx EXCEPT ![p] = q + 1] /\ UNCHANGED <<pc, widx, arg, resume>>
  /\ UNCHANGED <<slotVars, parent, lockVars, cpuVars, nextpid>>

\* allocproc() takes a free slot and returns with its lock held.
AllocProc(c) ==
  LET p == run[c]  q == idx[p] IN
  /\ At(c, "allocproc")
  /\ plock[q] = NoCpu
  /\ state[q] = "UNUSED"
  /\ plock' = [plock EXCEPT ![q] = c]
  /\ state' = [state EXCEPT ![q] = "USED"]
  /\ pid' = [pid EXCEPT ![q] = nextpid]
  /\ nextpid' = nextpid + 1
  /\ pc' = [pc EXCEPT ![p] = "fork", ![q] = "forkret"]
  /\ UNCHANGED <<chan, killed, parent, wait_lock, cpuVars, locals>>

\* kalloc() or uvmcopy() fails: the slot is given back.
ForkFail(c) ==
  LET p == run[c]  q == idx[p] IN
  /\ At(c, "fork")
  /\ FreeProc(q)
  /\ plock' = [plock EXCEPT ![q] = NoCpu]
  /\ Return(p)
  /\ UNCHANGED <<wait_lock, cpuVars, nextpid>>

ForkCopy_KeepsLock(c) ==
  /\ At(c, "fork")
  /\ Goto(run[c], "fork_parent")
  /\ UNCHANGED <<slotVars, parent, lockVars, cpuVars, locals, nextpid>>
\* The child is filled in; release(&np->lock).
ForkCopy(c) ==
  LET p == run[c]  q == idx[p] IN
  /\ At(c, "fork")
  /\ plock' = [plock EXCEPT ![q] = NoCpu]
  /\ Goto(p, "fork_parent")
  /\ UNCHANGED <<slotVars, parent, wait_lock, cpuVars, locals, nextpid>>

ForkParent(c) ==
  LET p == run[c]  q == idx[p] IN
  /\ At(c, "fork_parent")
  /\ wait_lock = NoCpu
  /\ parent' = [parent EXCEPT ![q] = p]
  /\ Goto(p, "fork_run")
  /\ UNCHANGED <<slotVars, lockVars, cpuVars, locals, nextpid>>

ForkRunnable(c) ==
  LET p == run[c]  q == idx[p] IN
  /\ At(c, "fork_run")
  /\ plock[q] = NoCpu
  /\ state' = [state EXCEPT ![q] = "RUNNABLE"]
  /\ Return(p)
  /\ UNCHANGED <<chan, killed, pid, parent, lockVars, cpuVars, nextpid>>

-----------------------------------------------------------------------------
(* wakeup(), exit() and kill().                                            *)

\* One iteration of wakeup(ch), called at l and left for next.
Wakeup(c, ch, l, next) ==
  LET p == run[c]  w == widx[p] IN
  /\ At(c, l)
  /\ w # p => plock[w] = NoCpu
  /\ state' = IF w # p /\ state[w] = "SLEEPING" /\ chan[w] = ch
              THEN [state EXCEPT ![w] = "RUNNABLE"] ELSE state
  /\ IF LastSlot(w)
     THEN widx' = [widx EXCEPT ![p] = 1] /\ Goto(p, next)
     ELSE widx' = [widx EXCEPT ![p] = w + 1] /\ UNCHANGED pc
  /\ UNCHANGED <<chan, killed, pid, parent, lockVars, cpuVars, idx, arg, resume, nextpid>>

ExitLock(c) ==
  /\ At(c, "exit")
  /\ wait_lock = NoCpu
  /\ wait_lock' = c
  /\ Goto(run[c], "reparent")
  /\ UNCHANGED <<slotVars, parent, plock, cpuVars, locals, nextpid>>

Children(p) == {q \in Slots : parent[q] = p}

Reparent_Skipped(c) ==
  /\ At(c, "reparent")
  /\ Goto(run[c], "wake_parent")
  /\ UNCHANGED <<slotVars, parent, lockVars, cpuVars, locals, nextpid>>
\* reparent() finds the next child and hands it to init, or is done.
Reparent(c) ==
  LET p == run[c] IN
  /\ At(c, "reparent")
  /\ \/ /\ Children(p) = {}
        /\ Goto(p, "wake_parent")
        /\ UNCHANGED parent
     \/ \E q \in Children(p) :
        /\ \A r \in Children(p) : q <= r
        /\ parent' = [parent EXCEPT ![q] = initproc]
        /\ Goto(p, "wake_init")
  /\ UNCHANGED <<slotVars, lockVars, cpuVars, locals, nextpid>>

WakeInit_Skipped(c) ==
  /\ At(c, "wake_init")
  /\ Goto(run[c], "reparent")
  /\ UNCHANGED <<slotVars, parent, lockVars, cpuVars, locals, nextpid>>
\* wakeup(initproc).
WakeInit(c) == Wakeup(c, initproc, "wake_init", "reparent")

\* wakeup(p->parent).
WakeParent(c) == At(c, "wake_parent") /\ Wakeup(c, parent[run[c]], "wake_parent", "exit_lock")

ExitOwnLock_Missing(c) ==
  /\ At(c, "exit_lock")
  /\ Goto(run[c], "zombie")
  /\ UNCHANGED <<slotVars, parent, lockVars, cpuVars, locals, nextpid>>
\* acquire(&p->lock), still under wait_lock.
ExitOwnLock(c) ==
  LET p == run[c] IN
  /\ At(c, "exit_lock")
  /\ plock[p] = NoCpu
  /\ plock' = [plock EXCEPT ![p] = c]
  /\ Goto(p, "zombie")
  /\ UNCHANGED <<slotVars, parent, wait_lock, cpuVars, locals, nextpid>>

\* p->state = ZOMBIE; release(&wait_lock).
ExitZombie(c) ==
  LET p == run[c] IN
  /\ At(c, "zombie")
  /\ state' = [state EXCEPT ![p] = "ZOMBIE"]
  /\ wait_lock' = NoCpu
  /\ Goto(p, "exiting")
  /\ UNCHANGED <<chan, killed, pid, parent, plock, cpuVars, locals, nextpid>>

CallKill(c, k) ==
  /\ Syscall(c, "kill")
  /\ arg' = [arg EXCEPT ![run[c]] = k]
  /\ UNCHANGED <<idx, widx, resume>>

\* One iteration of kill().
KillScan(c) ==
  LET p == run[c]  q == idx[p] IN
  /\ At(c, "kill")
  /\ plock[q] = NoCpu
  /\ IF pid[q] = arg[p]
     THEN /\ killed' = [killed EXCEPT ![q] = 1]
          /\ state' = [state EXCEPT ![q] = IF @ = "SLEEPING" THEN "RUNNABLE" ELSE @]
          /\ Return(p)
     ELSE /\ IF LastSlot(q)
             THEN Return(p)
             ELSE idx' = [idx EXCEPT ![p] = q + 1] /\ UNCHANGED <<pc, widx, arg, resume>>
          /\ UNCHANGED <<killed, state>>
  /\ UNCHANGED <<chan, pid, parent, lockVars, cpuVars, nextpid>>

-----------------------------------------------------------------------------
(* wait() and sleep().                                                     *)

CallWait(c) == Syscall(c, "wait") /\ UNCHANGED locals

\* acquire(&wait_lock), on entry and at the end of sleep(); a scan starts.
WaitLock(c) ==
  LET p == run[c] IN
  /\ At(c, "wait")
  /\ wait_lock = NoCpu
  /\ wait_lock' = c
  /\ idx' = [idx EXCEPT ![p] = 1]
  /\ arg' = [arg EXCEPT ![p] = 0]
  /\ Goto(p, "scan")
  /\ UNCHANGED <<slotVars, parent, plock, cpuVars, widx, resume, nextpid>>

\* The child the scan of wait() comes to next is q.
NextChild(p, q) ==
  /\ q \in Children(p) /\ idx[p] <= q
  /\ \A r \in Children(p) : idx[p] <= r => q <= r

\* The scan passes a child that has not exited.
WaitPass(c) ==
  LET p == run[c] IN
  /\ At(c, "scan")
  /\ \E q \in Slots :
        /\ NextChild(p, q)
        /\ plock[q] = NoCpu
        /\ state[q] # "ZOMBIE"
        /\ idx' = [idx EXCEPT ![p] = q + 1]
  /\ arg' = [arg EXCEPT ![p] = 1]
  /\ UNCHANGED <<slotVars, parent, lockVars, cpuVars, pc, widx, resume, nextpid>>

\* The scan finds a zombie: its status is copied out and its slot freed.
WaitReap(c) ==
  LET p == run[c] IN
  /\ At(c, "scan")
  /\ \E q \in Slots :
        /\ NextChild(p, q)
        /\ plock[q] = NoCpu
        /\ state[q] = "ZOMBIE"
        /\ FreeProc(q)
  /\ wait_lock' = NoCpu
  /\ Return(p)
  /\ UNCHANGED <<plock, cpuVars, nextpid>>

\* The scan finds a zombie, but copyout() of its status fails; init asks for no
\* status.
WaitCopyoutFails(c) ==
  LET p == run[c] IN
  /\ At(c, "scan")
  /\ p # initproc
  /\ \E q \in Slots : NextChild(p, q) /\ plock[q] = NoCpu /\ state[q] = "ZOMBIE"
  /\ wait_lock' = NoCpu
  /\ Return(p)
  /\ UNCHANGED <<slotVars, parent, plock, cpuVars, nextpid>>

\* The scan is past the last child: give up, or go to sleep.
WaitDecide(c) ==
  LET p == run[c] IN
  /\ At(c, "scan")
  /\ \A q \in Children(p) : q < idx[p]
  /\ \/ (arg[p] = 0 \/ Killed(p, 1)) /\ wait_lock' = NoCpu /\ Return(p)
     \/ arg[p] = 1 /\ Killed(p, 0) /\ Goto(p, "sleep") /\ UNCHANGED <<wait_lock, locals>>
  /\ UNCHANGED <<slotVars, parent, plock, cpuVars, nextpid>>

SleepLock_Missing(c) ==
  /\ At(c, "sleep")
  /\ Goto(run[c], "sleep_release")
  /\ UNCHANGED <<slotVars, parent, lockVars, cpuVars, locals, nextpid>>
\* sleep(p, &wait_lock): acquire(&p->lock) first ...
SleepLock(c) ==
  LET p == run[c] IN
  /\ At(c, "sleep")
  /\ plock[p] = NoCpu
  /\ plock' = [plock EXCEPT ![p] = c]
  /\ Goto(p, "sleep_release")
  /\ UNCHANGED <<slotVars, parent, wait_lock, cpuVars, locals, nextpid>>

\* ... then release(lk) ...
SleepRelease(c) ==
  /\ At(c, "sleep_release")
  /\ wait_lock' = NoCpu
  /\ Goto(run[c], "sleep_mark")
  /\ UNCHANGED <<slotVars, parent, plock, cpuVars, locals, nextpid>>

\* ... then p->chan and p->state, and sched().
SleepMark(c) ==
  LET p == run[c] IN
  /\ At(c, "sleep_mark")
  /\ chan' = [chan EXCEPT ![p] = p]
  /\ state' = [state EXCEPT ![p] = "SLEEPING"]
  /\ Goto(p, "sleeping")
  /\ UNCHANGED <<killed, pid, parent, lockVars, cpuVars, locals, nextpid>>

\* sched() has returned: p->chan = 0; release(&p->lock).
Woken(c) ==
  LET p == run[c] IN
  /\ At(c, "woken")
  /\ chan' = [chan EXCEPT ![p] = NoProc]
  /\ plock' = [plock EXCEPT ![p] = NoCpu]
  /\ Goto(p, "wait")
  /\ UNCHANGED <<state, killed, pid, parent, wait_lock, cpuVars, locals, nextpid>>

-----------------------------------------------------------------------------
\* What the user program of the running process asks for.
UserStep(c) ==
  \/ CallFork(c) \/ CallWait(c) \/ CallExit(c) \/ Setkilled(c)
  \/ \E k \in KillPids : CallKill(c, k)

ForkStep(c) ==
  AllocNext(c) \/ AllocProc(c) \/ ForkFail(c) \/ ForkCopy(c) \/ ForkParent(c) \/ ForkRunnable(c)

ExitStep(c) ==
  \/ ExitLock(c) \/ Reparent(c) \/ WakeInit(c) \/ WakeParent(c)
  \/ ExitOwnLock(c) \/ ExitZombie(c)

WaitStep(c) ==
  \/ WaitLock(c) \/ WaitPass(c) \/ WaitReap(c) \/ WaitCopyoutFails(c) \/ WaitDecide(c)
  \/ SleepLock(c) \/ SleepRelease(c) \/ SleepMark(c) \/ Woken(c)

\* A process on its way through the kernel.
ThreadStep(c) == ForkStep(c) \/ ExitStep(c) \/ WaitStep(c) \/ KillScan(c)

\* A CPU on its way between a process and scheduler().
SwitchStep(c) == Sched(c) \/ SchedulerBack(c) \/ Forkret(c)

Next ==
  \E c \in Cpus :
    \/ \E p \in Slots : Dispatch(c, p)
    \/ Yield(c)
    \/ UserStep(c)
    \/ ThreadStep(c)
    \/ SwitchStep(c)

Spec == Init /\ [][Next]_vars

-----------------------------------------------------------------------------
(* Properties.                                                             *)

States == {"UNUSED", "USED", "SLEEPING", "RUNNABLE", "RUNNING", "ZOMBIE"}

Pcs ==
  {"user", "allocproc", "fork_parent", "fork_run", "exit", "wait", "kill", "forkret", "yield",
   "fork", "reparent", "wake_init", "wake_parent", "exit_lock",
   "zombie", "exiting", "dead", "scan", "sleep", "sleep_release", "sleep_mark",
   "sleeping", "woken"}

SlotTypeOK ==
  /\ state \in [Slots -> States] /\ chan \in [Slots -> Slots \cup {NoProc}]
  /\ killed \in [Slots -> {0, 1}] /\ pid \in [Slots -> Nat]
  /\ parent \in [Slots -> Slots \cup {NoProc}] /\ nextpid \in Nat

CpuTypeOK ==
  /\ plock \in [Slots -> Cpus \cup {NoCpu}] /\ wait_lock \in Cpus \cup {NoCpu}
  /\ cur \in [Cpus -> Slots \cup {NoProc}] /\ run \in [Cpus -> Slots \cup {NoProc}]

ThreadTypeOK ==
  /\ pc \in [Slots -> Pcs] /\ idx \in [Slots -> 1..NPROC + 1] /\ widx \in [Slots -> Slots]
  /\ arg \in [Slots -> Nat] /\ resume \in [Slots -> Pcs]
  /\ \A p \in Slots : pc[p] \in {"allocproc", "fork", "kill"} => idx[p] \in Slots

\* The variables have the types of struct proc and struct cpu.
TypeOK == SlotTypeOK /\ CpuTypeOK /\ ThreadTypeOK

\* A kernel stack is used by one CPU at a time, and p->lock covers the window in
\* which the state says the process may run elsewhere but the CPU is still on
\* its stack: scheduler() of another CPU cannot pick it up there.
OneCpuPerStack ==
  \A p \in Slots :
    /\ \A c, d \in Cpus : run[c] = p /\ run[d] = p => c = d
    /\ \A c \in Cpus : run[c] = p => state[p] = "RUNNING" \/ plock[p] = c
    /\ state[p] = "RUNNING" => \E c \in Cpus : run[c] = p /\ cur[c] = p

\* freeproc() never gives away a slot whose kernel stack or struct proc a CPU
\* still uses: wait() cannot see the zombie before the last sched() is over.
FreedSlotUnused ==
  \A p \in Slots : state[p] = "UNUSED" => \A c \in Cpus : run[c] # p /\ cur[c] # p

\* The panics of sched(): a process gives up its CPU holding its own p->lock and
\* no other spinlock, with its state no longer RUNNING.
SchedPreconditions ==
  \A c \in Cpus : \A l \in {"yield", "sleeping", "exiting"} : At(c, l) =>
    /\ plock[run[c]] = c /\ state[run[c]] # "RUNNING"
    /\ wait_lock # c /\ \A q \in Slots : plock[q] = c => q = run[c]

\* The lock order of proc.c: wait_lock before any p->lock, and at most one p->lock
\* at a time, so that CPUs never wait for each other in a circle.
LockOrder ==
  \A c \in Cpus :
    /\ \A l \in {"exit", "wait", "fork_parent"} :
         At(c, l) => wait_lock # c /\ \A q \in Slots : plock[q] # c
    /\ \A l \in {"allocproc", "fork_run", "kill", "wake_init", "wake_parent", "exit_lock",
                 "scan", "sleep"} :
         At(c, l) => \A q \in Slots : plock[q] # c

\* A slot that is free or a zombie is nobody's parent: reparent() hands every
\* child to init before exit() lets go of wait_lock, also the ones whose fork()
\* or exit() was under way.
NoOrphans ==
  \A p, q \in Slots : state[p] \in {"UNUSED", "ZOMBIE"} => parent[q] # p

\* No wakeup is lost: whenever wait_lock is free, a parent that sleeps in wait()
\* has no child left to reap.
NoLostWakeup ==
  wait_lock = NoCpu =>
    \A p, q \in Slots :
      state[p] = "SLEEPING" /\ parent[q] = p => state[q] # "ZOMBIE"

\* A process that allocproc() has just set up, and that no kill() can have seen
\* yet because its lock is still held, has not been killed.
\* kill(0) is the exception: it finds a free slot, whose pid is 0, and marks it.
NewbornAlive == 0 \notin KillPids =>
  \A p \in Slots : state[p] = "USED" /\ plock[p] # NoCpu => killed[p] = 0

\* The process table is sound: its fields have their types, and a slot that changes
\* hands is neither in use any more nor marked by its last owner.
TableSound == TypeOK /\ FreedSlotUnused /\ NewbornAlive

\* Locks are taken in one order, and none but its own is held by a process that
\* gives up its CPU.
LockDiscipline == SchedPreconditions /\ LockOrder
=============================================================================
