----------------------------- MODULE ProcSteps ------------------------------
(***************************************************************************)
(* The inductive invariant Inv of Proc, for any number of slots and CPUs,  *)
(* and that scheduler(), sched(), yield(), the entry of a system call and  *)
(* fork() keep it.                                                         *)
(***************************************************************************)
EXTENDS Proc, TLAPS

\* A CPU is on the kernel stack of p.
On(p) == \E c \in Cpus : run[c] = p

\* Where the thread of p is, or where it goes on after a yield().
Point(p) == IF pc[p] \in {"yield", "forkret"} THEN resume[p] ELSE pc[p]

\* The places at which a running thread holds its own lock, and wait_lock.
OwnPcs == {"forkret", "woken", "yield", "zombie", "exiting", "sleep_release",
           "sleep_mark", "sleeping"}
WaitPcs == {"reparent", "wake_init", "wake_parent", "exit_lock", "zombie", "scan",
            "sleep", "sleep_release"}

ExitPcs == {"exit", "reparent", "wake_init", "wake_parent", "exit_lock", "zombie",
            "exiting", "dead"}

\* The places where a process holds no lock: a timer interrupt may come there.
CallPcs == {"user", "allocproc", "fork_parent", "fork_run", "exit", "wait", "kill"}

\* wait() from its first acquire() to its return: idx may be past the last slot.
ScanPcs == {"wait", "scan", "sleep", "sleep_release", "sleep_mark", "sleeping", "woken"}

Forking(p) == Point(p) \in {"fork", "fork_parent", "fork_run"}

\* The lock of p is held by the CPU c for its running thread, for its
\* scheduler() after a swtch(), or for the fork() that makes p.
Holds(c, p) ==
  \/ run[c] = p /\ pc[p] \in OwnPcs
  \/ run[c] = NoProc /\ cur[c] = p
  \/ run[c] # NoProc /\ pc[run[c]] = "fork" /\ idx[run[c]] = p

\* Who runs where, and who holds which lock.
CpuInv ==
  /\ \A c \in Cpus : run[c] # NoProc => cur[c] = run[c]
  /\ \A c, d \in Cpus : cur[c] = cur[d] /\ cur[c] # NoProc => c = d
  /\ \A c \in Cpus, p \in Slots : plock[p] = c <=> Holds(c, p)
  /\ \A c \in Cpus : wait_lock = c <=> run[c] # NoProc /\ pc[run[c]] \in WaitPcs

\* The state of a process whose thread runs ...
OnState(p) ==
  CASE pc[p] = "yield" -> "RUNNABLE" [] pc[p] = "sleeping" -> "SLEEPING"
    [] pc[p] = "exiting" -> "ZOMBIE" [] OTHER -> "RUNNING"

\* ... and the places and states of one whose thread does not.
OffState(p) ==
  \/ pc[p] = "forkret" /\ state[p] \in {"UNUSED", "USED", "RUNNABLE"}
  \/ pc[p] = "woken" /\ state[p] \in {"SLEEPING", "RUNNABLE"}
  \/ pc[p] = "dead" /\ state[p] \in {"UNUSED", "ZOMBIE"}

\* State and place of every thread, and the values of its locals that are used later.
ThreadInv ==
  \A p \in Slots :
    /\ On(p) => state[p] = OnState(p) /\ pc[p] # "dead"
    /\ ~On(p) => OffState(p)
    /\ pc[p] \notin {"yield", "forkret"} \/ state[p] \in {"UNUSED", "USED"} => resume[p] = "user"
    /\ resume[p] \in PreemptAt \cup {"user"}
    /\ Point(p) \notin ScanPcs => idx[p] \in Slots
    /\ Point(p) = "kill" => arg[p] \in KillPids
    /\ pc[p] \notin {"wake_init", "wake_parent"} => widx[p] = 1
    /\ state[p] = "SLEEPING" => chan[p] = p

\* A fork() under way has a USED slot of its own; init is there for good.
ForkInv ==
  /\ \A p \in Slots : Forking(p) => state[idx[p]] = "USED"
  /\ \A p, q \in Slots : Forking(p) /\ Forking(q) /\ idx[p] = idx[q] => p = q
  /\ state[initproc] \notin {"UNUSED", "USED", "ZOMBIE"} /\ Point(initproc) \notin ExitPcs

\* No CPU has to do with a free slot, and kill() does not find it, unless it is asked
\* for pid 0.
FreshInv ==
  /\ \A p \in Slots, c \in Cpus : state[p] \in {"UNUSED", "USED"} => cur[c] # p
  /\ \A p \in Slots : state[p] = "UNUSED" => pid[p] = 0
  /\ 0 \notin KillPids => \A p \in Slots :
       state[p] = "UNUSED" \/ (state[p] = "USED" /\ plock[p] # NoCpu) => killed[p] = 0

\* Only a process that lives and has not passed reparent() has children.
FamilyInv ==
  /\ \A p, q \in Slots :
       parent[q] = p =>
         /\ state[p] \notin {"UNUSED", "USED", "ZOMBIE"}
         /\ pc[p] \notin {"wake_parent", "exit_lock", "zombie"}
         /\ p # q
  /\ parent[initproc] = NoProc

\* The process sleeps in wait(), or has decided to.
Drowsy(p) == state[p] = "SLEEPING" \/ pc[p] \in {"sleep", "sleep_release", "sleep_mark"}

\* exit() of q has come past its parent in wakeup(p->parent).
PastParent(q) ==
  \/ pc[q] = "wake_parent" /\ widx[q] > parent[q]
  \/ pc[q] \in {"exit_lock", "zombie"}

\* A parent that is going to sleep has no zombie child and none that has woken it
\* already.  While reparent() hands a zombie to init, init is about to be woken.
WakeInv ==
  \A p, q \in Slots : parent[q] = p =>
    /\ Drowsy(p) /\ state[q] = "ZOMBIE" =>
         p = initproc /\ \E e \in Slots : pc[e] = "wake_init" /\ widx[e] = 1
    /\ Drowsy(p) => ~PastParent(q)
    /\ pc[p] = "scan" /\ q < idx[p] => state[q] # "ZOMBIE"

Inv == TypeOK /\ CpuInv /\ ThreadInv /\ ForkInv /\ FreshInv /\ FamilyInv /\ WakeInv

-----------------------------------------------------------------------------
(* Facts used by every step below.                                         *)

LEMMA SlotFacts == 0 \notin Slots /\ 1 \in Slots
BY ProcAssumption DEF ProcAssumption, Slots

LEMMA SlotBounds ==
  /\ 1 \in 1..NPROC + 1 /\ \A i \in 1..NPROC + 1 : i \in Nat
  /\ \A p \in Slots : /\ p \in Nat /\ 1 <= p /\ p <= NPROC
                      /\ p \in 1..NPROC + 1 /\ p + 1 \in 1..NPROC + 1
                      /\ p # NPROC => p + 1 \in Slots
BY ProcAssumption DEF ProcAssumption, Slots

\* The process that runs on c runs on no other CPU, and no other scheduler() has it.
LEMMA RunFacts ==
  ASSUME Inv, NEW c \in Cpus, run[c] # NoProc
  PROVE  /\ run[c] \in Slots /\ cur[c] = run[c] /\ On(run[c])
         /\ state[run[c]] = OnState(run[c]) /\ pc[run[c]] # "dead"
         /\ \A d \in Cpus : run[d] = run[c] \/ cur[d] = run[c] => d = c
BY DEF Inv, TypeOK, CpuTypeOK, CpuInv, ThreadInv, On, NoProc

\* A process whose lock is free and that is not RUNNING is off every CPU.
LEMMA OffFacts ==
  ASSUME Inv, NEW p \in Slots, plock[p] = NoCpu, state[p] # "RUNNING"
  PROVE  /\ \A c \in Cpus : run[c] # p /\ cur[c] # p
         /\ ~On(p) /\ OffState(p)
<1>1. \A c \in Cpus : ~Holds(c, p)
  BY ProcAssumption, Zenon DEF ProcAssumption, Inv, CpuInv
<1>2. ~On(p)
  BY <1>1, Zenon DEF Inv, ThreadInv, OnState, On, Holds, OwnPcs
<1> QED
  BY <1>1, <1>2, Zenon DEF Inv, CpuInv, ThreadInv, On, Holds

\* wait_lock has one holder.
LEMMA WaitFacts ==
  ASSUME Inv
  PROVE  /\ \A p \in Slots : pc[p] \in WaitPcs => wait_lock # NoCpu
         /\ \A p, q \in Slots : pc[p] \in WaitPcs /\ pc[q] \in WaitPcs => p = q
<1>1. \A p \in Slots : pc[p] \in WaitPcs => \E c \in Cpus : run[c] = p /\ wait_lock = c
  BY SlotFacts DEF Inv, ThreadInv, OffState, On, CpuInv, WaitPcs, NoProc
<1> QED
  BY <1>1, ProcAssumption, Zenon DEF ProcAssumption

\* A step that leaves the families alone and brings nobody closer to sleep, to the
\* end of exit() or past a zombie keeps WakeInv.
LEMMA WakeFrame ==
  ASSUME WakeInv, parent' = parent,
         \A x \in Slots : /\ Drowsy(x)' => Drowsy(x)
                          /\ state'[x] = "ZOMBIE" => state[x] = "ZOMBIE"
                          /\ PastParent(x)' => PastParent(x)
                          /\ pc[x] = "wake_init" => pc'[x] = "wake_init" /\ widx'[x] = widx[x],
         \A x, y \in Slots : parent[y] = x /\ pc'[x] = "scan" /\ y < idx'[x] =>
                               state'[y] # "ZOMBIE"
  PROVE  WakeInv'
BY DEF WakeInv

-----------------------------------------------------------------------------
(* Every step keeps the invariant.                                         *)

LEMMA InitInv == Init => Inv
<1> SUFFICES ASSUME Init PROVE Inv
  OBVIOUS
<1> USE ProcAssumption, SlotFacts DEF ProcAssumption, Init, NoProc, initproc
<1>1. TypeOK
  BY DEF TypeOK, SlotTypeOK, CpuTypeOK, ThreadTypeOK, States, Pcs
<1>2. CpuInv
  BY Zenon DEF CpuInv, Holds
<1>3. ThreadInv
  BY Zenon DEF ThreadInv, On, OffState, Point
<1>4. ForkInv /\ FreshInv /\ FamilyInv
  BY Zenon DEF ForkInv, Forking, Point, ExitPcs, FreshInv, FamilyInv
<1>5. WakeInv
  BY Zenon DEF WakeInv
<1> QED
  BY <1>1, <1>2, <1>3, <1>4, <1>5, Zenon DEF Inv

\* scheduler(), sched(), yield() and forkret().
LEMMA SwitchInv ==
  ASSUME Inv, NEW c \in Cpus, (\E p \in Slots : Dispatch(c, p)) \/ Yield(c) \/ SwitchStep(c)
  PROVE  Inv'
<1> USE SlotFacts DEF Inv, TypeOK, At, Goto, Return, NoProc, initproc, slotVars, lockVars,
             cpuVars, locals
<1>0. run[c] # NoProc =>
        /\ run[c] \in Slots /\ cur[c] = run[c] /\ On(run[c])
        /\ state[run[c]] = OnState(run[c]) /\ pc[run[c]] # "dead"
        /\ \A d \in Cpus : run[d] = run[c] \/ cur[d] = run[c] => d = c
  BY RunFacts, Zenon
<1>1. ASSUME NEW p \in Slots, Dispatch(c, p) PROVE Inv'
  <2>1. (\A d \in Cpus : run[d] # p /\ cur[d] # p) /\ ~On(p) /\ OffState(p)
    BY <1>0, <1>1, OffFacts, Zenon DEF Dispatch
  <2>2. TypeOK'
    BY <1>0, <1>1, <2>1, Zenon DEF Dispatch, SlotTypeOK, CpuTypeOK, ThreadTypeOK, States, Pcs
  <2>3. CpuInv'
    BY <1>0, <1>1, <2>1, ProcAssumption DEF Dispatch, ProcAssumption, CpuTypeOK, ThreadTypeOK,
       CpuInv, Holds, OwnPcs, WaitPcs, OffState
  <2>4. ThreadInv'
    BY <1>0, <1>1, <2>1 DEF Dispatch, SlotTypeOK, CpuTypeOK, ThreadTypeOK, ThreadInv, On,
       OnState, OffState, Point, ScanPcs
  <2>5. ForkInv'
    BY <1>0, <1>1, <2>1 DEF Dispatch, SlotTypeOK, ThreadTypeOK, ForkInv, Forking, Point,
       ExitPcs, ThreadInv, OnState, OffState
  <2>6. FreshInv' /\ FamilyInv'
    BY <1>0, <1>1, <2>1 DEF Dispatch, SlotTypeOK, CpuTypeOK, ThreadTypeOK, FreshInv,
       FamilyInv, OnState
  <2>7. WakeInv'
    BY <1>0, <1>1, <2>1 DEF Dispatch, SlotTypeOK, ThreadTypeOK, WakeInv, Drowsy,
       PastParent, OnState
  <2> QED
    BY <2>2, <2>3, <2>4, <2>5, <2>6, <2>7, Zenon
<1>2. CASE Yield(c)
  <2>1. pc[run[c]] \in CallPcs
    BY <1>0, <1>2, ProcAssumption, Zenon DEF Yield, ProcAssumption, CallPcs
  <2>2. TypeOK'
    BY <1>0, <1>2, <2>1, Zenon DEF Yield, SlotTypeOK, CpuTypeOK, ThreadTypeOK, States, Pcs
  <2>3. CpuInv'
    BY <1>0, <1>2, <2>1, ProcAssumption DEF Yield, ProcAssumption, CpuTypeOK,
       ThreadTypeOK, CpuInv, Holds, OwnPcs, WaitPcs
  <2>4. ThreadInv'
    BY <1>0, <1>2, <2>1 DEF Yield, SlotTypeOK, CpuTypeOK, ThreadTypeOK, ThreadInv, On,
       OnState, OffState, Point, ScanPcs, CallPcs
  <2>5. ForkInv'
    BY <1>0, <1>2, <2>1 DEF Yield, SlotTypeOK, ThreadTypeOK, ForkInv, Forking, Point,
       ExitPcs, ThreadInv, OnState, OffState, CallPcs
  <2>6. FreshInv' /\ FamilyInv'
    BY <1>0, <1>2, <2>1 DEF Yield, SlotTypeOK, CpuTypeOK, ThreadTypeOK, FreshInv,
       FamilyInv, OnState, CallPcs
  <2>7. WakeInv'
    BY <1>0, <1>2, <2>1 DEF Yield, SlotTypeOK, ThreadTypeOK, WakeInv, Drowsy, PastParent,
       OnState, CallPcs
  <2> QED
    BY <2>2, <2>3, <2>4, <2>5, <2>6, <2>7, Zenon
<1>3. CASE Sched(c)
  <2>1. TypeOK'
    BY <1>0, <1>3 DEF Sched, SlotTypeOK, CpuTypeOK, ThreadTypeOK, States, Pcs
  <2>2. CpuInv'
    BY <1>0, <1>3, ProcAssumption DEF Sched, ProcAssumption, CpuTypeOK, ThreadTypeOK,
       CpuInv, Holds, OwnPcs, WaitPcs
  <2>3. ThreadInv'
    BY <1>0, <1>3 DEF Sched, SlotTypeOK, CpuTypeOK, ThreadTypeOK, ThreadInv, On, OnState,
       OffState, Point, ScanPcs
  <2>4. ForkInv'
    BY <1>0, <1>3 DEF Sched, SlotTypeOK, ThreadTypeOK, ForkInv, Forking, Point, ExitPcs,
       ThreadInv, OnState, OffState
  <2>5. FreshInv' /\ FamilyInv'
    BY <1>0, <1>3 DEF Sched, SlotTypeOK, CpuTypeOK, ThreadTypeOK, FreshInv, FamilyInv,
       OnState
  <2>6. WakeInv'
    BY <1>0, <1>3 DEF Sched, SlotTypeOK, ThreadTypeOK, WakeInv, Drowsy, PastParent,
       OnState
  <2> QED
    BY <2>1, <2>2, <2>3, <2>4, <2>5, <2>6, Zenon
<1>4. CASE SchedulerBack(c)
  <2>1. TypeOK'
    BY <1>0, <1>4, Zenon DEF SchedulerBack, SlotTypeOK, CpuTypeOK, ThreadTypeOK, States, Pcs
  <2>2. CpuInv'
    BY <1>0, <1>4, ProcAssumption DEF SchedulerBack, ProcAssumption, CpuTypeOK,
       ThreadTypeOK, CpuInv, Holds, OwnPcs, WaitPcs
  <2>3. ThreadInv'
    BY <1>0, <1>4 DEF SchedulerBack, SlotTypeOK, CpuTypeOK, ThreadTypeOK, ThreadInv, On,
       OnState, OffState, Point, ScanPcs
  <2>4. ForkInv'
    BY <1>0, <1>4 DEF SchedulerBack, SlotTypeOK, ThreadTypeOK, ForkInv, Forking, Point,
       ExitPcs, ThreadInv, OnState, OffState
  <2>5. FreshInv' /\ FamilyInv'
    BY <1>0, <1>4 DEF SchedulerBack, SlotTypeOK, CpuTypeOK, ThreadTypeOK, FreshInv,
       FamilyInv, OnState
  <2>6. WakeInv'
    BY <1>0, <1>4 DEF SchedulerBack, SlotTypeOK, ThreadTypeOK, WakeInv, Drowsy,
       PastParent, OnState
  <2> QED
    BY <2>1, <2>2, <2>3, <2>4, <2>5, <2>6, Zenon
<1>5. CASE Forkret(c)
  <2>1. resume[run[c]] \in CallPcs
    BY <1>0, <1>5, ProcAssumption, Zenon DEF Forkret, ThreadInv, ProcAssumption, CallPcs
  <2>2. TypeOK'
    BY <1>0, <1>5, <2>1 DEF Forkret, SlotTypeOK, CpuTypeOK, ThreadTypeOK, States, Pcs,
       CallPcs, ThreadInv, Point, ScanPcs
  <2>3. CpuInv'
    BY <1>0, <1>5, <2>1, ProcAssumption DEF Forkret, ProcAssumption, CpuTypeOK, ThreadTypeOK,
       CpuInv, Holds, OwnPcs, WaitPcs, CallPcs
  <2>4. ThreadInv'
    BY <1>0, <1>5, <2>1 DEF Forkret, SlotTypeOK, CpuTypeOK, ThreadTypeOK, ThreadInv, On,
       OnState, OffState, Point, ScanPcs, CallPcs
  <2>5. ForkInv'
    BY <1>0, <1>5, <2>1 DEF Forkret, SlotTypeOK, ThreadTypeOK, ForkInv, Forking, Point,
       ExitPcs, ThreadInv, OnState, OffState, CallPcs
  <2>6. FreshInv' /\ FamilyInv'
    <3>1. /\ UNCHANGED <<state, pid, killed, parent, cur>> /\ pc'[run[c]] \in CallPcs
          /\ \A x \in Slots : /\ x # run[c] => pc'[x] = pc[x]
                              /\ plock'[x] # NoCpu => plock[x] # NoCpu
      BY <1>0, <1>5, <2>1, Zenon DEF Forkret, CpuTypeOK, ThreadTypeOK
    <3> QED
      BY <1>0, <1>5, <3>1 DEF Forkret, FreshInv, FamilyInv, CallPcs
  <2>7. WakeInv'
    BY <1>0, <1>5, <2>1 DEF Forkret, SlotTypeOK, ThreadTypeOK, WakeInv, Drowsy,
       PastParent, OnState, CallPcs
  <2> QED
    BY <2>2, <2>3, <2>4, <2>5, <2>6, <2>7, Zenon
<1> QED
  BY <1>1, <1>2, <1>3, <1>4, <1>5, Zenon DEF SwitchStep

\* A system call, or an exception, of the running process.
LEMMA UserInv ==
  ASSUME Inv, NEW c \in Cpus, UserStep(c)
  PROVE  Inv'
<1> USE SlotFacts DEF Inv, TypeOK, At, Goto, Return, NoProc, initproc, slotVars, lockVars,
             cpuVars, locals
<1>0. run[c] # NoProc =>
        /\ run[c] \in Slots /\ cur[c] = run[c] /\ On(run[c])
        /\ state[run[c]] = OnState(run[c]) /\ pc[run[c]] # "dead"
        /\ \A d \in Cpus : run[d] = run[c] \/ cur[d] = run[c] => d = c
  BY RunFacts, Zenon
<1>1. CASE CallFork(c)
  <2>1. TypeOK'
    BY <1>0, <1>1 DEF CallFork, Syscall, Killed, SlotTypeOK, CpuTypeOK, ThreadTypeOK,
       States, Pcs, ThreadInv, Point, ScanPcs
  <2>2. CpuInv'
    BY <1>0, <1>1, ProcAssumption DEF CallFork, Syscall, Killed, ProcAssumption,
       CpuTypeOK, ThreadTypeOK, CpuInv, Holds, OwnPcs, WaitPcs
  <2>3. ThreadInv'
    BY <1>0, <1>1 DEF CallFork, Syscall, Killed, SlotTypeOK, CpuTypeOK, ThreadTypeOK,
       ThreadInv, On, OnState, OffState, Point, ScanPcs
  <2>4. ForkInv'
    BY <1>0, <1>1 DEF CallFork, Syscall, Killed, SlotTypeOK, ThreadTypeOK, ForkInv,
       Forking, Point, ExitPcs, ThreadInv, OnState, OffState
  <2>5. FreshInv' /\ FamilyInv'
    BY <1>0, <1>1 DEF CallFork, Syscall, Killed, SlotTypeOK, CpuTypeOK, ThreadTypeOK,
       FreshInv, FamilyInv, OnState
  <2>6. WakeInv'
    BY <1>0, <1>1 DEF CallFork, Syscall, Killed, SlotTypeOK, ThreadTypeOK, WakeInv,
       Drowsy, PastParent, OnState
  <2> QED
    BY <2>1, <2>2, <2>3, <2>4, <2>5, <2>6, Zenon
<1>2. CASE CallWait(c)
  <2>1. TypeOK'
    BY <1>0, <1>2, Zenon DEF CallWait, Syscall, Killed, SlotTypeOK, CpuTypeOK, ThreadTypeOK,
       States, Pcs
  <2>2. CpuInv'
    BY <1>0, <1>2, ProcAssumption DEF CallWait, Syscall, Killed, ProcAssumption,
       CpuTypeOK, ThreadTypeOK, CpuInv, Holds, OwnPcs, WaitPcs
  <2>3. ThreadInv'
    BY <1>0, <1>2 DEF CallWait, Syscall, Killed, SlotTypeOK, CpuTypeOK, ThreadTypeOK,
       ThreadInv, On, OnState, OffState, Point, ScanPcs
  <2>4. ForkInv'
    BY <1>0, <1>2 DEF CallWait, Syscall, Killed, SlotTypeOK, ThreadTypeOK, ForkInv,
       Forking, Point, ExitPcs, ThreadInv, OnState, OffState
  <2>5. FreshInv' /\ FamilyInv'
    BY <1>0, <1>2 DEF CallWait, Syscall, Killed, SlotTypeOK, CpuTypeOK, ThreadTypeOK,
       FreshInv, FamilyInv, OnState
  <2>6. WakeInv'
    BY <1>0, <1>2 DEF CallWait, Syscall, Killed, SlotTypeOK, ThreadTypeOK, WakeInv,
       Drowsy, PastParent, OnState
  <2> QED
    BY <2>1, <2>2, <2>3, <2>4, <2>5, <2>6, Zenon
<1>3. CASE CallExit(c)
  <2>1. TypeOK'
    BY <1>0, <1>3, Zenon DEF CallExit, Killed, SlotTypeOK, CpuTypeOK, ThreadTypeOK, States, Pcs
  <2>2. CpuInv'
    BY <1>0, <1>3, ProcAssumption DEF CallExit, Killed, ProcAssumption, CpuTypeOK,
       ThreadTypeOK, CpuInv, Holds, OwnPcs, WaitPcs
  <2>3. ThreadInv'
    BY <1>0, <1>3 DEF CallExit, Killed, SlotTypeOK, CpuTypeOK, ThreadTypeOK, ThreadInv,
       On, OnState, OffState, Point, ScanPcs
  <2>4. ForkInv'
    BY <1>0, <1>3 DEF CallExit, Killed, SlotTypeOK, ThreadTypeOK, ForkInv, Forking, Point,
       ExitPcs, ThreadInv, OnState, OffState
  <2>5. FreshInv' /\ FamilyInv'
    BY <1>0, <1>3, Zenon DEF CallExit, Killed, SlotTypeOK, CpuTypeOK, ThreadTypeOK, FreshInv,
       FamilyInv, OnState
  <2>6. WakeInv'
    BY <1>0, <1>3 DEF CallExit, Killed, SlotTypeOK, ThreadTypeOK, WakeInv, Drowsy,
       PastParent, OnState
  <2> QED
    BY <2>1, <2>2, <2>3, <2>4, <2>5, <2>6, Zenon
<1>4. CASE Setkilled(c)
  <2>1. TypeOK'
    BY <1>0, <1>4, Zenon DEF Setkilled, SlotTypeOK, CpuTypeOK, ThreadTypeOK, States, Pcs
  <2>2. CpuInv'
    BY <1>0, <1>4, ProcAssumption DEF Setkilled, ProcAssumption, CpuTypeOK, ThreadTypeOK,
       CpuInv, Holds, OwnPcs, WaitPcs
  <2>3. ThreadInv'
    BY <1>0, <1>4 DEF Setkilled, SlotTypeOK, CpuTypeOK, ThreadTypeOK, ThreadInv, On,
       OnState, OffState, Point, ScanPcs
  <2>4. ForkInv'
    BY <1>0, <1>4 DEF Setkilled, SlotTypeOK, ThreadTypeOK, ForkInv, Forking, Point,
       ExitPcs, ThreadInv, OnState, OffState
  <2>5. FreshInv' /\ FamilyInv'
    BY <1>0, <1>4 DEF Setkilled, SlotTypeOK, CpuTypeOK, ThreadTypeOK, FreshInv, FamilyInv,
       OnState
  <2>6. WakeInv'
    BY <1>0, <1>4 DEF Setkilled, SlotTypeOK, ThreadTypeOK, WakeInv, Drowsy, PastParent,
       OnState
  <2> QED
    BY <2>1, <2>2, <2>3, <2>4, <2>5, <2>6, Zenon
<1>5. ASSUME NEW k \in KillPids, CallKill(c, k) PROVE Inv'
  <2>1. TypeOK'
    BY <1>0, <1>5, ProcAssumption DEF CallKill, Syscall, Killed, SlotTypeOK, CpuTypeOK,
       ThreadTypeOK, States, Pcs, ProcAssumption, ThreadInv, Point, ScanPcs
  <2>2. CpuInv'
    BY <1>0, <1>5, ProcAssumption DEF CallKill, Syscall, Killed, ProcAssumption,
       CpuTypeOK, ThreadTypeOK, CpuInv, Holds, OwnPcs, WaitPcs
  <2>3. ThreadInv'
    BY <1>0, <1>5 DEF CallKill, Syscall, Killed, SlotTypeOK, CpuTypeOK, ThreadTypeOK,
       ThreadInv, On, OnState, OffState, Point, ScanPcs
  <2>4. ForkInv'
    BY <1>0, <1>5 DEF CallKill, Syscall, Killed, SlotTypeOK, ThreadTypeOK, ForkInv,
       Forking, Point, ExitPcs, ThreadInv, OnState, OffState
  <2>5. FreshInv' /\ FamilyInv'
    BY <1>0, <1>5 DEF CallKill, Syscall, Killed, SlotTypeOK, CpuTypeOK, ThreadTypeOK,
       FreshInv, FamilyInv, OnState
  <2>6. WakeInv'
    BY <1>0, <1>5 DEF CallKill, Syscall, Killed, SlotTypeOK, ThreadTypeOK, WakeInv,
       Drowsy, PastParent, OnState
  <2> QED
    BY <2>1, <2>2, <2>3, <2>4, <2>5, <2>6, Zenon
<1> QED
  BY <1>1, <1>2, <1>3, <1>4, <1>5, Zenon DEF UserStep

\* fork() and allocproc().
LEMMA ForkStepInv ==
  ASSUME Inv, NEW c \in Cpus, ForkStep(c)
  PROVE  Inv'
<1> USE SlotFacts DEF Inv, TypeOK, At, Goto, Return, NoProc, initproc, slotVars, lockVars,
             cpuVars, locals
<1>0. run[c] # NoProc =>
        /\ run[c] \in Slots /\ cur[c] = run[c] /\ On(run[c])
        /\ state[run[c]] = OnState(run[c]) /\ pc[run[c]] # "dead"
        /\ \A d \in Cpus : run[d] = run[c] \/ cur[d] = run[c] => d = c
  BY RunFacts, Zenon
<1>1. CASE AllocNext(c)
  <2>1. idx[run[c]] \in Slots
    BY <1>0, <1>1, Zenon DEF AllocNext, ThreadInv, Point, ScanPcs
  <2>2. TypeOK'
    <3>1. SlotTypeOK' /\ CpuTypeOK'
      BY <1>0, <1>1, <2>1, Zenon DEF AllocNext, SlotTypeOK, CpuTypeOK, States
    <3>2. ThreadTypeOK'
      <4>1. ~LastSlot(idx[run[c]]) => idx[run[c]] + 1 \in Slots /\ idx[run[c]] + 1 \in 1..NPROC + 1
        BY <2>1, SlotBounds, Zenon DEF LastSlot
      <4> QED
        BY <1>0, <1>1, <2>1, <4>1, SlotBounds DEF AllocNext, ThreadTypeOK, Pcs
    <3> QED
      BY <3>1, <3>2, Zenon
  <2>3. CpuInv'
    BY <1>0, <1>1, <2>1, ProcAssumption DEF AllocNext, LastSlot, ProcAssumption,
       CpuTypeOK, ThreadTypeOK, CpuInv, Holds, OwnPcs, WaitPcs
  <2>4. ThreadInv'
    BY <1>0, <1>1, <2>1, SlotBounds DEF AllocNext, LastSlot, SlotTypeOK, CpuTypeOK, ThreadTypeOK,
       ThreadInv, On, OnState, OffState, Point, ScanPcs
  <2>5. ForkInv'
    <3>1. ~Forking(run[c]) /\ ~Forking(run[c])'
      BY <1>0, <1>1, <2>1 DEF AllocNext, LastSlot, ThreadTypeOK, Forking, Point
    <3>2. \A x \in Slots : x # run[c] => /\ Forking(x)' = Forking(x) /\ idx'[x] = idx[x]
                                         /\ Point(x)' = Point(x)
      BY <1>0, <1>1, <2>1 DEF AllocNext, LastSlot, ThreadTypeOK, Forking, Point
    <3>3. \A x \in Slots : state'[x] # state[x] => state[x] = "SLEEPING" /\ state'[x] = "RUNNABLE"
      BY <1>0, <1>1, <2>1, Zenon DEF AllocNext, LastSlot, SlotTypeOK
    <3> QED
      BY <1>0, <1>1, <2>1, <3>1, <3>2, <3>3 DEF AllocNext, LastSlot, ForkInv, ExitPcs, Point, ThreadTypeOK
  <2>6. FreshInv' /\ FamilyInv'
    BY <1>0, <1>1, <2>1 DEF AllocNext, LastSlot, SlotTypeOK, CpuTypeOK, ThreadTypeOK,
       FreshInv, FamilyInv, OnState
  <2>7. WakeInv'
    <3> PICK p \in Slots : p = run[c]
      BY <1>0, <1>1, Zenon DEF AllocNext
    <3>1. state' = state /\ parent' = parent
      BY <1>1, Zenon DEF AllocNext
    <3>2. /\ pc[p] = "allocproc" /\ pc'[p] \in {"allocproc", "user"}
          /\ \A x \in Slots : x # p => pc'[x] = pc[x] /\ idx'[x] = idx[x] /\ widx'[x] = widx[x]
      BY <1>1 DEF AllocNext, ThreadTypeOK
    <3>3. \A x \in Slots : /\ Drowsy(x)' => Drowsy(x)
                           /\ PastParent(x)' => PastParent(x)
      BY <3>1, <3>2, Zenon DEF Drowsy, PastParent
    <3>4. \A x \in Slots : /\ pc[x] = "wake_init" => pc'[x] = "wake_init" /\ widx'[x] = widx[x]
                           /\ pc'[x] = "scan" => pc[x] = "scan" /\ idx'[x] = idx[x]
      BY <3>2, Zenon
    <3>5. \A x, y \in Slots : parent[y] = x /\ pc[x] = "scan" /\ y < idx[x] => state[y] # "ZOMBIE"
      BY Zenon DEF WakeInv
    <3> QED
      BY <3>1, <3>3, <3>4, <3>5, WakeFrame, Zenon
  <2> QED
    BY <2>2, <2>3, <2>4, <2>5, <2>6, <2>7, Zenon
<1>2. CASE AllocProc(c)
  <2>1. idx[run[c]] \in Slots
    BY <1>0, <1>2, Zenon DEF AllocProc, ThreadInv, Point, ScanPcs
  <2>2. (\A d \in Cpus : run[d] # idx[run[c]] /\ cur[d] # idx[run[c]]) /\ ~On(idx[run[c]]) /\ OffState(idx[run[c]])
    BY <1>0, <1>2, <2>1, OffFacts, Zenon DEF AllocProc
  <2>3. TypeOK'
    BY <1>0, <1>2, <2>1, <2>2 DEF AllocProc, SlotTypeOK, CpuTypeOK, ThreadTypeOK, States,
       Pcs
  <2>4. CpuInv'
    BY <1>0, <1>2, <2>1, <2>2, ProcAssumption DEF AllocProc, ProcAssumption, CpuTypeOK,
       ThreadTypeOK, CpuInv, Holds, OwnPcs, WaitPcs, OffState
  <2>5. ThreadInv'
    <3>1. /\ run' = run /\ idx' = idx /\ widx' = widx /\ arg' = arg /\ resume' = resume
          /\ chan' = chan /\ pc[run[c]] = "allocproc" /\ pc'[run[c]] = "fork"
          /\ pc'[idx[run[c]]] = "forkret" /\ state'[idx[run[c]]] = "USED"
          /\ state[idx[run[c]]] = "UNUSED" /\ idx[run[c]] # run[c]
          /\ \A x \in Slots : /\ x # idx[run[c]] => state'[x] = state[x]
                              /\ x # idx[run[c]] /\ x # run[c] => pc'[x] = pc[x]
      BY <1>0, <1>2, <2>1, <2>2, Zenon DEF AllocProc, SlotTypeOK, ThreadTypeOK
    <3>2. ASSUME NEW x \in Slots, x # idx[run[c]], x # run[c]
          PROVE  /\ (On(x)' <=> On(x)) /\ OnState(x)' = OnState(x)
                 /\ (OffState(x)' <=> OffState(x)) /\ Point(x)' = Point(x)
      BY <3>1, <3>2 DEF On, OnState, OffState, Point
    <3>3. /\ On(run[c])' /\ OnState(run[c])' = "RUNNING" /\ Point(run[c])' = "fork"
          /\ state'[run[c]] = "RUNNING"
      BY <1>0, <1>2, <3>1 DEF AllocProc, On, OnState, Point
    <3>4. ~On(idx[run[c]])' /\ OffState(idx[run[c]])' /\ Point(idx[run[c]])' = "user"
      BY <1>0, <2>1, <2>2, <3>1 DEF On, OffState, Point, ThreadInv
    <3> QED
      <4>1. ASSUME NEW x \in Slots, x # idx[run[c]], x # run[c]
            PROVE  /\ On(x)' => state'[x] = OnState(x)' /\ pc'[x] # "dead"
                   /\ ~On(x)' => OffState(x)'
        BY <3>1, <3>2, <4>1 DEF ThreadInv
      <4>2. ASSUME NEW x \in Slots
            PROVE  /\ On(x)' => state'[x] = OnState(x)' /\ pc'[x] # "dead"
                   /\ ~On(x)' => OffState(x)'
        BY <3>1, <3>3, <3>4, <4>1, Zenon
      <4>3. ASSUME NEW x \in Slots
            PROVE  /\ pc'[x] \notin {"yield", "forkret"} \/ state'[x] \in {"UNUSED", "USED"}
                        => resume'[x] = "user"
                   /\ resume'[x] \in PreemptAt \cup {"user"}
                   /\ pc'[x] \notin {"wake_init", "wake_parent"} => widx'[x] = 1
                   /\ state'[x] = "SLEEPING" => chan'[x] = x
        BY <2>2, <3>1 DEF ThreadInv, OffState
      <4>4. ASSUME NEW x \in Slots
            PROVE  /\ Point(x)' \notin ScanPcs => idx'[x] \in Slots
                   /\ Point(x)' = "kill" => arg'[x] \in KillPids
        <5>1. Point(idx[run[c]]) = "user" \/ pc[idx[run[c]]] = "dead"
          BY <1>0, <2>1, <2>2, <3>1 DEF ThreadInv, OffState, Point
        <5> QED
          BY <2>1, <3>1, <3>2, <3>3, <3>4, <5>1 DEF ThreadInv, ScanPcs, Point
      <4> QED
        BY <4>2, <4>3, <4>4, Zenon DEF ThreadInv
  <2>6. ForkInv'
    <3> DEFINE p == run[c]
               q == idx[run[c]]
    <3>1. /\ ~Forking(p) /\ state[q] = "UNUSED" /\ state[p] = "RUNNING" /\ p # q
          /\ state[initproc] # "UNUSED"
      BY <1>0, <1>2, Zenon DEF AllocProc, Forking, Point, OnState, ForkInv
    <3>2. \A x \in Slots : x \notin {p, q} => (Forking(x)' <=> Forking(x)) /\ Point(x)' = Point(x)
      BY <1>2, Zenon DEF AllocProc, ThreadTypeOK, Forking, Point
    <3>3. resume[q] = "user" /\ pc'[q] = "forkret" /\ pc'[p] = "fork" /\ resume' = resume /\ idx' = idx
      BY <1>0, <1>2, <2>1, <3>1, Zenon DEF AllocProc, ThreadInv, ThreadTypeOK
    <3>4. ~Forking(q)'
      BY <3>3, <1>2, Zenon DEF AllocProc, Forking, Point
    <3>5. \A x \in Slots : Forking(x)' => x = p \/ (x # q /\ Forking(x))
      BY <3>2, <3>4, <1>2, Zenon DEF AllocProc
    <3>6. /\ \A x \in Slots : Forking(x)' => state'[idx'[x]] = "USED"
          /\ \A x, y \in Slots : Forking(x)' /\ Forking(y)' /\ idx'[x] = idx'[y] => x = y
      BY <1>2, <2>1, <3>1, <3>3, <3>5 DEF AllocProc, ForkInv, SlotTypeOK
    <3>7. state'[initproc] \notin {"UNUSED", "USED", "ZOMBIE"} /\ Point(initproc)' \notin ExitPcs
      <4>1. q # initproc
        BY <3>1, Zenon
      <4>2. p = initproc => Point(p)' \notin ExitPcs
        BY <1>2, <3>3, Zenon DEF AllocProc, Point, ExitPcs
      <4> QED
        BY <1>2, <3>2, <4>1, <4>2, Zenon DEF AllocProc, ForkInv, SlotTypeOK
    <3> QED
      BY <3>6, <3>7, Zenon DEF ForkInv
  <2>7. FreshInv' /\ FamilyInv'
    BY <1>0, <1>2, <2>1, <2>2 DEF AllocProc, SlotTypeOK, CpuTypeOK, ThreadTypeOK,
       FreshInv, FamilyInv, OnState, Point
  <2>8. WakeInv'
    <3>1. pc[idx[run[c]]] # "wake_init" /\ run[c] # idx[run[c]]
      BY <1>0, <2>2, Zenon DEF OffState
    <3>2. \A x \in Slots : /\ Drowsy(x)' => Drowsy(x)
                           /\ state'[x] = "ZOMBIE" => state[x] = "ZOMBIE"
                           /\ PastParent(x)' => PastParent(x)
                           /\ pc[x] = "wake_init" => pc'[x] = "wake_init" /\ widx'[x] = widx[x]
                           /\ pc'[x] = "scan" => pc[x] = "scan" /\ idx'[x] = idx[x]
      BY <1>0, <1>2, <2>1, <3>1, Zenon DEF AllocProc, SlotTypeOK, ThreadTypeOK, Drowsy, PastParent
    <3> QED
      BY <1>2, <3>2, WakeFrame, Zenon DEF AllocProc, WakeInv
  <2> QED
    BY <2>3, <2>4, <2>5, <2>6, <2>7, <2>8, Zenon
<1>3. CASE ForkFail(c)
  <2>1. idx[run[c]] \in Slots
    BY <1>0, <1>3, Zenon DEF ForkFail, ThreadInv, Point, ScanPcs
  <2>2. state[idx[run[c]]] = "USED" /\ idx[run[c]] # run[c] /\ idx[run[c]] # 1
    BY <1>0, <1>3, <2>1, Zenon DEF ForkFail, ForkInv, Forking, Point, OnState
  <2>3. TypeOK'
    <3>1. SlotTypeOK'
      BY <1>0, <1>3, <2>1, ProcAssumption, Zenon DEF ForkFail, FreeProc, SlotTypeOK, States, ProcAssumption
    <3>2. CpuTypeOK'
      BY <1>3, Zenon DEF ForkFail, CpuTypeOK
    <3>3. ThreadTypeOK'
      BY <1>0, <1>3, SlotBounds, Zenon DEF ForkFail, ThreadTypeOK, Pcs
    <3> QED
      BY <3>1, <3>2, <3>3, Zenon
  <2>4. CpuInv'
    BY <1>0, <1>3, <2>1, <2>2, ProcAssumption DEF ForkFail, ProcAssumption,
       CpuTypeOK, ThreadTypeOK, CpuInv, Holds, OwnPcs, WaitPcs
  <2>5. ThreadInv'
    BY <1>0, <1>3, <2>1, <2>2 DEF ForkFail, FreeProc, SlotTypeOK, CpuTypeOK, ThreadTypeOK,
       ThreadInv, On, OnState, OffState, Point, ScanPcs
  <2>6. ForkInv'
    BY <1>0, <1>3, <2>1, <2>2 DEF ForkFail, FreeProc, SlotTypeOK, ThreadTypeOK, ForkInv,
       Forking, Point, ExitPcs, ThreadInv, OnState, OffState
  <2>7. FreshInv' /\ FamilyInv'
    BY <1>0, <1>3, <2>1, <2>2 DEF ForkFail, FreeProc, SlotTypeOK, CpuTypeOK, ThreadTypeOK,
       FreshInv, FamilyInv, OnState
  <2>8. WakeInv'
    BY <1>0, <1>3, <2>1, <2>2 DEF ForkFail, FreeProc, SlotTypeOK, ThreadTypeOK, WakeInv,
       Drowsy, PastParent, OnState
  <2> QED
    BY <2>3, <2>4, <2>5, <2>6, <2>7, <2>8, Zenon
<1>4. CASE ForkCopy(c)
  <2>1. idx[run[c]] \in Slots
    BY <1>0, <1>4, Zenon DEF ForkCopy, ThreadInv, Point, ScanPcs
  <2>2. state[idx[run[c]]] = "USED" /\ idx[run[c]] # run[c] /\ idx[run[c]] # 1
    BY <1>0, <1>4, <2>1, Zenon DEF ForkCopy, ForkInv, Forking, Point, OnState
  <2>3. TypeOK'
    BY <1>0, <1>4, <2>1, <2>2, Zenon DEF ForkCopy, SlotTypeOK, CpuTypeOK, ThreadTypeOK, States,
       Pcs
  <2>4. CpuInv'
    BY <1>0, <1>4, <2>1, <2>2, ProcAssumption DEF ForkCopy, ProcAssumption, CpuTypeOK,
       ThreadTypeOK, CpuInv, Holds, OwnPcs, WaitPcs
  <2>5. ThreadInv'
    BY <1>0, <1>4, <2>1, <2>2 DEF ForkCopy, SlotTypeOK, CpuTypeOK, ThreadTypeOK,
       ThreadInv, On, OnState, OffState, Point, ScanPcs
  <2>6. ForkInv'
    BY <1>0, <1>4, <2>1, <2>2 DEF ForkCopy, SlotTypeOK, ThreadTypeOK, ForkInv, Forking,
       Point, ExitPcs, ThreadInv, OnState, OffState
  <2>7. FreshInv' /\ FamilyInv'
    BY <1>0, <1>4, <2>1, <2>2, Zenon DEF ForkCopy, SlotTypeOK, CpuTypeOK, ThreadTypeOK, FreshInv,
       FamilyInv, OnState
  <2>8. WakeInv'
    BY <1>0, <1>4, <2>1, <2>2 DEF ForkCopy, SlotTypeOK, ThreadTypeOK, WakeInv, Drowsy,
       PastParent, OnState
  <2> QED
    BY <2>3, <2>4, <2>5, <2>6, <2>7, <2>8, Zenon
<1>5. CASE ForkParent(c)
  <2>1. idx[run[c]] \in Slots
    BY <1>0, <1>5, Zenon DEF ForkParent, ThreadInv, Point, ScanPcs
  <2>2. state[idx[run[c]]] = "USED" /\ idx[run[c]] # run[c] /\ idx[run[c]] # 1
    BY <1>0, <1>5, <2>1, Zenon DEF ForkParent, ForkInv, Forking, Point, OnState
  <2>3. TypeOK'
    BY <1>0, <1>5, <2>1, <2>2, Zenon DEF ForkParent, SlotTypeOK, CpuTypeOK, ThreadTypeOK, States,
       Pcs
  <2>4. CpuInv'
    BY <1>0, <1>5, <2>1, <2>2, ProcAssumption DEF ForkParent, ProcAssumption, CpuTypeOK,
       ThreadTypeOK, CpuInv, Holds, OwnPcs, WaitPcs
  <2>5. ThreadInv'
    BY <1>0, <1>5, <2>1, <2>2 DEF ForkParent, SlotTypeOK, CpuTypeOK, ThreadTypeOK,
       ThreadInv, On, OnState, OffState, Point, ScanPcs
  <2>6. ForkInv'
    BY <1>0, <1>5, <2>1, <2>2 DEF ForkParent, SlotTypeOK, ThreadTypeOK, ForkInv, Forking,
       Point, ExitPcs, ThreadInv, OnState, OffState
  <2>7. FreshInv' /\ FamilyInv'
    BY <1>0, <1>5, <2>1, <2>2 DEF ForkParent, SlotTypeOK, CpuTypeOK, ThreadTypeOK,
       FreshInv, FamilyInv, OnState
  <2>8. WakeInv'
    BY <1>0, <1>5, <2>1, <2>2 DEF ForkParent, SlotTypeOK, ThreadTypeOK, WakeInv, Drowsy,
       PastParent, OnState
  <2> QED
    BY <2>3, <2>4, <2>5, <2>6, <2>7, <2>8, Zenon
<1>6. CASE ForkRunnable(c)
  <2>1. idx[run[c]] \in Slots
    BY <1>0, <1>6, Zenon DEF ForkRunnable, ThreadInv, Point, ScanPcs
  <2>2. state[idx[run[c]]] = "USED" /\ idx[run[c]] # run[c] /\ idx[run[c]] # 1
    BY <1>0, <1>6, <2>1, Zenon DEF ForkRunnable, ForkInv, Forking, Point, OnState
  <2>3. TypeOK'
    BY <1>0, <1>6, <2>1, <2>2, ProcAssumption DEF ForkRunnable, SlotTypeOK, CpuTypeOK,
       ThreadTypeOK, States, Pcs, ProcAssumption
  <2>4. CpuInv'
    BY <1>0, <1>6, <2>1, <2>2, ProcAssumption DEF ForkRunnable, ProcAssumption, CpuTypeOK,
       ThreadTypeOK, CpuInv, Holds, OwnPcs, WaitPcs
  <2>5. ThreadInv'
    BY <1>0, <1>6, <2>1, <2>2 DEF ForkRunnable, SlotTypeOK, CpuTypeOK, ThreadTypeOK,
       ThreadInv, On, OnState, OffState, Point, ScanPcs
  <2>6. ForkInv'
    BY <1>0, <1>6, <2>1, <2>2 DEF ForkRunnable, SlotTypeOK, ThreadTypeOK, ForkInv,
       Forking, Point, ExitPcs, ThreadInv, OnState, OffState
  <2>7. FreshInv' /\ FamilyInv'
    BY <1>0, <1>6, <2>1, <2>2 DEF ForkRunnable, SlotTypeOK, CpuTypeOK, ThreadTypeOK,
       FreshInv, FamilyInv, OnState
  <2>8. WakeInv'
    BY <1>0, <1>6, <2>1, <2>2 DEF ForkRunnable, SlotTypeOK, ThreadTypeOK, WakeInv, Drowsy,
       PastParent, OnState
  <2> QED
    BY <2>3, <2>4, <2>5, <2>6, <2>7, <2>8, Zenon
<1> QED
  BY <1>1, <1>2, <1>3, <1>4, <1>5, <1>6, Zenon DEF ForkStep
=============================================================================
