----------------------------- MODULE Interrupts -----------------------------
(***************************************************************************)
(* Spinlocks and traps: acquire(), release(), push_off() and pop_off() of  *)
(* kernel/spinlock.c, the way into the kernel and back to user mode and    *)
(* the timer interrupt of kernel/trap.c with its yield(), myproc(), and    *)
(* sys_sleep() of kernel/sysproc.c, on CPUs that share tickslock and the   *)
(* lock of each process.                                                   *)
(*                                                                         *)
(* A CPU runs a thread: the kernel thread of a process, or its own         *)
(* scheduler().  An interrupt runs on the thread it strikes, with a place  *)
(* of its own in the code (h).  acquire() is two steps, push_off() and the *)
(* test-and-set it spins on.                                               *)
(***************************************************************************)
EXTENDS Integers, FiniteSets, FiniteSetsExt

CONSTANTS NPROC, NCPU,
          WORD,        \* ticks is unsigned: 2^32
          Sleeps       \* the n of sys_sleep()

ASSUME InterruptsAssumption ==
  /\ NPROC \in Nat \ {0} /\ NCPU \in Nat \ {0} /\ WORD \in Nat \ {0}
  /\ \A n \in Sleeps : n \in Nat /\ n < WORD

Procs == 1..NPROC
Cpus == 0..NCPU - 1
Scheduler(c) == 0 - 1 - c                    \* the thread of scheduler()
Threads == Procs \cup {Scheduler(c) : c \in Cpus}
tickslock == 0
Locks == {tickslock} \cup Procs              \* p stands for p->lock
NoCpu == 0 - 1

VARIABLES
  cpu,     \* struct cpu, the registers sstatus.SIE (ie), stvec and tp, and
           \* the thread the CPU runs
  lock,    \* the CPU that holds each lock
  state,   \* p->state
  th,      \* where each thread is
  ticks

vars == <<cpu, lock, state, th, ticks>>

Thread(pc) == [pc |-> pc, h |-> "none", spin |-> FALSE, warikomi |-> FALSE, ticks0 |-> 0, n |-> 0, todo |-> {}, p |-> 1,
               id |-> NoCpu, me |-> 0, hartid |-> NoCpu]

Init ==
  /\ cpu = [c \in Cpus |-> [ie |-> FALSE, noff |-> 0, warikomi |-> FALSE, run |-> Scheduler(c),
                           stvec |-> "kernelvec", tp |-> c]]
  /\ lock = [l \in Locks |-> NoCpu]
  /\ state = [p \in Procs |-> "RUNNABLE"]
  /\ th = [t \in Threads |-> Thread(IF t \in Procs THEN "forkret" ELSE "intr_on")]
  /\ ticks = 0

Run(c) == cpu[c].run
\* The thread of c is at pc, in the interrupt handler or outside.
At(c, pc) == (IF th[Run(c)].h = "none" THEN th[Run(c)].pc ELSE th[Run(c)].h) = pc
Moved(t, pc) == IF t.h = "none" THEN [t EXCEPT !.pc = pc] ELSE [t EXCEPT !.h = pc]
Goto(c, pc) == th' = [th EXCEPT ![Run(c)] = Moved(@, pc)]

-----------------------------------------------------------------------------
(* acquire() and release().                                                *)

\* The places that call acquire(), and where they go on.
Sites == {"sys_sleep", "again", "sleep", "scan", "clockintr", "yield"}
After(site) ==
  CASE site = "sys_sleep" -> "ticks0" [] site = "again" -> "loop" [] site = "sleep" -> "asleep"
    [] site = "scan" -> "picked" [] site = "clockintr" -> "tick" [] site = "yield" -> "yielding"
Wanted(t, site) ==
  CASE site \in {"sys_sleep", "again", "clockintr"} -> tickslock
    [] site \in {"sleep", "yield"} -> t
    [] site = "scan" -> th[t].p

\* push_off() on a CPU.
PushOff(k) == [k EXCEPT !.warikomi = IF k.noff = 0 THEN k.ie ELSE @, !.noff = @ + 1, !.ie = FALSE]

PopOff_EveryLevel(k) == [k EXCEPT !.noff = @ - 1, !.ie = k.warikomi]
\* pop_off().
PopOff(k) == [k EXCEPT !.noff = @ - 1, !.ie = (k.noff = 1 /\ k.warikomi)]

AcquireOff(c) ==
  /\ \E site \in Sites : At(c, site)
  /\ ~th[Run(c)].spin
  /\ cpu' = [cpu EXCEPT ![c] = PushOff(@)]
  /\ th' = [th EXCEPT ![Run(c)].spin = TRUE]
  /\ UNCHANGED <<lock, state, ticks>>

Acquire(c) ==
  \E site \in Sites :
    LET t == Run(c)
        l == Wanted(t, site)
    IN
    /\ At(c, site) /\ th[t].spin
    /\ lock[l] = NoCpu
    /\ lock' = [lock EXCEPT ![l] = c]
    /\ th' = [th EXCEPT ![t] = [Moved(@, After(site)) EXCEPT !.spin = FALSE]]
    /\ UNCHANGED <<cpu, state, ticks>>

\* release(): the lock and then pop_off(), with interrupts off.
Release(c, l) ==
  /\ lock' = [lock EXCEPT ![l] = NoCpu]
  /\ cpu' = [cpu EXCEPT ![c] = PopOff(@)]

-----------------------------------------------------------------------------
(* scheduler(), sched() and forkret().                                     *)

IntrOn_Missing(c) ==
  /\ At(c, "intr_on")
  /\ Goto(c, "scan")
  /\ UNCHANGED <<cpu, lock, state, ticks>>
\* A new round of scheduler() begins.
IntrOn(c) ==
  /\ At(c, "intr_on")
  /\ cpu' = [cpu EXCEPT ![c].ie = TRUE]
  /\ Goto(c, "scan")
  /\ UNCHANGED <<lock, state, ticks>>

\* The scan goes on with the next process, or with a new round.
Advance(t) == IF t.p = NPROC THEN [t EXCEPT !.pc = "intr_on", !.p = 1] ELSE [t EXCEPT !.pc = "scan", !.p = @ + 1]

\* With the lock of p: swtch() to it if it is RUNNABLE.
Picked(c) ==
  LET t == Run(c)
      p == th[t].p
  IN
  /\ At(c, "picked")
  /\ IF state[p] = "RUNNABLE"
     THEN /\ state' = [state EXCEPT ![p] = "RUNNING"]
          /\ cpu' = [cpu EXCEPT ![c].run = p]
          /\ th' = [th EXCEPT ![t].pc = "back"]
          /\ lock' = lock
     ELSE /\ Release(c, p)
          /\ th' = [th EXCEPT ![t] = Advance(@)]
          /\ state' = state
  /\ ticks' = ticks

\* scheduler() after its swtch().
Back(c) ==
  LET t == Run(c) IN
  /\ At(c, "back")
  /\ Release(c, th[t].p)
  /\ th' = [th EXCEPT ![t] = Advance(@)]
  /\ UNCHANGED <<state, ticks>>

\* sched(): warikomi goes with the thread.
Sched(c) ==
  LET p == Run(c) IN
  /\ At(c, "sched")
  /\ th' = [th EXCEPT ![p] = [Moved(@, "resumed") EXCEPT !.warikomi = cpu[c].warikomi]]
  /\ cpu' = [cpu EXCEPT ![c].run = Scheduler(c)]
  /\ UNCHANGED <<lock, state, ticks>>

\* The end of sched(), and release(&p->lock) by sleep() or yield().
Resumed(c) ==
  LET p == Run(c) IN
  /\ At(c, "resumed")
  /\ lock' = [lock EXCEPT ![p] = NoCpu]
  /\ cpu' = [cpu EXCEPT ![c] = PopOff([@ EXCEPT !.warikomi = th[p].warikomi])]
  /\ Goto(c, IF th[p].h = "none" THEN "again" ELSE "iret")
  /\ UNCHANGED <<state, ticks>>

\* The first run of a process.
Forkret(c) ==
  /\ At(c, "forkret")
  /\ Release(c, Run(c))
  /\ Goto(c, "usertrapret")
  /\ UNCHANGED <<state, ticks>>

-----------------------------------------------------------------------------
(* usertrap() and usertrapret().                                           *)

\* uservec loads tp from the trap frame, usertrap() redirects traps.  hartid is
\* dead until usertrapret() sets it again.
EnterKernel(c) == [cpu[c] EXCEPT !.ie = FALSE, !.tp = th[Run(c)].hartid, !.stvec = "kernelvec"]

\* ecall, and usertrap() up to intr_on().
Usertrap(c) ==
  /\ At(c, "user")
  /\ cpu' = [cpu EXCEPT ![c] = [EnterKernel(c) EXCEPT !.ie = TRUE]]
  /\ th' = [th EXCEPT ![Run(c)].pc = "syscall", ![Run(c)].hartid = NoCpu]
  /\ UNCHANGED <<lock, state, ticks>>

\* myproc(): push_off() and mycpu() ...
Mycpu(c) ==
  /\ At(c, "usertrapret")
  /\ cpu' = [cpu EXCEPT ![c] = PushOff(@)]
  /\ th' = [th EXCEPT ![Run(c)].pc = "mycpu", ![Run(c)].id = cpu[c].tp]
  /\ UNCHANGED <<lock, state, ticks>>

\* ... then c->proc and pop_off().
Myproc(c) ==
  /\ At(c, "mycpu")
  /\ cpu' = [cpu EXCEPT ![c] = PopOff(@)]
  /\ th' = [th EXCEPT ![Run(c)].pc = "intr_off", ![Run(c)].id = NoCpu, ![Run(c)].me = Run(th[Run(c)].id)]
  /\ UNCHANGED <<lock, state, ticks>>

IntrOff(c) ==
  /\ At(c, "intr_off")
  /\ cpu' = [cpu EXCEPT ![c].ie = FALSE]
  /\ Goto(c, "userret")
  /\ UNCHANGED <<lock, state, ticks>>

\* Traps are redirected, the trap frame of p gets r_tp(), and sret turns
\* interrupts on.
Userret(c) ==
  /\ At(c, "userret")
  /\ cpu' = [cpu EXCEPT ![c].ie = TRUE, ![c].stvec = "uservec"]
  /\ th' = [th EXCEPT ![Run(c)] = Thread("user"), ![th[Run(c)].me].hartid = cpu[c].tp]
  /\ UNCHANGED <<lock, state, ticks>>

\* syscall() with a number that is no system call.
UnknownCall(c) ==
  /\ At(c, "syscall")
  /\ Goto(c, "usertrapret")
  /\ UNCHANGED <<cpu, lock, state, ticks>>

-----------------------------------------------------------------------------
(* sys_sleep(), called with interrupts on.                                 *)

SysSleep(c, n) ==
  /\ At(c, "syscall")
  /\ th' = [th EXCEPT ![Run(c)].pc = "sys_sleep", ![Run(c)].n = n]
  /\ UNCHANGED <<cpu, lock, state, ticks>>

Ticks0(c) ==
  /\ At(c, "ticks0")
  /\ th' = [th EXCEPT ![Run(c)].pc = "loop", ![Run(c)].ticks0 = ticks]
  /\ UNCHANGED <<cpu, lock, state, ticks>>

\* ticks - ticks0, unsigned.
Elapsed(t) == (ticks - t.ticks0) % WORD

SleepReturns(c) ==
  /\ Release(c, tickslock)
  /\ th' = [th EXCEPT ![Run(c)] = Thread("usertrapret")]
  /\ UNCHANGED <<state, ticks>>

TimeUp(c) == At(c, "loop") /\ Elapsed(th[Run(c)]) >= th[Run(c)].n /\ SleepReturns(c)

\* killed() may be true; kill() is modelled in Proc.
KilledReturns(c) == At(c, "loop") /\ Elapsed(th[Run(c)]) < th[Run(c)].n /\ SleepReturns(c)

NotYet(c) ==
  /\ At(c, "loop") /\ Elapsed(th[Run(c)]) < th[Run(c)].n
  /\ Goto(c, "sleep")
  /\ UNCHANGED <<cpu, lock, state, ticks>>

\* sleep() with p->lock: release(lk), SLEEPING, and then sched().
Asleep(c) ==
  /\ At(c, "asleep")
  /\ Release(c, tickslock)
  /\ state' = [state EXCEPT ![Run(c)] = "SLEEPING"]
  /\ Goto(c, "sched")
  /\ UNCHANGED ticks

-----------------------------------------------------------------------------
(* The timer interrupt: usertrap() or kerneltrap(), devintr(), clockintr() *)
(* and yield().                                                            *)

YieldOrReturn(c) == IF Run(c) \in Procs THEN "yield" ELSE "iret"

Timer(c) ==
  /\ cpu[c].ie
  /\ cpu' = [cpu EXCEPT ![c] = IF At(c, "user") THEN EnterKernel(c) ELSE [@ EXCEPT !.ie = FALSE]]
  /\ th' = [th EXCEPT ![Run(c)].h = IF c = 0 THEN "clockintr" ELSE YieldOrReturn(c), ![Run(c)].hartid = NoCpu]
  /\ UNCHANGED <<lock, state, ticks>>

Tick(c) ==
  /\ At(c, "tick")
  /\ ticks' = (ticks + 1) % WORD
  /\ th' = [th EXCEPT ![Run(c)].h = "wakeup", ![Run(c)].todo = Procs \ {Run(c)}]
  /\ UNCHANGED <<cpu, lock, state>>

Wakeup_First(c) ==
  LET t == Run(c)
      p == Min(th[t].todo)
  IN
  /\ At(c, "wakeup") /\ th[t].todo # {}
  /\ lock[p] = NoCpu
  /\ state' = [state EXCEPT ![p] = IF @ = "SLEEPING" THEN "RUNNABLE" ELSE @]
  /\ th' = [th EXCEPT ![t].todo = {}]
  /\ UNCHANGED <<cpu, lock, ticks>>
\* wakeup(&ticks) takes the lock of each process in turn.
Wakeup(c) ==
  LET t == Run(c)
      p == Min(th[t].todo)
  IN
  /\ At(c, "wakeup") /\ th[t].todo # {}
  /\ lock[p] = NoCpu
  /\ state' = [state EXCEPT ![p] = IF @ = "SLEEPING" THEN "RUNNABLE" ELSE @]
  /\ th' = [th EXCEPT ![t].todo = @ \ {p}]
  /\ UNCHANGED <<cpu, lock, ticks>>

Clocked(c) ==
  /\ At(c, "wakeup") /\ th[Run(c)].todo = {}
  /\ Release(c, tickslock)
  /\ Goto(c, YieldOrReturn(c))
  /\ UNCHANGED <<state, ticks>>

Yielding(c) ==
  /\ At(c, "yielding")
  /\ state' = [state EXCEPT ![Run(c)] = "RUNNABLE"]
  /\ Goto(c, "sched")
  /\ UNCHANGED <<cpu, lock, ticks>>

\* The end of kerneltrap(): sret brings back the interrupts of the code that was
\* struck; or of usertrap().
Iret(c) ==
  LET user == th[Run(c)].pc = "user" IN
  /\ At(c, "iret")
  /\ cpu' = [cpu EXCEPT ![c].ie = ~user]
  /\ th' = [th EXCEPT ![Run(c)].h = "none", ![Run(c)].pc = IF user THEN "usertrapret" ELSE @]
  /\ UNCHANGED <<lock, state, ticks>>

-----------------------------------------------------------------------------
Step(c) ==
  \/ AcquireOff(c)
  \/ IntrOn(c) \/ Picked(c) \/ Back(c) \/ Sched(c) \/ Resumed(c) \/ Forkret(c)
  \/ Mycpu(c) \/ Myproc(c) \/ IntrOff(c) \/ Userret(c)
  \/ UnknownCall(c) \/ (\E n \in Sleeps : SysSleep(c, n))
  \/ Ticks0(c) \/ TimeUp(c) \/ KilledReturns(c) \/ NotYet(c) \/ Asleep(c)
  \/ Tick(c) \/ Clocked(c) \/ Yielding(c) \/ Iret(c)

Next ==
  \E c \in Cpus : Step(c) \/ Acquire(c) \/ Wakeup(c) \/ Timer(c) \/ Usertrap(c)

\* A CPU goes on, and obtains a lock that is free again and again.
Fairness == \A c \in Cpus : WF_vars(Step(c)) /\ SF_vars(Acquire(c) \/ Wakeup(c))

Spec == Init /\ [][Next]_vars /\ Fairness

-----------------------------------------------------------------------------
(* Properties.                                                             *)

HeldBy(c) == {l \in Locks : lock[l] = c}

\* noff counts the locks a CPU holds or spins for, and myproc(), and while there is one the
\* CPU takes no interrupt: the handler cannot spin for a lock that the code it
\* interrupted holds, and acquire() never finds its lock held by its own CPU.
OffWhileLocked ==
  \A c \in Cpus :
    /\ cpu[c].noff = Cardinality(HeldBy(c)) + (IF th[Run(c)].spin \/ At(c, "mycpu") THEN 1 ELSE 0)
    /\ cpu[c].noff > 0 => ~cpu[c].ie
    /\ th[Run(c)].spin => \A site \in Sites : At(c, site) => lock[Wanted(Run(c), site)] # c

\* Interrupts are on in user mode and in a system call without locks, on
\* whatever CPU the thread has come to run, and off in the handler: pop_off()
\* gives back to every thread what push_off() took from that thread.
ThreadKeepsInterrupts ==
  \A c \in Cpus :
    /\ th[Run(c)].h # "none" => ~cpu[c].ie
    /\ th[Run(c)].h = "none" /\ (At(c, "user") \/ At(c, "syscall") \/ ((At(c, "sys_sleep") \/ At(c, "again")) /\ ~th[Run(c)].spin))
         => cpu[c].ie

\* A CPU that may take a trap has stvec set for the mode it is in, tp names the
\* CPU whenever kernel code runs, and usertrapret() prepares the trap frame of the
\* thread that runs it, although it may move to another CPU up to intr_off().
TrapsArrive ==
  \A c \in Cpus :
    /\ cpu[c].ie => (cpu[c].stvec = "uservec" <=> At(c, "user"))
    /\ cpu[c].tp = c
    /\ At(c, "user") => th[Run(c)].hartid = c
    /\ \A p \in Procs : th[p].me \in {0, p}

\* A process sleeps in sys_sleep() only while its time has not come: the tick
\* that ends its sleep finds it asleep or not yet past its test.  The wrap of
\* ticks changes nothing.
SleeperOnTime ==
  \A p \in Procs : state[p] = "SLEEPING" /\ lock[tickslock] = NoCpu => Elapsed(th[p]) < th[p].n

\* CPU 0 takes the timer interrupt again and again, also when all processes
\* sleep: time goes on.
TimeGoesOn == []<>(cpu[0].ie)

\* push_off() and pop_off() nest: interrupts are off on a CPU while it has a lock,
\* every thread gets back the interrupts it had, and a trap finds the handler and
\* the CPU of its mode.
InterruptsNest == OffWhileLocked /\ ThreadKeepsInterrupts /\ TrapsArrive
=============================================================================
