----------------------------- MODULE ProcProofs -----------------------------
(***************************************************************************)
(* exit(), kill(), wait() and sleep() keep the invariant Inv of ProcSteps, *)
(* and what follows from it: one CPU per kernel stack, the lock order, no  *)
(* slot freed in use, no orphans and no lost wakeup.                       *)
(***************************************************************************)
EXTENDS ProcSteps

\* A step of the thread p that runs on c, outside fork(), which takes and releases
\* p->lock and wait_lock as its place says, keeps CpuInv.
LEMMA CpuStep ==
  ASSUME Inv, NEW c \in Cpus, NEW p \in Slots, run[c] = p, UNCHANGED <<cur, run>>,
         pc[p] # "fork", pc'[p] # "fork",
         \A x \in Slots : x # p => pc'[x] = pc[x] /\ idx'[x] = idx[x] /\ plock'[x] = plock[x],
         plock'[p] = IF pc'[p] \in OwnPcs THEN c
                     ELSE IF pc[p] \in OwnPcs THEN NoCpu ELSE plock[p],
         wait_lock' = IF pc'[p] \in WaitPcs THEN c
                      ELSE IF pc[p] \in WaitPcs THEN NoCpu ELSE wait_lock,
         pc[p] \in WaitPcs \/ pc'[p] \notin WaitPcs \/ wait_lock = NoCpu
  PROVE  CpuInv'
<1>1. /\ p # NoProc /\ cur[c] = p /\ state[p] = OnState(p)
      /\ \A d \in Cpus : run[d] = p \/ cur[d] = p => d = c
  BY RunFacts, SlotFacts, Zenon DEF NoProc
<1>2. \A d \in Cpus : run[d] # NoProc => run[d] \in Slots
  BY Zenon DEF Inv, TypeOK, CpuTypeOK
<1>3. \A d \in Cpus, x \in Slots : x # p => (Holds(d, x)' <=> Holds(d, x))
  BY <1>1, <1>2, Zenon DEF Holds
<1>4. \A x \in Slots : pc[x] = "fork" => idx[x] # p
  <2>1. \A x \in Slots : pc[x] = "fork" => state[idx[x]] = "USED"
    BY Zenon DEF Inv, ForkInv, Forking, Point
  <2>2. state[p] # "USED"
    BY <1>1, Zenon DEF OnState
  <2> QED
    BY <2>1, <2>2, Zenon
<1>5. \A d \in Cpus : /\ Holds(d, p)' <=> d = c /\ pc'[p] \in OwnPcs
                      /\ Holds(d, p) <=> d = c /\ pc[p] \in OwnPcs
  BY <1>1, <1>2, <1>4, Zenon DEF Holds
<1>6. \A d \in Cpus, x \in Slots : plock'[x] = d <=> Holds(d, x)'
  <2>1. \A d \in Cpus, x \in Slots : plock[x] = d <=> Holds(d, x)
    BY Zenon DEF Inv, CpuInv
  <2>2. NoCpu \notin Cpus
    BY ProcAssumption, Zenon DEF ProcAssumption
  <2>3. \A d \in Cpus, x \in Slots : x # p => (plock'[x] = d <=> Holds(d, x)')
    BY <1>3, <2>1
  <2>4. \A d \in Cpus : plock'[p] = d <=> Holds(d, p)'
    BY <1>5, <2>1, <2>2
  <2> QED
    BY <2>3, <2>4
<1>7. \A d \in Cpus : wait_lock' = d <=> run[d] # NoProc /\ pc'[run[d]] \in WaitPcs
  <2>1. \A d \in Cpus : wait_lock = d <=> run[d] # NoProc /\ pc[run[d]] \in WaitPcs
    BY Zenon DEF Inv, CpuInv
  <2>2. NoCpu \notin Cpus
    BY ProcAssumption, Zenon DEF ProcAssumption
  <2>3. \A d \in Cpus \ {c} : run[d] # NoProc => run[d] # p /\ pc'[run[d]] = pc[run[d]]
    BY <1>1, <1>2, Zenon
  <2>4. pc[p] \in WaitPcs \/ pc'[p] \in WaitPcs =>
          \A d \in Cpus \ {c} : ~(run[d] # NoProc /\ pc[run[d]] \in WaitPcs)
    BY <1>1, <2>1, <2>2
  <2> QED
    BY <1>1, <2>1, <2>2, <2>3, <2>4
<1> QED
  BY <1>6, <1>7 DEF Inv, CpuInv

\* exit() with reparent() and wakeup().
LEMMA ExitStepInv ==
  ASSUME Inv, NEW c \in Cpus, ExitStep(c)
  PROVE  Inv'
<1> USE SlotFacts DEF Inv, TypeOK, At, Goto, Return, NoProc, initproc, slotVars, lockVars,
             cpuVars, locals
<1>0. run[c] # NoProc =>
        /\ run[c] \in Slots /\ cur[c] = run[c] /\ On(run[c])
        /\ state[run[c]] = OnState(run[c]) /\ pc[run[c]] # "dead"
        /\ \A d \in Cpus : run[d] = run[c] \/ cur[d] = run[c] => d = c
  BY RunFacts, Zenon
<1>1. CASE ExitLock(c)
  <2>1. TypeOK'
    BY <1>0, <1>1, Zenon DEF ExitLock, SlotTypeOK, CpuTypeOK, ThreadTypeOK, States, Pcs
  <2>2. CpuInv'
    BY <1>0, <1>1, ProcAssumption DEF ExitLock, ProcAssumption, CpuTypeOK, ThreadTypeOK,
       CpuInv, Holds, OwnPcs, WaitPcs
  <2>3. ThreadInv'
    BY <1>0, <1>1 DEF ExitLock, SlotTypeOK, CpuTypeOK, ThreadTypeOK, ThreadInv, On,
       OnState, OffState, Point, ScanPcs
  <2>4. ForkInv'
    BY <1>0, <1>1 DEF ExitLock, SlotTypeOK, ThreadTypeOK, ForkInv, Forking, Point,
       ExitPcs, ThreadInv, OnState, OffState
  <2>5. FreshInv' /\ FamilyInv'
    BY <1>0, <1>1, Zenon DEF ExitLock, SlotTypeOK, CpuTypeOK, ThreadTypeOK, FreshInv, FamilyInv,
       OnState
  <2>6. WakeInv'
    BY <1>0, <1>1 DEF ExitLock, SlotTypeOK, ThreadTypeOK, WakeInv, Drowsy, PastParent,
       OnState
  <2> QED
    BY <2>1, <2>2, <2>3, <2>4, <2>5, <2>6, Zenon
<1>2. CASE Reparent(c)
  <2>1. TypeOK'
    <3>1. SlotTypeOK' /\ CpuTypeOK'
      BY <1>2, Zenon DEF Reparent, Children, SlotTypeOK, CpuTypeOK
    <3>2. ThreadTypeOK'
      BY <1>0, <1>2 DEF Reparent, ThreadTypeOK, Pcs
    <3> QED
      BY <3>1, <3>2, Zenon
  <2>2. CpuInv'
    BY <1>0, <1>2, ProcAssumption DEF Reparent, Children, ProcAssumption, CpuTypeOK,
       ThreadTypeOK, CpuInv, Holds, OwnPcs, WaitPcs
  <2>3. ThreadInv'
    BY <1>0, <1>2 DEF Reparent, Children, SlotTypeOK, CpuTypeOK, ThreadTypeOK, ThreadInv,
       On, OnState, OffState, Point, ScanPcs
  <2>4. ForkInv'
    <3>1. \A x \in Slots : Forking(x)' = Forking(x) /\ idx'[x] = idx[x] /\ (x # run[c] => Point(x)' = Point(x))
      BY <1>0, <1>2 DEF Reparent, ThreadTypeOK, Forking, Point
    <3>2. run[c] # initproc
      BY <1>2, Zenon DEF Reparent, ForkInv, ExitPcs, Point
    <3> QED
      BY <1>2, <3>1, <3>2, Zenon DEF Reparent, ForkInv
  <2>5. FreshInv' /\ FamilyInv'
    BY <1>0, <1>2 DEF Reparent, Children, SlotTypeOK, CpuTypeOK, ThreadTypeOK, FreshInv,
       FamilyInv, OnState, ForkInv, Point, ExitPcs
  <2>6. WakeInv'
    <3>1. run[c] # initproc /\ widx[run[c]] = 1
      BY <1>0, <1>2, Zenon DEF Reparent, ForkInv, ExitPcs, Point, ThreadInv
    <3>2. \A x \in Slots : x # run[c] => pc[x] \notin WaitPcs
      BY <1>0, <1>2, WaitFacts, Zenon DEF Reparent, WaitPcs
    <3>3. CASE parent' = parent /\ pc' = [pc EXCEPT ![run[c]] = "wake_parent"]
      <4>1. \A x \in Slots : Drowsy(x)' = Drowsy(x)
        BY <1>0, <1>2, <3>3, Zenon DEF Reparent, ThreadTypeOK, Drowsy
      <4>2. \A x \in Slots : parent[x] \in Slots => ~PastParent(x)'
        <5>1. \A x \in Slots : x # run[c] => pc'[x] \notin WaitPcs
          BY <3>2, <3>3, Zenon DEF ThreadTypeOK
        <5>2. pc'[run[c]] = "wake_parent" /\ widx'[run[c]] = 1
          BY <1>0, <1>2, <3>1, <3>3, Zenon DEF Reparent, ThreadTypeOK
        <5> QED
          BY <3>3, <5>1, <5>2, SlotBounds DEF PastParent, WaitPcs
      <4> QED
        BY <1>0, <1>2, <3>2, <3>3, <4>1, <4>2 DEF Reparent, SlotTypeOK, ThreadTypeOK, WakeInv,
           WaitPcs
    <3>4. ASSUME NEW q \in Slots, parent[q] = run[c], parent' = [parent EXCEPT ![q] = initproc],
                 pc' = [pc EXCEPT ![run[c]] = "wake_init"]
          PROVE  WakeInv'
      <4>1. q # run[c]
        BY <3>4, <1>0, Zenon DEF FamilyInv
      <4>2. \A x \in Slots : Drowsy(x)' = Drowsy(x) /\ ~PastParent(x)'
        BY <1>0, <1>2, <3>2, <3>4, Zenon DEF Reparent, ThreadTypeOK, Drowsy, PastParent, WaitPcs
      <4> QED
        BY <1>0, <1>2, <3>1, <3>2, <3>4, <4>1, <4>2
           DEF Reparent, SlotTypeOK, ThreadTypeOK, WakeInv, WaitPcs
    <3> QED
      BY <1>2, <3>3, <3>4, Zenon DEF Reparent, Children
  <2> QED
    BY <2>1, <2>2, <2>3, <2>4, <2>5, <2>6, Zenon
<1>3. CASE WakeInit(c)
  <2>1. widx[run[c]] \in Slots
    BY <1>0, <1>3, Zenon DEF WakeInit, Wakeup, ThreadTypeOK
  <2>2. widx[run[c]] \in Slots /\ plock[widx[run[c]]] = NoCpu /\ state[widx[run[c]]] = "SLEEPING" => ~On(widx[run[c]]) /\ OffState(widx[run[c]])
    BY <1>0, <1>3, <2>1, OffFacts, Zenon
  <2>3. TypeOK'
    <3>1. SlotTypeOK' /\ CpuTypeOK'
      BY <1>0, <1>3, <2>1, Zenon DEF WakeInit, Wakeup, SlotTypeOK, CpuTypeOK, States
    <3>2. ThreadTypeOK'
      BY <1>0, <1>3, <2>1, SlotBounds DEF WakeInit, Wakeup, LastSlot, ThreadTypeOK, Pcs
    <3> QED
      BY <3>1, <3>2, Zenon
  <2>4. CpuInv'
    BY <1>0, <1>3, ProcAssumption DEF WakeInit, Wakeup, ProcAssumption, CpuTypeOK,
       ThreadTypeOK, CpuInv, Holds, OwnPcs, WaitPcs
  <2>5. ThreadInv'
    BY <1>0, <1>3, <2>1, <2>2 DEF WakeInit, Wakeup, LastSlot, SlotTypeOK, CpuTypeOK,
       ThreadTypeOK, ThreadInv, On, OnState, OffState, Point, ScanPcs
  <2>6. ForkInv'
    <3>1. \A x \in Slots : Forking(x)' = Forking(x) /\ idx'[x] = idx[x] /\ (x # run[c] => Point(x)' = Point(x))
      BY <1>0, <1>3 DEF WakeInit, Wakeup, ThreadTypeOK, Forking, Point
    <3>2. run[c] # initproc
      BY <1>3, Zenon DEF WakeInit, Wakeup, ForkInv, ExitPcs, Point
    <3>3. \A x \in Slots : state'[x] # state[x] => state[x] = "SLEEPING" /\ state'[x] = "RUNNABLE"
      BY <1>3, Zenon DEF WakeInit, Wakeup, SlotTypeOK
    <3>4. \A x \in Slots : Forking(x) => idx[x] \in Slots
      BY Zenon DEF ThreadInv, Forking, ScanPcs
    <3> QED
      BY <1>3, <3>1, <3>2, <3>3, <3>4 DEF ForkInv
  <2>7. FreshInv' /\ FamilyInv'
    BY <1>0, <1>3, <2>1, <2>2 DEF WakeInit, Wakeup, LastSlot, SlotTypeOK, CpuTypeOK,
       ThreadTypeOK, FreshInv, FamilyInv, OnState
  <2>8. WakeInv'
    <3>1. \A x \in Slots : x # run[c] => pc[x] \notin WaitPcs
      BY <1>0, <1>3, WaitFacts, Zenon DEF WakeInit, Wakeup, WaitPcs
    <3>2. \A x \in Slots : x # run[c] /\ plock[x] = NoCpu => pc[x] # "sleep_mark"
      BY ProcAssumption DEF ProcAssumption, ThreadInv, OffState, On, CpuInv, Holds, OwnPcs
    <3>3. \A x \in Slots : /\ Drowsy(x)' => Drowsy(x)
                           /\ state'[x] = "ZOMBIE" <=> state[x] = "ZOMBIE"
                           /\ pc'[x] # "scan" \/ (pc[x] = "scan" /\ x # run[c])
                           /\ x # run[c] => pc'[x] = pc[x] /\ widx'[x] = widx[x]
      BY <1>0, <1>3, Zenon DEF WakeInit, Wakeup, SlotTypeOK, ThreadTypeOK, Drowsy
    <3>4. widx[run[c]] = initproc => ~Drowsy(initproc)'
      <4>1. run[c] # initproc /\ (state[initproc] = "SLEEPING" => chan[initproc] = initproc)
        BY <1>3, Zenon DEF WakeInit, Wakeup, ForkInv, ExitPcs, Point, ThreadInv
      <4> QED
        BY <1>0, <1>3, <3>1, <3>2, <4>1 DEF WakeInit, Wakeup, SlotTypeOK, ThreadTypeOK, Drowsy, WaitPcs
    <3>5. \A x \in Slots : PastParent(x)' => PastParent(x)
      BY <1>0, <1>3, <3>3 DEF WakeInit, Wakeup, ThreadTypeOK, PastParent
    <3>6. parent' = parent /\ \A x \in Slots : pc'[x] = "scan" => idx'[x] = idx[x]
      BY <1>3, Zenon DEF WakeInit, Wakeup
    <3>7. /\ \A x \in Slots : pc[x] = "wake_init" => x = run[c]
          /\ widx[run[c]] # initproc => widx[run[c]] # 1
      BY <3>1, Zenon DEF WaitPcs
    <3> QED
      BY <3>3, <3>4, <3>5, <3>6, <3>7 DEF WakeInv
  <2> QED
    BY <2>3, <2>4, <2>5, <2>6, <2>7, <2>8, Zenon
<1>4. CASE WakeParent(c)
  <2>1. widx[run[c]] \in Slots
    BY <1>0, <1>4, Zenon DEF WakeParent, Wakeup, ThreadTypeOK
  <2>2. widx[run[c]] \in Slots /\ plock[widx[run[c]]] = NoCpu /\ state[widx[run[c]]] = "SLEEPING" => ~On(widx[run[c]]) /\ OffState(widx[run[c]])
    BY <1>0, <1>4, <2>1, OffFacts, Zenon
  <2>3. TypeOK'
    <3>1. SlotTypeOK' /\ CpuTypeOK'
      BY <1>0, <1>4, <2>1, Zenon DEF WakeParent, Wakeup, SlotTypeOK, CpuTypeOK, States
    <3>2. ThreadTypeOK'
      BY <1>0, <1>4, <2>1, SlotBounds DEF WakeParent, Wakeup, LastSlot, ThreadTypeOK, Pcs
    <3> QED
      BY <3>1, <3>2, Zenon
  <2>4. CpuInv'
    BY <1>0, <1>4, ProcAssumption DEF WakeParent, Wakeup, ProcAssumption, CpuTypeOK,
       ThreadTypeOK, CpuInv, Holds, OwnPcs, WaitPcs
  <2>5. ThreadInv'
    BY <1>0, <1>4, <2>1, <2>2 DEF WakeParent, Wakeup, LastSlot, SlotTypeOK, CpuTypeOK,
       ThreadTypeOK, ThreadInv, On, OnState, OffState, Point, ScanPcs
  <2>6. ForkInv'
    BY <1>0, <1>4, <2>1, <2>2 DEF WakeParent, Wakeup, LastSlot, SlotTypeOK, ThreadTypeOK,
       ForkInv, Forking, Point, ExitPcs, ThreadInv, OnState, OffState
  <2>7. FreshInv' /\ FamilyInv'
    BY <1>0, <1>4, <2>1, <2>2 DEF WakeParent, Wakeup, LastSlot, SlotTypeOK, CpuTypeOK,
       ThreadTypeOK, FreshInv, FamilyInv, OnState
  <2>8. WakeInv'
    <3>1. \A x \in Slots : x # run[c] => pc[x] \notin WaitPcs
      BY <1>0, <1>4, WaitFacts, Zenon DEF WakeParent, Wakeup, WaitPcs
    <3>2. \A x \in Slots : x # run[c] /\ plock[x] = NoCpu => pc[x] # "sleep_mark"
      BY ProcAssumption DEF ProcAssumption, ThreadInv, OffState, On, CpuInv, Holds, OwnPcs
    <3>3. \A x \in Slots : /\ Drowsy(x)' => Drowsy(x)
                           /\ state'[x] = "ZOMBIE" <=> state[x] = "ZOMBIE"
                           /\ pc'[x] # "scan" \/ (pc[x] = "scan" /\ x # run[c])
                           /\ x # run[c] => pc'[x] = pc[x] /\ widx'[x] = widx[x]
      BY <1>0, <1>4, Zenon DEF WakeParent, Wakeup, SlotTypeOK, ThreadTypeOK, Drowsy
    <3>4. \A x \in Slots : x = widx[run[c]] /\ x = parent[run[c]] => ~Drowsy(x)'
      <4> SUFFICES ASSUME NEW x \in Slots, x = widx[run[c]], x = parent[run[c]]
                   PROVE  ~Drowsy(x)'
        OBVIOUS
      <4>1. run[c] \in Slots /\ x # run[c] /\ (state[x] = "SLEEPING" => chan[x] = x)
        BY <1>0, <1>4, Zenon DEF WakeParent, FamilyInv, ThreadInv
      <4>2. state'[x] # "SLEEPING" /\ plock[x] = NoCpu
        BY <1>4, <4>1, Zenon DEF WakeParent, Wakeup, SlotTypeOK
      <4>3. pc'[x] \notin {"sleep", "sleep_release", "sleep_mark"}
        BY <3>1, <3>2, <3>3, <4>1, <4>2 DEF WaitPcs
      <4> QED
        BY <4>2, <4>3, Zenon DEF Drowsy
    <3>5. \A x \in Slots : PastParent(x)' => PastParent(x) \/ (x = run[c] /\ parent[x] \notin Slots)
                                             \/ (x = run[c] /\ parent[x] = widx[x])
      <4> DEFINE p == run[c]
      <4>1. ASSUME PastParent(p)', parent[p] \in Slots
            PROVE  PastParent(p) \/ parent[p] = widx[p]
        <5>1. pc[p] = "wake_parent" /\ parent'[p] = parent[p] /\ run' = run
          BY <1>4, Zenon DEF WakeParent, Wakeup
        <5>2. parent[p] \in Nat /\ widx[p] \in Nat /\ parent[p] <= NPROC
          BY <2>1, <4>1, SlotBounds, Zenon
        <5>3. widx[p] # NPROC => pc'[p] = "wake_parent" /\ widx'[p] = widx[p] + 1
          BY <1>0, <1>4, <5>1, Zenon DEF WakeParent, Wakeup, LastSlot, ThreadTypeOK
        <5>4. widx[p] # NPROC => widx[p] + 1 > parent[p]
          BY <4>1, <5>1, <5>3, Zenon DEF PastParent
        <5>5. parent[p] = widx[p] \/ widx[p] > parent[p]
          <6> HIDE DEF p
          <6> QED
            BY <5>2, <5>4
        <5> QED
          BY <5>1, <5>5, Zenon DEF PastParent
      <4> QED
        BY <1>0, <1>4, <3>3, <4>1, Zenon DEF WakeParent, Wakeup, PastParent
    <3>6. parent' = parent /\ \A x \in Slots : pc'[x] = "scan" => idx'[x] = idx[x]
      BY <1>4, Zenon DEF WakeParent, Wakeup
    <3>7. \A x \in Slots : pc[x] # "wake_init"
      BY <1>4, <3>1, Zenon DEF WakeParent, WaitPcs
    <3>8. \A x, y \in Slots : parent[y] = x /\ Drowsy(x)' => ~PastParent(y)'
      BY <3>3, <3>4, <3>5 DEF WakeInv
    <3> QED
      BY <3>3, <3>6, <3>7, <3>8 DEF WakeInv
  <2> QED
    BY <2>3, <2>4, <2>5, <2>6, <2>7, <2>8, Zenon
<1>5. CASE ExitOwnLock(c)
  <2>1. TypeOK'
    BY <1>0, <1>5, Zenon DEF ExitOwnLock, SlotTypeOK, CpuTypeOK, ThreadTypeOK, States, Pcs
  <2>2. CpuInv'
    BY <1>0, <1>5, ProcAssumption DEF ExitOwnLock, ProcAssumption, CpuTypeOK,
       ThreadTypeOK, CpuInv, Holds, OwnPcs, WaitPcs
  <2>3. ThreadInv'
    BY <1>0, <1>5 DEF ExitOwnLock, SlotTypeOK, CpuTypeOK, ThreadTypeOK, ThreadInv, On,
       OnState, OffState, Point, ScanPcs
  <2>4. ForkInv'
    BY <1>0, <1>5 DEF ExitOwnLock, SlotTypeOK, ThreadTypeOK, ForkInv, Forking, Point,
       ExitPcs, ThreadInv, OnState, OffState
  <2>5. FreshInv' /\ FamilyInv'
    BY <1>0, <1>5 DEF ExitOwnLock, SlotTypeOK, CpuTypeOK, ThreadTypeOK, FreshInv,
       FamilyInv, OnState
  <2>6. WakeInv'
    BY <1>0, <1>5 DEF ExitOwnLock, SlotTypeOK, ThreadTypeOK, WakeInv, Drowsy, PastParent,
       OnState
  <2> QED
    BY <2>1, <2>2, <2>3, <2>4, <2>5, <2>6, Zenon
<1>6. CASE ExitZombie(c)
  <2>1. TypeOK'
    BY <1>0, <1>6, Zenon DEF ExitZombie, SlotTypeOK, CpuTypeOK, ThreadTypeOK, States, Pcs
  <2>2. CpuInv'
    BY <1>0, <1>6, ProcAssumption DEF ExitZombie, ProcAssumption, CpuTypeOK, ThreadTypeOK,
       CpuInv, Holds, OwnPcs, WaitPcs
  <2>3. ThreadInv'
    BY <1>0, <1>6 DEF ExitZombie, SlotTypeOK, CpuTypeOK, ThreadTypeOK, ThreadInv, On,
       OnState, OffState, Point, ScanPcs
  <2>4. ForkInv'
    BY <1>0, <1>6 DEF ExitZombie, SlotTypeOK, ThreadTypeOK, ForkInv, Forking, Point,
       ExitPcs, ThreadInv, OnState, OffState
  <2>5. FreshInv' /\ FamilyInv'
    BY <1>0, <1>6 DEF ExitZombie, SlotTypeOK, CpuTypeOK, ThreadTypeOK, FreshInv,
       FamilyInv, OnState
  <2>6. WakeInv'
    BY <1>0, <1>6, WaitFacts DEF ExitZombie, SlotTypeOK, ThreadTypeOK, WakeInv, Drowsy,
       PastParent, OnState, WaitPcs, FamilyInv
  <2> QED
    BY <2>1, <2>2, <2>3, <2>4, <2>5, <2>6, Zenon
<1> QED
  BY <1>1, <1>2, <1>3, <1>4, <1>5, <1>6, Zenon DEF ExitStep

\* kill().
LEMMA KillScanInv ==
  ASSUME Inv, NEW c \in Cpus, KillScan(c)
  PROVE  Inv'
<1>p. PICK p \in Slots : run[c] = p
  BY RunFacts, Zenon DEF KillScan, At
<1>0. /\ cur[c] = p /\ On(p) /\ state[p] = OnState(p) /\ p # NoProc
      /\ \A d \in Cpus : run[d] = p \/ cur[d] = p => d = c
  BY <1>p, RunFacts, Zenon DEF KillScan, At
<1>1. /\ pc[p] = "kill"
      /\ UNCHANGED <<chan, pid, parent, plock, wait_lock, cur, run, nextpid, resume>>
  BY <1>p, Zenon DEF KillScan, At, Return, lockVars, cpuVars
<1>2. idx[p] \in Slots /\ plock[idx[p]] = NoCpu /\ arg[p] \in KillPids /\ state[p] = "RUNNING"
  BY <1>p, <1>0, <1>1, Zenon DEF KillScan, Inv, ThreadInv, Point, ScanPcs, OnState
<1>3. state[idx[p]] = "SLEEPING" => ~On(idx[p]) /\ OffState(idx[p])
  BY <1>2, OffFacts, Zenon
<1>4. /\ \A x \in Slots : x # p => /\ pc'[x] = pc[x] /\ idx'[x] = idx[x] /\ widx'[x] = widx[x]
                                   /\ arg'[x] = arg[x]
      /\ \/ pc'[p] = "user" /\ idx'[p] = 1 /\ widx'[p] = 1 /\ arg'[p] = 0
         \/ /\ pc'[p] = pc[p] /\ idx'[p] = idx[p] + 1 /\ idx[p] # NPROC /\ widx'[p] = widx[p]
            /\ arg'[p] = arg[p]
      /\ DOMAIN pc' = Slots /\ DOMAIN idx' = Slots /\ DOMAIN widx' = Slots
      /\ DOMAIN arg' = Slots
  BY <1>p, <1>0, <1>1 DEF KillScan, LastSlot, Goto, Return, Inv, TypeOK, ThreadTypeOK
<1>5. /\ \A x \in Slots : state'[x] = state[x]
                            \/ (x = idx[p] /\ state[x] = "SLEEPING" /\ state'[x] = "RUNNABLE")
      /\ \A x \in Slots : killed'[x] = killed[x] \/ (x = idx[p] /\ pid[x] = arg[p])
      /\ state' \in [Slots -> States] /\ killed' \in [Slots -> {0, 1}]
  BY <1>p, <1>2, Zenon DEF KillScan, Inv, TypeOK, SlotTypeOK, States
<1>6. TypeOK'
  <2>1. SlotTypeOK' /\ CpuTypeOK'
    BY <1>1, <1>5, Zenon DEF Inv, TypeOK, SlotTypeOK, CpuTypeOK
  <2>2. /\ pc'[p] \in Pcs /\ idx'[p] \in Slots /\ idx'[p] \in 1..NPROC + 1 /\ widx'[p] \in Slots
        /\ arg'[p] \in Nat /\ resume'[p] \in Pcs
    <3>1. pc[p] \in Pcs /\ widx[p] \in Slots /\ arg[p] \in Nat /\ resume[p] \in Pcs
      BY Zenon DEF Inv, TypeOK, ThreadTypeOK
    <3>2. "user" \in Pcs /\ 0 \in Nat
      BY Zenon DEF Pcs
    <3> QED
      BY <1>1, <1>2, <1>4, <3>1, <3>2, SlotFacts, SlotBounds, Zenon
  <2>3. \A x \in Slots : /\ pc'[x] \in Pcs /\ idx'[x] \in 1..NPROC + 1 /\ widx'[x] \in Slots
                         /\ arg'[x] \in Nat /\ resume'[x] \in Pcs
                         /\ pc'[x] \in {"allocproc", "fork", "kill"} => idx'[x] \in Slots
    BY <1>1, <1>4, <2>2, Zenon DEF Inv, TypeOK, ThreadTypeOK
  <2>4. /\ pc' = [x \in Slots |-> pc'[x]] /\ idx' = [x \in Slots |-> idx'[x]]
        /\ widx' = [x \in Slots |-> widx'[x]] /\ arg' = [x \in Slots |-> arg'[x]]
        /\ resume' = [x \in Slots |-> resume'[x]]
    BY <1>p, <1>0, <1>1, Zenon DEF KillScan, LastSlot, Goto, Return, Inv, TypeOK, ThreadTypeOK
  <2>5. ThreadTypeOK'
    BY <2>3, <2>4, Zenon DEF ThreadTypeOK
  <2> QED
    BY <2>1, <2>5, Zenon DEF TypeOK
<1>7. CpuInv'
  <2>1. \A d \in Cpus, x \in Slots : Holds(d, x)' <=> Holds(d, x)
    BY <1>0, <1>1, <1>4, SlotFacts DEF Holds, OwnPcs, Inv, TypeOK, CpuTypeOK, NoProc
  <2>2. \A d \in Cpus : run[d] # NoProc => (pc'[run[d]] \in WaitPcs <=> pc[run[d]] \in WaitPcs)
    BY <1>1, <1>4, Zenon DEF WaitPcs, Inv, TypeOK, CpuTypeOK
  <2> QED
    BY <1>1, <2>1, <2>2, Zenon DEF Inv, CpuInv
<1>8. ThreadInv'
  <2>1. ASSUME NEW x \in Slots, x # p
        PROVE  /\ On(x)' => state'[x] = OnState(x)' /\ pc'[x] # "dead"
               /\ ~On(x)' => OffState(x)'
               /\ state'[x] \in {"UNUSED", "USED"} <=> state[x] \in {"UNUSED", "USED"}
               /\ state'[x] = "SLEEPING" => state[x] = "SLEEPING"
    BY <1>1, <1>3, <1>4, <1>5, <2>1 DEF Inv, ThreadInv, On, OnState, OffState
  <2>2. ASSUME NEW x \in Slots, x # p
        PROVE  /\ pc'[x] = pc[x] /\ idx'[x] = idx[x] /\ widx'[x] = widx[x]
               /\ arg'[x] = arg[x] /\ resume'[x] = resume[x] /\ chan'[x] = chan[x]
               /\ Point(x)' = Point(x)
    BY <1>1, <1>4, <2>2, Zenon DEF Point
  <2>3. state'[p] = "RUNNING" /\ On(p)' /\ pc'[p] \in {"user", "kill"}
        /\ OnState(p)' = "RUNNING" /\ Point(p)' = pc'[p]
    BY <1>p, <1>0, <1>1, <1>2, <1>4, <1>5, Zenon DEF On, OnState, Point
  <2>4. idx'[p] \in Slots /\ resume'[p] = "user" /\ widx'[p] = 1
        /\ (pc'[p] = "kill" => arg'[p] \in KillPids)
    BY <1>0, <1>1, <1>2, <1>4, SlotFacts, SlotBounds DEF Inv, ThreadInv
  <2>6. ASSUME NEW x \in Slots, x # p
        PROVE  /\ pc[x] \notin {"yield", "forkret"} \/ state[x] \in {"UNUSED", "USED"} => resume[x] = "user"
               /\ resume[x] \in PreemptAt \cup {"user"}
               /\ Point(x) \notin ScanPcs => idx[x] \in Slots
               /\ Point(x) = "kill" => arg[x] \in KillPids
               /\ pc[x] \notin {"wake_init", "wake_parent"} => widx[x] = 1
               /\ state[x] = "SLEEPING" => chan[x] = x
    BY Zenon DEF Inv, ThreadInv
  <2> QED
    <3>1. \A x \in Slots : pc'[x] \notin {"yield", "forkret"} \/ state'[x] \in {"UNUSED", "USED"}
                              => resume'[x] = "user"
      BY <2>1, <2>2, <2>4, <2>6
    <3>2. \A x \in Slots : /\ resume'[x] \in PreemptAt \cup {"user"}
                           /\ Point(x)' \notin ScanPcs => idx'[x] \in Slots
                           /\ Point(x)' = "kill" => arg'[x] \in KillPids
                           /\ pc'[x] \notin {"wake_init", "wake_parent"} => widx'[x] = 1
      BY <2>2, <2>3, <2>4, <2>6
    <3>3. \A x \in Slots : /\ On(x)' => state'[x] = OnState(x)' /\ pc'[x] # "dead"
                           /\ ~On(x)' => OffState(x)'
                           /\ state'[x] = "SLEEPING" => chan'[x] = x
      BY <2>1, <2>2, <2>3, <2>6
    <3> QED
      BY <3>1, <3>2, <3>3, Zenon DEF ThreadInv
<1>9. ForkInv'
  <2>1. ~Forking(p)' /\ Point(p)' \notin ExitPcs
    BY <1>1, <1>4, Zenon DEF Forking, Point, ExitPcs
  <2>2. \A x \in Slots : x # p => /\ Forking(x)' = Forking(x) /\ idx'[x] = idx[x]
                                  /\ Point(x)' = Point(x)
    BY <1>1, <1>4, Zenon DEF Forking, Point
  <2>3. \A x \in Slots : Forking(x) => idx[x] \in Slots
    BY Zenon DEF Inv, ThreadInv, Forking, ScanPcs
  <2>a. /\ \A x \in Slots : Forking(x) => state[idx[x]] = "USED"
        /\ \A x, y \in Slots : Forking(x) /\ Forking(y) /\ idx[x] = idx[y] => x = y
    BY Zenon DEF Inv, ForkInv
  <2>4. /\ \A x \in Slots : Forking(x)' => state'[idx'[x]] = "USED"
        /\ \A x, y \in Slots : Forking(x)' /\ Forking(y)' /\ idx'[x] = idx'[y] => x = y
    BY <1>5, <2>1, <2>2, <2>3, <2>a
  <2>5. initproc \in Slots
    BY SlotFacts, Zenon DEF initproc
  <2>6. state'[initproc] \notin {"UNUSED", "USED", "ZOMBIE"}
    BY <1>5, <2>5, Zenon DEF Inv, ForkInv
  <2>7. Point(initproc)' \notin ExitPcs
    BY <2>1, <2>2, <2>5, Zenon DEF Inv, ForkInv
  <2> QED
    BY <2>4, <2>6, <2>7, Zenon DEF ForkInv, initproc
<1>10. FreshInv' /\ FamilyInv'
  <2>1. \A x \in Slots : \A s \in {"UNUSED", "USED", "ZOMBIE"} : state'[x] = s <=> state[x] = s
    BY <1>5, Zenon
  <2>2. \A x \in Slots : killed'[x] # killed[x] => plock[x] = NoCpu /\ pid[x] \in KillPids
    BY <1>2, <1>5, Zenon
  <2>3. FreshInv'
    BY <1>1, <2>1, <2>2, Zenon DEF Inv, FreshInv
  <2>4. \A x \in Slots : pc'[x] \in {"wake_parent", "exit_lock", "zombie"} => pc'[x] = pc[x]
    BY <1>4, Zenon
  <2>5. FamilyInv'
    BY <1>1, <2>1, <2>4, Zenon DEF Inv, FamilyInv, initproc
  <2> QED
    BY <2>3, <2>5, Zenon
<1>11. WakeInv'
  <2>1. \A x \in Slots : Drowsy(x)' => Drowsy(x)
    BY <1>1, <1>4, <1>5, Zenon DEF Drowsy
  <2>2. \A x \in Slots : PastParent(x)' => PastParent(x)
    BY <1>1, <1>4, Zenon DEF PastParent
  <2>3. \A x \in Slots : /\ state'[x] = "ZOMBIE" => state[x] = "ZOMBIE"
                         /\ pc[x] = "wake_init" => pc'[x] = "wake_init" /\ widx'[x] = widx[x]
                         /\ pc'[x] = "scan" => pc[x] = "scan" /\ idx'[x] = idx[x]
    BY <1>1, <1>4, <1>5, Zenon
  <2>4. \A x, y \in Slots : parent[y] = x /\ pc'[x] = "scan" /\ y < idx'[x] => state'[y] # "ZOMBIE"
    BY <2>3, Zenon DEF Inv, WakeInv
  <2> QED
    BY <1>1, <2>1, <2>2, <2>3, <2>4, WakeFrame, Zenon DEF Inv
<1> QED
  BY <1>6, <1>7, <1>8, <1>9, <1>10, <1>11, Zenon DEF Inv

\* wait() and sleep().
LEMMA WaitStepInv ==
  ASSUME Inv, NEW c \in Cpus, WaitStep(c)
  PROVE  Inv'
<1> USE SlotFacts DEF Inv, TypeOK, At, Goto, Return, NoProc, initproc, slotVars, lockVars,
             cpuVars, locals
<1>0. run[c] # NoProc =>
        /\ run[c] \in Slots /\ cur[c] = run[c] /\ On(run[c])
        /\ state[run[c]] = OnState(run[c]) /\ pc[run[c]] # "dead"
        /\ \A d \in Cpus : run[d] = run[c] \/ cur[d] = run[c] => d = c
  BY RunFacts, Zenon
<1>1. CASE WaitLock(c)
  <2>1. TypeOK'
    BY <1>0, <1>1, ProcAssumption DEF WaitLock, SlotTypeOK, CpuTypeOK, ThreadTypeOK,
       States, Pcs, ProcAssumption
  <2>2. CpuInv'
    BY <1>0, <1>1, ProcAssumption DEF WaitLock, ProcAssumption, CpuTypeOK, ThreadTypeOK,
       CpuInv, Holds, OwnPcs, WaitPcs
  <2>3. ThreadInv'
    BY <1>0, <1>1 DEF WaitLock, SlotTypeOK, CpuTypeOK, ThreadTypeOK, ThreadInv, On,
       OnState, OffState, Point, ScanPcs
  <2>4. ForkInv'
    BY <1>0, <1>1 DEF WaitLock, SlotTypeOK, ThreadTypeOK, ForkInv, Forking, Point,
       ExitPcs, ThreadInv, OnState, OffState
  <2>5. FreshInv' /\ FamilyInv'
    BY <1>0, <1>1, Zenon DEF WaitLock, SlotTypeOK, CpuTypeOK, ThreadTypeOK, FreshInv, FamilyInv,
       OnState
  <2>6. WakeInv'
    <3>1. \A x \in Slots : /\ Drowsy(x)' => Drowsy(x)
                           /\ PastParent(x)' => PastParent(x)
                           /\ pc[x] = "wake_init" => pc'[x] = "wake_init"
                           /\ pc'[x] = "scan" => idx'[x] = 1 \/ (pc[x] = "scan" /\ idx'[x] = idx[x])
      BY <1>0, <1>1, Zenon DEF WaitLock, ThreadTypeOK, Drowsy, PastParent
    <3>2. \A x, y \in Slots : parent[y] = x /\ pc'[x] = "scan" /\ y < idx'[x] => state[y] # "ZOMBIE"
      BY <3>1, SlotBounds DEF WakeInv
    <3> QED
      BY <1>1, <3>1, <3>2, WakeFrame, Zenon DEF WaitLock
  <2> QED
    BY <2>1, <2>2, <2>3, <2>4, <2>5, <2>6, Zenon
<1>2. CASE WaitPass(c)
  <2>1. TypeOK'
    BY <1>0, <1>2, SlotBounds DEF WaitPass, NextChild, Children, SlotTypeOK, CpuTypeOK, ThreadTypeOK,
       States, Pcs
  <2>2. CpuInv'
    BY <1>0, <1>2, ProcAssumption DEF WaitPass, NextChild, Children, ProcAssumption,
       CpuTypeOK, ThreadTypeOK, CpuInv, Holds, OwnPcs, WaitPcs
  <2>3. ThreadInv'
    BY <1>0, <1>2 DEF WaitPass, NextChild, Children, SlotTypeOK, CpuTypeOK, ThreadTypeOK,
       ThreadInv, On, OnState, OffState, Point, ScanPcs
  <2>4. ForkInv'
    BY <1>0, <1>2 DEF WaitPass, NextChild, Children, SlotTypeOK, ThreadTypeOK, ForkInv,
       Forking, Point, ExitPcs, ThreadInv, OnState, OffState
  <2>5. FreshInv' /\ FamilyInv'
    BY <1>0, <1>2, Zenon DEF WaitPass, NextChild, Children, SlotTypeOK, CpuTypeOK, ThreadTypeOK,
       FreshInv, FamilyInv, OnState
  <2>6. WakeInv'
    <3>1. PICK q \in Slots : NextChild(run[c], q) /\ state[q] # "ZOMBIE" /\ idx' = [idx EXCEPT ![run[c]] = q + 1]
      BY <1>2, Zenon DEF WaitPass
    <3>2. \A x, y \in Slots : parent[y] = x /\ pc[x] = "scan" /\ y < idx'[x] => state[y] # "ZOMBIE"
      <4> SUFFICES ASSUME NEW y \in Slots, parent[y] = run[c], y < q + 1
                   PROVE  state[y] # "ZOMBIE"
        BY <1>0, <3>1, Zenon DEF WakeInv, ThreadTypeOK
      <4>1. y < idx[run[c]] \/ y = q
        <5>1. idx[run[c]] \in Nat
          <6>1. idx[run[c]] \in 1..NPROC + 1
            BY <1>0, <1>2, Zenon DEF WaitPass, ThreadTypeOK
          <6> QED
            BY <6>1, SlotBounds, Zenon
        <5>2. idx[run[c]] <= y => q <= y
          BY <3>1, Zenon DEF NextChild, Children
        <5>3. q <= y \/ y < idx[run[c]]
          BY <5>1, <5>2, SlotBounds
        <5> QED
          BY <5>3, SlotBounds
      <4> QED
        BY <1>0, <1>2, <3>1, <4>1, Zenon DEF WaitPass, WakeInv
    <3> QED
      BY <1>2, <3>2, WakeFrame, Zenon DEF WaitPass, Drowsy, PastParent
  <2> QED
    BY <2>1, <2>2, <2>3, <2>4, <2>5, <2>6, Zenon
<1>3. CASE WaitReap(c)
  <2>1. TypeOK'
    <3>1. SlotTypeOK'
      <4>1. PICK q \in Slots : FreeProc(q)
        BY <1>3, Zenon DEF WaitReap
      <4> QED
        BY <1>3, <4>1, Zenon DEF WaitReap, FreeProc, SlotTypeOK, States
    <3>2. CpuTypeOK'
      BY <1>3, Zenon DEF WaitReap, CpuTypeOK
    <3>3. ThreadTypeOK'
      BY <1>0, <1>3, SlotBounds, Zenon DEF WaitReap, ThreadTypeOK, Pcs
    <3> QED
      BY <3>1, <3>2, <3>3, Zenon
  <2>2. CpuInv'
    <3>1. run[c] \in Slots /\ UNCHANGED <<cur, run>>
      BY <1>0, <1>3, Zenon DEF WaitReap
    <3>2. \A x \in Slots : x # run[c] => pc'[x] = pc[x] /\ idx'[x] = idx[x] /\ plock'[x] = plock[x]
      BY <1>3, Zenon DEF WaitReap, CpuTypeOK, ThreadTypeOK
    <3>3. pc[run[c]] = "scan" /\ pc'[run[c]] = "user" /\ plock'[run[c]] = plock[run[c]] /\ wait_lock' = NoCpu
      BY <1>0, <1>3, Zenon DEF WaitReap, CpuTypeOK, ThreadTypeOK
    <3>4. wait_lock = c /\ (pc[run[c]] \in OwnPcs => plock[run[c]] = c)
      BY <1>0, <3>1, <3>3, Zenon DEF CpuInv, Holds, OwnPcs, WaitPcs
    <3> QED
      BY <3>1, <3>2, <3>3, <3>4, CpuStep, Zenon DEF OwnPcs, WaitPcs
  <2>3. ThreadInv'
    <3>1. PICK q \in Slots : plock[q] = NoCpu /\ state[q] = "ZOMBIE" /\ FreeProc(q)
      BY <1>3, Zenon DEF WaitReap
    <3>2. ~On(q) /\ pc[q] = "dead" /\ q # run[c]
      BY <1>0, <3>1, OffFacts, Zenon DEF OffState
    <3> QED
      BY <1>0, <1>3, <3>1, <3>2 DEF WaitReap, FreeProc, SlotTypeOK, CpuTypeOK, ThreadTypeOK,
         ThreadInv, On, OnState, OffState, Point, ScanPcs
  <2>4. ForkInv'
    BY <1>0, <1>3 DEF WaitReap, NextChild, Children, FreeProc, SlotTypeOK, ThreadTypeOK,
       ForkInv, Forking, Point, ExitPcs, ThreadInv, OnState, OffState
  <2>5. FreshInv' /\ FamilyInv'
    <3>1. PICK q \in Slots : plock[q] = NoCpu /\ state[q] = "ZOMBIE" /\ FreeProc(q)
      BY <1>3, Zenon DEF WaitReap
    <3>2. \A d \in Cpus : cur[d] # q
      BY <3>1, OffFacts, Zenon
    <3>a. /\ state'[q] = "UNUSED" /\ pid'[q] = 0 /\ parent'[q] = NoProc /\ killed'[q] = 0
          /\ \A x \in Slots : x # q => /\ state'[x] = state[x] /\ pid'[x] = pid[x]
                                      /\ parent'[x] = parent[x] /\ killed'[x] = killed[x]
      BY <3>1, Zenon DEF FreeProc, SlotTypeOK
    <3>b. /\ UNCHANGED <<cur, plock>> /\ pc'[run[c]] = "user"
          /\ \A x \in Slots : x # run[c] => pc'[x] = pc[x]
      BY <1>0, <1>3, Zenon DEF WaitReap, ThreadTypeOK
    <3>3. FreshInv'
      BY <3>a, <3>b, <3>2 DEF FreshInv
    <3>c. NoProc \notin Slots
      BY SlotFacts, Zenon DEF NoProc
    <3>d. \A x \in Slots : parent[x] # q
      BY <3>1, Zenon DEF FamilyInv
    <3>4. FamilyInv'
      BY <1>0, <3>a, <3>b, <3>c, <3>d DEF FamilyInv
    <3> QED
      BY <3>3, <3>4, Zenon
  <2>6. WakeInv'
    BY <1>0, <1>3 DEF WaitReap, NextChild, Children, FreeProc, SlotTypeOK, ThreadTypeOK,
       WakeInv, Drowsy, PastParent, OnState
  <2> QED
    BY <2>1, <2>2, <2>3, <2>4, <2>5, <2>6, Zenon
<1>4. CASE WaitCopyoutFails(c)
  <2>1. TypeOK'
    <3>1. SlotTypeOK' /\ CpuTypeOK'
      BY <1>4, Zenon DEF WaitCopyoutFails, SlotTypeOK, CpuTypeOK
    <3>2. ThreadTypeOK'
      BY <1>0, <1>4, SlotBounds, Zenon DEF WaitCopyoutFails, ThreadTypeOK, Pcs
    <3> QED
      BY <3>1, <3>2, Zenon
  <2>2. CpuInv'
    <3>1. run[c] \in Slots /\ UNCHANGED <<cur, run>>
      BY <1>0, <1>4, Zenon DEF WaitCopyoutFails
    <3>2. \A x \in Slots : x # run[c] => pc'[x] = pc[x] /\ idx'[x] = idx[x] /\ plock'[x] = plock[x]
      BY <1>4, Zenon DEF WaitCopyoutFails, CpuTypeOK, ThreadTypeOK
    <3>3. pc[run[c]] = "scan" /\ pc'[run[c]] = "user" /\ plock'[run[c]] = plock[run[c]] /\ wait_lock' = NoCpu
      BY <1>0, <1>4, Zenon DEF WaitCopyoutFails, CpuTypeOK, ThreadTypeOK
    <3>4. wait_lock = c /\ (pc[run[c]] \in OwnPcs => plock[run[c]] = c)
      BY <1>0, <3>1, <3>3, Zenon DEF CpuInv, Holds, OwnPcs, WaitPcs
    <3> QED
      BY <3>1, <3>2, <3>3, <3>4, CpuStep, Zenon DEF OwnPcs, WaitPcs
  <2>3. ThreadInv'
    BY <1>0, <1>4 DEF WaitCopyoutFails, NextChild, Children, SlotTypeOK, CpuTypeOK,
       ThreadTypeOK, ThreadInv, On, OnState, OffState, Point, ScanPcs
  <2>4. ForkInv'
    BY <1>0, <1>4 DEF WaitCopyoutFails, NextChild, Children, SlotTypeOK, ThreadTypeOK,
       ForkInv, Forking, Point, ExitPcs, ThreadInv, OnState, OffState
  <2>5. FreshInv' /\ FamilyInv'
    BY <1>0, <1>4 DEF WaitCopyoutFails, NextChild, Children, SlotTypeOK, CpuTypeOK,
       ThreadTypeOK, FreshInv, FamilyInv, OnState
  <2>6. WakeInv'
    BY <1>0, <1>4 DEF WaitCopyoutFails, NextChild, Children, SlotTypeOK, ThreadTypeOK,
       WakeInv, Drowsy, PastParent, OnState
  <2> QED
    BY <2>1, <2>2, <2>3, <2>4, <2>5, <2>6, Zenon
<1>5. CASE WaitDecide(c)
  <2>0. /\ run[c] # NoProc /\ pc[run[c]] = "scan"
        /\ \/ Return(run[c])
           \/ pc' = [pc EXCEPT ![run[c]] = "sleep"] /\ UNCHANGED <<idx, widx, arg, resume>>
    BY <1>5, Zenon DEF WaitDecide
  <2>1. TypeOK'
    <3>1. SlotTypeOK' /\ CpuTypeOK'
      BY <1>5, Zenon DEF WaitDecide, SlotTypeOK, CpuTypeOK
    <3>2. ThreadTypeOK'
      BY <1>0, <2>0, SlotBounds DEF ThreadTypeOK, Pcs
    <3> QED
      BY <3>1, <3>2, Zenon
  <2>2. CpuInv'
    BY <1>0, <1>5, ProcAssumption DEF WaitDecide, Children, Killed,
       ProcAssumption, CpuTypeOK, ThreadTypeOK, CpuInv, Holds, OwnPcs, WaitPcs
  <2>3. ThreadInv'
    BY <1>0, <1>5 DEF WaitDecide, Children, Killed, SlotTypeOK, CpuTypeOK,
       ThreadTypeOK, ThreadInv, On, OnState, OffState, Point, ScanPcs
  <2>4. ForkInv'
    <3>1. ~Forking(run[c]) /\ pc'[run[c]] \in {"user", "sleep"} /\ run' = run /\ state' = state
      <4>1. run' = run /\ state' = state
        BY <1>5, Zenon DEF WaitDecide
      <4> QED
        BY <1>0, <2>0, <4>1 DEF ThreadTypeOK, Forking, Point
    <3>2. \A x \in Slots : x # run[c] => idx'[x] = idx[x] /\ Point(x)' = Point(x)
      BY <2>0, Zenon DEF ThreadTypeOK, Point
    <3>3. Point(run[c])' \in {"user", "sleep"}
      BY <3>1, Zenon DEF Point
    <3> QED
      BY <3>1, <3>2, <3>3 DEF ForkInv, Forking, ExitPcs
  <2>5. FreshInv' /\ FamilyInv'
    BY <1>0, <1>5 DEF WaitDecide, Children, Killed, SlotTypeOK, CpuTypeOK,
       ThreadTypeOK, FreshInv, FamilyInv, OnState
  <2>6. WakeInv'
    <3>1. \A y \in Slots : parent[y] = run[c] => state[y] # "ZOMBIE" /\ ~PastParent(y)
      <4> SUFFICES ASSUME NEW y \in Slots, parent[y] = run[c]
                   PROVE  state[y] # "ZOMBIE" /\ ~PastParent(y)
        OBVIOUS
      <4>1. y < idx[run[c]]
        BY <1>5, Zenon DEF WaitDecide, Children
      <4>2. y # run[c] /\ pc[y] \notin WaitPcs
        BY <1>0, <1>5, WaitFacts, Zenon DEF WaitDecide, FamilyInv, WaitPcs
      <4> QED
        BY <1>0, <1>5, <4>1, <4>2, Zenon DEF WaitDecide, WakeInv, PastParent, WaitPcs
    <3>2. \A x \in Slots : x # run[c] => pc'[x] = pc[x] /\ widx'[x] = widx[x] /\ idx'[x] = idx[x]
      BY <2>0, Zenon DEF ThreadTypeOK
    <3>3. pc'[run[c]] \in {"user", "sleep"}
      BY <1>0, <2>0 DEF ThreadTypeOK
    <3>4. \A x \in Slots : x # run[c] => (Drowsy(x)' <=> Drowsy(x)) /\ (PastParent(x)' <=> PastParent(x))
      BY <1>5, <3>2, Zenon DEF WaitDecide, Drowsy, PastParent
    <3>5. ~PastParent(run[c])' /\ pc'[run[c]] # "scan" /\ pc[run[c]] # "wake_init"
      BY <1>5, <2>0, <3>3, Zenon DEF WaitDecide, PastParent
    <3> QED
      BY <1>5, <3>1, <3>2, <3>4, <3>5 DEF WaitDecide, WakeInv
  <2> QED
    BY <2>1, <2>2, <2>3, <2>4, <2>5, <2>6, Zenon
<1>6. CASE SleepLock(c)
  <2>1. TypeOK'
    BY <1>0, <1>6, Zenon DEF SleepLock, SlotTypeOK, CpuTypeOK, ThreadTypeOK, States, Pcs
  <2>2. CpuInv'
    <3>1. run[c] \in Slots /\ UNCHANGED <<cur, run>>
      BY <1>0, <1>6, Zenon DEF SleepLock
    <3>2. \A x \in Slots : x # run[c] => pc'[x] = pc[x] /\ idx'[x] = idx[x] /\ plock'[x] = plock[x]
      BY <1>6, Zenon DEF SleepLock, CpuTypeOK, ThreadTypeOK
    <3>3. pc[run[c]] = "sleep" /\ pc'[run[c]] = "sleep_release" /\ plock'[run[c]] = c /\ wait_lock' = wait_lock
      BY <1>0, <1>6, Zenon DEF SleepLock, CpuTypeOK, ThreadTypeOK
    <3>4. wait_lock = c /\ (pc[run[c]] \in OwnPcs => plock[run[c]] = c)
      BY <1>0, <3>1, <3>3, Zenon DEF CpuInv, Holds, OwnPcs, WaitPcs
    <3> QED
      BY <3>1, <3>2, <3>3, <3>4, CpuStep, Zenon DEF OwnPcs, WaitPcs
  <2>3. ThreadInv'
    BY <1>0, <1>6 DEF SleepLock, SlotTypeOK, CpuTypeOK, ThreadTypeOK, ThreadInv, On,
       OnState, OffState, Point, ScanPcs
  <2>4. ForkInv'
    BY <1>0, <1>6 DEF SleepLock, SlotTypeOK, ThreadTypeOK, ForkInv, Forking, Point,
       ExitPcs, ThreadInv, OnState, OffState
  <2>5. FreshInv' /\ FamilyInv'
    BY <1>0, <1>6 DEF SleepLock, SlotTypeOK, CpuTypeOK, ThreadTypeOK, FreshInv, FamilyInv,
       OnState
  <2>6. WakeInv'
    BY <1>0, <1>6 DEF SleepLock, SlotTypeOK, ThreadTypeOK, WakeInv, Drowsy, PastParent,
       OnState
  <2> QED
    BY <2>1, <2>2, <2>3, <2>4, <2>5, <2>6, Zenon
<1>7. CASE SleepRelease(c)
  <2>1. TypeOK'
    BY <1>0, <1>7, Zenon DEF SleepRelease, SlotTypeOK, CpuTypeOK, ThreadTypeOK, States, Pcs
  <2>2. CpuInv'
    <3>1. run[c] \in Slots /\ UNCHANGED <<cur, run>>
      BY <1>0, <1>7, Zenon DEF SleepRelease
    <3>2. \A x \in Slots : x # run[c] => pc'[x] = pc[x] /\ idx'[x] = idx[x] /\ plock'[x] = plock[x]
      BY <1>7, Zenon DEF SleepRelease, CpuTypeOK, ThreadTypeOK
    <3>3. pc[run[c]] = "sleep_release" /\ pc'[run[c]] = "sleep_mark" /\ plock'[run[c]] = plock[run[c]] /\ wait_lock' = NoCpu
      BY <1>0, <1>7, Zenon DEF SleepRelease, CpuTypeOK, ThreadTypeOK
    <3>4. wait_lock = c /\ (pc[run[c]] \in OwnPcs => plock[run[c]] = c)
      BY <1>0, <3>1, <3>3, Zenon DEF CpuInv, Holds, OwnPcs, WaitPcs
    <3> QED
      BY <3>1, <3>2, <3>3, <3>4, CpuStep DEF OwnPcs, WaitPcs
  <2>3. ThreadInv'
    BY <1>0, <1>7 DEF SleepRelease, SlotTypeOK, CpuTypeOK, ThreadTypeOK, ThreadInv, On,
       OnState, OffState, Point, ScanPcs
  <2>4. ForkInv'
    BY <1>0, <1>7 DEF SleepRelease, SlotTypeOK, ThreadTypeOK, ForkInv, Forking, Point,
       ExitPcs, ThreadInv, OnState, OffState
  <2>5. FreshInv' /\ FamilyInv'
    BY <1>0, <1>7, Zenon DEF SleepRelease, SlotTypeOK, CpuTypeOK, ThreadTypeOK, FreshInv,
       FamilyInv, OnState
  <2>6. WakeInv'
    BY <1>0, <1>7 DEF SleepRelease, SlotTypeOK, ThreadTypeOK, WakeInv, Drowsy, PastParent,
       OnState
  <2> QED
    BY <2>1, <2>2, <2>3, <2>4, <2>5, <2>6, Zenon
<1>8. CASE SleepMark(c)
  <2>1. TypeOK'
    BY <1>0, <1>8, Zenon DEF SleepMark, SlotTypeOK, CpuTypeOK, ThreadTypeOK, States, Pcs
  <2>2. CpuInv'
    <3>1. run[c] \in Slots /\ UNCHANGED <<cur, run>>
      BY <1>0, <1>8, Zenon DEF SleepMark
    <3>2. \A x \in Slots : x # run[c] => pc'[x] = pc[x] /\ idx'[x] = idx[x] /\ plock'[x] = plock[x]
      BY <1>8, Zenon DEF SleepMark, CpuTypeOK, ThreadTypeOK
    <3>3. pc[run[c]] = "sleep_mark" /\ pc'[run[c]] = "sleeping" /\ plock'[run[c]] = plock[run[c]] /\ wait_lock' = wait_lock
      BY <1>0, <1>8, Zenon DEF SleepMark, CpuTypeOK, ThreadTypeOK
    <3>4. plock[run[c]] = c
      BY <1>0, <3>1, <3>3, Zenon DEF CpuInv, Holds, OwnPcs, WaitPcs
    <3>5. /\ pc[run[c]] \in OwnPcs /\ pc'[run[c]] \in OwnPcs
          /\ pc[run[c]] \notin WaitPcs /\ pc'[run[c]] \notin WaitPcs
      BY <3>3, Zenon DEF OwnPcs, WaitPcs
    <3> QED
      BY <3>1, <3>2, <3>3, <3>4, <3>5, CpuStep, Zenon
  <2>3. ThreadInv'
    BY <1>0, <1>8 DEF SleepMark, SlotTypeOK, CpuTypeOK, ThreadTypeOK, ThreadInv, On,
       OnState, OffState, Point, ScanPcs
  <2>4. ForkInv'
    BY <1>0, <1>8 DEF SleepMark, SlotTypeOK, ThreadTypeOK, ForkInv, Forking, Point,
       ExitPcs, ThreadInv, OnState, OffState
  <2>5. FreshInv' /\ FamilyInv'
    BY <1>0, <1>8 DEF SleepMark, SlotTypeOK, CpuTypeOK, ThreadTypeOK, FreshInv, FamilyInv,
       OnState
  <2>6. WakeInv'
    BY <1>0, <1>8 DEF SleepMark, SlotTypeOK, ThreadTypeOK, WakeInv, Drowsy, PastParent,
       OnState
  <2> QED
    BY <2>1, <2>2, <2>3, <2>4, <2>5, <2>6, Zenon
<1>9. CASE Woken(c)
  <2>1. TypeOK'
    BY <1>0, <1>9, Zenon DEF Woken, SlotTypeOK, CpuTypeOK, ThreadTypeOK, States, Pcs
  <2>2. CpuInv'
    <3>1. run[c] \in Slots /\ UNCHANGED <<cur, run>>
      BY <1>0, <1>9, Zenon DEF Woken
    <3>2. \A x \in Slots : x # run[c] => pc'[x] = pc[x] /\ idx'[x] = idx[x] /\ plock'[x] = plock[x]
      BY <1>9, Zenon DEF Woken, CpuTypeOK, ThreadTypeOK
    <3>3. pc[run[c]] = "woken" /\ pc'[run[c]] = "wait" /\ plock'[run[c]] = NoCpu /\ wait_lock' = wait_lock
      BY <1>0, <1>9, Zenon DEF Woken, CpuTypeOK, ThreadTypeOK
    <3>4. (pc[run[c]] \in OwnPcs => plock[run[c]] = c)
      BY <1>0, <3>1, <3>3, Zenon DEF CpuInv, Holds, OwnPcs, WaitPcs
    <3> QED
      BY <3>1, <3>2, <3>3, <3>4, CpuStep DEF OwnPcs, WaitPcs
  <2>3. ThreadInv'
    BY <1>0, <1>9 DEF Woken, SlotTypeOK, CpuTypeOK, ThreadTypeOK, ThreadInv, On, OnState,
       OffState, Point, ScanPcs
  <2>4. ForkInv'
    BY <1>0, <1>9 DEF Woken, SlotTypeOK, ThreadTypeOK, ForkInv, Forking, Point, ExitPcs,
       ThreadInv, OnState, OffState
  <2>5. FreshInv' /\ FamilyInv'
    BY <1>0, <1>9, Zenon DEF Woken, SlotTypeOK, CpuTypeOK, ThreadTypeOK, FreshInv, FamilyInv,
       OnState
  <2>6. WakeInv'
    BY <1>0, <1>9 DEF Woken, SlotTypeOK, ThreadTypeOK, WakeInv, Drowsy, PastParent,
       OnState
  <2> QED
    BY <2>1, <2>2, <2>3, <2>4, <2>5, <2>6, Zenon
<1> QED
  BY <1>1, <1>2, <1>3, <1>4, <1>5, <1>6, <1>7, <1>8, <1>9, Zenon DEF WaitStep

-----------------------------------------------------------------------------
LEMMA NextInv == Inv /\ [Next]_vars => Inv'
<1> SUFFICES ASSUME Inv, [Next]_vars PROVE Inv'
  OBVIOUS
<1>1. CASE Next
  BY <1>1, SwitchInv, UserInv, ForkStepInv, ExitStepInv, KillScanInv, WaitStepInv, Zenon
     DEF Next, ThreadStep
<1>2. CASE UNCHANGED vars
  BY <1>2 DEF vars, slotVars, lockVars, cpuVars, locals, Inv, TypeOK, SlotTypeOK, CpuTypeOK,
     ThreadTypeOK, CpuInv, Holds, ThreadInv, On, OnState, OffState, Point, ForkInv, Forking,
     FreshInv, FamilyInv, WakeInv, Drowsy, PastParent
<1> QED
  BY <1>1, <1>2, Zenon

-----------------------------------------------------------------------------
(* What holds in every state of the process table.                         *)

\* Locks, states, places and families agree in every reachable state of proc.c,
\* for any NPROC, any number of CPUs and any points of preemption.
THEOREM ProcInvariant == Spec => []Inv
BY InitInv, NextInv, PTL DEF Spec

\* swtch() never puts two CPUs on one kernel stack, and p->lock covers the window in
\* which a process that is not RUNNING any more is still on its stack.
THEOREM StacksApart == Spec => []OneCpuPerStack
<1>1. Inv => OneCpuPerStack
  <2> SUFFICES ASSUME Inv PROVE OneCpuPerStack
    OBVIOUS
  <2>1. \A c \in Cpus : run[c] \in Slots => pc[run[c]] \in OwnPcs \/ state[run[c]] = "RUNNING"
    BY SlotFacts, Zenon DEF Inv, ThreadInv, On, OnState, OwnPcs
  <2>2. \A p \in Slots : state[p] = "RUNNING" => On(p)
    BY Zenon DEF Inv, ThreadInv, OffState
  <2> QED
    <3>1. /\ \A c \in Cpus : run[c] # NoProc => cur[c] = run[c]
          /\ \A c, d \in Cpus : run[c] = run[d] /\ run[c] # NoProc => c = d
      BY Zenon DEF Inv, CpuInv
    <3>2. \A c \in Cpus : run[c] \in Slots => plock[run[c]] = c \/ state[run[c]] = "RUNNING"
      BY <2>1, Zenon DEF Inv, CpuInv, Holds
    <3> QED
      BY <2>2, <3>1, <3>2, SlotFacts DEF On, OneCpuPerStack, NoProc
<1> QED
  BY <1>1, ProcInvariant, PTL

\* freeproc() frees no slot that a CPU still uses, and a process that allocproc() has
\* just set up was not marked by a kill() of its predecessor.
THEOREM TableIsSound == Spec => []TableSound
<1>1. Inv => TableSound
  <2> SUFFICES ASSUME Inv PROVE TableSound
    OBVIOUS
  <2>1. FreedSlotUnused
    BY SlotFacts, Zenon DEF Inv, CpuInv, FreshInv, FreedSlotUnused, NoProc
  <2> QED
    BY <2>1, Zenon DEF Inv, FreshInv, NewbornAlive, TableSound
<1> QED
  BY <1>1, ProcInvariant, PTL

\* The panics of sched() are unreachable, and locks are taken in one order:
\* wait_lock before any p->lock, and one p->lock at a time.
THEOREM LocksInOrder == Spec => []LockDiscipline
<1>1. Inv => LockDiscipline
  <2> SUFFICES ASSUME Inv PROVE LockDiscipline
    OBVIOUS
  <2>1. SchedPreconditions
    BY RunFacts, SlotFacts DEF Inv, CpuInv, Holds, OwnPcs, WaitPcs, OnState, At, NoProc,
       SchedPreconditions
  <2>2. LockOrder
    <3>1. \A c \in Cpus : run[c] # NoProc /\ pc[run[c]] \notin OwnPcs \cup {"fork"} =>
            \A q \in Slots : plock[q] # c
      BY Zenon DEF Inv, CpuInv, Holds
    <3>2. \A c \in Cpus : run[c] # NoProc /\ pc[run[c]] \notin WaitPcs => wait_lock # c
      BY Zenon DEF Inv, CpuInv
    <3> QED
      BY <3>1, <3>2, Zenon DEF LockOrder, At, OwnPcs, WaitPcs
  <2> QED
    BY <2>1, <2>2, Zenon DEF LockDiscipline
<1> QED
  BY <1>1, ProcInvariant, PTL

\* reparent() leaves no process with a parent that has exited or was freed.
THEOREM NobodyOrphaned == Spec => []NoOrphans
<1>1. Inv => NoOrphans
  BY Zenon DEF Inv, FamilyInv, NoOrphans
<1> QED
  BY <1>1, ProcInvariant, PTL

\* A parent never sleeps in wait() over a zombie child: the lock order of exit(),
\* wait() and sleep() loses no wakeup.
THEOREM WakeupsArrive == Spec => []NoLostWakeup
<1>1. Inv => NoLostWakeup
  <2>1. ASSUME Inv, wait_lock = NoCpu
        PROVE  \A e \in Slots : pc[e] # "wake_init"
    BY <2>1, WaitFacts, Zenon DEF WaitPcs
  <2> QED
    BY <2>1, Zenon DEF Inv, WakeInv, Drowsy, NoLostWakeup
<1> QED
  BY <1>1, ProcInvariant, PTL
=============================================================================
