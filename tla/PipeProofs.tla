----------------------------- MODULE PipeProofs -----------------------------
(***************************************************************************)
(* The inductive invariant of Pipe, for any numbers of readers and         *)
(* writers, any PIPESIZE and any counter width that PIPESIZE divides, and  *)
(* what follows from it: sound ends, no missed wakeup, and that the ring   *)
(* implements the queue of ByteQueue.                                      *)
(***************************************************************************)
EXTENDS Pipe, SequenceTheorems, TLAPS

\* pi->lock is held exactly inside the two loops, by a process that has its end open.
LockInv ==
  /\ \A p \in Procs : lock = p <=> pc[p] \in {"r_wait", "r_loop", "w_loop"}
  /\ \A p \in Procs : pc[p] \in {"r_lock", "r_wait", "r_loop", "r_asleep"} => p \in Readers
  /\ \A p \in Procs : pc[p] \in {"w_lock", "w_loop", "w_asleep"} => p \in Writers
  /\ \A p \in Procs \ open : pc[p] = "idle"

\* An end is closed after its last descriptor, and the page is freed after both.
EndInv ==
  /\ readopen = 0 => Readers \cap open = {}
  /\ writeopen = 0 => Writers \cap open = {}
  /\ freed = 1 => open = {}

\* A process that holds the lock at l: it wakes the sleepers before it returns.
HolderAt(l) == \E p \in Procs : lock = p /\ pc[p] = l

SleepInv ==
  \A p \in Procs :
    /\ pc[p] = "r_asleep" =>
         writeopen = 1 /\ (Empty \/ Writers \cap killed # {} \/ HolderAt("w_loop"))
    /\ pc[p] = "w_asleep" => readopen = 1 /\ (Full \/ HolderAt("r_loop"))

Inv == TypeOK /\ LockInv /\ EndInv /\ SleepInv /\ EndOfFile /\ Count <= PIPESIZE

-----------------------------------------------------------------------------
(* Arithmetic of the ring.                                                 *)

\* Unsigned arithmetic on the counters: how many bytes there are, and what one more
\* and one less does.
LEMMA RingFacts ==
  ASSUME nread \in 0..WORD-1, nwrite \in 0..WORD-1
  PROVE  /\ Count = IF nread <= nwrite THEN nwrite - nread ELSE nwrite - nread + WORD
         /\ Count \in Nat
         /\ Empty <=> Count = 0
         /\ Full <=> Count = PIPESIZE
         /\ Inc(nread) \in 0..WORD-1 /\ Inc(nwrite) \in 0..WORD-1
         /\ Count < PIPESIZE => (Inc(nwrite) - nread) % WORD = Count + 1
         /\ Count > 0 => (nwrite - Inc(nread)) % WORD = Count - 1
<1> USE PipeAssumption DEF PipeAssumption
<1>1. /\ Count = IF nread <= nwrite THEN nwrite - nread ELSE nwrite - nread + WORD
      /\ Count \in Nat
  BY DEF Count
<1>2. Empty <=> Count = 0
  BY <1>1 DEF Empty
<1>3. Full <=> Count = PIPESIZE
  <2>1. (nread + PIPESIZE) % WORD =
          IF nread + PIPESIZE < WORD THEN nread + PIPESIZE ELSE nread + PIPESIZE - WORD
    OBVIOUS
  <2> QED
    BY <1>1, <2>1 DEF Full
<1>4. /\ Inc(nread) = IF nread = WORD - 1 THEN 0 ELSE nread + 1
      /\ Inc(nwrite) = IF nwrite = WORD - 1 THEN 0 ELSE nwrite + 1
  BY DEF Inc
<1>5. Count < PIPESIZE => (Inc(nwrite) - nread) % WORD = Count + 1
  BY <1>1, <1>4
<1>6. Count > 0 => (nwrite - Inc(nread)) % WORD = Count - 1
  BY <1>1, <1>4
<1> QED
  BY <1>1, <1>2, <1>3, <1>4, <1>5, <1>6

-----------------------------------------------------------------------------
(* Every step keeps the invariant.                                         *)

\* A step that leaves the ring and the ends alone, and puts nobody to sleep on a
\* condition that holds, keeps the reasons of the sleepers if the holder of the lock
\* keeps it or has woken them.
LEMMA SleepKept ==
  ASSUME SleepInv, UNCHANGED <<nread, nwrite, readopen, writeopen>>, killed \subseteq killed',
         \A q \in Procs : pc'[q] = "r_asleep" =>
           /\ pc[q] = "r_asleep" \/ (Empty /\ writeopen = 1)
           /\ HolderAt("w_loop") => HolderAt("w_loop")',
         \A q \in Procs : pc'[q] = "w_asleep" =>
           /\ pc[q] = "w_asleep" \/ (Full /\ readopen = 1)
           /\ HolderAt("r_loop") => HolderAt("r_loop")'
  PROVE  SleepInv'
<1>1. (Empty' <=> Empty) /\ (Full' <=> Full)
  BY Zenon DEF Empty, Full
<1>2. Writers \cap killed # {} => Writers \cap killed' # {}
  OBVIOUS
<1> QED
  BY <1>1, <1>2, Zenon DEF SleepInv

\* pipealloc() establishes the invariant.
LEMMA InitInv == Init => Inv
<1> USE PipeAssumption DEF PipeAssumption, Init
<1>1. Init => TypeOK /\ LockInv /\ EndInv /\ SleepInv /\ EndOfFile
  BY DEF TypeOK, LockInv, EndInv, SleepInv, EndOfFile, Procs
<1>2. Init => Count <= PIPESIZE
  BY RingFacts
<1> QED
  BY <1>1, <1>2, Zenon DEF Inv

\* Every step of a read, a write, a close or a kill keeps it.
LEMMA NextInv == Inv /\ [Next]_vars => Inv'
<1> SUFFICES ASSUME Inv, [Next]_vars PROVE Inv'
  OBVIOUS
<1> USE PipeAssumption DEF Inv, ringVars, endVars, callVars
<1>0. nread \in 0..WORD-1 /\ nwrite \in 0..WORD-1 /\ Procs = Readers \cup Writers
  BY Zenon DEF TypeOK, Procs
<1>1. ASSUME NEW p \in Procs, Close(p) PROVE Inv'
  <2>1. TypeOK'
    <3>1. freed = 0
      BY <1>1 DEF Close, LastIn, EndInv, TypeOK
    <3>2. pc' \in [Procs -> {"idle", "r_lock", "r_wait", "r_loop", "r_asleep",
                             "w_lock", "w_loop", "w_asleep"}]
      BY <1>1, Zenon DEF Close, LastIn, WakeReaders, WakeWriters, TypeOK
    <3>3. freed' \in 0..1 /\ readopen' \in {0, 1} /\ writeopen' \in {0, 1}
      BY <1>1, <3>1 DEF Close, TypeOK
    <3> QED
      BY <1>1, <3>2, <3>3, Zenon DEF Close, TypeOK
  <2>2. LockInv' /\ EndInv'
    <3>1. \A q \in Procs : /\ pc'[q] \in {"r_wait", "r_loop", "w_loop"} <=> pc[q] \in {"r_wait", "r_loop", "w_loop"}
                           /\ pc'[q] = pc[q] \/ (pc[q] = "r_asleep" /\ pc'[q] = "r_lock")
                              \/ (pc[q] = "w_asleep" /\ pc'[q] = "w_lock")
      BY <1>1, Zenon DEF Close, WakeReaders, WakeWriters, TypeOK
    <3>2. lock' = lock /\ open' = open \ {p} /\ pc[p] = "idle"
      BY <1>1, Zenon DEF Close
    <3>3. LockInv'
      BY <3>1, <3>2, Zenon DEF LockInv
    <3>4. EndInv'
      BY <1>0, <1>1, Zenon DEF Close, LastIn, BothClosed, PipeAssumption, TypeOK, EndInv
    <3> QED
      BY <3>3, <3>4, Zenon
  <2>3. SleepInv'
    <3> SUFFICES ASSUME NEW q \in Procs
                 PROVE  /\ pc'[q] = "r_asleep" =>
                             writeopen' = 1 /\ (Empty' \/ Writers \cap killed' # {})
                        /\ pc'[q] = "w_asleep" => readopen' = 1 /\ Full'
      BY Zenon DEF SleepInv
    <3>1. ~HolderAt("w_loop") /\ ~HolderAt("r_loop")
      BY <1>0, <1>1, Zenon DEF Close, HolderAt, PipeAssumption
    <3>2. (Empty' <=> Empty) /\ (Full' <=> Full) /\ killed' = killed
      BY <1>1, Zenon DEF Close, Empty, Full
    <3>3. ASSUME pc'[q] = "r_asleep"
          PROVE  pc[q] = "r_asleep" /\ ~LastIn(Writers, p)
      BY <1>1, <3>3, Zenon DEF Close, WakeReaders, WakeWriters, TypeOK
    <3>4. ASSUME pc'[q] = "w_asleep"
          PROVE  pc[q] = "w_asleep" /\ ~LastIn(Readers, p)
      <4>1. pc[q] = "w_asleep"
        BY <1>1, <3>4, Zenon DEF Close, WakeReaders, WakeWriters, TypeOK
      <4>2. q \in Writers \cap open /\ q # p
        BY <1>1, <4>1, Zenon DEF Close, LockInv
      <4>3. ~LastIn(Writers, p)
        BY <4>2, Zenon DEF LastIn
      <4> QED
        BY <1>1, <3>4, <4>1, <4>3, Zenon DEF Close, WakeWriters, TypeOK
    <3> QED
      BY <1>1, <3>1, <3>2, <3>3, <3>4, Zenon DEF Close, SleepInv, TypeOK
  <2>4. EndOfFile' /\ (Count <= PIPESIZE)'
    <3>1. \A q \in Procs : pc'[q] = "r_loop" => pc[q] = "r_loop"
      BY <1>1, Zenon DEF Close, WakeReaders, WakeWriters, TypeOK
    <3>2. UNCHANGED <<nread, nwrite, i>> /\ (writeopen = 0 => writeopen' = 0)
      BY <1>1, Zenon DEF Close
    <3>3. EndOfFile'
      BY <3>1, <3>2, Zenon DEF EndOfFile, Empty
    <3> QED
      BY <3>2, <3>3, Zenon DEF Count
  <2> QED
    BY <2>1, <2>2, <2>3, <2>4, Zenon
<1>2. ASSUME NEW p \in Procs, NEW k \in 1..MaxN, Call(p, k) PROVE Inv'
  <2>1. TypeOK'
    BY <1>0, <1>2 DEF Call, PipeAssumption, TypeOK
  <2>2. LockInv' /\ EndInv'
    BY <1>0, <1>2 DEF Call, PipeAssumption, TypeOK, LockInv, EndInv
  <2>3. SleepInv'
    BY <1>0, <1>2, Zenon DEF Call, PipeAssumption, TypeOK, LockInv, EndInv, SleepInv, HolderAt,
       Empty, Full
  <2>4. EndOfFile' /\ (Count <= PIPESIZE)'
    BY <1>0, <1>2, Zenon DEF Call, PipeAssumption, TypeOK, LockInv, EndOfFile, Empty, Count
  <2> QED
    BY <2>1, <2>2, <2>3, <2>4, Zenon
<1>3. ASSUME NEW p \in Procs, Acquire(p) PROVE Inv'
  <2>1. TypeOK'
    BY <1>0, <1>3, Zenon DEF Acquire, PipeAssumption, TypeOK
  <2>2. LockInv' /\ EndInv'
    BY <1>0, <1>3 DEF Acquire, PipeAssumption, TypeOK, LockInv, EndInv
  <2>3. SleepInv'
    BY <1>0, <1>3 DEF Acquire, PipeAssumption, TypeOK, LockInv, EndInv, SleepInv,
       HolderAt, Empty, Full
  <2>4. EndOfFile' /\ (Count <= PIPESIZE)'
    BY <1>0, <1>3, Zenon DEF Acquire, PipeAssumption, TypeOK, LockInv, EndOfFile, Empty, Count
  <2> QED
    BY <2>1, <2>2, <2>3, <2>4, Zenon
<1>4. ASSUME NEW p \in Procs, WriteFail(p) PROVE Inv'
  <2>1. TypeOK'
    BY <1>0, <1>4 DEF WriteFail, MoreToWrite, Finish, PipeAssumption, TypeOK
  <2>2. LockInv' /\ EndInv'
    BY <1>0, <1>4 DEF WriteFail, MoreToWrite, Finish, PipeAssumption, TypeOK, LockInv,
       EndInv
  <2>3. SleepInv'
    BY <1>0, <1>4 DEF WriteFail, MoreToWrite, Finish, PipeAssumption, TypeOK, LockInv,
       EndInv, SleepInv, HolderAt, Empty, Full
  <2>4. EndOfFile' /\ (Count <= PIPESIZE)'
    BY <1>0, <1>4, Zenon DEF WriteFail, MoreToWrite, Finish, PipeAssumption, TypeOK, LockInv,
       EndOfFile, Empty, Count
  <2> QED
    BY <2>1, <2>2, <2>3, <2>4, Zenon
<1>5. ASSUME NEW p \in Procs, WriteSleep(p) PROVE Inv'
  <2>1. TypeOK'
    BY <1>0, <1>5, Zenon DEF WriteSleep, MoreToWrite, WakeReaders, PipeAssumption, TypeOK
  <2>2. LockInv' /\ EndInv'
    BY <1>0, <1>5 DEF WriteSleep, MoreToWrite, WakeReaders, PipeAssumption, TypeOK,
       LockInv, EndInv
  <2>3. SleepInv'
    BY <1>0, <1>5, Zenon DEF WriteSleep, MoreToWrite, WakeReaders, PipeAssumption, TypeOK,
       LockInv, EndInv, SleepInv, HolderAt, Empty, Full
  <2>4. EndOfFile' /\ (Count <= PIPESIZE)'
    BY <1>0, <1>5, Zenon DEF WriteSleep, MoreToWrite, WakeReaders, PipeAssumption, TypeOK,
       LockInv, EndOfFile, Empty, Count
  <2> QED
    BY <2>1, <2>2, <2>3, <2>4, Zenon
<1>6. ASSUME NEW p \in Procs, NEW v \in Byte, WriteByte(p, v) PROVE Inv'
  <2>1. TypeOK'
    <3>1. nwrite' \in 0..WORD-1
      BY <1>0, <1>6, RingFacts, Zenon DEF WriteByte
    <3>2. i' \in [Procs -> 0..MaxN]
      <4>1. i[p] \in 0..MaxN /\ n[p] \in 0..MaxN /\ i[p] < n[p]
        BY <1>6, Zenon DEF WriteByte, MoreToWrite, TypeOK
      <4>2. i[p] + 1 \in 0..MaxN
        BY <4>1 DEF PipeAssumption
      <4> QED
        BY <1>6, <4>2, Zenon DEF WriteByte, TypeOK
    <3> QED
      BY <1>6, <3>1, <3>2, Zenon DEF WriteByte, TypeOK
  <2>2. LockInv' /\ EndInv'
    BY <1>0, <1>6, Zenon DEF WriteByte, MoreToWrite, PipeAssumption, TypeOK, LockInv, EndInv
  <2>3. SleepInv'
    BY <1>0, <1>6, RingFacts, Zenon DEF WriteByte, MoreToWrite, PipeAssumption, TypeOK, LockInv,
       EndInv, SleepInv, HolderAt, Empty, Full
  <2>4. EndOfFile' /\ (Count <= PIPESIZE)'
    <3>1. Count < PIPESIZE
      BY <1>0, <1>6, RingFacts DEF WriteByte, PipeAssumption
    <3>2. Count' = Count + 1 /\ Count \in Nat
      BY <1>0, <1>6, <3>1, RingFacts, Zenon DEF WriteByte, Count
    <3>3. EndOfFile'
      BY <1>6, Zenon DEF WriteByte, MoreToWrite, TypeOK, LockInv, EndOfFile
    <3> QED
      BY <3>1, <3>2, <3>3 DEF PipeAssumption
  <2> QED
    BY <2>1, <2>2, <2>3, <2>4, Zenon
<1>7. ASSUME NEW p \in Procs, WriteDone(p) PROVE Inv'
  <2>1. TypeOK'
    BY <1>0, <1>7 DEF WriteDone, Finish, WakeReaders, PipeAssumption, TypeOK
  <2>2. LockInv' /\ EndInv'
    BY <1>0, <1>7 DEF WriteDone, Finish, WakeReaders, PipeAssumption, TypeOK, LockInv,
       EndInv
  <2>3. SleepInv'
    BY <1>0, <1>7 DEF WriteDone, Finish, WakeReaders, PipeAssumption, TypeOK, LockInv,
       EndInv, SleepInv, HolderAt, Empty, Full
  <2>4. EndOfFile' /\ (Count <= PIPESIZE)'
    BY <1>0, <1>7, Zenon DEF WriteDone, Finish, WakeReaders, PipeAssumption, TypeOK, LockInv,
       EndOfFile, Empty, Count
  <2> QED
    BY <2>1, <2>2, <2>3, <2>4, Zenon
<1>8. ASSUME NEW p \in Procs, ReadKilled(p) PROVE Inv'
  <2>1. TypeOK'
    BY <1>0, <1>8 DEF ReadKilled, Finish, PipeAssumption, TypeOK
  <2>2. LockInv' /\ EndInv'
    BY <1>0, <1>8 DEF ReadKilled, Finish, PipeAssumption, TypeOK, LockInv, EndInv
  <2>3. SleepInv'
    BY <1>0, <1>8 DEF ReadKilled, Finish, PipeAssumption, TypeOK, LockInv, EndInv,
       SleepInv, HolderAt, Empty, Full
  <2>4. EndOfFile' /\ (Count <= PIPESIZE)'
    BY <1>0, <1>8, Zenon DEF ReadKilled, Finish, PipeAssumption, TypeOK, LockInv, EndOfFile,
       Empty, Count
  <2> QED
    BY <2>1, <2>2, <2>3, <2>4, Zenon
<1>9. ASSUME NEW p \in Procs, ReadSleep(p) PROVE Inv'
  <2>1. TypeOK'
    BY <1>0, <1>9, Zenon DEF ReadSleep, PipeAssumption, TypeOK
  <2>2. LockInv' /\ EndInv'
    BY <1>0, <1>9 DEF ReadSleep, PipeAssumption, TypeOK, LockInv, EndInv
  <2>3. SleepInv'
    BY <1>0, <1>9 DEF ReadSleep, PipeAssumption, TypeOK, LockInv, EndInv, SleepInv,
       HolderAt, Empty, Full
  <2>4. EndOfFile' /\ (Count <= PIPESIZE)'
    BY <1>0, <1>9, Zenon DEF ReadSleep, PipeAssumption, TypeOK, LockInv, EndOfFile, Empty, Count
  <2> QED
    BY <2>1, <2>2, <2>3, <2>4, Zenon
<1>10. ASSUME NEW p \in Procs, ReadStart(p) PROVE Inv'
  <2>1. TypeOK'
    BY <1>0, <1>10, Zenon DEF ReadStart, ReadReady, PipeAssumption, TypeOK
  <2>2. LockInv' /\ EndInv'
    BY <1>0, <1>10, Zenon DEF ReadStart, ReadReady, PipeAssumption, TypeOK, LockInv, EndInv
  <2>3. SleepInv'
    BY <1>0, <1>10, Zenon DEF ReadStart, ReadReady, PipeAssumption, TypeOK, LockInv, EndInv,
       SleepInv, HolderAt, Empty, Full
  <2>4. EndOfFile' /\ (Count <= PIPESIZE)'
    BY <1>0, <1>10, Zenon DEF ReadStart, ReadReady, PipeAssumption, TypeOK, LockInv, EndOfFile,
       Empty, Count
  <2> QED
    BY <2>1, <2>2, <2>3, <2>4, Zenon
<1>11. ASSUME NEW p \in Procs, ReadByte(p) PROVE Inv'
  <2>1. TypeOK'
    <3>1. nread' \in 0..WORD-1
      BY <1>0, <1>11, RingFacts, Zenon DEF ReadByte
    <3>2. i' \in [Procs -> 0..MaxN]
      <4>1. i[p] \in 0..MaxN /\ n[p] \in 0..MaxN /\ i[p] < n[p]
        BY <1>11, Zenon DEF ReadByte, TypeOK
      <4>2. i[p] + 1 \in 0..MaxN
        BY <4>1 DEF PipeAssumption
      <4> QED
        BY <1>11, <4>2, Zenon DEF ReadByte, TypeOK
    <3> QED
      BY <1>11, <3>1, <3>2, Zenon DEF ReadByte, TypeOK
  <2>2. LockInv' /\ EndInv'
    BY <1>0, <1>11, Zenon DEF ReadByte, PipeAssumption, TypeOK, LockInv, EndInv
  <2>3. SleepInv'
    BY <1>0, <1>11, RingFacts, Zenon DEF ReadByte, PipeAssumption, TypeOK, LockInv, EndInv,
       SleepInv, HolderAt, Empty, Full
  <2>4. EndOfFile' /\ (Count <= PIPESIZE)'
    <3>1. Count > 0
      BY <1>0, <1>11, RingFacts DEF ReadByte
    <3>2. Count' = Count - 1 /\ Count \in Nat
      BY <1>0, <1>11, <3>1, RingFacts, Zenon DEF ReadByte, Count
    <3>3. EndOfFile'
      BY <1>11 DEF ReadByte, TypeOK, LockInv, EndOfFile
    <3> QED
      BY <3>1, <3>2, <3>3 DEF PipeAssumption
  <2> QED
    BY <2>1, <2>2, <2>3, <2>4, Zenon
<1>12. ASSUME NEW p \in Procs, ReadFault(p) PROVE Inv'
  <2>1. TypeOK'
    <3>1. nread' \in 0..WORD-1
      BY <1>0, <1>12, RingFacts, Zenon DEF ReadFault
    <3>2. pc' \in [Procs -> {"idle", "r_lock", "r_wait", "r_loop", "r_asleep",
                             "w_lock", "w_loop", "w_asleep"}]
      BY <1>12, Zenon DEF ReadFault, Finish, WakeWriters, TypeOK
    <3>3. n' \in [Procs -> 0..MaxN] /\ i' \in [Procs -> 0..MaxN]
      BY <1>12 DEF ReadFault, Finish, TypeOK, PipeAssumption
    <3> QED
      BY <1>12, <3>1, <3>2, <3>3, Zenon DEF ReadFault, Finish, TypeOK
  <2>2. LockInv' /\ EndInv'
    BY <1>0, <1>12 DEF ReadFault, Finish, WakeWriters, PipeAssumption, TypeOK, LockInv,
       EndInv
  <2>3. SleepInv'
    <3>1. \A q \in Procs : pc'[q] # "w_asleep" /\ (pc'[q] = "r_asleep" => pc[q] = "r_asleep")
      BY <1>12, Zenon DEF ReadFault, Finish, WakeWriters, TypeOK
    <3>2. writeopen' = writeopen /\ killed' = killed /\ ~Empty
      BY <1>12, Zenon DEF ReadFault
    <3>3. lock = p /\ pc[p] = "r_loop"
      BY <1>12, Zenon DEF ReadFault, LockInv
    <3>4. ~HolderAt("w_loop")
      BY <3>3, Zenon DEF HolderAt
    <3> QED
      BY <3>1, <3>2, <3>4, Zenon DEF SleepInv
  <2>4. EndOfFile' /\ (Count <= PIPESIZE)'
    <3>1. Count > 0
      BY <1>0, <1>12, RingFacts DEF ReadFault
    <3>2. Count' = Count - 1 /\ Count \in Nat
      BY <1>0, <1>12, <3>1, RingFacts, Zenon DEF ReadFault, Count
    <3>3. lock = p /\ lock' = NoProc
      BY <1>12, Zenon DEF ReadFault, Finish, LockInv
    <3>4. \A q \in Procs : pc'[q] # "r_loop"
      BY <2>2, <3>3, Zenon DEF LockInv, PipeAssumption, Procs
    <3>5. EndOfFile'
      BY <3>4, Zenon DEF EndOfFile
    <3> QED
      BY <3>1, <3>2, <3>5 DEF PipeAssumption
  <2> QED
    BY <2>1, <2>2, <2>3, <2>4, Zenon
<1>13. ASSUME NEW p \in Procs, ReadDone(p) PROVE Inv'
  <2>1. TypeOK'
    BY <1>0, <1>13 DEF ReadDone, Finish, WakeWriters, PipeAssumption, TypeOK
  <2>2. LockInv' /\ EndInv'
    BY <1>0, <1>13 DEF ReadDone, Finish, WakeWriters, PipeAssumption, TypeOK, LockInv,
       EndInv
  <2>3. SleepInv'
    <3>1. \A q \in Procs : pc'[q] # "w_asleep" /\ (pc'[q] = "r_asleep" => pc[q] = "r_asleep")
      BY <1>13, Zenon DEF ReadDone, Finish, WakeWriters, TypeOK
    <3>2. UNCHANGED <<nread, nwrite, readopen, writeopen, killed>>
      BY <1>13, Zenon DEF ReadDone
    <3>3. lock = p /\ pc[p] = "r_loop"
      BY <1>13, Zenon DEF ReadDone, LockInv
    <3>4. ~HolderAt("w_loop")
      BY <3>3, Zenon DEF HolderAt
    <3> QED
      BY <3>1, <3>2, <3>4, SleepKept, Zenon
  <2>4. EndOfFile' /\ (Count <= PIPESIZE)'
    BY <1>0, <1>13, Zenon DEF ReadDone, Finish, WakeWriters, PipeAssumption, TypeOK, LockInv,
       EndOfFile, Empty, Count
  <2> QED
    BY <2>1, <2>2, <2>3, <2>4, Zenon
<1>14. ASSUME NEW p \in Procs, Kill(p) PROVE Inv'
  <2>1. TypeOK'
    BY <1>0, <1>14, Zenon DEF Kill, PipeAssumption, TypeOK
  <2>2. LockInv' /\ EndInv'
    <3>1. /\ UNCHANGED <<lock, open, readopen, writeopen, freed>>
          /\ \A q \in Procs : \/ pc'[q] = pc[q]
                              \/ pc[q] = "r_asleep" /\ pc'[q] = "r_lock"
                              \/ pc[q] = "w_asleep" /\ pc'[q] = "w_lock"
      BY <1>14 DEF Kill, TypeOK, endVars
    <3> QED
      BY <1>0, <3>1 DEF LockInv, EndInv
  <2>3. SleepInv'
    <3>1. \A q \in Procs : /\ pc'[q] \in {"r_asleep", "w_asleep"} => pc'[q] = pc[q]
                           /\ pc[q] \in {"r_loop", "w_loop"} => pc'[q] = pc[q]
      BY <1>14, Zenon DEF Kill, TypeOK
    <3>2. UNCHANGED <<nread, nwrite, readopen, writeopen, lock>> /\ killed \subseteq killed'
      BY <1>14, Zenon DEF Kill
    <3>3. /\ HolderAt("w_loop") => HolderAt("w_loop")'
          /\ HolderAt("r_loop") => HolderAt("r_loop")'
      BY <3>1, <3>2, Zenon DEF HolderAt
    <3> QED
      BY <3>1, <3>2, <3>3, SleepKept, Zenon
  <2>4. EndOfFile' /\ (Count <= PIPESIZE)'
    BY <1>0, <1>14, Zenon DEF Kill, PipeAssumption, TypeOK, LockInv, EndOfFile, Empty, Count
  <2> QED
    BY <2>1, <2>2, <2>3, <2>4, Zenon
<1>15. CASE UNCHANGED vars
  BY <1>15, Zenon DEF vars, TypeOK, LockInv, EndInv, SleepInv, HolderAt, EndOfFile, Empty, Full, Count
<1> QED
  BY <1>1, <1>2, <1>3, <1>4, <1>5, <1>6, <1>7, <1>8, <1>9, <1>10, <1>11, <1>12, <1>13,
     <1>14, <1>15, Zenon DEF Next, Ask, Write, Read

-----------------------------------------------------------------------------
(* What follows from the invariant.                                        *)

\* Every reachable state of a pipe satisfies the invariant.
THEOREM PipeInvariant == Spec => []Inv
BY InitInv, NextInv, PTL DEF Spec

\* The variables keep their types, pipeclose() frees the page when nobody has the
\* pipe open or is inside a call, and piperead() returns 0 only after the last
\* writer has closed.
THEOREM EndsAreSound == Spec => []EndsSound
<1>1. Inv => EndsSound
  BY Zenon DEF Inv, EndsSound, EndInv, LockInv, FreedUnused, TypeOK
<1> QED
  BY <1>1, PipeInvariant, PTL

\* Whenever pi->lock is free, nobody sleeps in piperead() or pipewrite() on a
\* condition that already holds.
THEOREM NobodyMissesWakeup == Spec => []NoMissedWakeup
<1>1. Inv => NoMissedWakeup
  BY PipeAssumption, Zenon DEF PipeAssumption, Inv, SleepInv, HolderAt, NoMissedWakeup, Procs
<1> QED
  BY <1>1, PipeInvariant, PTL

-----------------------------------------------------------------------------
(* The bytes of the ring.                                                  *)

\* Quotient and remainder.
LEMMA DivMod ==
  ASSUME NEW m \in Nat \ {0}, NEW x \in Nat
  PROVE  /\ x \div m \in Int /\ x % m \in 0..m-1
         /\ x = m * (x \div m) + (x % m)
OBVIOUS

\* A multiple of m strictly between -m and m is zero.
LEMMA SmallMultiple ==
  ASSUME NEW m \in Nat \ {0}, NEW z \in Int, m * z < m, m * z > 0 - m
  PROVE  z = 0
OBVIOUS

\* Two positions less than m apart are different slots of a ring of m slots.
LEMMA SlotsDiffer ==
  ASSUME NEW m \in Nat \ {0}, NEW x \in Nat, NEW y \in Nat, x < y, y < x + m
  PROVE  x % m # y % m
<1> DEFINE a == x \div m
           b == y \div m
<1> SUFFICES ASSUME x % m = y % m PROVE FALSE
  OBVIOUS
<1>1. a \in Int /\ x = m * a + (x % m) /\ x % m \in 0..m-1
  BY DivMod, Zenon
<1>2. b \in Int /\ y = m * b + (y % m)
  BY DivMod, Zenon
<1> HIDE DEF a, b
<1>3. y - x = m * (b - a)
  BY <1>1, <1>2
<1>4. b - a = 0
  BY <1>1, <1>2, <1>3, SmallMultiple
<1> QED
  BY <1>1, <1>2, <1>3, <1>4

\* A counter that wraps at a multiple of m keeps its slot.
LEMMA WrapKeepsSlot ==
  ASSUME NEW m \in Nat \ {0}, NEW w \in Nat, w % m = 0, NEW x \in Nat, x >= w
  PROVE  (x - w) % m = x % m
<1> DEFINE a == x \div m
           b == w \div m
           d == (x - w) \div m
<1>1. a \in Int /\ x = m * a + (x % m) /\ x % m \in 0..m-1
  BY DivMod, Zenon
<1>2. b \in Int /\ w = m * b
  BY DivMod
<1>3. d \in Int /\ x - w = m * d + ((x - w) % m) /\ (x - w) % m \in 0..m-1
  <2>1. x - w \in Nat
    OBVIOUS
  <2> QED
    BY <2>1, DivMod, Zenon
<1> HIDE DEF a, b, d
<1>4. m * (a - b - d) = ((x - w) % m) - (x % m)
  BY <1>1, <1>2, <1>3
<1> DEFINE z == a - b - d
<1>5. z \in Int /\ m * z = ((x - w) % m) - (x % m)
  BY <1>1, <1>2, <1>3, <1>4
<1> HIDE DEF z
<1>6. z = 0
  BY <1>1, <1>3, <1>5, SmallMultiple
<1>7. m * z = 0
  BY <1>6
<1> QED
  BY <1>1, <1>3, <1>5, <1>7

\* The slot of the k-th position after a counter, wrapped or not.
LEMMA SlotOf ==
  ASSUME NEW u \in 0..WORD-1, NEW k \in 0..WORD-1
  PROVE  /\ (u + k) % WORD = IF u + k < WORD THEN u + k ELSE u + k - WORD
         /\ ((u + k) % WORD) % PIPESIZE = (u + k) % PIPESIZE
<1> USE PipeAssumption DEF PipeAssumption
<1>1. (u + k) % WORD = IF u + k < WORD THEN u + k ELSE u + k - WORD
  OBVIOUS
<1>2. u + k \in Nat
  OBVIOUS
<1>3. CASE u + k < WORD
  BY <1>1, <1>3, Zenon
<1>4. CASE u + k >= WORD
  <2>1. (u + k - WORD) % PIPESIZE = (u + k) % PIPESIZE
    <3> DEFINE x == u + k
    <3>1. PIPESIZE \in Nat \ {0} /\ WORD \in Nat /\ WORD % PIPESIZE = 0
      OBVIOUS
    <3>2. x \in Nat /\ x >= WORD
      BY <1>2, <1>4, Zenon
    <3> HIDE DEF x
    <3>3. (x - WORD) % PIPESIZE = x % PIPESIZE
      BY <3>1, <3>2, WrapKeepsSlot, Zenon
    <3> QED
      BY <3>3 DEF x
  <2> QED
    BY <1>1, <1>4, <2>1, Zenon
<1> QED
  BY <1>2, <1>3, <1>4

\* Contents is a sequence of Count bytes.
LEMMA ContentsType ==
  TypeOK => Contents \in Seq(Byte) /\ Len(Contents) = Count /\ Count \in Nat
<1> SUFFICES ASSUME TypeOK
             PROVE  Contents \in Seq(Byte) /\ Len(Contents) = Count /\ Count \in Nat
  OBVIOUS
<1> USE PipeAssumption DEF PipeAssumption
<1>1. Count \in Nat
  BY RingFacts, Zenon DEF TypeOK
<1>2. \A k \in 1..Count : data[((nread + k - 1) % WORD) % PIPESIZE] \in Byte
  <2> TAKE k \in 1..Count
  <2>1. (nread + k - 1) % WORD \in Nat
    BY <1>1 DEF TypeOK
  <2>2. ((nread + k - 1) % WORD) % PIPESIZE \in 0..PIPESIZE-1
    BY <2>1
  <2> QED
    BY <2>2, Zenon DEF TypeOK
<1>3. Contents \in [1..Count -> Byte]
  BY <1>2, Zenon DEF Contents
<1> QED
  BY <1>1, <1>3

\* pipewrite() of one byte appends it: it goes to a slot that holds no byte of the
\* queue.
LEMMA WriteAppends ==
  ASSUME TypeOK, Count < PIPESIZE, NEW v \in Byte,
         data' = [data EXCEPT ![nwrite % PIPESIZE] = v],
         nwrite' = Inc(nwrite), nread' = nread, TypeOK'
  PROVE  Contents' = Append(Contents, v)
<1> USE PipeAssumption DEF PipeAssumption
<1>0. nread \in 0..WORD-1 /\ nwrite \in 0..WORD-1
  BY Zenon DEF TypeOK
<1>1. Count' = Count + 1 /\ Count \in Nat
  BY <1>0, RingFacts, Zenon DEF Count
<1>2. (nread + Count) % WORD = nwrite
  <2>1. Count = IF nread <= nwrite THEN nwrite - nread ELSE nwrite - nread + WORD
    BY <1>0, RingFacts, Zenon
  <2>2. nread + Count = IF nread <= nwrite THEN nwrite ELSE nwrite + WORD
    BY <1>0, <2>1
  <2> QED
    BY <1>0, <2>2
<1>3. nwrite % PIPESIZE = (nread + Count) % PIPESIZE
  <2>1. Count \in 0..WORD-1
    BY <1>1
  <2>2. ((nread + Count) % WORD) % PIPESIZE = (nread + Count) % PIPESIZE
    BY <1>0, <2>1, SlotOf, Zenon
  <2> QED
    BY <1>2, <2>2, Zenon
<1>4. ASSUME NEW k \in 1..Count
      PROVE  Contents'[k] = Contents[k]
  <2>1. ((nread + k - 1) % WORD) % PIPESIZE = (nread + k - 1) % PIPESIZE
    <3>1. k - 1 \in 0..WORD-1 /\ nread + (k - 1) = nread + k - 1
      BY <1>0, <1>1
    <3>2. ((nread + (k - 1)) % WORD) % PIPESIZE = (nread + (k - 1)) % PIPESIZE
      BY <1>0, <3>1, SlotOf, Zenon
    <3> QED
      BY <3>1, <3>2, Zenon
  <2>2. (nread + k - 1) % PIPESIZE # (nread + Count) % PIPESIZE
    <3>1. nread + k - 1 \in Nat /\ nread + Count \in Nat
          /\ nread + k - 1 < nread + Count /\ nread + Count < (nread + k - 1) + PIPESIZE
      BY <1>0, <1>1
    <3> QED
      BY <3>1, SlotsDiffer, Zenon
  <2>3. data'[((nread + k - 1) % WORD) % PIPESIZE] = data[((nread + k - 1) % WORD) % PIPESIZE]
    BY <1>3, <2>1, <2>2 DEF TypeOK
  <2>4. k \in 1..Count'
    BY <1>1
  <2> QED
    BY <2>3, <2>4, Zenon DEF Contents
<1>5. Contents'[Count + 1] = v
  <2>1. Contents'[Count + 1] = data'[((nread + (Count + 1) - 1) % WORD) % PIPESIZE]
    BY <1>1 DEF Contents
  <2>2. nread + (Count + 1) - 1 = nread + Count
    BY <1>0, <1>1
  <2>3. nwrite % PIPESIZE \in 0..PIPESIZE-1
    BY <1>0
  <2> QED
    BY <1>2, <2>1, <2>2, <2>3, Zenon DEF TypeOK
<1>6. Contents \in Seq(Byte) /\ Len(Contents) = Count
  BY ContentsType, Zenon
<1>7. Contents' \in Seq(Byte) /\ Len(Contents') = Count + 1
  <2>1. (Contents \in Seq(Byte) /\ Len(Contents) = Count)'
    BY ContentsType, PTL
  <2> QED
    BY <1>1, <2>1, Zenon
<1>8. /\ Append(Contents, v) \in Seq(Byte) /\ Len(Append(Contents, v)) = Count + 1
      /\ \A k \in 1..Count : Append(Contents, v)[k] = Contents[k]
      /\ Append(Contents, v)[Count + 1] = v
  BY <1>6, AppendProperties
<1>9. \A k \in 1..Count + 1 : Contents'[k] = Append(Contents, v)[k]
  BY <1>1, <1>4, <1>5, <1>8
<1> QED
  BY <1>7, <1>8, <1>9, SeqEqual, Zenon

\* piperead() of one byte removes the oldest one.
LEMMA ReadRemoves ==
  ASSUME TypeOK, Count > 0, Count <= PIPESIZE, data' = data,
         nread' = Inc(nread), nwrite' = nwrite, TypeOK'
  PROVE  Contents' = Tail(Contents)
<1> USE PipeAssumption DEF PipeAssumption
<1>0. nread \in 0..WORD-1 /\ nwrite \in 0..WORD-1
  BY Zenon DEF TypeOK
<1>1. Count' = Count - 1 /\ Count \in Nat
  BY <1>0, RingFacts, Zenon DEF Count
<1>2. ASSUME NEW k \in 1..Count - 1
      PROVE  Contents'[k] = Contents[k + 1]
  <2>1. (nread' + k - 1) % WORD = (nread + (k + 1) - 1) % WORD
    <3>1. nread' = IF nread = WORD - 1 THEN 0 ELSE nread + 1
      BY <1>0 DEF Inc
    <3>2. CASE nread = WORD - 1
      BY <1>0, <1>1, <3>1, <3>2
    <3>3. CASE nread # WORD - 1
      <4>1. nread' + k - 1 = nread + (k + 1) - 1
        BY <1>0, <1>1, <3>1, <3>3
      <4> QED
        BY <4>1, Zenon
    <3> QED
      BY <3>2, <3>3, Zenon
  <2>2. k \in 1..Count' /\ k + 1 \in 1..Count
    BY <1>1
  <2> QED
    BY <2>1, <2>2, Zenon DEF Contents
<1>3. Contents \in Seq(Byte) /\ Len(Contents) = Count /\ Contents # << >>
  BY ContentsType
<1>4. Contents' \in Seq(Byte) /\ Len(Contents') = Count - 1
  <2>1. (Contents \in Seq(Byte) /\ Len(Contents) = Count)'
    BY ContentsType, PTL
  <2> QED
    BY <1>1, <2>1, Zenon
<1>5. /\ Tail(Contents) \in Seq(Byte) /\ Len(Tail(Contents)) = Count - 1
      /\ \A k \in 1..Count - 1 : Tail(Contents)[k] = Contents[k + 1]
  BY <1>3, HeadTailProperties
<1> QED
  BY <1>2, <1>4, <1>5, SeqEqual, Zenon

-----------------------------------------------------------------------------
(* The pipe implements the queue.                                          *)

\* A new pipe is an empty queue.
LEMMA QueueInit == Init => Queue!Init
<1> SUFFICES ASSUME Init PROVE Queue!Init
  OBVIOUS
<1> USE PipeAssumption DEF PipeAssumption
<1>1. Count = 0
  BY RingFacts DEF Init
<1>2. TypeOK
  BY InitInv, Zenon DEF Inv
<1>3. Contents = << >>
  BY <1>1, <1>2, ContentsType
<1> QED
  BY <1>3, Zenon DEF Init, Queue!Init

\* Every step of the pipe is one step of the queue, or none.
LEMMA QueueStep == Inv /\ Inv' /\ [Next]_vars => [Queue!Next]_Queue!qvars
<1> SUFFICES ASSUME Inv, Inv', [Next]_vars PROVE [Queue!Next]_Queue!qvars
  OBVIOUS
<1> USE PipeAssumption DEF ringVars, endVars, callVars
<1>0. nread \in 0..WORD-1 /\ nwrite \in 0..WORD-1 /\ TypeOK /\ TypeOK'
  BY Zenon DEF Inv, TypeOK
<1>1. ASSUME UNCHANGED <<ringVars, readopen, writeopen>>
      PROVE  UNCHANGED Queue!qvars
  BY <1>1, Zenon DEF Queue!qvars, Contents, Count
<1>2. ASSUME NEW p \in Procs, NEW v \in Byte, WriteByte(p, v)
      PROVE  Queue!Put(v)
  <2>1. Count < PIPESIZE
    BY <1>0, <1>2, RingFacts DEF WriteByte, Inv, PipeAssumption
  <2>2. Contents' = Append(Contents, v)
    BY <1>0, <1>2, <2>1, WriteAppends, Zenon DEF WriteByte
  <2>3. writeopen = 1
    BY <1>2, Zenon DEF WriteByte, MoreToWrite, Inv, LockInv, EndInv, TypeOK
  <2>4. Len(Contents) < PIPESIZE
    BY <1>0, <2>1, ContentsType, Zenon
  <2> QED
    BY <1>2, <2>2, <2>3, <2>4, Zenon DEF WriteByte, Queue!Put
<1>3. ASSUME NEW p \in Procs, ReadByte(p) \/ ReadFault(p)
      PROVE  Queue!Get
  <2>1. Count > 0 /\ Count <= PIPESIZE
    <3>1. ~Empty /\ Count <= PIPESIZE
      BY <1>3, Zenon DEF ReadByte, ReadFault, Inv
    <3> QED
      BY <1>0, <3>1, RingFacts
  <2>2. Contents' = Tail(Contents)
    <3>1. data' = data /\ nread' = Inc(nread) /\ nwrite' = nwrite
      BY <1>3, Zenon DEF ReadByte, ReadFault
    <3> QED
      BY <1>0, <2>1, <3>1, ReadRemoves, Zenon
  <2>3. readopen = 1
    BY <1>3, Zenon DEF ReadByte, ReadFault, Inv, LockInv, EndInv, TypeOK
  <2>4. Contents # << >>
    BY <1>0, <2>1, ContentsType
  <2> QED
    BY <1>3, <2>2, <2>3, <2>4, Zenon DEF ReadByte, ReadFault, Queue!Get
<1>4. ASSUME NEW p \in Procs, Close(p)
      PROVE  Queue!CloseRead \/ Queue!CloseWrite \/ UNCHANGED Queue!qvars
  <2>1. Contents' = Contents
    BY <1>4, Zenon DEF Close, LastIn, Contents, Count
  <2>2. readopen' = readopen \/ (readopen = 1 /\ readopen' = 0)
    BY <1>4, Zenon DEF Close, LastIn, Inv, TypeOK
  <2>3. writeopen' = writeopen \/ (writeopen = 1 /\ writeopen' = 0)
    BY <1>4, Zenon DEF Close, LastIn, Inv, TypeOK
  <2>4. readopen' = readopen \/ writeopen' = writeopen
    BY <1>4, Zenon DEF Close, LastIn, Inv, TypeOK, EndInv, PipeAssumption, Procs
  <2> QED
    BY <2>1, <2>2, <2>3, <2>4, Zenon DEF Queue!CloseRead, Queue!CloseWrite, Queue!qvars
<1>5. ASSUME NEW p \in Procs,
             \/ \E k \in 1..MaxN : Call(p, k)
             \/ Acquire(p) \/ WriteFail(p) \/ WriteSleep(p) \/ WriteDone(p)
             \/ ReadKilled(p) \/ ReadSleep(p) \/ ReadStart(p) \/ ReadDone(p) \/ Kill(p)
      PROVE  UNCHANGED <<ringVars, readopen, writeopen>>
  BY <1>5, Zenon DEF Call, Acquire, WriteFail, WriteSleep, WriteDone, ReadKilled, ReadSleep, ReadStart,
     ReadDone, Kill
<1>6. CASE UNCHANGED vars
  BY <1>1, <1>6, Zenon DEF vars
<1>7. CASE Next
  BY <1>1, <1>2, <1>3, <1>4, <1>5, <1>7, Zenon DEF Next, Ask, Write, Read, Queue!Next
<1> QED
  BY <1>6, <1>7, Zenon

\* pipewrite() and piperead() implement a bounded first-in first-out queue, for
\* any capacity that divides the range of the counters, however often they wrap.
THEOREM PipeIsByteQueue == Spec => IsByteQueue
<1>1. Init => Queue!Init
  BY QueueInit, Zenon
<1>2. Inv /\ Inv' /\ [Next]_vars => [Queue!Next]_Queue!qvars
  BY QueueStep, Zenon
<1> QED
  BY <1>1, <1>2, PipeInvariant, PTL DEF Spec, IsByteQueue, Queue!Spec
=============================================================================
