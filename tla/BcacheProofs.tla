---------------------------- MODULE BcacheProofs ----------------------------
(***************************************************************************)
(* The steps of Bcache that keep what every process refers to              *)
(* (acquiresleep(), the transfers, bpin() and bunpin(), releasesleep()),   *)
(* what follows from the invariant of BcacheSteps, and that the cache      *)
(* implements BlockStore.                                                  *)
(***************************************************************************)
EXTENDS BcacheSteps

-----------------------------------------------------------------------------
(* The steps that keep the references.                                     *)

\* p goes on with the buffer it works on; releasesleep() may wake the others.
Keeps(p) ==
  /\ pc[p] \in Inside /\ pc'[p] \in Inside /\ held' = held /\ UNCHANGED <<blockno, lru>>
  /\ \A q \in Procs : q # p => pc'[q] = pc[q] \/ (pc[q] = "asleep" /\ pc'[q] = "lock")

LEMMA KeepFacts ==
  ASSUME Inv, NEW p \in Procs, Keeps(p)
  PROVE  /\ Buf(p) \in Bufs /\ blockno[Buf(p)] \in Blocks
         /\ \A q \in Procs : Buf(q)' = Buf(q)
         /\ \A b \in Bufs : Users(b)' = Users(b)
         /\ \A q \in Procs, b \in Bufs : q # p \/ b # Buf(p) => (Has(q, b)' <=> Has(q, b))
         /\ Has(p, Buf(p)) <=> pc[p] \in Locking
         /\ Has(p, Buf(p))' <=> pc'[p] \in Locking
         /\ HeldInv' /\ ListInv' /\ OneBufferPerBlock'
<1> USE DEF Inv
<1>0. /\ Buf(p) \in Bufs /\ blockno[Buf(p)] \in Blocks /\ Len(held[p]) > 0
      /\ Len(held[p]) = 2 => held[p][1] \in Bufs /\ held[p][1] # Buf(p)
  BY BufFacts, Zenon DEF Keeps
<1>1. /\ \A q \in Procs : Buf(q)' = Buf(q)
      /\ \A b \in Bufs : Users(b)' = Users(b)
  BY Zenon DEF Keeps, Buf, Users
<1>2. \A q \in Procs, b \in Bufs : q # p \/ b # Buf(p) => (Has(q, b)' <=> Has(q, b))
  BY <1>0, <1>1, Zenon DEF Keeps, Has, Locking
<1>3. (Has(p, Buf(p)) <=> pc[p] \in Locking) /\ (Has(p, Buf(p))' <=> pc'[p] \in Locking)
  BY <1>0, <1>1, Zenon DEF Keeps, Has, Inside
<1>4. HeldInv'
  <2>1. \A q \in Procs : \A s \in {"idle", "panic"} : pc'[q] = s <=> pc[q] = s
    BY Zenon DEF Keeps, Inside
  <2> QED
    BY <1>0, <2>1, Zenon DEF HeldInv, Keeps
<1>5. ListInv' /\ OneBufferPerBlock'
  BY Zenon DEF Keeps, ListInv, OneBufferPerBlock
<1> QED
  BY <1>0, <1>1, <1>2, <1>3, <1>4, <1>5, Zenon

LEMMA KeepLock ==
  ASSUME Inv, NEW p \in Procs, Keeps(p),
         \A q \in Procs, b \in Bufs : q # p \/ b # Buf(p) => (lk'[b] = q <=> lk[b] = q),
         lk'[Buf(p)] = p <=> pc'[p] \in Locking
  PROVE  LockInv'
  BY KeepFacts DEF LockInv, Inv

\* The contents do not change, and nobody begins or ends a write.
LEMMA KeepClean ==
  ASSUME Inv, NEW p \in Procs, Keeps(p), UNCHANGED <<valid, data, disk, pinned>>,
         pc[p] \notin {"writing", "unpin"}, pc'[p] \notin {"writing", "unpin"}
  PROVE  CleanInv'
<1>1. \A q \in Procs : \A s \in {"writing", "unpin"} : pc'[q] = s <=> pc[q] = s
  BY Zenon DEF Keeps
<1>2. (\A q \in Procs : Buf(q)' = Buf(q)) /\ UNCHANGED blockno
  BY KeepFacts, Zenon DEF Keeps
<1> QED
  BY <1>1, <1>2 DEF CleanInv, Inv

\* Nobody fills a buffer that is valid.
LEMMA KeepReading ==
  ASSUME Inv, NEW p \in Procs, Keeps(p), UNCHANGED valid,
         pc'[p] = "reading" => valid[Buf(p)] = 0
  PROVE  \A q \in Procs : pc'[q] = "reading" => valid'[Buf(q)'] = 0
<1>1. \A q \in Procs : Buf(q)' = Buf(q)
  BY KeepFacts, Zenon
<1>2. \A q \in Procs : pc[q] = "reading" => valid[Buf(q)] = 0
  BY Zenon DEF Inv, ValidInv
<1>3. \A q \in Procs : q # p /\ pc'[q] = "reading" => pc[q] = "reading"
  BY Zenon DEF Keeps
<1> QED
  BY <1>1, <1>2, <1>3, Zenon

LEMMA SleepOnLockInv == ASSUME Inv, NEW p \in Procs, SleepOnLock(p) PROVE Inv'
<1> USE DEF Inv
<1>1. Keeps(p) /\ pc[p] \in {"lock"} /\ pc'[p] \in {"asleep"}
  BY Zenon DEF SleepOnLock, bufVars, Keeps, Inside, TypeOK
<1>2. /\ Buf(p) \in Bufs /\ blockno[Buf(p)] \in Blocks
      /\ (\A q \in Procs : Buf(q)' = Buf(q)) /\ (\A b \in Bufs : Users(b)' = Users(b))
      /\ HeldInv' /\ ListInv' /\ OneBufferPerBlock'
  BY <1>1, KeepFacts, Zenon
<1>3. /\ UNCHANGED <<valid, refcnt, data, lk, disk, pinned>>
      /\ lk[Buf(p)] # NoProc
  BY <1>2, Zenon DEF SleepOnLock, bufVars, TypeOK
<1>4. RefcntExact'
  BY <1>2, <1>3, Zenon DEF RefcntExact
<1>5. TypeOK'
  BY <1>2, Zenon DEF SleepOnLock, bufVars, TypeOK
<1>6. LockInv'
  BY <1>1, <1>2, <1>3, KeepFacts, KeepLock, Zenon DEF LockInv, Locking
<1>7. ValidInv'
  <2>1. \A c \in Bufs : valid'[c] = 1 => blockno'[c] # NoBlock
    BY <1>1, <1>2, <1>3, BcacheAssumption, Zenon DEF ValidInv, Keeps, BcacheAssumption
  <2>2. \A c \in pinned' : valid'[c] = 1
    BY <1>1, <1>3, LockedFacts, Zenon DEF ValidInv, TypeOK, Locking
  <2>3. ASSUME NEW q \in Procs, NEW c \in Bufs, Has(q, c)',
               ~(pc'[q] = "reading" /\ c = Buf(q)')
        PROVE  valid'[c] = 1
    <3>1. CASE q = p /\ c = Buf(p)
      BY <1>1, <1>2, <1>3, <2>3, <3>1, KeepFacts, LockedFacts DEF Locking
    <3>2. CASE q # p \/ c # Buf(p)
      <4>1. Has(q, c) /\ ~(pc[q] = "reading" /\ c = Buf(q))
        BY <1>1, <1>2, <2>3, <3>2, KeepFacts, Zenon DEF Keeps
      <4> QED
        BY <1>3, <4>1, Zenon DEF ValidInv
    <3> QED
      BY <3>1, <3>2, Zenon
  <2>4. \A q \in Procs : pc'[q] = "reading" => valid'[Buf(q)'] = 0
    BY <1>1, <1>3, KeepReading, Zenon
  <2> QED
    BY <2>1, <2>2, <2>3, <2>4, Zenon DEF ValidInv
<1>8. CleanInv'
  BY <1>1, <1>3, KeepClean, Zenon
<1>9. SleepInv'
  <2>1. ASSUME NEW q \in Procs, pc'[q] = "asleep" PROVE lk'[Buf(q)] # NoProc
    <3>1. Buf(q) \in Bufs /\ lk[Buf(q)] # NoProc
      BY <1>1, <1>2, <1>3, <2>1, BufFacts, Zenon DEF Keeps, SleepInv, Inside
    <3> QED
      BY <1>3, <2>1, <3>1, Zenon
  <2> QED
    BY <1>2, <2>1, Zenon DEF SleepInv
<1> QED
  BY <1>2, <1>4, <1>5, <1>6, <1>7, <1>8, <1>9, Zenon

LEMMA TakeLockInv == ASSUME Inv, NEW p \in Procs, TakeLock(p) PROVE Inv'
<1> USE DEF Inv
<1>1. Keeps(p) /\ pc[p] \in {"lock"} /\ pc'[p] \in {"ready", "reading"}
  BY Zenon DEF TakeLock, bufVars, Keeps, Inside, TypeOK
<1>2. /\ Buf(p) \in Bufs /\ blockno[Buf(p)] \in Blocks
      /\ (\A q \in Procs : Buf(q)' = Buf(q)) /\ (\A b \in Bufs : Users(b)' = Users(b))
      /\ HeldInv' /\ ListInv' /\ OneBufferPerBlock'
  BY <1>1, KeepFacts, Zenon
<1>3. /\ UNCHANGED <<valid, refcnt, data, disk, pinned>>
      /\ lk[Buf(p)] = NoProc /\ lk'[Buf(p)] = p
      /\ \A c \in Bufs : c # Buf(p) => lk'[c] = lk[c]
      /\ valid[Buf(p)] = IF pc'[p] = "ready" THEN 1 ELSE 0
  BY <1>2, Zenon DEF TakeLock, bufVars, TypeOK
<1>4. RefcntExact'
  BY <1>2, <1>3, Zenon DEF RefcntExact
<1>5. TypeOK'
  BY <1>2, Zenon DEF TakeLock, bufVars, TypeOK
<1>6. LockInv'
  <2>1. lk[Buf(p)] \in {p, NoProc} /\ p # NoProc /\ \A q \in Procs : q # NoProc
    BY <1>1, <1>3, LockedFacts, BcacheAssumption, Zenon DEF Locking, BcacheAssumption
  <2> QED
    BY <1>1, <1>2, <1>3, <2>1, KeepLock, Zenon DEF Locking
<1>7. ValidInv'
  <2>1. \A c \in Bufs : valid'[c] = 1 => blockno'[c] # NoBlock
    BY <1>1, <1>2, <1>3, BcacheAssumption, Zenon DEF ValidInv, Keeps, BcacheAssumption
  <2>2. \A c \in pinned' : valid'[c] = 1
    BY <1>1, <1>3, LockedFacts, Zenon DEF ValidInv, TypeOK, Locking
  <2>3. ASSUME NEW q \in Procs, NEW c \in Bufs, Has(q, c)',
               ~(pc'[q] = "reading" /\ c = Buf(q)')
        PROVE  valid'[c] = 1
    <3>1. CASE q = p /\ c = Buf(p)
      BY <1>1, <1>2, <1>3, <2>3, <3>1, KeepFacts, LockedFacts, Zenon DEF Locking
    <3>2. CASE q # p \/ c # Buf(p)
      <4>1. Has(q, c) /\ ~(pc[q] = "reading" /\ c = Buf(q))
        BY <1>1, <1>2, <2>3, <3>2, KeepFacts, Zenon DEF Keeps
      <4> QED
        BY <1>3, <4>1, Zenon DEF ValidInv
    <3> QED
      BY <3>1, <3>2, Zenon
  <2>4. \A q \in Procs : pc'[q] = "reading" => valid'[Buf(q)'] = 0
    BY <1>1, <1>3, KeepReading, Zenon
  <2> QED
    BY <2>1, <2>2, <2>3, <2>4, Zenon DEF ValidInv
<1>8. CleanInv'
  BY <1>1, <1>3, KeepClean, Zenon
<1>9. SleepInv'
  <2>1. ASSUME NEW q \in Procs, pc'[q] = "asleep" PROVE lk'[Buf(q)] # NoProc
    <3>1. Buf(q) \in Bufs /\ lk[Buf(q)] # NoProc
      BY <1>1, <1>2, <1>3, <2>1, BufFacts, Zenon DEF Keeps, SleepInv, Inside
    <3> QED
      BY <1>3, <2>1, <3>1, BcacheAssumption, Zenon DEF BcacheAssumption
  <2> QED
    BY <1>2, <2>1, Zenon DEF SleepInv
<1> QED
  BY <1>2, <1>4, <1>5, <1>6, <1>7, <1>8, <1>9, Zenon

LEMMA ReadDoneInv == ASSUME Inv, NEW p \in Procs, ReadDone(p) PROVE Inv'
<1> USE DEF Inv
<1>1. Keeps(p) /\ pc[p] \in {"reading"} /\ pc'[p] \in {"ready"}
  BY Zenon DEF ReadDone, bufVars, Keeps, Inside, TypeOK
<1>2. /\ Buf(p) \in Bufs /\ blockno[Buf(p)] \in Blocks
      /\ (\A q \in Procs : Buf(q)' = Buf(q)) /\ (\A b \in Bufs : Users(b)' = Users(b))
      /\ HeldInv' /\ ListInv' /\ OneBufferPerBlock'
  BY <1>1, KeepFacts, Zenon
<1>3. /\ UNCHANGED <<refcnt, lk, disk, pinned>>
      /\ valid'[Buf(p)] = 1 /\ data'[Buf(p)] = disk[blockno[Buf(p)]]
      /\ \A c \in Bufs : c # Buf(p) => valid'[c] = valid[c] /\ data'[c] = data[c]
  BY <1>2, Zenon DEF ReadDone, bufVars, TypeOK
<1>4. RefcntExact'
  BY <1>2, <1>3, Zenon DEF RefcntExact
<1>5. TypeOK'
  BY <1>2, Zenon DEF ReadDone, bufVars, TypeOK
<1>6. LockInv'
  BY <1>1, <1>2, <1>3, LockedFacts, KeepLock, Zenon DEF Locking
<1>7. ValidInv'
  <2>1. \A c \in Bufs : valid'[c] = 1 => blockno'[c] # NoBlock
    BY <1>1, <1>2, <1>3, BcacheAssumption DEF ValidInv, Keeps, BcacheAssumption
  <2>2. \A c \in pinned' : valid'[c] = 1
    BY <1>1, <1>3, LockedFacts, Zenon DEF ValidInv, TypeOK, Locking
  <2>3. ASSUME NEW q \in Procs, NEW c \in Bufs, Has(q, c)',
               ~(pc'[q] = "reading" /\ c = Buf(q)')
        PROVE  valid'[c] = 1
    <3>1. CASE q = p /\ c = Buf(p)
      BY <1>1, <1>2, <1>3, <2>3, <3>1, KeepFacts, LockedFacts, Zenon DEF Locking
    <3>2. CASE q # p \/ c # Buf(p)
      <4>1. Has(q, c) /\ ~(pc[q] = "reading" /\ c = Buf(q))
        BY <1>1, <1>2, <2>3, <3>2, KeepFacts, Zenon DEF Keeps
      <4> QED
        BY <1>3, <4>1, Zenon DEF ValidInv
    <3> QED
      BY <3>1, <3>2, Zenon
  <2>4. \A q \in Procs : pc'[q] = "reading" => valid'[Buf(q)'] = 0
    BY <1>1, <1>2, <1>3, LockedFacts DEF Keeps, Locking
  <2> QED
    BY <2>1, <2>2, <2>3, <2>4, Zenon DEF ValidInv
<1>8. CleanInv'
  <2>1. \A q \in Procs : q # p => \A s \in {"writing", "unpin"} : pc'[q] = s <=> pc[q] = s
    BY <1>1, Zenon DEF Keeps
  <2>2. ASSUME NEW q \in Procs, pc'[q] = "unpin"
        PROVE  Buf(q)' \in pinned' /\ data'[Buf(q)'] = disk'[blockno[Buf(q)']]
    <3>1. q # p /\ pc[q] = "unpin" /\ Buf(q) \in Bufs /\ Buf(q) # Buf(p)
      BY <1>1, <2>1, <2>2, LockedFacts DEF Locking
    <3> QED
      BY <1>2, <1>3, <3>1 DEF CleanInv
  <2>3. ASSUME NEW b \in Bufs, valid'[b] = 1, data'[b] # disk'[blockno[b]]
        PROVE  b \in pinned' \/ \E q \in Procs : pc'[q] = "writing" /\ Buf(q)' = b
    BY <1>1, <1>2, <1>3, <2>1, <2>3 DEF CleanInv
  <2> QED
    BY <1>1, <2>2, <2>3, Zenon DEF CleanInv, Keeps
<1>9. SleepInv'
  <2>1. ASSUME NEW q \in Procs, pc'[q] = "asleep" PROVE lk'[Buf(q)] # NoProc
    <3>1. Buf(q) \in Bufs /\ lk[Buf(q)] # NoProc
      BY <1>1, <1>2, <1>3, <2>1, BufFacts, Zenon DEF Keeps, SleepInv, Inside
    <3> QED
      BY <1>3, <2>1, <3>1, Zenon
  <2> QED
    BY <1>2, <2>1, Zenon DEF SleepInv
<1> QED
  BY <1>2, <1>4, <1>5, <1>6, <1>7, <1>8, <1>9, Zenon

LEMMA BwriteInv == ASSUME Inv, NEW p \in Procs, NEW v \in Val, Bwrite(p, v) PROVE Inv'
<1> USE DEF Inv
<1>1. Keeps(p) /\ pc[p] \in {"ready"} /\ pc'[p] \in {"writing"}
  BY Zenon DEF Bwrite, bufVars, Keeps, Inside, TypeOK
<1>2. /\ Buf(p) \in Bufs /\ blockno[Buf(p)] \in Blocks
      /\ (\A q \in Procs : Buf(q)' = Buf(q)) /\ (\A b \in Bufs : Users(b)' = Users(b))
      /\ HeldInv' /\ ListInv' /\ OneBufferPerBlock'
  BY <1>1, KeepFacts, Zenon
<1>3. /\ UNCHANGED <<valid, refcnt, lk, disk, pinned>>
      /\ \A c \in Bufs : c # Buf(p) => data'[c] = data[c]
      /\ Buf(p) \in pinned => data' = data
  BY <1>2, Zenon DEF Bwrite, bufVars, TypeOK
<1>4. RefcntExact'
  BY <1>2, <1>3, Zenon DEF RefcntExact
<1>5. TypeOK'
  BY <1>2, Zenon DEF Bwrite, bufVars, TypeOK
<1>6. LockInv'
  BY <1>1, <1>2, <1>3, LockedFacts, KeepLock, Zenon DEF Locking
<1>7. ValidInv'
  <2>1. \A c \in Bufs : valid'[c] = 1 => blockno'[c] # NoBlock
    BY <1>1, <1>2, <1>3, BcacheAssumption, Zenon DEF ValidInv, Keeps, BcacheAssumption
  <2>2. \A c \in pinned' : valid'[c] = 1
    BY <1>1, <1>3, LockedFacts, Zenon DEF ValidInv, TypeOK, Locking
  <2>3. ASSUME NEW q \in Procs, NEW c \in Bufs, Has(q, c)',
               ~(pc'[q] = "reading" /\ c = Buf(q)')
        PROVE  valid'[c] = 1
    <3>1. CASE q = p /\ c = Buf(p)
      BY <1>1, <1>2, <1>3, <2>3, <3>1, KeepFacts, LockedFacts, Zenon DEF Locking
    <3>2. CASE q # p \/ c # Buf(p)
      <4>1. Has(q, c) /\ ~(pc[q] = "reading" /\ c = Buf(q))
        BY <1>1, <1>2, <2>3, <3>2, KeepFacts, Zenon DEF Keeps
      <4> QED
        BY <1>3, <4>1, Zenon DEF ValidInv
    <3> QED
      BY <3>1, <3>2, Zenon
  <2>4. \A q \in Procs : pc'[q] = "reading" => valid'[Buf(q)'] = 0
    BY <1>1, <1>3, KeepReading, Zenon
  <2> QED
    BY <2>1, <2>2, <2>3, <2>4, Zenon DEF ValidInv
<1>8. CleanInv'
  <2>1. \A q \in Procs : q # p => \A s \in {"writing", "unpin"} : pc'[q] = s <=> pc[q] = s
    BY <1>1, Zenon DEF Keeps
  <2>2. ASSUME NEW q \in Procs, pc'[q] = "unpin"
        PROVE  Buf(q)' \in pinned' /\ data'[Buf(q)'] = disk'[blockno[Buf(q)']]
    <3>1. q # p /\ pc[q] = "unpin" /\ Buf(q) \in Bufs /\ Buf(q) # Buf(p)
      BY <1>1, <2>1, <2>2, LockedFacts DEF Locking
    <3> QED
      BY <1>2, <1>3, <3>1, Zenon DEF CleanInv
  <2>3. ASSUME NEW b \in Bufs, valid'[b] = 1, data'[b] # disk'[blockno[b]]
        PROVE  b \in pinned' \/ \E q \in Procs : pc'[q] = "writing" /\ Buf(q)' = b
    BY <1>1, <1>2, <1>3, <2>1, <2>3 DEF CleanInv
  <2> QED
    BY <1>1, <2>2, <2>3, Zenon DEF CleanInv, Keeps
<1>9. SleepInv'
  <2>1. ASSUME NEW q \in Procs, pc'[q] = "asleep" PROVE lk'[Buf(q)] # NoProc
    <3>1. Buf(q) \in Bufs /\ lk[Buf(q)] # NoProc
      BY <1>1, <1>2, <1>3, <2>1, BufFacts, Zenon DEF Keeps, SleepInv, Inside
    <3> QED
      BY <1>3, <2>1, <3>1, Zenon
  <2> QED
    BY <1>2, <2>1, Zenon DEF SleepInv
<1> QED
  BY <1>2, <1>4, <1>5, <1>6, <1>7, <1>8, <1>9, Zenon

LEMMA WriteDoneInv == ASSUME Inv, NEW p \in Procs, WriteDone(p) PROVE Inv'
<1> USE DEF Inv
<1>1. Keeps(p) /\ pc[p] \in {"writing"} /\ pc'[p] \in {"unpin", "done"}
  BY Zenon DEF WriteDone, bufVars, Keeps, Inside, TypeOK
<1>2. /\ Buf(p) \in Bufs /\ blockno[Buf(p)] \in Blocks
      /\ (\A q \in Procs : Buf(q)' = Buf(q)) /\ (\A b \in Bufs : Users(b)' = Users(b))
      /\ HeldInv' /\ ListInv' /\ OneBufferPerBlock'
  BY <1>1, KeepFacts, Zenon
<1>3. /\ UNCHANGED <<valid, refcnt, data, lk, pinned>>
      /\ disk'[blockno[Buf(p)]] = data[Buf(p)]
      /\ \A k \in Blocks : k # blockno[Buf(p)] => disk'[k] = disk[k]
      /\ pc'[p] = "unpin" <=> Buf(p) \in pinned
  BY <1>2, Zenon DEF WriteDone, bufVars, TypeOK
<1>4. RefcntExact'
  BY <1>2, <1>3, Zenon DEF RefcntExact
<1>5. TypeOK'
  BY <1>2, Zenon DEF WriteDone, bufVars, TypeOK
<1>6. LockInv'
  BY <1>1, <1>2, <1>3, LockedFacts, KeepLock, Zenon DEF Locking
<1>7. ValidInv'
  <2>1. \A c \in Bufs : valid'[c] = 1 => blockno'[c] # NoBlock
    BY <1>1, <1>2, <1>3, BcacheAssumption, Zenon DEF ValidInv, Keeps, BcacheAssumption
  <2>2. \A c \in pinned' : valid'[c] = 1
    BY <1>1, <1>3, LockedFacts, Zenon DEF ValidInv, TypeOK, Locking
  <2>3. ASSUME NEW q \in Procs, NEW c \in Bufs, Has(q, c)',
               ~(pc'[q] = "reading" /\ c = Buf(q)')
        PROVE  valid'[c] = 1
    <3>1. CASE q = p /\ c = Buf(p)
      BY <1>1, <1>2, <1>3, <2>3, <3>1, KeepFacts, LockedFacts, Zenon DEF Locking
    <3>2. CASE q # p \/ c # Buf(p)
      <4>1. Has(q, c) /\ ~(pc[q] = "reading" /\ c = Buf(q))
        BY <1>1, <1>2, <2>3, <3>2, KeepFacts, Zenon DEF Keeps
      <4> QED
        BY <1>3, <4>1, Zenon DEF ValidInv
    <3> QED
      BY <3>1, <3>2, Zenon
  <2>4. \A q \in Procs : pc'[q] = "reading" => valid'[Buf(q)'] = 0
    BY <1>1, <1>3, KeepReading, Zenon
  <2> QED
    BY <2>1, <2>2, <2>3, <2>4, Zenon DEF ValidInv
<1>8. CleanInv'
  <2>1. \A q \in Procs : q # p => \A s \in {"writing", "unpin"} : pc'[q] = s <=> pc[q] = s
    BY <1>1, Zenon DEF Keeps
  <2>2. \A c \in Bufs : c # Buf(p) => blockno[c] # blockno[Buf(p)]
    BY <1>2, BcacheAssumption, Zenon DEF OneBufferPerBlock, BcacheAssumption
  <2>3. \A c \in Bufs : c # Buf(p) /\ valid[c] = 1 => disk'[blockno[c]] = disk[blockno[c]]
    BY <1>3, <2>2, Zenon DEF ValidInv, TypeOK
  <2>4. ASSUME NEW q \in Procs, pc'[q] = "unpin"
        PROVE  Buf(q)' \in pinned' /\ data'[Buf(q)'] = disk'[blockno[Buf(q)']]
    <3>1. CASE q = p
      BY <1>2, <1>3, <2>4, <3>1, Zenon
    <3>2. CASE q # p
      <4>1. pc[q] = "unpin" /\ Buf(q) \in pinned /\ data[Buf(q)] = disk[blockno[Buf(q)]]
        BY <2>1, <2>4, <3>2, Zenon DEF CleanInv
      <4>2. Buf(q) \in Bufs /\ Buf(q) # Buf(p) /\ valid[Buf(q)] = 1
        BY <1>1, <3>2, <4>1, LockedFacts, Zenon DEF Locking
      <4> QED
        BY <1>2, <1>3, <2>3, <4>1, <4>2, Zenon
    <3> QED
      BY <3>1, <3>2, Zenon
  <2>5. ASSUME NEW b \in Bufs, valid'[b] = 1, data'[b] # disk'[blockno[b]]
        PROVE  b \in pinned' \/ \E q \in Procs : pc'[q] = "writing" /\ Buf(q)' = b
    <3>1. b # Buf(p) /\ valid[b] = 1 /\ data[b] # disk[blockno[b]]
      BY <1>3, <2>3, <2>5, Zenon
    <3> QED
      BY <1>2, <1>3, <2>1, <3>1 DEF CleanInv
  <2> QED
    BY <1>1, <2>4, <2>5, Zenon DEF CleanInv, Keeps
<1>9. SleepInv'
  <2>1. ASSUME NEW q \in Procs, pc'[q] = "asleep" PROVE lk'[Buf(q)] # NoProc
    <3>1. Buf(q) \in Bufs /\ lk[Buf(q)] # NoProc
      BY <1>1, <1>2, <1>3, <2>1, BufFacts, Zenon DEF Keeps, SleepInv, Inside
    <3> QED
      BY <1>3, <2>1, <3>1, Zenon
  <2> QED
    BY <1>2, <2>1, Zenon DEF SleepInv
<1> QED
  BY <1>2, <1>4, <1>5, <1>6, <1>7, <1>8, <1>9, Zenon

LEMMA LogWriteInv == ASSUME Inv, NEW p \in Procs, NEW v \in Val, LogWrite(p, v) PROVE Inv'
<1> USE DEF Inv
<1>1. Keeps(p) /\ pc[p] \in {"ready"} /\ pc'[p] \in {"done"}
  BY Zenon DEF LogWrite, bufVars, Keeps, Inside, TypeOK
<1>2. /\ Buf(p) \in Bufs /\ blockno[Buf(p)] \in Blocks
      /\ (\A q \in Procs : Buf(q)' = Buf(q)) /\ (\A b \in Bufs : Users(b)' = Users(b))
      /\ HeldInv' /\ ListInv' /\ OneBufferPerBlock'
  BY <1>1, KeepFacts, Zenon
<1>3. /\ UNCHANGED <<valid, lk, disk>>
      /\ \A c \in Bufs : c # Buf(p) => data'[c] = data[c]
      /\ pinned' = pinned \cup {Buf(p)}
  BY <1>2, Zenon DEF LogWrite, bufVars, TypeOK
<1>a. \A b \in Bufs : refcnt'[b] = refcnt[b] + (IF b \in pinned' \ pinned THEN 1 ELSE 0)
  <2>1. Buf(p) \in pinned => refcnt' = refcnt /\ pinned' = pinned
    BY Zenon DEF LogWrite
  <2>2. Buf(p) \notin pinned => /\ pinned' \ pinned = {Buf(p)}
                              /\ refcnt' = [refcnt EXCEPT ![Buf(p)] = @ + 1]
    BY Zenon DEF LogWrite
  <2> QED
    BY <1>2, <2>1, <2>2 DEF TypeOK
<1>b. pinned \subseteq pinned' /\ refcnt' \in [Bufs -> Int]
  BY <1>2 DEF LogWrite, TypeOK
<1>4. RefcntExact'
  BY <1>2, <1>a, <1>b, RefFacts DEF RefcntExact
<1>c. \A b \in Bufs : refcnt'[b] \in 0..Cardinality(Procs) + 1
  BY <1>2, <1>4, RefFacts DEF RefcntExact
<1>5. TypeOK'
  BY <1>2, <1>b, <1>c, Zenon DEF LogWrite, TypeOK
<1>6. LockInv'
  BY <1>1, <1>2, <1>3, LockedFacts, KeepLock, Zenon DEF Locking
<1>7. ValidInv'
  <2>1. \A c \in Bufs : valid'[c] = 1 => blockno'[c] # NoBlock
    BY <1>1, <1>2, <1>3, BcacheAssumption, Zenon DEF ValidInv, Keeps, BcacheAssumption
  <2>2. \A c \in pinned' : valid'[c] = 1
    BY <1>1, <1>3, LockedFacts DEF ValidInv, TypeOK, Locking
  <2>3. ASSUME NEW q \in Procs, NEW c \in Bufs, Has(q, c)',
               ~(pc'[q] = "reading" /\ c = Buf(q)')
        PROVE  valid'[c] = 1
    <3>1. CASE q = p /\ c = Buf(p)
      BY <1>1, <1>2, <1>3, <2>3, <3>1, KeepFacts, LockedFacts, Zenon DEF Locking
    <3>2. CASE q # p \/ c # Buf(p)
      <4>1. Has(q, c) /\ ~(pc[q] = "reading" /\ c = Buf(q))
        BY <1>1, <1>2, <2>3, <3>2, KeepFacts, Zenon DEF Keeps
      <4> QED
        BY <1>3, <4>1, Zenon DEF ValidInv
    <3> QED
      BY <3>1, <3>2, Zenon
  <2>4. \A q \in Procs : pc'[q] = "reading" => valid'[Buf(q)'] = 0
    BY <1>1, <1>3, KeepReading, Zenon
  <2> QED
    BY <2>1, <2>2, <2>3, <2>4, Zenon DEF ValidInv
<1>8. CleanInv'
  <2>1. \A q \in Procs : q # p => \A s \in {"writing", "unpin"} : pc'[q] = s <=> pc[q] = s
    BY <1>1, Zenon DEF Keeps
  <2>2. ASSUME NEW q \in Procs, pc'[q] = "unpin"
        PROVE  Buf(q)' \in pinned' /\ data'[Buf(q)'] = disk'[blockno[Buf(q)']]
    <3>1. q # p /\ pc[q] = "unpin" /\ Buf(q) \in Bufs /\ Buf(q) # Buf(p)
      BY <1>1, <2>1, <2>2, LockedFacts DEF Locking
    <3> QED
      BY <1>2, <1>3, <3>1, Zenon DEF CleanInv
  <2>3. ASSUME NEW b \in Bufs, valid'[b] = 1, data'[b] # disk'[blockno[b]]
        PROVE  b \in pinned' \/ \E q \in Procs : pc'[q] = "writing" /\ Buf(q)' = b
    BY <1>1, <1>2, <1>3, <2>1, <2>3 DEF CleanInv
  <2> QED
    BY <1>1, <2>2, <2>3, Zenon DEF CleanInv, Keeps
<1>9. SleepInv'
  <2>1. ASSUME NEW q \in Procs, pc'[q] = "asleep" PROVE lk'[Buf(q)] # NoProc
    <3>1. Buf(q) \in Bufs /\ lk[Buf(q)] # NoProc
      BY <1>1, <1>2, <1>3, <2>1, BufFacts, Zenon DEF Keeps, SleepInv, Inside
    <3> QED
      BY <1>3, <2>1, <3>1, Zenon
  <2> QED
    BY <1>2, <2>1, Zenon DEF SleepInv
<1> QED
  BY <1>2, <1>4, <1>5, <1>6, <1>7, <1>8, <1>9, Zenon

LEMMA BunpinInv == ASSUME Inv, NEW p \in Procs, Bunpin(p) PROVE Inv'
<1> USE DEF Inv
<1>1. Keeps(p) /\ pc[p] \in {"unpin"} /\ pc'[p] \in {"done"}
  BY Zenon DEF Bunpin, bufVars, Keeps, Inside, TypeOK
<1>2. /\ Buf(p) \in Bufs /\ blockno[Buf(p)] \in Blocks
      /\ (\A q \in Procs : Buf(q)' = Buf(q)) /\ (\A b \in Bufs : Users(b)' = Users(b))
      /\ HeldInv' /\ ListInv' /\ OneBufferPerBlock'
  BY <1>1, KeepFacts, Zenon
<1>3. /\ UNCHANGED <<valid, data, lk, disk>>
      /\ pinned' = pinned \ {Buf(p)}
  BY <1>2, Zenon DEF Bunpin, bufVars, TypeOK
<1>a. \A b \in Bufs : refcnt'[b] = refcnt[b] - (IF b \in pinned \ pinned' THEN 1 ELSE 0)
  <2>1. pinned \ pinned' = {Buf(p)}
    BY Zenon DEF Bunpin, CleanInv
  <2> QED
    BY <1>2, <2>1 DEF Bunpin, TypeOK
<1>b. pinned' \subseteq pinned /\ refcnt' \in [Bufs -> Int]
  BY <1>2 DEF Bunpin, TypeOK
<1>4. RefcntExact'
  BY <1>2, <1>a, <1>b, RefFacts DEF RefcntExact
<1>c. \A b \in Bufs : refcnt'[b] \in 0..Cardinality(Procs) + 1
  BY <1>2, <1>4, RefFacts DEF RefcntExact
<1>5. TypeOK'
  BY <1>2, <1>b, <1>c, Zenon DEF Bunpin, TypeOK
<1>6. LockInv'
  BY <1>1, <1>2, <1>3, LockedFacts, KeepLock, Zenon DEF Locking
<1>7. ValidInv'
  <2>1. \A c \in Bufs : valid'[c] = 1 => blockno'[c] # NoBlock
    BY <1>1, <1>2, <1>3, BcacheAssumption, Zenon DEF ValidInv, Keeps, BcacheAssumption
  <2>2. \A c \in pinned' : valid'[c] = 1
    BY <1>1, <1>3, LockedFacts, Zenon DEF ValidInv, TypeOK, Locking
  <2>3. ASSUME NEW q \in Procs, NEW c \in Bufs, Has(q, c)',
               ~(pc'[q] = "reading" /\ c = Buf(q)')
        PROVE  valid'[c] = 1
    <3>1. CASE q = p /\ c = Buf(p)
      BY <1>1, <1>2, <1>3, <2>3, <3>1, KeepFacts, LockedFacts, Zenon DEF Locking
    <3>2. CASE q # p \/ c # Buf(p)
      <4>1. Has(q, c) /\ ~(pc[q] = "reading" /\ c = Buf(q))
        BY <1>1, <1>2, <2>3, <3>2, KeepFacts, Zenon DEF Keeps
      <4> QED
        BY <1>3, <4>1, Zenon DEF ValidInv
    <3> QED
      BY <3>1, <3>2, Zenon
  <2>4. \A q \in Procs : pc'[q] = "reading" => valid'[Buf(q)'] = 0
    BY <1>1, <1>3, KeepReading, Zenon
  <2> QED
    BY <2>1, <2>2, <2>3, <2>4, Zenon DEF ValidInv
<1>8. CleanInv'
  <2>1. \A q \in Procs : q # p => \A s \in {"writing", "unpin"} : pc'[q] = s <=> pc[q] = s
    BY <1>1, Zenon DEF Keeps
  <2>2. ASSUME NEW q \in Procs, pc'[q] = "unpin"
        PROVE  Buf(q)' \in pinned' /\ data'[Buf(q)'] = disk'[blockno[Buf(q)']]
    <3>1. q # p /\ pc[q] = "unpin" /\ Buf(q) \in Bufs /\ Buf(q) # Buf(p)
      BY <1>1, <2>1, <2>2, LockedFacts DEF Locking
    <3> QED
      BY <1>2, <1>3, <3>1, Zenon DEF CleanInv
  <2>3. ASSUME NEW b \in Bufs, valid'[b] = 1, data'[b] # disk'[blockno[b]]
        PROVE  b \in pinned' \/ \E q \in Procs : pc'[q] = "writing" /\ Buf(q)' = b
    BY <1>1, <1>2, <1>3, <2>1, <2>3, Zenon DEF CleanInv
  <2> QED
    BY <1>1, <2>2, <2>3, Zenon DEF CleanInv, Keeps
<1>9. SleepInv'
  <2>1. ASSUME NEW q \in Procs, pc'[q] = "asleep" PROVE lk'[Buf(q)] # NoProc
    <3>1. Buf(q) \in Bufs /\ lk[Buf(q)] # NoProc
      BY <1>1, <1>2, <1>3, <2>1, BufFacts, Zenon DEF Keeps, SleepInv, Inside
    <3> QED
      BY <1>3, <2>1, <3>1, Zenon
  <2> QED
    BY <1>2, <2>1, Zenon DEF SleepInv
<1> QED
  BY <1>2, <1>4, <1>5, <1>6, <1>7, <1>8, <1>9, Zenon

LEMMA ReleaseSleepInv == ASSUME Inv, NEW p \in Procs, ReleaseSleep(p) PROVE Inv'
<1> USE DEF Inv
<1>1. Keeps(p) /\ pc[p] \in {"ready", "done"} /\ pc'[p] \in {"unref"}
  BY Zenon DEF ReleaseSleep, Woken, bufVars, Keeps, Inside, TypeOK
<1>2. /\ Buf(p) \in Bufs /\ blockno[Buf(p)] \in Blocks
      /\ (\A q \in Procs : Buf(q)' = Buf(q)) /\ (\A b \in Bufs : Users(b)' = Users(b))
      /\ HeldInv' /\ ListInv' /\ OneBufferPerBlock'
  BY <1>1, KeepFacts, Zenon
<1>3. /\ UNCHANGED <<valid, refcnt, data, disk, pinned>>
      /\ lk'[Buf(p)] = NoProc
      /\ \A c \in Bufs : c # Buf(p) => lk'[c] = lk[c]
      /\ \A q \in Procs : pc'[q] = "asleep" => Buf(q) # Buf(p)
  BY <1>2, Zenon DEF ReleaseSleep, Woken, bufVars, TypeOK
<1>4. RefcntExact'
  BY <1>2, <1>3, Zenon DEF RefcntExact
<1>5. TypeOK'
  BY <1>2, Zenon DEF ReleaseSleep, Woken, bufVars, TypeOK
<1>6. LockInv'
  <2>1. lk[Buf(p)] \in {p, NoProc} /\ p # NoProc /\ \A q \in Procs : q # NoProc
    BY <1>1, <1>3, LockedFacts, BcacheAssumption, Zenon DEF Locking, BcacheAssumption
  <2> QED
    BY <1>1, <1>2, <1>3, <2>1, KeepLock, Zenon DEF Locking
<1>7. ValidInv'
  <2>1. \A c \in Bufs : valid'[c] = 1 => blockno'[c] # NoBlock
    BY <1>1, <1>2, <1>3, BcacheAssumption, Zenon DEF ValidInv, Keeps, BcacheAssumption
  <2>2. \A c \in pinned' : valid'[c] = 1
    BY <1>1, <1>3, LockedFacts, Zenon DEF ValidInv, TypeOK, Locking
  <2>3. ASSUME NEW q \in Procs, NEW c \in Bufs, Has(q, c)',
               ~(pc'[q] = "reading" /\ c = Buf(q)')
        PROVE  valid'[c] = 1
    <3>1. CASE q = p /\ c = Buf(p)
      BY <1>1, <1>2, <1>3, <2>3, <3>1, KeepFacts, LockedFacts, Zenon DEF Locking
    <3>2. CASE q # p \/ c # Buf(p)
      <4>1. Has(q, c) /\ ~(pc[q] = "reading" /\ c = Buf(q))
        BY <1>1, <1>2, <2>3, <3>2, KeepFacts, Zenon DEF Keeps
      <4> QED
        BY <1>3, <4>1, Zenon DEF ValidInv
    <3> QED
      BY <3>1, <3>2, Zenon
  <2>4. \A q \in Procs : pc'[q] = "reading" => valid'[Buf(q)'] = 0
    BY <1>1, <1>3, KeepReading, Zenon
  <2> QED
    BY <2>1, <2>2, <2>3, <2>4, Zenon DEF ValidInv
<1>8. CleanInv'
  BY <1>1, <1>3, KeepClean, Zenon
<1>9. SleepInv'
  <2>1. ASSUME NEW q \in Procs, pc'[q] = "asleep" PROVE lk'[Buf(q)] # NoProc
    <3>1. Buf(q) \in Bufs /\ lk[Buf(q)] # NoProc
      BY <1>1, <1>2, <1>3, <2>1, BufFacts, Zenon DEF Keeps, SleepInv, Inside
    <3> QED
      BY <1>3, <2>1, <3>1, Zenon
  <2> QED
    BY <1>2, <2>1, Zenon DEF SleepInv
<1> QED
  BY <1>2, <1>4, <1>5, <1>6, <1>7, <1>8, <1>9, Zenon

-----------------------------------------------------------------------------
(* The invariant.                                                          *)

LEMMA InitInv == Init => Inv
<1> SUFFICES ASSUME Init PROVE Inv
  OBVIOUS
<1>1. NBUF \in Nat \ {0} /\ Cardinality(Procs) \in Nat /\ Zero \in Val
  BY BcacheAssumption, FS_CardinalityType, Zenon DEF BcacheAssumption
<1>2. \A p \in Procs : held[p] = << >> /\ Len(held[p]) = 0 /\ pc[p] = "idle"
  BY Zenon DEF Init
<1>3. TypeOK
  BY <1>1, <1>2 DEF Init, TypeOK, Bufs
<1>4. ListInv
  <2>1. ASSUME NEW b \in Bufs PROVE \E i \in Bufs : lru[i] = b
    <3>1. NBUF + 1 - b \in Bufs /\ lru[NBUF + 1 - b] = b
      BY <1>1 DEF Init, Bufs
    <3> QED
      BY <3>1, Zenon
  <2> QED
    BY <2>1, Zenon DEF ListInv
<1>5. RefcntExact
  <2>1. \A b \in Bufs : Users(b) = {}
    BY <1>2 DEF Users, Contains
  <2>2. Cardinality({}) = 0
    BY FS_EmptySet, Zenon
  <2>3. pinned = {} /\ \A b \in Bufs : refcnt[b] = 0
    BY Zenon DEF Init
  <2> QED
    BY <2>1, <2>2, <2>3 DEF RefcntExact
<1>6. \A p \in Procs, b \in Bufs : ~Has(p, b)
  BY <1>2 DEF Has
<1>7. HeldInv
  BY <1>2 DEF HeldInv
<1>8. LockInv
  BY <1>6, BcacheAssumption, Zenon DEF Init, LockInv, BcacheAssumption
<1>9. OneBufferPerBlock /\ ValidInv /\ CleanInv /\ SleepInv
  BY <1>2, <1>6 DEF Init, OneBufferPerBlock, ValidInv, CleanInv, SleepInv
<1> QED
  BY <1>3, <1>4, <1>5, <1>7, <1>8, <1>9, Zenon DEF Inv

LEMMA StutterInv == ASSUME Inv, UNCHANGED vars PROVE Inv'
<1> USE DEF vars, bufVars, Inv
<1>1. \A p \in Procs : Buf(p)' = Buf(p)
  BY Zenon DEF Buf
<1>2. \A p \in Procs, b \in Bufs : Has(p, b)' <=> Has(p, b)
  BY <1>1, Zenon DEF Has
<1>3. \A b \in Bufs : Users(b)' = Users(b)
  BY Zenon DEF Users
<1>4. TypeOK' /\ ListInv' /\ OneBufferPerBlock' /\ HeldInv'
  BY Zenon DEF TypeOK, ListInv, OneBufferPerBlock, HeldInv
<1>5. RefcntExact' /\ LockInv'
  BY <1>2, <1>3, Zenon DEF RefcntExact, LockInv
<1>6. ValidInv' /\ CleanInv' /\ SleepInv'
  BY <1>1, <1>2, Zenon DEF ValidInv, CleanInv, SleepInv
<1> QED
  BY <1>4, <1>5, <1>6, Zenon

LEMMA NextInv == Inv /\ [Next]_vars => Inv'
<1> SUFFICES ASSUME Inv, [Next]_vars PROVE Inv'
  OBVIOUS
<1>1. CASE UNCHANGED vars
  BY <1>1, StutterInv, Zenon
<1>2. ASSUME NEW p \in Procs, Ask(p) PROVE Inv'
  BY <1>2, BgetHitInv, BgetRecycleInv, BgetPanicInv, Zenon DEF Ask
<1>3. ASSUME NEW p \in Procs, TakeLock(p) PROVE Inv'
  BY <1>3, TakeLockInv, Zenon
<1>4. ASSUME NEW p \in Procs, Use(p) PROVE Inv'
  BY <1>4, BwriteInv, LogWriteInv, ReleaseSleepInv, Zenon DEF Use
<1>5. ASSUME NEW p \in Procs, Go(p) PROVE Inv'
  BY <1>5, SleepOnLockInv, ReadDoneInv, WriteDoneInv, BunpinInv, UnrefInv, Zenon DEF Go
<1>6. ASSUME NEW p \in Procs, Panicked(p) PROVE Inv'
  BY <1>6, StutterInv, Zenon DEF Panicked
<1> QED
  BY <1>1, <1>2, <1>3, <1>4, <1>5, <1>6, Zenon DEF Next

\* The buffers, their list, the references, the sleep locks and the contents agree,
\* through every step of bio.c and sleeplock.c.
THEOREM BcacheInvariant == Spec => []Inv
  BY InitInv, NextInv, PTL DEF Spec

\* bget() never gives a block two buffers, whoever misses it at the same time, and
\* brelse() keeps every buffer on the list once.
THEOREM TableStaysSound == Spec => []TableSound
<1>1. Inv => TableSound
  BY Zenon DEF Inv, TableSound
<1> QED
  BY <1>1, BcacheInvariant, PTL

\* b->refcnt is the number of processes that use the buffer, and one for the log's
\* pin: what bget() recycles is used by nobody.
THEOREM RefcntsAreExact == Spec => []RefcntExact
<1>1. Inv => RefcntExact
  BY Zenon DEF Inv
<1> QED
  BY <1>1, BcacheInvariant, PTL

\* A holder that sleeps has the outer block of its pair locked.
LEMMA SleepingHolder ==
  ASSUME Inv, NEW b \in Bufs, NEW q \in Procs, lk[b] = q, pc[q] = "asleep"
  PROVE  <<blockno[b], blockno[Buf(q)]>> \in Nested
<1> USE DEF Inv
<1>1. Has(q, b)
  BY Zenon DEF LockInv
<1>2. Len(held[q]) = 2 /\ b = held[q][1]
  BY <1>1, Zenon DEF Has, Locking
<1>3. Buf(q) = held[q][2]
  BY <1>2, Zenon DEF Buf
<1> QED
  BY <1>2, <1>3, Zenon DEF HeldInv

\* A process asleep in acquiresleep() has a holder to wait for that runs, or that
\* sleeps on an inner block whose holder runs.
THEOREM SleepersHaveRunner == Spec => []SleeperHasRunner
<1>1. ASSUME Inv, NEW p \in Procs, pc[p] = "asleep"
      PROVE  Buf(p) \in Bufs /\ lk[Buf(p)] \in Procs /\ lk[Buf(p)] # NoProc
  <2>1. Buf(p) \in Bufs
    BY <1>1, BufFacts, Zenon DEF Inside, Inv
  <2> QED
    BY <1>1, <2>1, Zenon DEF SleepInv, TypeOK, Inv
<1>2. ASSUME Inv, NEW p \in Procs, pc[p] = "asleep",
             pc[lk[Buf(p)]] = "asleep", pc[lk[Buf(lk[Buf(p)])]] = "asleep"
      PROVE  FALSE
  <2> DEFINE h == lk[Buf(p)]
  <2>1. h \in Procs /\ Buf(p) \in Bufs /\ pc[h] = "asleep"
    BY <1>1, <1>2, Zenon
  <2>2. <<blockno[Buf(p)], blockno[Buf(h)]>> \in Nested
    BY <1>2, <2>1, SleepingHolder, Zenon
  <2> DEFINE g == lk[Buf(h)]
  <2>3. g \in Procs /\ Buf(h) \in Bufs /\ pc[g] = "asleep"
    BY <1>1, <1>2, <2>1, Zenon
  <2>4. <<blockno[Buf(h)], blockno[Buf(g)]>> \in Nested
    BY <1>2, <2>3, SleepingHolder, Zenon
  <2> QED
    BY <2>2, <2>4, NestingAssumption, Zenon
<1>3. Inv => SleeperHasRunner
  <2> SUFFICES ASSUME Inv, NEW p \in Procs, pc[p] = "asleep", lk[Buf(p)] # NoProc,
                      pc[lk[Buf(p)]] = "asleep"
               PROVE  /\ lk[Buf(lk[Buf(p)])] # NoProc
                      /\ pc[lk[Buf(lk[Buf(p)])]] # "asleep"
    BY <1>1, Zenon DEF SleeperHasRunner
  <2> QED
    BY <1>1, <1>2, Zenon
<1> QED
  BY <1>3, BcacheInvariant, PTL

-----------------------------------------------------------------------------
(* The cache implements the block store.                                   *)

\* What a block holds and who has it, in terms of its one buffer.
BlockFact ==
  /\ \A b \in Bufs, k \in Blocks : blockno[b] = k =>
       /\ Contents(k) = IF valid[b] = 1 THEN data[b] ELSE disk[k]
       /\ HolderOf(k) = lk[b]
  /\ \A k \in Blocks : ~Cached(k) => Contents(k) = disk[k] /\ HolderOf(k) = NoProc

LEMMA BlockFacts == TableSound => BlockFact
<1> SUFFICES ASSUME TableSound PROVE BlockFact
  OBVIOUS
<1>1. ASSUME NEW b \in Bufs, NEW k \in Blocks, blockno[b] = k
      PROVE  /\ Contents(k) = IF valid[b] = 1 THEN data[b] ELSE disk[k]
             /\ HolderOf(k) = lk[b]
  <2>1. \A c \in Bufs : blockno[c] = k => c = b
    BY <1>1, BcacheAssumption, Zenon DEF TableSound, OneBufferPerBlock, BcacheAssumption
  <2>2. Contents(k) = IF valid[b] = 1 THEN data[b] ELSE disk[k]
    BY <1>1, <2>1, Zenon DEF Contents
  <2>3. HolderOf(k) = lk[b]
    BY <1>1, <2>1, Zenon DEF HolderOf
  <2> QED
    BY <2>2, <2>3, Zenon
<1>2. ASSUME NEW k \in Blocks, ~Cached(k)
      PROVE  Contents(k) = disk[k] /\ HolderOf(k) = NoProc
  BY <1>2, Zenon DEF Cached, Contents, HolderOf
<1> QED
  BY <1>1, <1>2, Zenon DEF BlockFact

LEMMA BlockFactsNext == TableSound' => BlockFact'
  BY BlockFacts, PTL

\* A step that recycles no buffer changes the blocks through their buffers.
LEMMA BlockSteps ==
  ASSUME BlockFact, BlockFact', UNCHANGED blockno, NEW k \in Blocks
  PROVE  \/ /\ Contents(k) = disk[k] /\ Contents(k)' = disk'[k]
            /\ ~Cached(k) /\ HolderOf(k) = NoProc /\ HolderOf(k)' = NoProc
         \/ \E b \in Bufs :
              /\ blockno[b] = k
              /\ Contents(k) = IF valid[b] = 1 THEN data[b] ELSE disk[k]
              /\ Contents(k)' = IF valid'[b] = 1 THEN data'[b] ELSE disk'[k]
              /\ HolderOf(k) = lk[b] /\ HolderOf(k)' = lk'[b]
<1>1. CASE Cached(k)
  <2>1. PICK b \in Bufs : blockno[b] = k
    BY <1>1, Zenon DEF Cached
  <2>2. blockno'[b] = k
    BY <2>1, Zenon
  <2> QED
    BY <2>1, <2>2, Zenon DEF BlockFact
<1>2. CASE ~Cached(k)
  <2>1. ~Cached(k)'
    BY <1>2, Zenon DEF Cached
  <2> QED
    BY <1>2, <2>1, Zenon DEF BlockFact
<1> QED
  BY <1>1, <1>2, Zenon

LEMMA HolderKept ==
  ASSUME BlockFact, BlockFact', UNCHANGED blockno, NEW k \in Blocks,
         \A c \in Bufs : blockno[c] = k => lk'[c] = lk[c]
  PROVE  HolderOf(k)' = HolderOf(k)
  BY BlockSteps

\* The steps of the block store, in terms of what the cache shows of a block.
Quiet == \A k \in Blocks : Contents(k)' = Contents(k) /\ HolderOf(k)' = HolderOf(k)
Locks(p, j) ==
  /\ HolderOf(j) = NoProc /\ HolderOf(j)' = p
  /\ \A k \in Blocks : Contents(k)' = Contents(k) /\ (k # j => HolderOf(k)' = HolderOf(k))
Unlocks(p, j) ==
  /\ HolderOf(j) = p /\ HolderOf(j)' = NoProc
  /\ \A k \in Blocks : Contents(k)' = Contents(k) /\ (k # j => HolderOf(k)' = HolderOf(k))
Changes(p, j, v) ==
  /\ HolderOf(j) = p /\ Contents(j)' = v
  /\ \A k \in Blocks : HolderOf(k)' = HolderOf(k) /\ (k # j => Contents(k)' = Contents(k))

LEMMA StoreSteps ==
  ASSUME NEW p \in Procs, NEW j \in Blocks, NEW v \in Val,
         Quiet \/ Locks(p, j) \/ Unlocks(p, j) \/ Changes(p, j, v)
  PROVE  [Store!Next]_(Store!svars)
<1>1. CASE Quiet
  BY <1>1, Zenon DEF Quiet, Store!svars
<1>2. CASE Locks(p, j)
  <2>1. Store!Lock(p, j)
    BY <1>2, Zenon DEF Locks, Store!Lock
  <2> QED
    BY <2>1, Zenon DEF Store!Next
<1>3. CASE Unlocks(p, j)
  <2>1. Store!Unlock(p, j)
    BY <1>3, Zenon DEF Unlocks, Store!Unlock
  <2> QED
    BY <2>1, Zenon DEF Store!Next
<1>4. CASE Changes(p, j, v)
  <2>1. Store!Change(p, j, v)
    BY <1>4, Zenon DEF Changes, Store!Change
  <2> QED
    BY <2>1, Zenon DEF Store!Next
<1> QED
  BY <1>1, <1>2, <1>3, <1>4, Zenon

\* Nothing of a block changes when its buffer's fields, lock and disk block do not.
LEMMA QuietFields ==
  ASSUME UNCHANGED <<blockno, valid, data, disk, lk>> PROVE Quiet
  BY Zenon DEF Quiet, Contents, HolderOf

LEMMA RecycleQuiet ==
  ASSUME Inv, BlockFact, BlockFact', NEW p \in Procs, NEW j \in Blocks, BgetRecycle(p, j)
  PROVE  Quiet
<1> USE DEF Inv
<1>1. PICK b \in Bufs :
        /\ blockno' = [blockno EXCEPT ![b] = j] /\ valid' = [valid EXCEPT ![b] = 0]
        /\ refcnt[b] = 0 /\ ~Cached(j) /\ UNCHANGED <<data, lk, disk>>
  <2>1. \A i \in Free : lru[i] \in Bufs /\ refcnt[lru[i]] = 0
    BY Zenon DEF Free, TypeOK
  <2> QED
    BY <2>1, Zenon DEF BgetRecycle
<1>2. b \notin pinned /\ lk[b] = NoProc
  BY <1>1, RefFacts, Zenon
<1>3. valid[b] = 1 => data[b] = disk[blockno[b]]
  <2>1. \A q \in Procs : pc[q] = "writing" => Buf(q) \in Bufs /\ lk[Buf(q)] = q
    BY LockedFacts, Zenon DEF Locking
  <2> QED
    BY <1>2, <2>1, BcacheAssumption DEF CleanInv, BcacheAssumption
<1>4. ASSUME NEW k \in Blocks
      PROVE  Contents(k)' = Contents(k) /\ HolderOf(k)' = HolderOf(k)
  <2>1. CASE k = j
    <3>1. Contents(k) = disk[k] /\ HolderOf(k) = NoProc
      BY <1>1, <2>1, Zenon DEF BlockFact
    <3>2. Contents(k)' = disk'[k] /\ HolderOf(k)' = lk'[b]
      BY <1>1, <2>1 DEF BlockFact, TypeOK
    <3> QED
      BY <1>1, <1>2, <3>1, <3>2, Zenon
  <2>2. CASE k # j /\ blockno[b] = k
    <3>1. Contents(k) = disk[k] /\ HolderOf(k) = NoProc
      BY <1>2, <1>3, <2>2, Zenon DEF BlockFact
    <3>2. ~Cached(k)'
      BY <1>1, <2>2, BcacheAssumption, Zenon
      DEF Cached, TypeOK, OneBufferPerBlock, BcacheAssumption
    <3> QED
      BY <1>1, <3>1, <3>2, Zenon DEF BlockFact
  <2>3. CASE k # j /\ blockno[b] # k /\ Cached(k)
    <3>1. PICK c \in Bufs : blockno[c] = k
      BY <2>3, Zenon DEF Cached
    <3>2. c # b /\ blockno'[c] = k /\ valid'[c] = valid[c]
      BY <1>1, <2>3, <3>1, Zenon DEF TypeOK
    <3>3. /\ Contents(k) = IF valid[c] = 1 THEN data[c] ELSE disk[k]
          /\ HolderOf(k) = lk[c]
      BY <3>1, Zenon DEF BlockFact
    <3>4. /\ Contents(k)' = IF valid'[c] = 1 THEN data'[c] ELSE disk'[k]
          /\ HolderOf(k)' = lk'[c]
      BY <3>2, Zenon DEF BlockFact
    <3> QED
      BY <1>1, <3>2, <3>3, <3>4, Zenon
  <2>4. CASE k # j /\ blockno[b] # k /\ ~Cached(k)
    <3>1. ~Cached(k)'
      BY <1>1, <2>4, Zenon DEF Cached, TypeOK
    <3>2. Contents(k) = disk[k] /\ HolderOf(k) = NoProc
      BY <2>4, Zenon DEF BlockFact
    <3>3. Contents(k)' = disk'[k] /\ HolderOf(k)' = NoProc
      BY <3>1, Zenon DEF BlockFact
    <3> QED
      BY <1>1, <3>2, <3>3, Zenon
  <2> QED
    BY <2>1, <2>2, <2>3, <2>4, Zenon
<1> QED
  BY <1>4, Zenon DEF Quiet

LEMMA ReadDoneQuiet ==
  ASSUME Inv, BlockFact, BlockFact', NEW p \in Procs, ReadDone(p) PROVE Quiet
<1>1. Buf(p) \in Bufs /\ valid[Buf(p)] = 0
  BY LockedFacts, Zenon DEF ReadDone, Locking
<1>2. /\ UNCHANGED <<blockno, lk, disk>>
      /\ data'[Buf(p)] = disk[blockno[Buf(p)]] /\ valid'[Buf(p)] = 1
      /\ \A b \in Bufs : b # Buf(p) => data'[b] = data[b] /\ valid'[b] = valid[b]
  BY <1>1, Zenon DEF ReadDone, Inv, TypeOK
<1>3. ASSUME NEW k \in Blocks
      PROVE  Contents(k)' = Contents(k) /\ HolderOf(k)' = HolderOf(k)
  <2>1. CASE Contents(k) = disk[k] /\ Contents(k)' = disk'[k]
             /\ HolderOf(k) = NoProc /\ HolderOf(k)' = NoProc
    BY <1>2, <2>1, Zenon
  <2>2. CASE \E b \in Bufs :
               /\ blockno[b] = k
               /\ Contents(k) = IF valid[b] = 1 THEN data[b] ELSE disk[k]
               /\ Contents(k)' = IF valid'[b] = 1 THEN data'[b] ELSE disk'[k]
               /\ HolderOf(k) = lk[b] /\ HolderOf(k)' = lk'[b]
    BY <1>1, <1>2, <2>2
  <2> QED
    BY <1>2, <2>1, <2>2, BlockSteps, Zenon
<1> QED
  BY <1>3, Zenon DEF Quiet

LEMMA WriteDoneQuiet ==
  ASSUME Inv, BlockFact, BlockFact', NEW p \in Procs, WriteDone(p) PROVE Quiet
<1>1. Buf(p) \in Bufs /\ valid[Buf(p)] = 1 /\ blockno[Buf(p)] \in Blocks
  BY LockedFacts, Zenon DEF WriteDone, Locking
<1>2. /\ UNCHANGED <<blockno, valid, data, lk>>
      /\ \A k \in Blocks : k # blockno[Buf(p)] => disk'[k] = disk[k]
  BY <1>1, Zenon DEF WriteDone, bufVars, Inv, TypeOK
<1>3. \A b \in Bufs : blockno[b] = blockno[Buf(p)] => b = Buf(p)
  BY <1>1, BcacheAssumption, Zenon DEF Inv, OneBufferPerBlock, BcacheAssumption
<1>4. Cached(blockno[Buf(p)])
  BY <1>1, Zenon DEF Cached
<1>5. ASSUME NEW k \in Blocks
      PROVE  Contents(k)' = Contents(k) /\ HolderOf(k)' = HolderOf(k)
  <2>1. CASE Contents(k) = disk[k] /\ Contents(k)' = disk'[k] /\ ~Cached(k)
             /\ HolderOf(k) = NoProc /\ HolderOf(k)' = NoProc
    BY <1>2, <1>4, <2>1, Zenon
  <2>2. CASE \E b \in Bufs :
               /\ blockno[b] = k
               /\ Contents(k) = IF valid[b] = 1 THEN data[b] ELSE disk[k]
               /\ Contents(k)' = IF valid'[b] = 1 THEN data'[b] ELSE disk'[k]
               /\ HolderOf(k) = lk[b] /\ HolderOf(k)' = lk'[b]
    BY <1>1, <1>2, <1>3, <2>2
  <2> QED
    BY <1>2, <2>1, <2>2, BlockSteps, Zenon
<1> QED
  BY <1>5, Zenon DEF Quiet

LEMMA TakeLockLocks ==
  ASSUME Inv, BlockFact, BlockFact', NEW p \in Procs, TakeLock(p)
  PROVE  \E j \in Blocks : Locks(p, j)
<1>1. PICK b \in Bufs, j \in Blocks : b = Buf(p) /\ j = blockno[b]
  BY BufFacts, Zenon DEF TakeLock, Inside, Inv
<1>2. /\ UNCHANGED <<blockno, valid, data, disk>>
      /\ lk[b] = NoProc /\ lk'[b] = p /\ \A c \in Bufs : c # b => lk'[c] = lk[c]
  BY <1>1, Zenon DEF TakeLock, bufVars, Inv, TypeOK
<1>3. \A k \in Blocks : Contents(k)' = Contents(k)
  BY <1>2, Zenon DEF Contents
<1>4. HolderOf(j) = NoProc /\ HolderOf(j)' = p
  BY <1>1, <1>2 DEF BlockFact
<1>5. ASSUME NEW k \in Blocks, k # j PROVE HolderOf(k)' = HolderOf(k)
  BY <1>1, <1>2, <1>5, HolderKept, Zenon
<1> QED
  BY <1>3, <1>4, <1>5, Zenon DEF Locks

LEMMA ReleaseSleepUnlocks ==
  ASSUME Inv, BlockFact, BlockFact', NEW p \in Procs, ReleaseSleep(p)
  PROVE  \E j \in Blocks : Unlocks(p, j)
<1>1. PICK b \in Bufs, j \in Blocks : b = Buf(p) /\ j = blockno[b] /\ lk[b] = p
  BY LockedFacts, Zenon DEF ReleaseSleep, Locking
<1>2. /\ UNCHANGED <<blockno, valid, data, disk>>
      /\ lk'[b] = NoProc /\ \A c \in Bufs : c # b => lk'[c] = lk[c]
  BY <1>1, Zenon DEF ReleaseSleep, bufVars, Inv, TypeOK
<1>3. \A k \in Blocks : Contents(k)' = Contents(k)
  BY <1>2, Zenon DEF Contents
<1>4. HolderOf(j) = p /\ HolderOf(j)' = NoProc
  BY <1>1, <1>2 DEF BlockFact
<1>5. ASSUME NEW k \in Blocks, k # j PROVE HolderOf(k)' = HolderOf(k)
  BY <1>1, <1>2, <1>5, HolderKept, Zenon
<1> QED
  BY <1>3, <1>4, <1>5, Zenon DEF Unlocks

\* The caller of bwrite() or log_write() changes the block it has locked, or leaves a
\* logged one as it is.
LEMMA WriteChanges ==
  ASSUME Inv, BlockFact, BlockFact', NEW p \in Procs, NEW v \in Val,
         Bwrite(p, v) \/ LogWrite(p, v)
  PROVE  Quiet \/ \E j \in Blocks : Changes(p, j, v)
<1>1. PICK b \in Bufs, j \in Blocks :
        b = Buf(p) /\ j = blockno[b] /\ lk[b] = p /\ valid[b] = 1
  BY LockedFacts, Zenon DEF Bwrite, LogWrite, Locking
<1>2. UNCHANGED <<blockno, valid, lk, disk>>
  BY Zenon DEF Bwrite, LogWrite
<1>3. CASE data' = data
  BY <1>2, <1>3, QuietFields, Zenon
<1>4. CASE data' = [data EXCEPT ![b] = v]
  <2>1. data'[b] = v /\ \A c \in Bufs : c # b => data'[c] = data[c]
    BY <1>4, Zenon DEF Inv, TypeOK
  <2>2. \A k \in Blocks : HolderOf(k)' = HolderOf(k)
    BY <1>2, Zenon DEF HolderOf
  <2>3. HolderOf(j) = p /\ Contents(j)' = v
    BY <1>1, <1>2, <2>1, <2>2, Zenon DEF BlockFact
  <2>4. \A k \in Blocks : k # j => Contents(k)' = Contents(k)
    BY <1>1, <1>2, <2>1, BlockSteps
  <2> QED
    BY <2>2, <2>3, <2>4, Zenon DEF Changes
<1> QED
  BY <1>1, <1>3, <1>4, Zenon DEF Bwrite, LogWrite

LEMMA StoreInit == Init => Store!Init
<1> SUFFICES ASSUME Init PROVE Store!Init
  OBVIOUS
<1>1. \A k \in Blocks : Contents(k) = Zero /\ HolderOf(k) = NoProc
  BY Zenon DEF Init, Contents, HolderOf
<1> QED
  BY <1>1, Zenon DEF Store!Init

LEMMA StoreNext == Inv /\ Inv' /\ [Next]_vars => [Store!Next]_(Store!svars)
<1> SUFFICES ASSUME Inv, Inv', [Next]_vars PROVE [Store!Next]_(Store!svars)
  OBVIOUS
<1>1. BlockFact
  BY BlockFacts, Zenon DEF Inv, TableSound
<1>2. BlockFact'
  BY BlockFactsNext, Zenon DEF Inv, TableSound
<1>3. Quiet => [Store!Next]_(Store!svars)
  BY Zenon DEF Quiet, Store!svars
<1>4. CASE UNCHANGED vars
  BY <1>3, <1>4, QuietFields, Zenon DEF vars, bufVars
<1>5. ASSUME NEW p \in Procs, NEW k \in Blocks,
             BgetHit(p, k) \/ BgetRecycle(p, k) \/ BgetPanic(p, k)
      PROVE  Quiet
  BY <1>1, <1>2, <1>5, QuietFields, RecycleQuiet, Zenon DEF BgetHit, BgetPanic, bufVars
<1>6. ASSUME NEW p \in Procs, Go(p) \/ Panicked(p) PROVE Quiet
  BY <1>1, <1>2, <1>6, QuietFields, ReadDoneQuiet, WriteDoneQuiet, Zenon
  DEF Go, SleepOnLock, Bunpin, Unref, Panicked, bufVars, vars
<1>7. ASSUME NEW p \in Procs, TakeLock(p) PROVE [Store!Next]_(Store!svars)
  <2>1. PICK j \in Blocks : Locks(p, j)
    BY <1>1, <1>2, <1>7, TakeLockLocks, Zenon
  <2> QED
    BY <2>1, StoreSteps, BcacheAssumption, Zenon DEF BcacheAssumption
<1>8. ASSUME NEW p \in Procs, ReleaseSleep(p) PROVE [Store!Next]_(Store!svars)
  <2>1. PICK j \in Blocks : Unlocks(p, j)
    BY <1>1, <1>2, <1>8, ReleaseSleepUnlocks, Zenon
  <2> QED
    BY <2>1, StoreSteps, BcacheAssumption, Zenon DEF BcacheAssumption
<1>9. ASSUME NEW p \in Procs, NEW v \in Val, Bwrite(p, v) \/ LogWrite(p, v)
      PROVE  [Store!Next]_(Store!svars)
  <2>1. CASE Quiet
    BY <1>3, <2>1, Zenon
  <2>2. CASE \E j \in Blocks : Changes(p, j, v)
    BY <2>2, StoreSteps, Zenon
  <2> QED
    BY <1>1, <1>2, <1>9, <2>1, <2>2, WriteChanges, Zenon
<1> QED
  BY <1>3, <1>4, <1>5, <1>6, <1>7, <1>8, <1>9, Zenon DEF Next, Ask, Use

\* Through recycling, pinning, reading and writing back, the cache behaves as one
\* object per block under one lock, whose contents only its holder changes.
THEOREM CacheIsBlockStore == Spec => IsBlockStore
  BY StoreInit, StoreNext, BcacheInvariant, PTL DEF Spec, IsBlockStore, Store!Spec

=============================================================================
