---------------------------- MODULE BcacheSteps -----------------------------
(***************************************************************************)
(* The inductive invariant of Bcache, for any number of buffers, blocks    *)
(* and processes, and the steps that change what a process refers to:      *)
(* bget() and the end of brelse().  BcacheProofs has the other steps and   *)
(* what follows.                                                           *)
(***************************************************************************)
EXTENDS Bcache, FiniteSetTheorems, TLAPS

\* Where a process has the sleep lock of the buffer it works on.
Locking == {"reading", "ready", "writing", "unpin", "done"}

\* p has the sleep lock of b: b is an outer buffer, or p is past acquiresleep().
Has(p, b) ==
  \/ Len(held[p]) = 2 /\ b = held[p][1]
  \/ Len(held[p]) > 0 /\ b = Buf(p) /\ pc[p] \in Locking \cup {"panic"}

\* What a process refers to, and that it nests as the callers do.
HeldInv ==
  \A p \in Procs :
    /\ pc[p] = "idle" => Len(held[p]) = 0
    /\ pc[p] \notin {"idle", "panic"} => Len(held[p]) > 0
    /\ pc[p] = "panic" => Len(held[p]) <= 1
    /\ Len(held[p]) = 2 => <<blockno[held[p][1]], blockno[held[p][2]]>> \in Nested
    /\ \A i \in 1..Len(held[p]) : blockno[held[p][i]] # NoBlock

LockInv == \A p \in Procs, b \in Bufs : lk[b] = p <=> Has(p, b)

\* A buffer is filled before anybody but its reader has it.
ValidInv ==
  /\ \A b \in Bufs : valid[b] = 1 => blockno[b] # NoBlock
  /\ \A b \in pinned : valid[b] = 1
  /\ \A p \in Procs, b \in Bufs :
       Has(p, b) /\ ~(pc[p] = "reading" /\ b = Buf(p)) => valid[b] = 1
  /\ \A p \in Procs : pc[p] = "reading" => valid[Buf(p)] = 0

\* A valid buffer differs from the disk only while it is pinned or being written.
CleanInv ==
  /\ \A b \in Bufs : valid[b] = 1 /\ data[b] # disk[blockno[b]] =>
       b \in pinned \/ \E p \in Procs : pc[p] = "writing" /\ Buf(p) = b
  /\ \A p \in Procs : pc[p] = "unpin" =>
       Buf(p) \in pinned /\ data[Buf(p)] = disk[blockno[Buf(p)]]

\* A sleeper in acquiresleep() waits for a holder.
SleepInv == \A p \in Procs : pc[p] = "asleep" => lk[Buf(p)] # NoProc

\* The list holds every buffer.
ListInv == \A b \in Bufs : \E i \in Bufs : lru[i] = b

Inv ==
  /\ TypeOK /\ ListInv /\ OneBufferPerBlock /\ RefcntExact
  /\ HeldInv /\ LockInv /\ ValidInv /\ CleanInv /\ SleepInv


-----------------------------------------------------------------------------
(* Facts used by every step below.                                         *)

Inside == {"lock", "asleep", "reading", "ready", "writing", "unpin", "done", "unref"}

LEMMA ProcFacts ==
  ASSUME TypeOK, NEW p \in Procs
  PROVE  /\ held[p] \in Seq(Bufs) /\ Len(held[p]) \in 0..2 /\ p # NoProc
         /\ pc[p] \in Inside \cup {"idle", "panic"}
         /\ Len(held[p]) = 2 => held[p][1] \in Bufs
<1>1. held[p] \in Seq(Bufs)
  BY Zenon DEF TypeOK
<1>2. Len(held[p]) \in 0..2
  BY Zenon DEF TypeOK
<1>3. Len(held[p]) = 2 => held[p][1] \in Bufs
  BY <1>1
<1>4. pc[p] \in Inside \cup {"idle", "panic"}
  BY Zenon DEF TypeOK, Inside
<1> QED
  BY <1>1, <1>2, <1>3, <1>4, BcacheAssumption, Zenon DEF BcacheAssumption

\* A step that leaves the buffers, the disk and who reads, writes and unpins what
\* alone keeps ValidInv and CleanInv.
LEMMA ValidFrame ==
  ASSUME ValidInv, UNCHANGED <<blockno, valid, pinned>>,
         \A q \in Procs, c \in Bufs : Has(q, c)' <=> Has(q, c),
         \A q \in Procs : /\ pc'[q] = "reading" <=> pc[q] = "reading"
                          /\ pc[q] = "reading" => Buf(q)' = Buf(q)
  PROVE  ValidInv'
BY Zenon DEF ValidInv

LEMMA CleanFrame ==
  ASSUME CleanInv, UNCHANGED <<blockno, valid, data, disk, pinned>>,
         \A q \in Procs : /\ pc'[q] = "writing" <=> pc[q] = "writing"
                          /\ pc'[q] = "unpin" <=> pc[q] = "unpin"
                          /\ pc[q] \in {"writing", "unpin"} => Buf(q)' = Buf(q)
  PROVE  CleanInv'
BY Zenon DEF CleanInv

\* A buffer that is being read stays invalid if it is not touched.
LEMMA ReadingKept ==
  ASSUME ValidInv, NEW b, valid'[b] = 0,
         \A c \in Bufs : c # b => valid'[c] = valid[c],
         \A q \in Procs : pc[q] = "reading" => Buf(q) \in Bufs,
         \A q \in Procs : /\ pc'[q] = "reading" <=> pc[q] = "reading"
                          /\ pc[q] = "reading" => Buf(q)' = Buf(q)
  PROVE  \A q \in Procs : pc'[q] = "reading" => valid'[Buf(q)'] = 0
BY Zenon DEF ValidInv

LEMMA BufFacts ==
  ASSUME TypeOK, HeldInv, NEW p \in Procs, pc[p] \in Inside
  PROVE  /\ Buf(p) \in Bufs /\ blockno[Buf(p)] \in Blocks
         /\ Len(held[p]) \in 1..2 /\ Buf(p) = held[p][Len(held[p])]
         /\ Contains(held[p], Buf(p)) /\ Len(held[p]) > 0
         /\ Len(held[p]) = 2 => held[p][1] \in Bufs /\ held[p][1] # Buf(p)
<1>1. held[p] \in Seq(Bufs) /\ Len(held[p]) \in 0..2
  BY ProcFacts, Zenon
<1>2. Len(held[p]) > 0
  BY Zenon DEF HeldInv, Inside
<1>3. Len(held[p]) \in 1..2
  BY <1>1, <1>2
<1>4. Buf(p) = held[p][Len(held[p])]
  BY Zenon DEF Buf
<1>5. Buf(p) \in Bufs
  <2>1. CASE Len(held[p]) = 1
    BY <1>1, <1>4, <2>1
  <2>2. CASE Len(held[p]) = 2
    BY <1>1, <1>4, <2>2
  <2> QED
    BY <1>3, <2>1, <2>2
<1>6. Contains(held[p], Buf(p))
  BY <1>3, <1>4 DEF Contains
<1>7. blockno[Buf(p)] \in Blocks
  <2>0. \A n \in 1..2 : n \in 1..n
    OBVIOUS
  <2>1. Len(held[p]) \in 1..Len(held[p])
    BY <1>3, <2>0, Zenon
  <2>2. blockno[held[p][Len(held[p])]] # NoBlock
    BY <2>1, Zenon DEF HeldInv
  <2> QED
    BY <2>2, <1>4, <1>5 DEF TypeOK
<1>8. ASSUME Len(held[p]) = 2 PROVE held[p][1] \in Bufs /\ held[p][1] # Buf(p)
  <2>1. held[p][1] \in Bufs
    BY <1>8, ProcFacts, Zenon
  <2>2. <<blockno[held[p][1]], blockno[held[p][2]]>> \in Nested
    BY <1>8, Zenon DEF HeldInv
  <2>3. blockno[held[p][1]] # blockno[held[p][2]]
    BY <2>2, BcacheAssumption, Zenon DEF BcacheAssumption
  <2> QED
    BY <1>4, <1>8, <2>1, <2>3, Zenon
<1> QED
  BY <1>1, <1>2, <1>3, <1>4, <1>5, <1>6, <1>7, <1>8, Zenon

\* A buffer that somebody has locked is one that it refers to.
LEMMA HasFacts ==
  ASSUME TypeOK, NEW p \in Procs, NEW b \in Bufs, Has(p, b)
  PROVE  Contains(held[p], b)
<1>1. held[p] \in Seq(Bufs) /\ Len(held[p]) \in 0..2
  BY ProcFacts, Zenon
<1> QED
  BY <1>1 DEF Has, Contains, Buf

\* What a process past acquiresleep() works on.
LEMMA LockedFacts ==
  ASSUME Inv, NEW p \in Procs, pc[p] \in Locking
  PROVE  /\ Buf(p) \in Bufs /\ blockno[Buf(p)] \in Blocks /\ lk[Buf(p)] = p
         /\ pc[p] # "reading" => valid[Buf(p)] = 1
         /\ pc[p] = "reading" => valid[Buf(p)] = 0
<1> USE DEF Inv
<1>1. pc[p] \in Inside
  BY Zenon DEF Locking, Inside
<1>2. Buf(p) \in Bufs /\ blockno[Buf(p)] \in Blocks /\ Len(held[p]) > 0
  BY <1>1, BufFacts, Zenon
<1>3. Has(p, Buf(p))
  BY <1>2, Zenon DEF Has
<1> QED
  BY <1>2, <1>3, Zenon DEF LockInv, ValidInv

\* The reference count of a buffer, and what it means when it is zero.
LEMMA RefFacts ==
  ASSUME TypeOK, RefcntExact, LockInv, NEW b \in Bufs
  PROVE  /\ IsFiniteSet(Users(b)) /\ Cardinality(Users(b)) \in 0..Cardinality(Procs)
         /\ Cardinality(Procs) \in Nat
         /\ refcnt[b] = Cardinality(Users(b)) + IF b \in pinned THEN 1 ELSE 0
         /\ refcnt[b] = 0 => Users(b) = {} /\ b \notin pinned /\ lk[b] = NoProc
<1> USE BcacheAssumption DEF BcacheAssumption
<1>1. Users(b) \subseteq Procs
  BY Zenon DEF Users
<1>2. IsFiniteSet(Users(b)) /\ Cardinality(Users(b)) <= Cardinality(Procs)
  BY <1>1, FS_Subset, Zenon
<1>3. Cardinality(Users(b)) \in Nat /\ Cardinality(Procs) \in Nat
  BY <1>2, FS_CardinalityType, Zenon
<1>4. refcnt[b] = Cardinality(Users(b)) + IF b \in pinned THEN 1 ELSE 0
  BY Zenon DEF RefcntExact
<1>5. ASSUME refcnt[b] = 0 PROVE Users(b) = {} /\ b \notin pinned
  BY <1>2, <1>3, <1>4, <1>5, FS_EmptySet
<1>6. ASSUME Users(b) = {} PROVE lk[b] = NoProc
  <2>1. \A p \in Procs : ~Has(p, b)
    BY <1>6, HasFacts, Zenon DEF Users
  <2> QED
    BY <2>1, Zenon DEF LockInv, TypeOK
<1> QED
  BY <1>2, <1>3, <1>4, <1>5, <1>6

-----------------------------------------------------------------------------
(* The references of a process grow and shrink at the end.                 *)

LEMMA AppendFacts ==
  ASSUME NEW S, NEW s \in Seq(S), NEW e \in S, Len(s) \in 0..1
  PROVE  /\ Append(s, e) \in Seq(S) /\ Len(Append(s, e)) = Len(s) + 1
         /\ Append(s, e)[Len(Append(s, e))] = e
         /\ Len(s) = 1 => Append(s, e)[1] = s[1] /\ Append(s, e)[2] = e
         /\ \A x : Contains(Append(s, e), x) <=> Contains(s, x) \/ x = e
<1>1. /\ Append(s, e) \in Seq(S) /\ Len(Append(s, e)) = Len(s) + 1
      /\ Append(s, e)[Len(s) + 1] = e
      /\ \A i \in 1..Len(s) : Append(s, e)[i] = s[i]
  OBVIOUS
<1>3. CASE Len(s) = 0
  <2>1. Len(Append(s, e)) = 1 /\ Append(s, e)[1] = e
    BY <1>1, <1>3
  <2>2. \A x : Contains(Append(s, e), x) <=> x = e
    BY <2>1 DEF Contains
  <2>3. \A x : ~Contains(s, x)
    BY <1>3 DEF Contains
  <2> QED
    BY <1>1, <1>3, <2>2, <2>3
<1>4. CASE Len(s) = 1
  <2>1. Append(s, e)[1] = s[1]
    BY <1>1, <1>4
  <2>2. Len(Append(s, e)) = 2
    BY <1>1, <1>4
  <2>3. Append(s, e)[2] = e
    BY <1>1, <1>4
  <2>4. \A x : Contains(Append(s, e), x) <=> x = s[1] \/ x = e
    BY <2>1, <2>2, <2>3 DEF Contains
  <2>5. \A x : Contains(s, x) <=> x = s[1]
    BY <1>4 DEF Contains
  <2> QED
    BY <1>1, <2>1, <2>3, <2>4, <2>5, Zenon
<1> QED
  BY <1>3, <1>4

\* All the references but the last.
Front(s) == SubSeq(s, 1, Len(s) - 1)

LEMMA FrontFacts ==
  ASSUME NEW S, NEW s \in Seq(S), Len(s) \in 1..2
  PROVE  /\ Front(s) \in Seq(S) /\ Len(Front(s)) = Len(s) - 1
         /\ Len(s) = 2 => Front(s)[1] = s[1] /\ Front(s)[Len(Front(s))] = s[1]
         /\ \A x : Contains(Front(s), x) <=> Len(s) = 2 /\ x = s[1]
<1>1. CASE Len(s) = 1
  <2>1. Front(s) \in Seq(S)
    BY <1>1 DEF Front
  <2>2. Len(Front(s)) = 0
    BY <1>1 DEF Front
  <2>3. \A x : ~Contains(Front(s), x)
    BY <2>2 DEF Contains
  <2> QED
    BY <1>1, <2>1, <2>2, <2>3
<1>2. CASE Len(s) = 2
  <2>1. Front(s) \in Seq(S)
    BY <1>2 DEF Front
  <2>2. Len(Front(s)) = 1
    BY <1>2 DEF Front
  <2>3. Front(s)[1] = s[1]
    BY <1>2 DEF Front
  <2>4. Front(s)[Len(Front(s))] = s[1]
    BY <2>2, <2>3, Zenon
  <2>5. \A x : Contains(Front(s), x) <=> x = s[1]
    BY <2>2, <2>3 DEF Contains
  <2> QED
    BY <1>2, <2>1, <2>2, <2>3, <2>4, <2>5
<1> QED
  BY <1>1, <1>2

\* The list still holds every buffer once when one of them moves to its front.
LEMMA MoveToFrontFacts ==
  ASSUME lru \in [Bufs -> Bufs], \A i, j \in Bufs : lru[i] = lru[j] => i = j,
         ListInv, NEW b \in Bufs
  PROVE  /\ MoveToFront(b) \in [Bufs -> Bufs]
         /\ \A i, j \in Bufs : MoveToFront(b)[i] = MoveToFront(b)[j] => i = j
         /\ \A c \in Bufs : \E i \in Bufs : MoveToFront(b)[i] = c
<1> DEFINE at == CHOOSE i \in Bufs : lru[i] = b
<1>1. at \in Bufs /\ lru[at] = b
  BY Zenon DEF ListInv
<1>2. NBUF \in Nat \ {0}
  BY BcacheAssumption, Zenon DEF BcacheAssumption
<1> DEFINE f == MoveToFront(b)
<1>3. f = [i \in Bufs |-> IF i = 1 THEN b ELSE IF i <= at THEN lru[i - 1] ELSE lru[i]]
  BY Zenon DEF MoveToFront
<1> HIDE DEF at, f
<1>a. \A i \in Bufs : i # 1 => i - 1 \in Bufs
  BY <1>2 DEF Bufs
<1>4. f \in [Bufs -> Bufs]
  BY <1>1, <1>3, <1>a, Zenon
<1>5. ASSUME NEW i \in Bufs, NEW j \in Bufs, f[i] = f[j] PROVE i = j
  <2> DEFINE from(n) == IF n = 1 THEN at ELSE IF n <= at THEN n - 1 ELSE n
  <2>1. \A n \in Bufs : from(n) \in Bufs /\ f[n] = lru[from(n)]
    BY <1>1, <1>3, <1>a, Zenon
  <2>2. from(i) = from(j)
    BY <1>5, <2>1
  <2>0. \A n \in Bufs : n \in Nat \ {0}
    BY <1>2 DEF Bufs
  <2>3. i \in Nat \ {0} /\ j \in Nat \ {0} /\ at \in Nat \ {0}
    BY <1>1, <2>0, Zenon
  <2> QED
    BY <2>2, <2>3
<1>6. ASSUME NEW c \in Bufs PROVE \E i \in Bufs : f[i] = c
  <2>1. PICK j \in Bufs : lru[j] = c
    BY Zenon DEF ListInv
  <2>2. CASE j = at
    BY <1>1, <1>2, <1>3, <2>1, <2>2 DEF Bufs
  <2>3. CASE j < at
    <3>1. j + 1 \in Bufs /\ f[j + 1] = c
      BY <1>1, <1>2, <1>3, <2>1, <2>3 DEF Bufs
    <3> QED
      BY <3>1, Zenon
  <2>4. CASE j > at
    BY <1>1, <1>2, <1>3, <2>1, <2>4 DEF Bufs
  <2> QED
    BY <1>1, <1>2, <2>2, <2>3, <2>4 DEF Bufs
<1> QED
  BY <1>4, <1>5, <1>6, Zenon DEF f

-----------------------------------------------------------------------------
(* bget().                                                                 *)

\* What a process that asks for a block refers to and has locked.
LEMMA AskerFacts ==
  ASSUME Inv, NEW p \in Procs, NEW k \in Blocks, MayAsk(p, k)
  PROVE  /\ held[p] \in Seq(Bufs) /\ Len(held[p]) \in 0..1
         /\ pc[p] \in {"idle", "ready"}
         /\ Len(held[p]) = 0 => pc[p] = "idle"
         /\ Len(held[p]) = 1 => /\ pc[p] = "ready" /\ Buf(p) = held[p][1] /\ Buf(p) \in Bufs
                                /\ <<blockno[Buf(p)], k>> \in Nested
                                /\ blockno[Buf(p)] # k /\ blockno[Buf(p)] \in Blocks
<1> USE DEF Inv
<1>1. held[p] \in Seq(Bufs)
  BY ProcFacts, Zenon
<1>2. CASE pc[p] = "idle"
  <2>1. Len(held[p]) = 0
    BY <1>2, Zenon DEF HeldInv
  <2> QED
    BY <1>1, <1>2, <2>1
<1>3. CASE pc[p] = "ready" /\ Len(held[p]) = 1 /\ <<blockno[Buf(p)], k>> \in Nested
  <2>1. Buf(p) = held[p][1] /\ Buf(p) \in Bufs /\ blockno[Buf(p)] \in Blocks
    BY <1>3, BufFacts, Zenon DEF Inside
  <2>2. blockno[Buf(p)] # k
    BY <1>3, BcacheAssumption, Zenon DEF BcacheAssumption
  <2> QED
    BY <1>1, <1>3, <2>1, <2>2
<1> QED
  BY <1>2, <1>3, Zenon DEF MayAsk

\* A new reference takes no lock, and adds one user.
LEMMA ReferenceFacts ==
  ASSUME Inv, NEW p \in Procs, NEW k \in Blocks, MayAsk(p, k), NEW b \in Bufs,
         Reference(p, b)
  PROVE  /\ held' \in [Procs -> Seq(Bufs)] /\ \A q \in Procs : Len(held'[q]) \in 0..2
         /\ pc'[p] = "lock" /\ Buf(p)' = b /\ Len(held'[p]) \in 1..2
         /\ \A q \in Procs : q # p => /\ pc'[q] = pc[q] /\ held'[q] = held[q]
                                      /\ Buf(q)' = Buf(q)
         /\ Len(held'[p]) = 1 => held'[p][1] = b
         /\ Len(held'[p]) = 2 => /\ Len(held[p]) = 1 /\ held'[p][1] = Buf(p)
                                 /\ held'[p][2] = b
         /\ \A q \in Procs, c \in Bufs : Has(q, c)' <=> Has(q, c)
         /\ \A c \in Bufs : Users(c)' = IF c = b THEN Users(c) \cup {p} ELSE Users(c)
<1> USE DEF Inv
<1>1. /\ held[p] \in Seq(Bufs) /\ Len(held[p]) \in 0..1 /\ pc[p] \in {"idle", "ready"}
      /\ Len(held[p]) = 0 => pc[p] = "idle"
      /\ Len(held[p]) = 1 => pc[p] = "ready" /\ Buf(p) = held[p][1]
  BY AskerFacts, Zenon
<1>2. /\ held'[p] = Append(held[p], b) /\ pc'[p] = "lock"
      /\ \A q \in Procs : q # p => pc'[q] = pc[q] /\ held'[q] = held[q]
      /\ DOMAIN held' = Procs /\ held' = [held EXCEPT ![p] = Append(held[p], b)]
  BY Zenon DEF Reference, TypeOK
<1>3. /\ held'[p] \in Seq(Bufs) /\ Len(held'[p]) = Len(held[p]) + 1
      /\ held'[p][Len(held'[p])] = b
      /\ Len(held[p]) = 1 => held'[p][1] = held[p][1] /\ held'[p][2] = b
      /\ \A x : Contains(held'[p], x) <=> Contains(held[p], x) \/ x = b
  BY <1>1, <1>2, AppendFacts
<1>0. \A n \in 0..1 : n + 1 \in 1..2 /\ (n + 1 = 2 => n = 1)
  OBVIOUS
<1>4. Len(held'[p]) \in 1..2
  BY <1>0, <1>1, <1>3, Zenon
<1>5. held' \in [Procs -> Seq(Bufs)]
  BY <1>2, <1>3, Zenon DEF TypeOK
<1>6. ASSUME NEW q \in Procs PROVE Len(held'[q]) \in 0..2
  <2>1. CASE q = p
    BY <1>4, <2>1
  <2>2. CASE q # p
    BY <1>2, <2>2, Zenon DEF TypeOK
  <2> QED
    BY <2>1, <2>2, Zenon
<1>7. Buf(p)' = b /\ \A q \in Procs : q # p => Buf(q)' = Buf(q)
  BY <1>2, <1>3, Zenon DEF Buf
<1>8. Len(held'[p]) = 1 => held'[p][1] = b
  BY <1>3, Zenon
<1>9. Len(held'[p]) = 2 => Len(held[p]) = 1 /\ held'[p][1] = Buf(p) /\ held'[p][2] = b
  BY <1>0, <1>1, <1>3, Zenon
<1>10. ASSUME NEW q \in Procs, NEW c \in Bufs PROVE Has(q, c)' <=> Has(q, c)
  <2>1. CASE q # p
    BY <1>2, <1>7, <2>1, Zenon DEF Has
  <2>2. CASE q = p /\ Len(held[p]) = 0
    BY <1>1, <1>2, <1>3, <2>2 DEF Has, Locking
  <2>3. CASE q = p /\ Len(held[p]) = 1
    BY <1>1, <1>2, <1>3, <2>3 DEF Has, Locking
  <2> QED
    BY <1>1, <2>1, <2>2, <2>3
<1>11. ASSUME NEW c \in Bufs
       PROVE  Users(c)' = IF c = b THEN Users(c) \cup {p} ELSE Users(c)
  BY <1>2, <1>3 DEF Users
<1> QED
  BY <1>2, <1>4, <1>5, <1>6, <1>7, <1>8, <1>9, <1>10, <1>11, Zenon

\* There are never more users of a buffer than processes.
LEMMA UsersNext ==
  ASSUME NEW b \in Bufs
  PROVE  IsFiniteSet(Users(b)') /\ Cardinality(Users(b)') \in 0..Cardinality(Procs)
<1>1. Users(b)' \subseteq Procs
  BY Zenon DEF Users
<1>2. IsFiniteSet(Users(b)') /\ Cardinality(Users(b)') <= Cardinality(Procs)
  BY <1>1, FS_Subset, BcacheAssumption, Zenon DEF BcacheAssumption
<1> QED
  BY <1>2, FS_CardinalityType, BcacheAssumption DEF BcacheAssumption

LEMMA BgetHitInv == ASSUME Inv, NEW p \in Procs, NEW k \in Blocks, BgetHit(p, k) PROVE Inv'
<1> USE DEF Inv
<1>1. PICK b \in Bufs :
        /\ MayAsk(p, k) /\ Reference(p, b) /\ blockno[b] = k
        /\ refcnt' = [refcnt EXCEPT ![b] = @ + 1]
        /\ UNCHANGED <<blockno, valid, data, lru, lk, disk, pinned>>
  BY Zenon DEF BgetHit
<1>2. /\ held' \in [Procs -> Seq(Bufs)] /\ \A q \in Procs : Len(held'[q]) \in 0..2
      /\ pc'[p] = "lock" /\ Buf(p)' = b /\ Len(held'[p]) \in 1..2
      /\ \A q \in Procs : q # p => /\ pc'[q] = pc[q] /\ held'[q] = held[q]
                                   /\ Buf(q)' = Buf(q)
      /\ Len(held'[p]) = 1 => held'[p][1] = b
      /\ Len(held'[p]) = 2 => Len(held[p]) = 1 /\ held'[p][1] = Buf(p) /\ held'[p][2] = b
  BY <1>1, ReferenceFacts, Zenon
<1>3. /\ \A q \in Procs, c \in Bufs : Has(q, c)' <=> Has(q, c)
      /\ \A c \in Bufs : Users(c)' = IF c = b THEN Users(c) \cup {p} ELSE Users(c)
  BY <1>1, ReferenceFacts
<1>4. /\ pc[p] \in {"idle", "ready"}
      /\ Len(held[p]) = 1 => <<blockno[Buf(p)], k>> \in Nested /\ Buf(p) \in Bufs
                             /\ blockno[Buf(p)] \in Blocks
  BY <1>1, AskerFacts, Zenon
<1>a. /\ blockno'[b] = k
      /\ Len(held[p]) = 1 => blockno'[Buf(p)] = blockno[Buf(p)]
  BY <1>1, Zenon
<1>b. p \notin Users(b)
  <2>0. Len(held[p]) \in 0..1
    BY <1>1, AskerFacts, Zenon
  <2>1. Len(held[p]) = 0 \/ Len(held[p]) = 1
    BY <2>0
  <2>2. Len(held[p]) = 1 => held[p][1] # b
    BY <1>1, AskerFacts, Zenon
  <2> QED
    BY <2>1, <2>2 DEF Users, Contains
<1>5. RefcntExact'
  <2>1. ASSUME NEW c \in Bufs
        PROVE  refcnt'[c] = Cardinality(Users(c)') + IF c \in pinned' THEN 1 ELSE 0
    <3>1. CASE c = b
      <4>1. Cardinality(Users(b)') = Cardinality(Users(b)) + 1
        BY <1>3, <1>b, RefFacts, FS_AddElement
      <4> QED
        BY <4>1, <3>1, <1>1, <1>b, RefFacts DEF TypeOK
    <3>2. CASE c # b
      BY <3>2, <1>1, <1>3, Zenon DEF RefcntExact, TypeOK
    <3> QED
      BY <3>1, <3>2, Zenon
  <2> QED
    BY <2>1, Zenon DEF RefcntExact
<1>6. \A c \in Bufs : refcnt'[c] \in 0..Cardinality(Procs) + 1
  <2>1. ASSUME NEW c \in Bufs PROVE refcnt'[c] \in 0..Cardinality(Procs) + 1
    <3>1. Cardinality(Users(c)') \in 0..Cardinality(Procs) /\ Cardinality(Procs) \in Nat
      BY UsersNext, RefFacts, Zenon
    <3>2. refcnt'[c] = Cardinality(Users(c)') + IF c \in pinned' THEN 1 ELSE 0
      BY <1>5, Zenon DEF RefcntExact
    <3> QED
      BY <3>1, <3>2
  <2> QED
    BY <2>1, Zenon
<1>7. TypeOK'
  BY <1>1, <1>2, <1>6, Zenon DEF TypeOK, Reference
<1>8. HeldInv'
  <2>1. ASSUME NEW q \in Procs, q # p, NEW i \in 1..Len(held[q])
        PROVE  blockno'[held[q][i]] = blockno[held[q][i]]
    BY <1>1, Zenon
  <2>2. ASSUME NEW q \in Procs, q # p
        PROVE  /\ pc'[q] = "idle" => Len(held'[q]) = 0
               /\ pc'[q] \notin {"idle", "panic"} => Len(held'[q]) > 0
               /\ pc'[q] = "panic" => Len(held'[q]) <= 1
               /\ \A i \in 1..Len(held'[q]) : blockno'[held'[q][i]] # NoBlock
    <3>1. pc'[q] = pc[q] /\ held'[q] = held[q]
      BY <1>2, <2>2, Zenon
    <3>2. \A i \in 1..Len(held[q]) : blockno'[held[q][i]] # NoBlock
      BY <2>1, <2>2, Zenon DEF HeldInv
    <3> QED
      BY <3>1, <3>2, Zenon DEF HeldInv
  <2>3. ASSUME NEW q \in Procs, q # p, Len(held'[q]) = 2
        PROVE  <<blockno'[held'[q][1]], blockno'[held'[q][2]]>> \in Nested
    <3>1. Len(held[q]) = 2 /\ held'[q] = held[q]
      BY <1>2, <2>3, Zenon
    <3>2. 1 \in 1..Len(held[q]) /\ 2 \in 1..Len(held[q])
      BY <3>1
    <3>3. <<blockno[held[q][1]], blockno[held[q][2]]>> \in Nested
      BY <3>1, Zenon DEF HeldInv
    <3> QED
      BY <2>1, <2>3, <3>1, <3>2, <3>3, Zenon
  <2>4. \A i \in 1..Len(held'[p]) : blockno'[held'[p][i]] # NoBlock
    BY <1>2, <1>4, <1>a, BcacheAssumption DEF BcacheAssumption
  <2>5. Len(held'[p]) = 2 => <<blockno'[held'[p][1]], blockno'[held'[p][2]]>> \in Nested
    BY <1>2, <1>4, <1>a, Zenon
  <2>6. Len(held'[p]) > 0
    BY <1>2
  <2> QED
    BY <1>2, <2>2, <2>3, <2>4, <2>5, <2>6, Zenon DEF HeldInv
<1>9. ListInv' /\ OneBufferPerBlock'
  BY <1>1, Zenon DEF ListInv, OneBufferPerBlock
<1>10. LockInv'
  BY <1>1, <1>3, Zenon DEF LockInv
<1>c. UNCHANGED <<blockno, valid, data, disk, pinned>>
  BY <1>1, Zenon
<1>d. \A q \in Procs : \A s \in {"reading", "writing", "unpin"} :
        /\ pc'[q] = s <=> pc[q] = s
        /\ pc[q] = s => Buf(q)' = Buf(q)
  BY <1>2, <1>4, Zenon
<1>11. ValidInv'
  BY <1>3, <1>c, <1>d, ValidFrame, Zenon
<1>12. CleanInv'
  BY <1>c, <1>d, CleanFrame, Zenon
<1>13. SleepInv'
  BY <1>1, <1>2, Zenon DEF SleepInv
<1> QED
  BY <1>5, <1>7, <1>8, <1>9, <1>10, <1>11, <1>12, <1>13, Zenon

LEMMA BgetRecycleInv ==
  ASSUME Inv, NEW p \in Procs, NEW k \in Blocks, BgetRecycle(p, k) PROVE Inv'
<1> USE DEF Inv
<1>1. PICK b \in Bufs :
        /\ MayAsk(p, k) /\ Reference(p, b) /\ blockno' = [blockno EXCEPT ![b] = k]
        /\ ~Cached(k) /\ valid' = [valid EXCEPT ![b] = 0]
        /\ refcnt' = [refcnt EXCEPT ![b] = 1] /\ refcnt[b] = 0
        /\ UNCHANGED <<data, lru, lk, disk, pinned>>
  <2>1. \A i \in Free : lru[i] \in Bufs /\ refcnt[lru[i]] = 0
    BY Zenon DEF Free, TypeOK
  <2> QED
    BY <2>1, Zenon DEF BgetRecycle
<1>e. Users(b) = {} /\ b \notin pinned /\ lk[b] = NoProc
  BY <1>1, RefFacts, Zenon
<1>f. \A q \in Procs, c \in Bufs : Has(q, c) => c # b
  BY <1>e, HasFacts, Zenon DEF Users
<1>2. /\ held' \in [Procs -> Seq(Bufs)] /\ \A q \in Procs : Len(held'[q]) \in 0..2
      /\ pc'[p] = "lock" /\ Buf(p)' = b /\ Len(held'[p]) \in 1..2
      /\ \A q \in Procs : q # p => /\ pc'[q] = pc[q] /\ held'[q] = held[q]
                                   /\ Buf(q)' = Buf(q)
      /\ Len(held'[p]) = 1 => held'[p][1] = b
      /\ Len(held'[p]) = 2 => Len(held[p]) = 1 /\ held'[p][1] = Buf(p) /\ held'[p][2] = b
  BY <1>1, ReferenceFacts, Zenon
<1>3. /\ \A q \in Procs, c \in Bufs : Has(q, c)' <=> Has(q, c)
      /\ \A c \in Bufs : Users(c)' = IF c = b THEN Users(c) \cup {p} ELSE Users(c)
  BY <1>1, ReferenceFacts
<1>4. /\ pc[p] \in {"idle", "ready"}
      /\ Len(held[p]) = 1 => <<blockno[Buf(p)], k>> \in Nested /\ Buf(p) \in Bufs
                             /\ blockno[Buf(p)] \in Blocks
  BY <1>1, AskerFacts, Zenon
<1>a. /\ blockno'[b] = k
      /\ Len(held[p]) = 1 => blockno'[Buf(p)] = blockno[Buf(p)]
  <2>1. Len(held[p]) = 1 => Has(p, Buf(p))
    <3>1. Len(held[p]) = 1 => pc[p] = "ready"
      BY <1>1, AskerFacts, Zenon
    <3>2. Len(held[p]) = 1 => Len(held[p]) > 0
      OBVIOUS
    <3> QED
      BY <3>1, <3>2, Zenon DEF Has, Locking
  <2> QED
    BY <1>1, <1>4, <1>f, <2>1, Zenon DEF TypeOK
<1>b. p \notin Users(b)
  BY <1>e, Zenon
<1>5. RefcntExact'
  <2>1. ASSUME NEW c \in Bufs
        PROVE  refcnt'[c] = Cardinality(Users(c)') + IF c \in pinned' THEN 1 ELSE 0
    <3>1. CASE c = b
      <4>1. Cardinality(Users(b)') = Cardinality(Users(b)) + 1
        BY <1>3, <1>b, RefFacts, FS_AddElement
      <4>2. Cardinality(Users(b)) = 0
        BY <1>e, FS_EmptySet, Zenon
      <4> QED
        BY <4>1, <4>2, <3>1, <1>1, <1>e DEF TypeOK
    <3>2. CASE c # b
      BY <3>2, <1>1, <1>3, Zenon DEF RefcntExact, TypeOK
    <3> QED
      BY <3>1, <3>2, Zenon
  <2> QED
    BY <2>1, Zenon DEF RefcntExact
<1>6. \A c \in Bufs : refcnt'[c] \in 0..Cardinality(Procs) + 1
  <2>1. ASSUME NEW c \in Bufs PROVE refcnt'[c] \in 0..Cardinality(Procs) + 1
    <3>1. Cardinality(Users(c)') \in 0..Cardinality(Procs) /\ Cardinality(Procs) \in Nat
      BY UsersNext, RefFacts, Zenon
    <3>2. refcnt'[c] = Cardinality(Users(c)') + IF c \in pinned' THEN 1 ELSE 0
      BY <1>5, Zenon DEF RefcntExact
    <3> QED
      BY <3>1, <3>2
  <2> QED
    BY <2>1, Zenon
<1>7. TypeOK'
  BY <1>1, <1>2, <1>6, Zenon DEF TypeOK, Reference
<1>8. HeldInv'
  <2>1. ASSUME NEW q \in Procs, q # p, NEW i \in 1..Len(held[q])
        PROVE  blockno'[held[q][i]] = blockno[held[q][i]]
    BY <1>1, <1>e DEF Users, Contains, TypeOK
  <2>2. ASSUME NEW q \in Procs, q # p
        PROVE  /\ pc'[q] = "idle" => Len(held'[q]) = 0
               /\ pc'[q] \notin {"idle", "panic"} => Len(held'[q]) > 0
               /\ pc'[q] = "panic" => Len(held'[q]) <= 1
               /\ \A i \in 1..Len(held'[q]) : blockno'[held'[q][i]] # NoBlock
    <3>1. pc'[q] = pc[q] /\ held'[q] = held[q]
      BY <1>2, <2>2, Zenon
    <3>2. \A i \in 1..Len(held[q]) : blockno'[held[q][i]] # NoBlock
      BY <2>1, <2>2, Zenon DEF HeldInv
    <3> QED
      BY <3>1, <3>2, Zenon DEF HeldInv
  <2>3. ASSUME NEW q \in Procs, q # p, Len(held'[q]) = 2
        PROVE  <<blockno'[held'[q][1]], blockno'[held'[q][2]]>> \in Nested
    <3>1. Len(held[q]) = 2 /\ held'[q] = held[q]
      BY <1>2, <2>3, Zenon
    <3>2. 1 \in 1..Len(held[q]) /\ 2 \in 1..Len(held[q])
      BY <3>1
    <3>3. <<blockno[held[q][1]], blockno[held[q][2]]>> \in Nested
      BY <3>1, Zenon DEF HeldInv
    <3> QED
      BY <2>1, <2>3, <3>1, <3>2, <3>3, Zenon
  <2>4. \A i \in 1..Len(held'[p]) : blockno'[held'[p][i]] # NoBlock
    BY <1>2, <1>4, <1>a, BcacheAssumption DEF BcacheAssumption
  <2>5. Len(held'[p]) = 2 => <<blockno'[held'[p][1]], blockno'[held'[p][2]]>> \in Nested
    BY <1>2, <1>4, <1>a, Zenon
  <2>6. Len(held'[p]) > 0
    BY <1>2
  <2> QED
    BY <1>2, <2>2, <2>3, <2>4, <2>5, <2>6, Zenon DEF HeldInv
<1>9. ListInv' /\ OneBufferPerBlock'
  BY <1>1, Zenon DEF ListInv, OneBufferPerBlock, Cached, TypeOK
<1>10. LockInv'
  BY <1>1, <1>3, Zenon DEF LockInv
<1>11. ValidInv'
  <2>1. \A q \in Procs : (pc'[q] = "reading" <=> pc[q] = "reading")
                         /\ (pc[q] = "reading" => Buf(q)' = Buf(q))
    BY <1>2, <1>4, Zenon
  <2>2. \A c \in Bufs : c # b => valid'[c] = valid[c] /\ blockno'[c] = blockno[c]
    BY <1>1, Zenon DEF TypeOK
  <2>3. valid'[b] = 0 /\ pinned' = pinned
    BY <1>1, Zenon DEF TypeOK
  <2>4. \A q \in Procs : pc[q] = "reading" => Buf(q) \in Bufs
    BY BufFacts, Zenon DEF Inside
  <2>a. \A c \in Bufs : valid'[c] = 1 => blockno'[c] # NoBlock
    BY <2>2, <2>3 DEF ValidInv
  <2>b. \A c \in pinned : c \in Bufs /\ c # b
    BY <1>e, Zenon DEF TypeOK
  <2>5. \A c \in pinned' : valid'[c] = 1
    BY <2>2, <2>3, <2>b, Zenon DEF ValidInv
  <2>6. ASSUME NEW q \in Procs, NEW c \in Bufs, Has(q, c)',
               ~(pc'[q] = "reading" /\ c = Buf(q)')
        PROVE  valid'[c] = 1
    <3>1. Has(q, c) /\ c # b
      BY <1>3, <1>f, <2>6, Zenon
    <3> QED
      BY <2>1, <2>2, <2>6, <3>1, Zenon DEF ValidInv
  <2>7. \A q \in Procs : pc'[q] = "reading" => valid'[Buf(q)'] = 0
    BY <2>1, <2>2, <2>3, <2>4, ReadingKept, Zenon
  <2> QED
    BY <2>a, <2>5, <2>6, <2>7, Zenon DEF ValidInv
<1>12. CleanInv'
  <2>1. \A q \in Procs : pc[q] = "unpin" => Buf(q) # b
    BY <1>e, Zenon DEF CleanInv
  <2>2. \A q \in Procs : \A s \in {"writing", "unpin"} :
          /\ pc'[q] = s <=> pc[q] = s
          /\ pc[q] = s => Buf(q)' = Buf(q)
    BY <1>2, <1>4, Zenon
  <2>3. \A q \in Procs : pc'[q] = "unpin" => /\ Buf(q)' \in pinned'
                                             /\ data'[Buf(q)'] = disk'[blockno'[Buf(q)']]
    BY <1>1, <2>1, <2>2 DEF CleanInv, TypeOK
  <2>4. ASSUME NEW c \in Bufs, valid'[c] = 1, data'[c] # disk'[blockno'[c]]
        PROVE  c \in pinned' \/ \E q \in Procs : pc'[q] = "writing" /\ Buf(q)' = c
    <3>1. c # b /\ valid[c] = 1 /\ data[c] # disk[blockno[c]]
      BY <1>1, <2>4 DEF TypeOK
    <3> QED
      BY <1>1, <2>2, <3>1, Zenon DEF CleanInv
  <2> QED
    BY <2>3, <2>4, Zenon DEF CleanInv
<1>13. SleepInv'
  BY <1>1, <1>2, Zenon DEF SleepInv
<1> QED
  BY <1>5, <1>7, <1>8, <1>9, <1>10, <1>11, <1>12, <1>13, Zenon

LEMMA BgetPanicInv ==
  ASSUME Inv, NEW p \in Procs, NEW k \in Blocks, BgetPanic(p, k) PROVE Inv'
<1> USE DEF Inv
<1>1. /\ Len(held[p]) \in 0..1 /\ pc[p] \in {"idle", "ready"}
      /\ Len(held[p]) = 0 => pc[p] = "idle"
      /\ Len(held[p]) = 1 => pc[p] = "ready"
  BY AskerFacts, Zenon DEF BgetPanic
<1>2. /\ held' = held /\ pc'[p] = "panic" /\ \A q \in Procs : Buf(q)' = Buf(q)
      /\ \A q \in Procs : q # p => pc'[q] = pc[q]
  BY Zenon DEF BgetPanic, Buf, TypeOK
<1>3. \A q \in Procs, c \in Bufs : Has(q, c)' <=> Has(q, c)
  BY <1>1, <1>2 DEF Has, Locking
<1>4. \A c \in Bufs : Users(c)' = Users(c)
  BY <1>2, Zenon DEF Users
<1>5. TypeOK'
  BY Zenon DEF BgetPanic, bufVars, TypeOK
<1>6. ListInv' /\ OneBufferPerBlock' /\ RefcntExact'
  BY <1>4, Zenon DEF BgetPanic, bufVars, ListInv, OneBufferPerBlock, RefcntExact
<1>7. HeldInv'
  BY <1>1, <1>2 DEF BgetPanic, bufVars, HeldInv
<1>8. LockInv' /\ SleepInv'
  BY <1>2, <1>3 DEF BgetPanic, LockInv, SleepInv
<1>9. ValidInv' /\ CleanInv'
  <2>1. UNCHANGED <<blockno, valid, data, disk, pinned>>
    BY Zenon DEF BgetPanic, bufVars
  <2>2. \A q \in Procs : \A s \in {"reading", "writing", "unpin"} : pc'[q] = s <=> pc[q] = s
    BY <1>1, <1>2, Zenon
  <2>3. ValidInv'
    BY <1>2, <1>3, <2>1, <2>2, ValidFrame, Zenon
  <2>4. CleanInv'
    BY <1>2, <2>1, <2>2, CleanFrame, Zenon
  <2> QED
    BY <2>3, <2>4, Zenon
<1> QED
  BY <1>5, <1>6, <1>7, <1>8, <1>9, Zenon

-----------------------------------------------------------------------------
(* The end of brelse().                                                    *)

LEMMA UnrefInv == ASSUME Inv, NEW p \in Procs, Unref(p) PROVE Inv'
<1> USE DEF Inv
<1>1. PICK b \in Bufs : b = Buf(p)
  BY BufFacts, Zenon DEF Unref, Inside
<1>2. /\ held[p] \in Seq(Bufs) /\ Len(held[p]) \in 1..2 /\ Contains(held[p], b)
      /\ Len(held[p]) = 2 => held[p][1] \in Bufs /\ held[p][1] # b
  BY <1>1, ProcFacts, BufFacts, Zenon DEF Unref, Inside
<1>3. /\ pc[p] = "unref" /\ pc'[p] = IF Len(held[p]) = 1 THEN "idle" ELSE "ready"
      /\ held' = [held EXCEPT ![p] = Front(held[p])] /\ held'[p] = Front(held[p])
      /\ refcnt' = [refcnt EXCEPT ![b] = @ - 1]
      /\ lru' = IF refcnt'[b] = 0 THEN MoveToFront(b) ELSE lru
      /\ \A q \in Procs : q # p => pc'[q] = pc[q] /\ held'[q] = held[q]
      /\ UNCHANGED <<blockno, valid, data, lk, disk, pinned>>
  BY <1>1, Zenon DEF Unref, Unreference, Front, TypeOK
<1>4. /\ held'[p] \in Seq(Bufs) /\ Len(held'[p]) = Len(held[p]) - 1
      /\ Len(held[p]) = 2 => /\ held'[p][1] = held[p][1]
                             /\ held'[p][Len(held'[p])] = held[p][1]
      /\ \A x : Contains(held'[p], x) <=> Len(held[p]) = 2 /\ x = held[p][1]
  <2> DEFINE f == Front(held[p])
  <2>1. /\ f \in Seq(Bufs) /\ Len(f) = Len(held[p]) - 1
        /\ Len(held[p]) = 2 => f[1] = held[p][1] /\ f[Len(f)] = held[p][1]
        /\ \A x : Contains(f, x) <=> Len(held[p]) = 2 /\ x = held[p][1]
    BY <1>2, FrontFacts, Zenon
  <2>2. held'[p] = f
    BY <1>3, Zenon
  <2> HIDE DEF f
  <2> QED
    BY <2>1, <2>2, Zenon
<1>5. \/ Len(held[p]) = 1 /\ Len(held'[p]) = 0 /\ pc'[p] = "idle"
      \/ Len(held[p]) = 2 /\ Len(held'[p]) = 1 /\ pc'[p] = "ready"
  <2>0. \A n \in 1..2 : (n = 1 /\ n - 1 = 0) \/ (n = 2 /\ n - 1 = 1 /\ n # 1)
    OBVIOUS
  <2> QED
    BY <1>2, <1>3, <1>4, <2>0, Zenon
<1>6. /\ \A q \in Procs : q # p => Buf(q)' = Buf(q)
      /\ Len(held[p]) = 2 => Buf(p)' = held[p][1]
  BY <1>3, <1>4, Zenon DEF Buf
<1>7. \A q \in Procs, c \in Bufs : Has(q, c)' <=> Has(q, c)
  <2>1. ASSUME NEW q \in Procs, NEW c \in Bufs PROVE Has(q, c)' <=> Has(q, c)
    <3>1. CASE q # p
      BY <1>3, <1>6, <3>1, Zenon DEF Has
    <3>2. CASE q = p /\ Len(held[p]) = 1
      BY <1>3, <1>5, <3>2 DEF Has, Locking
    <3>3. CASE q = p /\ Len(held[p]) = 2
      BY <1>3, <1>5, <1>6, <3>3 DEF Has, Locking
    <3> QED
      BY <1>5, <3>1, <3>2, <3>3, Zenon
  <2> QED
    BY <2>1, Zenon
<1>8. \A c \in Bufs : Users(c)' = IF c = b THEN Users(c) \ {p} ELSE Users(c)
  <2>1. \A c \in Bufs : c # b => (Contains(held'[p], c) <=> Contains(held[p], c))
    <3>1. CASE Len(held[p]) = 1
      BY <1>1, <1>4, <3>1 DEF Contains, Buf
    <3>2. CASE Len(held[p]) = 2
      BY <1>1, <1>4, <3>2 DEF Contains, Buf
    <3> QED
      BY <1>5, <3>1, <3>2, Zenon
  <2>2. ~Contains(held'[p], b)
    BY <1>2, <1>4, Zenon
  <2> QED
    BY <1>3, <2>1, <2>2, Zenon DEF Users
<1>9. p \in Users(b)
  BY <1>2, Zenon DEF Users
<1>10. RefcntExact'
  <2>1. ASSUME NEW c \in Bufs
        PROVE  refcnt'[c] = Cardinality(Users(c)') + IF c \in pinned' THEN 1 ELSE 0
    <3>1. CASE c = b
      <4>0. /\ IsFiniteSet(Users(b)) /\ Cardinality(Users(b)) \in Nat
            /\ refcnt[b] = Cardinality(Users(b)) + IF b \in pinned THEN 1 ELSE 0
        BY RefFacts
      <4>1. Users(c)' = Users(b) \ {p}
        BY <1>8, <3>1, Zenon
      <4>2. Cardinality(Users(b) \ {p}) = Cardinality(Users(b)) - 1
        BY <1>9, <4>0, FS_RemoveElement, Zenon
      <4>3. refcnt'[c] = refcnt[b] - 1 /\ (c \in pinned' <=> b \in pinned)
        BY <1>3, <3>1, Zenon DEF TypeOK
      <4> HIDE DEF Inv
      <4> QED
        BY <4>0, <4>1, <4>2, <4>3
    <3>2. CASE c # b
      BY <3>2, <1>3, <1>8, Zenon DEF RefcntExact, TypeOK
    <3> QED
      BY <3>1, <3>2, Zenon
  <2> QED
    BY <2>1, Zenon DEF RefcntExact
<1>11. \A c \in Bufs : refcnt'[c] \in 0..Cardinality(Procs) + 1
  <2>1. ASSUME NEW c \in Bufs PROVE refcnt'[c] \in 0..Cardinality(Procs) + 1
    <3>1. Cardinality(Users(c)') \in 0..Cardinality(Procs) /\ Cardinality(Procs) \in Nat
      BY UsersNext, RefFacts, Zenon
    <3>2. refcnt'[c] = Cardinality(Users(c)') + IF c \in pinned' THEN 1 ELSE 0
      BY <1>10, Zenon DEF RefcntExact
    <3> QED
      BY <3>1, <3>2
  <2> QED
    BY <2>1, Zenon
<1>12. /\ lru' \in [Bufs -> Bufs] /\ \A i, j \in Bufs : lru'[i] = lru'[j] => i = j
       /\ \A c \in Bufs : \E i \in Bufs : lru'[i] = c
  <2>1. /\ MoveToFront(b) \in [Bufs -> Bufs]
        /\ \A i, j \in Bufs : MoveToFront(b)[i] = MoveToFront(b)[j] => i = j
        /\ \A c \in Bufs : \E i \in Bufs : MoveToFront(b)[i] = c
    BY MoveToFrontFacts, Zenon DEF TypeOK
  <2> QED
    BY <1>3, <2>1, Zenon DEF TypeOK, ListInv
<1>13. TypeOK'
  <2>1. held' \in [Procs -> Seq(Bufs)] /\ \A q \in Procs : Len(held'[q]) \in 0..2
    <3>1. Len(held'[p]) \in 0..2
      BY <1>5
    <3>2. held' \in [Procs -> Seq(Bufs)]
      BY <1>3, <1>4, Zenon DEF TypeOK
    <3> QED
      BY <1>3, <3>1, <3>2, Zenon DEF TypeOK
  <2>2. pc' \in [Procs -> {"idle", "lock", "asleep", "reading", "ready", "writing",
                           "unpin", "done", "unref", "panic"}]
    BY Zenon DEF Unref, TypeOK
  <2>3. refcnt' \in [Bufs -> 0..Cardinality(Procs) + 1]
    BY <1>3, <1>11, Zenon DEF TypeOK
  <2> QED
    BY <1>3, <1>12, <2>1, <2>2, <2>3, Zenon DEF TypeOK
<1>14. HeldInv'
  <2>1. ASSUME NEW q \in Procs, q # p
        PROVE  /\ pc'[q] = "idle" => Len(held'[q]) = 0
               /\ pc'[q] \notin {"idle", "panic"} => Len(held'[q]) > 0
               /\ pc'[q] = "panic" => Len(held'[q]) <= 1
               /\ Len(held'[q]) = 2 =>
                    <<blockno'[held'[q][1]], blockno'[held'[q][2]]>> \in Nested
               /\ \A i \in 1..Len(held'[q]) : blockno'[held'[q][i]] # NoBlock
    <3>1. pc'[q] = pc[q] /\ held'[q] = held[q] /\ blockno' = blockno
      BY <1>3, <2>1, Zenon
    <3> QED
      BY <3>1, Zenon DEF HeldInv
  <2>2. \A i \in 1..Len(held'[p]) : blockno'[held'[p][i]] # NoBlock
    <3>0. Len(held[p]) = 2 => 1 \in 1..Len(held[p])
      OBVIOUS
    <3>1. Len(held[p]) = 2 => blockno[held[p][1]] # NoBlock
      BY <3>0, Zenon DEF HeldInv
    <3> QED
      BY <1>3, <1>4, <1>5, <3>1
  <2>3. Len(held'[p]) # 2 /\ (pc'[p] = "ready" => Len(held'[p]) > 0)
    BY <1>5
  <2>4. pc'[p] \in {"idle", "ready"} /\ (pc'[p] = "idle" => Len(held'[p]) = 0)
    BY <1>5, Zenon
  <2> QED
    BY <2>1, <2>2, <2>3, <2>4, Zenon DEF HeldInv
<1>15. OneBufferPerBlock' /\ ListInv'
  BY <1>3, <1>12, Zenon DEF OneBufferPerBlock, ListInv
<1>16. LockInv'
  BY <1>3, <1>7, Zenon DEF LockInv
<1>a. \A q \in Procs : \A s \in {"reading", "writing", "unpin"} :
        /\ pc'[q] = s <=> pc[q] = s
        /\ pc[q] = s => Buf(q)' = Buf(q)
  BY <1>3, <1>5, <1>6, Zenon
<1>b. UNCHANGED <<blockno, valid, data, disk, pinned>>
  BY <1>3, Zenon
<1>17. ValidInv'
  BY <1>7, <1>a, <1>b, ValidFrame, Zenon
<1>18. CleanInv'
  BY <1>a, <1>b, CleanFrame, Zenon
<1>19. SleepInv'
  BY <1>3, <1>5, <1>6, Zenon DEF SleepInv
<1> QED
  BY <1>10, <1>13, <1>14, <1>15, <1>16, <1>17, <1>18, <1>19, Zenon

=============================================================================
