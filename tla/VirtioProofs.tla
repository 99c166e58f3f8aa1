---------------------------- MODULE VirtioProofs ----------------------------
(***************************************************************************)
(* The inductive invariant of VirtioDisk, for any numbers of processes,    *)
(* blocks and descriptors and any counter width that NUM divides, and what *)
(* follows from it: sound rings, nobody forgotten, and that the driver and *)
(* the device implement DiskRequests.                                      *)
(***************************************************************************)
EXTENDS VirtioDisk, FiniteSetTheorems, WellFoundedInduction, TLAPS

\* vdisk_lock is held where virtio_disk_rw() should hold it.
LockInv ==
  \A p \in Procs : vdisk_lock = p <=> pc[p] \in {"alloc", "publish", "wait"}

\* A call has a block; b->disk is set from the chain's allocation to the answer.
CallInv ==
  \A p \in Procs :
    /\ pc[p] = "idle" => call[p] = NoCall
    /\ pc[p] # "idle" => call[p].block \in Blocks
    /\ ~Busy(p) => bdisk[p] = 0
    /\ pc[p] \in {"publish", "asleep"} => bdisk[p] = 1

Own(p) == {idx[p][1], idx[p][2], idx[p][3]}

\* The chain of a request as virtio_disk_rw() builds it.
ChainOf(p) ==
  /\ idx[p] \in Desc \X Desc \X Desc
  /\ idx[p][1] # idx[p][2] /\ idx[p][1] # idx[p][3] /\ idx[p][2] # idx[p][3]
  /\ desc[idx[p][1]] = [op |-> call[p], buf |-> None, next |-> idx[p][2]]
  /\ desc[idx[p][2]] = [op |-> NoCall, buf |-> p, next |-> idx[p][3]]
  /\ desc[idx[p][3]] = NoDesc
  /\ info[idx[p][1]].b = p
  /\ Own(p) \cap free = {}

\* Every request that is under way has its chain, no two share a descriptor, and
\* every other descriptor is free.
ChainInv ==
  /\ \A p \in Procs : Busy(p) => ChainOf(p)
  /\ \A p, q \in Procs : Busy(p) /\ Busy(q) /\ p # q => Own(p) \cap Own(q) = {}
  /\ \A i \in Desc \ free : \E p \in Procs : Busy(p) /\ i \in Own(p)

\* The slots of a ring between two counters, and the requests in them.
Live(from, to) == {((from + i) % WORD) % NUM : i \in 0..Span(from, to)-1}
Offered == {avail.ring[s] : s \in Live(fetched, avail.idx)}
Answers == {used.ring[s] : s \in Live(used_idx, used.idx)}

\* A request that has been offered and not answered.
Waiting(p) == Busy(p) /\ pc[p] # "publish" /\ bdisk[p] = 1
WaitingHeads == {Head(p) : p \in {q \in Procs : Waiting(q)}}

\* Each of them is in one place.
RingInv ==
  /\ Offered \cup inflight \cup Answers = WaitingHeads
  /\ Offered \cap inflight = {}
  /\ Span(fetched, avail.idx) + Cardinality(inflight) + Span(used_idx, used.idx)
       = Cardinality(WaitingHeads)
  /\ \A s, t \in Live(fetched, avail.idx) : avail.ring[s] = avail.ring[t] => s = t
  /\ \A s, t \in Live(used_idx, used.idx) : used.ring[s] = used.ring[t] => s = t
  /\ \A p \in Procs : pc[p] = "publish" => avail.ring[avail.idx % NUM] = Head(p)

\* The status of a request tells the device's part of its life from the rest.
StatusInv ==
  /\ \A h \in Offered \cup inflight : info[h].status = Unwritten
  /\ \A h \in Answers : info[h].status = 0
  /\ \A p \in Procs : pc[p] = "publish" => info[Head(p)].status = Unwritten
  /\ \A p \in Procs : Busy(p) /\ bdisk[p] = 0 => info[Head(p)].status = 0

\* A process without descriptors finds too few.
DescInv == \A p \in Procs : pc[p] = "nodesc" => Cardinality(free) < 3

Inv ==
  TypeOK /\ LockInv /\ CallInv /\ ChainInv /\ RingInv /\ StatusInv /\ DescInv /\ NoLostInterrupt

-----------------------------------------------------------------------------
(* Arithmetic of the rings.                                                *)

\* Quotient and remainder.
LEMMA DivMod ==
  ASSUME NEW m \in Nat \ {0}, NEW x \in Nat
  PROVE  /\ x \div m \in Int /\ x % m \in 0..m-1
         /\ x = m * (x \div m) + (x % m)
OBVIOUS

\* A multiple of m strictly between -m and m is zero.
LEMMA SmallMultiple ==
  ASSUME NEW m \in Nat \ {0}, NEW z \in Int, m * z < m, m * z > 0 - m
  PROVE  z = 0
OBVIOUS

\* Two positions less than m apart are different slots of a ring of m slots.
LEMMA SlotsDiffer ==
  ASSUME NEW m \in Nat \ {0}, NEW x \in Nat, NEW y \in Nat, x < y, y < x + m
  PROVE  x % m # y % m
<1> DEFINE a == x \div m
           b == y \div m
<1> SUFFICES ASSUME x % m = y % m PROVE FALSE
  OBVIOUS
<1>1. a \in Int /\ x = m * a + (x % m) /\ x % m \in 0..m-1
  BY DivMod, Zenon
<1>2. b \in Int /\ y = m * b + (y % m)
  BY DivMod, Zenon
<1> HIDE DEF a, b
<1>3. y - x = m * (b - a)
  BY <1>1, <1>2
<1>4. b - a = 0
  BY <1>1, <1>2, <1>3, SmallMultiple
<1> QED
  BY <1>1, <1>2, <1>3, <1>4

\* A counter that wraps at a multiple of m keeps its slot.
LEMMA WrapKeepsSlot ==
  ASSUME NEW m \in Nat \ {0}, NEW w \in Nat, w % m = 0, NEW x \in Nat, x >= w
  PROVE  (x - w) % m = x % m
<1> DEFINE a == x \div m
           b == w \div m
           d == (x - w) \div m
<1>1. a \in Int /\ x = m * a + (x % m) /\ x % m \in 0..m-1
  BY DivMod, Zenon
<1>2. b \in Int /\ w = m * b
  BY DivMod
<1>3. d \in Int /\ x - w = m * d + ((x - w) % m) /\ (x - w) % m \in 0..m-1
  <2>1. x - w \in Nat
    OBVIOUS
  <2> QED
    BY <2>1, DivMod, Zenon
<1> HIDE DEF a, b, d
<1>4. m * (a - b - d) = ((x - w) % m) - (x % m)
  BY <1>1, <1>2, <1>3
<1> DEFINE z == a - b - d
<1>5. z \in Int /\ m * z = ((x - w) % m) - (x % m)
  BY <1>1, <1>2, <1>3, <1>4
<1> HIDE DEF z
<1>6. z = 0
  BY <1>1, <1>3, <1>5, SmallMultiple
<1>7. m * z = 0
  BY <1>6
<1> QED
  BY <1>1, <1>3, <1>5, <1>7

\* The unsigned distance of two counters, and what one step of either does to it.
LEMMA SpanFacts ==
  ASSUME NEW from \in 0..WORD-1, NEW to \in 0..WORD-1
  PROVE  /\ Span(from, to) \in 0..WORD-1
         /\ Span(from, to) = 0 <=> from = to
         /\ Inc(from) \in 0..WORD-1 /\ Inc(to) \in 0..WORD-1
         /\ from # to => Span(Inc(from), to) = Span(from, to) - 1
         /\ Span(from, to) < WORD - 1 => Span(from, Inc(to)) = Span(from, to) + 1
         /\ (from + Span(from, to)) % WORD = to
<1>0. WORD \in Nat \ {0}
  BY VirtioAssumption, Zenon DEF VirtioAssumption
<1>1. \A a, b \in 0..WORD-1 : Span(a, b) = IF a <= b THEN b - a ELSE b - a + WORD
  BY <1>0 DEF Span
<1>2. \A a \in 0..WORD-1 : Inc(a) = IF a = WORD - 1 THEN 0 ELSE a + 1
  BY <1>0 DEF Inc
<1>3. Inc(from) \in 0..WORD-1 /\ Inc(to) \in 0..WORD-1
  BY <1>0, <1>2
<1>4. from # to => Span(Inc(from), to) = Span(from, to) - 1
  <2>1. CASE from = WORD - 1
    <3>1. Inc(from) = 0 /\ Span(0, to) = to
      BY <1>0, <1>1, <1>2, <2>1
    <3> QED
      BY <1>0, <1>1, <2>1, <3>1
  <2>2. CASE from # WORD - 1
    <3>1. Inc(from) = from + 1 /\ from + 1 \in 0..WORD-1
      BY <1>0, <1>2, <2>2
    <3>2. Span(from + 1, to) = IF from + 1 <= to THEN to - (from + 1) ELSE to - (from + 1) + WORD
      BY <1>1, <3>1, Zenon
    <3> QED
      BY <1>0, <1>1, <3>1, <3>2
  <2> QED
    BY <2>1, <2>2, Zenon
<1>5. Span(from, to) < WORD - 1 => Span(from, Inc(to)) = Span(from, to) + 1
  <2>1. CASE to = WORD - 1
    <3>1. Inc(to) = 0 /\ Span(from, 0) = IF from = 0 THEN 0 ELSE WORD - from
      BY <1>0, <1>1, <1>2, <2>1
    <3> QED
      BY <1>0, <1>1, <2>1, <3>1
  <2>2. CASE to # WORD - 1
    <3>1. Inc(to) = to + 1 /\ to + 1 \in 0..WORD-1
      BY <1>0, <1>2, <2>2
    <3>2. Span(from, to + 1) = IF from <= to + 1 THEN to + 1 - from ELSE to + 1 - from + WORD
      BY <1>1, <3>1
    <3> QED
      BY <1>0, <1>1, <3>1, <3>2
  <2> QED
    BY <2>1, <2>2, Zenon
<1>6. Span(from, to) \in 0..WORD-1 /\ (Span(from, to) = 0 <=> from = to)
  BY <1>0, <1>1
<1>7. (from + Span(from, to)) % WORD = to
  <2>1. from + Span(from, to) = to \/ from + Span(from, to) = to + WORD
    BY <1>0, <1>1
  <2>2. to % WORD = to /\ (to + WORD) % WORD = to
    BY <1>0
  <2> QED
    BY <2>1, <2>2, Zenon
<1> QED
  BY <1>3, <1>4, <1>5, <1>6, <1>7, Zenon

\* Since NUM divides the width, a counter that wraps goes to the next slot all the same.
LEMMA SlotWraps ==
  ASSUME NEW x \in Nat, x < WORD + WORD
  PROVE  (x % WORD) % NUM = x % NUM
<1>0. NUM \in Nat \ {0} /\ WORD \in Nat \ {0} /\ WORD % NUM = 0
  BY VirtioAssumption, Zenon DEF VirtioAssumption
<1>a. WORD \in Nat \ {0}
  BY <1>0, Zenon
<1>1. CASE x < WORD
  <2>1. x % WORD = x
    BY <1>1, <1>a
  <2> QED
    BY <2>1, Zenon
<1>2. CASE x >= WORD
  <2>1. x % WORD = x - WORD
    BY <1>2, <1>a
  <2>2. (x - WORD) % NUM = x % NUM
    BY <1>0, <1>2, WrapKeepsSlot, Zenon
  <2> QED
    BY <2>1, <2>2, Zenon
<1>3. x < WORD \/ x >= WORD
  BY <1>a
<1> QED
  BY <1>1, <1>2, <1>3, Zenon

\* The slots between two counters that are no more than NUM apart: the first of them
\* goes when the reader moves on, and the slot after the last comes when the writer does.
LEMMA LiveFacts ==
  ASSUME NEW from \in 0..WORD-1, NEW to \in 0..WORD-1, Span(from, to) <= NUM
  PROVE  /\ from % NUM \in Desc /\ to % NUM \in Desc
         /\ Live(from, to) \subseteq Desc
         /\ from = to => Live(from, to) = {}
         /\ from # to => /\ from % NUM \in Live(from, to)
                         /\ Live(Inc(from), to) = Live(from, to) \ {from % NUM}
         /\ Span(from, to) < NUM => /\ to % NUM \notin Live(from, to)
                                    /\ Live(from, Inc(to)) = Live(from, to) \cup {to % NUM}
<1> DEFINE n == Span(from, to)
<1>1. n \in 0..WORD-1 /\ (n = 0 <=> from = to)
  BY SpanFacts, Zenon
<1>2. NUM \in Nat \ {0} /\ WORD \in Nat /\ NUM < WORD
  BY VirtioAssumption, Zenon DEF VirtioAssumption
<1>3. \A a \in 0..WORD-1, i \in 0..NUM : ((a + i) % WORD) % NUM = (a + i) % NUM
  <2>1. \A a \in 0..WORD-1, i \in 0..NUM : a + i \in Nat /\ a + i < WORD + WORD
    BY <1>2
  <2> QED
    BY <2>1, SlotWraps, Zenon
<1>4. \A x \in Nat : x % NUM \in Desc
  BY <1>2 DEF Desc
<1>5. \A i, j \in 0..NUM-1 : (from + i) % NUM = (from + j) % NUM => i = j
  <2> SUFFICES ASSUME NEW i \in 0..NUM-1, NEW j \in 0..NUM-1, i < j
               PROVE  (from + i) % NUM # (from + j) % NUM
    BY <1>2
  <2>1. from + i \in Nat /\ from + j \in Nat /\ from + i < from + j /\ from + j < from + i + NUM
    BY <1>2
  <2> QED
    BY <1>2, <2>1, SlotsDiffer, Zenon
<1>6. Live(from, to) = {(from + i) % NUM : i \in 0..n-1}
  <2>0. \A i \in 0..n-1 : i \in 0..NUM
    BY <1>1, <1>2
  <2>1. \A i \in 0..n-1 : ((from + i) % WORD) % NUM = (from + i) % NUM
    BY <1>3, <2>0, Zenon
  <2> QED
    BY <2>1, Zenon DEF Live
<1>7. (from + n) % NUM = to % NUM
  <2>1. (from + n) % WORD = to
    BY SpanFacts, Zenon
  <2> QED
    BY <1>1, <1>3, <2>1
<1> HIDE DEF n
<1>8. from % NUM \in Desc /\ to % NUM \in Desc /\ Live(from, to) \subseteq Desc
  BY <1>1, <1>2, <1>4, <1>6
<1>9. from = to => Live(from, to) = {}
  BY <1>1, <1>6
<1>10. ASSUME from # to
       PROVE  /\ from % NUM \in Live(from, to)
              /\ Live(Inc(from), to) = Live(from, to) \ {from % NUM}
  <2>1. n >= 1 /\ Span(Inc(from), to) = n - 1 /\ Inc(from) \in 0..WORD-1
    BY <1>1, <1>10, SpanFacts DEF n
  <2>2. from % NUM = (from + 0) % NUM
    OBVIOUS
  <2>3. from % NUM \in Live(from, to)
    BY <1>1, <1>6, <2>1, <2>2
  <2>4. \A i \in 0..NUM-1 : ((Inc(from) + i) % WORD) % NUM = (from + (i + 1)) % NUM
    <3>1. ASSUME NEW i \in 0..NUM-1
          PROVE  (Inc(from) + i) % WORD = (from + (i + 1)) % WORD
      BY <1>2 DEF Inc
    <3>2. \A i \in 0..NUM-1 : i \in 0..NUM /\ i + 1 \in 0..NUM
      BY <1>2
    <3> QED
      BY <1>3, <3>1, <3>2, Zenon
  <2>5. Live(Inc(from), to) = {(from + (i + 1)) % NUM : i \in 0..n-2}
    <3>1. 0..Span(Inc(from), to)-1 = 0..n-2 /\ \A i \in 0..n-2 : i \in 0..NUM-1
      BY <1>1, <1>2, <2>1 DEF n
    <3>2. \A i \in 0..n-2 : ((Inc(from) + i) % WORD) % NUM = (from + (i + 1)) % NUM
      BY <2>4, <3>1, Zenon
    <3> QED
      BY <3>1, <3>2, Zenon DEF Live
  <2>6. \A i \in 1..n-1 : (from + i) % NUM # from % NUM
    <3>1. 0 \in 0..NUM-1 /\ \A i \in 1..n-1 : i \in 0..NUM-1 /\ i # 0
      BY <1>1, <1>2 DEF n
    <3> QED
      BY <1>5, <2>2, <3>1, Zenon
  <2>7. ASSUME NEW x PROVE x \in Live(Inc(from), to) <=> x \in Live(from, to) /\ x # from % NUM
    <3>1. x \in Live(Inc(from), to) <=> \E i \in 1..n-1 : x = (from + i) % NUM
      <4>1. ASSUME NEW i \in 1..n-1
            PROVE  i - 1 \in 0..n-2 /\ (from + i) % NUM = (from + ((i - 1) + 1)) % NUM
        BY <1>1, <2>1
      <4>2. ASSUME NEW i \in 0..n-2 PROVE i + 1 \in 1..n-1
        BY <1>1, <2>1
      <4> QED
        BY <2>5, <4>1, <4>2, Zenon
    <3>2. x \in Live(from, to) <=> x = from % NUM \/ \E i \in 1..n-1 : x = (from + i) % NUM
      <4>1. \A i \in 0..n-1 : i = 0 \/ i \in 1..n-1
        BY <1>1
      <4>2. \A i \in 1..n-1 : i \in 0..n-1
        BY <1>1
      <4> QED
        BY <1>6, <2>2, <2>3, <4>1, <4>2, Zenon
    <3> QED
      BY <2>6, <3>1, <3>2, Zenon
  <2> QED
    BY <2>3, <2>7, Zenon
<1>11. ASSUME n < NUM
       PROVE  /\ to % NUM \notin Live(from, to)
              /\ Live(from, Inc(to)) = Live(from, to) \cup {to % NUM}
  <2>1. Span(from, Inc(to)) = n + 1 /\ Inc(to) \in 0..WORD-1
    BY <1>1, <1>2, <1>11, SpanFacts DEF n
  <2>2. n \in 0..NUM-1 /\ \A i \in 0..n-1 : i \in 0..NUM-1 /\ i # n
    BY <1>1, <1>2, <1>11
  <2>3. to % NUM \notin Live(from, to)
    BY <1>5, <1>6, <1>7, <2>2, Zenon
  <2>4. Live(from, Inc(to)) = {(from + i) % NUM : i \in 0..n}
    <3>0. \A i \in 0..n : i \in 0..NUM
      BY <1>2, <2>2
    <3>1. \A i \in 0..n : ((from + i) % WORD) % NUM = (from + i) % NUM
      BY <1>3, <3>0, Zenon
    <3>2. 0..n = 0..Span(from, Inc(to)) - 1
      BY <1>1, <2>1
    <3> QED
      BY <3>1, <3>2, Zenon DEF Live
  <2>5. 0..n = (0..n-1) \cup {n}
    BY <2>2
  <2> QED
    BY <1>6, <1>7, <2>3, <2>4, <2>5, Zenon
<1> QED
  BY <1>8, <1>9, <1>10, <1>11, Zenon DEF n

-----------------------------------------------------------------------------
(* Descriptors.                                                            *)

LEMMA DescFinite ==
  /\ IsFiniteSet(Desc) /\ Cardinality(Desc) = NUM /\ NUM \in Nat
  /\ \A S \in SUBSET Desc : IsFiniteSet(S) /\ Cardinality(S) \in Nat /\ Cardinality(S) <= NUM
<1>1. NUM \in Nat \ {0} /\ NUM - 1 \in Int /\ 0 \in Int
  BY VirtioAssumption DEF VirtioAssumption
<1>2. IsFiniteSet(0..NUM-1) /\ Cardinality(0..NUM-1) = NUM
  BY <1>1, FS_Interval
<1>3. IsFiniteSet(Desc) /\ Cardinality(Desc) = NUM
  BY <1>2, Zenon DEF Desc
<1>4. ASSUME NEW S \in SUBSET Desc
      PROVE  IsFiniteSet(S) /\ Cardinality(S) \in Nat /\ Cardinality(S) <= NUM
  BY <1>3, FS_Subset, FS_CardinalityType, Zenon
<1> QED
  BY <1>1, <1>3, <1>4, Zenon

\* The scan of alloc_desc() finds a free descriptor if there is one.
LEMMA AllocFacts == ASSUME NEW f \in SUBSET Desc, f # {} PROVE AllocDesc(f) \in f
<1> DEFINE R == OpToRel(<, Nat)
<1>1. f \subseteq Nat
  BY VirtioAssumption DEF VirtioAssumption, Desc
<1>2. IsWellFoundedOn(R, Nat)
  BY NatLessThanWellFounded, Zenon
<1>3. \A x, y \in Nat : y < x => <<y, x>> \in R
  BY Zenon DEF OpToRel
<1> HIDE DEF R
<1>4. PICK x \in f : \A y \in f : <<y, x>> \notin R
  BY <1>1, <1>2, WFMin, Zenon
<1>a. \A y \in f : ~(y < x)
  BY <1>1, <1>3, <1>4, Zenon
<1>b. \A m, n \in Nat : ~(m < n) => n <= m
  OBVIOUS
<1>5. \A y \in f : x <= y
  BY <1>1, <1>a, <1>b, Zenon
<1> QED
  BY <1>5, Zenon DEF AllocDesc, Min

\* Three of them, all different, if there are three.
LEMMA Alloc3Facts ==
  ASSUME NEW f \in SUBSET Desc, Cardinality(f) >= 3
  PROVE  LET a == AllocDesc(f)
             b == AllocDesc(f \ {a})
             c == AllocDesc(f \ {a, b})
         IN a \in f /\ b \in f /\ c \in f /\ a # b /\ a # c /\ b # c
<1> DEFINE a == AllocDesc(f)
           b == AllocDesc(f \ {a})
           c == AllocDesc(f \ {a, b})
<1>0. IsFiniteSet(f) /\ Cardinality(f) \in Nat
  BY DescFinite, FS_Subset, FS_CardinalityType, Zenon
<1>1. a \in f
  BY <1>0, FS_EmptySet, AllocFacts
<1>2. IsFiniteSet(f \ {a}) /\ Cardinality(f \ {a}) = Cardinality(f) - 1
  BY <1>0, <1>1, FS_RemoveElement, Zenon
<1>3. b \in f \ {a}
  BY <1>0, <1>2, FS_EmptySet, AllocFacts
<1> HIDE DEF a
<1>4. IsFiniteSet((f \ {a}) \ {b}) /\ Cardinality((f \ {a}) \ {b}) = Cardinality(f) - 2
  <2> HIDE DEF b
  <2>1. b \in f \ {a} /\ IsFiniteSet(f \ {a})
    BY <1>2, <1>3, Zenon
  <2>2. /\ IsFiniteSet((f \ {a}) \ {b})
        /\ Cardinality((f \ {a}) \ {b}) = Cardinality(f \ {a}) - 1
    BY <2>1, FS_RemoveElement, Zenon
  <2> QED
    BY <1>0, <1>2, <2>2
<1> HIDE DEF b
<1>5. (f \ {a}) \ {b} = f \ {a, b}
  OBVIOUS
<1>6. f \ {a, b} # {}
  BY <1>0, <1>4, <1>5, FS_EmptySet
<1>7. c \in f \ {a, b}
  BY <1>6, AllocFacts, Zenon
<1> HIDE DEF c
<1>8. a \in f /\ b \in f /\ c \in f /\ a # b /\ a # c /\ b # c
  BY <1>1, <1>3, <1>7, Zenon
<1> QED
  BY <1>8, Zenon DEF a, b, c

\* What the chain of a request is, as the handler and the device follow it.
LEMMA ChainFacts ==
  ASSUME ChainInv, NEW p \in Procs, Busy(p)
  PROVE  /\ Head(p) \in Desc /\ idx[p][2] \in Desc /\ idx[p][3] \in Desc
         /\ Head(p) # idx[p][2] /\ Head(p) # idx[p][3] /\ idx[p][2] # idx[p][3]
         /\ desc[Head(p)] = [op |-> call[p], buf |-> None, next |-> idx[p][2]]
         /\ desc[idx[p][2]] = [op |-> NoCall, buf |-> p, next |-> idx[p][3]]
         /\ desc[idx[p][3]] = NoDesc /\ info[Head(p)].b = p
         /\ Own(p) = {Head(p), idx[p][2], idx[p][3]} /\ Own(p) \cap free = {}
         /\ Chain(Head(p)) = Own(p)
<1>1. ChainOf(p)
  BY Zenon DEF ChainInv
<1>2. /\ Head(p) \in Desc /\ idx[p][2] \in Desc /\ idx[p][3] \in Desc
      /\ Head(p) # idx[p][2] /\ Head(p) # idx[p][3] /\ idx[p][2] # idx[p][3]
  BY <1>1, Zenon DEF ChainOf, Head
<1>3. /\ desc[Head(p)] = [op |-> call[p], buf |-> None, next |-> idx[p][2]]
      /\ desc[idx[p][2]] = [op |-> NoCall, buf |-> p, next |-> idx[p][3]]
      /\ desc[idx[p][3]] = NoDesc /\ info[Head(p)].b = p
      /\ Own(p) = {Head(p), idx[p][2], idx[p][3]} /\ Own(p) \cap free = {}
  BY <1>1, Zenon DEF ChainOf, Head, Own
<1>4. None \notin Desc
  BY VirtioAssumption DEF VirtioAssumption, Desc
<1>5. /\ desc[Head(p)].next = idx[p][2] /\ idx[p][2] # None
      /\ desc[idx[p][2]].next = idx[p][3] /\ idx[p][3] # None
  BY <1>2, <1>3, <1>4
<1>6. Chain(Head(p)) = Own(p)
  BY <1>3, <1>5, Zenon DEF Chain
<1> QED
  BY <1>2, <1>3, <1>6, Zenon

\* Two requests have different heads, and none of them is free.
LEMMA HeadFacts ==
  ASSUME ChainInv
  PROVE  /\ \A p, q \in Procs : Busy(p) /\ Busy(q) /\ Head(p) = Head(q) => p = q
         /\ WaitingHeads \subseteq Desc \ free
<1>1. \A p \in Procs : Busy(p) => Head(p) \in Own(p) /\ Head(p) \in Desc /\ Head(p) \notin free
  BY ChainFacts, Zenon
<1>2. \A p, q \in Procs : Busy(p) /\ Busy(q) /\ p # q => Own(p) \cap Own(q) = {}
  BY Zenon DEF ChainInv
<1> QED
  BY <1>1, <1>2 DEF WaitingHeads, Waiting

\* The rings have room: as many requests as heads, and a head that is not waiting
\* leaves one slot at least.
LEMMA RoomFacts ==
  ASSUME TypeOK, ChainInv, RingInv
  PROVE  /\ Span(fetched, avail.idx) \in Nat /\ Span(used_idx, used.idx) \in Nat
         /\ IsFiniteSet(inflight) /\ Cardinality(inflight) \in Nat
         /\ IsFiniteSet(WaitingHeads) /\ Cardinality(WaitingHeads) \in Nat
         /\ Cardinality(WaitingHeads) <= NUM /\ NUM \in Nat
         /\ Span(fetched, avail.idx) <= NUM /\ Span(used_idx, used.idx) <= NUM
         /\ \A h \in Desc \ WaitingHeads : Span(fetched, avail.idx) < NUM
         /\ inflight # {} => Span(used_idx, used.idx) < NUM
<1>1. /\ Span(fetched, avail.idx) \in Nat /\ Span(used_idx, used.idx) \in Nat
  <2>1. fetched \in 0..WORD-1 /\ avail.idx \in 0..WORD-1 /\ used_idx \in 0..WORD-1 /\ used.idx \in 0..WORD-1
    BY Zenon DEF TypeOK
  <2>2. \A n \in 0..WORD-1 : n \in Nat
    BY VirtioAssumption DEF VirtioAssumption
  <2>3. \A a, b \in 0..WORD-1 : Span(a, b) \in Nat
    BY <2>2, SpanFacts, Zenon
  <2> QED
    BY <2>1, <2>3, Zenon
<1>2. /\ IsFiniteSet(inflight) /\ Cardinality(inflight) \in Nat
      /\ IsFiniteSet(WaitingHeads) /\ Cardinality(WaitingHeads) \in Nat
      /\ Cardinality(WaitingHeads) <= NUM /\ NUM \in Nat
  BY HeadFacts, DescFinite, Zenon DEF TypeOK
<1>3. Span(fetched, avail.idx) + Cardinality(inflight) + Span(used_idx, used.idx)
        = Cardinality(WaitingHeads)
  BY Zenon DEF RingInv
<1>4. ASSUME NEW h \in Desc \ WaitingHeads PROVE Cardinality(WaitingHeads) < NUM
  BY <1>2, HeadFacts, DescFinite, FS_Subset
<1>5. inflight # {} => Cardinality(inflight) > 0
  BY <1>2, FS_EmptySet
<1> QED
  BY <1>1, <1>2, <1>3, <1>4, <1>5

\* The slots of both rings.
LEMMA SlotFacts ==
  ASSUME TypeOK, ChainInv, RingInv
  PROVE  /\ fetched \in 0..WORD-1 /\ avail.idx \in 0..WORD-1
         /\ used_idx \in 0..WORD-1 /\ used.idx \in 0..WORD-1
         /\ fetched % NUM \in Desc /\ avail.idx % NUM \in Desc
         /\ used_idx % NUM \in Desc /\ used.idx % NUM \in Desc
         /\ Live(fetched, avail.idx) \subseteq Desc /\ Live(used_idx, used.idx) \subseteq Desc
         /\ avail.ring \in [Desc -> Desc \cup {None}] /\ used.ring \in [Desc -> Desc \cup {None}]
<1>1. /\ fetched \in 0..WORD-1 /\ avail.idx \in 0..WORD-1
      /\ used_idx \in 0..WORD-1 /\ used.idx \in 0..WORD-1
      /\ avail.ring \in [Desc -> Desc \cup {None}] /\ used.ring \in [Desc -> Desc \cup {None}]
  BY Zenon DEF TypeOK
<1> QED
  BY <1>1, RoomFacts, LiveFacts, Zenon

-----------------------------------------------------------------------------
(* What a step leaves as it is.                                            *)

LEMMA ChainKept ==
  ASSUME ChainInv, UNCHANGED <<free, desc>>,
         \A p \in Procs : Busy(p)' <=> Busy(p),
         \A p \in Procs : Busy(p) => call'[p] = call[p] /\ idx'[p] = idx[p],
         \A i \in Desc : info'[i].b = info[i].b
  PROVE  ChainInv'
<1>1. \A p \in Procs : Busy(p) => Own(p)' = Own(p)
  BY Zenon DEF Own
<1>2. ASSUME NEW p \in Procs, Busy(p)' PROVE ChainOf(p)'
  <2>1. ChainOf(p) /\ idx'[p] = idx[p] /\ call'[p] = call[p] /\ Own(p)' = Own(p)
    BY <1>1, <1>2, Zenon DEF ChainInv
  <2>2. info'[idx[p][1]].b = p
    BY <2>1, Zenon DEF ChainOf
  <2> QED
    BY <2>1, <2>2, Zenon DEF ChainOf
<1>3. \A p, q \in Procs : Busy(p)' /\ Busy(q)' /\ p # q => Own(p)' \cap Own(q)' = {}
  BY <1>1, Zenon DEF ChainInv
<1>4. \A i \in Desc \ free' : \E p \in Procs : Busy(p)' /\ i \in Own(p)'
  BY <1>1 DEF ChainInv
<1> QED
  BY <1>2, <1>3, <1>4, Zenon DEF ChainInv

LEMMA WaitKept ==
  ASSUME \A p \in Procs : Waiting(p)' <=> Waiting(p),
         \A p \in Procs : Waiting(p) => idx'[p] = idx[p]
  PROVE  WaitingHeads' = WaitingHeads
  BY Zenon DEF WaitingHeads, Head

LEMMA RingKept ==
  ASSUME RingInv, WaitingHeads' = WaitingHeads,
         UNCHANGED <<avail, used, used_idx, fetched, inflight>>,
         \A p \in Procs : pc'[p] = "publish" => pc[p] = "publish" /\ idx'[p] = idx[p]
  PROVE  RingInv' /\ Offered' = Offered /\ Answers' = Answers
<1>1. Offered' = Offered /\ Answers' = Answers
  BY Zenon DEF Offered, Answers
<1>2. /\ Span(fetched, avail.idx)' = Span(fetched, avail.idx)
      /\ Span(used_idx, used.idx)' = Span(used_idx, used.idx)
      /\ Live(fetched, avail.idx)' = Live(fetched, avail.idx)
      /\ Live(used_idx, used.idx)' = Live(used_idx, used.idx)
  OBVIOUS
<1>3. \A p \in Procs : pc'[p] = "publish" => avail'.ring[avail'.idx % NUM] = Head(p)'
  BY Zenon DEF RingInv, Head
<1> QED
  BY <1>1, <1>2, <1>3, Zenon DEF RingInv

LEMMA StatusKept ==
  ASSUME StatusInv, Offered' = Offered, Answers' = Answers, UNCHANGED inflight,
         Offered \cup inflight \cup Answers \subseteq Desc,
         \A p \in Procs : Busy(p)' => Busy(p) /\ idx'[p] = idx[p] /\ Head(p) \in Desc,
         \A p \in Procs : pc'[p] = "publish" => pc[p] = "publish",
         \A p \in Procs : Busy(p)' /\ bdisk'[p] = 0 => bdisk[p] = 0,
         \A i \in Desc : info'[i].status = info[i].status
  PROVE  StatusInv'
<1>1. \A p \in Procs : Busy(p)' => Head(p)' = Head(p) /\ info'[Head(p)].status = info[Head(p)].status
  BY Zenon DEF Head
<1>2. \A h \in Offered \cup inflight \cup Answers : info'[h].status = info[h].status
  OBVIOUS
<1>3. \A p \in Procs : pc'[p] = "publish" => info'[Head(p)'].status = Unwritten
  BY <1>1, Zenon DEF StatusInv, Busy
<1>4. \A p \in Procs : Busy(p)' /\ bdisk'[p] = 0 => info'[Head(p)'].status = 0
  BY <1>1, Zenon DEF StatusInv
<1> QED
  BY <1>2, <1>3, <1>4, Zenon DEF StatusInv

LEMMA QuietKept ==
  ASSUME Inv, UNCHANGED <<free, desc, info, avail, used, used_idx, fetched, inflight, idx, bdisk>>,
         \A p \in Procs : /\ Busy(p)' <=> Busy(p)
                          /\ pc'[p] = "publish" <=> pc[p] = "publish"
                          /\ Busy(p) => call'[p] = call[p]
  PROVE  ChainInv' /\ RingInv' /\ StatusInv'
<1>1. ChainInv'
  BY ChainKept, Zenon DEF Inv
<1>2. WaitingHeads' = WaitingHeads
  BY WaitKept, Zenon DEF Waiting
<1>3. RingInv' /\ Offered' = Offered /\ Answers' = Answers
  BY <1>2, RingKept, Zenon DEF Inv
<1>4. Offered \cup inflight \cup Answers \subseteq Desc /\ \A p \in Procs : Busy(p) => Head(p) \in Desc
  BY HeadFacts, ChainFacts, Zenon DEF Inv, RingInv
<1>5. StatusInv'
  BY <1>3, <1>4, StatusKept, Zenon DEF Inv
<1> QED
  BY <1>1, <1>3, <1>5, Zenon

-----------------------------------------------------------------------------
(* virtio_disk_init() and the steps that touch neither chains nor rings.   *)

LEMMA InitInv == Init => Inv
<1> SUFFICES ASSUME Init PROVE Inv
  OBVIOUS
<1>0. /\ NUM \in Nat \ {0} /\ WORD \in Nat \ {0} /\ NUM < WORD /\ 0 \in 0..WORD-1 /\ Zero \in Val
      /\ None \notin Procs
  BY VirtioAssumption DEF VirtioAssumption
<1>1. TypeOK
  <2>1. NoCall \in [block : Blocks \cup {None}, write : BOOLEAN]
    BY Zenon DEF NoCall
  <2>2. NoDesc \in [op : [block : Blocks \cup {None}, write : BOOLEAN],
                    buf : Procs \cup {None}, next : Desc \cup {None}]
    BY <2>1, Zenon DEF NoDesc
  <2>3. /\ free \subseteq Desc /\ used_idx \in 0..WORD-1 /\ fetched \in 0..WORD-1
        /\ desc \in [Desc -> [op : [block : Blocks \cup {None}, write : BOOLEAN],
                              buf : Procs \cup {None}, next : Desc \cup {None}]]
        /\ info \in [Desc -> [b : Procs \cup {None}, status : {0, Unwritten}]]
    BY <1>0, <2>2, Zenon DEF Init
  <2>4. /\ avail \in [idx : 0..WORD-1, ring : [Desc -> Desc \cup {None}]]
        /\ used \in [idx : 0..WORD-1, ring : [Desc -> Desc \cup {None}]]
    BY <1>0, Zenon DEF Init
  <2>5. /\ call \in [Procs -> [block : Blocks \cup {None}, write : BOOLEAN]]
        /\ idx \in [Procs -> (Desc \X Desc \X Desc) \cup {<< >>}]
        /\ inflight \subseteq Desc /\ irq \in BOOLEAN /\ vdisk_lock \in Procs \cup {IntrHandler, None}
    BY <2>1, Zenon DEF Init
  <2>6. /\ bdisk \in [Procs -> {0, 1}] /\ data \in [Procs -> Val] /\ disk \in [Blocks -> Val]
        /\ pc \in [Procs -> {"idle", "want", "alloc", "nodesc", "publish", "wait", "asleep", "woken"}]
    BY <1>0, Zenon DEF Init
  <2> QED
    BY <2>3, <2>4, <2>5, <2>6, Zenon DEF TypeOK
<1>2. \A p \in Procs : pc[p] = "idle" /\ ~Busy(p) /\ call[p] = NoCall /\ bdisk[p] = 0
  BY Zenon DEF Init, Busy
<1>3. LockInv /\ CallInv /\ DescInv /\ NoLostInterrupt
  BY <1>0, <1>2, Zenon DEF Init, LockInv, CallInv, DescInv, NoLostInterrupt
<1>4. ChainInv
  BY <1>2, Zenon DEF Init, ChainInv
<1>5. WaitingHeads = {} /\ inflight = {}
  BY <1>2, Zenon DEF Init, WaitingHeads, Waiting
<1>6. Span(fetched, avail.idx) = 0 /\ Span(used_idx, used.idx) = 0
  BY <1>0, SpanFacts, Zenon DEF Init
<1>7. Live(fetched, avail.idx) = {} /\ Live(used_idx, used.idx) = {}
  BY <1>6 DEF Live
<1>8. Offered = {} /\ Answers = {}
  BY <1>7, Zenon DEF Offered, Answers
<1>9. RingInv /\ StatusInv
  BY <1>2, <1>5, <1>6, <1>7, <1>8, FS_EmptySet DEF RingInv, StatusInv
<1> QED
  BY <1>1, <1>3, <1>4, <1>9, Zenon DEF Inv

LEMMA CallStepInv ==
  ASSUME Inv, NEW p \in Procs, NEW k \in Blocks, NEW w \in BOOLEAN, NEW v \in Val,
         Call(p, k, w, v)
  PROVE  Inv'
<1>1. /\ UNCHANGED <<free, desc, info, avail, used, used_idx, fetched, inflight, idx, bdisk,
                     disk, irq, vdisk_lock>>
      /\ pc[p] = "idle" /\ pc'[p] = "want" /\ call'[p] = [block |-> k, write |-> w]
      /\ \A q \in Procs : q # p => pc'[q] = pc[q] /\ call'[q] = call[q]
  BY Zenon DEF Call, driverVars, deviceVars, Inv, TypeOK
<1>2. TypeOK'
  <2>1. /\ call' \in [Procs -> [block : Blocks \cup {None}, write : BOOLEAN]]
        /\ data' \in [Procs -> Val]
        /\ pc' \in [Procs -> {"idle", "want", "alloc", "nodesc", "publish", "wait", "asleep", "woken"}]
    BY Zenon DEF Call, Inv, TypeOK
  <2> QED
    BY <1>1, <2>1, Zenon DEF Inv, TypeOK
<1>3. \A q \in Procs : /\ Busy(q)' <=> Busy(q)
                       /\ pc'[q] = "publish" <=> pc[q] = "publish"
                       /\ Busy(q) => call'[q] = call[q]
  BY <1>1, Zenon DEF Busy
<1>4. ChainInv' /\ RingInv' /\ StatusInv'
  BY <1>1, <1>3, QuietKept, Zenon
<1>5. LockInv'
  BY <1>1, Zenon DEF LockInv, Inv
<1>6. CallInv'
  BY <1>1, <1>3 DEF CallInv, Inv
<1>7. DescInv' /\ NoLostInterrupt'
  BY <1>1, Zenon DEF DescInv, NoLostInterrupt, Inv
<1> QED
  BY <1>2, <1>4, <1>5, <1>6, <1>7, Zenon DEF Inv

LEMMA AcquireInv == ASSUME Inv, NEW p \in Procs, Acquire(p) PROVE Inv'
<1>1. /\ UNCHANGED <<free, desc, info, avail, used, used_idx, fetched, inflight, idx, bdisk,
                     disk, data, irq, call>>
      /\ vdisk_lock = None /\ vdisk_lock' = p
      /\ (pc[p] = "want" /\ pc'[p] = "alloc") \/ (pc[p] = "woken" /\ pc'[p] = "wait")
      /\ \A q \in Procs : q # p => pc'[q] = pc[q]
  BY Zenon DEF Acquire, driverVars, deviceVars, Inv, TypeOK
<1>2. TypeOK'
  <2>1. pc' \in [Procs -> {"idle", "want", "alloc", "nodesc", "publish", "wait", "asleep", "woken"}]
    BY Zenon DEF Acquire, Inv, TypeOK
  <2> QED
    BY <1>1, <2>1, Zenon DEF Inv, TypeOK
<1>3. \A q \in Procs : /\ Busy(q)' <=> Busy(q)
                       /\ pc'[q] = "publish" <=> pc[q] = "publish"
                       /\ Busy(q) => call'[q] = call[q]
  BY <1>1, Zenon DEF Busy
<1>4. ChainInv' /\ RingInv' /\ StatusInv'
  BY <1>1, <1>3, QuietKept, Zenon
<1>5. LockInv'
  BY <1>1, VirtioAssumption, Zenon DEF LockInv, Inv, VirtioAssumption
<1>6. CallInv'
  BY <1>1, <1>3, Zenon DEF CallInv, Inv
<1>7. DescInv' /\ NoLostInterrupt'
  BY <1>1, VirtioAssumption, Zenon DEF DescInv, NoLostInterrupt, Inv, VirtioAssumption, IntrHandler
<1> QED
  BY <1>2, <1>4, <1>5, <1>6, <1>7, Zenon DEF Inv

LEMMA AllocFailsInv == ASSUME Inv, NEW p \in Procs, AllocFails(p) PROVE Inv'
<1>1. /\ UNCHANGED <<free, desc, info, avail, used, used_idx, fetched, inflight, idx, bdisk,
                     disk, data, irq, call>>
      /\ vdisk_lock' = None /\ Cardinality(free) < 3 /\ pc[p] = "alloc" /\ pc'[p] = "nodesc"
      /\ \A q \in Procs : q # p => pc'[q] = pc[q] \/ (pc[q] = "nodesc" /\ pc'[q] = "want")
  BY Zenon DEF AllocFails, WakeForDesc, driverVars, deviceVars, Inv, TypeOK
<1>2. TypeOK'
  <2>1. pc' \in [Procs -> {"idle", "want", "alloc", "nodesc", "publish", "wait", "asleep", "woken"}]
    BY Zenon DEF AllocFails, WakeForDesc, Inv, TypeOK
  <2> QED
    BY <1>1, <2>1, Zenon DEF Inv, TypeOK
<1>3. \A q \in Procs : /\ Busy(q)' <=> Busy(q)
                       /\ pc'[q] = "publish" <=> pc[q] = "publish"
                       /\ Busy(q) => call'[q] = call[q]
  BY <1>1, Zenon DEF Busy
<1>4. ChainInv' /\ RingInv' /\ StatusInv'
  BY <1>1, <1>3, QuietKept, Zenon
<1>5. LockInv'
  BY <1>1, VirtioAssumption, Zenon DEF LockInv, Inv, VirtioAssumption
<1>6. CallInv'
  BY <1>1, <1>3, Zenon DEF CallInv, Inv
<1>7. DescInv' /\ NoLostInterrupt'
  BY <1>1, VirtioAssumption, Zenon DEF DescInv, NoLostInterrupt, Inv, LockInv, VirtioAssumption, IntrHandler
<1> QED
  BY <1>2, <1>4, <1>5, <1>6, <1>7, Zenon DEF Inv

LEMMA SleepInv == ASSUME Inv, NEW p \in Procs, Sleep(p) PROVE Inv'
<1>1. /\ UNCHANGED <<free, desc, info, avail, used, used_idx, fetched, inflight, idx, bdisk,
                     disk, data, irq, call>>
      /\ vdisk_lock' = None /\ bdisk[p] = 1 /\ pc[p] = "wait" /\ pc'[p] = "asleep"
      /\ \A q \in Procs : q # p => pc'[q] = pc[q]
  BY Zenon DEF Sleep, driverVars, deviceVars, Inv, TypeOK
<1>2. TypeOK'
  <2>1. pc' \in [Procs -> {"idle", "want", "alloc", "nodesc", "publish", "wait", "asleep", "woken"}]
    BY Zenon DEF Sleep, Inv, TypeOK
  <2> QED
    BY <1>1, <2>1, Zenon DEF Inv, TypeOK
<1>3. \A q \in Procs : /\ Busy(q)' <=> Busy(q)
                       /\ pc'[q] = "publish" <=> pc[q] = "publish"
                       /\ Busy(q) => call'[q] = call[q]
  BY <1>1, Zenon DEF Busy
<1>4. ChainInv' /\ RingInv' /\ StatusInv'
  BY <1>1, <1>3, QuietKept, Zenon
<1>5. LockInv'
  BY <1>1, VirtioAssumption, Zenon DEF LockInv, Inv, VirtioAssumption
<1>6. CallInv'
  <2>1. CallInv
    BY Zenon DEF Inv
  <2>2. \A q \in Procs : /\ pc'[q] = "idle" <=> pc[q] = "idle"
                         /\ pc'[q] \in {"publish", "asleep"} => q = p \/ pc[q] \in {"publish", "asleep"}
    BY <1>1, Zenon
  <2> QED
    BY <1>1, <1>3, <2>1, <2>2, Zenon DEF CallInv
<1>7. DescInv' /\ NoLostInterrupt'
  BY <1>1, VirtioAssumption, Zenon DEF DescInv, NoLostInterrupt, Inv, LockInv, VirtioAssumption, IntrHandler
<1> QED
  BY <1>2, <1>4, <1>5, <1>6, <1>7, Zenon DEF Inv

\* The handler takes and gives back the lock.
LEMMA IntrLockInv == ASSUME Inv, IntrEnter \/ IntrExit PROVE Inv'
<1>1. /\ UNCHANGED <<free, desc, info, avail, used, used_idx, fetched, inflight, idx, bdisk,
                     disk, data, call, pc>>
      /\ vdisk_lock \notin Procs /\ vdisk_lock' \notin Procs
      /\ vdisk_lock' \in {IntrHandler, None} /\ irq' \in BOOLEAN
      /\ vdisk_lock' = IntrHandler \/ used_idx = used.idx
  BY VirtioAssumption, Zenon DEF IntrEnter, IntrExit, IntrDone, driverVars, deviceVars, Inv, TypeOK,
     VirtioAssumption, IntrHandler
<1>2. TypeOK'
  BY <1>1, Zenon DEF Inv, TypeOK
<1>3. \A q \in Procs : Busy(q)' <=> Busy(q)
  BY <1>1, Zenon DEF Busy
<1>4. ChainInv' /\ RingInv' /\ StatusInv'
  BY <1>1, <1>3, QuietKept, Zenon
<1>5. LockInv'
  BY <1>1, Zenon DEF LockInv, Inv
<1>6. CallInv'
  BY <1>1, <1>3, Zenon DEF CallInv, Inv
<1>7. DescInv' /\ NoLostInterrupt'
  BY <1>1, Zenon DEF DescInv, NoLostInterrupt, Inv
<1> QED
  BY <1>2, <1>4, <1>5, <1>6, <1>7, Zenon DEF Inv

-----------------------------------------------------------------------------
(* The avail ring.                                                         *)

\* The request that is about to be published waits nowhere yet, and there is room.
LEMMA PublishFacts ==
  ASSUME Inv, NEW p \in Procs, pc[p] = "publish"
  PROVE  /\ Busy(p) /\ Head(p) \in Desc /\ Head(p) \notin WaitingHeads
         /\ Span(fetched, avail.idx) < NUM
         /\ avail.idx % NUM \notin Live(fetched, avail.idx)
<1>1. Busy(p) /\ ~Waiting(p)
  BY Zenon DEF Busy, Waiting
<1>2. Head(p) \in Desc
  BY <1>1, ChainFacts, Zenon DEF Inv
<1>3. Head(p) \notin WaitingHeads
  BY <1>1, HeadFacts, Zenon DEF Inv, WaitingHeads, Waiting
<1>4. Span(fetched, avail.idx) < NUM
  BY <1>2, <1>3, RoomFacts, Zenon DEF Inv
<1>5. Span(fetched, avail.idx) <= NUM
  BY RoomFacts, Zenon DEF Inv
<1>6. avail.idx % NUM \notin Live(fetched, avail.idx)
  BY <1>4, <1>5, SlotFacts, LiveFacts, Zenon DEF Inv
<1> QED
  BY <1>1, <1>2, <1>3, <1>4, <1>6, Zenon

LEMMA PublishInv == ASSUME Inv, NEW p \in Procs, Publish(p) PROVE Inv'
<1>1. /\ UNCHANGED <<free, desc, info, used, used_idx, fetched, inflight, idx, bdisk, disk,
                     data, irq, call, vdisk_lock>>
      /\ avail'.idx = Inc(avail.idx) /\ avail'.ring = avail.ring
      /\ pc[p] = "publish" /\ pc'[p] = "wait" /\ bdisk[p] = 1
      /\ \A q \in Procs : q # p => pc'[q] = pc[q]
  BY Zenon DEF Publish, deviceVars, Inv, TypeOK, CallInv
<1> DEFINE h == Head(p)
           s == avail.idx % NUM
<1>2. Busy(p) /\ h \in Desc /\ h \notin WaitingHeads /\ s \notin Live(fetched, avail.idx)
  BY <1>1, PublishFacts, Zenon
<1>3. /\ Live(fetched, Inc(avail.idx)) = Live(fetched, avail.idx) \cup {s}
      /\ Inc(avail.idx) \in 0..WORD-1
      /\ Span(fetched, Inc(avail.idx)) = Span(fetched, avail.idx) + 1
  <2>1. Span(fetched, avail.idx) < NUM /\ Span(fetched, avail.idx) <= NUM
        /\ Span(fetched, avail.idx) \in Nat
    BY <1>1, PublishFacts, RoomFacts, Zenon DEF Inv
  <2>2. Span(fetched, avail.idx) < WORD - 1
    BY <2>1, VirtioAssumption DEF VirtioAssumption
  <2>3. fetched \in 0..WORD-1 /\ avail.idx \in 0..WORD-1
    BY SlotFacts, Zenon DEF Inv
  <2> QED
    BY <2>1, <2>2, <2>3, SpanFacts, LiveFacts, Zenon
<1>4. TypeOK'
  <2>1. avail' \in [idx : 0..WORD-1, ring : [Desc -> Desc \cup {None}]]
    BY <1>3, Zenon DEF Publish, Inv, TypeOK
  <2>2. pc' \in [Procs -> {"idle", "want", "alloc", "nodesc", "publish", "wait", "asleep", "woken"}]
    BY Zenon DEF Publish, Inv, TypeOK
  <2> QED
    BY <1>1, <2>1, <2>2, Zenon DEF Inv, TypeOK
<1>5. \A q \in Procs : (Busy(q)' <=> Busy(q)) /\ Own(q)' = Own(q) /\ Head(q)' = Head(q)
  BY <1>1, Zenon DEF Busy, Own, Head
<1>6. ChainInv'
  BY <1>1, <1>5, ChainKept, Zenon DEF Inv
<1>7. WaitingHeads' = WaitingHeads \cup {h}
  <2>1. \A q \in Procs : Waiting(q)' <=> (Waiting(q) \/ q = p)
    BY <1>1, <1>2, <1>5, Zenon DEF Waiting
  <2> QED
    BY <1>5, <2>1, Zenon DEF WaitingHeads
<1>8. Cardinality(WaitingHeads') = Cardinality(WaitingHeads) + 1
  BY <1>2, <1>7, RoomFacts, FS_AddElement, Zenon DEF Inv
<1>9. avail.ring[s] = h
  BY <1>1, Zenon DEF Inv, RingInv
<1>10. Offered' = Offered \cup {h} /\ Answers' = Answers
  BY <1>1, <1>3, <1>9, Zenon DEF Offered, Answers
<1>11. Offered \cup inflight \cup Answers = WaitingHeads /\ Offered \cap inflight = {}
  BY Zenon DEF Inv, RingInv
<1>12. RingInv'
  <2>1. /\ Offered' \cup inflight' \cup Answers' = WaitingHeads'
        /\ Offered' \cap inflight' = {}
    BY <1>1, <1>2, <1>7, <1>10, <1>11, Zenon
  <2>2. Span(fetched', avail'.idx) + Cardinality(inflight') + Span(used_idx', used'.idx)
          = Cardinality(WaitingHeads')
    BY <1>1, <1>3, <1>8, RoomFacts DEF Inv, RingInv
  <2>3. \A t, u \in Live(fetched, avail.idx) \cup {s} : avail.ring[t] = avail.ring[u] => t = u
    <3>1. \A t \in Live(fetched, avail.idx) : avail.ring[t] # h
      BY <1>2, <1>11, Zenon DEF Offered
    <3> QED
      BY <1>9, <3>1, Zenon DEF Inv, RingInv
  <2>4. \A t, u \in Live(used_idx', used'.idx) : used'.ring[t] = used'.ring[u] => t = u
    BY <1>1, Zenon DEF Inv, RingInv
  <2>5. \A q \in Procs : pc'[q] # "publish"
    BY <1>1, VirtioAssumption, Zenon DEF Inv, LockInv, VirtioAssumption
  <2> QED
    BY <1>1, <1>3, <2>1, <2>2, <2>3, <2>4, <2>5 DEF RingInv
<1>13. StatusInv'
  BY <1>1, <1>5, <1>10, Zenon DEF Inv, StatusInv
<1>14. LockInv' /\ DescInv' /\ NoLostInterrupt'
  BY <1>1, Zenon DEF Inv, LockInv, DescInv, NoLostInterrupt
<1>15. CallInv'
  BY <1>1, <1>5, Zenon DEF Inv, CallInv
<1> QED
  BY <1>4, <1>6, <1>12, <1>13, <1>14, <1>15, Zenon DEF Inv

LEMMA DeviceFetchInv == ASSUME Inv, DeviceFetch PROVE Inv'
<1> DEFINE s == fetched % NUM
           h == avail.ring[s]
<1>1. /\ UNCHANGED <<free, desc, info, used, used_idx, idx, bdisk, disk, data, irq, call, pc,
                     vdisk_lock>>
      /\ fetched # avail.idx /\ fetched' = Inc(fetched) /\ inflight' = inflight \cup {h}
      /\ avail'.idx = avail.idx /\ avail'.ring = [avail.ring EXCEPT ![s] = None]
  BY Zenon DEF DeviceFetch, Inv, TypeOK
<1>2. /\ Live(Inc(fetched), avail.idx) = Live(fetched, avail.idx) \ {s}
      /\ s \in Live(fetched, avail.idx) /\ Inc(fetched) \in 0..WORD-1
      /\ Span(Inc(fetched), avail.idx) = Span(fetched, avail.idx) - 1
  <2>1. Span(fetched, avail.idx) <= NUM /\ fetched \in 0..WORD-1 /\ avail.idx \in 0..WORD-1
    BY RoomFacts, SlotFacts, Zenon DEF Inv
  <2>2. Inc(fetched) \in 0..WORD-1 /\ Span(Inc(fetched), avail.idx) = Span(fetched, avail.idx) - 1
    BY <1>1, <2>1, SpanFacts
  <2>3. /\ fetched % NUM \in Live(fetched, avail.idx)
        /\ Live(Inc(fetched), avail.idx) = Live(fetched, avail.idx) \ {fetched % NUM}
    BY <1>1, <2>1, LiveFacts, Zenon
  <2> QED
    BY <2>2, <2>3, Zenon
<1>3. /\ Live(fetched, avail.idx) \subseteq Desc /\ avail.ring \in [Desc -> Desc \cup {None}]
      /\ \A t \in Desc : t # s => avail'.ring[t] = avail.ring[t]
  BY <1>1, SlotFacts, Zenon DEF Inv
<1>4. Offered \cup inflight \cup Answers = WaitingHeads /\ Offered \cap inflight = {}
  BY Zenon DEF Inv, RingInv
<1>5. h \in Offered /\ h \notin inflight /\ h \in Desc
  <2>1. h \in Offered
    BY <1>2, Zenon DEF Offered
  <2> QED
    BY <1>4, <2>1, HeadFacts, Zenon DEF Inv
<1>6. TypeOK'
  <2>1. avail' \in [idx : 0..WORD-1, ring : [Desc -> Desc \cup {None}]]
    BY Zenon DEF DeviceFetch, Inv, TypeOK
  <2> QED
    BY <1>1, <1>2, <1>5, <2>1, Zenon DEF Inv, TypeOK
<1>7. \A q \in Procs : (Busy(q)' <=> Busy(q)) /\ (Waiting(q)' <=> Waiting(q)) /\ Head(q)' = Head(q)
  BY <1>1, Zenon DEF Busy, Head, Waiting
<1>8. ChainInv'
  BY <1>1, <1>7, ChainKept, Zenon DEF Inv
<1>9. WaitingHeads' = WaitingHeads
  BY <1>1, <1>7, WaitKept, Zenon
<1>10. Offered' = Offered \ {h} /\ Answers' = Answers
  <2>1. \A t, u \in Live(fetched, avail.idx) : avail.ring[t] = avail.ring[u] => t = u
    BY Zenon DEF Inv, RingInv
  <2>2. Offered' = {avail'.ring[t] : t \in Live(fetched, avail.idx) \ {s}}
    BY <1>1, <1>2, Zenon DEF Offered
  <2>3. \A t \in Live(fetched, avail.idx) \ {s} : avail'.ring[t] = avail.ring[t] /\ avail.ring[t] # h
    BY <1>2, <1>3, <2>1, Zenon
  <2>4. Offered = {avail.ring[t] : t \in Live(fetched, avail.idx)}
    BY Zenon DEF Offered
  <2> HIDE DEF h, s
  <2>5. Offered' = Offered \ {h}
    BY <2>2, <2>3, <2>4, Zenon DEF h
  <2> QED
    BY <1>1, <2>5, Zenon DEF Answers
<1>11. RingInv'
  <2>1. /\ Offered' \cup inflight' \cup Answers' = WaitingHeads'
        /\ Offered' \cap inflight' = {}
    BY <1>1, <1>4, <1>5, <1>9, <1>10, Zenon
  <2>2. Cardinality(inflight') = Cardinality(inflight) + 1
    BY <1>1, <1>5, RoomFacts, FS_AddElement, Zenon DEF Inv
  <2>3. Span(fetched', avail'.idx) + Cardinality(inflight') + Span(used_idx', used'.idx)
          = Cardinality(WaitingHeads')
    BY <1>1, <1>2, <1>9, <2>2, RoomFacts DEF Inv, RingInv
  <2>4. \A t, u \in Live(fetched', avail'.idx) : avail'.ring[t] = avail'.ring[u] => t = u
    BY <1>1, <1>2, <1>3, Zenon DEF Inv, RingInv
  <2>5. \A t, u \in Live(used_idx', used'.idx) : used'.ring[t] = used'.ring[u] => t = u
    BY <1>1, Zenon DEF Inv, RingInv
  <2>6. ASSUME NEW q \in Procs, pc'[q] = "publish" PROVE avail'.ring[avail'.idx % NUM] = Head(q)'
    <3>1. pc[q] = "publish" /\ avail.ring[avail.idx % NUM] = Head(q)
      BY <1>1, <2>6, Zenon DEF Inv, RingInv
    <3>2. avail.idx % NUM # s /\ avail.idx % NUM \in Desc
      BY <1>2, <3>1, PublishFacts, SlotFacts, Zenon DEF Inv
    <3> QED
      BY <1>1, <1>3, <1>7, <3>1, <3>2, Zenon
  <2> QED
    BY <2>1, <2>3, <2>4, <2>5, <2>6, Zenon DEF RingInv
<1>12. StatusInv'
  BY <1>1, <1>5, <1>7, <1>10, Zenon DEF Inv, StatusInv
<1>13. LockInv' /\ DescInv' /\ NoLostInterrupt' /\ CallInv'
  BY <1>1, <1>7, Zenon DEF Inv, LockInv, DescInv, NoLostInterrupt, CallInv
<1> QED
  BY <1>6, <1>8, <1>11, <1>12, <1>13, Zenon DEF Inv

-----------------------------------------------------------------------------
(* The used ring.                                                          *)

\* The device's view of a request leads to the caller, its block and its buffer.
LEMMA WaiterFacts ==
  ASSUME Inv, NEW h \in WaitingHeads
  PROVE  \E p \in Procs :
           /\ Waiting(p) /\ Busy(p) /\ bdisk[p] = 1 /\ Head(p) = h /\ h \in Desc
           /\ info[h].b = p /\ desc[h].op = call[p] /\ desc[desc[h].next].buf = p
           /\ call[p].block \in Blocks
<1>1. PICK p \in Procs : Waiting(p) /\ Head(p) = h
  BY Zenon DEF WaitingHeads
<1>2. Busy(p) /\ bdisk[p] = 1 /\ pc[p] # "idle"
  BY <1>1, Zenon DEF Waiting, Busy
<1>3. h \in Desc /\ info[h].b = p /\ desc[h].op = call[p] /\ desc[desc[h].next].buf = p
  <2>1. /\ Head(p) \in Desc /\ info[Head(p)].b = p
        /\ desc[Head(p)] = [op |-> call[p], buf |-> None, next |-> idx[p][2]]
        /\ desc[idx[p][2]] = [op |-> NoCall, buf |-> p, next |-> idx[p][3]]
    BY <1>2, ChainFacts, Zenon DEF Inv
  <2>2. desc[Head(p)].op = call[p] /\ desc[Head(p)].next = idx[p][2] /\ desc[idx[p][2]].buf = p
    BY <2>1
  <2> QED
    BY <1>1, <2>1, <2>2, Zenon
<1>4. call[p].block \in Blocks
  BY <1>2, Zenon DEF Inv, CallInv
<1> QED
  BY <1>1, <1>2, <1>3, <1>4, Zenon

LEMMA DeviceCompleteInv == ASSUME Inv, NEW h \in Desc, DeviceComplete(h) PROVE Inv'
<1> DEFINE s == used.idx % NUM
<1>1. /\ UNCHANGED <<free, desc, avail, used_idx, fetched, idx, bdisk, call, pc, vdisk_lock>>
      /\ h \in inflight /\ inflight' = inflight \ {h} /\ irq' = TRUE
      /\ used'.idx = Inc(used.idx) /\ used'.ring = [used.ring EXCEPT ![s] = h]
      /\ \A i \in Desc : info'[i].b = info[i].b
      /\ info'[h].status = 0 /\ \A i \in Desc : i # h => info'[i].status = info[i].status
  BY DEF DeviceComplete, Inv, TypeOK
<1>2. Offered \cup inflight \cup Answers = WaitingHeads /\ Offered \cap inflight = {}
  BY Zenon DEF Inv, RingInv
<1>3. h \in WaitingHeads /\ h \notin Answers /\ h \notin Offered
  <2>1. Unwritten # 0 /\ info[h].status = Unwritten /\ \A x \in Answers : info[x].status = 0
    BY <1>1 DEF Inv, StatusInv, Unwritten
  <2> QED
    BY <1>1, <1>2, <2>1, Zenon
<1>4. /\ Live(used_idx, Inc(used.idx)) = Live(used_idx, used.idx) \cup {s}
      /\ s \notin Live(used_idx, used.idx)
      /\ Inc(used.idx) \in 0..WORD-1 /\ Span(used_idx, Inc(used.idx)) = Span(used_idx, used.idx) + 1
  <2>1. Span(used_idx, used.idx) < NUM /\ Span(used_idx, used.idx) <= NUM
        /\ Span(used_idx, used.idx) \in Nat
    BY <1>1, RoomFacts, Zenon DEF Inv
  <2>2. Span(used_idx, used.idx) < WORD - 1
    BY <2>1, VirtioAssumption DEF VirtioAssumption
  <2>3. used_idx \in 0..WORD-1 /\ used.idx \in 0..WORD-1
    BY SlotFacts, Zenon DEF Inv
  <2> QED
    BY <2>1, <2>2, <2>3, SpanFacts, LiveFacts, Zenon
<1>5. TypeOK'
  <2>1. PICK p \in Procs : p = desc[desc[h].next].buf /\ desc[h].op.block \in Blocks
    BY <1>3, WaiterFacts, Zenon
  <2>a. PICK k \in Blocks : k = desc[h].op.block
    BY <2>1, Zenon
  <2>b. data \in [Procs -> Val] /\ disk \in [Blocks -> Val]
    BY Zenon DEF Inv, TypeOK
  <2>c. \/ disk' = [disk EXCEPT ![k] = data[p]] /\ data' = data
        \/ data' = [data EXCEPT ![p] = disk[k]] /\ disk' = disk
    BY <2>1, <2>a, Zenon DEF DeviceComplete
  <2>2. data' \in [Procs -> Val] /\ disk' \in [Blocks -> Val]
    BY <2>b, <2>c, Zenon
  <2>3. info' \in [Desc -> [b : Procs \cup {None}, status : {0, Unwritten}]]
    <3>1. /\ info \in [Desc -> [b : Procs \cup {None}, status : {0, Unwritten}]]
          /\ info' = [info EXCEPT ![h].status = 0]
      BY Zenon DEF DeviceComplete, Inv, TypeOK
    <3>2. [info[h] EXCEPT !.status = 0] \in [b : Procs \cup {None}, status : {0, Unwritten}]
      BY <3>1, Zenon
    <3> QED
      BY <3>1, <3>2, Zenon
  <2>4. used' \in [idx : 0..WORD-1, ring : [Desc -> Desc \cup {None}]]
    BY <1>4, Zenon DEF DeviceComplete, Inv, TypeOK
  <2> QED
    BY <1>1, <2>2, <2>3, <2>4, Zenon DEF Inv, TypeOK
<1>6. \A q \in Procs : (Busy(q)' <=> Busy(q)) /\ (Waiting(q)' <=> Waiting(q)) /\ Head(q)' = Head(q)
  BY <1>1, Zenon DEF Busy, Head, Waiting
<1>7. ChainInv'
  BY <1>1, <1>6, ChainKept, Zenon DEF Inv
<1>8. WaitingHeads' = WaitingHeads
  BY <1>1, <1>6, WaitKept, Zenon
<1>9. s \in Desc /\ Live(used_idx, used.idx) \subseteq Desc /\ used.ring \in [Desc -> Desc \cup {None}]
  BY SlotFacts, Zenon DEF Inv
<1>10. used'.ring[s] = h /\ \A t \in Live(used_idx, used.idx) : used'.ring[t] = used.ring[t]
  BY <1>1, <1>4, <1>9, Zenon
<1>11. Answers' = Answers \cup {h} /\ Offered' = Offered
  <2>1. Answers' = {used'.ring[t] : t \in Live(used_idx, used.idx) \cup {s}}
    BY <1>1, <1>4, Zenon DEF Answers
  <2>2. Answers = {used.ring[t] : t \in Live(used_idx, used.idx)}
    BY Zenon DEF Answers
  <2> HIDE DEF s
  <2>3. Answers' = Answers \cup {h}
    BY <1>10, <2>1, <2>2, Zenon
  <2> QED
    BY <1>1, <2>3, Zenon DEF Offered
<1>12. RingInv'
  <2>1. /\ Offered' \cup inflight' \cup Answers' = WaitingHeads'
        /\ Offered' \cap inflight' = {}
    BY <1>1, <1>2, <1>3, <1>8, <1>11, Zenon
  <2>2. Cardinality(inflight') = Cardinality(inflight) - 1
    BY <1>1, RoomFacts, FS_RemoveElement, Zenon DEF Inv
  <2>3. Span(fetched', avail'.idx) + Cardinality(inflight') + Span(used_idx', used'.idx)
          = Cardinality(WaitingHeads')
    BY <1>1, <1>4, <1>8, <2>2, RoomFacts DEF Inv, RingInv
  <2>4. \A t, u \in Live(fetched', avail'.idx) : avail'.ring[t] = avail'.ring[u] => t = u
    BY <1>1, Zenon DEF Inv, RingInv
  <2>5. \A t, u \in Live(used_idx, used.idx) \cup {s} : used'.ring[t] = used'.ring[u] => t = u
    <3>1. \A t \in Live(used_idx, used.idx) : used.ring[t] # h
      BY <1>3, Zenon DEF Answers
    <3> QED
      BY <1>10, <3>1, Zenon DEF Inv, RingInv
  <2>6. \A q \in Procs : pc'[q] = "publish" => avail'.ring[avail'.idx % NUM] = Head(q)'
    BY <1>1, <1>6, Zenon DEF Inv, RingInv
  <2> QED
    BY <1>1, <1>4, <2>1, <2>3, <2>4, <2>5, <2>6, Zenon DEF RingInv
<1>13. StatusInv'
  <2>1. PICK p \in Procs : Waiting(p) /\ Busy(p) /\ bdisk[p] = 1 /\ Head(p) = h
    BY <1>3, WaiterFacts, Zenon
  <2>2. \A q \in Procs : pc'[q] = "publish" => info'[Head(q)'].status = Unwritten
    <3>1. ASSUME NEW q \in Procs, pc[q] = "publish" PROVE Head(q) \in Desc /\ Head(q) # h
      BY <1>3, <3>1, PublishFacts, Zenon
    <3>2. \A q \in Procs : pc[q] = "publish" => info[Head(q)].status = Unwritten
      BY Zenon DEF Inv, StatusInv
    <3> QED
      BY <1>1, <1>6, <3>1, <3>2
  <2>3. \A q \in Procs : Busy(q)' /\ bdisk'[q] = 0 => info'[Head(q)'].status = 0
    <3>1. ASSUME NEW q \in Procs, Busy(q), bdisk[q] = 0 PROVE Head(q) \in Desc /\ Head(q) # h
      BY <2>1, <3>1, HeadFacts, ChainFacts, Zenon DEF Inv
    <3> QED
      BY <1>1, <1>6, <3>1 DEF Inv, StatusInv
  <2>4. \A x \in Offered' \cup inflight' : info'[x].status = Unwritten
    <3>1. \A x \in Offered' \cup inflight' : x \in Offered \cup inflight /\ x # h /\ x \in Desc
      BY <1>1, <1>2, <1>3, <1>11, HeadFacts, Zenon DEF Inv
    <3> QED
      BY <1>1, <3>1, Zenon DEF Inv, StatusInv
  <2>5. \A x \in Answers' : info'[x].status = 0
    <3>1. \A x \in Answers' : x = h \/ (x \in Answers /\ x # h /\ x \in Desc)
      BY <1>2, <1>3, <1>11, HeadFacts, Zenon DEF Inv
    <3> QED
      BY <1>1, <3>1, Zenon DEF Inv, StatusInv
  <2> QED
    BY <2>2, <2>3, <2>4, <2>5, Zenon DEF StatusInv
<1>14. LockInv' /\ DescInv' /\ NoLostInterrupt' /\ CallInv'
  BY <1>1, <1>6, Zenon DEF Inv, LockInv, DescInv, NoLostInterrupt, CallInv
<1> QED
  BY <1>5, <1>7, <1>12, <1>13, <1>14, Zenon DEF Inv

LEMMA IntrEntryInv == ASSUME Inv, IntrEntry PROVE Inv'
<1> DEFINE s == used_idx % NUM
           h == used.ring[s]
<1>1. /\ UNCHANGED <<free, desc, info, avail, disk, fetched, inflight, irq, vdisk_lock, data,
                     call, idx>>
      /\ used_idx # used.idx /\ used_idx' = Inc(used_idx) /\ vdisk_lock = IntrHandler
      /\ used'.idx = used.idx /\ used'.ring = [used.ring EXCEPT ![s] = None]
  BY Zenon DEF IntrEntry, Inv, TypeOK
<1>2. /\ Live(Inc(used_idx), used.idx) = Live(used_idx, used.idx) \ {s}
      /\ s \in Live(used_idx, used.idx) /\ Inc(used_idx) \in 0..WORD-1
      /\ Span(Inc(used_idx), used.idx) = Span(used_idx, used.idx) - 1
  <2>1. Span(used_idx, used.idx) <= NUM /\ used_idx \in 0..WORD-1 /\ used.idx \in 0..WORD-1
    BY RoomFacts, SlotFacts, Zenon DEF Inv
  <2>2. Inc(used_idx) \in 0..WORD-1 /\ Span(Inc(used_idx), used.idx) = Span(used_idx, used.idx) - 1
    BY <1>1, <2>1, SpanFacts, Zenon
  <2>3. /\ used_idx % NUM \in Live(used_idx, used.idx)
        /\ Live(Inc(used_idx), used.idx) = Live(used_idx, used.idx) \ {used_idx % NUM}
    BY <1>1, <2>1, LiveFacts, Zenon
  <2> QED
    BY <2>2, <2>3, Zenon
<1>3. /\ Live(used_idx, used.idx) \subseteq Desc /\ used.ring \in [Desc -> Desc \cup {None}]
      /\ \A t \in Desc : t # s => used'.ring[t] = used.ring[t]
  BY <1>1, SlotFacts, Zenon DEF Inv
<1>4. Offered \cup inflight \cup Answers = WaitingHeads /\ Offered \cap inflight = {}
  BY Zenon DEF Inv, RingInv
<1>5. h \in Answers /\ h \in WaitingHeads /\ h \notin Offered /\ h \notin inflight
  <2>1. h \in Answers
    BY <1>2, Zenon DEF Answers
  <2>2. Unwritten # 0 /\ info[h].status = 0 /\ \A x \in Offered \cup inflight : info[x].status = Unwritten
    BY <2>1 DEF Inv, StatusInv, Unwritten
  <2> QED
    BY <1>4, <2>1, <2>2, Zenon
<1>6. PICK p \in Procs : Waiting(p) /\ Busy(p) /\ bdisk[p] = 1 /\ Head(p) = h /\ info[h].b = p
  BY <1>5, WaiterFacts, Zenon
<1>7. /\ bdisk'[p] = 0 /\ \A q \in Procs : q # p => bdisk'[q] = bdisk[q] /\ pc'[q] = pc[q]
      /\ pc'[p] = IF pc[p] = "asleep" THEN "woken" ELSE pc[p]
  BY <1>6, Zenon DEF IntrEntry, Inv, TypeOK
<1>8. TypeOK'
  <2>1. used' \in [idx : 0..WORD-1, ring : [Desc -> Desc \cup {None}]]
    BY Zenon DEF IntrEntry, Inv, TypeOK
  <2>2. /\ bdisk' \in [Procs -> {0, 1}]
        /\ pc' \in [Procs -> {"idle", "want", "alloc", "nodesc", "publish", "wait", "asleep", "woken"}]
    BY <1>6, Zenon DEF IntrEntry, Inv, TypeOK
  <2> QED
    BY <1>1, <1>2, <2>1, <2>2, Zenon DEF Inv, TypeOK
<1>9. \A q \in Procs : /\ Busy(q)' <=> Busy(q)
                       /\ Head(q)' = Head(q) /\ (pc'[q] = "publish" <=> pc[q] = "publish")
                       /\ Waiting(q)' <=> Waiting(q) /\ q # p
  BY <1>1, <1>6, <1>7 DEF Busy, Head, Waiting
<1>10. ChainInv'
  BY <1>1, <1>9, ChainKept, Zenon DEF Inv
<1>11. WaitingHeads' = WaitingHeads \ {h}
  <2>1. \A q \in Procs : Waiting(q) /\ q # p => Head(q) # h
    BY <1>6, HeadFacts, Zenon DEF Inv, Waiting
  <2> HIDE DEF h
  <2> QED
    BY <1>6, <1>9, <2>1 DEF WaitingHeads
<1>12. Answers' = Answers \ {h} /\ Offered' = Offered
  <2>1. \A t, u \in Live(used_idx, used.idx) : used.ring[t] = used.ring[u] => t = u
    BY Zenon DEF Inv, RingInv
  <2>2. Answers' = {used'.ring[t] : t \in Live(used_idx, used.idx) \ {s}}
    BY <1>1, <1>2, Zenon DEF Answers
  <2>3. \A t \in Live(used_idx, used.idx) \ {s} : used'.ring[t] = used.ring[t] /\ used.ring[t] # h
    BY <1>2, <1>3, <2>1, Zenon
  <2>4. Answers = {used.ring[t] : t \in Live(used_idx, used.idx)}
    BY Zenon DEF Answers
  <2> HIDE DEF h, s
  <2>5. Answers' = Answers \ {h}
    BY <2>2, <2>3, <2>4, Zenon DEF h
  <2> QED
    BY <1>1, <2>5, Zenon DEF Offered
<1>13. RingInv'
  <2>1. /\ Offered' \cup inflight' \cup Answers' = WaitingHeads'
        /\ Offered' \cap inflight' = {}
    BY <1>1, <1>4, <1>5, <1>11, <1>12, Zenon
  <2>2. Cardinality(WaitingHeads') = Cardinality(WaitingHeads) - 1
    BY <1>5, <1>11, RoomFacts, FS_RemoveElement, Zenon DEF Inv
  <2>3. Span(fetched', avail'.idx) + Cardinality(inflight') + Span(used_idx', used'.idx)
          = Cardinality(WaitingHeads')
    BY <1>1, <1>2, <2>2, RoomFacts DEF Inv, RingInv
  <2>4. \A t, u \in Live(fetched', avail'.idx) : avail'.ring[t] = avail'.ring[u] => t = u
    BY <1>1, Zenon DEF Inv, RingInv
  <2>5. \A t, u \in Live(used_idx', used'.idx) : used'.ring[t] = used'.ring[u] => t = u
    BY <1>1, <1>2, <1>3 DEF Inv, RingInv
  <2>6. \A q \in Procs : pc'[q] = "publish" => avail'.ring[avail'.idx % NUM] = Head(q)'
    BY <1>1, <1>9, Zenon DEF Inv, RingInv
  <2> QED
    BY <2>1, <2>3, <2>4, <2>5, <2>6, Zenon DEF RingInv
<1>14. StatusInv'
  <2>1. \A x \in Offered' \cup inflight' : info'[x].status = Unwritten
    BY <1>1, <1>12, Zenon DEF Inv, StatusInv
  <2>2. \A x \in Answers : info[x].status = 0
    BY Zenon DEF Inv, StatusInv
  <2>3. \A q \in Procs : pc'[q] = "publish" => info'[Head(q)'].status = Unwritten
    BY <1>1, <1>9, Zenon DEF Inv, StatusInv
  <2>4. \A q \in Procs : Busy(q)' /\ bdisk'[q] = 0 => info'[Head(q)'].status = 0
    BY <1>1, <1>5, <1>6, <1>7, <1>9, <2>2 DEF Inv, StatusInv
  <2> QED
    BY <1>1, <1>12, <2>1, <2>2, <2>3, <2>4, Zenon DEF StatusInv
<1>15. LockInv' /\ DescInv' /\ NoLostInterrupt'
  BY <1>1, <1>7, Zenon DEF Inv, LockInv, DescInv, NoLostInterrupt
<1>16. CallInv'
  <2>1. pc[p] # "publish" /\ pc[p] # "idle" /\ pc'[p] \notin {"idle", "publish", "asleep"}
    BY <1>6, <1>7, Zenon DEF Busy, Waiting
  <2> QED
    BY <1>1, <1>7, <1>9, <2>1 DEF Inv, CallInv
<1> QED
  BY <1>8, <1>10, <1>13, <1>14, <1>15, <1>16, Zenon DEF Inv

-----------------------------------------------------------------------------
(* The allocation of a chain, and the end of a request.                    *)

LEMMA SubmitInv == ASSUME Inv, NEW p \in Procs, Submit(p) PROVE Inv'
<1>1. PICK a \in free, b \in free, c \in free :
        /\ a # b /\ a # c /\ b # c
        /\ free' = free \ {a, b, c}
        /\ idx' = [idx EXCEPT ![p] = <<a, b, c>>]
        /\ desc' = [desc EXCEPT ![a] = [op |-> call[p], buf |-> None, next |-> b],
                                ![b] = [op |-> NoCall, buf |-> p, next |-> c],
                                ![c] = NoDesc]
        /\ info' = [info EXCEPT ![a] = [b |-> p, status |-> Unwritten]]
        /\ avail' = [avail EXCEPT !.ring[avail.idx % NUM] = a]
  <2> DEFINE a == AllocDesc(free)
             b == AllocDesc(free \ {a})
             c == AllocDesc(free \ {a, b})
  <2>1. free \in SUBSET Desc /\ Cardinality(free) >= 3
    BY Zenon DEF Submit, Inv, TypeOK
  <2>2. a \in free /\ b \in free /\ c \in free /\ a # b /\ a # c /\ b # c
    BY <2>1, Alloc3Facts, Zenon
  <2>3. /\ free' = free \ {a, b, c}
        /\ idx' = [idx EXCEPT ![p] = <<a, b, c>>]
        /\ desc' = [desc EXCEPT ![a] = [op |-> call[p], buf |-> None, next |-> b],
                                ![b] = [op |-> NoCall, buf |-> p, next |-> c],
                                ![c] = NoDesc]
        /\ info' = [info EXCEPT ![a] = [b |-> p, status |-> Unwritten]]
        /\ avail' = [avail EXCEPT !.ring[avail.idx % NUM] = a]
    BY Zenon DEF Submit
  <2> HIDE DEF a, b, c
  <2> QED
    BY <2>2, <2>3, Zenon
<1>2. /\ UNCHANGED <<used, used_idx, fetched, inflight, disk, data, irq, call, vdisk_lock>>
      /\ pc[p] = "alloc" /\ pc'[p] = "publish" /\ bdisk'[p] = 1
      /\ \A q \in Procs : q # p => pc'[q] = pc[q] /\ bdisk'[q] = bdisk[q]
  BY Zenon DEF Submit, deviceVars, Inv, TypeOK
<1>3. a \in Desc /\ b \in Desc /\ c \in Desc /\ p # None
  BY VirtioAssumption, Zenon DEF Inv, TypeOK, VirtioAssumption
<1>4. /\ idx'[p] = <<a, b, c>> /\ \A q \in Procs : q # p => idx'[q] = idx[q]
      /\ info'[a] = [b |-> p, status |-> Unwritten]
      /\ \A i \in Desc : i # a => info'[i] = info[i]
  BY <1>1, <1>3, Zenon DEF Inv, TypeOK
<1>5. /\ desc'[a] = [op |-> call[p], buf |-> None, next |-> b]
      /\ desc'[b] = [op |-> NoCall, buf |-> p, next |-> c] /\ desc'[c] = NoDesc
      /\ \A i \in Desc : i \notin {a, b, c} => desc'[i] = desc[i]
  BY <1>1, <1>3, Zenon DEF Inv, TypeOK
<1>6. /\ avail'.idx = avail.idx /\ avail'.ring[avail.idx % NUM] = a
      /\ \A s \in Desc : s # avail.idx % NUM => avail'.ring[s] = avail.ring[s]
  BY <1>1, SlotFacts, Zenon DEF Inv, TypeOK
<1>7. TypeOK'
  <2>1. NoCall \in [block : Blocks \cup {None}, write : BOOLEAN]
        /\ call[p] \in [block : Blocks \cup {None}, write : BOOLEAN]
    BY Zenon DEF NoCall, Inv, TypeOK
  <2>2. desc' \in [Desc -> [op : [block : Blocks \cup {None}, write : BOOLEAN],
                            buf : Procs \cup {None}, next : Desc \cup {None}]]
    <3> DEFINE T == [op : [block : Blocks \cup {None}, write : BOOLEAN],
                     buf : Procs \cup {None}, next : Desc \cup {None}]
    <3>1. /\ [op |-> call[p], buf |-> None, next |-> b] \in T
          /\ [op |-> NoCall, buf |-> p, next |-> c] \in T /\ NoDesc \in T
      BY <1>3, <2>1, Zenon DEF NoDesc
    <3>2. desc \in [Desc -> T]
      BY Zenon DEF Inv, TypeOK
    <3> HIDE DEF T
    <3>3. desc' \in [Desc -> T]
      BY <1>1, <3>1, <3>2, Zenon
    <3> QED
      BY <3>3, Zenon DEF T
  <2>3. info' \in [Desc -> [b : Procs \cup {None}, status : {0, Unwritten}]]
    BY <1>1, <1>3, Zenon DEF Inv, TypeOK
  <2>4. avail' \in [idx : 0..WORD-1, ring : [Desc -> Desc \cup {None}]]
    BY <1>1, <1>3, Zenon DEF Inv, TypeOK
  <2>5. idx' \in [Procs -> (Desc \X Desc \X Desc) \cup {<< >>}]
    BY <1>1, <1>3, Zenon DEF Inv, TypeOK
  <2>6. /\ bdisk' \in [Procs -> {0, 1}] /\ free' \subseteq Desc
        /\ pc' \in [Procs -> {"idle", "want", "alloc", "nodesc", "publish", "wait", "asleep", "woken"}]
    BY <1>1, Zenon DEF Submit, Inv, TypeOK
  <2> QED
    BY <1>2, <2>2, <2>3, <2>4, <2>5, <2>6, Zenon DEF Inv, TypeOK
<1>8. /\ ~Busy(p) /\ Busy(p)' /\ Head(p)' = a /\ Own(p)' = {a, b, c}
      /\ \A q \in Procs : q # p => /\ Busy(q)' <=> Busy(q)
                                   /\ Head(q)' = Head(q) /\ Own(q)' = Own(q)
  BY <1>2, <1>4 DEF Busy, Head, Own
<1>9. ChainInv'
  <2>1. ASSUME NEW q \in Procs, Busy(q) PROVE Own(q) \cap free = {} /\ Own(q) \subseteq Desc
    <3>1. /\ Head(q) \in Desc /\ idx[q][2] \in Desc /\ idx[q][3] \in Desc
          /\ Own(q) = {Head(q), idx[q][2], idx[q][3]} /\ Own(q) \cap free = {}
      BY <2>1, ChainFacts, Zenon DEF Inv
    <3> QED
      BY <3>1, Zenon
  <2>2. ChainOf(p)'
    BY <1>1, <1>2, <1>3, <1>4, <1>5, <1>8 DEF ChainOf
  <2>3. ASSUME NEW q \in Procs, q # p, Busy(q) PROVE ChainOf(q)'
    <3>1. ChainOf(q) /\ Own(q) = {idx[q][1], idx[q][2], idx[q][3]}
      BY <2>3, Zenon DEF Inv, ChainInv, Own
    <3>2. \A i \in Own(q) : i \in Desc /\ desc'[i] = desc[i] /\ info'[i] = info[i] /\ i \notin free'
      BY <1>1, <1>4, <1>5, <2>1, <2>3, Zenon
    <3>3. idx'[q] = idx[q] /\ call'[q] = call[q] /\ Own(q)' = Own(q)
      BY <1>2, <1>4, <1>8, <2>3, Zenon
    <3> QED
      BY <3>1, <3>2, <3>3 DEF ChainOf
  <2>4. \A q, r \in Procs : Busy(q)' /\ Busy(r)' /\ q # r => Own(q)' \cap Own(r)' = {}
    <3>1. \A q \in Procs : Busy(q) => {a, b, c} \cap Own(q) = {}
      BY <1>1, <2>1, Zenon
    <3> QED
      BY <1>8, <3>1 DEF Inv, ChainInv
  <2>5. \A i \in Desc \ free' : \E q \in Procs : Busy(q)' /\ i \in Own(q)'
    <3>1. \A i \in Desc \ free' : i \in {a, b, c} \/ i \in Desc \ free
      BY <1>1, Zenon
    <3> QED
      BY <1>8, <3>1 DEF Inv, ChainInv
  <2> QED
    BY <1>8, <2>2, <2>3, <2>4, <2>5, Zenon DEF ChainInv
<1>10. WaitingHeads' = WaitingHeads
  <2>1. ~Waiting(p) /\ ~Waiting(p)' /\ \A q \in Procs : q # p => (Waiting(q)' <=> Waiting(q))
    BY <1>2, <1>8, Zenon DEF Waiting
  <2> QED
    BY <1>4, <2>1, WaitKept, Zenon
<1>11. a \notin WaitingHeads /\ avail.idx % NUM \notin Live(fetched, avail.idx)
  <2>1. a \notin WaitingHeads
    BY HeadFacts, Zenon DEF Inv
  <2>2. Span(fetched, avail.idx) < NUM /\ Span(fetched, avail.idx) <= NUM
    BY <1>3, <2>1, RoomFacts, Zenon DEF Inv
  <2>3. fetched \in 0..WORD-1 /\ avail.idx \in 0..WORD-1
    BY SlotFacts, Zenon DEF Inv
  <2> QED
    BY <2>1, <2>2, <2>3, LiveFacts, Zenon
<1>12. \A s \in Live(fetched, avail.idx) : avail'.ring[s] = avail.ring[s]
  BY <1>6, <1>11, SlotFacts, Zenon DEF Inv
<1>13. Offered' = Offered /\ Answers' = Answers
  BY <1>2, <1>6, <1>12, Zenon DEF Offered, Answers
<1>a. \A q \in Procs : pc'[q] = "publish" => q = p
  BY <1>2, VirtioAssumption, Zenon DEF Inv, LockInv, VirtioAssumption
<1>14. RingInv'
  <2>1. \A t, u \in Live(fetched', avail'.idx) : avail'.ring[t] = avail'.ring[u] => t = u
    BY <1>2, <1>6, <1>12, Zenon DEF Inv, RingInv
  <2>2. \A t, u \in Live(used_idx', used'.idx) : used'.ring[t] = used'.ring[u] => t = u
    BY <1>2, Zenon DEF Inv, RingInv
  <2>4. \A q \in Procs : pc'[q] = "publish" => avail'.ring[avail'.idx % NUM] = Head(q)'
    BY <1>6, <1>8, <1>a, Zenon
  <2>5. Span(fetched', avail'.idx) + Cardinality(inflight') + Span(used_idx', used'.idx)
          = Cardinality(WaitingHeads')
    BY <1>2, <1>6, <1>10, Zenon DEF Inv, RingInv
  <2>6. Offered' \cup inflight' \cup Answers' = WaitingHeads' /\ Offered' \cap inflight' = {}
    BY <1>2, <1>10, <1>13, Zenon DEF Inv, RingInv
  <2> QED
    BY <2>1, <2>2, <2>4, <2>5, <2>6, Zenon DEF RingInv
<1>15. StatusInv'
  <2>1. \A x \in Offered \cup inflight \cup Answers : x \in Desc /\ x # a
    BY <1>11, HeadFacts, Zenon DEF Inv, RingInv
  <2>2. /\ \A x \in Offered' \cup inflight' : info'[x].status = Unwritten
        /\ \A x \in Answers' : info'[x].status = 0
    BY <1>2, <1>4, <1>13, <2>1 DEF Inv, StatusInv
  <2>3. \A q \in Procs : q # p /\ Busy(q) => Head(q) \in Desc /\ Head(q) # a
    BY ChainFacts, Zenon DEF Inv
  <2>4. \A q \in Procs : pc'[q] = "publish" => info'[Head(q)'].status = Unwritten
    BY <1>4, <1>8, <1>a
  <2>5. \A q \in Procs : Busy(q)' /\ bdisk'[q] = 0 => info'[Head(q)'].status = 0
    BY <1>2, <1>4, <1>8, <2>3 DEF Inv, StatusInv
  <2> QED
    BY <2>2, <2>4, <2>5, Zenon DEF StatusInv
<1>16. LockInv' /\ NoLostInterrupt'
  BY <1>2, Zenon DEF Inv, LockInv, NoLostInterrupt
<1>17. CallInv'
  BY <1>2, <1>8, Zenon DEF Inv, CallInv
<1>18. DescInv'
  <2>1. Cardinality(free) \in Nat /\ Cardinality(free') \in Nat /\ Cardinality(free') <= Cardinality(free)
    <3>1. free \in SUBSET Desc /\ free' \in SUBSET free /\ free' \in SUBSET Desc
      BY <1>1, Zenon DEF Inv, TypeOK
    <3> QED
      BY <3>1, DescFinite, FS_Subset, Zenon
  <2>2. \A q \in Procs : pc'[q] = "nodesc" => pc[q] = "nodesc"
    BY <1>2, Zenon
  <2> QED
    BY <2>1, <2>2 DEF Inv, DescInv
<1> QED
  BY <1>7, <1>9, <1>14, <1>15, <1>16, <1>17, <1>18, Zenon DEF Inv

LEMMA FinishInv == ASSUME Inv, NEW p \in Procs, Finish(p) PROVE Inv'
<1> DEFINE h == Head(p)
<1>1. /\ UNCHANGED <<avail, used_idx, disk, used, fetched, inflight, irq, bdisk>>
      /\ pc[p] = "wait" /\ bdisk[p] # 1 /\ vdisk_lock' = None
      /\ info' = [info EXCEPT ![h].b = None] /\ free' = free \cup Chain(h)
      /\ desc' = [i \in Desc |-> IF i \in Chain(h) THEN NoDesc ELSE desc[i]]
  BY Zenon DEF Finish, Answered, Freed, deviceVars, Head
<1>2. /\ pc'[p] = "idle" /\ idx'[p] = << >> /\ call'[p] = NoCall
      /\ \A q \in Procs : q # p => idx'[q] = idx[q] /\ call'[q] = call[q]
      /\ \A q \in Procs : q # p => pc'[q] = IF pc[q] = "nodesc" THEN "want" ELSE pc[q]
  BY Zenon DEF Finish, WakeForDesc, Inv, TypeOK
<1>3. Busy(p) /\ ~Waiting(p) /\ ~Busy(p)' /\ bdisk[p] = 0
  BY <1>1, <1>2, Zenon DEF Busy, Waiting, Inv, TypeOK
<1>4. /\ h \in Desc /\ Own(p) \subseteq Desc /\ h \in Own(p)
      /\ free' = free \cup Own(p)
      /\ \A i \in Desc : i \notin Own(p) => desc'[i] = desc[i] /\ info'[i] = info[i]
      /\ \A i \in Desc : info'[i].status = info[i].status
  <2>1. /\ h \in Desc /\ idx[p][2] \in Desc /\ idx[p][3] \in Desc
        /\ Own(p) = {h, idx[p][2], idx[p][3]} /\ Chain(h) = Own(p)
    BY <1>3, ChainFacts, Zenon DEF Inv
  <2>2. info \in [Desc -> [b : Procs \cup {None}, status : {0, Unwritten}]]
    BY Zenon DEF Inv, TypeOK
  <2> HIDE DEF h
  <2>3. \A i \in Desc : info'[i].status = info[i].status /\ (i # h => info'[i] = info[i])
    BY <1>1, <2>1, <2>2, Zenon
  <2> QED
    BY <1>1, <2>1, <2>3, Zenon
<1>5. TypeOK'
  <2>1. NoCall \in [block : Blocks \cup {None}, write : BOOLEAN]
    BY Zenon DEF NoCall
  <2>2. desc' \in [Desc -> [op : [block : Blocks \cup {None}, write : BOOLEAN],
                            buf : Procs \cup {None}, next : Desc \cup {None}]]
    <3> DEFINE T == [op : [block : Blocks \cup {None}, write : BOOLEAN],
                     buf : Procs \cup {None}, next : Desc \cup {None}]
    <3>1. NoDesc \in T
      BY <2>1, Zenon DEF NoDesc
    <3>2. desc \in [Desc -> T]
      BY Zenon DEF Inv, TypeOK
    <3> HIDE DEF T
    <3>3. desc' \in [Desc -> T]
      BY <1>1, <3>1, <3>2, Zenon
    <3> QED
      BY <3>3, Zenon DEF T
  <2>3. info' \in [Desc -> [b : Procs \cup {None}, status : {0, Unwritten}]]
    <3>1. info \in [Desc -> [b : Procs \cup {None}, status : {0, Unwritten}]]
      BY Zenon DEF Inv, TypeOK
    <3>2. [info[h] EXCEPT !.b = None] \in [b : Procs \cup {None}, status : {0, Unwritten}]
      BY <1>4, <3>1, Zenon
    <3> HIDE DEF h
    <3> QED
      BY <1>1, <1>4, <3>1, <3>2, Zenon
  <2>4. call' \in [Procs -> [block : Blocks \cup {None}, write : BOOLEAN]]
    BY <2>1, Zenon DEF Finish, Inv, TypeOK
  <2>5. idx' \in [Procs -> (Desc \X Desc \X Desc) \cup {<< >>}]
    BY Zenon DEF Finish, Inv, TypeOK
  <2>6. pc' \in [Procs -> {"idle", "want", "alloc", "nodesc", "publish", "wait", "asleep", "woken"}]
    BY Zenon DEF Finish, WakeForDesc, Inv, TypeOK
  <2>7. data' \in [Procs -> Val] /\ free' \subseteq Desc
    BY <1>4, VirtioAssumption, Zenon DEF Finish, Inv, TypeOK, VirtioAssumption
  <2> QED
    BY <1>1, <2>2, <2>3, <2>4, <2>5, <2>6, <2>7, Zenon DEF Inv, TypeOK
<1>6. \A q \in Procs : q # p => /\ Busy(q)' <=> Busy(q)
                                /\ pc'[q] = "publish" <=> pc[q] = "publish"
                                /\ Head(q)' = Head(q) /\ Own(q)' = Own(q)
  BY <1>2, Zenon DEF Busy, Head, Own
<1>7. ChainInv'
  <2>1. ASSUME NEW q \in Procs, q # p, Busy(q) PROVE ChainOf(q)'
    <3>1. ChainOf(q) /\ Own(q) = {idx[q][1], idx[q][2], idx[q][3]} /\ Own(p) \cap Own(q) = {}
      BY <1>3, <2>1 DEF Inv, ChainInv, Own
    <3>2. \A i \in Own(q) : i \in Desc /\ i \notin free
      BY <3>1, Zenon DEF ChainOf
    <3>3. \A i \in Own(q) : desc'[i] = desc[i] /\ info'[i] = info[i] /\ i \notin free'
      BY <1>4, <3>1, <3>2, Zenon
    <3>4. idx'[q] = idx[q] /\ call'[q] = call[q] /\ Own(q)' = Own(q)
      BY <1>2, <1>6, <2>1, Zenon
    <3> QED
      BY <3>1, <3>3, <3>4 DEF ChainOf
  <2>2. \A q, r \in Procs : Busy(q)' /\ Busy(r)' /\ q # r => Own(q)' \cap Own(r)' = {}
    BY <1>3, <1>6, Zenon DEF Inv, ChainInv
  <2>3. ASSUME NEW i \in Desc \ free' PROVE \E q \in Procs : Busy(q)' /\ i \in Own(q)'
    <3>1. i \in Desc \ free /\ i \notin Own(p)
      BY <1>4, Zenon
    <3>2. PICK q \in Procs : Busy(q) /\ i \in Own(q)
      BY <3>1, Zenon DEF Inv, ChainInv
    <3> QED
      BY <1>6, <3>1, <3>2, Zenon
  <2> QED
    BY <1>3, <1>6, <2>1, <2>2, <2>3, Zenon DEF ChainInv
<1>8. WaitingHeads' = WaitingHeads
  <2>1. \A q \in Procs : Waiting(q)' <=> Waiting(q)
    BY <1>1, <1>3, <1>6, Zenon DEF Waiting
  <2> QED
    BY <1>2, <1>3, <2>1, WaitKept, Zenon
<1>9. RingInv' /\ Offered' = Offered /\ Answers' = Answers
  <2>1. \A q \in Procs : pc'[q] = "publish" => pc[q] = "publish" /\ idx'[q] = idx[q]
    BY <1>2, <1>6, Zenon
  <2> QED
    BY <1>1, <1>8, <2>1, RingKept, Zenon DEF Inv
<1>10. StatusInv'
  <2>1. Offered \cup inflight \cup Answers \subseteq Desc
    BY HeadFacts, Zenon DEF Inv, RingInv
  <2>2. \A q \in Procs : Busy(q) => Head(q) \in Desc
    BY ChainFacts, Zenon DEF Inv
  <2>3. \A q \in Procs : Busy(q)' => Busy(q) /\ idx'[q] = idx[q] /\ Head(q) \in Desc
    BY <1>2, <1>3, <1>6, <2>2, Zenon
  <2>4. \A q \in Procs : pc'[q] = "publish" => pc[q] = "publish"
    BY <1>2, <1>6, Zenon
  <2> QED
    BY <1>1, <1>4, <1>9, <2>1, <2>3, <2>4, StatusKept, Zenon DEF Inv
<1>11. LockInv'
  BY <1>1, <1>2, VirtioAssumption, Zenon DEF Inv, LockInv, VirtioAssumption
<1>12. CallInv'
  BY <1>1, <1>2, <1>3, <1>6 DEF Inv, CallInv
<1>13. DescInv'
  BY <1>2, Zenon DEF DescInv
<1>14. NoLostInterrupt'
  BY <1>1, VirtioAssumption, Zenon DEF Inv, LockInv, NoLostInterrupt, VirtioAssumption, IntrHandler
<1> QED
  BY <1>5, <1>7, <1>9, <1>10, <1>11, <1>12, <1>13, <1>14, Zenon DEF Inv

-----------------------------------------------------------------------------
(* The theorems.                                                           *)

LEMMA StutterInv == ASSUME Inv, UNCHANGED vars PROVE Inv'
<1>1. /\ UNCHANGED <<free, desc, info, avail, used, used_idx, fetched, inflight, idx, bdisk,
                     disk, data, irq, call, pc, vdisk_lock>>
  BY Zenon DEF vars, driverVars, deviceVars
<1>2. TypeOK'
  BY <1>1, Zenon DEF Inv, TypeOK
<1>3. \A q \in Procs : Busy(q)' <=> Busy(q)
  BY <1>1, Zenon DEF Busy
<1>4. ChainInv' /\ RingInv' /\ StatusInv'
  BY <1>1, <1>3, QuietKept, Zenon
<1>5. LockInv' /\ CallInv' /\ DescInv' /\ NoLostInterrupt'
  BY <1>1, <1>3, Zenon DEF Inv, LockInv, CallInv, DescInv, NoLostInterrupt
<1> QED
  BY <1>2, <1>4, <1>5, Zenon DEF Inv

LEMMA NextInv == Inv /\ [Next]_vars => Inv'
<1> SUFFICES ASSUME Inv, [Next]_vars PROVE Inv'
  OBVIOUS
<1>1. ASSUME NEW p \in Procs, Ask(p) PROVE Inv'
  BY <1>1, CallStepInv, Zenon DEF Ask
<1>2. ASSUME NEW p \in Procs, Rw(p) PROVE Inv'
  BY <1>2, SubmitInv, AllocFailsInv, PublishInv, SleepInv, FinishInv, Zenon DEF Rw
<1>3. ASSUME NEW p \in Procs, Acquire(p) PROVE Inv'
  BY <1>3, AcquireInv, Zenon
<1>4. CASE IntrEnter \/ Intr
  BY <1>4, IntrLockInv, IntrEntryInv, Zenon DEF Intr
<1>5. CASE Device
  BY <1>5, DeviceFetchInv, DeviceCompleteInv, Zenon DEF Device
<1>6. CASE UNCHANGED vars
  BY <1>6, StutterInv, Zenon
<1> QED
  BY <1>1, <1>2, <1>3, <1>4, <1>5, <1>6, Zenon DEF Next

\* The inductive invariant holds in every run of the driver, the handler and the device.
THEOREM VirtioInvariant == Spec => []Inv
<1> QED
  BY InitInv, NextInv, PTL DEF Spec

\* The entries between two counters are those of the slots between them.
LEMMA EntriesLive ==
  ASSUME NEW ring, NEW from, NEW to
  PROVE  Entries(ring, from, to) = {ring[s] : s \in Live(from, to)}
  BY Zenon DEF Entries, Live

\* Descriptors are neither lost nor shared by virtio_disk_rw() and free_chain(), and
\* every request under way is in exactly one of the avail ring, the device and the used
\* ring, for any number of descriptors and of processes and when the counters wrap.
THEOREM RingsAreSound == Spec => []RingsSound
<1>1. ASSUME Inv PROVE RingsSound
  <2>1. DescConserved
    <3>1. ASSUME NEW p \in Procs, Busy(p)
          PROVE  /\ Chain(Head(p)) = Own(p) /\ Own(p) = {idx[p][1], idx[p][2], idx[p][3]}
                 /\ Own(p) \subseteq Desc /\ Own(p) \cap free = {} /\ Cardinality(Own(p)) = 3
      <4>1. /\ Chain(Head(p)) = Own(p) /\ Own(p) = {idx[p][1], idx[p][2], idx[p][3]}
            /\ Own(p) \subseteq Desc /\ Own(p) \cap free = {}
            /\ idx[p][1] # idx[p][2] /\ idx[p][1] # idx[p][3] /\ idx[p][2] # idx[p][3]
        <5>1. /\ Head(p) \in Desc /\ idx[p][2] \in Desc /\ idx[p][3] \in Desc
              /\ Head(p) # idx[p][2] /\ Head(p) # idx[p][3] /\ idx[p][2] # idx[p][3]
              /\ Own(p) = {Head(p), idx[p][2], idx[p][3]} /\ Own(p) \cap free = {}
              /\ Chain(Head(p)) = Own(p)
          BY <1>1, <3>1, ChainFacts, Zenon DEF Inv
        <5>2. Head(p) = idx[p][1]
          BY Zenon DEF Head
        <5> QED
          BY <5>1, <5>2, Zenon
      <4>2. \A x, y, z : x # y /\ x # z /\ y # z => Cardinality({x, y, z}) = 3
        <5>1. ASSUME NEW x, NEW y, NEW z, x # y, x # z, y # z PROVE Cardinality({x, y, z}) = 3
          <6>1. IsFiniteSet({x}) /\ Cardinality({x}) = 1
            BY FS_Singleton, Zenon
          <6>2. IsFiniteSet({x} \cup {y}) /\ Cardinality({x} \cup {y}) = 2
            BY <5>1, <6>1, FS_AddElement
          <6>3. Cardinality(({x} \cup {y}) \cup {z}) = 3
            BY <5>1, <6>2, FS_AddElement
          <6>4. ({x} \cup {y}) \cup {z} = {x, y, z}
            OBVIOUS
          <6> QED
            BY <6>3, <6>4, Zenon
        <5> QED
          BY <5>1, Zenon
      <4>3. Cardinality({idx[p][1], idx[p][2], idx[p][3]}) = 3
        BY <4>1, <4>2, Zenon
      <4> QED
        BY <4>1, <4>3, Zenon
    <3>2. \A p, q \in Procs : Busy(p) /\ Busy(q) /\ p # q => Chain(Head(p)) \cap Chain(Head(q)) = {}
      BY <1>1, <3>1 DEF Inv, ChainInv
    <3>3. free = Desc \ UNION {Chain(Head(p)) : p \in {q \in Procs : Busy(q)}}
      <4>1. free \subseteq Desc /\ \A i \in Desc \ free : \E p \in Procs : Busy(p) /\ i \in Own(p)
        BY <1>1, Zenon DEF Inv, TypeOK, ChainInv
      <4>2. ASSUME NEW i
            PROVE  i \in UNION {Chain(Head(p)) : p \in {q \in Procs : Busy(q)}}
                     <=> \E p \in Procs : Busy(p) /\ i \in Own(p)
        BY <3>1
      <4>3. \A i \in free : ~ \E p \in Procs : Busy(p) /\ i \in Own(p)
        BY <3>1, Zenon
      <4> QED
        BY <4>1, <4>2, <4>3, Zenon
    <3> QED
      BY <3>1, <3>2, <3>3, Zenon DEF DescConserved
  <2>2. EachRequestOnce
    <3>1. /\ Entries(avail.ring, fetched, avail.idx) = Offered
          /\ Entries(used.ring, used_idx, used.idx) = Answers
      BY EntriesLive, Zenon DEF Offered, Answers
    <3>2. {Head(p) : p \in {q \in Procs : Busy(q) /\ pc[q] # "publish" /\ bdisk[q] = 1}}
            = WaitingHeads
      BY Zenon DEF WaitingHeads, Waiting
    <3>3. \A h \in Answers : info[h].status = 0 /\ info[h].b # None
      <4>1. \A h \in WaitingHeads : \E p \in Procs : info[h].b = p
        BY <1>1, WaiterFacts, Zenon
      <4>2. Answers \subseteq WaitingHeads /\ None \notin Procs
        BY <1>1, VirtioAssumption, Zenon DEF Inv, RingInv, VirtioAssumption
      <4> QED
        BY <1>1, <4>1, <4>2, Zenon DEF Inv, StatusInv
    <3> QED
      BY <1>1, <3>1, <3>2, <3>3, Zenon DEF EachRequestOnce, Inv, RingInv
  <2> QED
    BY <1>1, <2>1, <2>2, Zenon DEF Inv, RingsSound
<1> QED
  BY <1>1, VirtioInvariant, PTL

\* Nobody sleeps in virtio_disk_rw() on a condition that holds, and no completion is left
\* in the used ring without an interrupt or a handler to see it.
THEOREM NobodyIsForgotten == Spec => []NobodyForgotten
<1>1. Inv => NobodyForgotten
  BY Zenon DEF Inv, CallInv, DescInv, NobodyForgotten, NoMissedWakeup
<1> QED
  BY <1>1, VirtioInvariant, PTL

-----------------------------------------------------------------------------
(* The refinement of DiskRequests.                                         *)

\* How far a request is, as DiskRequests sees it.
Phase(p) ==
  IF pc[p] = "idle" THEN "returned"
  ELSE IF Busy(p) /\ info[Head(p)].status = 0 THEN "performed" ELSE "asked"

\* A step that neither starts, performs nor ends a request.
LEMMA Unseen ==
  ASSUME UNCHANGED <<call, data, disk>>, \A p \in Procs : Phase(p)' = Phase(p)
  PROVE  UNCHANGED (Requests!dvars)
  BY Zenon DEF Requests!dvars, Phase

LEMMA PhaseKept ==
  ASSUME NEW p \in Procs, pc'[p] = "idle" <=> pc[p] = "idle", Busy(p)' <=> Busy(p),
         Busy(p) => Head(p)' = Head(p) /\ info'[Head(p)].status = info[Head(p)].status
  PROVE  Phase(p)' = Phase(p)
  BY Zenon DEF Phase

LEMMA CallAsks ==
  ASSUME Inv, NEW p \in Procs, NEW k \in Blocks, NEW w \in BOOLEAN, NEW v \in Val,
         Call(p, k, w, v)
  PROVE  Requests!Ask(p)
<1>1. /\ pc[p] = "idle" /\ pc'[p] = "want" /\ UNCHANGED <<disk, info, idx>>
      /\ \A q \in Procs : q # p => pc'[q] = pc[q]
      /\ call' = [call EXCEPT ![p] = [block |-> k, write |-> w]]
      /\ data' = [data EXCEPT ![p] = v]
  BY Zenon DEF Call, driverVars, deviceVars, Inv, TypeOK
<1>2. Phase(p) = "returned" /\ Phase(p)' = "asked"
  BY <1>1, Zenon DEF Phase, Busy
<1>3. \A q \in Procs : q # p => Phase(q)' = Phase(q)
  BY <1>1, Zenon DEF Phase, Busy, Head
<1>4. [block |-> k, write |-> w] \in Requests!Request
  BY Zenon DEF Requests!Request
<1>5. [q \in Procs |-> Phase(q)'] = [[q \in Procs |-> Phase(q)] EXCEPT ![p] = "asked"]
  BY <1>2, <1>3, Zenon
<1> QED
  BY <1>1, <1>2, <1>4, <1>5, Zenon DEF Requests!Ask, Phase

LEMMA CompletePerforms ==
  ASSUME Inv, NEW h \in Desc, DeviceComplete(h) PROVE \E p \in Procs : Requests!Perform(p)
<1>1. /\ h \in inflight /\ UNCHANGED <<pc, idx, call, desc>>
      /\ info'[h].status = 0 /\ \A i \in Desc : i # h => info'[i].status = info[i].status
  BY DEF DeviceComplete, Inv, TypeOK
<1>2. h \in WaitingHeads /\ info[h].status # 0
  BY <1>1 DEF Inv, RingInv, StatusInv, Unwritten
<1>3. PICK p \in Procs : /\ Busy(p) /\ Head(p) = h
                         /\ desc[h].op = call[p] /\ desc[desc[h].next].buf = p
  BY <1>2, WaiterFacts, Zenon
<1>4. \A q \in Procs : (Busy(q)' <=> Busy(q)) /\ Head(q)' = Head(q)
  BY <1>1, Zenon DEF Busy, Head
<1>5. Phase(p) = "asked" /\ Phase(p)' = "performed"
  BY <1>1, <1>2, <1>3, <1>4, Zenon DEF Phase, Busy
<1>6. ASSUME NEW q \in Procs, q # p PROVE Phase(q)' = Phase(q)
  <2>1. Busy(q) => Head(q) \in Desc /\ Head(q) # h
    BY <1>3, <1>6, HeadFacts, ChainFacts, Zenon DEF Inv
  <2> QED
    BY <1>1, <1>4, <2>1, PhaseKept, Zenon
<1>7. [q \in Procs |-> Phase(q)'] = [[q \in Procs |-> Phase(q)] EXCEPT ![p] = "performed"]
  BY <1>5, <1>6, Zenon
<1>8. IF call[p].write
      THEN disk' = [disk EXCEPT ![call[p].block] = data[p]] /\ UNCHANGED data
      ELSE data' = [data EXCEPT ![p] = disk[call[p].block]] /\ UNCHANGED disk
  BY <1>3, Zenon DEF DeviceComplete
<1>9. Requests!Perform(p)
  BY <1>1, <1>5, <1>7, <1>8, Zenon DEF Requests!Perform, Phase
<1> QED
  BY <1>9, Zenon

LEMMA FinishReturns == ASSUME Inv, NEW p \in Procs, Finish(p) PROVE Requests!Return(p)
<1> DEFINE h == Head(p)
<1>1. /\ UNCHANGED disk /\ pc[p] = "wait" /\ bdisk[p] # 1 /\ pc'[p] = "idle"
      /\ info' = [info EXCEPT ![h].b = None]
      /\ call' = [call EXCEPT ![p] = NoCall] /\ data' = [data EXCEPT ![p] = Zero]
      /\ \A q \in Procs : q # p => idx'[q] = idx[q]
      /\ \A q \in Procs : q # p => pc'[q] = IF pc[q] = "nodesc" THEN "want" ELSE pc[q]
  BY Zenon DEF Finish, Answered, WakeForDesc, deviceVars, Head, Inv, TypeOK
<1>2. Busy(p) /\ bdisk[p] = 0
  BY <1>1, Zenon DEF Busy, Inv, TypeOK
<1>3. Phase(p) = "performed" /\ Phase(p)' = "returned"
  BY <1>1, <1>2, Zenon DEF Phase, Inv, StatusInv
<1>4. \A i \in Desc : info'[i].status = info[i].status
  <2>1. info \in [Desc -> [b : Procs \cup {None}, status : {0, Unwritten}]] /\ h \in Desc
    BY <1>2, ChainFacts, Zenon DEF Inv, TypeOK
  <2> HIDE DEF h
  <2> QED
    BY <1>1, <2>1, Zenon
<1>5. ASSUME NEW q \in Procs, q # p PROVE Phase(q)' = Phase(q)
  <2>1. (Busy(q)' <=> Busy(q)) /\ (pc'[q] = "idle" <=> pc[q] = "idle") /\ Head(q)' = Head(q)
    BY <1>1, <1>5, Zenon DEF Busy, Head
  <2>2. Busy(q) => Head(q) \in Desc
    BY ChainFacts, Zenon DEF Inv
  <2> QED
    BY <1>4, <2>1, <2>2, PhaseKept, Zenon
<1>6. [q \in Procs |-> Phase(q)'] = [[q \in Procs |-> Phase(q)] EXCEPT ![p] = "returned"]
  BY <1>3, <1>5, Zenon
<1> QED
  BY <1>1, <1>3, <1>6, Zenon DEF Requests!Return, Phase, NoCall

\* The steps that DiskRequests does not see.
LEMMA RwUnseen ==
  ASSUME Inv, NEW p \in Procs,
         Acquire(p) \/ AllocFails(p) \/ Publish(p) \/ Sleep(p)
  PROVE  UNCHANGED (Requests!dvars)
<1>1. UNCHANGED <<call, data, disk, info, idx>>
  BY Zenon DEF Acquire, AllocFails, Publish, Sleep, driverVars, deviceVars
<1>2. \A q \in Procs : (pc'[q] = "idle" <=> pc[q] = "idle") /\ (Busy(q)' <=> Busy(q))
  <2>1. CASE Acquire(p)
    BY <2>1, Zenon DEF Acquire, Inv, TypeOK, Busy
  <2>2. CASE AllocFails(p)
    BY <2>2, Zenon DEF AllocFails, WakeForDesc, Inv, TypeOK, Busy
  <2>3. CASE Publish(p) \/ Sleep(p)
    BY <2>3, Zenon DEF Publish, Sleep, Inv, TypeOK, Busy
  <2> QED
    BY <2>1, <2>2, <2>3, Zenon
<1>3. \A q \in Procs : Phase(q)' = Phase(q)
  BY <1>1, <1>2, Zenon DEF Phase, Head
<1> QED
  BY <1>1, <1>3, Unseen, Zenon

LEMMA SubmitUnseen ==
  ASSUME Inv, NEW p \in Procs, Submit(p) PROVE UNCHANGED (Requests!dvars)
<1> DEFINE a == AllocDesc(free)
<1>1. /\ UNCHANGED <<call, data, disk>> /\ pc[p] = "alloc" /\ pc'[p] = "publish"
      /\ idx'[p][1] = a
      /\ info' = [info EXCEPT ![a] = [b |-> p, status |-> Unwritten]]
      /\ \A q \in Procs : q # p => pc'[q] = pc[q] /\ idx'[q] = idx[q]
  BY Zenon DEF Submit, deviceVars, Inv, TypeOK
<1>2. a \in free /\ a \in Desc
  <2>1. free \in SUBSET Desc /\ Cardinality(free) >= 3
    BY Zenon DEF Submit, Inv, TypeOK
  <2> QED
    BY <2>1, Alloc3Facts, Zenon
<1> HIDE DEF a
<1>3. info'[a].status # 0 /\ \A i \in Desc : i # a => info'[i] = info[i]
  BY <1>1, <1>2 DEF Inv, TypeOK, Unwritten
<1>4. Phase(p)' = Phase(p)
  BY <1>1, <1>3, Zenon DEF Phase, Busy, Head
<1>5. ASSUME NEW q \in Procs, q # p PROVE Phase(q)' = Phase(q)
  <2>1. (Busy(q)' <=> Busy(q)) /\ (pc'[q] = "idle" <=> pc[q] = "idle") /\ Head(q)' = Head(q)
    BY <1>1, <1>5, Zenon DEF Busy, Head
  <2>2. Busy(q) => Head(q) \in Desc /\ Head(q) # a
    BY <1>2, ChainFacts, Zenon DEF Inv
  <2> QED
    BY <1>3, <2>1, <2>2, PhaseKept, Zenon
<1> QED
  BY <1>1, <1>4, <1>5, Unseen, Zenon

LEMMA OthersUnseen ==
  ASSUME Inv, IntrEnter \/ Intr \/ DeviceFetch \/ UNCHANGED vars
  PROVE  UNCHANGED (Requests!dvars)
<1>1. UNCHANGED <<call, data, disk, info, idx>>
  BY Zenon DEF IntrEnter, Intr, IntrEntry, IntrExit, DeviceFetch, driverVars, deviceVars, vars
<1>2. \A q \in Procs : (pc'[q] = "idle" <=> pc[q] = "idle") /\ (Busy(q)' <=> Busy(q))
  <2>1. CASE IntrEntry
    BY <2>1, Zenon DEF IntrEntry, Inv, TypeOK, Busy
  <2>2. CASE IntrEnter \/ IntrExit \/ DeviceFetch \/ UNCHANGED vars
    BY <2>2, Zenon DEF IntrEnter, IntrExit, DeviceFetch, vars, Busy
  <2> QED
    BY <2>1, <2>2, Zenon DEF Intr
<1>3. \A q \in Procs : Phase(q)' = Phase(q)
  BY <1>1, <1>2, Zenon DEF Phase, Head
<1> QED
  BY <1>1, <1>3, Unseen, Zenon

\* virtio_disk_rw() reads or writes its own block at one instant between its call and
\* its return: every step of the driver, the handler and the device is a step of
\* DiskRequests or changes nothing that it speaks of.
THEOREM DiskIsAtomic == Spec => IsDiskRequests
<1>1. Init => Requests!Init
  <2> SUFFICES ASSUME Init PROVE Requests!Init
    OBVIOUS
  <2>1. \A p \in Procs : Phase(p) = "returned"
    BY Zenon DEF Init, Phase
  <2> QED
    BY <2>1, Zenon DEF Init, Requests!Init, NoCall, Phase
<1>2. Inv /\ [Next]_vars => [Requests!Next]_(Requests!dvars)
  <2> SUFFICES ASSUME Inv, [Next]_vars PROVE [Requests!Next]_(Requests!dvars)
    OBVIOUS
  <2>1. ASSUME NEW p \in Procs, Ask(p) PROVE Requests!Next
    BY <2>1, CallAsks, Zenon DEF Ask, Requests!Next
  <2>2. ASSUME NEW p \in Procs, Finish(p) PROVE Requests!Next
    BY <2>2, FinishReturns, Zenon DEF Requests!Next
  <2>3. ASSUME NEW h \in Desc, DeviceComplete(h) PROVE Requests!Next
    BY <2>3, CompletePerforms, Zenon DEF Requests!Next
  <2>4. ASSUME NEW p \in Procs, Acquire(p) \/ Submit(p) \/ AllocFails(p) \/ Publish(p) \/ Sleep(p)
        PROVE  UNCHANGED (Requests!dvars)
    BY <2>4, RwUnseen, SubmitUnseen, Zenon
  <2>5. CASE IntrEnter \/ Intr \/ DeviceFetch \/ UNCHANGED vars
    BY <2>5, OthersUnseen, Zenon
  <2> QED
    BY <2>1, <2>2, <2>3, <2>4, <2>5, Zenon DEF Next, Rw, Device
<1> QED
  BY <1>1, <1>2, VirtioInvariant, PTL DEF Spec, IsDiskRequests, Requests!Spec

=============================================================================
