----------------------------- MODULE VirtioDisk -----------------------------
(***************************************************************************)
(* The disk driver of kernel/virtio_disk.c: processes in virtio_disk_rw(), *)
(* the interrupt handler virtio_disk_intr(), and the device.               *)
(*                                                                         *)
(* vdisk_lock keeps processes and the handler apart; the device takes no   *)
(* lock and runs between any two of their steps.  It fetches the requests  *)
(* it is offered in order and completes them in any order.                 *)
(*                                                                         *)
(* Every process brings a buffer of its own, locked by it, and the cache   *)
(* has one buffer per block (module Bcache): the buffer of process p is    *)
(* called p, and no two calls are on the same block.                       *)
(***************************************************************************)
EXTENDS Integers, FiniteSets, FiniteSetsExt

CONSTANTS NUM,   \* descriptors, and entries of each ring
          WORD,  \* the ring counters are unsigned and wrap at WORD, 2^16
          Procs, Blocks, Val, Zero,
          None

ASSUME VirtioAssumption ==
  /\ NUM \in Nat \ {0} /\ WORD \in Nat \ {0} /\ WORD % NUM = 0 /\ NUM < WORD
  /\ Zero \in Val
  /\ None \notin Procs \cup Blocks \cup Nat /\ None # "intr" /\ "intr" \notin Procs

Desc == 0..NUM-1
Unwritten == 255   \* info[].status before the device writes it
IntrHandler == "intr"

VARIABLES
  free,        \* disk.free
  desc,        \* disk.desc: the header (disk.ops) or the buffer that addr points to,
               \* and next when F_NEXT is set
  info,        \* disk.info: the buffer and the status
  avail, used, \* the rings: [idx, ring]; an entry that has been read is None
  used_idx,    \* disk.used_idx
  vdisk_lock,  \* its holder, or None
  bdisk,       \* b->disk of each buffer
  data,        \* b->data, while the call lasts
  pc, call,    \* virtio_disk_rw(): where it is, and its arguments
  idx,         \* its three descriptors
  \* the device
  disk, fetched, inflight, irq

driverVars == <<free, desc, info, avail, used_idx>>
deviceVars == <<disk, used, fetched, inflight>>
vars == <<driverVars, deviceVars, irq, vdisk_lock, bdisk, data, pc, call, idx>>

NoCall == [block |-> None, write |-> FALSE]
NoDesc == [op |-> NoCall, buf |-> None, next |-> None]

\* virtio_disk_init().
Init ==
  /\ free = Desc
  /\ desc = [i \in Desc |-> NoDesc]
  /\ info = [i \in Desc |-> [b |-> None, status |-> 0]]
  /\ avail = [idx |-> 0, ring |-> [i \in Desc |-> None]]
  /\ used = [idx |-> 0, ring |-> [i \in Desc |-> None]]
  /\ used_idx = 0
  /\ vdisk_lock = None
  /\ bdisk = [p \in Procs |-> 0]
  /\ data = [p \in Procs |-> Zero]
  /\ pc = [p \in Procs |-> "idle"]
  /\ call = [p \in Procs |-> NoCall]
  /\ idx = [p \in Procs |-> << >>]
  /\ disk = [k \in Blocks |-> Zero]
  /\ fetched = 0
  /\ inflight = {}
  /\ irq = FALSE

Inc_NoWrap(u) == u + 1
\* += 1 on an unsigned counter.
Inc(u) == (u + 1) % WORD

\* The descriptors of a chain, as free_chain() and the device follow it.
Chain(h) ==
  {h} \cup (IF desc[h].next = None THEN {}
            ELSE LET j == desc[h].next IN
                 {j} \cup IF desc[j].next = None THEN {} ELSE {desc[j].next})

\* wakeup(&disk.free[0]).
WakeForDesc(woken) == [p \in Procs |-> IF woken[p] = "nodesc" THEN "want" ELSE woken[p]]

-----------------------------------------------------------------------------
(* virtio_disk_rw().                                                       *)

Call(p, k, w, v) ==
  /\ pc[p] = "idle"
  /\ \A q \in Procs : call[q].block # k
  /\ call' = [call EXCEPT ![p] = [block |-> k, write |-> w]]
  /\ data' = [data EXCEPT ![p] = v]
  /\ pc' = [pc EXCEPT ![p] = "want"]
  /\ UNCHANGED <<driverVars, deviceVars, irq, vdisk_lock, bdisk, idx>>

\* acquire(&disk.vdisk_lock), on entry and at the end of both sleep()s.
Acquire(p) ==
  /\ pc[p] \in {"want", "woken"}
  /\ vdisk_lock = None
  /\ vdisk_lock' = p
  /\ pc' = [pc EXCEPT ![p] = IF @ = "want" THEN "alloc" ELSE "wait"]
  /\ UNCHANGED <<driverVars, deviceVars, irq, bdisk, data, call, idx>>

\* alloc_desc(): the first free descriptor.
AllocDesc(f) == Min(f)

\* alloc3_desc() succeeds: the chain is written and offered in the avail ring.
Submit(p) ==
  /\ pc[p] = "alloc"
  /\ Cardinality(free) >= 3
  /\ LET a == AllocDesc(free)
         b == AllocDesc(free \ {a})
         c == AllocDesc(free \ {a, b})
     IN /\ free' = free \ {a, b, c}
        /\ idx' = [idx EXCEPT ![p] = <<a, b, c>>]
        /\ desc' = [desc EXCEPT ![a] = [op |-> call[p], buf |-> None, next |-> b],
                                ![b] = [op |-> NoCall, buf |-> p, next |-> c],
                                ![c] = NoDesc]
        /\ info' = [info EXCEPT ![a] = [b |-> p, status |-> Unwritten]]
        /\ avail' = [avail EXCEPT !.ring[avail.idx % NUM] = a]
  /\ bdisk' = [bdisk EXCEPT ![p] = 1]
  /\ pc' = [pc EXCEPT ![p] = "publish"]
  /\ UNCHANGED <<deviceVars, irq, used_idx, vdisk_lock, data, call>>

\* alloc3_desc() fails: the descriptors it got are freed again, which wakes the
\* other processes that wait for some, and the process sleeps.
AllocFails(p) ==
  /\ pc[p] = "alloc"
  /\ Cardinality(free) < 3
  /\ vdisk_lock' = None
  /\ pc' = [(IF free = {} THEN pc ELSE WakeForDesc(pc)) EXCEPT ![p] = "nodesc"]
  /\ UNCHANGED <<driverVars, deviceVars, irq, bdisk, data, call, idx>>

\* avail->idx += 1, and the notification.
Publish(p) ==
  /\ pc[p] = "publish"
  /\ avail' = [avail EXCEPT !.idx = Inc(@)]
  /\ pc' = [pc EXCEPT ![p] = "wait"]
  /\ UNCHANGED <<free, desc, info, used_idx, deviceVars, irq, vdisk_lock, bdisk,
                 data, call, idx>>

Sleep(p) ==
  /\ pc[p] = "wait"
  /\ bdisk[p] = 1
  /\ vdisk_lock' = None
  /\ pc' = [pc EXCEPT ![p] = "asleep"]
  /\ UNCHANGED <<driverVars, deviceVars, irq, bdisk, data, call, idx>>

Answered_Always(p) == TRUE
Answered(p) == bdisk[p] # 1

Freed_HeadOnly(h) == {h}
\* free_chain() follows the chain.
Freed(h) == Chain(h)

Finish(p) ==
  /\ pc[p] = "wait"
  /\ Answered(p)
  /\ LET h == idx[p][1] IN
       /\ info' = [info EXCEPT ![h].b = None]
       /\ free' = free \cup Freed(h)
       /\ desc' = [i \in Desc |-> IF i \in Freed(h) THEN NoDesc ELSE desc[i]]
  /\ vdisk_lock' = None
  /\ idx' = [idx EXCEPT ![p] = << >>]
  /\ call' = [call EXCEPT ![p] = NoCall]
  /\ data' = [data EXCEPT ![p] = Zero]
  /\ pc' = [WakeForDesc(pc) EXCEPT ![p] = "idle"]
  /\ UNCHANGED <<avail, used_idx, deviceVars, irq, bdisk>>

-----------------------------------------------------------------------------
(* virtio_disk_intr().                                                     *)

IntrEnter ==
  /\ irq
  /\ vdisk_lock = None
  /\ vdisk_lock' = IntrHandler
  /\ irq' = FALSE
  /\ UNCHANGED <<driverVars, deviceVars, bdisk, data, pc, call, idx>>

IntrEntry ==
  /\ vdisk_lock = IntrHandler
  /\ used_idx # used.idx
  /\ LET id == used.ring[used_idx % NUM]
         b == info[id].b
     IN /\ bdisk' = [bdisk EXCEPT ![b] = 0]
        /\ pc' = [pc EXCEPT ![b] = IF @ = "asleep" THEN "woken" ELSE @]
  /\ used_idx' = Inc(used_idx)
  /\ used' = [used EXCEPT !.ring[used_idx % NUM] = None]
  /\ UNCHANGED <<free, desc, info, avail, disk, fetched, inflight, irq, vdisk_lock, data,
                 call, idx>>

IntrDone_AfterOne == vdisk_lock = IntrHandler
IntrDone == vdisk_lock = IntrHandler /\ used_idx = used.idx

IntrExit ==
  /\ IntrDone
  /\ vdisk_lock' = None
  /\ UNCHANGED <<driverVars, deviceVars, irq, bdisk, data, pc, call, idx>>

-----------------------------------------------------------------------------
(* The device.                                                             *)

DeviceFetch ==
  /\ fetched # avail.idx
  /\ inflight' = inflight \cup {avail.ring[fetched % NUM]}
  /\ fetched' = Inc(fetched)
  /\ avail' = [avail EXCEPT !.ring[fetched % NUM] = None]
  /\ UNCHANGED <<free, desc, info, used_idx, disk, used, irq, vdisk_lock, bdisk, data, pc,
                 call, idx>>

\* The transfer, the status, the used ring and the interrupt.
DeviceComplete(h) ==
  /\ h \in inflight
  /\ inflight' = inflight \ {h}
  /\ LET k == desc[h].op.block
         b == desc[desc[h].next].buf
     IN IF desc[h].op.write
        THEN disk' = [disk EXCEPT ![k] = data[b]] /\ UNCHANGED data
        ELSE data' = [data EXCEPT ![b] = disk[k]] /\ UNCHANGED disk
  /\ info' = [info EXCEPT ![h].status = 0]
  /\ used' = [idx |-> Inc(used.idx), ring |-> [used.ring EXCEPT ![used.idx % NUM] = h]]
  /\ irq' = TRUE
  /\ UNCHANGED <<free, desc, avail, used_idx, fetched, vdisk_lock, bdisk, pc, call, idx>>

-----------------------------------------------------------------------------
Rw(p) == Submit(p) \/ AllocFails(p) \/ Publish(p) \/ Sleep(p) \/ Finish(p)

Intr == IntrEntry \/ IntrExit

Device == DeviceFetch \/ \E h \in Desc : DeviceComplete(h)

Ask(p) == \E k \in Blocks, w \in BOOLEAN, v \in Val : Call(p, k, w, v)

Next == (\E p \in Procs : Ask(p) \/ Acquire(p) \/ Rw(p)) \/ IntrEnter \/ Intr \/ Device

Spec == Init /\ [][Next]_vars

-----------------------------------------------------------------------------
(* Properties.                                                             *)

\* The driver's tables, the rings and their counters have their types.
TypeOK ==
  /\ free \subseteq Desc
  /\ desc \in [Desc -> [op : [block : Blocks \cup {None}, write : BOOLEAN],
                         buf : Procs \cup {None}, next : Desc \cup {None}]]
  /\ info \in [Desc -> [b : Procs \cup {None}, status : {0, Unwritten}]]
  /\ avail \in [idx : 0..WORD-1, ring : [Desc -> Desc \cup {None}]]
  /\ used \in [idx : 0..WORD-1, ring : [Desc -> Desc \cup {None}]]
  /\ used_idx \in 0..WORD-1 /\ fetched \in 0..WORD-1
  /\ vdisk_lock \in Procs \cup {IntrHandler, None}
  /\ bdisk \in [Procs -> {0, 1}] /\ data \in [Procs -> Val] /\ disk \in [Blocks -> Val]
  /\ pc \in [Procs -> {"idle", "want", "alloc", "nodesc", "publish", "wait", "asleep", "woken"}]
  /\ call \in [Procs -> [block : Blocks \cup {None}, write : BOOLEAN]]
  /\ idx \in [Procs -> (Desc \X Desc \X Desc) \cup {<< >>}]
  /\ inflight \subseteq Desc /\ irq \in BOOLEAN

\* The process has descriptors.
Busy(p) == pc[p] \in {"publish", "wait", "asleep", "woken"}

Head(p) == idx[p][1]

\* Descriptors are neither lost nor shared: every one is free or in the chain of one
\* request, and a chain has the three that were allocated for it.
DescConserved ==
  /\ \A p \in Procs : Busy(p) => Chain(Head(p)) = {idx[p][1], idx[p][2], idx[p][3]}
                                 /\ Cardinality(Chain(Head(p))) = 3
  /\ \A p, q \in Procs : Busy(p) /\ Busy(q) /\ p # q => Chain(Head(p)) \cap Chain(Head(q)) = {}
  /\ free = Desc \ UNION {Chain(Head(p)) : p \in {q \in Procs : Busy(q)}}

\* How many entries of a ring lie between two counters, and which.
Span(from, to) == (to - from) % WORD
Entries(ring, from, to) == {ring[((from + i) % WORD) % NUM] : i \in 0..Span(from, to)-1}

\* A request that is offered and not answered is in exactly one place: in the avail
\* ring, with the device, or in the used ring.  Nothing else is in any of them, no
\* entry is overwritten before it is read, and what the handler finds in the used
\* ring has status 0 and a buffer to answer.
EachRequestOnce ==
  LET offered == Entries(avail.ring, fetched, avail.idx)
      answered == Entries(used.ring, used_idx, used.idx)
      waiting == {Head(p) : p \in {q \in Procs : Busy(q) /\ pc[q] # "publish" /\ bdisk[q] = 1}}
  IN /\ offered \cup inflight \cup answered = waiting
     /\ Span(fetched, avail.idx) + Cardinality(inflight) + Span(used_idx, used.idx)
          = Cardinality(waiting)
     /\ \A h \in answered : info[h].status = 0 /\ info[h].b # None

\* Nobody sleeps on a condition that already holds: whenever vdisk_lock is free, a
\* process asleep on its buffer has not been answered, and one asleep for want of
\* descriptors finds fewer than three.
NoMissedWakeup ==
  vdisk_lock = None =>
    \A p \in Procs :
      /\ pc[p] = "asleep" => bdisk[p] = 1
      /\ pc[p] = "nodesc" => Cardinality(free) < 3

Requests == INSTANCE DiskRequests WITH
  request <- call,
  phase <- [p \in Procs |->
              IF pc[p] = "idle" THEN "returned"
              ELSE IF Busy(p) /\ info[Head(p)].status = 0 THEN "performed" ELSE "asked"]

\* virtio_disk_rw() reads or writes its own block once between call and return, in
\* whatever order the device completes the requests and the handler answers them.
IsDiskRequests == Requests!Spec

\* No completion is left behind: while the used ring has an entry the handler has
\* not seen, an interrupt is pending or the handler is running, also when several
\* completions share one interrupt or one arrives while the handler runs.
NoLostInterrupt == used_idx # used.idx => irq \/ vdisk_lock = IntrHandler

\* Descriptors, rings and counters agree: nothing is lost or shared, and every
\* request that is under way is in exactly one place.
RingsSound == TypeOK /\ DescConserved /\ EachRequestOnce

\* Neither a sleeping process nor a completion is ever forgotten.
NobodyForgotten == NoMissedWakeup /\ NoLostInterrupt
=============================================================================
