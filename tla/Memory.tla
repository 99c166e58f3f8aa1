------------------------------- MODULE Memory -------------------------------
(***************************************************************************)
(* Physical pages, page tables and the memory of processes:                *)
(* kernel/kalloc.c, the user part of kernel/vm.c, kernel/exec.c, and       *)
(* allocproc(), freeproc(), fork() and growproc() of kernel/proc.c.        *)
(*                                                                         *)
(* A page table is its root page, the table pages of the two levels below  *)
(* it by their position, and the leaf of every virtual page.  Sizes are in *)
(* bytes, addresses in pages.  The loops of uvmalloc() and uvmcopy() are   *)
(* steps for each page, so that they meet every number of free pages; what *)
(* only gives pages back is one step.                                      *)
(***************************************************************************)
EXTENDS Integers, Sequences, FiniteSets, FiniteSetsExt

CONSTANTS
  Procs, InitProc,
  NPAGES,        \* the pages between end and PHYSTOP
  PGSIZE, NPTE,  \* bytes and page table entries in a page
  Programs,      \* program files: sequences of segments
  Grows,         \* the arguments of sbrk()
  Stores,        \* the pages processes write to and pass to system calls
  MAXARGS,       \* bound: the arguments of exec()
  MAXSZ,         \* bound: the size of a process
  MaxCalls       \* bound: the number of system calls

ASSUME MemoryAssumption ==
  NPAGES \in Nat /\ PGSIZE \in Nat \ {0} /\ NPTE \in Nat /\ NPTE > 1 /\ InitProc \in Procs

Pages == 1..NPAGES
Vas == 0..NPTE * NPTE * NPTE - 1
TRAMPOLINE == NPTE * NPTE * NPTE - 1     \* MAXVA - PGSIZE
TRAPFRAME == TRAMPOLINE - 1
TrampolineText == NPAGES + 1             \* the page of the kernel's text

\* The contents of a page: zeroes, user data, what is loaded from a program, and
\* anything else.  A stack is named by the arguments on it.
UserData == 1
Text == 2
Junk == 3
\* The contents in which a string ends; a program comes with strings.
Terminated == {0, Text}

VARIABLES
  free,     \* kmem.freelist
  data,     \* the contents of each page
  frame,    \* p->trapframe
  cur,      \* p->pagetable and p->sz
  new,      \* the page table and size exec() builds
  args,     \* the pages of sys_exec()'s argv
  th,       \* the system call of each process
  calls     \* how many there have been

vars == <<free, data, frame, cur, new, args, th, calls>>

NoPte == [pa |-> 0, perm |-> {}]
NoSpace == [root |-> 0, t1 |-> [k \in 0..NPTE - 1 |-> 0], t0 |-> [k \in 0..NPTE * NPTE - 1 |-> 0],
            map |-> [va \in Vas |-> NoPte], sz |-> 0]

Idle == [pc |-> "user", call |-> "none", first |-> 0, va |-> 0, newsz |-> 0, xperm |-> {}, segs |-> << >>, child |-> InitProc]

Npages(sz) == (sz + PGSIZE - 1) \div PGSIZE        \* PGROUNDUP(sz) / PGSIZE

-----------------------------------------------------------------------------
(* Page tables.  x is a page table x.sp with the free list x.free.         *)

\* kalloc(), when there is a page.
Kalloc(f) == Min(f)

\* kfree() of some pages, which it fills with junk, besides a free list f.
Kfree(f, pages) ==
  /\ free' = f \cup pages
  /\ data' = [pa \in Pages |-> IF pa \in pages THEN Junk ELSE data[pa]]

\* The tables walk() has to allocate on the way to va.
Missing(sp, va) ==
  (IF sp.t1[va \div (NPTE * NPTE)] = 0 THEN 1 ELSE 0) + (IF sp.t0[va \div NPTE] = 0 THEN 1 ELSE 0)

\* walk() with alloc: the tables it has made stay when there is no further page.
Walk(sp, f, va) ==
  LET i1 == va \div (NPTE * NPTE)
      i0 == va \div NPTE
      f1 == IF sp.t1[i1] = 0 THEN f \ {Kalloc(f)} ELSE f
      with1 == IF sp.t1[i1] = 0 THEN [sp EXCEPT !.t1[i1] = Kalloc(f)] ELSE sp
  IN IF sp.t0[i0] # 0 \/ f = {} THEN [free |-> f, sp |-> sp]
     ELSE IF f1 = {} THEN [free |-> f1, sp |-> with1]
     ELSE [free |-> f1 \ {Kalloc(f1)}, sp |-> [with1 EXCEPT !.t0[i0] = Kalloc(f1)]]

\* mappages() of one page.
Mappages(sp, f, va, pte) ==
  LET w == Walk(sp, f, va) IN
  IF Cardinality(f) >= Missing(sp, va)
  THEN [ok |-> TRUE, free |-> w.free, sp |-> [w.sp EXCEPT !.map[va] = pte]]
  ELSE [ok |-> FALSE, free |-> w.free, sp |-> w.sp]

MapNew_NoKfree(sp, f, va, perm) ==
  LET pa == Kalloc(f)
      x == Mappages(sp, f \ {pa}, va, [pa |-> pa, perm |-> perm])
  IN IF f = {} THEN [ok |-> FALSE, free |-> f, sp |-> sp, pa |-> 0]
     ELSE [ok |-> x.ok, free |-> x.free, sp |-> x.sp, pa |-> pa]
\* A new page at va: kalloc() and mappages(), kfree() when that fails.
MapNew(sp, f, va, perm) ==
  LET pa == Kalloc(f)
      x == Mappages(sp, f \ {pa}, va, [pa |-> pa, perm |-> perm])
  IN IF f = {} THEN [ok |-> FALSE, free |-> f, sp |-> sp, pa |-> 0]
     ELSE [ok |-> x.ok, free |-> IF x.ok THEN x.free ELSE x.free \cup {pa}, sp |-> x.sp, pa |-> pa]

\* uvmunmap() with do_free.
Behind(sp, vas) == {sp.map[va].pa : va \in vas}
Unmap(sp, vas) == [sp EXCEPT !.map = [va \in Vas |-> IF va \in vas THEN NoPte ELSE @[va]]]

\* The table pages freewalk() frees.
Tables(sp) == ({sp.root} \cup {sp.t1[k] : k \in DOMAIN sp.t1} \cup {sp.t0[k] : k \in DOMAIN sp.t0}) \ {0}

\* uvmfree(): the pages below sz, then the tables.
Uvmfree(sp, sz) == Behind(sp, 0..Npages(sz) - 1) \cup Tables(sp)

\* What proc_freepagetable() frees.
FreedPages(sp) == Uvmfree(Unmap(sp, {TRAMPOLINE, TRAPFRAME}), sp.sz)

\* proc_pagetable(): an empty table with trampoline and trap frame; root is 0
\* when it fails, having freed what it had.
ProcPagetable(f, tf) ==
  LET root == Kalloc(f)
      tramp == Mappages([NoSpace EXCEPT !.root = root], f \ {root}, TRAMPOLINE,
                        [pa |-> TrampolineText, perm |-> {"r", "x"}])
      both == Mappages(tramp.sp, tramp.free, TRAPFRAME, [pa |-> tf, perm |-> {"r", "w"}])
  IN IF f # {} /\ tramp.ok /\ both.ok THEN both ELSE [ok |-> FALSE, free |-> f, sp |-> NoSpace]

-----------------------------------------------------------------------------
(* Init: kinit() has freed all pages, userinit() has made a process.       *)

BootTable == ProcPagetable(Pages \ {1}, 1)
BootMemory == Mappages(BootTable.sp, BootTable.free \ {Kalloc(BootTable.free)}, 0,
                       [pa |-> Kalloc(BootTable.free), perm |-> {"r", "w", "x", "u"}])

Init ==
  /\ free = BootMemory.free
  /\ data = [pa \in Pages |-> IF pa = Kalloc(BootTable.free) THEN Text ELSE Junk]
  /\ frame = [p \in Procs |-> IF p = InitProc THEN 1 ELSE 0]
  /\ cur = [p \in Procs |-> IF p = InitProc THEN [BootMemory.sp EXCEPT !.sz = PGSIZE] ELSE NoSpace]
  /\ new = [p \in Procs |-> NoSpace]
  /\ args = [p \in Procs |-> {}]
  /\ th = [p \in Procs |-> Idle]
  /\ calls = 0

Alive(p) == cur[p].root # 0
User(p) == Alive(p) /\ th[p].pc = "user" /\ \A q \in Procs : ~(th[q].pc = "copy" /\ th[q].child = p)
At(p, pc) == th[p].pc = pc

-----------------------------------------------------------------------------
(* uvmalloc(): for sbrk() in the process' own memory, for exec() in the    *)
(* new one.                                                                *)

Target(p) == IF th[p].call = "sbrk" THEN cur[p] ELSE new[p]
SetTarget(p, sp) ==
  IF th[p].call = "sbrk" THEN cur' = [cur EXCEPT ![p] = sp] /\ new' = new
  ELSE new' = [new EXCEPT ![p] = sp] /\ cur' = cur

\* Called with oldsz and newsz.
Uvmalloc(t, call, oldsz, newsz, xperm) ==
  [t EXCEPT !.pc = "alloc", !.call = call, !.first = Npages(oldsz), !.va = Npages(oldsz),
            !.newsz = newsz, !.xperm = xperm]

\* A page is allocated, cleared and mapped.
AllocPage(p) ==
  LET x == MapNew(Target(p), free, th[p].va, {"r", "u"} \cup th[p].xperm) IN
  /\ At(p, "alloc") /\ th[p].va < Npages(th[p].newsz)
  /\ x.ok
  /\ free' = x.free
  /\ data' = [data EXCEPT ![x.pa] = 0]
  /\ SetTarget(p, x.sp)
  /\ th' = [th EXCEPT ![p].va = @ + 1]
  /\ UNCHANGED <<frame, args>>

AllocFails_All(p) ==
  LET x == MapNew(Target(p), free, th[p].va, {})
      undone == 0..th[p].va - 1
  IN
  /\ At(p, "alloc") /\ th[p].va < Npages(th[p].newsz)
  /\ ~x.ok
  /\ Kfree(x.free, Behind(x.sp, undone))
  /\ SetTarget(p, Unmap(x.sp, undone))
  /\ th' = [th EXCEPT ![p] = IF @.call = "sbrk" THEN Idle ELSE [@ EXCEPT !.pc = "bad"]]
  /\ UNCHANGED <<frame, args>>
\* No page, or none for a table: uvmdealloc() takes back the pages before it.
AllocFails(p) ==
  LET x == MapNew(Target(p), free, th[p].va, {})
      undone == th[p].first..th[p].va - 1
  IN
  /\ At(p, "alloc") /\ th[p].va < Npages(th[p].newsz)
  /\ ~x.ok
  /\ Kfree(x.free, Behind(x.sp, undone))
  /\ SetTarget(p, Unmap(x.sp, undone))
  /\ th' = [th EXCEPT ![p] = IF @.call = "sbrk" THEN Idle ELSE [@ EXCEPT !.pc = "bad"]]
  /\ UNCHANGED <<frame, args>>

\* uvmalloc() returns the new size; for the stack uvmclear() follows.
Allocated(p) ==
  LET sp == [Target(p) EXCEPT !.sz = th[p].newsz]
      guard == th[p].first
  IN
  /\ At(p, "alloc") /\ th[p].va >= Npages(th[p].newsz)
  /\ CASE th[p].call = "sbrk" -> SetTarget(p, sp) /\ th' = [th EXCEPT ![p] = Idle]
       [] th[p].call = "segment" -> SetTarget(p, sp) /\ th' = [th EXCEPT ![p].pc = "loadseg"]
       [] OTHER -> /\ SetTarget(p, [sp EXCEPT !.map[guard].perm = @ \ {"u"}])
                   /\ th' = [th EXCEPT ![p].pc = "args"]
  /\ UNCHANGED <<free, data, frame, args>>

-----------------------------------------------------------------------------
(* sbrk(), copyin() and copyout().                                         *)

\* sz + n is unsigned: below zero it is huge, and uvmdealloc() does nothing.
Growproc(p, n) ==
  LET sz == cur[p].sz
      newsz == IF sz + n < 0 THEN sz ELSE sz + n
      gone == Npages(newsz)..Npages(sz) - 1
  IN
  /\ User(p)
  /\ sz + n <= MAXSZ
  /\ \/ /\ n > 0
        /\ th' = [th EXCEPT ![p] = Uvmalloc(Idle, "sbrk", sz, sz + n, {"w"})]
        /\ UNCHANGED <<free, data, cur>>
     \/ /\ n < 0
        /\ Kfree(free, Behind(cur[p], gone))
        /\ cur' = [cur EXCEPT ![p] = [Unmap(@, gone) EXCEPT !.sz = newsz]]
        /\ th' = th
  /\ UNCHANGED <<frame, new, args>>

\* copyout() to n pages from va on, and the stores of the program: it stops at
\* a page the user may not write, what lies before it has been written.
Copyout(p, va, n) ==
  LET Ok(k) == {"u", "w"} \subseteq cur[p].map[k].perm
      written == {k \in va..va + n - 1 : \A j \in va..k : Ok(j)}
  IN
  /\ User(p)
  /\ data' = [pa \in Pages |-> IF pa \in Behind(cur[p], written) THEN UserData ELSE data[pa]]
  /\ UNCHANGED <<free, frame, cur, new, args, th>>

\* walkaddr(): the page at va, or 0 when the user has none there.
Walkaddr(sp, va) == IF va \in Vas /\ "u" \in sp.map[va].perm THEN sp.map[va].pa ELSE 0

\* copyin() from n pages succeeds.
Copyin(sp, va, n) == \A k \in va..va + n - 1 : Walkaddr(sp, k) # 0

\* copyinstr() meets the end of the string within max pages.
Copyinstr(sp, va, max) ==
  \E n \in 1..max : Copyin(sp, va, n) /\ data[Walkaddr(sp, va + n - 1)] \in Terminated

\* fetchaddr() of a pointer, which takes one byte.
Fetchaddr(p, addr) ==
  /\ addr < cur[p].sz /\ addr + 1 <= cur[p].sz
  /\ Copyin(cur[p], addr \div PGSIZE, 1)

\* fetchstr() of up to PGSIZE bytes, which may begin anywhere in a page.
Fetchstr(p, va) == Copyinstr(cur[p], va, 2)

-----------------------------------------------------------------------------
(* fork(), exit() and wait().                                              *)

\* allocproc() of the child c; when it fails it has freed the trap frame.
Allocproc(p, c) ==
  LET tf == Kalloc(free)
      x == ProcPagetable(free \ {tf}, tf)
  IN
  /\ User(p) /\ ~Alive(c)
  /\ free # {} /\ x.ok
  /\ free' = x.free
  /\ frame' = [frame EXCEPT ![c] = tf]
  /\ cur' = [cur EXCEPT ![c] = x.sp]
  /\ th' = [th EXCEPT ![p] = [Idle EXCEPT !.pc = "copy", !.child = c]]
  /\ UNCHANGED <<data, new, args>>

CopyPage_Shared(p) ==
  LET va == th[p].va
      c == th[p].child
      x == Mappages(cur[c], free, va, cur[p].map[va])
  IN
  /\ At(p, "copy") /\ va < Npages(cur[p].sz)
  /\ x.ok
  /\ free' = x.free
  /\ cur' = [cur EXCEPT ![c] = x.sp]
  /\ th' = [th EXCEPT ![p].va = @ + 1]
  /\ UNCHANGED <<data, frame, new, args>>
\* A page of uvmcopy().
CopyPage(p) ==
  LET old == cur[p].map[th[p].va]
      c == th[p].child
      x == MapNew(cur[c], free, th[p].va, old.perm)
  IN
  /\ At(p, "copy") /\ th[p].va < Npages(cur[p].sz)
  /\ x.ok
  /\ free' = x.free
  /\ data' = [data EXCEPT ![x.pa] = data[old.pa]]
  /\ cur' = [cur EXCEPT ![c] = x.sp]
  /\ th' = [th EXCEPT ![p].va = @ + 1]
  /\ UNCHANGED <<frame, new, args>>

\* uvmcopy() frees the pages it has copied, as the child's sz is still 0 and
\* freeproc() frees the tables and the trap frame only.
CopyFails(p) ==
  LET c == th[p].child
      x == MapNew(cur[c], free, th[p].va, {})
  IN
  /\ At(p, "copy") /\ th[p].va < Npages(cur[p].sz)
  /\ ~x.ok
  /\ Kfree(x.free, Behind(x.sp, 0..th[p].va - 1) \cup FreedPages(x.sp) \cup {frame[c]})
  /\ frame' = [frame EXCEPT ![c] = 0]
  /\ cur' = [cur EXCEPT ![c] = NoSpace]
  /\ th' = [th EXCEPT ![p] = Idle]
  /\ UNCHANGED <<new, args>>

Forked(p) ==
  /\ At(p, "copy") /\ th[p].va >= Npages(cur[p].sz)
  /\ cur' = [cur EXCEPT ![th[p].child].sz = cur[p].sz]
  /\ th' = [th EXCEPT ![p] = Idle]
  /\ UNCHANGED <<free, data, frame, new, args>>

\* exit() and the parent's wait(): freeproc().
Freeproc(p) ==
  /\ User(p) /\ p # InitProc
  /\ Kfree(free, FreedPages(cur[p]) \cup {frame[p]})
  /\ frame' = [frame EXCEPT ![p] = 0]
  /\ cur' = [cur EXCEPT ![p] = NoSpace]
  /\ UNCHANGED <<new, args, th>>

-----------------------------------------------------------------------------
(* exec().                                                                 *)

\* sys_exec() copies n arguments from page str, to which the array at page uargv
\* points, into pages of their own; when one fails those before it are freed
\* again, and nothing has changed.
SysExec(p, f, n, uargv, str) ==
  LET pages == {pa \in free : Cardinality({q \in free : q < pa}) < n} IN
  /\ User(p)
  /\ \A i \in 0..n : Fetchaddr(p, uargv * PGSIZE + i)
  /\ n <= Cardinality(free)
  /\ n > 0 => Fetchstr(p, str)
  /\ free' = free \ pages
  /\ data' = [pa \in Pages |-> data[IF pa \in pages THEN Walkaddr(cur[p], str) ELSE pa]]
  /\ args' = [args EXCEPT ![p] = pages]
  /\ th' = [th EXCEPT ![p] = [Idle EXCEPT !.pc = "exec", !.segs = f]]
  /\ UNCHANGED <<frame, cur, new>>

\* namei(), the header and proc_pagetable(): goto bad when one of them fails.
ExecTable(p) ==
  LET x == ProcPagetable(free, frame[p]) IN
  /\ At(p, "exec")
  /\ \/ /\ x.ok
        /\ free' = x.free
        /\ new' = [new EXCEPT ![p] = x.sp]
        /\ th' = [th EXCEPT ![p].pc = "header"]
     \/ /\ UNCHANGED <<free, new>>
        /\ th' = [th EXCEPT ![p].pc = "bad"]
  /\ UNCHANGED <<data, frame, cur, args>>

\* The next program header, or the stack when there is none.  uvmalloc() does
\* nothing for a segment that ends below sz, and its result 0 is a failure.
ExecHeader(p) ==
  LET s == Head(th[p].segs)
      base == Npages(new[p].sz) * PGSIZE
      end == Max({s.va * PGSIZE + s.memsz, new[p].sz})
  IN
  /\ At(p, "header")
  /\ \/ /\ th[p].segs = << >>
        /\ th' = [th EXCEPT ![p] = Uvmalloc(@, "stack", base, base + 2 * PGSIZE, {"w"})]
     \/ /\ th[p].segs # << >> /\ s.memsz >= s.filesz /\ end > 0
        /\ th' = [th EXCEPT ![p] = Uvmalloc(@, "segment", new[p].sz, end, s.perm)]
     \/ /\ th[p].segs # << >> /\ (s.memsz < s.filesz \/ end = 0)
        /\ th' = [th EXCEPT ![p].pc = "bad"]
  /\ UNCHANGED <<free, data, frame, cur, new, args>>

\* loadseg() into the pages of the segment; the file may be too short.
Loadseg(p) ==
  LET s == Head(th[p].segs)
      pages == Behind(new[p], s.va..s.va + Npages(s.filesz) - 1)
  IN
  /\ At(p, "loadseg")
  /\ \/ /\ data' = [pa \in Pages |-> IF pa \in pages THEN Text ELSE data[pa]]
        /\ th' = [th EXCEPT ![p].pc = "header", ![p].segs = Tail(@)]
     \/ /\ data' = data
        /\ th' = [th EXCEPT ![p].pc = "bad"]
  /\ UNCHANGED <<free, frame, cur, new, args>>

\* bad: the new page table, with the size reached so far, and the arguments.
ExecBad(p) ==
  /\ At(p, "bad")
  /\ Kfree(free, FreedPages(new[p]) \cup args[p])
  /\ new' = [new EXCEPT ![p] = NoSpace]
  /\ args' = [args EXCEPT ![p] = {}]
  /\ th' = [th EXCEPT ![p] = Idle]
  /\ UNCHANGED <<frame, cur>>

\* The arguments go onto the stack page, or do not fit.  Then the new memory
\* takes the place of the old one, which is freed with the size it had.
ExecCommit(p) ==
  LET stack == new[p].map[Npages(new[p].sz) - 1].pa
      argument == IF args[p] = {} THEN 0 ELSE data[Min(args[p])]
      gone == FreedPages(cur[p]) \cup args[p]
  IN
  /\ At(p, "args")
  /\ \/ /\ free' = free \cup gone
        /\ data' = [pa \in Pages |-> IF pa \in gone THEN Junk ELSE IF pa = stack THEN argument ELSE data[pa]]
        /\ cur' = [cur EXCEPT ![p] = new[p]]
        /\ new' = [new EXCEPT ![p] = NoSpace]
        /\ args' = [args EXCEPT ![p] = {}]
        /\ th' = [th EXCEPT ![p] = Idle]
     \/ /\ th' = [th EXCEPT ![p].pc = "bad"]
        /\ UNCHANGED <<free, data, cur, new, args>>
  /\ UNCHANGED frame

Exec(p) == ExecTable(p) \/ ExecHeader(p) \/ Loadseg(p) \/ ExecBad(p) \/ ExecCommit(p)

Call(p) ==
  \/ \E n \in Grows : Growproc(p, n)
  \/ \E va \in Stores : Copyout(p, va, 2)
  \/ \E c \in Procs : Allocproc(p, c)
  \/ \E f \in Programs, n \in 0..MAXARGS, uargv, str \in Stores : SysExec(p, f, n, uargv, str)
  \/ Freeproc(p)

Continue(p) ==
  \/ AllocPage(p) \/ AllocFails(p) \/ Allocated(p)
  \/ CopyPage(p) \/ CopyFails(p) \/ Forked(p)
  \/ Exec(p)

Next ==
  \E p \in Procs :
    \/ calls < MaxCalls /\ Call(p) /\ calls' = calls + 1
    \/ Continue(p) /\ calls' = calls

Spec == Init /\ [][Next]_vars

-----------------------------------------------------------------------------
(* Properties.                                                             *)

\* The number of uses of pages, and the pages used, by a page table.
Uses(sp) ==
  (IF sp.root = 0 THEN 0 ELSE 1) +
  Cardinality({k \in DOMAIN sp.t1 : sp.t1[k] # 0}) + Cardinality({k \in DOMAIN sp.t0 : sp.t0[k] # 0}) +
  Cardinality({va \in 0..TRAPFRAME - 1 : sp.map[va].pa # 0})
Used(sp) == (Tables(sp) \cup Behind(sp, 0..TRAPFRAME - 1)) \ {0}

\* Every page is free or has exactly one use, as a trap frame, a table, a page
\* of user memory or an argument of exec(): whatever fails half way, kfree() is
\* called once for each page kalloc() gave, and never while the page is mapped.
PagesOwned ==
  LET used == UNION {Used(cur[p]) \cup Used(new[p]) \cup args[p] \cup ({frame[p]} \ {0}) : p \in Procs} IN
  /\ used = Pages \ free
  /\ Cardinality(used) =
       MapThenSumSet(LAMBDA p : Uses(cur[p]) + Uses(new[p]) + Cardinality(args[p]) + Cardinality({frame[p]} \ {0}), Procs)

\* The pages a page table of size sz maps: what uvmunmap(), uvmcopy() and
\* freewalk() panic about.
Exact(sp, tf) ==
  /\ {va \in Vas : sp.map[va] # NoPte} = (0..Npages(sp.sz) - 1) \cup {TRAPFRAME, TRAMPOLINE}
  /\ sp.map[TRAPFRAME].pa = tf

\* Whenever memory may be copied, shrunk or freed, its pages are mapped from 0
\* to the size and not beyond, and the trap frame is the process' own: no
\* "uvmunmap: not mapped", "uvmcopy: page not present", "freewalk: leaf".
MapsExact ==
  \A p \in Procs :
    /\ User(p) => Exact(cur[p], frame[p])
    /\ (At(p, "bad") \/ At(p, "args")) /\ new[p].root # 0 => Exact(new[p], frame[p])

\* What the user program finds at each of its pages.
Memory(p) == [va \in 0..Npages(cur[p].sz) - 1 |-> data[cur[p].map[va].pa]]
A == INSTANCE AddressSpaces WITH
       space <- [p \in Procs |-> Memory(p)], Values <- {UserData}, MaxPages <- TRAPFRAME
\* Processes have address spaces of their own, which sbrk(), exec() and fork()
\* change as a whole or not at all.
IsAddressSpaces == A!Spec
=============================================================================
