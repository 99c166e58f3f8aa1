--------------------------- MODULE LogRefinement ----------------------------
(***************************************************************************)
(* Log implements AtomicDisk, for any set of blocks, values and processes  *)
(* and any log size: every step of log.c is, seen through Mem, Recovered   *)
(* and Active, a step of AtomicDisk or a stutter.  And its space is        *)
(* accounted for, whenever no call writes more than it reserves.           *)
(***************************************************************************)
EXTENDS LogProofs

LEMMA InstallFacts ==
  ASSUME NEW h \in Seq(Blocks), Distinct(h), NEW d, NEW m
  PROVE  /\ Install(h, d, m) = [b \in Blocks |-> Install(h, d, m)[b]]
         /\ \A i \in 1..Len(h) : Install(h, d, m)[h[i]] = d[i]
         /\ \A b \in Blocks : (\A i \in 1..Len(h) : h[i] # b) => Install(h, d, m)[b] = m[b]
<1>1. DOMAIN h = 1..Len(h) /\ Range(h) = {h[i] : i \in 1..Len(h)}
  BY DEF Range
<1>2. ASSUME NEW i \in 1..Len(h) PROVE Install(h, d, m)[h[i]] = d[i]
  <2>1. h[i] \in Blocks /\ h[i] \in Range(h)
    BY <1>1
  <2>2. (CHOOSE j \in DOMAIN h : h[j] = h[i]) = i
    BY <1>1, Zenon DEF Distinct
  <2> QED
    BY <2>1, <2>2, Zenon DEF Install
<1>3. ASSUME NEW b \in Blocks, \A i \in 1..Len(h) : h[i] # b PROVE Install(h, d, m)[b] = m[b]
  BY <1>1, <1>3, Zenon DEF Install
<1>4. Install(h, d, m) = [b \in Blocks |-> Install(h, d, m)[b]]
  BY DEF Install
<1> QED
  BY <1>2, <1>3, <1>4, Zenon

\* Copying a logged block home does not change what a restart finds: the redo
\* log can be installed again, in part or in full, after a crash.
LEMMA InstallIdempotent ==
  ASSUME NEW h \in Seq(Blocks), Distinct(h), NEW d, NEW m \in [Blocks -> Val],
         NEW k \in 1..Len(h)
  PROVE  Install(h, d, [m EXCEPT ![h[k]] = d[k]]) = Install(h, d, m)
<1> DEFINE n == [m EXCEPT ![h[k]] = d[k]]
<1>0. \A b \in Blocks : b # h[k] => n[b] = m[b]
  OBVIOUS
<1> HIDE DEF n
<1>1. ASSUME NEW b \in Blocks PROVE Install(h, d, n)[b] = Install(h, d, m)[b]
  <2>1. CASE \E i \in 1..Len(h) : h[i] = b
    BY <2>1, InstallFacts
  <2>2. CASE \A i \in 1..Len(h) : h[i] # b
    <3>1. n[b] = m[b]
      BY <1>0, <2>2, Zenon
    <3>2. Install(h, d, n)[b] = n[b] /\ Install(h, d, m)[b] = m[b]
      BY <2>2, InstallFacts
    <3> QED
      BY <3>1, <3>2, Zenon
  <2> QED
    BY <2>1, <2>2, Zenon
<1>2. Install(h, d, n) = [b \in Blocks |-> Install(h, d, n)[b]]
  BY InstallFacts, Zenon
<1>3. Install(h, d, m) = [b \in Blocks |-> Install(h, d, m)[b]]
  BY InstallFacts, Zenon
<1>4. Install(h, d, n) = Install(h, d, m)
  BY <1>1, <1>2, <1>3, Zenon
<1> QED
  BY <1>4, Zenon DEF n

\* With an empty header, a restart finds the home blocks as they are.
LEMMA InstallNothing ==
  ASSUME NEW d, NEW m \in [Blocks -> Val]
  PROVE  Install(<< >>, d, m) = m
<1>1. Range(<< >>) = {}
  BY DEF Range
<1> QED
  BY <1>1, Zenon DEF Install

\* A last end_op() that has returned is durable.
THEOREM Durability == Spec => []QuietIsDurable
<1>1. Inv => QuietIsDurable
  <2> SUFFICES ASSUME Inv, mode = "up", outstanding = 0, committing = 0
               PROVE  Recovered = Mem
    BY Zenon DEF QuietIsDurable
  <2>1. lh = << >> /\ dhead = << >> /\ home \in [Blocks -> Val]
    BY NoCommitter, Zenon DEF Inv, HeaderInv, CommitPcs, TypeOK, DiskTypeOK
  <2>2. Recovered = home
    BY <2>1, InstallNothing, Zenon DEF Recovered
  <2>3. Active = {}
    BY ActiveFinite, FS_EmptySet, Zenon DEF Inv, ControlInv
  <2>4. \A b \in Blocks : ~Pending(b) /\ Unlocked(b)
    BY <2>1, <2>3, LogAssumption DEF LogAssumption, Inv, ControlInv, Active, Pending, Unlocked
  <2>5. \A b \in Blocks : Bread(b) = home[b]
    BY <2>4, Zenon DEF Inv, DataInv, Bread
  <2>6. Mem = [b \in Blocks |-> home[b]]
    BY <2>5, Zenon DEF Mem
  <2> QED
    BY <2>1, <2>2, <2>6, Zenon
<1> QED
  BY <1>1, LogInvariant, PTL

\* The abstract view of the state does not change.
SameView == Mem' = Mem /\ Recovered' = Recovered

LEMMA SameDisk ==
  ASSUME mode = "up", mode' = "up", UNCHANGED <<dhead, dlog, home, cache>>
  PROVE  SameView
BY DEF SameView, Mem, Recovered, Install, Bread

LEMMA WriteLogView == ASSUME Inv, NEW p \in Procs, WriteLog(p) PROVE SameView
<1>1. /\ mode = "up" /\ \A s \in CommitPcs : At(s) <=> s = "write_log"
  BY OnlyCommitter, Zenon DEF Inv, WriteLog, CommitPcs
<1>2. dhead = << >> /\ dhead' = << >> /\ home' = home /\ mode' = mode
  BY <1>1, Zenon DEF Inv, HeaderInv, CommitPcs, WriteLog
<1>3. Recovered' = Recovered
  BY <1>2, InstallNothing, Zenon DEF Recovered, Inv, TypeOK, DiskTypeOK
<1>4. \A b \in Blocks : Bread(b)' = Bread(b)
  BY <1>2, LogAssumption, Zenon DEF LogAssumption, Bread, WriteLog, Inv, TypeOK, MemTypeOK, DiskTypeOK
<1> QED
  BY <1>1, <1>2, <1>3, <1>4, Zenon DEF SameView, Mem

LEMMA WriteHeadCommits == ASSUME Inv, NEW p \in Procs, WriteHead(p) PROVE Abstract!Commit
<1>1. /\ mode = "up" /\ Active = {} /\ \A s \in CommitPcs : At(s) <=> s = "write_head"
      /\ \A b \in Blocks : Unlocked(b)
  BY OnlyCommitter, Zenon DEF Inv, WriteHead, CommitPcs
<1>2. /\ dhead' = lh /\ lh \in Seq(Blocks) /\ Distinct(lh)
      /\ UNCHANGED <<dlog, home, cache, mode, lh>>
  BY Zenon DEF Inv, HeaderInv, TypeOK, MemTypeOK, WriteHead, cacheVars, logVars
<1>3. Mem = [b \in Blocks |-> Bread(b)] /\ Mem' = Mem
  BY <1>1, <1>2, Zenon DEF Mem, Bread
<1>4. \A i \in 1..Len(lh) : ~Installed(i) /\ dlog[i] = cache[lh[i]]
  BY <1>1, Zenon DEF Installed, CommitPcs, Inv, DataInv
<1>5. \A i \in 1..Len(lh) : Bread(lh[i]) = dlog[i]
  <2>1. \A i \in 1..Len(lh) : lh[i] \in Blocks /\ cache[lh[i]] # NoVal
    BY <1>1, <1>2, <1>4, SMTT(20) DEF Pending, Inv, DataInv
  <2> QED
    BY <1>4, <2>1, SMTT(20) DEF Bread
<1>6. \A b \in Blocks : (\A i \in 1..Len(lh) : lh[i] # b) => Bread(b) = home[b]
  BY <1>1, Zenon DEF Pending, Inv, DataInv, Bread
<1>7. \A b \in Blocks : Install(lh, dlog, home)[b] = Bread(b)
  BY <1>2, <1>5, <1>6, InstallFacts
<1>8. Recovered' = Mem
  BY <1>2, <1>3, <1>7, InstallFacts DEF Recovered
<1>9. Active' = Active
  BY <1>1, Zenon DEF WriteHead, Active, Inv, TypeOK, ProcTypeOK
<1> QED
  BY <1>1, <1>3, <1>8, <1>9, Zenon DEF Abstract!Commit

LEMMA InstallTransView == ASSUME Inv, NEW p \in Procs, InstallTrans(p) PROVE SameView
<1>1. mode = "up" /\ \A s \in CommitPcs : At(s) <=> s = "install"
  BY OnlyCommitter, Zenon DEF Inv, InstallTrans, CommitPcs
<1>2. /\ dhead = lh /\ lh \in Seq(Blocks) /\ Distinct(lh) /\ tail \in 1..Len(lh)
      /\ UNCHANGED <<dlog, dhead, mode>>
      /\ home' = [home EXCEPT ![lh[tail]] = dlog[tail]]
      /\ cache' = [cache EXCEPT ![lh[tail]] = dlog[tail]]
      /\ home \in [Blocks -> Val] /\ cache \in [Blocks -> Val \cup {NoVal}]
  BY <1>1, SMTT(20) DEF Inv, HeaderInv, TypeOK, DiskTypeOK, MemTypeOK, InstallTrans, InstallBlock, CommitPcs
<1>3. lh[tail] \in Blocks /\ ~Installed(tail) /\ cache[lh[tail]] = dlog[tail] /\ cache[lh[tail]] # NoVal
  <2>1. lh[tail] \in Blocks /\ ~Installed(tail)
    BY <1>1, <1>2 DEF Installed, CommitPcs
  <2>2. Pending(lh[tail])
    BY <1>2, <2>1, Zenon DEF Pending
  <2> QED
    BY <1>1, <1>2, <2>1, <2>2, SMTT(20) DEF Inv, DataInv, CommitPcs
<1>4. \A b \in Blocks : Bread(b)' = Bread(b)
  BY <1>2, <1>3, Zenon DEF Bread
<1>5. Recovered' = Recovered
  <2>1. /\ lh \in Seq(Blocks) /\ Distinct(lh) /\ tail \in 1..Len(lh)
        /\ home \in [Blocks -> Val]
    BY <1>2, Zenon
  <2>2. Install(lh, dlog, [home EXCEPT ![lh[tail]] = dlog[tail]]) = Install(lh, dlog, home)
    BY <2>1, InstallIdempotent, Zenon
  <2> QED
    BY <1>2, <2>2, Zenon DEF Recovered
<1> QED
  BY <1>1, <1>2, <1>4, <1>5, Zenon DEF SameView, Mem

\* Both places that clear the header do so once every block it names is home.
LEMMA ClearView ==
  ASSUME Inv, dhead' = << >>, UNCHANGED <<dlog, home>>,
         \A i \in 1..Len(dhead) : home[dhead[i]] = dlog[i]
  PROVE  Recovered = home /\ Recovered' = home
<1>1. dhead \in Seq(Blocks) /\ Distinct(dhead) /\ home \in [Blocks -> Val]
  BY Zenon DEF Inv, TypeOK, DiskTypeOK, HeaderInv
<1>2. \A b \in Blocks : Install(dhead, dlog, home)[b] = home[b]
  BY <1>1, InstallFacts
<1>3. Install(dhead, dlog, home) = home
  BY <1>1, <1>2, InstallFacts
<1> QED
  BY <1>1, <1>3, InstallNothing, Zenon DEF Recovered

LEMMA ClearHeadView == ASSUME Inv, NEW p \in Procs, ClearHead(p) PROVE SameView
<1>1. mode = "up" /\ \A s \in CommitPcs : At(s) <=> s = "clear"
  BY OnlyCommitter, Zenon DEF Inv, ClearHead, CommitPcs
<1>2. dhead = lh /\ \A i \in 1..Len(lh) : home[lh[i]] = dlog[i]
  BY <1>1, Zenon DEF Inv, HeaderInv, DataInv, Installed, CommitPcs
<1>3. Recovered' = Recovered
  BY <1>2, ClearView, Zenon DEF ClearHead
<1> QED
  BY <1>1, <1>3, Zenon DEF SameView, Mem, Bread, ClearHead, cacheVars

LEMMA RecoverInstallView == ASSUME Inv, RecoverInstall PROVE SameView
<1>1. mode = "install" /\ mode' # "up" /\ dlog' = dlog /\ dhead' = dhead
  BY Zenon DEF RecoverInstall
<1>2. dhead = lh /\ Distinct(dhead) /\ tail \in 1..Len(dhead)
  BY <1>1, Zenon DEF Inv, HeaderInv
<1>3. dhead \in Seq(Blocks) /\ home \in [Blocks -> Val]
  BY Zenon DEF Inv, TypeOK, DiskTypeOK
<1>4. home' = [home EXCEPT ![dhead[tail]] = dlog[tail]]
  BY <1>2, Zenon DEF RecoverInstall, InstallBlock
<1>5. Install(dhead, dlog, home') = Install(dhead, dlog, home)
  <2>1. Install(dhead, dlog, [home EXCEPT ![dhead[tail]] = dlog[tail]]) = Install(dhead, dlog, home)
    <3>1. Distinct(dhead) /\ tail \in 1..Len(dhead)
      BY <1>2, Zenon
    <3> QED
      BY <3>1, <1>3, InstallIdempotent, Zenon
  <2> QED
    BY <1>4, <2>1, Zenon
<1> QED
  BY <1>1, <1>5, Zenon DEF SameView, Mem, Recovered

LEMMA RecoverClearView == ASSUME Inv, RecoverClear PROVE SameView
<1>1. /\ mode = "clear" /\ mode' = "up" /\ UNCHANGED <<dlog, home, cache, buf, pc>>
      /\ dhead = lh /\ dhead' = << >> /\ pc = Quiet
  BY Zenon DEF RecoverClear, cacheVars, procVars, Inv, HeaderInv, ControlInv
<1>2. \A i \in 1..Len(dhead) : home[dhead[i]] = dlog[i]
  BY <1>1, Zenon DEF Inv, DataInv, Installed
<1>3. Recovered = home /\ Recovered' = home
  BY <1>1, <1>2, ClearView, Zenon
<1>4. \A b \in Blocks : Unlocked(b)
  BY <1>1, LogAssumption, Zenon DEF LogAssumption, Inv, ControlInv, Quiet, Unlocked
<1>5. \A b \in Blocks : Bread(b)' = home[b]
  BY <1>1, <1>4, Zenon DEF Bread, Inv, DataInv
<1>6. Mem' = [b \in Blocks |-> home[b]] /\ home \in [Blocks -> Val]
  BY <1>1, <1>5, Zenon DEF Mem, Inv, TypeOK, DiskTypeOK
<1> QED
  BY <1>1, <1>3, <1>6, SMTT(20) DEF SameView, Mem

LEMMA CacheView == ASSUME Inv, NEW b \in Blocks, Fill(b) \/ Recycle(b) PROVE SameView
<1>1. UNCHANGED <<dhead, dlog, home, mode>>
  BY Zenon DEF Fill, Recycle, diskVars
<1>2. Recovered' = Recovered
  BY <1>1, Zenon DEF Recovered
<1>3. CASE mode # "up"
  BY <1>1, <1>2, <1>3, Zenon DEF SameView, Mem
<1>4. CASE mode = "up"
  <2>1. cache[b] # NoVal => cache[b] = home[b] /\ cache'[b] = NoVal
    BY <1>4 DEF Fill, Recycle, Recyclable, Inv, DataInv, TypeOK, MemTypeOK
  <2>2. cache[b] = NoVal => cache'[b] = home[b]
    BY Zenon DEF Fill, Recycle, Inv, TypeOK, MemTypeOK
  <2>3. \A x \in Blocks : x # b => cache'[x] = cache[x]
    BY Zenon DEF Fill, Recycle, Inv, TypeOK, MemTypeOK
  <2>4. \A x \in Blocks : Bread(x)' = Bread(x)
    BY <1>1, <2>1, <2>2, <2>3, Zenon DEF Bread
  <2> QED
    BY <1>1, <1>2, <1>4, <2>4, Zenon DEF SameView, Mem
<1> QED
  BY <1>3, <1>4, Zenon

\* One step of log.c is one step of AtomicDisk or leaves its view unchanged.
LEMMA StepRefines == ASSUME Inv, [Next]_vars PROVE [Abstract!Next]_(Abstract!avars)
<1> USE DEF Abstract!avars
<1>1. ASSUME NEW p \in Procs, BeginOp(p) PROVE Abstract!Begin(p) \/ UNCHANGED <<Mem, Recovered, Active>>
  <2>1. SameView
    BY <1>1, SameDisk, Zenon DEF BeginOp, diskVars, cacheVars
  <2>2. CASE MustWait
    <3>1. Active' = Active
      BY <1>1, <2>2, Zenon DEF BeginOp, Active, Inv, TypeOK, ProcTypeOK
    <3> QED
      BY <2>1, <3>1, Zenon DEF SameView
  <2>3. CASE ~MustWait
    <3>1. p \notin Active /\ Active' = Active \cup {p}
      BY <1>1, <2>3, Zenon DEF BeginOp, Active, Inv, TypeOK, ProcTypeOK
    <3> QED
      BY <2>1, <3>1, Zenon DEF SameView, Abstract!Begin
  <2> QED
    BY <2>2, <2>3, Zenon
<1>2. ASSUME NEW p \in Procs, NEW b \in Blocks, NEW v \in Val, Modify(p, b, v)
      PROVE  Abstract!Write(p, b, v)
  <2>1. mode = "up" /\ mode' = mode /\ p \in Active
    BY <1>2, ActiveFacts, Zenon DEF Inv, Modify
  <2>2. Recovered' = Recovered /\ Active' = Active
    BY <1>2, SMTT(20) DEF Modify, Recovered, diskVars, Active, Inv, TypeOK, ProcTypeOK
  <2>3. \A x \in Blocks : Bread(x)' = IF x = b THEN v ELSE Bread(x)
    BY <1>2, LogAssumption, SMTT(20) DEF LogAssumption, Modify, Bread, diskVars, Inv, TypeOK, MemTypeOK
  <2>4. Mem' = [Mem EXCEPT ![b] = v]
    BY <2>1, <2>3, Zenon DEF Mem
  <2> QED
    BY <2>1, <2>2, <2>4, Zenon DEF Abstract!Write
<1>3. ASSUME NEW p \in Procs, LogWrite(p) PROVE UNCHANGED <<Mem, Recovered, Active>>
  <2>1. SameView
    BY <1>3, SameDisk, ActiveFacts, Zenon DEF LogWrite, diskVars, Inv
  <2>2. Active' = Active
    BY <1>3, Zenon DEF LogWrite, Active, Inv, TypeOK, ProcTypeOK
  <2> QED
    BY <2>1, <2>2, Zenon DEF SameView
<1>4. ASSUME NEW p \in Procs, EndOp(p) PROVE Abstract!End(p)
  <2>1. SameView /\ p \in Active
    BY <1>4, SameDisk, ActiveFacts, Zenon DEF EndOp, diskVars, cacheVars, Inv
  <2>2. Active' = Active \ {p}
    BY <1>4, Zenon DEF EndOp, Active, Inv, TypeOK, ProcTypeOK, SpaceFreed, WakeupLog
  <2> QED
    BY <2>1, <2>2, Zenon DEF SameView, Abstract!End
<1>5. ASSUME NEW p \in Procs, CommitStep(p)
      PROVE  Abstract!Commit \/ UNCHANGED <<Mem, Recovered, Active>>
  <2>1. Active' = Active
    BY <1>5, Zenon DEF CommitStep, WriteLog, WriteHead, InstallTrans, ClearHead, FinishCommit,
               Advance, WakeupLog, Active, Inv, TypeOK, ProcTypeOK
  <2>2. CASE FinishCommit(p)
    BY <2>1, <2>2, SameDisk, OnlyCommitter, Zenon
    DEF FinishCommit, diskVars, cacheVars, Inv, CommitPcs, SameView
  <2> QED
    BY <1>5, <2>1, <2>2, WriteLogView, WriteHeadCommits, InstallTransView, ClearHeadView, Zenon
    DEF CommitStep, SameView
<1>6. ASSUME NEW b \in Blocks, Fill(b) \/ Recycle(b) PROVE UNCHANGED <<Mem, Recovered, Active>>
  BY <1>6, CacheView, Zenon DEF SameView, Active, Fill, Recycle, procVars
<1>7. CASE Recovery
  <2>1. Active' = Active
    BY <1>7, Zenon DEF Recovery, ReadHead, RecoverInstall, RecoverClear, procVars, Active
  <2>2. CASE ReadHead
    BY <2>1, <2>2, Zenon DEF ReadHead, diskVars, Mem, Recovered
  <2> QED
    BY <1>7, <2>1, <2>2, RecoverInstallView, RecoverClearView, Zenon DEF Recovery, SameView
<1>8. Crash => Abstract!Crash
  BY Zenon DEF Crash, Abstract!Crash, Mem, Recovered, diskVars, Active, Quiet
<1>9. CASE UNCHANGED vars
  BY <1>9, Zenon DEF vars, diskVars, cacheVars, procVars, Mem, Recovered, Bread, Active
<1>10. ASSUME NEW p \in Procs, Step(p) PROVE [Abstract!Next]_(Abstract!avars)
  <2>1. CASE \E b \in Blocks, v \in Val : Modify(p, b, v)
    <3>1. PICK b \in Blocks, v \in Val : Modify(p, b, v)
      BY <2>1, Zenon
    <3> QED
      BY <3>1, <1>2, Zenon DEF Abstract!Next
  <2>2. CASE BeginOp(p) \/ LogWrite(p) \/ EndOp(p) \/ CommitStep(p)
    BY <2>2, <1>1, <1>3, <1>4, <1>5, Zenon DEF Abstract!Next
  <2> QED
    BY <1>10, <2>1, <2>2, Zenon DEF Step
<1>11. CASE Crash
  BY <1>8, <1>11, Zenon DEF Abstract!Next
<1> QED
  BY <1>6, <1>7, <1>9, <1>10, <1>11, Zenon DEF Next

\* log.c makes file system calls atomic with respect to crashes: Log implements
\* AtomicDisk under the mapping of Mem, Recovered and Active.
THEOREM CrashAtomicity == Spec => CrashAtomic
<1>1. Init => Abstract!Init
  <2> SUFFICES ASSUME Init PROVE Abstract!Init
    OBVIOUS
  <2>1. home \in [Blocks -> Val] /\ dhead = << >> /\ home = [b \in Blocks |-> Zero]
    BY LogAssumption, Zenon DEF LogAssumption, Init
  <2>2. Recovered = home
    BY <2>1, InstallNothing, Zenon DEF Recovered
  <2> QED
    BY <2>1, <2>2, Zenon DEF Init, Abstract!Init, Mem, Active, Quiet
<1>2. Inv /\ [Next]_vars => [Abstract!Next]_(Abstract!avars)
  BY StepRefines, Zenon
<1> QED
  BY <1>1, <1>2, LogInvariant, PTL DEF Spec, CrashAtomic, Abstract!Spec

-----------------------------------------------------------------------------
(* The space of the log.                                                   *)

\* The blocks that the running calls have logged, call by call.
Logged == {w \in Active \X Blocks : w[2] \in wrote[w[1]]}

\* What a call has logged is in the header and within what a call writes, the block
\* it is modifying included; nothing is charged to a process outside a call.
ChargeInv ==
  \A p \in Procs :
    /\ wrote[p] \subseteq Range(lh)
    /\ p \notin Active => wrote[p] = {}
    /\ Cardinality(wrote[p]) <= OpBlocks
    /\ pc[p] = "buf" => Cardinality(wrote[p] \cup {buf[p]}) <= OpBlocks

SpaceInv == ChargeInv /\ (mode = "up" => Reserved) /\ SleeperHasReason

LEMMA HeaderFinite ==
  ASSUME TypeOK
  PROVE  /\ Range(lh) = {lh[i] : i \in 1..Len(lh)} /\ Len(lh) \in Nat
         /\ IsFiniteSet(Range(lh)) /\ Range(lh) \subseteq Blocks
<1>1. lh \in Seq(Blocks)
  BY Zenon DEF TypeOK, MemTypeOK
<1>2. Range(lh) = {lh[i] : i \in 1..Len(lh)} /\ Len(lh) \in Nat /\ Range(lh) \subseteq Blocks
  BY <1>1 DEF Range
<1>3. lh \in Surjection(1..Len(lh), Range(lh))
  BY <1>1, <1>2 DEF Surjection
<1>4. IsFiniteSet(1..Len(lh))
  BY <1>2, FS_Interval
<1> QED
  BY <1>2, <1>3, <1>4, FS_Surjection, Zenon

LoggedFact ==
  /\ IsFiniteSet(Logged) /\ Cardinality(Logged) \in Nat
  /\ Cardinality(Active) \in Nat
  /\ \A p \in Procs : IsFiniteSet(wrote[p]) /\ Cardinality(wrote[p]) \in Nat
  /\ Reserved <=> Len(lh) + MAXOPBLOCKS * Cardinality(Active)
                    <= LOGSIZE + Cardinality(Logged)

LEMMA LoggedFacts == TypeOK /\ ChargeInv => LoggedFact
<1> SUFFICES ASSUME TypeOK, ChargeInv PROVE LoggedFact
  OBVIOUS
<1>1. IsFiniteSet(Active \X Range(lh))
  BY HeaderFinite, ActiveFinite, FS_Product, Zenon
<1>2. Logged \subseteq Active \X Range(lh)
  BY Zenon DEF Logged, ChargeInv, Active
<1>3. IsFiniteSet(Logged)
  BY <1>1, <1>2, FS_Subset, Zenon
<1>4. \A p \in Procs : IsFiniteSet(wrote[p])
  BY HeaderFinite, FS_Subset, Zenon DEF ChargeInv
<1> QED
  BY <1>3, <1>4, ActiveFinite, FS_CardinalityType, Zenon DEF Reserved, Logged, LoggedFact

LEMMA LoggedFactsNext == TypeOK' /\ ChargeInv' => LoggedFact'
BY LoggedFacts, PTL

\* A step that changes neither the header nor who is where keeps the account.
LEMMA SpaceFrame ==
  ASSUME Inv, SpaceInv, Inv',
         lh' = lh, outstanding' = outstanding, committing' = committing, wrote' = wrote,
         buf' = buf, mode' = mode,
         \A p \in Procs : \A s \in {"asleep", "op", "buf"} : pc'[p] = s <=> pc[p] = s
  PROVE  SpaceInv'
<1>1. Active' = Active
  BY Zenon DEF Active
<1>2. Reserved' <=> Reserved
  BY <1>1, Zenon DEF Reserved
<1>3. MustWait' <=> MustWait
  BY Zenon DEF MustWait
<1>4. ChargeInv'
  BY <1>1, Zenon DEF SpaceInv, ChargeInv
<1>5. SleeperHasReason'
  BY <1>3, Zenon DEF SpaceInv, SleeperHasReason
<1> QED
  BY <1>2, <1>4, <1>5, Zenon DEF SpaceInv

LEMMA BeginOpSpace ==
  ASSUME Inv, SpaceInv, Inv', NEW p \in Procs, BeginOp(p)
  PROVE  SpaceInv'
<1> USE LogAssumption DEF LogAssumption
<1>0. /\ pc \in [Procs -> Pcs] /\ p \notin Active /\ mode = "up"
      /\ lh' = lh /\ wrote' = wrote /\ buf' = buf /\ committing' = committing
  BY Zenon DEF Inv, TypeOK, ProcTypeOK, BeginOp, Active
<1>1. CASE MustWait
  <2>1. Active' = Active /\ outstanding' = outstanding
    BY <1>0, <1>1, Zenon DEF BeginOp, Active
  <2>2. (Reserved' <=> Reserved) /\ (MustWait' <=> MustWait)
    BY <1>0, <2>1, Zenon DEF Reserved, MustWait
  <2>3. ChargeInv'
    BY <1>0, <1>1, <2>1, Zenon DEF SpaceInv, ChargeInv, BeginOp
  <2>4. committing = 1 \/ outstanding > 0
    <3> SUFFICES ASSUME committing = 0, outstanding = 0 PROVE FALSE
      BY DEF Inv, TypeOK, MemTypeOK
    <3>1. lh = << >>
      BY <1>0, Zenon DEF Inv, HeaderInv
    <3> QED
      BY <1>1, <3>1, ReserveAssumption DEF MustWait, ReserveAssumption
  <2>5. SleeperHasReason'
    BY <1>0, <1>1, <2>1, <2>2, <2>4, Zenon DEF SpaceInv, SleeperHasReason, BeginOp
  <2> QED
    BY <1>0, <2>2, <2>3, <2>5, Zenon DEF SpaceInv, BeginOp
<1>2. CASE ~MustWait
  <2>1. pc' = [pc EXCEPT ![p] = "op"] /\ Active' = Active \cup {p}
    BY <1>0, <1>2, Zenon DEF BeginOp, Active
  <2>2. outstanding' = outstanding + 1 /\ outstanding \in Nat
    BY <1>2, Zenon DEF BeginOp, Inv, TypeOK, MemTypeOK
  <2>3. ChargeInv'
    BY <1>0, <2>1, Zenon DEF SpaceInv, ChargeInv
  <2>4. Cardinality(Active') = outstanding + 1
    BY <2>2, Zenon DEF Inv, ControlInv
  <2>5. /\ Cardinality(Logged') \in Nat
        /\ Reserved' <=> Len(lh') + MAXOPBLOCKS * Cardinality(Active')
                           <= LOGSIZE + Cardinality(Logged')
    <3>1. TypeOK'
      BY Zenon DEF Inv
    <3> QED
      BY <2>3, <3>1, LoggedFactsNext, Zenon DEF LoggedFact
  <2>6. Len(lh) + MAXOPBLOCKS * (outstanding + 1) <= LOGSIZE
    BY <1>2, <2>2, HeaderFinite DEF MustWait, Inv
  <2>7. Reserved'
    <3>1. Len(lh) + MAXOPBLOCKS * Cardinality(Active') <= LOGSIZE
      BY <2>4, <2>6, Zenon
    <3>2. Len(lh) \in Nat /\ MAXOPBLOCKS * Cardinality(Active') \in Nat
      BY <2>2, <2>4, HeaderFinite DEF Inv
    <3> QED
      BY <1>0, <2>5, <3>1, <3>2
  <2>8. SleeperHasReason'
    BY <1>0, <1>2, <2>1, Zenon DEF SpaceInv, SleeperHasReason
  <2> QED
    BY <2>3, <2>7, <2>8, Zenon DEF SpaceInv
<1> QED
  BY <1>1, <1>2, Zenon

LEMMA ModifySpace ==
  ASSUME Inv, SpaceInv, Inv', NEW p \in Procs, NEW b \in Blocks, NEW v \in Val,
         Modify(p, b, v)
  PROVE  SpaceInv'
<1>0. /\ pc \in [Procs -> Pcs] /\ pc[p] = "op" /\ buf \in [Procs -> Blocks \cup {NoBlock}]
      /\ lh' = lh /\ wrote' = wrote /\ outstanding' = outstanding
      /\ committing' = committing /\ mode' = mode
      /\ pc' = [pc EXCEPT ![p] = "buf"] /\ buf' = [buf EXCEPT ![p] = b]
  BY Zenon DEF Inv, TypeOK, ProcTypeOK, Modify, logVars
<1>1. Active' = Active
  BY <1>0, Zenon DEF Active
<1>2. (Reserved' <=> Reserved) /\ (MustWait' <=> MustWait)
  BY <1>0, <1>1, Zenon DEF Reserved, MustWait
<1>3. ChargeInv'
  BY <1>0, <1>1, Zenon DEF SpaceInv, ChargeInv, Modify
<1>4. SleeperHasReason'
  BY <1>0, <1>2, Zenon DEF SpaceInv, SleeperHasReason
<1> QED
  BY <1>0, <1>2, <1>3, <1>4, Zenon DEF SpaceInv

LEMMA LogWriteSpace ==
  ASSUME Inv, SpaceInv, Inv', NEW p \in Procs, LogWrite(p)
  PROVE  SpaceInv'
<1> DEFINE b == buf[p]
<1> USE LogAssumption DEF LogAssumption
<1>0. /\ pc \in [Procs -> Pcs] /\ pc[p] = "buf" /\ wrote \in [Procs -> SUBSET Blocks]
      /\ outstanding' = outstanding /\ committing' = committing /\ mode' = mode
      /\ pc' = [pc EXCEPT ![p] = "op"]
      /\ wrote' = [wrote EXCEPT ![p] = wrote[p] \cup {b}]
      /\ TypeOK /\ TypeOK' /\ ChargeInv
  BY Zenon DEF Inv, TypeOK, ProcTypeOK, LogWrite, SpaceInv
<1>1. Active' = Active /\ p \in Active
  BY <1>0, Zenon DEF Active
<1>2. b \in Blocks
  BY <1>0, Zenon DEF Inv, TypeOK, ProcTypeOK, ControlInv
<1>3. \/ b \in Range(lh) /\ lh' = lh
      \/ b \notin Range(lh) /\ lh' = Append(lh, b)
  BY Zenon DEF LogWrite
<1>4. /\ Range(lh') = Range(lh) \cup {b}
      /\ Len(lh') = IF b \in Range(lh) THEN Len(lh) ELSE Len(lh) + 1
      /\ Len(lh) \in Nat
  <2>1. lh \in Seq(Blocks) /\ Range(lh) = {lh[i] : i \in 1..Len(lh)} /\ Len(lh) \in Nat
    BY <1>0, HeaderFinite, Zenon DEF TypeOK, MemTypeOK
  <2>2. lh' \in Seq(Blocks) /\ Range(lh') = {lh'[i] : i \in 1..Len(lh')}
    BY <1>0 DEF TypeOK, MemTypeOK, Range
  <2>3. CASE b \in Range(lh)
    BY <1>3, <2>1, <2>3, Zenon
  <2>4. CASE b \notin Range(lh)
    <3>1. lh' = Append(lh, b)
      BY <1>3, <2>4, Zenon
    <3>2. /\ Len(lh') = Len(lh) + 1 /\ lh'[Len(lh) + 1] = b
          /\ \A i \in 1..Len(lh) : lh'[i] = lh[i]
      BY <1>2, <2>1, <3>1
    <3>3. Range(lh') = Range(lh) \cup {b}
      BY <2>1, <2>2, <3>2
    <3> QED
      BY <2>1, <2>4, <3>2, <3>3, Zenon
  <2> QED
    BY <2>3, <2>4, Zenon
<1>5. ChargeInv'
  <2>1. ASSUME NEW q \in Procs, q # p
        PROVE  /\ wrote'[q] = wrote[q] /\ buf'[q] = buf[q] /\ pc'[q] = pc[q]
               /\ q \in Active' <=> q \in Active
    BY <1>0, <1>1, <2>1, Zenon DEF LogWrite, Inv, TypeOK, ProcTypeOK
  <2>2. /\ wrote'[p] = wrote[p] \cup {b} /\ pc'[p] # "buf" /\ p \in Active'
        /\ wrote[p] \subseteq Range(lh) /\ Cardinality(wrote[p] \cup {b}) <= OpBlocks
    BY <1>0, <1>1, Zenon DEF ChargeInv
  <2>3. ASSUME NEW q \in Procs
        PROVE  /\ wrote'[q] \subseteq Range(lh')
               /\ q \notin Active' => wrote'[q] = {}
               /\ Cardinality(wrote'[q]) <= OpBlocks
               /\ pc'[q] = "buf" => Cardinality(wrote'[q] \cup {buf'[q]}) <= OpBlocks
    <3>1. CASE q = p
      BY <1>4, <2>2, <3>1, Zenon
    <3>2. CASE q # p
      BY <1>0, <1>4, <2>1, <3>2, Zenon DEF ChargeInv
    <3> QED
      BY <3>1, <3>2, Zenon
  <2> QED
    BY <2>3, Zenon DEF ChargeInv
<1>6. Logged' = Logged \cup {<<p, b>>}
  BY <1>0, <1>1, <1>2 DEF Logged, Active
<1>7. b \notin Range(lh) => <<p, b>> \notin Logged
  BY <1>0, Zenon DEF ChargeInv, Logged
<1>8. /\ Cardinality(Logged') = IF <<p, b>> \in Logged THEN Cardinality(Logged)
                                ELSE Cardinality(Logged) + 1
      /\ Cardinality(Logged) \in Nat /\ Cardinality(Active) \in Nat
      /\ Reserved <=> Len(lh) + MAXOPBLOCKS * Cardinality(Active)
                        <= LOGSIZE + Cardinality(Logged)
  <2>1. IsFiniteSet(Logged)
    BY <1>0, LoggedFacts, Zenon DEF LoggedFact
  <2>2. Cardinality(Logged \cup {<<p, b>>}) =
          IF <<p, b>> \in Logged THEN Cardinality(Logged) ELSE Cardinality(Logged) + 1
    BY <2>1, FS_AddElement, Zenon
  <2> QED
    BY <1>0, <1>6, <2>2, LoggedFacts, Zenon DEF LoggedFact
<1>9. mode = "up" => Reserved'
  <2>1. Reserved' <=> Len(lh') + MAXOPBLOCKS * Cardinality(Active')
                        <= LOGSIZE + Cardinality(Logged')
    BY <1>0, <1>5, LoggedFactsNext, Zenon DEF LoggedFact
  <2>2. MAXOPBLOCKS * Cardinality(Active) \in Nat
    BY <1>8
  <2> DEFINE r == MAXOPBLOCKS * Cardinality(Active)
  <2>3. r \in Nat /\ (Reserved' <=> Len(lh') + r <= LOGSIZE + Cardinality(Logged'))
        /\ (Reserved <=> Len(lh) + r <= LOGSIZE + Cardinality(Logged))
    BY <1>1, <1>8, <2>1, <2>2, Zenon
  <2> HIDE DEF r
  <2>4. Reserved => Reserved'
    <3>1. Len(lh) \in Nat /\ Len(lh') + Cardinality(Logged) <= Len(lh) + Cardinality(Logged')
      BY <1>4, <1>7, <1>8
    <3>2. Cardinality(Logged) \in Nat /\ Cardinality(Logged') \in Nat /\ Len(lh') \in Nat
      BY <1>4, <1>8
    <3>3. LOGSIZE \in Nat
      BY LogAssumption, Zenon DEF LogAssumption
    <3> QED
      BY <2>3, <3>1, <3>2, <3>3
  <2> QED
    BY <2>4, Zenon DEF SpaceInv
<1>10. SleeperHasReason'
  <2>1. MustWait => MustWait'
    <3>1. (outstanding + 1) * MAXOPBLOCKS \in Nat
      BY DEF Inv, TypeOK, MemTypeOK
    <3> QED
      BY <1>0, <1>4, <3>1 DEF MustWait
  <2> QED
    BY <1>0, <2>1, Zenon DEF SpaceInv, SleeperHasReason
<1> QED
  BY <1>0, <1>5, <1>9, <1>10, Zenon DEF SpaceInv

LEMMA EndOpSpace ==
  ASSUME Inv, SpaceInv, Inv', NEW p \in Procs, EndOp(p)
  PROVE  SpaceInv'
<1> USE LogAssumption DEF LogAssumption
<1>0. /\ pc \in [Procs -> Pcs] /\ pc[p] = "op" /\ wrote \in [Procs -> SUBSET Blocks]
      /\ lh' = lh /\ buf' = buf /\ mode' = mode
      /\ wrote' = [wrote EXCEPT ![p] = {}]
      /\ TypeOK /\ TypeOK' /\ ChargeInv /\ p \in Active
  BY Zenon DEF Inv, TypeOK, ProcTypeOK, EndOp, SpaceInv, Active
<1>1. \A q \in Procs : q # p => \A s \in {"op", "buf"} : pc'[q] = s <=> pc[q] = s
  BY <1>0, Zenon DEF EndOp, SpaceFreed, WakeupLog
<1>2. pc'[p] \notin {"op", "buf", "asleep"}
  BY <1>0, Zenon DEF EndOp, SpaceFreed, WakeupLog
<1>3. Active' = Active \ {p}
  BY <1>1, <1>2, Zenon DEF Active
<1>4. ChargeInv'
  <2>1. Cardinality({}) <= OpBlocks
    BY FS_EmptySet
  <2>2. ASSUME NEW q \in Procs
        PROVE  /\ wrote'[q] \subseteq Range(lh')
               /\ q \notin Active' => wrote'[q] = {}
               /\ Cardinality(wrote'[q]) <= OpBlocks
               /\ pc'[q] = "buf" => Cardinality(wrote'[q] \cup {buf'[q]}) <= OpBlocks
    <3>1. CASE q = p
      BY <1>0, <1>2, <2>1, <3>1, Zenon
    <3>2. CASE q # p
      <4>1. wrote'[q] = wrote[q] /\ (q \in Active' <=> q \in Active)
        BY <1>0, <1>3, <3>2, Zenon
      <4> QED
        BY <1>0, <1>1, <3>2, <4>1, Zenon DEF ChargeInv
    <3> QED
      BY <3>1, <3>2, Zenon
  <2> QED
    BY <2>2, Zenon DEF ChargeInv
<1>5. Cardinality(Active') = Cardinality(Active) - 1 /\ Cardinality(Active) \in Nat
  <2>1. Cardinality(Active \ {p}) = Cardinality(Active) - 1
    BY <1>0, ActiveFinite, FS_RemoveElement, Zenon
  <2> QED
    BY <1>0, <1>3, <2>1, LoggedFacts, Zenon DEF LoggedFact
<1>6. Cardinality(Logged) <= Cardinality(Logged') + OpBlocks
  <2> DEFINE mine == {p} \X wrote[p]
  <2>1. Logged = Logged' \cup mine
    BY <1>0, <1>3, Zenon DEF Logged, Active
  <2>2. IsFiniteSet(wrote[p]) /\ Cardinality(wrote[p]) \in Nat /\ Cardinality(wrote[p]) <= OpBlocks
    BY <1>0, LoggedFacts, Zenon DEF LoggedFact, ChargeInv
  <2>3. IsFiniteSet(mine) /\ Cardinality(mine) = Cardinality(wrote[p])
    <3>1. IsFiniteSet({p}) /\ Cardinality({p}) = 1
      BY FS_Singleton, Zenon
    <3>2. IsFiniteSet(mine) /\ Cardinality(mine) = Cardinality({p}) * Cardinality(wrote[p])
      BY <2>2, <3>1, FS_Product, Zenon
    <3> QED
      BY <2>2, <3>1, <3>2
  <2>4. IsFiniteSet(Logged') /\ Cardinality(Logged') \in Nat
    BY <1>0, <1>4, LoggedFactsNext, Zenon DEF LoggedFact
  <2> HIDE DEF mine
  <2>5. /\ IsFiniteSet(Logged' \cap mine)
        /\ Cardinality(Logged' \cup mine) =
             Cardinality(Logged') + Cardinality(mine) - Cardinality(Logged' \cap mine)
    BY <2>3, <2>4, FS_Union, FS_Intersection, Zenon
  <2>6. Cardinality(Logged' \cap mine) \in Nat
    BY <2>5, FS_CardinalityType, Zenon
  <2> QED
    BY <2>1, <2>2, <2>3, <2>4, <2>5, <2>6
<1>7. mode = "up" => Reserved'
  <2>1. /\ Reserved' <=> Len(lh') + MAXOPBLOCKS * Cardinality(Active')
                           <= LOGSIZE + Cardinality(Logged')
        /\ Cardinality(Logged') \in Nat
    BY <1>0, <1>4, LoggedFactsNext, Zenon DEF LoggedFact
  <2>2. /\ Reserved <=> Len(lh) + MAXOPBLOCKS * Cardinality(Active)
                          <= LOGSIZE + Cardinality(Logged)
        /\ Cardinality(Logged) \in Nat /\ Len(lh) \in Nat
    BY <1>0, LoggedFacts, HeaderFinite, Zenon DEF LoggedFact
  <2>3. MAXOPBLOCKS * Cardinality(Active') = MAXOPBLOCKS * Cardinality(Active) - MAXOPBLOCKS
        /\ MAXOPBLOCKS * Cardinality(Active) \in Nat
    BY <1>5
  <2> QED
    BY <1>0, <1>6, <2>1, <2>2, <2>3, ReserveAssumption DEF SpaceInv, ReserveAssumption
<1>8. SleeperHasReason'
  <2>1. CASE LastOp
    BY <1>0, <2>1, Zenon DEF EndOp, SleeperHasReason, MustWait
  <2>2. CASE ~LastOp
    BY <1>0, <2>2, Zenon DEF EndOp, SpaceFreed, WakeupLog, SleeperHasReason
  <2> QED
    BY <2>1, <2>2, Zenon
<1> QED
  BY <1>0, <1>4, <1>7, <1>8, Zenon DEF SpaceInv

\* Between two transactions nothing is charged to anybody.
QuietLog ==
  TypeOK /\ Len(lh) <= LOGSIZE /\ Active = {} /\ \A p \in Procs : wrote[p] = {}

LEMMA QuietSpace == QuietLog => ChargeInv /\ Reserved
<1> SUFFICES ASSUME TypeOK, Len(lh) <= LOGSIZE, Active = {}, \A p \in Procs : wrote[p] = {}
             PROVE  ChargeInv /\ Reserved
  BY Zenon DEF QuietLog
<1> USE LogAssumption DEF LogAssumption
<1>1. Cardinality({}) = 0 /\ Cardinality({}) <= OpBlocks
  BY FS_EmptySet
<1>2. \A p \in Procs : pc[p] # "buf"
  BY Zenon DEF Active
<1>3. ChargeInv
  BY <1>1, <1>2, Zenon DEF ChargeInv
<1>4. Logged = {}
  BY Zenon DEF Logged
<1> QED
  BY <1>1, <1>3, <1>4, LoggedFacts, HeaderFinite DEF LoggedFact

LEMMA QuietSpaceNext == QuietLog' => ChargeInv' /\ Reserved'
BY QuietSpace, PTL

\* A step of commit(), of the boot or of the buffer cache.
LEMMA OtherSpace ==
  ASSUME Inv, SpaceInv, Inv', Next,
         ~ \E p \in Procs : BeginOp(p) \/ LogWrite(p) \/ EndOp(p)
                            \/ \E b \in Blocks, v \in Val : Modify(p, b, v)
  PROVE  SpaceInv'
<1>0. pc \in [Procs -> Pcs] /\ TypeOK /\ TypeOK'
  BY Zenon DEF Inv, TypeOK, ProcTypeOK
<1>1. ASSUME NEW p \in Procs, WriteLog(p) \/ WriteHead(p) \/ InstallTrans(p)
      PROVE  SpaceInv'
  <2>1. \E s \in {"write_log", "write_head", "install", "clear"} : pc' = [pc EXCEPT ![p] = s]
    BY <1>1, Zenon DEF WriteLog, WriteHead, InstallTrans, Advance
  <2>2. pc[p] \notin {"asleep", "op", "buf"}
    BY <1>1, Zenon DEF WriteLog, WriteHead, InstallTrans
  <2> QED
    BY <1>0, <1>1, <2>1, <2>2, SpaceFrame, Zenon DEF WriteLog, WriteHead, InstallTrans, logVars
<1>2. ASSUME NEW p \in Procs, ClearHead(p) PROVE SpaceInv'
  <2>1. Active = {} /\ committing = 1 /\ mode = "up"
    BY <1>2, OnlyCommitter, Zenon DEF ClearHead, CommitPcs, Inv
  <2>2. Active' = {} /\ \A q \in Procs : wrote'[q] = {}
    BY <1>0, <1>2, <2>1, Zenon DEF ClearHead, Active, SpaceInv, ChargeInv
  <2>3. Len(lh') <= LOGSIZE
    BY Zenon DEF Inv, HeaderInv
  <2>4. ChargeInv' /\ Reserved'
    BY <1>0, <2>2, <2>3, QuietSpaceNext, Zenon DEF QuietLog
  <2>5. SleeperHasReason'
    BY <1>2, <2>1, Zenon DEF ClearHead, SleeperHasReason, MustWait
  <2> QED
    BY <2>4, <2>5, Zenon DEF SpaceInv
<1>3. ASSUME NEW p \in Procs, FinishCommit(p) PROVE SpaceInv'
  <2>1. Active = {}
    BY <1>3, OnlyCommitter, Zenon DEF FinishCommit, CommitPcs, Inv
  <2>2. /\ \A q \in Procs : pc'[q] \notin {"asleep", "op", "buf"}
        /\ \A q \in Procs : wrote'[q] = {}
    BY <1>0, <1>3, <2>1, Zenon DEF FinishCommit, WakeupLog, Active, SpaceInv, ChargeInv
  <2>3. Active' = {} /\ SleeperHasReason'
    BY <2>2, Zenon DEF Active, SleeperHasReason
  <2>4. Len(lh') <= LOGSIZE
    BY Zenon DEF Inv, HeaderInv
  <2> QED
    BY <1>0, <2>2, <2>3, <2>4, QuietSpaceNext, Zenon DEF QuietLog, SpaceInv
<1>4. ASSUME NEW b \in Blocks, Fill(b) \/ Recycle(b) PROVE SpaceInv'
  BY <1>4, SpaceFrame, Zenon DEF Fill, Recycle, logVars, procVars
<1>5. CASE Recovery \/ Crash
  <2>1. pc' = Quiet /\ \A q \in Procs : wrote'[q] = {}
    <3>1. CASE Crash
      BY <3>1, Zenon DEF Crash
    <3>2. CASE Recovery
      <4>1. mode # "up" /\ pc' = pc /\ wrote' = wrote
        BY <3>2, Zenon DEF Recovery, ReadHead, RecoverInstall, RecoverClear, procVars
      <4>2. pc = Quiet
        BY <4>1, Zenon DEF Inv, ControlInv
      <4> QED
        BY <4>1, <4>2, Zenon DEF Quiet, Active, SpaceInv, ChargeInv
    <3> QED
      BY <1>5, <3>1, <3>2, Zenon
  <2>2. Active' = {} /\ SleeperHasReason'
    BY <2>1, Zenon DEF Quiet, Active, SleeperHasReason
  <2>3. Len(lh') <= LOGSIZE
    BY Zenon DEF Inv, HeaderInv
  <2> QED
    BY <1>0, <2>1, <2>2, <2>3, QuietSpaceNext, Zenon DEF QuietLog, SpaceInv
<1> QED
  BY <1>1, <1>2, <1>3, <1>4, <1>5, Zenon DEF Next, Step, CommitStep

\* begin_op(), log_write() and end_op() keep the account of the log's blocks, for
\* any sizes with which no call writes more than MAXOPBLOCKS: what the running calls
\* may still log fits, and who sleeps in begin_op() has a reason and a waker.
THEOREM LogSpace == Spec => []SpaceAccounted
<1>1. Init => SpaceInv
  <2> SUFFICES ASSUME Init PROVE SpaceInv
    OBVIOUS
  <2>1. TypeOK /\ Len(lh) <= LOGSIZE
    BY InitInv, Zenon DEF Inv, HeaderInv
  <2>2. Active = {} /\ SleeperHasReason /\ \A p \in Procs : wrote[p] = {}
    BY Zenon DEF Init, Quiet, Active, SleeperHasReason
  <2> QED
    BY <2>1, <2>2, QuietSpace, Zenon DEF QuietLog, SpaceInv
<1>2. Inv /\ Inv' /\ SpaceInv /\ [Next]_vars => SpaceInv'
  <2> SUFFICES ASSUME Inv, Inv', SpaceInv, [Next]_vars PROVE SpaceInv'
    OBVIOUS
  <2>1. CASE UNCHANGED vars
    BY <2>1, SpaceFrame, Zenon DEF vars, logVars, procVars
  <2>2. CASE Next
    BY <2>2, BeginOpSpace, ModifySpace, LogWriteSpace, EndOpSpace, OtherSpace, Zenon
  <2> QED
    BY <2>1, <2>2, Zenon
<1>3. Inv /\ SpaceInv => SpaceAccounted
  <2> SUFFICES ASSUME Inv, SpaceInv PROVE NoPanic
    BY Zenon DEF SpaceAccounted, SpaceInv
  <2>1. ASSUME NEW p \in Procs, pc[p] \in {"op", "buf"} PROVE committing = 0 /\ outstanding >= 1
    <3>1. committing = 0 /\ p \in Active
      BY <2>1, ActiveFacts, Zenon DEF Inv
    <3>2. Cardinality(Active) # 0 /\ Cardinality(Active) \in Nat
      BY <3>1, ActiveFinite, FS_EmptySet, FS_CardinalityType, Zenon
    <3> QED
      BY <3>1, <3>2 DEF Inv, ControlInv
  <2> QED
    BY <2>1, Zenon DEF NoPanic
<1> QED
  BY <1>1, <1>2, <1>3, LogInvariant, PTL DEF Spec
=============================================================================
