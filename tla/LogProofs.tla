----------------------------- MODULE LogProofs ------------------------------
(***************************************************************************)
(* The inductive invariant Inv of Log, for any set of blocks, values and   *)
(* processes and any log size, that every step, crash and recovery keeps   *)
(* it, and the safety theorems that follow.                                *)
(***************************************************************************)
EXTENDS Log, FiniteSetTheorems, TLAPS

CommitPcs == {"write_log", "write_head", "install", "clear", "finish"}

Committers == {p \in Procs : pc[p] \in CommitPcs}

\* Some process is at the given point of commit().
At(s) == \E p \in Procs : pc[p] = s

Distinct(s) == \A i, j \in 1..Len(s) : s[i] = s[j] => i = j

\* Entry i of the header has been copied to its home block by install_trans().
Installed(i) == \/ At("install") /\ i < tail
                \/ At("clear")
                \/ mode = "install" /\ i < tail
                \/ mode = "clear"

\* A block whose buffer log_write() has pinned and install_trans() not yet unpinned.
Pending(b) == \E i \in 1..Len(lh) : lh[i] = b /\ ~Installed(i)

\* Who is where: outstanding counts the calls between begin_op() and end_op();
\* at most one process commits, and only while there is no such call.
ControlInv ==
  /\ outstanding = Cardinality(Active)
  /\ committing = 1 <=> Committers # {}
  /\ committing = 1 => Active = {}
  /\ \A p, q \in Committers : p = q
  /\ \A p \in Procs : buf[p] # NoBlock <=> pc[p] = "buf"
  /\ \A p, q \in Procs : buf[p] = buf[q] /\ buf[p] # NoBlock => p = q
  /\ mode # "up" => pc = Quiet /\ committing = 0

\* The header in memory and the header on disk, phase by phase.
HeaderInv ==
  /\ Len(lh) <= LOGSIZE /\ Len(dhead) <= LOGSIZE
  /\ Distinct(lh) /\ Distinct(dhead)
  /\ IF At("write_log") \/ At("install") \/ mode = "install"
     THEN tail \in 1..Len(lh)
     ELSE tail = 1
  /\ mode = "up" => dhead = IF At("install") \/ At("clear") THEN lh ELSE << >>
  /\ mode \in {"install", "clear"} => lh = dhead
  /\ mode = "boot" => lh = << >>
  /\ At("finish") => lh = << >>
  /\ At("write_head") => lh # << >>
  /\ mode = "up" /\ outstanding = 0 /\ committing = 0 => lh = << >>

\* The copies of a block: in the cache, in the log, at home.
DataInv ==
  /\ mode # "up" => pins = [b \in Blocks |-> 0]
  /\ mode = "up" => \A b \in Blocks : pins[b] = IF Pending(b) THEN 1 ELSE 0
  /\ mode = "up" => \A b \in Blocks : Pending(b) => cache[b] # NoVal
  /\ \A p \in Procs : buf[p] # NoBlock => cache[buf[p]] # NoVal
  /\ \A b \in Blocks : (mode = "up" => ~Pending(b)) /\ Unlocked(b) => cache[b] \in {NoVal, home[b]}
  /\ \A i \in 1..Len(lh) : Installed(i) => home[lh[i]] = dlog[i]
  /\ At("write_log") => \A i \in 1..Len(lh) : i < tail => dlog[i] = cache[lh[i]]
  /\ At("write_head") \/ At("install") =>
       \A i \in 1..Len(lh) : ~Installed(i) => dlog[i] = cache[lh[i]]

Inv == TypeOK /\ ControlInv /\ HeaderInv /\ DataInv

-----------------------------------------------------------------------------
(* Facts about the phases, used by every step below.                       *)

LEMMA NoCommitter ==
  ASSUME ControlInv, committing = 0
  PROVE  Committers = {} /\ \A s \in CommitPcs : ~At(s)
BY DEF ControlInv, Committers, At

LEMMA OnlyCommitter ==
  ASSUME TypeOK, ControlInv, NEW p \in Procs, pc[p] \in CommitPcs
  PROVE  /\ mode = "up" /\ committing = 1 /\ Active = {} /\ Committers = {p}
         /\ \A s \in CommitPcs : At(s) <=> pc[p] = s
         /\ \A b \in Blocks : Unlocked(b)
<1>1. Committers = {p} /\ committing = 1 /\ Active = {}
  BY DEF ControlInv, Committers
<1>2. mode = "up"
  BY Zenon DEF ControlInv, Quiet, CommitPcs
<1>3. \A s \in CommitPcs : At(s) <=> pc[p] = s
  BY <1>1, Zenon DEF At, Committers
<1>4. \A b \in Blocks : Unlocked(b)
  BY <1>1, LogAssumption, Zenon DEF LogAssumption, ControlInv, Active, Unlocked
<1> QED
  BY <1>1, <1>2, <1>3, <1>4, Zenon

LEMMA ActiveFacts ==
  ASSUME TypeOK, ControlInv, NEW p \in Procs, pc[p] \in {"op", "buf"}
  PROVE  mode = "up" /\ committing = 0 /\ p \in Active
BY Zenon DEF ControlInv, TypeOK, MemTypeOK, Quiet, Active

LEMMA DataKept ==
  ASSUME DataInv, mode = "up", mode' = "up", UNCHANGED <<cache, home, pins, buf>>,
         \A x \in Blocks : Pending(x)' <=> Pending(x),
         \A i \in 1..Len(lh') : Installed(i)' => home[lh'[i]] = dlog'[i],
         At("write_log")' => \A i \in 1..Len(lh') : i < tail' => dlog'[i] = cache[lh'[i]],
         At("write_head")' \/ At("install")' =>
           \A i \in 1..Len(lh') : ~Installed(i)' => dlog'[i] = cache[lh'[i]]
  PROVE  DataInv'
<1>1. \A x \in Blocks : Unlocked(x)' <=> Unlocked(x)
  BY Zenon DEF Unlocked
<1> QED
  BY <1>1, Zenon DEF DataInv

LEMMA ActiveFinite == IsFiniteSet(Active)
BY FS_Subset, LogAssumption, Zenon DEF LogAssumption, Active

-----------------------------------------------------------------------------
LEMMA InitInv == Init => Inv
<1> SUFFICES ASSUME Init PROVE Inv
  OBVIOUS
<1> USE LogAssumption DEF LogAssumption
<1>1. TypeOK
  BY DEF Init, TypeOK, DiskTypeOK, MemTypeOK, ProcTypeOK, Quiet, Pcs
<1>2. Active = {} /\ Committers = {} /\ \A s \in CommitPcs : ~At(s)
  BY Zenon DEF Init, Quiet, Active, Committers, CommitPcs, At
<1>3. ControlInv
  BY <1>2, FS_EmptySet DEF Init, ControlInv, Quiet
<1>4. HeaderInv
  BY <1>2 DEF Init, HeaderInv, CommitPcs, Distinct
<1>5. DataInv
  BY <1>2 DEF Init, DataInv, CommitPcs
<1> QED
  BY <1>1, <1>3, <1>4, <1>5, Zenon DEF Inv

LEMMA BeginOpInv == ASSUME Inv, NEW p \in Procs, BeginOp(p) PROVE Inv'
<1> USE LogAssumption DEF LogAssumption, Inv, TypeOK
<1>1. DiskTypeOK' /\ MemTypeOK'
  BY DEF DiskTypeOK, MemTypeOK, BeginOp, diskVars, cacheVars
<1>2. ProcTypeOK'
  BY Zenon DEF ProcTypeOK, BeginOp, Pcs
<1>3. /\ \A s \in CommitPcs : At(s)' <=> At(s)
      /\ Committers' = Committers
  BY Zenon DEF ProcTypeOK, BeginOp, At, CommitPcs, Committers
<1>4. ControlInv'
  <2>1. CASE MustWait
    <3>1. Active' = Active
      BY <2>1, Zenon DEF ProcTypeOK, BeginOp, Active
    <3> QED
      BY <2>1, <1>3, <3>1, Zenon DEF ProcTypeOK, BeginOp, ControlInv, Quiet
  <2>2. CASE ~MustWait
    <3>1. p \notin Active /\ Active' = Active \cup {p}
      BY <2>2, Zenon DEF ProcTypeOK, BeginOp, Active
    <3>2. Cardinality(Active') = Cardinality(Active) + 1
      BY <3>1, ActiveFinite, FS_AddElement, Zenon
    <3>3. committing = 0
      BY <2>2, Zenon DEF MemTypeOK, MustWait
    <3> QED
      BY <2>2, <1>3, <3>1, <3>2, <3>3 DEF ProcTypeOK, BeginOp, ControlInv, Quiet
  <2> QED
    BY <2>1, <2>2, Zenon
<1>5. HeaderInv'
  <2>1. mode' = "up" /\ outstanding' = 0 => outstanding = 0
    BY DEF BeginOp, MemTypeOK
  <2> QED
    BY <1>3, <2>1 DEF BeginOp, HeaderInv, CommitPcs, Distinct, diskVars
<1>6. DataInv'
  BY <1>3 DEF BeginOp, DataInv, CommitPcs, Pending, Installed, Unlocked, diskVars, cacheVars
<1> QED
  BY <1>1, <1>2, <1>4, <1>5, <1>6, Zenon

LEMMA ModifyInv ==
  ASSUME Inv, NEW p \in Procs, NEW b \in Blocks, NEW v \in Val, Modify(p, b, v)
  PROVE  Inv'
<1> USE LogAssumption DEF LogAssumption, Inv, TypeOK
<1>0. mode = "up" /\ committing = 0 /\ \A s \in CommitPcs : ~At(s)
  BY ActiveFacts, NoCommitter, Zenon DEF Modify
<1>1. DiskTypeOK' /\ MemTypeOK' /\ ProcTypeOK'
  BY Zenon DEF DiskTypeOK, MemTypeOK, ProcTypeOK, Modify, diskVars, logVars, Pcs
<1>3. /\ \A s \in CommitPcs : ~At(s)'
      /\ Committers' = Committers /\ Active' = Active
  BY <1>0, Zenon DEF ProcTypeOK, Modify, At, CommitPcs, Committers, Active
<1>4. ControlInv'
  BY <1>0, <1>3, Zenon DEF ProcTypeOK, Modify, ControlInv, Unlocked, logVars
<1>5. HeaderInv'
  BY <1>0, <1>3 DEF Modify, HeaderInv, CommitPcs, Distinct, diskVars, logVars
<1>6. DataInv'
  <2>1. \A x \in Blocks : Pending(x)' <=> Pending(x)
    BY <1>0, <1>3, Zenon DEF Modify, Pending, Installed, CommitPcs, logVars
  <2>2. \A i \in 1..Len(lh) : ~Installed(i) /\ ~Installed(i)'
    BY <1>0, <1>3, Zenon DEF Modify, Installed, CommitPcs, logVars
  <2>3. cache' = [cache EXCEPT ![b] = v] /\ v # NoVal /\ cache \in [Blocks -> Val \cup {NoVal}]
    BY Zenon DEF Modify, MemTypeOK
  <2>4. \A q \in Procs : buf'[q] # NoBlock => cache'[buf'[q]] # NoVal
    BY <2>3 DEF Modify, DataInv, ProcTypeOK
  <2>5. \A x \in Blocks : ~Pending(x)' /\ Unlocked(x)' => cache'[x] \in {NoVal, home'[x]}
    <3>1. buf[p] = NoBlock /\ home' = home
      BY Zenon DEF Modify, ControlInv, diskVars
    <3>2. \A x \in Blocks : Unlocked(x)' => x # b /\ Unlocked(x)
      BY <3>1, Zenon DEF Modify, Unlocked, ProcTypeOK
    <3> QED
      BY <1>0, <2>1, <2>3, <3>1, <3>2, Zenon DEF DataInv
  <2> QED
    BY <1>0, <1>3, <2>1, <2>2, <2>3, <2>4, <2>5, Zenon DEF Modify, DataInv, CommitPcs, diskVars, logVars
<1> QED
  BY <1>1, <1>4, <1>5, <1>6, Zenon

LEMMA LogWriteInv == ASSUME Inv, NEW p \in Procs, LogWrite(p) PROVE Inv'
<1> DEFINE b == buf[p]
<1> USE LogAssumption DEF LogAssumption, Inv, TypeOK
<1>0. mode = "up" /\ committing = 0 /\ \A s \in CommitPcs : ~At(s)
  BY ActiveFacts, NoCommitter, Zenon DEF LogWrite, Pin
<1>1. b \in Blocks /\ b # NoBlock /\ cache[b] # NoVal
  BY DEF LogWrite, Pin, ControlInv, DataInv, ProcTypeOK
<1>b. lh \in Seq(Blocks)
  BY Zenon DEF MemTypeOK
<1>2. DiskTypeOK' /\ MemTypeOK' /\ ProcTypeOK'
  <2>1. DiskTypeOK' /\ ProcTypeOK'
    BY <1>1, Zenon DEF DiskTypeOK, ProcTypeOK, LogWrite, Pin, diskVars, Pcs
  <2>2. lh' = lh \/ lh' = Append(lh, b)
    BY <1>1, Zenon DEF LogWrite, Pin
  <2>3. pins' = pins \/ pins' = [pins EXCEPT ![b] = @ + 1]
    BY <1>1, Zenon DEF LogWrite, Pin
  <2>4. lh' \in Seq(Blocks)
    BY <1>1, <1>b, <2>2
  <2>5. pins' \in [Blocks -> Nat]
    BY <1>1, <2>3 DEF MemTypeOK
  <2> QED
    BY <2>1, <2>4, <2>5, Zenon DEF LogWrite, Pin, MemTypeOK
<1>3. /\ \A s \in CommitPcs : ~At(s)'
      /\ Committers' = Committers /\ Active' = Active
  BY <1>0, Zenon DEF ProcTypeOK, LogWrite, Pin, At, CommitPcs, Committers, Active
<1>4. ControlInv'
  BY <1>0, <1>3, Zenon DEF ProcTypeOK, LogWrite, Pin, ControlInv, diskVars
<1>5. /\ \A i \in 1..Len(lh) : ~Installed(i)
      /\ \A i \in 1..Len(lh') : ~Installed(i)'
  BY <1>0, <1>3, Zenon DEF LogWrite, Pin, Installed, CommitPcs
<1>6. Range(lh) = {lh[i] : i \in 1..Len(lh)}
  BY DEF Range, MemTypeOK
<1>7. \A x \in Blocks : Pending(x) <=> x \in Range(lh)
  BY <1>5, <1>6, Zenon DEF Pending
<1>8. HeaderInv' /\ \A x \in Blocks : Pending(x)' <=> Pending(x) \/ x = b
  <2>1. CASE b \in Range(lh)
    BY <2>1, <1>0, <1>3, <1>5, <1>7
    DEF LogWrite, Pin, HeaderInv, CommitPcs, Distinct, diskVars, Pending
  <2>2. CASE b \notin Range(lh)
    <3>0. lh' = Append(lh, b)
      BY <2>2, Zenon DEF LogWrite, Pin
    <3>1. /\ lh' \in Seq(Blocks) /\ Len(lh') = Len(lh) + 1 /\ lh'[Len(lh) + 1] = b
          /\ \A i \in 1..Len(lh) : lh'[i] = lh[i]
      BY <3>0, <1>1, <1>b
    <3>2. Len(lh') <= LOGSIZE
      BY <3>1 DEF LogWrite, Pin, TooBig, MemTypeOK
    <3>3. Distinct(lh')
      <4> Distinct(lh) /\ Len(lh) \in Nat
        BY <1>b DEF HeaderInv
      <4> \A i \in 1..Len(lh) : lh[i] # b
        BY <2>2, <1>6, Zenon
      <4> QED
        BY <3>1 DEF Distinct
    <3>4. HeaderInv'
      BY <1>0, <1>3, <3>2, <3>3 DEF LogWrite, Pin, HeaderInv, CommitPcs, diskVars, Distinct
    <3>5. \A x \in Blocks : Pending(x)' <=> \E i \in 1..Len(lh') : lh'[i] = x
      BY <1>5, Zenon DEF Pending
    <3>6. \A x \in Blocks : Pending(x)' <=> Pending(x) \/ x = b
      <4> Len(lh) \in Nat
        BY <1>b
      <4>1. 1..Len(lh') = 1..Len(lh) \cup {Len(lh) + 1}
        BY <3>1
      <4>2. \A x \in Blocks : Pending(x) <=> \E i \in 1..Len(lh) : lh[i] = x
        BY <1>6, <1>7, Zenon
      <4> QED
        BY <3>1, <3>5, <4>1, <4>2, Zenon
    <3> QED
      BY <3>4, <3>6, Zenon
  <2> QED
    BY <2>1, <2>2, Zenon
<1>9. DataInv'
  <2>1. \A x \in Blocks : pins'[x] = IF Pending(x)' THEN 1 ELSE 0
    <3>1. \A x \in Blocks : pins[x] = IF Pending(x) THEN 1 ELSE 0
      BY <1>0, Zenon DEF DataInv
    <3>2. \A x \in Blocks : pins'[x] = IF x = b /\ ~Pending(b) THEN pins[b] + 1 ELSE pins[x]
      BY <1>1, <1>7, Zenon DEF LogWrite, Pin, MemTypeOK
    <3> QED
      BY <1>1, <1>8, <3>1, <3>2
  <2>2. UNCHANGED <<cache, home, dlog, tail, mode>>
    BY Zenon DEF LogWrite, diskVars
  <2>3. \A q \in Procs : buf'[q] = IF q = p THEN NoBlock ELSE buf[q]
    BY Zenon DEF LogWrite, ProcTypeOK
  <2>4. \A x \in Blocks : Unlocked(x)' /\ x # b => Unlocked(x)
    BY <2>3, Zenon DEF Unlocked
  <2>5. \A x \in Blocks : Pending(x)' => cache[x] # NoVal
    BY <1>0, <1>1, <1>8, Zenon DEF DataInv
  <2>6. \A q \in Procs : buf'[q] # NoBlock => cache[buf'[q]] # NoVal
    BY <2>3, Zenon DEF DataInv
  <2>7. \A x \in Blocks : ~Pending(x)' /\ Unlocked(x)' => cache[x] \in {NoVal, home[x]}
    BY <1>1, <1>8, <2>4, Zenon DEF DataInv
  <2>8. ~At("write_log")' /\ ~At("write_head")' /\ ~At("install")'
    BY <1>3, Zenon DEF CommitPcs
  <2> QED
    BY <1>0, <1>5, <2>1, <2>2, <2>5, <2>6, <2>7, <2>8, Zenon DEF DataInv
<1> QED
  BY <1>2, <1>4, <1>8, <1>9, Zenon

LEMMA EndOpInv == ASSUME Inv, NEW p \in Procs, EndOp(p) PROVE Inv'
<1> USE LogAssumption DEF LogAssumption, Inv, TypeOK
<1>0. mode = "up" /\ committing = 0 /\ p \in Active /\ \A s \in CommitPcs : ~At(s)
  BY ActiveFacts, NoCommitter, Zenon DEF EndOp
<1>1. Cardinality(Active \ {p}) = outstanding - 1 /\ outstanding >= 1
  <2>1. Cardinality(Active \ {p}) = Cardinality(Active) - 1
    BY <1>0, ActiveFinite, FS_RemoveElement, Zenon
  <2>2. IsFiniteSet(Active \ {p}) /\ Cardinality(Active \ {p}) \in Nat
    BY ActiveFinite, FS_Subset, FS_CardinalityType, Zenon
  <2>3. Cardinality(Active) \in Nat
    BY ActiveFinite, FS_CardinalityType, Zenon
  <2> QED
    BY <2>1, <2>2, <2>3 DEF ControlInv
<1>2. DiskTypeOK' /\ MemTypeOK'
  <2>1. outstanding' \in Nat /\ committing' \in {0, 1} /\ tail' \in Nat
    BY <1>1 DEF MemTypeOK, EndOp
  <2> QED
    BY <2>1, Zenon DEF DiskTypeOK, MemTypeOK, EndOp, diskVars, cacheVars
<1>3. ProcTypeOK'
  BY Zenon DEF ProcTypeOK, EndOp, SpaceFreed, WakeupLog, Pcs
<1>4. Active' = Active \ {p}
  BY Zenon DEF EndOp, Active, ProcTypeOK, SpaceFreed, WakeupLog
<1>5. CASE LastOp
  <2>1. Active' = {}
    BY <1>1, <1>4, <1>5, ActiveFinite, FS_EmptySet, FS_Subset, FS_RemoveElement DEF LastOp
  <2>2. Committers' = {p} /\ \A s \in CommitPcs : At(s)' <=> pc'[p] = s
    BY <1>0, <1>5, NoCommitter DEF EndOp, Committers, CommitPcs, At, ProcTypeOK
  <2>3. ControlInv'
    BY <1>0, <1>1, <1>4, <1>5, <2>1, <2>2, Zenon DEF ControlInv, EndOp, LastOp, ProcTypeOK
  <2>4. pc'[p] \in {"write_log", "finish"} /\ (pc'[p] = "write_log" <=> Len(lh) > 0)
    BY <1>5, Zenon DEF EndOp, ProcTypeOK
  <2>5. HeaderInv'
    BY <1>0, <1>5, <2>2, <2>4 DEF HeaderInv, EndOp, CommitPcs, Distinct, diskVars, MemTypeOK
  <2>6. /\ \A i \in 1..Len(lh) : ~Installed(i) /\ ~Installed(i)'
        /\ \A x \in Blocks : Pending(x)' <=> Pending(x)
    BY <1>0, <2>2, <2>4, Zenon DEF EndOp, Installed, Pending, CommitPcs
  <2>7. DataInv'
    <3>1. UNCHANGED <<cache, home, pins, buf, lh, mode>> /\ tail' = 1
      BY <1>5, Zenon DEF EndOp, diskVars, cacheVars
    <3>2. ~At("write_head")' /\ ~At("install")'
      BY <2>2, <2>4, Zenon DEF CommitPcs
    <3> QED
      BY <1>0, <2>6, <3>1, <3>2, DataKept
  <2> QED
    BY <1>2, <1>3, <2>3, <2>5, <2>7, Zenon
<1>6. CASE ~LastOp
  <2>2. Committers' = {} /\ \A s \in CommitPcs : ~At(s)'
    BY <1>0, <1>6, NoCommitter, Zenon DEF EndOp, Committers, CommitPcs, At, ProcTypeOK, SpaceFreed, WakeupLog
  <2>3. ControlInv'
    BY <1>0, <1>1, <1>4, <1>6, <2>2, Zenon
    DEF ControlInv, EndOp, LastOp, ProcTypeOK, SpaceFreed, WakeupLog
  <2>5. HeaderInv'
    <3>1. outstanding' # 0
      BY <1>1, <1>6 DEF EndOp, LastOp, MemTypeOK
    <3> QED
      BY <1>0, <1>6, <2>2, <3>1 DEF HeaderInv, EndOp, CommitPcs, Distinct, diskVars
  <2>6. /\ \A i \in 1..Len(lh) : ~Installed(i) /\ ~Installed(i)'
        /\ \A x \in Blocks : Pending(x)' <=> Pending(x)
    BY <1>0, <2>2, Zenon DEF EndOp, Installed, Pending, CommitPcs
  <2>7. DataInv'
    <3>1. UNCHANGED <<cache, home, pins, buf, lh, mode>>
      BY Zenon DEF EndOp, diskVars, cacheVars
    <3>2. ~At("write_log")' /\ ~At("write_head")' /\ ~At("install")'
      BY <2>2, Zenon DEF CommitPcs
    <3> QED
      BY <1>0, <2>6, <3>1, <3>2, DataKept, Zenon
  <2> QED
    BY <1>2, <1>3, <2>3, <2>5, <2>7, Zenon
<1> QED
  BY <1>5, <1>6, Zenon

LEMMA WriteLogInv == ASSUME Inv, NEW p \in Procs, WriteLog(p) PROVE Inv'
<1> DEFINE b == lh[tail]
<1> USE LogAssumption DEF LogAssumption, Inv, TypeOK
<1>0. /\ mode = "up" /\ committing = 1 /\ Active = {} /\ Committers = {p}
      /\ \A s \in CommitPcs : At(s) <=> s = "write_log"
  BY OnlyCommitter, Zenon DEF WriteLog, CommitPcs
<1>1. lh \in Seq(Blocks) /\ tail \in 1..Len(lh) /\ b \in Blocks /\ Len(lh) <= LOGSIZE /\ Len(lh) \in Nat
  <2>1. lh \in Seq(Blocks) /\ tail \in 1..Len(lh) /\ Len(lh) <= LOGSIZE
    BY <1>0, Zenon DEF HeaderInv, CommitPcs, MemTypeOK
  <2> QED
    BY <2>1
<1>2. \A i \in 1..Len(lh) : ~Installed(i)
  BY <1>0, Zenon DEF Installed, CommitPcs
<1>3. Pending(b) /\ cache[b] # NoVal /\ Bread(b) = cache[b] /\ cache[b] \in Val
  <2>1. Pending(b)
    BY <1>1, <1>2, Zenon DEF Pending
  <2>2. cache[b] # NoVal
    BY <1>0, <1>1, <2>1, Zenon DEF DataInv
  <2> QED
    BY <1>1, <2>1, <2>2, Zenon DEF Bread, MemTypeOK
<1>4. cache' = cache
  BY <1>1, <1>3, Zenon DEF WriteLog, MemTypeOK
<1>5. dlog' = [dlog EXCEPT ![tail] = cache[b]] /\ tail \in 1..LOGSIZE
  BY <1>1, <1>3 DEF WriteLog
<1>6. /\ tail' \in Nat
      /\ \/ tail' = tail + 1 /\ tail < Len(lh) /\ pc' = [pc EXCEPT ![p] = "write_log"]
         \/ tail' = 1 /\ tail = Len(lh) /\ pc' = [pc EXCEPT ![p] = "write_head"]
  BY <1>1 DEF WriteLog, Advance
<1>7. DiskTypeOK' /\ MemTypeOK' /\ ProcTypeOK'
  <2>1. DiskTypeOK'
    BY <1>3, <1>5, Zenon DEF DiskTypeOK, WriteLog
  <2>2. MemTypeOK'
    BY <1>4, <1>6, Zenon DEF MemTypeOK, WriteLog, logVars
  <2>3. ProcTypeOK'
    BY <1>6, Zenon DEF ProcTypeOK, WriteLog, Pcs
  <2> QED
    BY <2>1, <2>2, <2>3, Zenon
<1>8. Committers' = {p} /\ Active' = {} /\ \A s \in CommitPcs : At(s)' <=> pc'[p] = s
  BY <1>0, <1>6, Zenon DEF Committers, Active, CommitPcs, At, ProcTypeOK
<1>9. ControlInv'
  BY <1>0, <1>6, <1>8 DEF ControlInv, WriteLog, logVars, ProcTypeOK
<1>10. HeaderInv'
  BY <1>0, <1>1, <1>6, <1>8 DEF HeaderInv, WriteLog, logVars, CommitPcs, Distinct, ProcTypeOK
<1>11. /\ \A i \in 1..Len(lh) : ~Installed(i)'
       /\ \A x \in Blocks : Pending(x)' <=> Pending(x)
  BY <1>0, <1>2, <1>6, <1>8, Zenon DEF Installed, Pending, CommitPcs, WriteLog, logVars, ProcTypeOK
<1>12. \A i \in 1..Len(lh) : (pc'[p] = "write_head" \/ i < tail') => dlog'[i] = cache[lh[i]]
  <2>1. \A i \in 1..Len(lh) : i < tail => dlog[i] = cache[lh[i]]
    BY <1>0, Zenon DEF DataInv, CommitPcs
  <2> QED
    <3>1. dlog'[tail] = cache[b] /\ \A i \in 1..LOGSIZE : i # tail => dlog'[i] = dlog[i]
      BY <1>5, Zenon DEF DiskTypeOK
    <3>2. pc'[p] = "write_head" \/ (pc'[p] = "write_log" /\ tail' = tail + 1)
      BY <1>6, Zenon DEF ProcTypeOK
    <3>3. pc'[p] = "write_head" => tail = Len(lh)
      BY <1>6, Zenon DEF ProcTypeOK
    <3> QED
      BY <1>1, <2>1, <3>1, <3>2, <3>3
<1>13. DataInv'
  <2>1. UNCHANGED <<cache, home, pins, buf, lh, mode>>
    BY <1>4, Zenon DEF WriteLog, logVars
  <2>2. (At("write_log")' => pc'[p] = "write_log") /\ (At("write_head")' => pc'[p] = "write_head")
    BY <1>8, Zenon DEF CommitPcs
  <2>3. ~At("install")'
    BY <1>6, <1>8, Zenon DEF CommitPcs, ProcTypeOK
  <2> QED
    BY <1>0, <1>11, <1>12, <2>1, <2>2, <2>3, DataKept, Zenon
<1> QED
  BY <1>7, <1>9, <1>10, <1>13, Zenon

LEMMA WriteHeadInv == ASSUME Inv, NEW p \in Procs, WriteHead(p) PROVE Inv'
<1> USE LogAssumption DEF LogAssumption, Inv, TypeOK
<1>0. /\ mode = "up" /\ committing = 1 /\ Active = {} /\ Committers = {p}
      /\ \A s \in CommitPcs : At(s) <=> s = "write_head"
  BY OnlyCommitter, Zenon DEF WriteHead, CommitPcs
<1>1. lh \in Seq(Blocks) /\ tail = 1 /\ Len(lh) \in Nat \ {0}
  <2>1. lh \in Seq(Blocks) /\ tail = 1 /\ lh # << >>
    BY <1>0, Zenon DEF HeaderInv, CommitPcs, MemTypeOK
  <2> QED
    BY <2>1
<1>2. DiskTypeOK' /\ MemTypeOK' /\ ProcTypeOK'
  BY <1>1, Zenon DEF DiskTypeOK, MemTypeOK, ProcTypeOK, WriteHead, logVars, cacheVars, Pcs
<1>3. Committers' = {p} /\ Active' = {} /\ \A s \in CommitPcs : At(s)' <=> s = "install"
  BY <1>0, Zenon DEF WriteHead, Committers, Active, CommitPcs, At, ProcTypeOK
<1>4. ControlInv'
  BY <1>0, <1>3, Zenon DEF ControlInv, WriteHead, logVars, ProcTypeOK
<1>5. HeaderInv'
  BY <1>0, <1>1, <1>3 DEF HeaderInv, WriteHead, logVars, CommitPcs, Distinct
<1>6. /\ \A i \in 1..Len(lh) : ~Installed(i)' /\ ~Installed(i)
      /\ \A x \in Blocks : Pending(x)' <=> Pending(x)
  BY <1>0, <1>1, <1>3 DEF Installed, Pending, CommitPcs, WriteHead, logVars
<1>7. DataInv'
  <2>1. UNCHANGED <<cache, home, dlog, pins, buf, lh, mode>>
    BY Zenon DEF WriteHead, logVars, cacheVars
  <2>2. ~At("write_log")' /\ At("write_head")
    BY <1>0, <1>3, Zenon DEF CommitPcs
  <2>3. \A i \in 1..Len(lh) : dlog[i] = cache[lh[i]]
    BY <1>6, <2>2, Zenon DEF DataInv
  <2> QED
    BY <1>0, <1>6, <2>1, <2>2, <2>3, DataKept, Zenon
<1> QED
  BY <1>2, <1>4, <1>5, <1>7, Zenon

-----------------------------------------------------------------------------
(* Installation, crash and recovery.                                       *)

LEMMA InstallTransInv == ASSUME Inv, NEW p \in Procs, InstallTrans(p) PROVE Inv'
<1> DEFINE b == lh[tail]
<1> USE LogAssumption DEF LogAssumption, Inv, TypeOK
<1>0. /\ mode = "up" /\ committing = 1 /\ Active = {} /\ Committers = {p}
      /\ \A s \in CommitPcs : At(s) <=> s = "install"
  BY OnlyCommitter, Zenon DEF InstallTrans, CommitPcs
<1>1. lh \in Seq(Blocks) /\ tail \in 1..Len(lh) /\ b \in Blocks /\ Len(lh) <= LOGSIZE /\ Len(lh) \in Nat
  <2>1. lh \in Seq(Blocks) /\ tail \in 1..Len(lh) /\ Len(lh) <= LOGSIZE
    BY <1>0, Zenon DEF HeaderInv, CommitPcs, MemTypeOK
  <2> QED
    BY <2>1
<1>2. \A i \in 1..Len(lh) : Installed(i) <=> i < tail
  BY <1>0, Zenon DEF Installed, CommitPcs
<1>3. dlog[tail] \in Val /\ dlog[tail] # NoVal
  BY <1>1 DEF DiskTypeOK
<1>4. /\ home' = [home EXCEPT ![b] = dlog[tail]] /\ cache' = [cache EXCEPT ![b] = dlog[tail]]
      /\ pins' = [pins EXCEPT ![b] = pins[b] - 1]
  BY Zenon DEF InstallTrans, InstallBlock
<1>5. Pending(b) /\ pins[b] = 1
  <2>1. Pending(b)
    BY <1>1, <1>2 DEF Pending
  <2> QED
    BY <1>0, <1>1, <2>1, Zenon DEF DataInv
<1>a. \A x \in Blocks : /\ home'[x] = IF x = b THEN dlog[tail] ELSE home[x]
                        /\ cache'[x] = IF x = b THEN dlog[tail] ELSE cache[x]
                        /\ pins'[x] = IF x = b THEN 0 ELSE pins[x]
  BY <1>1, <1>4, <1>5 DEF DiskTypeOK, MemTypeOK
<1>b. \A i \in 1..Len(lh) : lh[i] \in Blocks
  BY <1>1
<1>6. /\ tail' \in Nat
      /\ \/ tail' = tail + 1 /\ tail < Len(lh) /\ pc' = [pc EXCEPT ![p] = "install"]
         \/ tail' = 1 /\ tail = Len(lh) /\ pc' = [pc EXCEPT ![p] = "clear"]
  BY <1>1 DEF InstallTrans, Advance
<1>7. DiskTypeOK' /\ MemTypeOK' /\ ProcTypeOK'
  <2>1. DiskTypeOK'
    BY <1>1, <1>3, <1>4, Zenon DEF DiskTypeOK, InstallTrans
  <2>2. MemTypeOK'
    <3>1. cache' \in [Blocks -> Val \cup {NoVal}]
      BY <1>3, <1>4, Zenon DEF MemTypeOK
    <3>2. pins' \in [Blocks -> Nat]
      BY <1>1, <1>4, <1>5 DEF MemTypeOK
    <3> QED
      BY <1>6, <3>1, <3>2, Zenon DEF MemTypeOK, InstallTrans, logVars
  <2>3. ProcTypeOK'
    BY <1>6, Zenon DEF ProcTypeOK, InstallTrans, Pcs
  <2> QED
    BY <2>1, <2>2, <2>3, Zenon
<1>8. Committers' = {p} /\ Active' = {} /\ \A s \in CommitPcs : At(s)' <=> pc'[p] = s
  BY <1>0, <1>6, Zenon DEF Committers, Active, CommitPcs, At, ProcTypeOK
<1>9. ControlInv'
  BY <1>0, <1>6, <1>8, Zenon DEF ControlInv, InstallTrans, logVars, ProcTypeOK
<1>10. HeaderInv'
  <2>1. UNCHANGED <<lh, dhead, mode, committing, outstanding>> /\ dhead = lh
    BY <1>0, Zenon DEF InstallTrans, logVars, HeaderInv, CommitPcs
  <2>2. \/ At("install")' /\ ~At("clear")' /\ tail' \in 1..Len(lh)
        \/ At("clear")' /\ ~At("install")' /\ tail' = 1
    BY <1>1, <1>6, <1>8 DEF CommitPcs, ProcTypeOK
  <2>3. ~At("write_log")' /\ ~At("finish")' /\ ~At("write_head")'
    BY <1>6, <1>8, Zenon DEF CommitPcs, ProcTypeOK
  <2> QED
    BY <1>0, <2>1, <2>2, <2>3 DEF HeaderInv, Distinct
<1>11. \A i \in 1..Len(lh) : Installed(i)' <=> i <= tail
  <2>1. \/ pc'[p] = "install" /\ tail' = tail + 1
        \/ pc'[p] = "clear" /\ tail = Len(lh)
    BY <1>6, Zenon DEF ProcTypeOK
  <2>2. mode' = "up" /\ (At("install")' <=> pc'[p] = "install") /\ (At("clear")' <=> pc'[p] = "clear")
    BY <1>0, <1>8, Zenon DEF CommitPcs, InstallTrans
  <2> QED
    BY <1>1, <2>1, <2>2 DEF Installed
<1>12. Distinct(lh) /\ lh' = lh
  BY Zenon DEF HeaderInv, InstallTrans, logVars
<1>13. \A x \in Blocks : Pending(x)' <=> Pending(x) /\ x # b
  BY <1>1, <1>2, <1>11, <1>12 DEF Pending, Distinct
<1>14. \A i \in 1..Len(lh) : Installed(i)' => home'[lh[i]] = dlog[i]
  <2>1. \A i \in 1..Len(lh) : Installed(i) => home[lh[i]] = dlog[i]
    BY Zenon DEF DataInv
  <2> QED
    BY <1>1, <1>2, <1>a, <1>b, <1>11, <1>12, <2>1 DEF Distinct
<1>15. \A i \in 1..Len(lh) : ~Installed(i)' => dlog[i] = cache'[lh[i]]
  <2>1. \A i \in 1..Len(lh) : ~Installed(i) => dlog[i] = cache[lh[i]]
    BY <1>0, Zenon DEF DataInv, CommitPcs
  <2> QED
    BY <1>1, <1>2, <1>a, <1>b, <1>11, <1>12, <2>1 DEF Distinct
<1>16. /\ \A x \in Blocks : pins'[x] = IF Pending(x)' THEN 1 ELSE 0
       /\ \A x \in Blocks : Pending(x)' => cache'[x] # NoVal
       /\ \A x \in Blocks : ~Pending(x)' => cache'[x] \in {NoVal, home'[x]}
  <2>1. \A x \in Blocks : Unlocked(x)
    BY OnlyCommitter, Zenon DEF InstallTrans, CommitPcs
  <2>2. \A x \in Blocks : pins'[x] = IF Pending(x)' THEN 1 ELSE 0
    BY <1>0, <1>a, <1>13 DEF DataInv
  <2> QED
    BY <1>0, <1>3, <1>a, <1>13, <2>1, <2>2 DEF DataInv
<1>17. \A q \in Procs : buf'[q] = NoBlock
  BY <1>0, Zenon DEF InstallTrans, ControlInv, Active
<1>18. DataInv'
  <2>1. ~At("write_log")' /\ ~At("write_head")'
    BY <1>6, <1>8, Zenon DEF CommitPcs, ProcTypeOK
  <2>2. mode' = "up" /\ dlog' = dlog
    BY <1>0, Zenon DEF InstallTrans
  <2> QED
    BY <1>12, <1>14, <1>15, <1>16, <1>17, <2>1, <2>2, Zenon DEF DataInv
<1> QED
  BY <1>7, <1>9, <1>10, <1>18, Zenon

LEMMA ClearHeadInv == ASSUME Inv, NEW p \in Procs, ClearHead(p) PROVE Inv'
<1> USE LogAssumption DEF LogAssumption, Inv, TypeOK
<1>0. /\ mode = "up" /\ committing = 1 /\ Active = {} /\ Committers = {p}
      /\ \A s \in CommitPcs : At(s) <=> s = "clear"
  BY OnlyCommitter, Zenon DEF ClearHead, CommitPcs
<1>2. DiskTypeOK' /\ MemTypeOK' /\ ProcTypeOK'
  BY DEF DiskTypeOK, MemTypeOK, ProcTypeOK, ClearHead, cacheVars, Pcs
<1>3. Committers' = {p} /\ Active' = {} /\ \A s \in CommitPcs : At(s)' <=> s = "finish"
  BY <1>0, Zenon DEF ClearHead, Committers, Active, CommitPcs, At, ProcTypeOK
<1>4. ControlInv'
  BY <1>0, <1>3, Zenon DEF ControlInv, ClearHead, ProcTypeOK
<1>5. HeaderInv'
  BY <1>0, <1>3 DEF HeaderInv, ClearHead, CommitPcs, Distinct
<1>6. \A x \in Blocks : ~Pending(x)' /\ ~Pending(x)
  BY <1>0, <1>3 DEF Installed, Pending, CommitPcs, ClearHead
<1>7. DataInv'
  <2>1. UNCHANGED <<cache, home, pins, buf, mode>> /\ lh' = << >>
    BY Zenon DEF ClearHead, cacheVars
  <2>2. 1..Len(lh') = {}
    BY <2>1
  <2> QED
    BY <1>0, <1>6, <2>1, <2>2, DataKept, Zenon
<1> QED
  BY <1>2, <1>4, <1>5, <1>7, Zenon

LEMMA FinishCommitInv == ASSUME Inv, NEW p \in Procs, FinishCommit(p) PROVE Inv'
<1> USE LogAssumption DEF LogAssumption, Inv, TypeOK
<1>0. /\ mode = "up" /\ committing = 1 /\ Active = {} /\ Committers = {p}
      /\ \A s \in CommitPcs : At(s) <=> s = "finish"
  BY OnlyCommitter, Zenon DEF FinishCommit, CommitPcs
<1>2. DiskTypeOK' /\ MemTypeOK' /\ ProcTypeOK'
  <2>1. DiskTypeOK' /\ MemTypeOK'
    BY Zenon DEF DiskTypeOK, MemTypeOK, FinishCommit, diskVars, cacheVars
  <2>2. ProcTypeOK'
    BY Zenon DEF ProcTypeOK, FinishCommit, WakeupLog, Pcs
  <2> QED
    BY <2>1, <2>2, Zenon
<1>3. Committers' = {} /\ Active' = {} /\ \A s \in CommitPcs : ~At(s)'
  BY <1>0, Zenon DEF FinishCommit, WakeupLog, Committers, Active, CommitPcs, At, ProcTypeOK
<1>4. ControlInv'
  <2>1. UNCHANGED <<outstanding, buf, mode>> /\ committing' = 0
    BY Zenon DEF FinishCommit
  <2>2. \A q \in Procs : pc'[q] = "buf" <=> pc[q] = "buf"
    BY Zenon DEF FinishCommit, WakeupLog, ProcTypeOK
  <2>3. outstanding' = Cardinality(Active') /\ (committing' = 1 <=> Committers' # {})
    BY <1>0, <1>3, <2>1 DEF ControlInv
  <2>4. /\ \A q \in Procs : buf'[q] # NoBlock <=> pc'[q] = "buf"
        /\ \A q, r \in Procs : buf'[q] = buf'[r] /\ buf'[q] # NoBlock => q = r
    BY <2>1, <2>2, Zenon DEF ControlInv
  <2> QED
    BY <1>0, <1>3, <2>1, <2>3, <2>4, Zenon DEF ControlInv
<1>5. HeaderInv' /\ lh = << >>
  BY <1>0, <1>3 DEF HeaderInv, FinishCommit, CommitPcs, Distinct, diskVars
<1>6. \A x \in Blocks : ~Pending(x)' /\ ~Pending(x)
  BY <1>5 DEF Pending, FinishCommit
<1>7. DataInv'
  <2>1. UNCHANGED <<cache, home, pins, buf, mode>> /\ lh' = << >>
    BY <1>5, Zenon DEF FinishCommit, diskVars, cacheVars
  <2>2. 1..Len(lh') = {}
    BY <2>1
  <2> QED
    BY <1>0, <1>6, <2>1, <2>2, DataKept, Zenon
<1> QED
  BY <1>2, <1>4, <1>5, <1>7, Zenon

LEMMA CacheInv ==
  ASSUME Inv, NEW b \in Blocks, Fill(b) \/ Recycle(b)
  PROVE  Inv'
<1> USE LogAssumption DEF LogAssumption, Inv, TypeOK
<1>0. /\ UNCHANGED <<dhead, dlog, home, pins, lh, outstanding, committing, pc, buf, wrote, tail, mode>>
      /\ cache' = [cache EXCEPT ![b] = cache'[b]] /\ cache'[b] \in {NoVal, home[b]}
      /\ cache[b] # NoVal => Recyclable(b) /\ cache'[b] = NoVal
  <2>1. CASE Fill(b)
    BY <2>1, Zenon DEF Fill, diskVars, logVars, procVars, MemTypeOK
  <2>2. CASE Recycle(b)
    BY <2>2, Zenon DEF Recycle, diskVars, logVars, procVars, MemTypeOK
  <2> QED
    BY <2>1, <2>2, Zenon
<1>1. DiskTypeOK' /\ MemTypeOK' /\ ProcTypeOK'
  <2>1. DiskTypeOK' /\ ProcTypeOK'
    BY <1>0, Zenon DEF DiskTypeOK, ProcTypeOK
  <2>2. home[b] \in Val /\ cache \in [Blocks -> Val \cup {NoVal}]
    BY Zenon DEF DiskTypeOK, MemTypeOK
  <2>3. cache' \in [Blocks -> Val \cup {NoVal}]
    BY <1>0, <2>2, Zenon
  <2> QED
    BY <1>0, <2>1, <2>3, Zenon DEF MemTypeOK
<1>2. /\ \A s : At(s)' <=> At(s)
      /\ \A i : Installed(i)' <=> Installed(i)
      /\ \A x : Pending(x)' <=> Pending(x)
      /\ Active' = Active /\ Committers' = Committers
  BY <1>0, Zenon DEF At, Installed, Pending, Active, Committers
<1>3. ControlInv' /\ HeaderInv'
  <2>1. ControlInv'
    BY <1>0, <1>2, Zenon DEF ControlInv, Quiet
  <2>2. HeaderInv'
    BY <1>0, <1>2 DEF HeaderInv, Distinct
  <2> QED
    BY <2>1, <2>2, Zenon
<1>4. mode = "up" => ~Pending(b)
  <2>1. CASE cache[b] # NoVal
    BY <1>0, <2>1 DEF DataInv, Recyclable
  <2>2. CASE cache[b] = NoVal
    BY <2>2, Zenon DEF DataInv
  <2> QED
    BY <2>1, <2>2, Zenon
<1>5. \A s \in CommitPcs : At(s) => mode = "up"
  BY Zenon DEF At, CommitPcs, ControlInv, Quiet
<1>6. \A x \in Blocks : cache'[x] # cache[x] => x = b
  BY <1>0, Zenon DEF MemTypeOK
<1>7. \A i \in 1..Len(lh) : mode = "up" /\ ~Installed(i) => lh[i] # b
  BY <1>4, Zenon DEF Pending
<1>8. \A q \in Procs : buf[q] # NoBlock => buf[q] # b \/ cache'[b] # NoVal
  <2>1. cache[b] # NoVal => Unlocked(b)
    BY <1>0, Zenon DEF Recyclable
  <2>2. \A q \in Procs : buf[q] = b => cache[b] # NoVal
    BY Zenon DEF DataInv
  <2> QED
    BY <2>1, <2>2, Zenon DEF Unlocked
<1>9. /\ \A i \in 1..Len(lh) : lh[i] \in Blocks
      /\ \A q \in Procs : buf[q] # NoBlock => buf[q] \in Blocks
  <2>1. lh \in Seq(Blocks) /\ buf \in [Procs -> Blocks \cup {NoBlock}]
    BY Zenon DEF MemTypeOK, ProcTypeOK
  <2> QED
    BY <2>1
<1>10. DataInv'
  <2>1. mode = "up" => \A x \in Blocks : Pending(x) => cache'[x] # NoVal
    BY <1>4, <1>6, Zenon DEF DataInv
  <2>2. \A q \in Procs : buf[q] # NoBlock => cache'[buf[q]] # NoVal
    BY <1>6, <1>8, <1>9, Zenon DEF DataInv
  <2>3. \A x \in Blocks : (mode = "up" => ~Pending(x)) /\ Unlocked(x) => cache'[x] \in {NoVal, home[x]}
    BY <1>0, <1>6, Zenon DEF DataInv
  <2>4. At("write_log") => \A i \in 1..Len(lh) : i < tail => dlog[i] = cache'[lh[i]]
    <3>1. At("write_log") => mode = "up" /\ \A i \in 1..Len(lh) : ~Installed(i)
      BY <1>5, OnlyCommitter, Zenon DEF CommitPcs, Installed, At
    <3> QED
      BY <1>6, <1>7, <1>9, <3>1, Zenon DEF DataInv
  <2>5. At("write_head") \/ At("install") =>
          \A i \in 1..Len(lh) : ~Installed(i) => dlog[i] = cache'[lh[i]]
    BY <1>5, <1>6, <1>7, <1>9, Zenon DEF DataInv, CommitPcs
  <2> QED
    BY <1>0, <1>2, <2>1, <2>2, <2>3, <2>4, <2>5, Zenon DEF DataInv, Unlocked
<1> QED
  BY <1>1, <1>3, <1>10, Zenon

LEMMA CrashInv == ASSUME Inv, Crash PROVE Inv'
<1> USE LogAssumption DEF LogAssumption, Inv, TypeOK
<1>1. DiskTypeOK' /\ MemTypeOK' /\ ProcTypeOK'
  <2>1. DiskTypeOK'
    BY Zenon DEF DiskTypeOK, Crash, diskVars
  <2>2. MemTypeOK'
    BY DEF MemTypeOK, Crash
  <2>3. ProcTypeOK'
    BY Zenon DEF ProcTypeOK, Crash, Quiet, Pcs
  <2> QED
    BY <2>1, <2>2, <2>3, Zenon
<1>2. Active' = {} /\ Committers' = {} /\ \A s \in CommitPcs : ~At(s)'
  BY Zenon DEF Crash, Quiet, Active, Committers, CommitPcs, At
<1>3. ControlInv'
  BY <1>2, FS_EmptySet DEF Crash, ControlInv, Quiet
<1>4. HeaderInv'
  BY <1>2 DEF Crash, HeaderInv, CommitPcs, Distinct, diskVars
<1>5. DataInv'
  <2>1. /\ mode' = "boot" /\ pins' = [b \in Blocks |-> 0] /\ lh' = << >>
        /\ \A b \in Blocks : cache'[b] = NoVal
        /\ \A p \in Procs : buf'[p] = NoBlock
    BY Zenon DEF Crash
  <2>2. 1..Len(lh') = {}
    BY <2>1
  <2>3. ~At("write_log")' /\ ~At("write_head")' /\ ~At("install")'
    BY <1>2, Zenon DEF CommitPcs
  <2> QED
    BY <2>1, <2>2, <2>3, Zenon DEF DataInv
<1> QED
  BY <1>1, <1>3, <1>4, <1>5, Zenon

LEMMA ReadHeadInv == ASSUME Inv, ReadHead PROVE Inv'
<1> USE LogAssumption DEF LogAssumption, Inv, TypeOK
<1>0. pc = Quiet /\ committing = 0 /\ pc' = pc /\ mode = "boot"
  BY Zenon DEF ReadHead, ControlInv, procVars
<1>1. DiskTypeOK' /\ MemTypeOK' /\ ProcTypeOK'
  BY Zenon DEF DiskTypeOK, MemTypeOK, ProcTypeOK, ReadHead, diskVars, cacheVars, procVars
<1>2. Active' = Active /\ Committers' = Committers /\ \A s \in CommitPcs : ~At(s)' /\ ~At(s)
  BY <1>0, Zenon DEF Quiet, Active, Committers, CommitPcs, At
<1>3. ControlInv'
  BY <1>0, <1>2, Zenon DEF ReadHead, ControlInv, procVars
<1>4. Len(dhead) \in Nat /\ tail = 1 /\ (mode' = "install" => tail \in 1..Len(dhead))
  BY <1>0, <1>2 DEF DiskTypeOK, HeaderInv, CommitPcs, ReadHead
<1>5. HeaderInv'
  BY <1>0, <1>2, <1>4 DEF ReadHead, HeaderInv, CommitPcs, Distinct, diskVars
<1>6. \A i \in 1..Len(lh') : ~Installed(i)'
  BY <1>0, <1>2, <1>4 DEF Installed, CommitPcs, ReadHead
<1>7. DataInv'
  BY <1>0, <1>2, <1>6, Zenon DEF ReadHead, DataInv, CommitPcs, Unlocked, diskVars, cacheVars, procVars
<1> QED
  BY <1>1, <1>3, <1>5, <1>7, Zenon

LEMMA RecoverInstallInv == ASSUME Inv, RecoverInstall PROVE Inv'
<1> DEFINE b == lh[tail]
<1> USE LogAssumption DEF LogAssumption, Inv, TypeOK
<1>0. pc = Quiet /\ committing = 0 /\ pc' = pc /\ buf' = buf /\ mode = "install" /\ lh' = lh
  BY Zenon DEF RecoverInstall, ControlInv, procVars, logVars
<1>1. lh \in Seq(Blocks) /\ tail \in 1..Len(lh) /\ b \in Blocks /\ Len(lh) <= LOGSIZE /\ Len(lh) \in Nat
  <2>1. lh \in Seq(Blocks) /\ tail \in 1..Len(lh) /\ Len(lh) <= LOGSIZE
    BY <1>0, Zenon DEF HeaderInv, MemTypeOK
  <2> QED
    BY <2>1
<1>2. Active' = Active /\ Committers' = Committers /\ \A s \in CommitPcs : ~At(s)' /\ ~At(s)
  BY <1>0, Zenon DEF Quiet, Active, Committers, CommitPcs, At
<1>3. dlog[tail] \in Val /\ dlog[tail] # NoVal
  BY <1>1 DEF DiskTypeOK
<1>4. home' = [home EXCEPT ![b] = dlog[tail]] /\ cache' = [cache EXCEPT ![b] = dlog[tail]]
  BY Zenon DEF RecoverInstall, InstallBlock
<1>5. \/ tail' = tail + 1 /\ tail < Len(lh) /\ mode' = "install"
      \/ tail' = 1 /\ tail = Len(lh) /\ mode' = "clear"
  BY <1>0, <1>1 DEF RecoverInstall
<1>6. DiskTypeOK' /\ MemTypeOK' /\ ProcTypeOK'
  <2>1. DiskTypeOK' /\ ProcTypeOK'
    BY <1>1, <1>3, <1>4, Zenon DEF DiskTypeOK, ProcTypeOK, RecoverInstall, procVars
  <2>2. MemTypeOK'
    BY <1>1, <1>3, <1>4, <1>5 DEF MemTypeOK, RecoverInstall, logVars
  <2> QED
    BY <2>1, <2>2, Zenon
<1>7. ControlInv'
  BY <1>0, <1>2, <1>5, Zenon DEF RecoverInstall, ControlInv, procVars, logVars
<1>8. HeaderInv'
  BY <1>0, <1>1, <1>2, <1>5 DEF RecoverInstall, HeaderInv, CommitPcs, Distinct, logVars
<1>9. /\ \A i \in 1..Len(lh) : Installed(i)' <=> i <= tail
      /\ \A i \in 1..Len(lh) : Installed(i) <=> i < tail
  BY <1>0, <1>1, <1>2, <1>5 DEF Installed, CommitPcs
<1>10. \A i \in 1..Len(lh) : Installed(i)' => home'[lh[i]] = dlog[i]
  <2>1. Distinct(lh)
    BY Zenon DEF HeaderInv
  <2>2. \A x \in Blocks : home'[x] = IF x = b THEN dlog[tail] ELSE home[x]
    BY <1>4, Zenon DEF DiskTypeOK
  <2>3. \A i \in 1..Len(lh) : lh[i] \in Blocks /\ (Installed(i) => home[lh[i]] = dlog[i])
    BY <1>1 DEF DataInv
  <2> QED
    BY <1>1, <1>9, <2>1, <2>2, <2>3 DEF Distinct
<1>11. \A x \in Blocks : Unlocked(x)' => cache'[x] \in {NoVal, home'[x]}
  BY <1>0, <1>1, <1>4, Zenon DEF DataInv, Unlocked, MemTypeOK, DiskTypeOK
<1>12. \A q \in Procs : buf'[q] = NoBlock
  BY <1>0, Zenon DEF ControlInv, Quiet
<1>13. DataInv'
  <2>1. pins' = pins /\ dlog' = dlog /\ mode' # "up"
    BY <1>5, Zenon DEF RecoverInstall
  <2> QED
    BY <1>0, <1>2, <1>10, <1>11, <1>12, <2>1, Zenon DEF DataInv, CommitPcs
<1> QED
  BY <1>6, <1>7, <1>8, <1>13, Zenon

LEMMA RecoverClearInv == ASSUME Inv, RecoverClear PROVE Inv'
<1> USE LogAssumption DEF LogAssumption, Inv, TypeOK
<1>0. pc = Quiet /\ committing = 0 /\ pc' = pc /\ buf' = buf /\ mode = "clear" /\ mode' = "up"
  BY Zenon DEF RecoverClear, ControlInv, procVars
<1>1. DiskTypeOK' /\ MemTypeOK' /\ ProcTypeOK'
  BY DEF DiskTypeOK, MemTypeOK, ProcTypeOK, RecoverClear, cacheVars, procVars
<1>2. Active' = Active /\ Committers' = Committers /\ \A s \in CommitPcs : ~At(s)' /\ ~At(s)
  BY <1>0, Zenon DEF Quiet, Active, Committers, CommitPcs, At
<1>3. ControlInv'
  BY <1>0, <1>2, Zenon DEF RecoverClear, ControlInv, procVars
<1>a. UNCHANGED <<cache, home, pins, tail>> /\ lh' = << >> /\ dhead' = << >> /\ 1..Len(lh') = {}
  BY DEF RecoverClear, cacheVars
<1>b. \A s \in {"write_log", "write_head", "install", "clear", "finish"} : ~At(s)' /\ ~At(s)
  BY <1>2, Zenon DEF CommitPcs
<1>4. HeaderInv'
  <2>1. tail = 1
    BY <1>0, <1>b, Zenon DEF HeaderInv
  <2>2. Distinct(lh') /\ Distinct(dhead') /\ Len(lh') <= LOGSIZE /\ Len(dhead') <= LOGSIZE
    BY <1>a DEF Distinct
  <2> QED
    BY <1>0, <1>a, <1>b, <2>1, <2>2, Zenon DEF HeaderInv
<1>5. \A x \in Blocks : ~Pending(x)'
  BY <1>a, Zenon DEF Pending
<1>6. DataInv'
  <2>1. pins = [x \in Blocks |-> 0] /\ \A x \in Blocks : Unlocked(x) => cache[x] \in {NoVal, home[x]}
    BY <1>0, Zenon DEF DataInv
  <2>2. \A x \in Blocks : Unlocked(x)' <=> Unlocked(x)
    BY <1>0, Zenon DEF Unlocked
  <2>3. \A q \in Procs : buf[q] # NoBlock => cache[buf[q]] # NoVal
    BY Zenon DEF DataInv
  <2> QED
    BY <1>0, <1>a, <1>b, <1>5, <2>1, <2>2, <2>3, Zenon DEF DataInv
<1> QED
  BY <1>1, <1>3, <1>4, <1>6, Zenon

LEMMA StutterInv == ASSUME Inv, UNCHANGED vars PROVE Inv'
<1>0. UNCHANGED <<dhead, dlog, home, cache, pins, lh, outstanding, committing, pc, buf, wrote, tail, mode>>
  BY Zenon DEF vars, diskVars, cacheVars, logVars, procVars
<1>1. TypeOK'
  BY <1>0, Zenon DEF Inv, TypeOK, DiskTypeOK, MemTypeOK, ProcTypeOK
<1>2. /\ \A s : At(s)' <=> At(s)
      /\ \A i : Installed(i)' <=> Installed(i)
      /\ \A x : Pending(x)' <=> Pending(x)
      /\ Active' = Active /\ Committers' = Committers
  BY <1>0, Zenon DEF At, Installed, Pending, Active, Committers
<1>3. ControlInv' /\ HeaderInv'
  <2>1. ControlInv'
    BY <1>0, <1>2, Zenon DEF Inv, ControlInv, Quiet
  <2>2. HeaderInv'
    BY <1>0, <1>2 DEF Inv, HeaderInv, Distinct
  <2> QED
    BY <2>1, <2>2, Zenon
<1>4. DataInv'
  BY <1>0, <1>2, Zenon DEF Inv, DataInv, Unlocked
<1> QED
  BY <1>1, <1>3, <1>4, Zenon DEF Inv

\* Every step of log.c, of the buffer cache, of the boot and every crash
\* preserves the invariant.
LEMMA NextInv == ASSUME Inv, [Next]_vars PROVE Inv'
<1>1. ASSUME NEW p \in Procs, Step(p) PROVE Inv'
  BY <1>1, BeginOpInv, ModifyInv, LogWriteInv, EndOpInv, WriteLogInv, WriteHeadInv,
     InstallTransInv, ClearHeadInv, FinishCommitInv, Zenon DEF Step, CommitStep
<1>2. ASSUME NEW b \in Blocks, Fill(b) \/ Recycle(b) PROVE Inv'
  BY <1>2, CacheInv, Zenon
<1>3. CASE Recovery
  BY <1>3, ReadHeadInv, RecoverInstallInv, RecoverClearInv, Zenon DEF Recovery
<1> QED
  BY <1>1, <1>2, <1>3, CrashInv, StutterInv, Zenon DEF Next

\* The invariant of the log: it holds in every reachable state of log.c.
THEOREM LogInvariant == Spec => []Inv
BY InitInv, NextInv, PTL DEF Spec

\* The variables of log.c keep their types.
THEOREM TypeCorrect == Spec => []TypeOK
BY LogInvariant, PTL DEF Inv

\* A buffer that bget() may recycle holds what the disk holds.
THEOREM CleanBuffers == Spec => []CleanUnlessPinned
<1>1. Inv => CleanUnlessPinned
  BY DEF Inv, DataInv, CleanUnlessPinned, Recyclable, Bread
<1> QED
  BY <1>1, LogInvariant, PTL
=============================================================================
