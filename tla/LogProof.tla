------------------------------ MODULE LogProof ------------------------------
(***************************************************************************)
(* The log's safety, for every number of processes, blocks and contents    *)
(* and every log size that leaves enough of each reservation unused, and   *)
(* that the log implements the atomic disk.                                *)
(***************************************************************************)
EXTENDS Log, TLAPS, FiniteSetTheorems

\* The on-disk log is shorter than what begin_op hands out (log.size - 1 data
\* blocks against LOGSIZE); what operations leave of their reservation makes up
\* for it.
Capacity == /\ OpWrites < MAXOPBLOCKS
            /\ LOGSIZE + OpWrites + 1 < LogBlocks + MAXOPBLOCKS

-----------------------------------------------------------------------------
(* The inductive invariant *)

\* Where a process may be, and what it holds there.
Control ==
    /\ committing <=> Committers # {}
    /\ \A p, q \in Committers : p = q
    /\ committing => Working = {} /\ outstanding = 0
    /\ outstanding = Cardinality(Working)
    /\ \A p \in Procs : held[p] # NoBlock <=> pc[p] \in {"modified", "logging"}
    /\ \A p, q \in Procs : held[p] = held[q] /\ held[p] # NoBlock => p = q
    /\ boot # "up" => /\ \A p \in Procs : pc[p] = "idle"
                      /\ dirty = {} /\ cache = home
    /\ \A p \in Procs : pc[p] # "panic"

\* The part of their reservations the running operations have not used, as a
\* set with one element for each block that may still be logged.
Unused == {t \in Working \X (1 .. MAXOPBLOCKS) : t[2] > Cardinality(opset[t[1]])}

Space ==
    /\ Len(lh) + Cardinality(Unused) <= LOGSIZE
    /\ \A p \in Procs : /\ IsFiniteSet(opset[p])
                        /\ Cardinality(opset[p]) <= OpWrites
                        /\ opset[p] \subseteq Range(lh)
                        /\ pc[p] \notin InOp => opset[p] = {}
                        /\ pc[p] \in {"modified", "logging"} =>
                              Cardinality(opset[p] \union {held[p]}) <= OpWrites
    /\ Len(lh) <= LogBlocks - 1
    /\ Len(head) <= LogBlocks - 1 /\ Len(head) <= LOGSIZE

NoDups(s) == \A i, j \in 1 .. Len(s) : s[i] = s[j] => i = j

\* Log blocks before n hold what the cache holds; home blocks before n too.
Logged(n) == \A i \in 1 .. Len(lh) : i < n => logBlk[i] = cache[lh[i]]
Installed(n) == \A i \in 1 .. Len(lh) : i < n => home[lh[i]] = logBlk[i] /\ lh[i] \notin dirty

At(l) == \E p \in Procs : pc[p] = l

Stages ==
    /\ NoDups(lh) /\ NoDups(head)
    /\ ~(At("write_log") \/ At("install") \/ boot = "install") => tail = 1
    /\ boot = "read_head" => lh = <<>>
    /\ boot \in {"install", "clear"} => lh = head
    /\ boot = "install" => tail \in 1 .. Len(lh) /\ Installed(tail)
    /\ boot = "clear" => Installed(Len(lh) + 1)
    /\ boot = "up" /\ ~At("install") /\ ~At("clear") => head = <<>>
    /\ At("write_log") => tail \in 1 .. Len(lh) /\ Logged(tail)
    /\ At("write_head") => lh # <<>> /\ Logged(Len(lh) + 1)
    /\ At("install") => /\ head = lh /\ tail \in 1 .. Len(lh)
                        /\ Logged(Len(lh) + 1) /\ Installed(tail)
    /\ At("clear") => /\ head = lh
                      /\ Logged(Len(lh) + 1) /\ Installed(Len(lh) + 1)
    /\ At("finish") => lh = <<>>
    /\ Working = {} /\ Committers = {} /\ boot = "up" => lh = <<>>

IInv == /\ TypeOK /\ Control /\ Space /\ Stages
        /\ CleanIsHome /\ PinnedIsLogged /\ NoLostSleeper

-----------------------------------------------------------------------------
(* Steps *)

USE LogAssumption

\* Every step keeps the variables in their types.
LEMMA TypeStep ==
  ASSUME IInv, [Next]_vars, Capacity
  PROVE  TypeOK'
<1>. USE DEF TypeOK, PCs, InOp, InCommit, Boots, LogIndex
<1>1. TypeOK
  BY DEF IInv
<1>2. ASSUME NEW p \in Procs, Call(p) \/ BeginSleep(p) \/ BeginOp(p)
      PROVE  TypeOK'
  <2>1. CASE Call(p)
    BY <1>1, <2>1 DEF Call, Goto, disk, logvars
  <2>2. CASE BeginSleep(p)
    BY <1>1, <2>2 DEF BeginSleep, Goto, disk, logvars
  <2>3. CASE BeginOp(p)
    BY <1>1, <2>3 DEF BeginOp, Goto, disk
  <2>4. QED
    BY <1>2, <2>1, <2>2, <2>3
<1>3. ASSUME NEW p \in Procs, NEW b \in Blocks, NEW v \in Vals, Modify(p, b, v)
      PROVE  TypeOK'
  BY <1>1, <1>3 DEF Modify, Goto, disk, logvars
<1>4. ASSUME NEW p \in Procs, LogWriteCheck(p)
      PROVE  TypeOK'
  BY <1>1, <1>4 DEF LogWriteCheck, Goto, disk, logvars
<1>5. ASSUME NEW p \in Procs, LogWrite(p)
      PROVE  TypeOK'
  <2>1. held[p] \in Blocks
    BY <1>1, <1>5 DEF LogWrite, IInv, Control
  <2>2. QED
    BY <1>1, <1>5, <2>1 DEF LogWrite, Goto, disk
<1>6. ASSUME NEW p \in Procs, EndOp(p)
      PROVE  TypeOK'
  <2>1. outstanding # 0
    <3>1. p \in Working /\ IsFiniteSet(Working)
      BY <1>6, FS_Subset DEF EndOp, Working
    <3>2. QED
      BY <3>1, FS_EmptySet DEF IInv, Control
  <2>2. pc' \in [Procs -> PCs]
    BY <1>1, <1>6 DEF EndOp, Goto, WakeLog, CommitStart
  <2>3. outstanding' \in Nat /\ committing' \in BOOLEAN
    <3>1. outstanding' = outstanding - 1
      BY <1>6 DEF EndOp
    <3>2. committing' = committing \/ committing' = TRUE
      BY <1>6, Zenon DEF EndOp
    <3>3. outstanding' \in Nat
      BY <1>1, <2>1, <3>1
    <3>4. committing' \in BOOLEAN
      BY <1>1, <3>2, Zenon
    <3>5. QED
      BY <3>3, <3>4
  <2>4. opset' \in [Procs -> SUBSET Blocks]
    <3>1. {} \in SUBSET Blocks /\ opset \in [Procs -> SUBSET Blocks]
      BY <1>1
    <3>2. opset' = [opset EXCEPT ![p] = {}]
      BY <1>6 DEF EndOp
    <3>3. QED
      BY <3>1, <3>2, Zenon
  <2>5. QED
    BY <1>1, <1>6, <2>2, <2>3, <2>4 DEF EndOp, disk
<1>7. ASSUME NEW p \in Procs, WriteLog(p)
      PROVE  TypeOK'
  <2>1. tail \in 1 .. Len(lh)
    BY <1>7 DEF WriteLog, IInv, Stages, At
  <2>2. cache[lh[tail]] \in Vals
    BY <1>1, <2>1
  <2>3. tail' \in Nat \ {0}
    BY <1>1, <1>7 DEF WriteLog, NextTail
  <2>4. pc' \in [Procs -> PCs]
    BY <1>1, <1>7 DEF WriteLog, Goto
  <2>5. QED
    BY <1>1, <1>7, <2>2, <2>3, <2>4 DEF WriteLog, logvars
<1>8. ASSUME NEW p \in Procs, Install(p)
      PROVE  TypeOK'
  <2>1. tail \in 1 .. Len(lh) /\ Len(lh) <= LogBlocks - 1
    BY <1>8 DEF Install, IInv, Stages, At, Space
  <2>2. lh[tail] \in Blocks /\ logBlk[tail] \in Vals
    BY <1>1, <2>1
  <2>3. tail' \in Nat \ {0}
    BY <1>1, <1>8 DEF Install, InstallBlock, NextTail
  <2>4. pc' \in [Procs -> PCs]
    BY <1>1, <1>8 DEF Install, Goto
  <2>5. QED
    BY <1>1, <1>8, <2>2, <2>3, <2>4 DEF Install, InstallBlock, logvars
<1>9. ASSUME NEW p \in Procs, WriteHead(p) \/ Clear(p) \/ Finish(p)
      PROVE  TypeOK'
  <2>1. CASE WriteHead(p)
    BY <1>1, <2>1 DEF WriteHead, Goto, logvars
  <2>2. CASE Clear(p)
    BY <1>1, <2>2 DEF Clear, Goto
  <2>3. CASE Finish(p)
    BY <1>1, <2>3 DEF Finish, WakeLog, disk
  <2>4. QED
    BY <1>9, <2>1, <2>2, <2>3
<1>10. ASSUME NEW b \in Blocks, Evict(b)
       PROVE  TypeOK'
  BY <1>1, <1>10 DEF Evict, disk, logvars, procvars
<1>11. CASE Crash
  <2>1. pc' \in [Procs -> PCs] /\ held' \in [Procs -> Blocks \union {NoBlock}]
    BY <1>11 DEF Crash
  <2>2. opset' \in [Procs -> SUBSET Blocks]
    <3>1. {} \in SUBSET Blocks
      OBVIOUS
    <3>2. QED
      BY <1>11, <3>1, Zenon DEF Crash
  <2>3. <<>> \in Seq(Blocks) /\ 0 \in Nat /\ 1 \in Nat \ {0} /\ {} \subseteq Blocks
    OBVIOUS
  <2>4. QED
    BY <1>1, <1>11, <2>1, <2>2, <2>3, Zenon DEF Crash, disk
<1>12. CASE ReadHead \/ BootClear
  <2>1. CASE ReadHead
    BY <1>1, <2>1 DEF ReadHead, disk, procvars
  <2>2. CASE BootClear
    BY <1>1, <2>2 DEF BootClear, procvars
  <2>3. QED
    BY <1>12, <2>1, <2>2
<1>13. CASE BootInstall
  <2>1. tail \in 1 .. Len(lh) /\ Len(lh) <= LogBlocks - 1
    BY <1>13 DEF BootInstall, IInv, Stages, Space
  <2>2. lh[tail] \in Blocks /\ logBlk[tail] \in Vals
    BY <1>1, <2>1
  <2>3. tail' \in Nat \ {0}
    BY <1>1, <1>13 DEF BootInstall, InstallBlock, NextTail
  <2>4. QED
    BY <1>1, <1>13, <2>2, <2>3 DEF BootInstall, InstallBlock, procvars, logvars
<1>14. CASE UNCHANGED vars
  BY <1>1, <1>14 DEF vars, disk, logvars, procvars
<1>15. QED
  BY <1>2, <1>3, <1>4, <1>5, <1>6, <1>7, <1>8, <1>9, <1>10, <1>11, <1>12, <1>13, <1>14
     DEF Next, CommitStep

\* Working is finite, so that its cardinality counts.
LEMMA WorkingFinite ==
  /\ IsFiniteSet(Working) /\ Cardinality(Working) \in Nat
  /\ Cardinality(Working) = 0 <=> Working = {}
<1>1. Working \in SUBSET Procs
  BY DEF Working
<1>2. QED
  BY <1>1, FS_Subset, FS_EmptySet, FS_CardinalityType

\* A step that moves one process, from label to label, when the machine is up.
LEMMA Moves ==
  ASSUME TypeOK, NEW p \in Procs, NEW l \in PCs, Goto(p, l)
  PROVE  /\ Working' = IF l \in InOp THEN Working \union {p} ELSE Working \ {p}
         /\ Committers' = IF l \in InCommit THEN Committers \union {p} ELSE Committers \ {p}
<1>1. pc' = [pc EXCEPT ![p] = l] /\ pc \in [Procs -> PCs]
  BY DEF Goto, TypeOK
<1>2. \A q \in Procs : pc'[q] = IF q = p THEN l ELSE pc[q]
  BY <1>1
<1>3. \A q \in Procs : q \in Working' <=> IF q = p THEN l \in InOp ELSE q \in Working
  BY <1>2 DEF Working
<1>4. \A q \in Procs : q \in Committers' <=> IF q = p THEN l \in InCommit ELSE q \in Committers
  BY <1>2 DEF Committers
<1>5. Working \subseteq Procs /\ Working' \subseteq Procs
  BY DEF Working
<1>6. Committers \subseteq Procs /\ Committers' \subseteq Procs
  BY DEF Committers
<1>7. CASE l \in InOp
  <2>1. l \notin InCommit
    BY <1>7 DEF InOp, InCommit
  <2>2. QED
    BY <1>3, <1>4, <1>5, <1>6, <1>7, <2>1
<1>8. CASE l \notin InOp
  BY <1>3, <1>4, <1>5, <1>6, <1>8
<1>9. QED
  BY <1>7, <1>8

\* Waking the sleepers changes neither who works nor who commits.
LEMMA Wakes ==
  ASSUME TypeOK, NEW p \in Procs, pc' = WakeLog([pc EXCEPT ![p] = "idle"])
  PROVE  /\ Working' = Working \ {p} /\ Committers' = Committers \ {p}
         /\ \A q \in Procs \ {p} :
               pc'[q] = pc[q] \/ (pc[q] = "sleeping" /\ pc'[q] = "begin")
         /\ pc'[p] = "idle"
<1>1. pc \in [Procs -> PCs]
  BY DEF TypeOK
<1>2. \A q \in Procs : pc'[q] = IF q = p THEN "idle"
                               ELSE IF pc[q] = "sleeping" THEN "begin" ELSE pc[q]
  BY <1>1 DEF WakeLog
<1>3. \A q \in Procs : q \in Working' <=> q \in Working \ {p}
  BY <1>2 DEF Working, InOp
<1>4. \A q \in Procs : q \in Committers' <=> q \in Committers \ {p}
  BY <1>2 DEF Committers, InCommit
<1>5. Working \subseteq Procs /\ Working' \subseteq Procs
  BY DEF Working
<1>6. Committers \subseteq Procs /\ Committers' \subseteq Procs
  BY DEF Committers
<1>7. Working' = Working \ {p} /\ Committers' = Committers \ {p}
  BY <1>3, <1>4, <1>5, <1>6
<1>8. \A q \in Procs \ {p} : pc'[q] = pc[q] \/ (pc[q] = "sleeping" /\ pc'[q] = "begin")
  BY <1>2
<1>9. QED
  BY <1>2, <1>7, <1>8

-----------------------------------------------------------------------------
(* Space: what a running operation may still log is reserved *)

LEMMA UnusedFinite ==
  ASSUME TypeOK
  PROVE  IsFiniteSet(Unused) /\ Cardinality(Unused) \in Nat
<1>1. IsFiniteSet(Working \X (1 .. MAXOPBLOCKS))
  <2>1. IsFiniteSet(1 .. MAXOPBLOCKS)
    BY FS_Interval
  <2>2. QED
    BY <2>1, WorkingFinite, FS_Product, Zenon
<1>2. Unused \in SUBSET (Working \X (1 .. MAXOPBLOCKS))
  BY DEF Unused
<1>3. QED
  BY <1>1, <1>2, FS_Subset, FS_CardinalityType

\* An operation that has logged k blocks has MAXOPBLOCKS - k of the unused ones.
LEMMA Slack ==
  ASSUME IInv, NEW p \in Working, Capacity
  PROVE  MAXOPBLOCKS - Cardinality(opset[p]) <= Cardinality(Unused)
<1>. DEFINE k == Cardinality(opset[p])
            mine == {p} \X (k + 1 .. MAXOPBLOCKS)
<1>1. p \in Procs
  BY DEF Working
<1>2. k \in Nat /\ k <= OpWrites
  BY <1>1, FS_CardinalityType DEF IInv, Space
<1>3. IsFiniteSet(mine) /\ Cardinality(mine) = MAXOPBLOCKS - k
  <2>1. IsFiniteSet({p}) /\ Cardinality({p}) = 1
    BY FS_Singleton
  <2>2. /\ IsFiniteSet(k + 1 .. MAXOPBLOCKS)
        /\ Cardinality(k + 1 .. MAXOPBLOCKS) = MAXOPBLOCKS - k
    <3>1. k + 1 \in Int /\ MAXOPBLOCKS \in Int /\ k + 1 <= MAXOPBLOCKS
      BY <1>2 DEF Capacity
    <3>2. QED
      BY <1>2, <3>1, FS_Interval
  <2>3. IsFiniteSet(mine) /\ Cardinality(mine) = Cardinality({p}) * Cardinality(k + 1 .. MAXOPBLOCKS)
    BY <2>1, <2>2, FS_Product, Zenon
  <2>4. QED
    BY <1>2, <2>1, <2>2, <2>3
<1>4. mine \in SUBSET Unused
  BY <1>2 DEF Unused
<1>5. IsFiniteSet(Unused)
  BY UnusedFinite DEF IInv
<1>6. QED
  BY <1>3, <1>4, <1>5, FS_Subset

\* Hence neither of log_write's size checks fails, also when the block is
\* already in the log, and one more block fits.
LEMMA RoomToLog ==
  ASSUME IInv, NEW p \in Procs, Capacity, pc[p] \in {"modified", "logging"}
  PROVE  /\ ~LogCheckFails
         /\ Len(lh) + 1 <= LogBlocks - 1
<1>1. p \in Working
  BY DEF Working, InOp
<1>2. Len(lh) \in Nat /\ Cardinality(Unused) \in Nat
  BY UnusedFinite DEF IInv, TypeOK
<1>3. Cardinality(opset[p]) \in Nat /\ Cardinality(opset[p]) <= OpWrites
  BY FS_CardinalityType DEF IInv, Space
<1>4. Len(lh) <= LOGSIZE - (MAXOPBLOCKS - OpWrites)
  <2>1. Len(lh) + Cardinality(Unused) <= LOGSIZE
    BY DEF IInv, Space
  <2>2. MAXOPBLOCKS - Cardinality(opset[p]) <= Cardinality(Unused)
    BY <1>1, Slack
  <2>3. QED
    BY <1>2, <1>3, <2>1, <2>2
<1>5. outstanding \in Nat \ {0}
  BY <1>1, WorkingFinite DEF IInv, Control, TypeOK
<1>6. QED
  BY <1>2, <1>4, <1>5 DEF LogCheckFails, Capacity

-----------------------------------------------------------------------------
(* Control *)

\* A process runs only when the machine is up.
LEMMA UpWhenRunning ==
  ASSUME IInv, NEW p \in Procs, pc[p] # "idle"
  PROVE  boot = "up"
BY DEF IInv, Control

\* A step of one process that stays in its class (outside, in the operation, in
\* the commit) and keeps its buffer keeps Control.
LEMMA ControlFrame ==
  ASSUME IInv, NEW p \in Procs, NEW l \in PCs, Goto(p, l),
         boot = "up", UNCHANGED <<outstanding, committing, held, boot>>,
         pc[p] \in InOp <=> l \in InOp, pc[p] \in InCommit <=> l \in InCommit,
         pc[p] \in {"modified", "logging"} <=> l \in {"modified", "logging"},
         l # "panic"
  PROVE  Control'
<1>1. pc \in [Procs -> PCs] /\ TypeOK
  BY DEF IInv, TypeOK
<1>2. \A q \in Procs : pc'[q] = IF q = p THEN l ELSE pc[q]
  BY <1>1 DEF Goto
<1>3. Working' = Working /\ Committers' = Committers
  BY <1>1, Moves DEF Working, Committers
<1>4. \A q \in Procs : held'[q] # NoBlock <=> pc'[q] \in {"modified", "logging"}
  BY <1>2 DEF IInv, Control
<1>5. \A q \in Procs : pc'[q] # "panic"
  BY <1>2 DEF IInv, Control
<1>6. QED
  BY <1>3, <1>4, <1>5, Zenon DEF IInv, Control

LEMMA ControlStep ==
  ASSUME IInv, [Next]_vars, Capacity
  PROVE  Control'
<1>. USE DEF PCs, InOp, InCommit
<1>t. TypeOK /\ TypeOK' /\ Control
  BY TypeStep DEF IInv
<1>f. IsFiniteSet(Working) /\ Cardinality(Working) \in Nat
  BY WorkingFinite
<1>1. ASSUME NEW p \in Procs, Call(p)
      PROVE  Control'
  BY <1>1, ControlFrame DEF Call, Goto, logvars
<1>2. ASSUME NEW p \in Procs, BeginSleep(p)
      PROVE  Control'
  BY <1>2, ControlFrame, UpWhenRunning DEF BeginSleep, Goto, logvars
<1>3. ASSUME NEW p \in Procs, BeginOp(p)
      PROVE  Control'
  <2>1. /\ pc[p] = "begin" /\ ~committing /\ outstanding' = outstanding + 1
        /\ Goto(p, "op") /\ UNCHANGED <<committing, held, boot>>
    BY <1>3 DEF BeginOp, MustWait
  <2>2. boot = "up" /\ Committers = {} /\ p \notin Working
    BY <1>t, <2>1, UpWhenRunning DEF Control, Working
  <2>3. Working' = Working \union {p} /\ Committers' = {}
    BY <1>t, <2>1, <2>2, Moves
  <2>4. outstanding' = Cardinality(Working')
    BY <1>t, <1>f, <2>1, <2>2, <2>3, FS_AddElement DEF Control
  <2>5. \A q \in Procs : pc'[q] = IF q = p THEN "op" ELSE pc[q]
    BY <1>t, <2>1 DEF Goto, TypeOK
  <2>6. \A q \in Procs : /\ held'[q] # NoBlock <=> pc'[q] \in {"modified", "logging"}
                         /\ pc'[q] # "panic"
    BY <1>t, <2>1, <2>5 DEF Control
  <2>7. QED
    BY <1>t, <2>1, <2>2, <2>3, <2>4, <2>6 DEF Control
<1>4. ASSUME NEW p \in Procs, NEW b \in Blocks, NEW v \in Vals, Modify(p, b, v)
      PROVE  Control'
  <2>1. /\ pc[p] = "op" /\ held' = [held EXCEPT ![p] = b] /\ Goto(p, "modified")
        /\ UNCHANGED <<outstanding, committing, boot>> /\ \A q \in Procs : held[q] # b
    BY <1>4 DEF Modify, logvars
  <2>2. boot = "up" /\ p \in Working /\ p \notin Committers
    BY <2>1, UpWhenRunning DEF Working, Committers
  <2>3. Working' = Working /\ Committers' = Committers
    BY <1>t, <2>1, <2>2, Moves
  <2>4. \A q \in Procs : pc'[q] = IF q = p THEN "modified" ELSE pc[q]
    BY <1>t, <2>1 DEF Goto, TypeOK
  <2>5. \A q \in Procs : held'[q] = IF q = p THEN b ELSE held[q]
    BY <1>t, <2>1 DEF TypeOK
  <2>6. \A q \in Procs : /\ held'[q] # NoBlock <=> pc'[q] \in {"modified", "logging"}
                         /\ pc'[q] # "panic"
    BY <1>t, <2>4, <2>5 DEF Control
  <2>7. \A q, r \in Procs : held'[q] = held'[r] /\ held'[q] # NoBlock => q = r
    BY <1>t, <2>1, <2>5 DEF Control
  <2>8. QED
    BY <1>t, <2>1, <2>2, <2>3, <2>6, <2>7, Zenon DEF Control
<1>5. ASSUME NEW p \in Procs, LogWriteCheck(p)
      PROVE  Control'
  <2>1. ~LogCheckFails
    BY <1>5, RoomToLog DEF LogWriteCheck
  <2>2. pc[p] = "modified" /\ Goto(p, "logging") /\ UNCHANGED <<outstanding, committing, held, boot>>
    BY <1>5, <2>1 DEF LogWriteCheck, logvars
  <2>3. QED
    BY <2>2, ControlFrame, UpWhenRunning
<1>6. ASSUME NEW p \in Procs, LogWrite(p)
      PROVE  Control'
  <2>1. /\ pc[p] = "logging" /\ held' = [held EXCEPT ![p] = NoBlock] /\ Goto(p, "op")
        /\ UNCHANGED <<outstanding, committing, boot>>
    BY <1>6 DEF LogWrite
  <2>2. boot = "up" /\ p \in Working /\ p \notin Committers
    BY <2>1, UpWhenRunning DEF Working, Committers
  <2>3. Working' = Working /\ Committers' = Committers
    BY <1>t, <2>1, <2>2, Moves
  <2>4. \A q \in Procs : pc'[q] = IF q = p THEN "op" ELSE pc[q]
    BY <1>t, <2>1 DEF Goto, TypeOK
  <2>5. \A q \in Procs : held'[q] = IF q = p THEN NoBlock ELSE held[q]
    BY <1>t, <2>1 DEF TypeOK
  <2>6. \A q \in Procs : /\ held'[q] # NoBlock <=> pc'[q] \in {"modified", "logging"}
                         /\ pc'[q] # "panic"
    BY <1>t, <2>4, <2>5 DEF Control
  <2>7. \A q, r \in Procs : held'[q] = held'[r] /\ held'[q] # NoBlock => q = r
    BY <1>t, <2>1, <2>5 DEF Control
  <2>8. QED
    BY <1>t, <2>1, <2>2, <2>3, <2>6, <2>7, Zenon DEF Control
<1>7. ASSUME NEW p \in Procs, EndOp(p)
      PROVE  Control'
  <2>1. /\ pc[p] = "op" /\ outstanding' = outstanding - 1 /\ UNCHANGED <<held, boot>>
    BY <1>7 DEF EndOp
  <2>2. boot = "up" /\ p \in Working /\ p \notin Committers /\ ~committing /\ Committers = {}
    BY <1>t, <2>1, UpWhenRunning DEF Working, Committers, Control
  <2>3. Cardinality(Working \ {p}) = outstanding' /\ IsFiniteSet(Working \ {p})
    BY <1>t, <1>f, <2>1, <2>2, FS_RemoveElement DEF Control
  <2>4. CASE outstanding = 1
    <3>1. committing' = TRUE /\ Goto(p, CommitStart) /\ CommitStart \in {"finish", "write_log"}
      BY <1>7, <2>2, <2>4, Zenon DEF EndOp, CommitStart
    <3>2. Working' = Working \ {p} /\ Committers' = {p}
      BY <1>t, <2>2, <3>1, Moves
    <3>3. Working' = {} /\ outstanding' = 0 /\ outstanding' = Cardinality(Working')
      BY <2>1, <2>3, <2>4, <3>2, FS_EmptySet
    <3>4. \A q \in Procs : pc'[q] = IF q = p THEN CommitStart ELSE pc[q]
      BY <1>t, <3>1 DEF Goto, TypeOK
    <3>5. \A q \in Procs : /\ held'[q] # NoBlock <=> pc'[q] \in {"modified", "logging"}
                           /\ pc'[q] # "panic"
      BY <1>t, <2>1, <3>1, <3>4 DEF Control
    <3>6. QED
      BY <1>t, <2>1, <2>2, <3>1, <3>2, <3>3, <3>5, Zenon DEF Control
  <2>5. CASE outstanding # 1
    <3>1. committing' = committing /\ pc' = WakeLog([pc EXCEPT ![p] = "idle"])
      BY <1>7, <2>2, <2>5, Zenon DEF EndOp
    <3>2. Working' = Working \ {p} /\ Committers' = {}
      BY <1>t, <2>2, <3>1, Wakes
    <3>3. \A q \in Procs : /\ held'[q] # NoBlock <=> pc'[q] \in {"modified", "logging"}
                           /\ pc'[q] # "panic"
      BY <1>t, <2>1, <3>1, Wakes DEF Control
    <3>4. QED
      BY <1>t, <2>1, <2>2, <2>3, <3>1, <3>2, <3>3, Zenon DEF Control
  <2>6. QED
    BY <2>4, <2>5
<1>8. ASSUME NEW p \in Procs, WriteLog(p)
      PROVE  Control'
  BY <1>8, ControlFrame, UpWhenRunning DEF WriteLog, Goto, logvars
<1>9. ASSUME NEW p \in Procs, WriteHead(p)
      PROVE  Control'
  BY <1>9, ControlFrame, UpWhenRunning DEF WriteHead, Goto, logvars
<1>10. ASSUME NEW p \in Procs, Install(p)
       PROVE  Control'
  BY <1>10, ControlFrame, UpWhenRunning DEF Install, Goto, logvars
<1>11. ASSUME NEW p \in Procs, Clear(p)
       PROVE  Control'
  BY <1>11, ControlFrame, UpWhenRunning DEF Clear, Goto
<1>12. ASSUME NEW p \in Procs, Finish(p)
       PROVE  Control'
  <2>1. /\ pc[p] = "finish" /\ committing' = FALSE /\ pc' = WakeLog([pc EXCEPT ![p] = "idle"])
        /\ UNCHANGED <<held, boot, outstanding>>
    BY <1>12 DEF Finish
  <2>2. boot = "up" /\ Committers = {p} /\ Working = {}
    BY <1>t, <2>1, UpWhenRunning DEF Working, Committers, Control
  <2>3. Working' = Working /\ Committers' = {}
    BY <1>t, <2>1, <2>2, Wakes
  <2>4. \A q \in Procs : /\ held'[q] # NoBlock <=> pc'[q] \in {"modified", "logging"}
                         /\ pc'[q] # "panic"
    BY <1>t, <2>1, Wakes DEF Control
  <2>5. QED
    BY <1>t, <2>1, <2>2, <2>3, <2>4, Zenon DEF Control
<1>13. ASSUME NEW b \in Blocks, Evict(b)
       PROVE  Control'
  <2>1. /\ UNCHANGED <<pc, held, outstanding, committing, boot, home, dirty>>
        /\ cache' = [cache EXCEPT ![b] = home[b]]
    BY <1>13 DEF Evict, procvars, logvars, disk
  <2>2. Working' = Working /\ Committers' = Committers
    BY <2>1 DEF Working, Committers
  <2>3. cache = home => cache' = home
    BY <1>t, <2>1 DEF TypeOK
  <2>4. QED
    BY <1>t, <2>1, <2>2, <2>3 DEF Control
<1>14. CASE Crash
  <2>1. \A q \in Procs : pc'[q] = "idle" /\ held'[q] = NoBlock
    BY <1>14 DEF Crash
  <2>2. Working' = {} /\ Committers' = {}
    BY <2>1 DEF Working, Committers
  <2>3. outstanding' = 0 /\ outstanding' = Cardinality(Working')
    BY <1>14, <2>2, FS_EmptySet DEF Crash
  <2>4. committing' = FALSE /\ cache' = home /\ home' = home /\ dirty' = {}
    BY <1>14 DEF Crash, disk
  <2>5. QED
    BY <2>1, <2>2, <2>3, <2>4, Zenon DEF Control
<1>15. CASE ReadHead \/ BootInstall \/ BootClear
  <2>1. /\ UNCHANGED <<pc, held, outstanding, committing>> /\ boot # "up"
    BY <1>15 DEF ReadHead, BootInstall, BootClear, procvars, logvars
  <2>2. Working' = Working /\ Committers' = Committers
    BY <2>1 DEF Working, Committers
  <2>3. cache' = home' /\ dirty' = {}
    BY <1>t, <1>15, <2>1 DEF ReadHead, BootInstall, BootClear, InstallBlock, Control, disk, TypeOK
  <2>4. QED
    BY <1>t, <2>1, <2>2, <2>3, Zenon DEF Control
<1>16. CASE UNCHANGED vars
  <2>1. UNCHANGED <<pc, held, outstanding, committing, boot, home, dirty, cache>>
    BY <1>16 DEF vars, disk, logvars, procvars
  <2>2. Working' = Working /\ Committers' = Committers
    BY <2>1 DEF Working, Committers
  <2>3. QED
    BY <1>t, <2>1, <2>2, Zenon DEF Control
<1>17. QED
  BY <1>1, <1>2, <1>3, <1>4, <1>5, <1>6, <1>7, <1>8, <1>9, <1>10, <1>11, <1>12, <1>13,
     <1>14, <1>15, <1>16
     DEF Next, CommitStep

-----------------------------------------------------------------------------
(* Space is kept *)

\* What Space says of one process.
OpSpace(p) == /\ IsFiniteSet(opset[p])
              /\ Cardinality(opset[p]) <= OpWrites
              /\ opset[p] \subseteq Range(lh)
              /\ pc[p] \notin InOp => opset[p] = {}
              /\ pc[p] \in {"modified", "logging"} =>
                    Cardinality(opset[p] \union {held[p]}) <= OpWrites

\* With no operation running nothing is reserved.
LEMMA NothingUnused ==
  Working = {} => Cardinality(Unused) = 0
BY FS_EmptySet DEF Unused

\* A step of one process that stays in its class and logs nothing.
LEMMA SpaceFrame ==
  ASSUME IInv, NEW p \in Procs, NEW l \in PCs, Goto(p, l),
         UNCHANGED <<lh, opset, held>>, pc[p] \in InOp <=> l \in InOp,
         l \in {"modified", "logging"} => pc[p] \in {"modified", "logging"},
         head' \in {head, lh}
  PROVE  Space'
<1>t. TypeOK /\ Space
  BY DEF IInv
<1>1. \A q \in Procs : pc'[q] = IF q = p THEN l ELSE pc[q]
  BY <1>t DEF Goto, TypeOK
<1>2. Working' = Working
  BY <1>t, Moves DEF Working
<1>3. Unused' = Unused
  BY <1>2 DEF Unused
<1>4. ASSUME NEW q \in Procs
      PROVE  OpSpace(q)'
  BY <1>t, <1>1 DEF Space, OpSpace
<1>5. Cardinality(Unused) \in Nat /\ Len(lh) \in Nat
  BY <1>t, UnusedFinite DEF TypeOK
<1>6. /\ Len(head') <= LogBlocks - 1 /\ Len(head') <= LOGSIZE /\ Len(lh') <= LogBlocks - 1
      /\ Len(lh') + Cardinality(Unused') <= LOGSIZE
  BY <1>t, <1>3, <1>5 DEF Space
<1>7. QED
  BY <1>4, <1>6 DEF Space, OpSpace

\* A step that leaves no operation running and no opset filled.
LEMMA SpaceQuiet ==
  ASSUME \A q \in Procs : pc'[q] \notin InOp /\ opset'[q] = {},
         Len(lh') <= LogBlocks - 1, Len(lh') <= LOGSIZE, Len(lh') \in Nat,
         Len(head') <= LogBlocks - 1, Len(head') <= LOGSIZE
  PROVE  Space'
<1>1. Working' = {}
  BY DEF Working
<1>2. Unused' = {} /\ Cardinality(Unused') = 0
  BY <1>1, FS_EmptySet DEF Unused
<1>3. ASSUME NEW q \in Procs
      PROVE  OpSpace(q)'
  <2>1. pc'[q] \notin {"modified", "logging"}
    BY DEF InOp
  <2>2. opset'[q] = {} /\ IsFiniteSet(opset'[q]) /\ Cardinality(opset'[q]) = 0
    BY FS_EmptySet
  <2>3. QED
    BY <2>1, <2>2 DEF OpSpace
<1>4. QED
  BY <1>2, <1>3 DEF Space, OpSpace

LEMMA SpaceStep ==
  ASSUME IInv, [Next]_vars, Capacity
  PROVE  Space'
<1>. USE DEF PCs, InOp, InCommit
<1>t. TypeOK /\ TypeOK' /\ Control /\ Space
  BY TypeStep DEF IInv
<1>f. /\ IsFiniteSet(Unused) /\ Cardinality(Unused) \in Nat
      /\ Len(lh) \in Nat /\ Len(head) \in Nat /\ Len(lh) + Cardinality(Unused) <= LOGSIZE
      /\ Len(lh) <= LogBlocks - 1 /\ Len(head) <= LogBlocks - 1 /\ Len(head) <= LOGSIZE
      /\ \A q \in Procs : OpSpace(q)
  BY <1>t, UnusedFinite DEF Space, OpSpace, TypeOK
<1>1. ASSUME NEW p \in Procs, Call(p)
      PROVE  Space'
  BY <1>1, SpaceFrame DEF Call, logvars, disk
<1>2. ASSUME NEW p \in Procs, BeginSleep(p)
      PROVE  Space'
  BY <1>2, SpaceFrame DEF BeginSleep, logvars, disk
<1>3. ASSUME NEW p \in Procs, BeginOp(p)
      PROVE  Space'
  <2>1. /\ pc[p] = "begin" /\ Goto(p, "op") /\ UNCHANGED <<held, opset, lh, head>>
        /\ Len(lh) + (outstanding + 1) * MAXOPBLOCKS <= LOGSIZE
    BY <1>t, <1>3 DEF BeginOp, MustWait, disk, TypeOK
  <2>2. Working' = Working \union {p} /\ p \notin Working
    BY <1>t, <2>1, Moves DEF Working
  <2>3. IsFiniteSet(Working') /\ Cardinality(Working') = outstanding + 1
    BY <1>t, <2>2, WorkingFinite, FS_AddElement DEF Control
  <2>4. IsFiniteSet(1 .. MAXOPBLOCKS) /\ Cardinality(1 .. MAXOPBLOCKS) = MAXOPBLOCKS
    <3>1. 1 \in Int /\ MAXOPBLOCKS \in Int /\ ~(1 > MAXOPBLOCKS) /\ MAXOPBLOCKS - 1 + 1 = MAXOPBLOCKS
      OBVIOUS
    <3>2. QED
      BY <3>1, FS_Interval
  <2>5. /\ IsFiniteSet(Working' \X (1 .. MAXOPBLOCKS))
        /\ Cardinality(Working' \X (1 .. MAXOPBLOCKS)) = (outstanding + 1) * MAXOPBLOCKS
    <3>1. /\ IsFiniteSet(Working' \X (1 .. MAXOPBLOCKS))
          /\ Cardinality(Working' \X (1 .. MAXOPBLOCKS)) =
                Cardinality(Working') * Cardinality(1 .. MAXOPBLOCKS)
      BY <2>3, <2>4, FS_Product, Zenon
    <3>2. QED
      BY <2>3, <2>4, <3>1
  <2>6. Unused' \in SUBSET (Working' \X (1 .. MAXOPBLOCKS))
    BY DEF Unused
  <2>7. Cardinality(Unused') <= (outstanding + 1) * MAXOPBLOCKS /\ Cardinality(Unused') \in Nat
    BY <2>5, <2>6, FS_Subset, FS_CardinalityType
  <2>8. Len(lh') + Cardinality(Unused') <= LOGSIZE
    <3>1. (outstanding + 1) * MAXOPBLOCKS \in Int
      BY <1>t DEF TypeOK
    <3>2. QED
      BY <1>f, <2>1, <2>7, <3>1
  <2>9. \A q \in Procs : pc'[q] = IF q = p THEN "op" ELSE pc[q]
    BY <1>t, <2>1 DEF Goto, TypeOK
  <2>10. ASSUME NEW q \in Procs
         PROVE  OpSpace(q)'
    BY <1>f, <2>1, <2>9 DEF OpSpace
  <2>11. QED
    BY <1>t, <2>1, <2>8, <2>10 DEF Space, OpSpace
<1>4. ASSUME NEW p \in Procs, NEW b \in Blocks, NEW v \in Vals, Modify(p, b, v)
      PROVE  Space'
  <2>1. /\ pc[p] = "op" /\ held' = [held EXCEPT ![p] = b] /\ Goto(p, "modified")
        /\ UNCHANGED <<opset, lh, head>> /\ Cardinality(opset[p] \union {b}) <= OpWrites
    BY <1>4 DEF Modify, logvars, disk
  <2>2. Working' = Working
    BY <1>t, <2>1, Moves DEF Working
  <2>3. Unused' = Unused
    BY <2>1, <2>2 DEF Unused
  <2>4. \A q \in Procs : /\ pc'[q] = IF q = p THEN "modified" ELSE pc[q]
                         /\ held'[q] = IF q = p THEN b ELSE held[q]
    BY <1>t, <2>1 DEF Goto, TypeOK
  <2>5. ASSUME NEW q \in Procs
        PROVE  OpSpace(q)'
    BY <1>f, <2>1, <2>4 DEF OpSpace
  <2>6. QED
    BY <1>t, <1>f, <2>1, <2>3, <2>5 DEF Space, OpSpace
<1>5. ASSUME NEW p \in Procs, LogWriteCheck(p)
      PROVE  Space'
  <2>1. ~LogCheckFails
    BY <1>5, RoomToLog DEF LogWriteCheck
  <2>2. QED
    BY <1>5, <2>1, SpaceFrame DEF LogWriteCheck, logvars, disk
<1>6. ASSUME NEW p \in Procs, LogWrite(p)
      PROVE  Space'
  <2>. DEFINE b == held[p]
              k == Cardinality(opset[p])
  <2>1. /\ pc[p] = "logging" /\ Goto(p, "op") /\ held' = [held EXCEPT ![p] = NoBlock]
        /\ opset' = [opset EXCEPT ![p] = @ \union {b}] /\ UNCHANGED head
        /\ lh' = IF b \in Range(lh) THEN lh ELSE Append(lh, b)
    BY <1>6 DEF LogWrite, disk
  <2>2. Working' = Working /\ p \in Working /\ b \in Blocks
    BY <1>t, <2>1, Moves DEF Working, Control, TypeOK
  <2>3. \A q \in Procs : /\ pc'[q] = IF q = p THEN "op" ELSE pc[q]
                         /\ held'[q] = IF q = p THEN NoBlock ELSE held[q]
                         /\ opset'[q] = IF q = p THEN opset[p] \union {b} ELSE opset[q]
    BY <1>t, <2>1 DEF Goto, TypeOK
  <2>4. /\ IsFiniteSet(opset[p] \union {b}) /\ Cardinality(opset[p] \union {b}) <= OpWrites
        /\ k \in Nat /\ Cardinality(opset[p] \union {b}) = IF b \in opset[p] THEN k ELSE k + 1
    BY <1>f, <2>1, FS_AddElement, FS_CardinalityType DEF OpSpace
  <2>5. Range(lh) \subseteq Range(lh') /\ b \in Range(lh')
    <3>1. CASE b \in Range(lh)
      BY <2>1, <3>1
    <3>2. CASE b \notin Range(lh)
      <4>1. lh \in Seq(Blocks) /\ lh' = Append(lh, b)
        BY <1>t, <2>1, <3>2 DEF TypeOK
      <4>2. /\ DOMAIN lh = 1 .. Len(lh) /\ DOMAIN lh' = 1 .. Len(lh) + 1
            /\ lh'[Len(lh) + 1] = b /\ \A i \in 1 .. Len(lh) : lh'[i] = lh[i]
        BY <2>2, <4>1
      <4>3. Len(lh) + 1 \in 1 .. Len(lh) + 1 /\ 1 .. Len(lh) \subseteq 1 .. Len(lh) + 1
        BY <1>f
      <4>4. QED
        BY <4>2, <4>3 DEF Range
    <3>3. QED
      BY <3>1, <3>2
  <2>6. ASSUME NEW q \in Procs
        PROVE  OpSpace(q)'
    <3>1. CASE q = p
      BY <1>f, <2>3, <2>4, <2>5, <3>1 DEF OpSpace
    <3>2. CASE q # p
      BY <1>f, <2>3, <2>5, <3>2 DEF OpSpace
    <3>3. QED
      BY <3>1, <3>2
  <2>7. Unused' \subseteq Unused
    BY <2>2, <2>3, <2>4 DEF Unused, Working
  <2>8. Cardinality(Unused') <= Cardinality(Unused) /\ Cardinality(Unused') \in Nat
    BY <1>f, <2>7, FS_Subset, FS_CardinalityType
  <2>9. CASE b \in Range(lh)
    <3>1. Len(lh') + Cardinality(Unused') <= LOGSIZE /\ Len(lh') = Len(lh)
      BY <1>f, <2>1, <2>8, <2>9
    <3>2. QED
      BY <1>f, <2>1, <2>6, <3>1, Zenon DEF Space, OpSpace
  <2>10. CASE b \notin Range(lh)
    <3>1. b \notin opset[p]
      BY <1>f, <2>10 DEF OpSpace
    <3>2. k + 1 \in 1 .. MAXOPBLOCKS
      BY <2>4, <3>1 DEF Capacity
    <3>3. <<p, k + 1>> \in Unused /\ <<p, k + 1>> \notin Unused'
      BY <2>2, <2>3, <2>4, <3>1, <3>2 DEF Unused
    <3>4. Unused' \in SUBSET (Unused \ {<<p, k + 1>>})
      BY <2>7, <3>3
    <3>5. /\ IsFiniteSet(Unused \ {<<p, k + 1>>})
          /\ Cardinality(Unused \ {<<p, k + 1>>}) = Cardinality(Unused) - 1
      <4>1. /\ IsFiniteSet(Unused \ {<<p, k + 1>>})
            /\ Cardinality(Unused \ {<<p, k + 1>>}) =
                  IF <<p, k + 1>> \in Unused THEN Cardinality(Unused) - 1 ELSE Cardinality(Unused)
        BY <1>f, FS_RemoveElement, ZenonT(40)
      <4>2. QED
        BY <3>3, <4>1, Zenon
    <3>6. Cardinality(Unused') <= Cardinality(Unused) - 1
      BY <3>4, <3>5, FS_Subset
    <3>7. Len(lh') = Len(lh) + 1
      BY <1>t, <2>1, <2>2, <2>10 DEF TypeOK
    <3>8. Len(lh) + 1 <= LogBlocks - 1
      BY <2>1, RoomToLog
    <3>9. Len(lh') + Cardinality(Unused') <= LOGSIZE /\ Len(lh') <= LogBlocks - 1
      BY <1>f, <2>8, <3>6, <3>7, <3>8
    <3>10. QED
      BY <1>f, <2>1, <2>6, <3>9, Zenon DEF Space, OpSpace
  <2>11. QED
    BY <2>9, <2>10
<1>7. ASSUME NEW p \in Procs, EndOp(p)
      PROVE  Space'
  <2>1. /\ pc[p] = "op" /\ UNCHANGED <<held, lh, head>> /\ opset' = [opset EXCEPT ![p] = {}]
    BY <1>7 DEF EndOp, disk
  <2>2. p \in Working /\ ~committing
    BY <1>t, <2>1 DEF Working, Control
  <2>3. /\ Working' = Working \ {p} /\ pc'[p] \notin InOp
        /\ \A q \in Procs \ {p} : pc'[q] = pc[q] \/ (pc[q] = "sleeping" /\ pc'[q] = "begin")
    <3>1. CASE Goto(p, CommitStart)
      <4>1. CommitStart \in {"finish", "write_log"}
        BY DEF CommitStart
      <4>2. \A q \in Procs : pc'[q] = IF q = p THEN CommitStart ELSE pc[q]
        BY <1>t, <3>1 DEF Goto, TypeOK
      <4>3. QED
        BY <1>t, <3>1, <4>1, <4>2, Moves
    <3>2. CASE pc' = WakeLog([pc EXCEPT ![p] = "idle"])
      BY <1>t, <3>2, Wakes
    <3>3. QED
      BY <1>7, <2>2, <3>1, <3>2, Zenon DEF EndOp
  <2>4. \A q \in Procs : opset'[q] = IF q = p THEN {} ELSE opset[q]
    BY <1>t, <2>1 DEF TypeOK
  <2>5. Unused' \subseteq Unused
    BY <2>3, <2>4 DEF Unused, Working
  <2>6. Cardinality(Unused') <= Cardinality(Unused) /\ Cardinality(Unused') \in Nat
    BY <1>f, <2>5, FS_Subset, FS_CardinalityType
  <2>7. ASSUME NEW q \in Procs
        PROVE  OpSpace(q)'
    <3>1. CASE q = p
      <4>1. opset'[q] = {} /\ IsFiniteSet({}) /\ Cardinality({}) = 0
        BY <2>4, <3>1, FS_EmptySet
      <4>2. QED
        BY <2>3, <3>1, <4>1 DEF OpSpace
    <3>2. CASE q # p
      BY <1>f, <2>1, <2>3, <2>4, <3>2 DEF OpSpace
    <3>3. QED
      BY <3>1, <3>2
  <2>8. Len(lh') + Cardinality(Unused') <= LOGSIZE /\ Len(lh') = Len(lh)
    BY <1>f, <2>1, <2>6
  <2>9. QED
    BY <1>f, <2>1, <2>7, <2>8, Zenon DEF Space, OpSpace
<1>8. ASSUME NEW p \in Procs, WriteLog(p) \/ WriteHead(p) \/ Install(p)
      PROVE  Space'
  <2>1. CASE WriteLog(p)
    BY <2>1, SpaceFrame DEF WriteLog, logvars
  <2>2. CASE WriteHead(p)
    BY <2>2, SpaceFrame DEF WriteHead, logvars
  <2>3. CASE Install(p)
    BY <2>3, SpaceFrame DEF Install, logvars
  <2>4. QED
    BY <1>8, <2>1, <2>2, <2>3
<1>9. ASSUME NEW p \in Procs, Clear(p)
      PROVE  Space'
  <2>1. pc[p] = "clear" /\ Goto(p, "finish") /\ opset' = opset /\ lh' = <<>> /\ head' = <<>>
    BY <1>9 DEF Clear
  <2>2. Working = {} /\ Working' = {}
    BY <1>t, <2>1, Moves DEF Control, Committers
  <2>3. \A q \in Procs : pc'[q] \notin InOp /\ opset'[q] = {}
    BY <1>f, <2>1, <2>2 DEF Working, OpSpace
  <2>4. QED
    BY <2>1, <2>3, SpaceQuiet
<1>10. ASSUME NEW p \in Procs, Finish(p)
       PROVE  Space'
  <2>1. /\ pc[p] = "finish" /\ pc' = WakeLog([pc EXCEPT ![p] = "idle"])
        /\ UNCHANGED <<opset, lh, head>>
    BY <1>10 DEF Finish, disk
  <2>2. Working = {} /\ Working' = {}
    BY <1>t, <2>1, Wakes DEF Control, Committers
  <2>3. \A q \in Procs : pc'[q] \notin InOp /\ opset'[q] = {}
    BY <1>f, <2>1, <2>2 DEF Working, OpSpace
  <2>4. Len(lh) <= LOGSIZE
    BY <1>f
  <2>5. QED
    BY <1>f, <2>1, <2>3, <2>4, SpaceQuiet
<1>11. ASSUME NEW b \in Blocks, Evict(b)
       PROVE  Space'
  <2>1. UNCHANGED <<pc, held, opset, lh, head>>
    BY <1>11 DEF Evict, procvars, logvars, disk
  <2>2. QED
    BY <1>t, <2>1 DEF Space, Unused, Working
<1>12. CASE Crash
  <2>1. \A q \in Procs : pc'[q] \notin InOp /\ opset'[q] = {}
    BY <1>12 DEF Crash
  <2>2. QED
    BY <1>t, <1>12, <2>1, SpaceQuiet DEF Crash, disk, Space
<1>13. CASE ReadHead \/ BootInstall \/ BootClear
  <2>1. UNCHANGED <<pc, opset>> /\ boot # "up" /\ lh' \in {lh, head, <<>>} /\ head' \in {head, <<>>}
    BY <1>13 DEF ReadHead, BootInstall, BootClear, procvars, logvars, disk
  <2>2. \A q \in Procs : pc'[q] \notin InOp /\ opset'[q] = {}
    BY <1>t, <1>f, <2>1 DEF Control, OpSpace
  <2>3. /\ Len(lh') <= LogBlocks - 1 /\ Len(lh') <= LOGSIZE /\ Len(lh') \in Nat
        /\ Len(head') <= LogBlocks - 1 /\ Len(head') <= LOGSIZE
    BY <1>f, <2>1
  <2>4. QED
    BY <2>2, <2>3, SpaceQuiet
<1>14. CASE UNCHANGED vars
  <2>1. UNCHANGED <<pc, held, opset, lh, head>>
    BY <1>14 DEF vars, procvars, logvars, disk
  <2>2. QED
    BY <1>t, <2>1 DEF Space, Unused, Working
<1>15. QED
  BY <1>1, <1>2, <1>3, <1>4, <1>5, <1>6, <1>7, <1>8, <1>9, <1>10, <1>11, <1>12, <1>13, <1>14
     DEF Next, CommitStep

-----------------------------------------------------------------------------
(* Stages of a commit and of recovery *)

\* With one committer, a label of the commit is reached where it is.
LEMMA AtCommitter ==
  ASSUME IInv, NEW p \in Procs, pc[p] \in InCommit
  PROVE  /\ \A l \in InCommit : At(l) <=> pc[p] = l
         /\ Committers = {p} /\ Working = {} /\ boot = "up" /\ committing
<1>1. p \in Committers
  BY DEF Committers
<1>2. Committers = {p} /\ Working = {} /\ committing
  BY <1>1 DEF IInv, Control, Committers
<1>3. boot = "up"
  BY UpWhenRunning DEF InCommit
<1>4. QED
  BY <1>2, <1>3 DEF At, Committers

\* After a step that leaves p the only committer.
LEMMA AtCommitterNext ==
  ASSUME NEW p \in Procs, Committers' = {p}
  PROVE  \A l \in InCommit : At(l)' <=> pc'[p] = l
BY DEF At, Committers

\* A step that leaves no committer, in a machine that is up.
LEMMA StagesNoCommit ==
  ASSUME Committers' = {}, boot' = "up", NoDups(lh)', head' = <<>>, tail' = 1,
         Working' = {} => lh' = <<>>
  PROVE  Stages'
<1>1. \A l \in InCommit : ~At(l)'
  BY DEF At, Committers
<1>2. NoDups(head)'
  BY DEF NoDups
<1>3. QED
  BY <1>1, <1>2, Zenon DEF Stages, InCommit

\* A step that leaves the disk, the log and the places in the commit alone.
LEMMA StagesFrame ==
  ASSUME IInv, UNCHANGED <<home, logBlk, head, cache, dirty, lh, boot, tail>>,
         \A l \in InCommit : At(l)' <=> At(l),
         Working' = Working, Committers' = Committers
  PROVE  Stages'
<1>1. Stages
  BY DEF IInv
<1>2. \A n : (Logged(n)' <=> Logged(n)) /\ (Installed(n)' <=> Installed(n))
  BY DEF Logged, Installed
<1>3. NoDups(lh)' /\ NoDups(head)'
  BY <1>1 DEF Stages, NoDups
<1>4. QED
  BY <1>1, <1>2, <1>3, Zenon DEF Stages, InCommit

\* Moving p between labels outside the commit moves nobody inside it.
LEMMA AtFrame ==
  ASSUME IInv, NEW p \in Procs, NEW l \in PCs, Goto(p, l),
         pc[p] \notin InCommit, l \notin InCommit
  PROVE  /\ \A m \in InCommit : At(m)' <=> At(m)
         /\ Committers' = Committers
         /\ (pc[p] \in InOp <=> l \in InOp) => Working' = Working
<1>1. \A q \in Procs : pc'[q] = IF q = p THEN l ELSE pc[q]
  BY DEF Goto, IInv, TypeOK
<1>2. \A m \in InCommit : At(m)' <=> At(m)
  BY <1>1 DEF At
<1>3. p \notin Committers /\ TypeOK
  BY DEF Committers, IInv
<1>4. Committers' = Committers
  BY <1>3, Moves
<1>5. (pc[p] \in InOp <=> l \in InOp) => Working' = Working
  BY <1>3, Moves DEF Working
<1>6. QED
  BY <1>2, <1>4, <1>5

\* A turn of install_trans, in a commit or in recovery.
LEMMA InstallOne ==
  ASSUME IInv, InstallBlock, tail \in 1 .. Len(lh), Installed(tail),
         UNCHANGED <<logBlk, lh>>
  PROVE  \A i \in 1 .. Len(lh) : i < tail + 1 => home'[lh[i]] = logBlk[i] /\ lh[i] \notin dirty'
<1>1. /\ lh \in Seq(Blocks) /\ home \in [Blocks -> Vals] /\ Len(lh) \in Nat /\ NoDups(lh)
  BY DEF IInv, TypeOK, Stages
<1>2. /\ home' = [home EXCEPT ![lh[tail]] = logBlk[tail]]
      /\ dirty' = dirty \ {lh[tail]}
  BY DEF InstallBlock
<1>3. ASSUME NEW i \in 1 .. Len(lh), i < tail + 1
      PROVE  home'[lh[i]] = logBlk[i] /\ lh[i] \notin dirty'
  <2>1. CASE i = tail
    BY <1>1, <1>2, <2>1
  <2>2. CASE i # tail
    <3>1. i < tail /\ lh[i] # lh[tail] /\ lh[i] \in Blocks /\ lh[tail] \in Blocks
      BY <1>1, <1>3, <2>2 DEF NoDups
    <3>2. home[lh[i]] = logBlk[i] /\ lh[i] \notin dirty
      BY <3>1 DEF Installed
    <3>3. QED
      BY <1>1, <1>2, <3>1, <3>2
  <2>3. QED
    BY <2>1, <2>2
<1>4. QED
  BY <1>3

LEMMA StagesStep ==
  ASSUME IInv, [Next]_vars, Capacity
  PROVE  Stages'
<1>. USE DEF PCs, InOp, InCommit
<1>t. TypeOK /\ TypeOK' /\ Control /\ Control' /\ Stages
  BY TypeStep, ControlStep DEF IInv
<1>l. /\ lh \in Seq(Blocks) /\ head \in Seq(Blocks) /\ Len(lh) \in Nat /\ tail \in Nat
      /\ home \in [Blocks -> Vals] /\ cache \in [Blocks -> Vals] /\ logBlk \in [LogIndex -> Vals]
      /\ NoDups(lh) /\ NoDups(head) /\ Len(lh) <= LogBlocks - 1
  BY <1>t DEF TypeOK, Stages, IInv, Space
<1>1. ASSUME NEW p \in Procs, Call(p) \/ BeginSleep(p)
      PROVE  Stages'
  <2>1. CASE Call(p)
    BY <2>1, AtFrame, StagesFrame DEF Call, disk, logvars
  <2>2. CASE BeginSleep(p)
    BY <2>2, AtFrame, StagesFrame DEF BeginSleep, disk, logvars
  <2>3. QED
    BY <1>1, <2>1, <2>2
<1>2. ASSUME NEW p \in Procs, BeginOp(p)
      PROVE  Stages'
  <2>1. /\ pc[p] = "begin" /\ ~committing /\ Goto(p, "op")
        /\ UNCHANGED <<lh, head, tail, boot>>
    BY <1>2 DEF BeginOp, MustWait, disk
  <2>2. Committers = {} /\ boot = "up"
    BY <1>t, <2>1, UpWhenRunning DEF Control
  <2>3. Committers' = {} /\ p \in Working'
    BY <1>t, <2>1, <2>2, Moves
  <2>4. head = <<>> /\ tail = 1
    BY <1>t, <2>2 DEF Stages, At, Committers
  <2>5. NoDups(lh)'
    BY <1>l, <2>1 DEF NoDups
  <2>6. QED
    BY <2>1, <2>2, <2>3, <2>4, <2>5, StagesNoCommit
<1>3. ASSUME NEW p \in Procs, NEW b \in Blocks, NEW v \in Vals, Modify(p, b, v)
      PROVE  Stages'
  <2>1. pc[p] = "op" /\ Goto(p, "modified") /\ UNCHANGED <<lh, head, tail, boot>>
    BY <1>3 DEF Modify, disk, logvars
  <2>2. p \in Working /\ Committers = {} /\ boot = "up"
    BY <1>t, <2>1, UpWhenRunning DEF Control, Working
  <2>3. Committers' = {} /\ p \in Working'
    BY <1>t, <2>1, <2>2, Moves
  <2>4. head = <<>> /\ tail = 1
    BY <1>t, <2>2 DEF Stages, At, Committers
  <2>5. NoDups(lh)'
    BY <1>l, <2>1 DEF NoDups
  <2>6. QED
    BY <2>1, <2>2, <2>3, <2>4, <2>5, StagesNoCommit
<1>4. ASSUME NEW p \in Procs, LogWriteCheck(p)
      PROVE  Stages'
  <2>1. ~LogCheckFails
    BY <1>4, RoomToLog DEF LogWriteCheck
  <2>2. QED
    BY <1>4, <2>1, AtFrame, StagesFrame DEF LogWriteCheck, disk, logvars
<1>5. ASSUME NEW p \in Procs, LogWrite(p)
      PROVE  Stages'
  <2>1. /\ pc[p] = "logging" /\ Goto(p, "op") /\ UNCHANGED <<head, tail, boot>>
        /\ lh' = IF held[p] \in Range(lh) THEN lh ELSE Append(lh, held[p])
    BY <1>5 DEF LogWrite, disk
  <2>2. p \in Working /\ Committers = {} /\ boot = "up" /\ held[p] \in Blocks
    BY <1>t, <2>1, UpWhenRunning DEF Control, Working, TypeOK
  <2>3. Committers' = {} /\ p \in Working'
    BY <1>t, <2>1, <2>2, Moves
  <2>4. head = <<>> /\ tail = 1
    BY <1>t, <2>2 DEF Stages, At, Committers
  <2>5. NoDups(lh)'
    <3>1. CASE held[p] \in Range(lh)
      BY <1>l, <2>1, <3>1 DEF NoDups
    <3>2. CASE held[p] \notin Range(lh)
      <4>1. /\ Len(lh') = Len(lh) + 1 /\ lh'[Len(lh) + 1] = held[p]
            /\ \A i \in 1 .. Len(lh) : lh'[i] = lh[i] /\ lh[i] # held[p]
        BY <1>l, <2>1, <2>2, <3>2 DEF Range
      <4>2. \A i \in 1 .. Len(lh') : i \in 1 .. Len(lh) \/ i = Len(lh) + 1
        BY <1>l, <4>1
      <4>3. QED
        BY <1>l, <4>1, <4>2 DEF NoDups
    <3>3. QED
      BY <3>1, <3>2
  <2>6. QED
    BY <2>1, <2>2, <2>3, <2>4, <2>5, StagesNoCommit
<1>6. ASSUME NEW p \in Procs, EndOp(p)
      PROVE  Stages'
  <2>1. /\ pc[p] = "op" /\ UNCHANGED <<head, tail, boot, lh, cache, home, logBlk, dirty>>
    BY <1>6 DEF EndOp, disk
  <2>2. p \in Working /\ ~committing /\ Committers = {} /\ boot = "up" /\ p \notin Committers
    BY <1>t, <2>1, UpWhenRunning DEF Control, Working
  <2>3. head = <<>> /\ tail = 1
    BY <1>t, <2>2 DEF Stages, At, Committers
  <2>4. NoDups(lh)' /\ NoDups(head)'
    BY <1>l, <2>1 DEF NoDups
  <2>5. CASE outstanding = 1
    <3>1. Goto(p, CommitStart) /\ CommitStart \in {"finish", "write_log"}
      BY <1>6, <2>2, <2>5, Zenon DEF EndOp, CommitStart
    <3>2. Committers' = {p}
      BY <1>t, <2>2, <3>1, Moves
    <3>3. pc'[p] = CommitStart
      BY <1>t, <3>1 DEF Goto, TypeOK
    <3>4. \A l \in InCommit : At(l)' <=> l = CommitStart
      BY <3>2, <3>3, AtCommitterNext
    <3>5. CASE lh = <<>>
      <4>1. CommitStart = "finish"
        BY <3>5 DEF CommitStart
      <4>2. QED
        BY <2>1, <2>2, <2>3, <2>4, <3>2, <3>4, <3>5, <4>1 DEF Stages
    <3>6. CASE lh # <<>>
      <4>1. CommitStart = "write_log"
        BY <3>6 DEF CommitStart
      <4>2. tail' \in 1 .. Len(lh') /\ Logged(tail)'
        BY <1>l, <2>1, <2>3, <3>6 DEF Logged
      <4>3. QED
        BY <2>1, <2>2, <2>3, <2>4, <3>2, <3>4, <4>1, <4>2 DEF Stages
    <3>7. QED
      BY <3>5, <3>6
  <2>6. CASE outstanding # 1
    <3>1. pc' = WakeLog([pc EXCEPT ![p] = "idle"]) /\ outstanding' = outstanding - 1
      BY <1>6, <2>2, <2>6, Zenon DEF EndOp
    <3>2. Working' = Working \ {p} /\ Committers' = {}
      BY <1>t, <2>2, <3>1, Wakes
    <3>3. outstanding' # 0
      BY <1>t, <2>6, <3>1 DEF TypeOK
    <3>4. Working' # {}
      BY <1>t, <3>3, FS_EmptySet DEF Control
    <3>5. QED
      BY <2>1, <2>2, <2>3, <2>4, <3>2, <3>4, StagesNoCommit
  <2>7. QED
    BY <2>5, <2>6
<1>7. ASSUME NEW p \in Procs, WriteLog(p)
      PROVE  Stages'
  <2>. DEFINE l == IF LastTurn THEN "write_head" ELSE "write_log"
  <2>1. /\ pc[p] = "write_log" /\ Goto(p, l) /\ NextTail
        /\ logBlk' = [logBlk EXCEPT ![tail] = cache[lh[tail]]]
        /\ UNCHANGED <<home, head, cache, dirty, lh, boot>>
    BY <1>7 DEF WriteLog, logvars
  <2>2. Committers = {p} /\ boot = "up" /\ \A m \in InCommit : At(m) <=> pc[p] = m
    BY <2>1, AtCommitter
  <2>3. head = <<>> /\ tail \in 1 .. Len(lh) /\ Logged(tail)
    BY <1>t, <2>1, <2>2 DEF Stages
  <2>4. Committers' = {p} /\ pc'[p] = l
    BY <1>t, <2>1, <2>2, Moves DEF Goto, TypeOK
  <2>5. \A m \in InCommit : At(m)' <=> l = m
    BY <2>4, AtCommitterNext
  <2>6. \A i \in 1 .. Len(lh) : i < tail + 1 => logBlk'[i] = cache[lh[i]]
    <3>1. ASSUME NEW i \in 1 .. Len(lh), i < tail + 1
          PROVE  logBlk'[i] = cache[lh[i]]
      <4>1. i \in LogIndex /\ tail \in LogIndex /\ (i = tail \/ i < tail)
        BY <1>l, <2>3, <3>1, LogAssumption DEF LogIndex
      <4>2. CASE i = tail
        BY <1>l, <2>1, <4>1, <4>2
      <4>3. CASE i < tail
        BY <1>l, <2>1, <2>3, <4>1, <4>3 DEF Logged
      <4>4. QED
        BY <4>1, <4>2, <4>3
    <3>2. QED
      BY <3>1
  <2>7. NoDups(lh)' /\ NoDups(head)' /\ lh # <<>>
    BY <1>l, <2>1, <2>3 DEF NoDups
  <2>8. CASE LastTurn
    <3>1. tail' = 1 /\ tail = Len(lh) /\ l = "write_head"
      BY <2>1, <2>8 DEF LastTurn, NextTail
    <3>2. Logged(Len(lh) + 1)'
      BY <2>1, <2>6, <3>1 DEF Logged
    <3>3. QED
      BY <2>1, <2>2, <2>3, <2>4, <2>5, <2>7, <3>1, <3>2 DEF Stages
  <2>9. CASE ~LastTurn
    <3>1. tail' = tail + 1 /\ l = "write_log"
      BY <2>1, <2>9 DEF NextTail
    <3>2. tail' \in 1 .. Len(lh')
      BY <1>l, <2>1, <2>3, <2>9, <3>1 DEF LastTurn
    <3>3. Logged(tail)'
      BY <2>1, <2>6, <3>1 DEF Logged
    <3>4. QED
      BY <2>1, <2>2, <2>3, <2>4, <2>5, <2>7, <3>1, <3>2, <3>3 DEF Stages
  <2>10. QED
    BY <2>8, <2>9
<1>8. ASSUME NEW p \in Procs, WriteHead(p)
      PROVE  Stages'
  <2>1. /\ pc[p] = "write_head" /\ Goto(p, "install") /\ head' = lh
        /\ UNCHANGED <<home, logBlk, cache, dirty, lh, boot, tail>>
    BY <1>8 DEF WriteHead, logvars
  <2>2. Committers = {p} /\ boot = "up" /\ \A m \in InCommit : At(m) <=> pc[p] = m
    BY <2>1, AtCommitter
  <2>3. lh # <<>> /\ Logged(Len(lh) + 1) /\ tail = 1
    BY <1>t, <2>1, <2>2 DEF Stages
  <2>4. Committers' = {p} /\ pc'[p] = "install"
    BY <1>t, <2>1, <2>2, Moves DEF Goto, TypeOK
  <2>5. \A m \in InCommit : At(m)' <=> "install" = m
    BY <2>4, AtCommitterNext
  <2>6. Logged(Len(lh) + 1)' /\ Installed(tail)' /\ tail' \in 1 .. Len(lh')
    BY <1>l, <2>1, <2>3 DEF Logged, Installed
  <2>7. NoDups(lh)' /\ NoDups(head)'
    BY <1>l, <2>1 DEF NoDups
  <2>8. QED
    BY <2>1, <2>2, <2>4, <2>5, <2>6, <2>7 DEF Stages
<1>9. ASSUME NEW p \in Procs, Install(p)
      PROVE  Stages'
  <2>. DEFINE l == IF LastTurn THEN "clear" ELSE "install"
  <2>1. /\ pc[p] = "install" /\ Goto(p, l) /\ InstallBlock
        /\ UNCHANGED <<logBlk, head, lh, boot>>
    BY <1>9 DEF Install, logvars
  <2>2. Committers = {p} /\ boot = "up" /\ \A m \in InCommit : At(m) <=> pc[p] = m
    BY <2>1, AtCommitter
  <2>3. head = lh /\ tail \in 1 .. Len(lh) /\ Logged(Len(lh) + 1) /\ Installed(tail)
    BY <1>t, <2>1, <2>2 DEF Stages
  <2>4. Committers' = {p} /\ pc'[p] = l
    BY <1>t, <2>1, <2>2, Moves DEF Goto, TypeOK
  <2>5. \A m \in InCommit : At(m)' <=> l = m
    BY <2>4, AtCommitterNext
  <2>6. \A i \in 1 .. Len(lh) : i < tail + 1 => home'[lh[i]] = logBlk[i] /\ lh[i] \notin dirty'
    BY <2>1, <2>3, InstallOne
  <2>7. Logged(Len(lh) + 1)'
    <3>1. \A i \in 1 .. Len(lh) : logBlk[i] = cache[lh[i]] /\ lh[i] \in Blocks
      BY <1>l, <2>3 DEF Logged
    <3>2. cache' = [cache EXCEPT ![lh[tail]] = logBlk[tail]] /\ logBlk' = logBlk /\ lh' = lh
      BY <2>1 DEF InstallBlock
    <3>3. \A i \in 1 .. Len(lh) : cache'[lh[i]] = logBlk[i]
      BY <1>l, <2>3, <3>1, <3>2 DEF NoDups
    <3>4. QED
      BY <3>2, <3>3 DEF Logged
  <2>8. NoDups(lh)' /\ NoDups(head)'
    BY <1>l, <2>1 DEF NoDups
  <2>9. CASE LastTurn
    <3>1. tail' = 1 /\ tail = Len(lh) /\ l = "clear"
      BY <2>1, <2>9 DEF LastTurn, NextTail, InstallBlock
    <3>2. Installed(Len(lh) + 1)'
      BY <2>1, <2>6, <3>1 DEF Installed
    <3>3. QED
      BY <2>1, <2>2, <2>3, <2>4, <2>5, <2>7, <2>8, <3>1, <3>2 DEF Stages
  <2>10. CASE ~LastTurn
    <3>1. tail' = tail + 1 /\ l = "install"
      BY <2>1, <2>10 DEF NextTail, InstallBlock
    <3>2. tail' \in 1 .. Len(lh')
      BY <1>l, <2>1, <2>3, <2>10, <3>1 DEF LastTurn
    <3>3. Installed(tail)'
      BY <2>1, <2>6, <3>1 DEF Installed
    <3>4. QED
      BY <2>1, <2>2, <2>3, <2>4, <2>5, <2>7, <2>8, <3>1, <3>2, <3>3 DEF Stages
  <2>11. QED
    BY <2>9, <2>10
<1>10. ASSUME NEW p \in Procs, Clear(p)
       PROVE  Stages'
  <2>1. /\ pc[p] = "clear" /\ Goto(p, "finish") /\ head' = <<>> /\ lh' = <<>>
        /\ UNCHANGED <<boot, tail>>
    BY <1>10 DEF Clear
  <2>2. Committers = {p} /\ boot = "up" /\ \A m \in InCommit : At(m) <=> pc[p] = m
    BY <2>1, AtCommitter
  <2>3. tail = 1
    BY <1>t, <2>1, <2>2 DEF Stages
  <2>4. Committers' = {p} /\ pc'[p] = "finish"
    BY <1>t, <2>1, <2>2, Moves DEF Goto, TypeOK
  <2>5. \A m \in InCommit : At(m)' <=> "finish" = m
    BY <2>4, AtCommitterNext
  <2>6. NoDups(lh)' /\ NoDups(head)'
    BY <2>1 DEF NoDups
  <2>7. QED
    BY <2>1, <2>2, <2>3, <2>4, <2>5, <2>6 DEF Stages
<1>11. ASSUME NEW p \in Procs, Finish(p)
       PROVE  Stages'
  <2>1. /\ pc[p] = "finish" /\ pc' = WakeLog([pc EXCEPT ![p] = "idle"])
        /\ UNCHANGED <<head, lh, boot, tail>>
    BY <1>11 DEF Finish, disk
  <2>2. Committers = {p} /\ boot = "up" /\ \A m \in InCommit : At(m) <=> pc[p] = m
    BY <2>1, AtCommitter
  <2>3. tail = 1 /\ head = <<>> /\ lh = <<>>
    BY <1>t, <2>1, <2>2 DEF Stages
  <2>4. Committers' = {}
    BY <1>t, <2>1, <2>2, Wakes
  <2>5. NoDups(lh)'
    BY <2>1, <2>3 DEF NoDups
  <2>6. QED
    BY <2>1, <2>2, <2>3, <2>4, <2>5, StagesNoCommit
<1>12. ASSUME NEW b \in Blocks, Evict(b)
       PROVE  Stages'
  <2>1. /\ UNCHANGED <<pc, held, lh, boot, home, logBlk, head, dirty, tail>>
        /\ b \notin dirty /\ cache' = [cache EXCEPT ![b] = home[b]]
        /\ \A q \in Procs : held[q] # b
    BY <1>12 DEF Evict, procvars, logvars, disk
  <2>2. cache' = cache
    BY <1>l, <2>1 DEF IInv, CleanIsHome
  <2>3. Working' = Working /\ Committers' = Committers /\ \A m \in InCommit : At(m)' <=> At(m)
    BY <2>1 DEF Working, Committers, At
  <2>4. QED
    BY <2>1, <2>2, <2>3, StagesFrame
<1>13. CASE Crash
  <2>1. \A m \in InCommit : ~At(m)'
    BY <1>13 DEF Crash, At
  <2>2. boot' = "read_head" /\ lh' = <<>> /\ tail' = 1 /\ head' = head
    BY <1>13 DEF Crash, disk
  <2>3. NoDups(lh)' /\ NoDups(head)'
    BY <1>l, <2>2 DEF NoDups
  <2>4. QED
    BY <2>1, <2>2, <2>3 DEF Stages
<1>14. CASE ReadHead
  <2>1. /\ boot = "read_head" /\ lh' = head /\ boot' = IF head = <<>> THEN "clear" ELSE "install"
        /\ UNCHANGED <<home, logBlk, head, cache, dirty, tail, pc>>
    BY <1>14 DEF ReadHead, disk, procvars
  <2>2. \A m \in InCommit : ~At(m) /\ ~At(m)'
    BY <1>t, <2>1 DEF At, Control
  <2>3. tail = 1
    BY <1>t, <2>1, <2>2 DEF Stages
  <2>4. NoDups(lh)' /\ NoDups(head)'
    BY <1>l, <2>1 DEF NoDups
  <2>5. /\ head # <<>> => tail' \in 1 .. Len(lh') /\ Installed(tail)'
        /\ head = <<>> => Installed(Len(lh) + 1)'
    BY <1>l, <2>1, <2>3 DEF Installed
  <2>6. QED
    BY <2>1, <2>2, <2>3, <2>4, <2>5 DEF Stages
<1>15. CASE BootInstall
  <2>1. /\ boot = "install" /\ InstallBlock /\ boot' = IF LastTurn THEN "clear" ELSE "install"
        /\ UNCHANGED <<logBlk, head, lh, pc>>
    BY <1>15 DEF BootInstall, procvars, logvars
  <2>2. \A m \in InCommit : ~At(m) /\ ~At(m)'
    BY <1>t, <2>1 DEF At, Control
  <2>3. head = lh /\ tail \in 1 .. Len(lh) /\ Installed(tail)
    BY <1>t, <2>1 DEF Stages
  <2>4. \A i \in 1 .. Len(lh) : i < tail + 1 => home'[lh[i]] = logBlk[i] /\ lh[i] \notin dirty'
    BY <2>1, <2>3, InstallOne
  <2>5. NoDups(lh)' /\ NoDups(head)'
    BY <1>l, <2>1 DEF NoDups
  <2>6. CASE LastTurn
    <3>1. tail' = 1 /\ tail = Len(lh) /\ boot' = "clear"
      BY <2>1, <2>6 DEF LastTurn, NextTail, InstallBlock
    <3>2. Installed(Len(lh) + 1)'
      BY <2>1, <2>4, <3>1 DEF Installed
    <3>3. QED
      BY <2>1, <2>2, <2>3, <2>5, <3>1, <3>2 DEF Stages
  <2>7. CASE ~LastTurn
    <3>1. tail' = tail + 1 /\ boot' = "install"
      BY <2>1, <2>7 DEF NextTail, InstallBlock
    <3>2. tail' \in 1 .. Len(lh')
      BY <1>l, <2>1, <2>3, <2>7, <3>1 DEF LastTurn
    <3>3. Installed(tail)'
      BY <2>1, <2>4, <3>1 DEF Installed
    <3>4. QED
      BY <2>1, <2>2, <2>3, <2>5, <3>1, <3>2, <3>3 DEF Stages
  <2>8. QED
    BY <2>6, <2>7
<1>16. CASE BootClear
  <2>1. boot' = "up" /\ head' = <<>> /\ lh' = <<>> /\ UNCHANGED <<tail, pc>> /\ boot = "clear"
    BY <1>16 DEF BootClear, procvars
  <2>2. Committers' = {} /\ \A m \in InCommit : ~At(m)
    BY <1>t, <2>1 DEF Committers, At, Control
  <2>3. tail = 1
    BY <1>t, <2>1, <2>2 DEF Stages
  <2>4. NoDups(lh)'
    BY <2>1 DEF NoDups
  <2>5. QED
    BY <2>1, <2>2, <2>3, <2>4, StagesNoCommit
<1>17. CASE UNCHANGED vars
  <2>1. UNCHANGED <<pc, lh, boot, home, logBlk, head, dirty, cache, tail>>
    BY <1>17 DEF vars, procvars, logvars, disk
  <2>2. Working' = Working /\ Committers' = Committers /\ \A m \in InCommit : At(m)' <=> At(m)
    BY <2>1 DEF Working, Committers, At
  <2>3. QED
    BY <2>1, <2>2, StagesFrame
<1>18. QED
  BY <1>1, <1>2, <1>3, <1>4, <1>5, <1>6, <1>7, <1>8, <1>9, <1>10, <1>11, <1>12, <1>13,
     <1>14, <1>15, <1>16, <1>17
     DEF Next, CommitStep

-----------------------------------------------------------------------------
(* The cache and the disk *)

\* The unlogged change of a block is in a locked or pinned buffer.
LEMMA CleanStep ==
  ASSUME IInv, [Next]_vars, Capacity
  PROVE  CleanIsHome'
<1>t. TypeOK /\ TypeOK' /\ Control /\ CleanIsHome
  BY TypeStep DEF IInv
<1>1. ASSUME UNCHANGED <<dirty, held, cache, home>>
      PROVE  CleanIsHome'
  BY <1>t, <1>1 DEF CleanIsHome
<1>2. ASSUME NEW p \in Procs, Call(p) \/ BeginSleep(p) \/ BeginOp(p) \/ LogWriteCheck(p)
                              \/ EndOp(p) \/ WriteLog(p) \/ WriteHead(p) \/ Clear(p) \/ Finish(p)
      PROVE  CleanIsHome'
  BY <1>1, <1>2 DEF Call, BeginSleep, BeginOp, LogWriteCheck, EndOp, WriteLog, WriteHead,
                    Clear, Finish, disk
<1>3. ASSUME NEW p \in Procs, NEW b \in Blocks, NEW v \in Vals, Modify(p, b, v)
      PROVE  CleanIsHome'
  <2>1. /\ cache' = [cache EXCEPT ![b] = v] /\ held' = [held EXCEPT ![p] = b] /\ pc[p] = "op"
        /\ UNCHANGED <<dirty, home>>
    BY <1>3 DEF Modify, disk
  <2>2. held[p] = NoBlock /\ held'[p] = b /\ \A q \in Procs \ {p} : held'[q] = held[q]
    BY <1>t, <2>1 DEF Control, TypeOK
  <2>3. ASSUME NEW c \in Blocks, c \notin dirty', \A q \in Procs : held'[q] # c
        PROVE  cache'[c] = home'[c]
    <3>1. c # b /\ \A q \in Procs : held[q] # c
      BY <2>2, <2>3, LogAssumption
    <3>2. QED
      BY <1>t, <2>1, <2>3, <3>1 DEF CleanIsHome, TypeOK
  <2>4. QED
    BY <2>3 DEF CleanIsHome
<1>4. ASSUME NEW p \in Procs, LogWrite(p)
      PROVE  CleanIsHome'
  <2>1. /\ held' = [held EXCEPT ![p] = NoBlock] /\ dirty' = dirty \union {held[p]}
        /\ UNCHANGED <<cache, home>>
    BY <1>4 DEF LogWrite, disk
  <2>2. \A q \in Procs \ {p} : held'[q] = held[q]
    BY <1>t, <2>1 DEF TypeOK
  <2>3. QED
    BY <1>t, <2>1, <2>2 DEF CleanIsHome
<1>5. ASSUME InstallBlock, UNCHANGED held, tail \in 1 .. Len(lh)
      PROVE  CleanIsHome'
  <2>1. /\ home' = [home EXCEPT ![lh[tail]] = logBlk[tail]]
        /\ cache' = [cache EXCEPT ![lh[tail]] = logBlk[tail]]
        /\ dirty' = dirty \ {lh[tail]}
    BY <1>5 DEF InstallBlock
  <2>2. lh[tail] \in Blocks
    BY <1>t, <1>5 DEF TypeOK
  <2>3. ASSUME NEW c \in Blocks, c \notin dirty', \A q \in Procs : held'[q] # c
        PROVE  cache'[c] = home'[c]
    BY <1>t, <1>5, <2>1, <2>2, <2>3 DEF CleanIsHome, TypeOK
  <2>4. QED
    BY <2>3 DEF CleanIsHome
<1>6. ASSUME NEW p \in Procs, Install(p)
      PROVE  CleanIsHome'
  BY <1>5, <1>6 DEF Install, IInv, Stages, At
<1>7. ASSUME NEW b \in Blocks, Evict(b)
      PROVE  CleanIsHome'
  BY <1>t, <1>7 DEF Evict, CleanIsHome, disk, procvars, TypeOK
<1>8. CASE Crash
  BY <1>8 DEF Crash, CleanIsHome, disk
<1>9. CASE ReadHead \/ BootClear \/ UNCHANGED vars
  BY <1>1, <1>9 DEF ReadHead, BootClear, vars, disk, procvars
<1>10. CASE BootInstall
  BY <1>5, <1>10 DEF BootInstall, procvars, IInv, Stages
<1>11. QED
  BY <1>2, <1>3, <1>4, <1>6, <1>7, <1>8, <1>9, <1>10 DEF Next, CommitStep

\* Every pinned block waits for a commit that will install it.
LEMMA PinnedStep ==
  ASSUME IInv, [Next]_vars, Capacity
  PROVE  PinnedIsLogged'
<1>t. TypeOK /\ TypeOK' /\ Control /\ PinnedIsLogged /\ Stages
  BY TypeStep DEF IInv
<1>1. ASSUME UNCHANGED <<boot, lh>>, dirty' \subseteq dirty
      PROVE  PinnedIsLogged'
  BY <1>t, <1>1 DEF PinnedIsLogged
<1>2. ASSUME NEW p \in Procs, Call(p) \/ BeginSleep(p) \/ BeginOp(p) \/ LogWriteCheck(p)
                              \/ EndOp(p) \/ WriteLog(p) \/ WriteHead(p) \/ Finish(p)
      PROVE  PinnedIsLogged'
  BY <1>1, <1>2 DEF Call, BeginSleep, BeginOp, LogWriteCheck, EndOp, WriteLog, WriteHead,
                    Finish, logvars
<1>3. ASSUME NEW p \in Procs, NEW b \in Blocks, NEW v \in Vals, Modify(p, b, v)
      PROVE  PinnedIsLogged'
  BY <1>1, <1>3 DEF Modify, logvars
<1>4. ASSUME NEW p \in Procs, LogWrite(p)
      PROVE  PinnedIsLogged'
  <2>1. /\ dirty' = dirty \union {held[p]} /\ boot' = boot /\ pc[p] = "logging"
        /\ lh' = IF held[p] \in Range(lh) THEN lh ELSE Append(lh, held[p])
    BY <1>4 DEF LogWrite
  <2>2. boot = "up" /\ held[p] \in Blocks /\ lh \in Seq(Blocks) /\ Len(lh) \in Nat
    BY <1>t, <2>1, UpWhenRunning DEF Control, TypeOK
  <2>3. Range(lh) \union {held[p]} \subseteq Range(lh')
    <3>1. CASE held[p] \in Range(lh)
      BY <2>1, <3>1
    <3>2. CASE held[p] \notin Range(lh)
      <4>1. /\ DOMAIN lh = 1 .. Len(lh) /\ DOMAIN lh' = 1 .. Len(lh) + 1
            /\ lh'[Len(lh) + 1] = held[p] /\ \A i \in 1 .. Len(lh) : lh'[i] = lh[i]
        BY <2>1, <2>2, <3>2
      <4>2. Len(lh) + 1 \in 1 .. Len(lh) + 1 /\ 1 .. Len(lh) \subseteq 1 .. Len(lh) + 1
        BY <2>2
      <4>3. QED
        BY <4>1, <4>2 DEF Range
    <3>3. QED
      BY <3>1, <3>2
  <2>4. QED
    BY <1>t, <2>1, <2>2, <2>3 DEF PinnedIsLogged
<1>5. ASSUME NEW p \in Procs, Install(p)
      PROVE  PinnedIsLogged'
  BY <1>1, <1>5 DEF Install, InstallBlock, logvars
<1>6. ASSUME NEW p \in Procs, Clear(p)
      PROVE  PinnedIsLogged'
  <2>1. pc[p] = "clear" /\ dirty' = dirty /\ boot = "up"
    BY <1>6, UpWhenRunning DEF Clear
  <2>2. Installed(Len(lh) + 1) /\ dirty \subseteq Range(lh)
    BY <1>t, <2>1 DEF Stages, At, PinnedIsLogged
  <2>3. lh \in Seq(Blocks) /\ Len(lh) \in Nat
    BY <1>t DEF TypeOK
  <2>4. dirty = {}
    BY <2>2, <2>3 DEF Installed, Range
  <2>5. QED
    BY <2>1, <2>4 DEF PinnedIsLogged
<1>7. ASSUME NEW b \in Blocks, Evict(b)
      PROVE  PinnedIsLogged'
  BY <1>1, <1>7 DEF Evict, logvars
<1>8. CASE Crash \/ ReadHead \/ BootInstall \/ BootClear
  <2>1. boot' = "up" => dirty' = {}
    BY <1>t, <1>8 DEF Crash, ReadHead, BootInstall, BootClear, Control
  <2>2. QED
    BY <2>1 DEF PinnedIsLogged
<1>9. CASE UNCHANGED vars
  BY <1>1, <1>9 DEF vars, logvars
<1>10. QED
  BY <1>2, <1>3, <1>4, <1>5, <1>6, <1>7, <1>8, <1>9 DEF Next, CommitStep

-----------------------------------------------------------------------------
(* Sleepers *)

\* begin_op sleeps only when somebody will call wakeup: a committer, or an
\* operation whose space it waits for.
LEMMA SleeperStep ==
  ASSUME IInv, [Next]_vars, Capacity
  PROVE  NoLostSleeper'
<1>. USE DEF PCs, InOp, InCommit
<1>t. TypeOK /\ Control /\ Stages /\ NoLostSleeper
  BY DEF IInv
<1>1. ASSUME Working' = Working, Committers' = Committers,
             \A q \in Procs : pc'[q] = "sleeping" => pc[q] = "sleeping"
      PROVE  NoLostSleeper'
  BY <1>t, <1>1 DEF NoLostSleeper
<1>2. ASSUME NEW p \in Procs, NEW l \in PCs, Goto(p, l),
             (l \in InOp) \/ (l \in InCommit)
      PROVE  NoLostSleeper'
  <2>1. p \in Working' \union Committers'
    BY <1>t, <1>2, Moves
  <2>2. QED
    BY <2>1 DEF NoLostSleeper
<1>3. ASSUME NEW p \in Procs, Call(p)
      PROVE  NoLostSleeper'
  <2>1. pc[p] = "idle" /\ Goto(p, "begin")
    BY <1>3 DEF Call
  <2>2. Working' = Working /\ Committers' = Committers
    BY <2>1, AtFrame
  <2>3. \A q \in Procs : pc'[q] = "sleeping" => pc[q] = "sleeping"
    BY <1>t, <2>1 DEF Goto, TypeOK
  <2>4. QED
    BY <1>1, <2>2, <2>3
<1>4. ASSUME NEW p \in Procs, BeginSleep(p)
      PROVE  NoLostSleeper'
  <2>1. pc[p] = "begin" /\ Goto(p, "sleeping") /\ MustWait
    BY <1>4 DEF BeginSleep
  <2>2. Working' = Working /\ Committers' = Committers
    BY <2>1, AtFrame
  <2>3. Working # {} \/ Committers # {}
    <3>1. SUFFICES ASSUME Working = {}, Committers = {}
                   PROVE  FALSE
      OBVIOUS
    <3>2. outstanding = 0 /\ ~committing /\ Len(lh) = 0
      BY <1>t, <2>1, <3>1, UpWhenRunning, FS_EmptySet DEF Control, Stages
    <3>3. QED
      BY <2>1, <3>2, LogAssumption DEF MustWait
  <2>4. QED
    BY <2>2, <2>3 DEF NoLostSleeper
<1>5. ASSUME NEW p \in Procs, BeginOp(p) \/ LogWriteCheck(p) \/ LogWrite(p) \/ WriteLog(p)
                              \/ WriteHead(p) \/ Install(p) \/ Clear(p)
      PROVE  NoLostSleeper'
  BY <1>2, <1>5 DEF BeginOp, LogWriteCheck, LogWrite, WriteLog, WriteHead, Install, Clear
<1>6. ASSUME NEW p \in Procs, NEW b \in Blocks, NEW v \in Vals, Modify(p, b, v)
      PROVE  NoLostSleeper'
  BY <1>2, <1>6 DEF Modify
<1>7. ASSUME NEW p \in Procs, pc' = WakeLog([pc EXCEPT ![p] = "idle"])
      PROVE  NoLostSleeper'
  <2>1. \A q \in Procs : pc'[q] # "sleeping"
    BY <1>7 DEF WakeLog
  <2>2. QED
    BY <2>1 DEF NoLostSleeper
<1>8. ASSUME NEW p \in Procs, EndOp(p)
      PROVE  NoLostSleeper'
  <2>1. Goto(p, "panic") \/ Goto(p, CommitStart) \/ pc' = WakeLog([pc EXCEPT ![p] = "idle"])
    BY <1>8 DEF EndOp
  <2>2. CommitStart \in InCommit
    BY DEF CommitStart
  <2>3. QED
    BY <1>2, <1>7, <2>1, <2>2
<1>9. ASSUME NEW p \in Procs, Finish(p)
      PROVE  NoLostSleeper'
  BY <1>7, <1>9 DEF Finish
<1>10. ASSUME UNCHANGED pc
       PROVE  NoLostSleeper'
  BY <1>1, <1>10 DEF Working, Committers
<1>11. ASSUME NEW b \in Blocks, Evict(b)
       PROVE  NoLostSleeper'
  BY <1>10, <1>11 DEF Evict, procvars
<1>12. CASE Crash
  <2>1. \A q \in Procs : pc'[q] # "sleeping"
    BY <1>12 DEF Crash
  <2>2. QED
    BY <2>1 DEF NoLostSleeper
<1>13. CASE ReadHead \/ BootInstall \/ BootClear \/ UNCHANGED vars
  BY <1>10, <1>13 DEF ReadHead, BootInstall, BootClear, vars, procvars
<1>14. QED
  BY <1>3, <1>4, <1>5, <1>6, <1>8, <1>9, <1>11, <1>12, <1>13 DEF Next, CommitStep

-----------------------------------------------------------------------------
(* Theorems *)

LEMMA InitInv == Init => IInv
<1>. SUFFICES ASSUME Init PROVE IInv
  OBVIOUS
<1>1. /\ home \in [Blocks -> Vals] /\ logBlk \in [LogIndex -> Vals]
      /\ head = <<>> /\ lh = <<>> /\ cache = home /\ dirty = {} /\ outstanding = 0
      /\ committing = FALSE /\ boot = "read_head" /\ tail = 1
      /\ \A p \in Procs : pc[p] = "idle" /\ held[p] = NoBlock /\ opset[p] = {}
  BY DEF Init
<1>2. Working = {} /\ Committers = {}
  BY <1>1 DEF Working, Committers, InOp, InCommit
<1>3. TypeOK
  <2>1. pc \in [Procs -> PCs] /\ held \in [Procs -> Blocks \union {NoBlock}]
    BY DEF Init, PCs
  <2>2. opset \in [Procs -> SUBSET Blocks]
    <3>1. {} \in SUBSET Blocks
      OBVIOUS
    <3>2. QED
      BY <3>1, Zenon DEF Init
  <2>3. head \in Seq(Blocks) /\ lh \in Seq(Blocks) /\ dirty \subseteq Blocks
        /\ outstanding \in Nat /\ tail \in Nat \ {0} /\ boot \in Boots
    BY <1>1 DEF Boots
  <2>4. QED
    BY <1>1, <2>1, <2>2, <2>3, Zenon DEF TypeOK
<1>4. Control
  BY <1>1, <1>2, FS_EmptySet DEF Control
<1>5. Space
  <2>1. Unused = {} /\ Cardinality(Unused) = 0
    BY <1>2, FS_EmptySet DEF Unused
  <2>2. \A p \in Procs : OpSpace(p)
    <3>1. IsFiniteSet({}) /\ Cardinality({}) = 0
      BY FS_EmptySet
    <3>2. ASSUME NEW p \in Procs
          PROVE  OpSpace(p)
      <4>1. opset[p] = {} /\ pc[p] = "idle" /\ 0 <= OpWrites /\ opset[p] \subseteq Range(lh)
        BY <1>1, LogAssumption
      <4>2. QED
        BY <3>1, <4>1 DEF OpSpace
    <3>3. QED
      BY <3>2
  <2>3. Len(lh) = 0 /\ Len(head) = 0
    BY <1>1
  <2>4. Len(lh) + Cardinality(Unused) <= LOGSIZE /\ Len(lh) <= LogBlocks - 1
        /\ Len(head) <= LogBlocks - 1 /\ Len(head) <= LOGSIZE
    BY <2>1, <2>3, LogAssumption
  <2>5. QED
    BY <2>2, <2>4, Zenon DEF Space, OpSpace
<1>6. Stages
  <2>1. \A l \in InCommit : ~At(l)
    BY <1>1 DEF At, InCommit
  <2>2. NoDups(lh) /\ NoDups(head)
    BY <1>1 DEF NoDups
  <2>3. QED
    BY <1>1, <2>1, <2>2 DEF Stages, InCommit
<1>7. CleanIsHome /\ PinnedIsLogged /\ NoLostSleeper
  BY <1>1 DEF CleanIsHome, PinnedIsLogged, NoLostSleeper
<1>8. QED
  BY <1>3, <1>4, <1>5, <1>6, <1>7 DEF IInv

LEMMA NextInv ==
  ASSUME Capacity
  PROVE  IInv /\ [Next]_vars => IInv'
BY TypeStep, ControlStep, SpaceStep, StagesStep, CleanStep, PinnedStep, SleeperStep DEF IInv

\* The inductive invariant holds of every behaviour of the log.
THEOREM Invariance ==
  ASSUME Capacity
  PROVE  Spec => []IInv
<1>1. Init => IInv
  BY InitInv
<1>2. IInv /\ [Next]_vars => IInv'
  BY NextInv
<1>3. QED
  BY <1>1, <1>2, PTL DEF Spec

\* What the invariant says to a reader, property by property.
LEMMA InvImplies ==
  IInv => /\ TypeOK /\ CommitExclusive /\ CleanIsHome
          /\ PinnedIsLogged /\ NoLostSleeper /\ NoPanic
BY DEF IInv, Control, CommitExclusive, NoPanic

\* Every variable of the log keeps its type.
THEOREM TypeCorrect == ASSUME Capacity PROVE Spec => []TypeOK
BY Invariance, InvImplies, PTL

\* commit() runs alone, with no operation between begin_op and end_op.
THEOREM CommitsExclude == ASSUME Capacity PROVE Spec => []CommitExclusive
BY Invariance, InvImplies, PTL

\* bget may recycle any clean, unlocked buffer: its block is on the disk.
THEOREM RecyclingSound == ASSUME Capacity PROVE Spec => []CleanIsHome
BY Invariance, InvImplies, PTL

\* Every pinned buffer waits for a commit that will release it.
THEOREM PinsEnd == ASSUME Capacity PROVE Spec => []PinnedIsLogged
BY Invariance, InvImplies, PTL

\* The reservation of begin_op suffices: no log_write and no end_op panics.
THEOREM ReservationSuffices == ASSUME Capacity PROVE Spec => []NoPanic
BY Invariance, InvImplies, PTL

\* No wakeup of begin_op's sleepers is lost.
THEOREM WakeupsSuffice == ASSUME Capacity PROVE Spec => []NoLostSleeper
BY Invariance, InvImplies, PTL

-----------------------------------------------------------------------------
(* The log implements the atomic disk: the refinement mapping AD of module   *)
(* Log, step by step, under the inductive invariant.                         *)

\* Recovery reads a block from the log when the header names it.
LEMMA RecoveredLogged ==
  ASSUME head \in Seq(Blocks), NoDups(head), NEW i \in 1 .. Len(head)
  PROVE  head[i] \in Blocks /\ Recovered[head[i]] = logBlk[i]
<1>1. DOMAIN head = 1 .. Len(head) /\ head[i] \in Blocks /\ head[i] \in Range(head)
  BY DEF Range
<1>2. (CHOOSE j \in DOMAIN head : head[j] = head[i]) = i
  BY <1>1 DEF NoDups
<1>3. QED
  BY <1>1, <1>2 DEF Recovered

\* It leaves the other home blocks as they are.
LEMMA RecoveredHome ==
  ASSUME NEW b \in Blocks, b \notin Range(head)
  PROVE  Recovered[b] = home[b]
BY DEF Recovered

LEMMA RecoveredEmpty ==
  ASSUME TypeOK, head = <<>>
  PROVE  Recovered = home
<1>1. Range(head) = {}
  BY DEF Range
<1>2. \A b \in Blocks : Recovered[b] = home[b]
  BY <1>1 DEF Recovered
<1>3. home \in [Blocks -> Vals] /\ Recovered = [b \in Blocks |-> Recovered[b]]
  BY DEF TypeOK, Recovered
<1>4. QED
  BY <1>2, <1>3

\* When every block the header names is installed, recovery changes nothing.
LEMMA RecoveredInstalled ==
  ASSUME TypeOK, NoDups(head), \A i \in 1 .. Len(head) : home[head[i]] = logBlk[i]
  PROVE  Recovered = home
<1>1. head \in Seq(Blocks) /\ home \in [Blocks -> Vals]
  BY DEF TypeOK
<1>2. \A b \in Blocks : Recovered[b] = home[b]
  <2>1. ASSUME NEW b \in Range(head)
        PROVE  Recovered[b] = home[b]
    <3>1. PICK i \in 1 .. Len(head) : head[i] = b
      BY <1>1 DEF Range
    <3>2. QED
      BY <1>1, <3>1, RecoveredLogged
  <2>2. QED
    BY <2>1, RecoveredHome
<1>3. Recovered = [b \in Blocks |-> Recovered[b]]
  BY DEF Recovered
<1>4. QED
  BY <1>1, <1>2, <1>3

\* No operation is running and nothing is logged: cache and disk agree.
LEMMA QuietIsStable ==
  ASSUME IInv, boot = "up", Working = {}, Committers = {}
  PROVE  Recovered = cache
<1>1. head = <<>> /\ lh = <<>>
  BY DEF IInv, Stages, At, Committers, InCommit
<1>2. dirty = {} /\ \A p \in Procs : held[p] = NoBlock
  BY <1>1 DEF IInv, PinnedIsLogged, Range, Control, Working, InOp
<1>3. home \in [Blocks -> Vals] /\ cache \in [Blocks -> Vals]
  BY DEF IInv, TypeOK
<1>4. \A b \in Blocks : cache[b] = home[b]
  BY <1>2, LogAssumption DEF IInv, CleanIsHome
<1>5. QED
  BY <1>1, <1>3, <1>4, RecoveredEmpty DEF IInv

LEMMA InitRefines == Init => AD!Init
<1>1. SUFFICES ASSUME Init PROVE AD!Init
  OBVIOUS
<1>2. IInv /\ boot = "read_head" /\ head = <<>>
  BY <1>1, InitInv DEF Init
<1>3. Recovered = home /\ View = Recovered /\ home \in [Blocks -> Vals]
  BY <1>2, RecoveredEmpty DEF View, IInv, TypeOK
<1>4. Working = {}
  BY <1>1 DEF Init, Working, InOp
<1>5. QED
  BY <1>3, <1>4 DEF AD!Init

\* Every step of the log is a step of the atomic disk, or changes none of it.
LEMMA StepRefines ==
  ASSUME IInv, IInv', [Next]_vars
  PROVE  [AD!Next]_(AD!vars)
<1>. USE DEF PCs, InOp, InCommit
<1>t. TypeOK /\ Control /\ Stages
  BY DEF IInv
<1>d. /\ head \in Seq(Blocks) /\ lh \in Seq(Blocks) /\ Len(lh) \in Nat /\ NoDups(head) /\ NoDups(lh)
      /\ home \in [Blocks -> Vals] /\ cache \in [Blocks -> Vals] /\ logBlk \in [LogIndex -> Vals]
  BY <1>t DEF TypeOK, Stages
<1>s. ASSUME UNCHANGED <<View, Recovered, Working>>
      PROVE  [AD!Next]_(AD!vars)
  BY <1>s DEF AD!vars
<1>r. ASSUME UNCHANGED disk
      PROVE  Recovered' = Recovered
  BY <1>r DEF Recovered, disk
<1>v. ASSUME UNCHANGED <<disk, cache, boot>>
      PROVE  UNCHANGED <<View, Recovered>>
  BY <1>r, <1>v DEF View
<1>1. ASSUME NEW p \in Procs, Call(p)
      PROVE  [AD!Next]_(AD!vars)
  <2>1. UNCHANGED <<disk, cache, boot>> /\ Working' = Working
    BY <1>1, AtFrame DEF Call
  <2>2. QED
    BY <1>s, <1>v, <2>1
<1>2. ASSUME NEW p \in Procs, BeginSleep(p)
      PROVE  [AD!Next]_(AD!vars)
  <2>1. UNCHANGED <<disk, cache, boot>> /\ Working' = Working
    BY <1>2, AtFrame DEF BeginSleep
  <2>2. QED
    BY <1>s, <1>v, <2>1
<1>3. ASSUME NEW p \in Procs, BeginOp(p)
      PROVE  [AD!Next]_(AD!vars)
  <2>1. /\ pc[p] = "begin" /\ Goto(p, "op") /\ ~committing
        /\ UNCHANGED <<disk, cache, boot>>
    BY <1>3 DEF BeginOp, MustWait
  <2>2. boot = "up" /\ Committers = {} /\ p \notin Working
    BY <1>t, <2>1, UpWhenRunning DEF Control, Working
  <2>3. Working' = Working \union {p} /\ UNCHANGED <<View, Recovered>>
    BY <1>t, <1>v, <2>1, Moves
  <2>4. Working # {} \/ Recovered = View
    BY <2>2, QuietIsStable DEF View
  <2>5. AD!Begin(p)
    BY <2>2, <2>3, <2>4 DEF AD!Begin
  <2>6. QED
    BY <2>5 DEF AD!Next
<1>4. ASSUME NEW p \in Procs, NEW b \in Blocks, NEW v \in Vals, Modify(p, b, v)
      PROVE  [AD!Next]_(AD!vars)
  <2>1. /\ pc[p] = "op" /\ Goto(p, "modified") /\ cache' = [cache EXCEPT ![b] = v]
        /\ UNCHANGED <<disk, boot>>
    BY <1>4 DEF Modify
  <2>2. p \in Working /\ boot = "up"
    BY <2>1, UpWhenRunning DEF Working
  <2>3. Working' = Working
    BY <2>1, AtFrame
  <2>4. Recovered' = Recovered /\ View' = [View EXCEPT ![b] = v]
    BY <1>r, <2>1, <2>2 DEF View
  <2>5. AD!Write(p, b, v)
    BY <2>2, <2>3, <2>4 DEF AD!Write
  <2>6. QED
    BY <2>5 DEF AD!Next
<1>5. ASSUME NEW p \in Procs, LogWriteCheck(p)
      PROVE  [AD!Next]_(AD!vars)
  <2>1. pc'[p] # "panic"
    BY DEF IInv, Control
  <2>2. pc[p] = "modified" /\ Goto(p, "logging") /\ UNCHANGED <<disk, cache, boot>>
    BY <1>t, <1>5, <2>1 DEF LogWriteCheck, Goto, TypeOK
  <2>3. Working' = Working
    BY <2>2, AtFrame
  <2>4. QED
    BY <1>s, <1>v, <2>2, <2>3
<1>6. ASSUME NEW p \in Procs, LogWrite(p)
      PROVE  [AD!Next]_(AD!vars)
  <2>1. UNCHANGED <<disk, cache, boot>> /\ Working' = Working
    BY <1>6, AtFrame DEF LogWrite
  <2>2. QED
    BY <1>s, <1>v, <2>1
<1>7. ASSUME NEW p \in Procs, EndOp(p)
      PROVE  [AD!Next]_(AD!vars)
  <2>1. pc[p] = "op" /\ UNCHANGED <<disk, cache, boot>>
    BY <1>7 DEF EndOp
  <2>2. p \in Working /\ ~committing
    BY <1>t, <2>1 DEF Working, Control
  <2>3. Working' = Working \ {p}
    <3>1. CASE Goto(p, CommitStart)
      <4>1. CommitStart \in {"finish", "write_log"}
        BY DEF CommitStart
      <4>2. QED
        BY <1>t, <3>1, <4>1, Moves
    <3>2. CASE pc' = WakeLog([pc EXCEPT ![p] = "idle"])
      BY <1>t, <3>2, Wakes
    <3>3. QED
      BY <1>7, <2>2, <3>1, <3>2, Zenon DEF EndOp
  <2>4. AD!End(p)
    BY <1>v, <2>1, <2>2, <2>3 DEF AD!End
  <2>5. QED
    BY <2>4 DEF AD!Next
<1>8. ASSUME NEW p \in Procs, WriteLog(p)
      PROVE  [AD!Next]_(AD!vars)
  <2>1. /\ pc[p] = "write_log" /\ UNCHANGED <<home, head, cache, boot>>
        /\ Goto(p, IF LastTurn THEN "write_head" ELSE "write_log")
    BY <1>8 DEF WriteLog
  <2>2. head = <<>>
    BY <1>t, <2>1, AtCommitter DEF Stages
  <2>3. Recovered = home /\ Recovered' = home'
    <3>1. Range(head) = {} /\ Range(head)' = {}
      BY <2>1, <2>2 DEF Range
    <3>2. Recovered = [b \in Blocks |-> home[b]] /\ Recovered' = [b \in Blocks |-> home'[b]]
      BY <3>1 DEF Recovered
    <3>3. QED
      BY <1>d, <2>1, <3>2
  <2>4. Working' = Working
    BY <1>t, <2>1, Moves DEF Working
  <2>5. QED
    BY <1>s, <2>1, <2>3, <2>4 DEF View
<1>9. ASSUME NEW p \in Procs, WriteHead(p)
      PROVE  [AD!Next]_(AD!vars)
  <2>1. /\ pc[p] = "write_head" /\ Goto(p, "install") /\ head' = lh
        /\ UNCHANGED <<home, logBlk, cache, boot>>
    BY <1>9 DEF WriteHead
  <2>2. Working = {} /\ boot = "up" /\ Logged(Len(lh) + 1)
    BY <1>t, <2>1, AtCommitter DEF Stages
  <2>3. Working' = Working
    BY <1>t, <2>1, <2>2, Moves
  <2>4. \A p2 \in Procs : held[p2] = NoBlock
    BY <1>t, <2>2 DEF Control, Working
  <2>5. Recovered' = cache
    <3>1. ASSUME NEW b \in Blocks
          PROVE  Recovered'[b] = cache[b]
      <4>1. CASE b \in Range(lh)
        <5>1. (CHOOSE j \in DOMAIN lh : lh[j] = b) \in DOMAIN lh
              /\ lh[CHOOSE j \in DOMAIN lh : lh[j] = b] = b
          BY <4>1, Zenon DEF Range
        <5>2. DOMAIN lh = 1 .. Len(lh) /\ \A i \in 1 .. Len(lh) : i < Len(lh) + 1
          BY <1>d
        <5>3. Recovered'[b] = logBlk[CHOOSE j \in DOMAIN lh : lh[j] = b]
          BY <2>1, <4>1 DEF Recovered
        <5>4. QED
          BY <2>2, <5>1, <5>2, <5>3, Zenon DEF Logged
      <4>2. CASE b \notin Range(lh)
        <5>1. b \notin dirty
          BY <2>2, <4>2 DEF IInv, PinnedIsLogged
        <5>2. cache[b] = home[b]
          BY <2>4, <5>1, LogAssumption DEF IInv, CleanIsHome
        <5>3. QED
          BY <2>1, <4>2, <5>2 DEF Recovered
      <4>3. QED
        BY <4>1, <4>2
    <3>2. Recovered' = [b \in Blocks |-> Recovered'[b]]
      BY DEF Recovered
    <3>3. QED
      BY <1>d, <3>1, <3>2
  <2>6. AD!Commit
    BY <2>1, <2>2, <2>3, <2>5 DEF AD!Commit, View
  <2>7. QED
    BY <2>6 DEF AD!Next

<1>i. ASSUME InstallBlock, UNCHANGED <<logBlk, head, lh>>, head = lh, tail \in 1 .. Len(lh)
      PROVE  Recovered' = Recovered
  <2>1. home' = [home EXCEPT ![lh[tail]] = logBlk[tail]] /\ lh[tail] \in Range(head)
    BY <1>d, <1>i DEF InstallBlock, Range
  <2>2. \A b \in Blocks : b \notin Range(head) => home'[b] = home[b]
    BY <1>d, <2>1
  <2>3. QED
    BY <1>i, <2>2 DEF Recovered
<1>10. ASSUME NEW p \in Procs, Install(p)
       PROVE  [AD!Next]_(AD!vars)
  <2>1. /\ pc[p] = "install" /\ InstallBlock /\ UNCHANGED <<logBlk, head, lh, boot>>
        /\ Goto(p, IF LastTurn THEN "clear" ELSE "install")
    BY <1>10 DEF Install, logvars
  <2>2. /\ head = lh /\ tail \in 1 .. Len(lh) /\ Logged(Len(lh) + 1) /\ boot = "up"
    BY <1>t, <2>1, AtCommitter DEF Stages
  <2>3. cache' = cache
    <3>1. logBlk[tail] = cache[lh[tail]] /\ lh[tail] \in Blocks
      BY <1>d, <2>2 DEF Logged
    <3>2. QED
      BY <1>d, <2>1, <3>1 DEF InstallBlock
  <2>4. Working' = Working
    BY <1>t, <2>1, Moves DEF Working
  <2>5. QED
    BY <1>i, <1>s, <2>1, <2>2, <2>3, <2>4 DEF View
<1>11. ASSUME NEW p \in Procs, Clear(p)
       PROVE  [AD!Next]_(AD!vars)
  <2>1. pc[p] = "clear" /\ Goto(p, "finish") /\ head' = <<>> /\ UNCHANGED <<home, cache, boot>>
    BY <1>11 DEF Clear
  <2>2. head = lh /\ Installed(Len(lh) + 1) /\ boot = "up"
    BY <1>t, <2>1, AtCommitter DEF Stages
  <2>3. Recovered = home
    BY <1>d, <1>t, <2>2, RecoveredInstalled DEF Installed
  <2>4. Recovered' = home
    <3>1. Range(head)' = {}
      BY <2>1 DEF Range
    <3>2. Recovered' = [b \in Blocks |-> home[b]]
      BY <2>1, <3>1 DEF Recovered
    <3>3. QED
      BY <1>d, <3>2
  <2>5. Working' = Working
    BY <1>t, <2>1, Moves DEF Working
  <2>6. QED
    BY <1>s, <2>1, <2>2, <2>3, <2>4, <2>5 DEF View
<1>12. ASSUME NEW p \in Procs, Finish(p)
       PROVE  [AD!Next]_(AD!vars)
  <2>1. /\ pc[p] = "finish" /\ pc' = WakeLog([pc EXCEPT ![p] = "idle"])
        /\ UNCHANGED <<disk, cache, boot>>
    BY <1>12 DEF Finish
  <2>2. Working' = Working
    BY <1>t, <2>1, Wakes DEF Working
  <2>3. QED
    BY <1>s, <1>v, <2>1, <2>2
<1>13. ASSUME NEW b \in Blocks, Evict(b)
       PROVE  [AD!Next]_(AD!vars)
  <2>1. /\ UNCHANGED <<disk, pc, boot>> /\ cache' = [cache EXCEPT ![b] = home[b]]
        /\ b \notin dirty /\ \A q \in Procs : held[q] # b
    BY <1>13 DEF Evict, procvars
  <2>2. cache' = cache
    BY <1>d, <2>1 DEF IInv, CleanIsHome
  <2>3. Working' = Working
    BY <2>1 DEF Working
  <2>4. QED
    BY <1>s, <1>v, <2>1, <2>2, <2>3
<1>14. CASE Crash
  <2>1. UNCHANGED disk /\ boot' = "read_head" /\ \A q \in Procs : pc'[q] = "idle"
    BY <1>14 DEF Crash
  <2>2. Recovered' = Recovered /\ View' = Recovered /\ Working' = {}
    BY <1>r, <2>1 DEF View, Working
  <2>3. AD!Crash
    BY <2>2 DEF AD!Crash
  <2>4. QED
    BY <2>3 DEF AD!Next
<1>15. CASE ReadHead
  <2>1. UNCHANGED <<disk, pc>> /\ boot # "up" /\ boot' # "up"
    BY <1>15 DEF ReadHead, procvars
  <2>2. Recovered' = Recovered /\ View' = View /\ Working' = Working
    BY <1>r, <2>1 DEF View, Working
  <2>3. QED
    BY <1>s, <2>2
<1>16. CASE BootInstall
  <2>1. /\ InstallBlock /\ UNCHANGED <<logBlk, head, lh, pc>> /\ boot = "install" /\ boot' # "up"
    BY <1>16 DEF BootInstall, procvars, logvars
  <2>2. head = lh /\ tail \in 1 .. Len(lh)
    BY <1>t, <2>1 DEF Stages
  <2>3. Recovered' = Recovered /\ View' = View /\ Working' = Working
    BY <1>i, <2>1, <2>2 DEF View, Working
  <2>4. QED
    BY <1>s, <2>3
<1>17. CASE BootClear
  <2>1. /\ boot = "clear" /\ boot' = "up" /\ head' = <<>> /\ UNCHANGED <<home, cache, pc>>
    BY <1>17 DEF BootClear, procvars
  <2>2. head = lh /\ Installed(Len(lh) + 1) /\ cache = home
    BY <1>t, <2>1 DEF Stages, Control
  <2>3. Recovered = home
    BY <1>d, <1>t, <2>2, RecoveredInstalled DEF Installed
  <2>4. Recovered' = home
    <3>1. Range(head)' = {}
      BY <2>1 DEF Range
    <3>2. Recovered' = [b \in Blocks |-> home[b]]
      BY <2>1, <3>1 DEF Recovered
    <3>3. QED
      BY <1>d, <3>2
  <2>5. View = home /\ View' = home /\ Working' = Working
    BY <2>1, <2>2, <2>3 DEF View, Working
  <2>6. QED
    BY <1>s, <2>3, <2>4, <2>5
<1>18. CASE UNCHANGED vars
  <2>1. UNCHANGED <<disk, cache, boot, pc>>
    BY <1>18 DEF vars, procvars
  <2>2. Working' = Working
    BY <2>1 DEF Working
  <2>3. QED
    BY <1>s, <1>v, <2>1, <2>2
<1>19. QED
  BY <1>1, <1>2, <1>3, <1>4, <1>5, <1>6, <1>7, <1>8, <1>9, <1>10, <1>11, <1>12, <1>13,
     <1>14, <1>15, <1>16, <1>17, <1>18
     DEF Next, CommitStep

\* Whatever the crash point, the disk goes from the end of one group of whole
\* operations to the end of the next, and a new group starts from a stable disk.
THEOREM Refinement ==
  ASSUME Capacity
  PROVE  Spec => Atomicity
<1>1. Init => AD!Init
  BY InitRefines
<1>2. IInv /\ IInv' /\ [Next]_vars => [AD!Next]_(AD!vars)
  BY StepRefines
<1>3. QED
  BY <1>1, <1>2, Invariance, PTL DEF Spec, Atomicity, AD!Spec
=============================================================================
