-------------------------------- MODULE Log --------------------------------
(***************************************************************************)
(* The write-ahead log of the file system (log.c), over a disk whose only  *)
(* atomic step is the write of one block, and with a crash possible        *)
(* between any two steps.                                                  *)
(*                                                                         *)
(* A file-system call is  begin_op; { modify a locked buffer; log_write }; *)
(* end_op.  The last call to end commits for the group: write_log,         *)
(* write_head, install_trans, clear.  initlog replays a committed log.     *)
(***************************************************************************)
EXTENDS Naturals, FiniteSets, Sequences, Functions

CONSTANTS
    Procs,        \* the processes that make file-system calls
    Blocks,       \* the home blocks of the file system
    Vals,         \* contents of one block
    MAXOPBLOCKS,  \* what begin_op reserves for one operation
    LOGSIZE,      \* entries of the in-memory header, and begin_op's capacity
    LogBlocks,    \* log.size: blocks of the on-disk log, its header included
    OpWrites      \* the most distinct blocks one operation really logs

NoBlock == "none"

ASSUME LogAssumption ==
    /\ IsFiniteSet(Procs)
    /\ NoBlock \notin Blocks
    /\ MAXOPBLOCKS \in Nat \ {0}
    /\ LOGSIZE \in Nat \ {0} /\ MAXOPBLOCKS <= LOGSIZE
    /\ LogBlocks \in Nat \ {0, 1}
    /\ OpWrites \in Nat

VARIABLES
    \* on the disk
    home,         \* the home blocks
    logBlk,       \* the log's data blocks, log.start+1 onwards
    head,         \* the log header: the home block of each log block
    \* in memory, lost in a crash
    cache,        \* what bread of a block returns
    dirty,        \* the blocks whose buffer is pinned by B_DIRTY
    lh,           \* log.lh
    outstanding,  \* log.outstanding
    committing,   \* log.committing
    boot,         \* where initlog is, "up" once it returned
    pc,           \* where each process is
    held,         \* the buffer a process holds locked, modified and not logged yet
    opset,        \* the blocks the running operation of a process has logged
    tail          \* the loop variable of write_log and install_trans

disk == <<home, logBlk, head>>
logvars == <<lh, outstanding, committing>>
procvars == <<pc, held, opset>>
vars == <<disk, cache, dirty, logvars, boot, procvars, tail>>

LogIndex == 1 .. (LogBlocks - 1)

InOp == {"op", "modified", "logging", "panic"}      \* between begin_op and end_op
InCommit == {"write_log", "write_head", "install", "clear", "finish"}
PCs == {"idle", "begin", "sleeping"} \union InOp \union InCommit
Boots == {"read_head", "install", "clear", "up"}

Working == {p \in Procs : pc[p] \in InOp}
Committers == {p \in Procs : pc[p] \in InCommit}
Goto(p, l) == pc' = [pc EXCEPT ![p] = l]

\* Mutant of WakeLog: the caller forgets wakeup(&log).
WakeNobody(f) == f

\* wakeup(&log): every process asleep in begin_op runs its loop again.  f is
\* the map of program counters the caller's own step leaves.
WakeLog(f) == [p \in Procs |-> IF f[p] = "sleeping" THEN "begin" ELSE f[p]]

-----------------------------------------------------------------------------
Init ==
    /\ home \in [Blocks -> Vals]
    /\ logBlk \in [LogIndex -> {home[b] : b \in Blocks}]
    /\ head = <<>>
    /\ cache = home /\ dirty = {}
    /\ lh = <<>> /\ outstanding = 0 /\ committing = FALSE
    /\ boot = "read_head"
    /\ pc = [p \in Procs |-> "idle"]
    /\ held = [p \in Procs |-> NoBlock]
    /\ opset = [p \in Procs |-> {}]
    /\ tail = 1

-----------------------------------------------------------------------------
(* begin_op *)

\* A process enters a file-system call.
Call(p) ==
    /\ boot = "up" /\ pc[p] = "idle"
    /\ Goto(p, "begin")
    /\ UNCHANGED <<disk, cache, dirty, logvars, boot, held, opset, tail>>

\* Mutants of MustWait: no test of log.committing, and no reservation for the
\* operations that are already running.
MustWaitForSpace == Len(lh) + (outstanding + 1) * MAXOPBLOCKS > LOGSIZE
MustWaitUnreserved == committing \/ Len(lh) + MAXOPBLOCKS > LOGSIZE

MustWait == committing \/ Len(lh) + (outstanding + 1) * MAXOPBLOCKS > LOGSIZE

BeginSleep(p) ==
    /\ pc[p] = "begin" /\ MustWait
    /\ Goto(p, "sleeping")
    /\ UNCHANGED <<disk, cache, dirty, logvars, boot, held, opset, tail>>

BeginOp(p) ==
    /\ pc[p] = "begin" /\ ~MustWait
    /\ outstanding' = outstanding + 1
    /\ Goto(p, "op")
    /\ UNCHANGED <<disk, cache, dirty, lh, committing, boot, held, opset, tail>>

-----------------------------------------------------------------------------
(* the body of an operation: bread, modify, log_write, brelse *)

\* bread locks the buffer and the caller changes its data.  How many blocks an
\* operation changes is the caller's side of the contract.
Modify(p, b, v) ==
    /\ pc[p] = "op"
    /\ \A q \in Procs : held[q] # b
    /\ Cardinality(opset[p] \union {b}) <= OpWrites
    /\ cache' = [cache EXCEPT ![b] = v]
    /\ held' = [held EXCEPT ![p] = b]
    /\ Goto(p, "modified")
    /\ UNCHANGED <<disk, dirty, logvars, boot, opset, tail>>

\* log_write's two panics read log.lh.n and log.outstanding without log.lock.
LogCheckFails == Len(lh) >= LOGSIZE \/ Len(lh) >= LogBlocks - 1 \/ outstanding < 1

LogWriteCheck(p) ==
    /\ pc[p] = "modified"
    /\ Goto(p, IF LogCheckFails THEN "panic" ELSE "logging")
    /\ UNCHANGED <<disk, cache, dirty, logvars, boot, held, opset, tail>>

\* Under log.lock: absorb or append, pin the buffer; then the caller's brelse.
LogWrite(p) ==
    /\ pc[p] = "logging"
    /\ lh' = IF held[p] \in Range(lh) THEN lh ELSE Append(lh, held[p])
    /\ dirty' = dirty \union {held[p]}
    /\ opset' = [opset EXCEPT ![p] = @ \union {held[p]}]
    /\ held' = [held EXCEPT ![p] = NoBlock]
    /\ Goto(p, "op")
    /\ UNCHANGED <<disk, cache, outstanding, committing, boot, tail>>

-----------------------------------------------------------------------------
(* end_op and commit *)

\* Mutant of CommitStart: the header is written before the log blocks.
HeadFirst == IF lh = <<>> THEN "finish" ELSE "write_head"

\* commit() does nothing when nothing was logged.
CommitStart == IF lh = <<>> THEN "finish" ELSE "write_log"

EndOp(p) ==
    /\ pc[p] = "op"
    /\ outstanding' = outstanding - 1
    /\ \/ committing /\ Goto(p, "panic") /\ UNCHANGED committing
       \/ ~committing /\ outstanding = 1 /\ Goto(p, CommitStart) /\ committing' = TRUE
       \/ /\ ~committing /\ outstanding # 1
          /\ pc' = WakeLog([pc EXCEPT ![p] = "idle"])
          /\ UNCHANGED committing
    /\ opset' = [opset EXCEPT ![p] = {}]
    /\ UNCHANGED <<disk, cache, dirty, lh, boot, held, tail>>

\* The loops of write_log and install_trans run tail over the header's entries.
LastTurn == tail = Len(lh)

NextTail == tail' = IF LastTurn THEN 1 ELSE tail + 1

\* One turn of write_log: a cached block goes to its place in the log.
WriteLog(p) ==
    /\ pc[p] = "write_log"
    /\ logBlk' = [logBlk EXCEPT ![tail] = cache[lh[tail]]]
    /\ NextTail
    /\ Goto(p, IF LastTurn THEN "write_head" ELSE "write_log")
    /\ UNCHANGED <<home, head, cache, dirty, logvars, boot, held, opset>>

\* The commit point.
WriteHead(p) ==
    /\ pc[p] = "write_head"
    /\ head' = lh
    /\ Goto(p, "install")
    /\ UNCHANGED <<home, logBlk, cache, dirty, logvars, boot, held, opset, tail>>

\* Mutant of InstallBlock: the home block is not written.
InstallNoWrite ==
    /\ cache' = [cache EXCEPT ![lh[tail]] = logBlk[tail]]
    /\ dirty' = dirty \ {lh[tail]}
    /\ NextTail /\ UNCHANGED home

\* One turn of install_trans; bwrite leaves the home buffer clean.
InstallBlock ==
    /\ home' = [home EXCEPT ![lh[tail]] = logBlk[tail]]
    /\ cache' = [cache EXCEPT ![lh[tail]] = logBlk[tail]]
    /\ dirty' = dirty \ {lh[tail]}
    /\ NextTail

Install(p) ==
    /\ pc[p] = "install"
    /\ InstallBlock
    /\ Goto(p, IF LastTurn THEN "clear" ELSE "install")
    /\ UNCHANGED <<logBlk, head, logvars, boot, held, opset>>

\* log.lh.n = 0 and the second write_head.
Clear(p) ==
    /\ pc[p] = "clear"
    /\ lh' = <<>> /\ head' = <<>>
    /\ Goto(p, "finish")
    /\ UNCHANGED <<home, logBlk, cache, dirty, outstanding, committing, boot, held,
                   opset, tail>>

Finish(p) ==
    /\ pc[p] = "finish"
    /\ committing' = FALSE
    /\ pc' = WakeLog([pc EXCEPT ![p] = "idle"])
    /\ UNCHANGED <<disk, cache, dirty, lh, outstanding, boot, held, opset, tail>>

-----------------------------------------------------------------------------
(* the buffer cache, crash and initlog *)

\* bget recycles the buffer of a block that is neither referenced nor dirty;
\* the next bread of the block reads the disk.
Evict(b) ==
    /\ b \notin dirty
    /\ \A p \in Procs : held[p] # b
    /\ cache' = [cache EXCEPT ![b] = home[b]]
    /\ UNCHANGED <<disk, dirty, logvars, boot, procvars, tail>>

Crash ==
    /\ cache' = home /\ dirty' = {}
    /\ lh' = <<>> /\ outstanding' = 0 /\ committing' = FALSE
    /\ boot' = "read_head"
    /\ pc' = [p \in Procs |-> "idle"]
    /\ held' = [p \in Procs |-> NoBlock]
    /\ opset' = [p \in Procs |-> {}]
    /\ tail' = 1
    /\ UNCHANGED disk

ReadHead ==
    /\ boot = "read_head"
    /\ lh' = head
    /\ boot' = IF head = <<>> THEN "clear" ELSE "install"
    /\ UNCHANGED <<disk, cache, dirty, outstanding, committing, procvars, tail>>

BootInstall ==
    /\ boot = "install"
    /\ InstallBlock
    /\ boot' = IF LastTurn THEN "clear" ELSE "install"
    /\ UNCHANGED <<logBlk, head, logvars, procvars>>

BootClear ==
    /\ boot = "clear"
    /\ lh' = <<>> /\ head' = <<>>
    /\ boot' = "up"
    /\ UNCHANGED <<home, logBlk, cache, dirty, outstanding, committing, procvars, tail>>

-----------------------------------------------------------------------------
CommitStep(p) == WriteLog(p) \/ WriteHead(p) \/ Install(p) \/ Clear(p) \/ Finish(p)

Next ==
    \/ \E p \in Procs :
          \/ Call(p) \/ BeginSleep(p) \/ BeginOp(p)
          \/ \E b \in Blocks, v \in Vals : Modify(p, b, v)
          \/ LogWriteCheck(p) \/ LogWrite(p)
          \/ EndOp(p) \/ CommitStep(p)
    \/ \E b \in Blocks : Evict(b)
    \/ Crash
    \/ ReadHead \/ BootInstall \/ BootClear

Spec == Init /\ [][Next]_vars

\* The scheduler runs every runnable process, the disk answers, and a system
\* call logs finitely many blocks before it calls end_op.  Nothing obliges a
\* process to make a call, and nothing obliges the machine to crash.
Fairness ==
    /\ \A p \in Procs :
          /\ WF_vars(BeginSleep(p) \/ BeginOp(p))
          /\ WF_vars(LogWriteCheck(p) \/ LogWrite(p))
          /\ SF_vars(EndOp(p))
          /\ WF_vars(CommitStep(p))
    /\ WF_vars(ReadHead \/ BootInstall \/ BootClear)

FairSpec == Spec /\ Fairness

-----------------------------------------------------------------------------
(* Properties *)

TypeOK ==
    /\ home \in [Blocks -> Vals]
    /\ logBlk \in [LogIndex -> Vals]
    /\ head \in Seq(Blocks)
    /\ cache \in [Blocks -> Vals]
    /\ dirty \subseteq Blocks
    /\ lh \in Seq(Blocks)
    /\ outstanding \in Nat
    /\ committing \in BOOLEAN
    /\ boot \in Boots
    /\ pc \in [Procs -> PCs]
    /\ held \in [Procs -> Blocks \union {NoBlock}]
    /\ opset \in [Procs -> SUBSET Blocks]
    /\ tail \in Nat \ {0}

\* Between write_head and the end of the next one the header commits.  What a
\* recovery that started now would leave in the home blocks:
Recovered ==
    [b \in Blocks |-> IF b \in Range(head)
                      THEN logBlk[CHOOSE i \in DOMAIN head : head[i] = b]
                      ELSE home[b]]

\* What a file-system call reads; nothing runs before recovery is over.
View == IF boot = "up" THEN cache ELSE Recovered

AD == INSTANCE AtomicDisk WITH mem <- View, stable <- Recovered, active <- Working

\* The log implements the atomic disk: whatever the crash point, the disk goes
\* from the end of one group of whole operations to the end of the next.
Atomicity == AD!Spec

\* A commit runs alone: while log.committing is set no operation is between
\* begin_op and end_op, one process commits, and the header it walks is stable.
CommitExclusive ==
    /\ committing <=> Committers # {}
    /\ committing => Working = {} /\ outstanding = 0
    /\ \A p, q \in Committers : p = q

\* bget may recycle any clean buffer, so a block that is neither pinned by
\* B_DIRTY nor locked by its writer must be equal to its home block.
CleanIsHome ==
    \A b \in Blocks : b \notin dirty /\ (\A p \in Procs : held[p] # b) => cache[b] = home[b]

\* A block is pinned exactly while a commit still has to install it: a pinned
\* block that no commit will install would occupy a buffer for ever.
PinnedIsLogged == boot = "up" => dirty \subseteq Range(lh)

\* The space begin_op reserves is enough: no log_write and no end_op panics.
NoPanic == \A p \in Procs : pc[p] # "panic"

\* A process asleep in begin_op has somebody left to wake it.
NoLostSleeper ==
    \A p \in Procs : pc[p] = "sleeping" => Working # {} \/ Committers # {}

\* Whoever sleeps in begin_op is woken (whether it then finds room is luck:
\* the code has no queue).
SleepersWoken == \A p \in Procs : pc[p] = "sleeping" ~> pc[p] # "sleeping"
=============================================================================
