------------------------------ MODULE BufSync ------------------------------
(***************************************************************************)
(* The buffer cache and the write-back of Project_3 (bio.c, log.c): blocks *)
(* that an operation changed stay dirty in the cache until sync, called by *)
(* a program or by bget when every buffer is in use or dirty, writes them  *)
(* to their home.  There is no log any more.                               *)
(*                                                                         *)
(* What a block contains matters only in whether it is the latest the file *)
(* system wrote to it.  A buffer is handed out, locked, read from disk and *)
(* written to it in separate steps; bcache.lock and log.lock make a step   *)
(* of what they protect.  Two keep log.lock longer: begin_op spins with it *)
(* until the sync under way has ended, and a second sync panics with it    *)
(* (the others may go on until they need the lock, too).                   *)
(***************************************************************************)
EXTENDS Integers, FiniteSets

CONSTANTS
    Procs,      \* the processes
    Blocks,     \* the blocks of the disk
    NBUF,       \* the buffers of the cache
    MaxHeld,    \* buffers an operation holds at a time (bmap holds a table
                \* while it allocates a block)
    MaxCount    \* bound: rewrites counted in log.lh.n between two syncs

Nobody == "nobody"
NoBlock == "no block"
Bufs == 1 .. NBUF

ASSUME BufSyncAssumption ==
    /\ IsFiniteSet(Procs) /\ Nobody \notin Procs /\ NoBlock \notin Blocks
    /\ NBUF \in Nat \ {0} /\ MaxHeld \in Nat \ {0} /\ MaxCount \in Nat

VARIABLES
    buf,            \* bcache.buf; "latest" for the contents
    diskLatest,     \* whether the home of a block has its latest contents
    n,              \* log.lh.n
    outstanding,    \* log.outstanding
    committing,     \* log.committing
    lockholder,     \* who keeps log.lock: in begin_op, or in the panic of sync
    pc,             \* where each process is
    want,           \* the block bread was asked for
    target,         \* the buffer bget found, or i of flush_to_disk
    ret,            \* ret of sync
    flushed,        \* blocks this sync has written
    due             \* blocks that were dirty when this sync began

cache == <<buf, diskLatest>>
log == <<n, outstanding, committing, lockholder>>
sync == <<ret, flushed, due>>
vars == <<cache, log, pc, want, target, sync>>

PCs == {"idle", "spin", "op", "bget", "acquire", "read", "sync", "commit", "flush",
        "flushlock", "flushwrite", "finish", "panic"}

Buffer ==
    [block : Blocks \union {NoBlock}, valid : BOOLEAN, dirty : BOOLEAN,
     holder : Procs \union {Nobody}, refcnt : Int, latest : BOOLEAN]

Init ==
    /\ buf = [i \in Bufs |-> [block |-> NoBlock, valid |-> FALSE, dirty |-> FALSE,
                              holder |-> Nobody, refcnt |-> 0, latest |-> FALSE]]
    /\ diskLatest = [b \in Blocks |-> TRUE]
    /\ n = 0 /\ outstanding = 0 /\ committing = FALSE /\ lockholder = Nobody
    /\ pc = [p \in Procs |-> "idle"]
    /\ want = [p \in Procs |-> NoBlock]
    /\ target = [p \in Procs |-> 0]
    /\ ret = [p \in Procs |-> 0]
    /\ flushed = [p \in Procs |-> 0]
    /\ due = [p \in Procs |-> {}]

-----------------------------------------------------------------------------
(* Helpers *)

Goto(p, l) == pc' = [pc EXCEPT ![p] = l]

Held(p) == {i \in Bufs : buf[i].holder = p}
LogLockFree == lockholder = Nobody
DirtyBlocks == {buf[i].block : i \in {j \in Bufs : buf[j].dirty}}

\* Mutant of Cached: a buffer whose block is not read yet is passed over.
CachedAndRead(b) == {i \in Bufs : buf[i].block = b /\ buf[i].valid}

Cached(b) == {i \in Bufs : buf[i].block = b}

\* Mutant of Recyclable: B_DIRTY is not looked at.
RecyclableUnused == {i \in Bufs : buf[i].refcnt = 0}

Recyclable == {i \in Bufs : buf[i].refcnt = 0 /\ ~buf[i].dirty}

\* Mutants of Referenced and Recycled: a hit that does not count, flags that are
\* not cleared.
ReferencedNot(i) == buf
RecycledValid(i, b) ==
    [buf EXCEPT ![i].block = b, ![i].latest = FALSE, ![i].refcnt = 1]

Referenced(i) == [buf EXCEPT ![i].refcnt = @ + 1]
Recycled(i, b) ==
    [buf EXCEPT ![i].block = b, ![i].valid = FALSE, ![i].dirty = FALSE,
                ![i].latest = FALSE, ![i].refcnt = 1]

\* brelse; the MRU list is left out, since any buffer may be the oldest.
Released(f, i) == [f EXCEPT ![i].holder = Nobody, ![i].refcnt = @ - 1]

\* The buffer i is locked by p, who goes on at l.
Lock(p, i, l) ==
    /\ buf[i].holder = Nobody
    /\ buf' = [buf EXCEPT ![i].holder = p]
    /\ Goto(p, l)

-----------------------------------------------------------------------------
(* begin_op and end_op *)

BeginOp(p) ==
    /\ pc[p] = "idle" /\ LogLockFree /\ ~committing
    /\ outstanding' = outstanding + 1
    /\ Goto(p, "op")
    /\ UNCHANGED <<cache, n, committing, lockholder, want, target, sync>>

BeginOpSpin(p) ==
    /\ pc[p] = "idle" /\ LogLockFree /\ committing
    /\ lockholder' = p
    /\ Goto(p, "spin")
    /\ UNCHANGED <<cache, n, outstanding, committing, want, target, sync>>

BeginOpEnd(p) ==
    /\ pc[p] = "spin" /\ ~committing
    /\ lockholder' = Nobody
    /\ outstanding' = outstanding + 1
    /\ Goto(p, "op")
    /\ UNCHANGED <<cache, n, committing, want, target, sync>>

EndOp(p) ==
    /\ pc[p] = "op" /\ Held(p) = {} /\ LogLockFree
    /\ outstanding' = outstanding - 1
    /\ Goto(p, "idle")
    /\ UNCHANGED <<cache, n, committing, lockholder, want, target, sync>>

-----------------------------------------------------------------------------
(* bread, log_write, brelse, in an operation *)

Bread(p, b) ==
    /\ pc[p] = "op"
    /\ Cardinality(Held(p)) < MaxHeld
    /\ \A i \in Held(p) : buf[i].block # b
    /\ want' = [want EXCEPT ![p] = b]
    /\ Goto(p, "bget")
    /\ UNCHANGED <<cache, log, target, sync>>

BgetHit(p) ==
    /\ pc[p] = "bget"
    /\ \E i \in Cached(want[p]) :
        /\ buf' = Referenced(i)
        /\ target' = [target EXCEPT ![p] = i]
    /\ want' = [want EXCEPT ![p] = NoBlock]
    /\ Goto(p, "acquire")
    /\ UNCHANGED <<diskLatest, log, sync>>

BgetRecycle(p) ==
    /\ pc[p] = "bget" /\ Cached(want[p]) = {}
    /\ \E i \in Recyclable :
        /\ buf' = Recycled(i, want[p])
        /\ target' = [target EXCEPT ![p] = i]
    /\ want' = [want EXCEPT ![p] = NoBlock]
    /\ Goto(p, "acquire")
    /\ UNCHANGED <<diskLatest, log, sync>>

BgetSync(p) ==
    /\ pc[p] = "bget" /\ Cached(want[p]) = {} /\ Recyclable = {}
    /\ Goto(p, "sync")
    /\ UNCHANGED <<cache, log, want, target, sync>>

BgetLock(p) ==
    /\ pc[p] = "acquire"
    /\ Lock(p, target[p], IF buf[target[p]].valid THEN "op" ELSE "read")
    /\ UNCHANGED <<diskLatest, log, want, target, sync>>

\* iderw of a buffer that is not valid.
BreadDisk(p) ==
    /\ pc[p] = "read"
    /\ buf' = [buf EXCEPT ![target[p]].valid = TRUE,
                          ![target[p]].latest = diskLatest[buf[target[p]].block]]
    /\ Goto(p, "op")
    /\ UNCHANGED <<diskLatest, log, want, target, sync>>

\* The caller changes the block and calls log_write.
LogWrite(p, i) ==
    /\ pc[p] = "op" /\ i \in Held(p) /\ LogLockFree
    /\ buf[i].dirty => n < MaxCount
    /\ n' = IF buf[i].dirty THEN n + 1 ELSE n
    /\ buf' = [buf EXCEPT ![i].dirty = TRUE]
    /\ diskLatest' = [diskLatest EXCEPT ![buf[i].block] = FALSE]
    /\ UNCHANGED <<outstanding, committing, lockholder, pc, want, target, sync>>

Brelse(p, i) ==
    /\ pc[p] = "op" /\ i \in Held(p)
    /\ buf' = Released(buf, i)
    /\ UNCHANGED <<diskLatest, log, pc, want, target, sync>>

-----------------------------------------------------------------------------
(* sync, commit and flush_to_disk *)

SyncCall(p) ==
    /\ pc[p] = "idle"
    /\ Goto(p, "sync")
    /\ UNCHANGED <<cache, log, want, target, sync>>

SyncPanics(p) ==
    /\ pc[p] = "sync" /\ LogLockFree /\ committing
    /\ lockholder' = p
    /\ Goto(p, "panic")
    /\ UNCHANGED <<cache, n, outstanding, committing, want, target, sync>>

\* sync has end_op's decrement as a comment: the operation whose bget syncs goes on.
OutstandingInSync == outstanding

SyncStart(p) ==
    /\ pc[p] = "sync" /\ LogLockFree /\ ~committing
    /\ committing' = TRUE
    /\ outstanding' = OutstandingInSync
    /\ ret' = [ret EXCEPT ![p] = n]
    /\ flushed' = [flushed EXCEPT ![p] = 0]
    /\ due' = [due EXCEPT ![p] = DirtyBlocks]
    /\ Goto(p, "commit")
    /\ UNCHANGED <<cache, n, lockholder, want, target>>

Commit(p) ==
    /\ pc[p] = "commit"
    /\ IF n > 0
         THEN Goto(p, "flush") /\ target' = [target EXCEPT ![p] = 1]
         ELSE Goto(p, "finish") /\ UNCHANGED target
    /\ UNCHANGED <<cache, log, want, sync>>

\* Mutant of LastBuf: the loop stops one buffer early.
LastBufButOne == NBUF - 1

LastBuf == NBUF

FlushClean(p) ==
    /\ pc[p] = "flush" /\ target[p] <= LastBuf /\ ~buf[target[p]].dirty
    /\ target' = [target EXCEPT ![p] = @ + 1]
    /\ UNCHANGED <<cache, log, pc, want, sync>>

\* bread of the block of a dirty buffer: bget finds that buffer.
FlushBget(p) ==
    /\ pc[p] = "flush" /\ target[p] <= LastBuf /\ buf[target[p]].dirty
    /\ buf' = Referenced(target[p])
    /\ Goto(p, "flushlock")
    /\ UNCHANGED <<diskLatest, log, want, target, sync>>

FlushLock(p) ==
    /\ pc[p] = "flushlock"
    /\ Lock(p, target[p], "flushwrite")
    /\ UNCHANGED <<diskLatest, log, want, target, sync>>

\* bwrite and brelse.
FlushWrite(p) ==
    /\ pc[p] = "flushwrite"
    /\ LET i == target[p] IN
        /\ diskLatest' = [diskLatest EXCEPT ![buf[i].block] = buf[i].latest]
        /\ buf' = Released([buf EXCEPT ![i].dirty = FALSE], i)
        /\ due' = [due EXCEPT ![p] = @ \ {buf[i].block}]
    /\ flushed' = [flushed EXCEPT ![p] = @ + 1]
    /\ target' = [target EXCEPT ![p] = @ + 1]
    /\ Goto(p, "flush")
    /\ UNCHANGED <<log, want, ret>>

\* log.lh.n = 0, without log.lock.
FlushEnd(p) ==
    /\ pc[p] = "flush" /\ target[p] > LastBuf
    /\ n' = 0
    /\ Goto(p, "finish")
    /\ UNCHANGED <<cache, outstanding, committing, lockholder, want, target, sync>>

\* log.committing = 0, without log.lock; back to sys_sync or to bget.
SyncEnd(p) ==
    /\ pc[p] = "finish"
    /\ committing' = FALSE
    /\ Goto(p, IF want[p] = NoBlock THEN "idle" ELSE "bget")
    /\ due' = [due EXCEPT ![p] = {}]
    /\ flushed' = [flushed EXCEPT ![p] = 0]
    /\ ret' = [ret EXCEPT ![p] = 0]
    /\ target' = [target EXCEPT ![p] = 0]
    /\ UNCHANGED <<cache, n, outstanding, lockholder, want>>

-----------------------------------------------------------------------------
Next ==
    \E p \in Procs :
        \/ BeginOp(p) \/ BeginOpSpin(p) \/ BeginOpEnd(p) \/ EndOp(p)
        \/ \E b \in Blocks : Bread(p, b)
        \/ BgetHit(p) \/ BgetRecycle(p) \/ BgetSync(p) \/ BgetLock(p) \/ BreadDisk(p)
        \/ \E i \in Bufs : LogWrite(p, i) \/ Brelse(p, i)
        \/ SyncCall(p) \/ SyncPanics(p) \/ SyncStart(p) \/ Commit(p)
        \/ FlushClean(p) \/ FlushBget(p) \/ FlushLock(p) \/ FlushWrite(p) \/ FlushEnd(p)
        \/ SyncEnd(p)

Spec == Init /\ [][Next]_vars

-----------------------------------------------------------------------------
(* Properties *)

TypeOK ==
    /\ buf \in [Bufs -> Buffer]
    /\ diskLatest \in [Blocks -> BOOLEAN]
    /\ n \in 0 .. MaxCount
    /\ outstanding \in 0 .. Cardinality(Procs)
    /\ committing \in BOOLEAN
    /\ lockholder \in Procs \union {Nobody}
    /\ pc \in [Procs -> PCs]
    /\ want \in [Procs -> Blocks \union {NoBlock}]
    /\ target \in [Procs -> 0 .. NBUF + 1]
    /\ ret \in [Procs -> 0 .. MaxCount]
    /\ flushed \in [Procs -> 0 .. NBUF]
    /\ due \in [Procs -> SUBSET Blocks]

\* bget never gives a block two buffers, though it drops bcache.lock to sync and
\* starts over.
OneBufferPerBlock ==
    \A i, j \in Bufs : i # j /\ buf[i].block # NoBlock => buf[i].block # buf[j].block

\* What is read from the cache is the latest that was written.
CacheIsLatest == \A i \in Bufs : buf[i].valid => buf[i].latest

\* No write is lost: a block whose home is behind is in a dirty buffer, whatever
\* was recycled or flushed by whoever in between.
NothingLost ==
    \A b \in Blocks : ~diskLatest[b] =>
        \E i \in Bufs : buf[i].block = b /\ buf[i].valid /\ buf[i].dirty

\* A buffer is referenced once by the process that has locked it and once by each
\* that waits for the lock, so bget recycles none that somebody is about to lock.
Waiters(i) == {p \in Procs : pc[p] \in {"acquire", "flushlock"} /\ target[p] = i}

RefcntExact ==
    \A i \in Bufs :
        buf[i].refcnt = Cardinality(Waiters(i)) + (IF buf[i].holder = Nobody THEN 0 ELSE 1)

\* A sync that went through the cache has written every block that was dirty when
\* it began, though it looks at B_DIRTY without a lock.
SyncWritesAll ==
    \A p \in Procs : pc[p] = "finish" /\ flushed[p] > 0 => due[p] = {}
=============================================================================
