------------------------------ MODULE BufCache ------------------------------
(***************************************************************************)
(* The buffer cache and the disk driver of Project_2 (bio.c, ide.c and     *)
(* sleeplock.c): bread, bwrite and brelse over bget, the sleeping lock of  *)
(* each buffer, the queue of requests, the interrupt that answers them,    *)
(* and the processes that sleep meanwhile.                                 *)
(*                                                                         *)
(* A step is what is done under one of bcache.lock, idelock and the        *)
(* spinlock of a sleeping lock.  The log is there as far as it marks       *)
(* buffers dirty (log_write) and writes them later (install_trans).        *)
(***************************************************************************)
EXTENDS Naturals, Sequences, FiniteSets, FiniteSetsExt

CONSTANTS
    Procs,      \* the processes
    Blocks,     \* the blocks that are used
    Vals,       \* what a process stores in a block
    Written,    \* bound: the blocks that are changed, too
    NBUF,       \* the buffers
    MaxPinned   \* how many blocks the log keeps in memory at a time

ASSUME BufCacheAssumption ==
    /\ IsFiniteSet(Procs) /\ "none" \notin Procs \union Blocks
    /\ NBUF \in Nat \ {0} /\ MaxPinned \in Nat /\ Written \subseteq Blocks

VARIABLES
    bufs,      \* per buffer: blockno, B_VALID, B_DIRTY, refcnt and the contents
    mru,       \* bcache's list, the most recently used buffer first
    locked,    \* who holds the sleeping lock of a buffer
    idequeue,  \* the buffers that wait for the disk, the active one first
    drive,     \* the controller: its command, and whether it has finished
    disk,      \* the contents of the blocks on the disk
    pc, cur,   \* where each process is, and the buffer it works on
    panicked   \* bget has found no buffer

vars == <<bufs, mru, locked, idequeue, drive, disk, pc, cur, panicked>>

Bufs == 1 .. NBUF
Contents == Blocks \union Vals
NoBlock == "none"
Nobody == "none"
\* flags = 0: what such a buffer holds is not looked at.
Empty == [blk |-> NoBlock, valid |-> FALSE, dirty |-> FALSE, ref |-> 0, data |-> "none"]
Idle == [cmd |-> "idle", blk |-> NoBlock, data |-> "none", done |-> FALSE]

At(p, l) == ~panicked /\ pc[p] = l
Goto(p, l) == pc' = [pc EXCEPT ![p] = l]
\* wakeup(chan): everybody who sleeps there runs again.
Wake(from, b, to) ==
    [p \in Procs |-> IF pc[p] = from /\ cur[p] = b THEN to ELSE pc[p]]

-----------------------------------------------------------------------------
Init ==
    /\ bufs = [b \in Bufs |-> Empty]
    /\ mru = [i \in Bufs |-> NBUF + 1 - i]
    /\ locked = [b \in Bufs |-> Nobody]
    /\ idequeue = <<>>
    /\ drive = Idle
    /\ disk = [k \in Blocks |-> k]     \* each block has contents of its own
    /\ pc = [p \in Procs |-> "idle"]
    /\ cur = [p \in Procs |-> 0]
    /\ panicked = FALSE

-----------------------------------------------------------------------------
(* bread *)

\* Mutant of Cached: a buffer that nobody uses counts as empty.
CachedInUse(blk) == {b \in Bufs : bufs[b].blk = blk /\ bufs[b].ref > 0}

Cached(blk) == {b \in Bufs : bufs[b].blk = blk}

\* Mutant of Unused: B_DIRTY does not keep a buffer.
UnusedDirty(b) == bufs[b].ref = 0

Unused(b) == bufs[b].ref = 0 /\ ~bufs[b].dirty

\* bget under bcache.lock: the buffer that has the block, else the least recently
\* used one that is neither in use nor dirty.
Bget(p, blk) ==
    LET free == {i \in Bufs : Unused(mru[i])}
        b == IF Cached(blk) # {} THEN Min(Cached(blk)) ELSE mru[Max(free)]
    IN  /\ At(p, "idle")
        /\ \/ /\ Cached(blk) # {}
              /\ bufs' = [bufs EXCEPT ![b].ref = @ + 1]
              /\ cur' = [cur EXCEPT ![p] = b] /\ Goto(p, "lock")
              /\ UNCHANGED panicked
           \/ /\ Cached(blk) = {} /\ free # {}
              /\ bufs' = [bufs EXCEPT ![b] = [Empty EXCEPT !.blk = blk, !.ref = 1]]
              /\ cur' = [cur EXCEPT ![p] = b] /\ Goto(p, "lock")
              /\ UNCHANGED panicked
           \/ /\ Cached(blk) = {} /\ free = {}
              /\ panicked' = TRUE       \* "bget: no buffers"
              /\ UNCHANGED <<bufs, cur, pc>>
        /\ UNCHANGED <<mru, locked, idequeue, drive, disk>>

\* acquiresleep, and the test of B_VALID in bread.
Lock(p) ==
    LET b == cur[p]
    IN  /\ At(p, "lock")
        /\ \/ locked[b] # Nobody /\ Goto(p, "locksleep") /\ UNCHANGED locked
           \/ /\ locked[b] = Nobody
              /\ locked' = [locked EXCEPT ![b] = p]
              /\ Goto(p, IF bufs[b].valid THEN "hold" ELSE "read")
        /\ UNCHANGED <<bufs, mru, idequeue, drive, disk, cur, panicked>>

-----------------------------------------------------------------------------
(* the driver *)

\* idestart: a write sends the data along, a read fetches them at its end.
Start(b) ==
    [cmd |-> IF bufs[b].dirty THEN "write" ELSE "read", blk |-> bufs[b].blk,
     data |-> IF bufs[b].dirty THEN bufs[b].data ELSE "none", done |-> FALSE]

\* iderw appends the buffer and sleeps until the request is done.
Iderw(p) ==
    /\ pc[p] \in {"read", "write"} /\ ~panicked
    /\ idequeue' = Append(idequeue, cur[p])
    /\ drive' = IF idequeue = <<>> THEN Start(cur[p]) ELSE drive
    /\ Goto(p, IF pc[p] = "read" THEN "readsleep" ELSE "writesleep")
    /\ UNCHANGED <<bufs, mru, locked, disk, cur, panicked>>

\* The disk does what it is told and raises its interrupt.
DriveDone ==
    /\ ~panicked /\ drive.cmd # "idle" /\ ~drive.done
    /\ disk' = IF drive.cmd = "write" THEN [disk EXCEPT ![drive.blk] = drive.data] ELSE disk
    /\ drive' = [drive EXCEPT !.done = TRUE,
                              !.data = IF drive.cmd = "read" THEN disk[drive.blk] ELSE @]
    /\ UNCHANGED <<bufs, mru, locked, idequeue, pc, cur, panicked>>

\* Mutant of StartNext: ideintr leaves the next request to somebody else.
StartNothing(q) == Idle

StartNext(q) == IF q = <<>> THEN Idle ELSE Start(Head(q))

\* What the interrupt makes of the buffer of the active request.
Answered(b) ==
    [bufs[b] EXCEPT !.valid = TRUE, !.dirty = FALSE,
                    !.data = IF bufs[b].dirty THEN @ ELSE drive.data]

\* ideintr: the answer, the wakeup and the next request are one step, under idelock.
IdeIntr ==
    /\ ~panicked /\ drive.done
    /\ LET b == Head(idequeue)
       IN  /\ bufs' = [bufs EXCEPT ![b] = Answered(b)]
           /\ idequeue' = Tail(idequeue)
           /\ drive' = StartNext(Tail(idequeue))
           /\ pc' = [p \in Procs |->
                       CASE cur[p] = b /\ pc[p] = "readsleep" -> "readcheck"
                         [] cur[p] = b /\ pc[p] = "writesleep" -> "writecheck"
                         [] OTHER -> pc[p]]
    /\ UNCHANGED <<mru, locked, disk, cur, panicked>>

\* The loop of iderw: back from sleep, the flags are tested again.
Recheck(p) ==
    LET done == bufs[cur[p]].valid /\ ~bufs[cur[p]].dirty
    IN  /\ pc[p] \in {"readcheck", "writecheck"} /\ ~panicked
        /\ Goto(p, IF done THEN "hold"
                   ELSE IF pc[p] = "readcheck" THEN "readsleep" ELSE "writesleep")
        /\ UNCHANGED <<bufs, mru, locked, idequeue, drive, disk, cur, panicked>>

-----------------------------------------------------------------------------
(* what the holder of a buffer does *)

Pinned == {b \in Bufs : bufs[b].dirty}

\* The contents are changed and written at once (bwrite).
Write(p, v) ==
    /\ At(p, "hold") /\ bufs[cur[p]].blk \in Written
    /\ bufs' = [bufs EXCEPT ![cur[p]] = [@ EXCEPT !.data = v, !.dirty = TRUE]]
    /\ Goto(p, "write")
    /\ UNCHANGED <<mru, locked, idequeue, drive, disk, cur, panicked>>

\* The contents are changed and left to the log (log_write), if it has room.
LogWrite(p, v) ==
    /\ At(p, "hold") /\ bufs[cur[p]].blk \in Written
    /\ bufs[cur[p]].dirty \/ Cardinality(Pinned) < MaxPinned
    /\ bufs' = [bufs EXCEPT ![cur[p]] = [@ EXCEPT !.data = v, !.dirty = TRUE]]
    /\ UNCHANGED <<mru, locked, idequeue, drive, disk, pc, cur, panicked>>

\* The log writes a buffer that it has kept (bwrite in install_trans).
Install(p) ==
    /\ At(p, "hold") /\ bufs[cur[p]].dirty
    /\ Goto(p, "write")
    /\ UNCHANGED <<bufs, mru, locked, idequeue, drive, disk, cur, panicked>>

\* Mutant of Unlock: releasesleep forgets the wakeup.
UnlockSilently(p) == [pc EXCEPT ![p] = "unref"]

Unlock(p) == [Wake("locksleep", cur[p], "lock") EXCEPT ![p] = "unref"]

\* brelse: releasesleep with its wakeup, ...
Brelse(p) ==
    /\ At(p, "hold")
    /\ locked' = [locked EXCEPT ![cur[p]] = Nobody]
    /\ pc' = Unlock(p)
    /\ UNCHANGED <<bufs, mru, idequeue, drive, disk, cur, panicked>>

\* Mutant of Fewer: the reference is kept.
AsMany(n) == n

Fewer(n) == n - 1

\* The list with b at its head.
MoveToFront(b) ==
    LET k == CHOOSE i \in Bufs : mru[i] = b
    IN  [i \in Bufs |-> IF i = 1 THEN b ELSE IF i <= k THEN mru[i - 1] ELSE mru[i]]

\* ... and under bcache.lock the end of the reference.
Unref(p) ==
    LET b == cur[p]
    IN  /\ At(p, "unref")
        /\ bufs' = [bufs EXCEPT ![b].ref = Fewer(@)]
        /\ mru' = IF bufs[b].ref = 1 THEN MoveToFront(b) ELSE mru
        /\ cur' = [cur EXCEPT ![p] = 0]
        /\ Goto(p, "idle")
        /\ UNCHANGED <<locked, idequeue, drive, disk, panicked>>

-----------------------------------------------------------------------------
Run(p) == Lock(p) \/ Iderw(p) \/ Recheck(p) \/ Unref(p)

Next ==
    \/ \E p \in Procs :
          \/ \E blk \in Blocks : Bget(p, blk)
          \/ \E v \in Vals : Write(p, v) \/ LogWrite(p, v)
          \/ Lock(p) \/ Iderw(p) \/ Recheck(p) \/ Unref(p)
          \/ Install(p) \/ Brelse(p)
    \/ DriveDone \/ IdeIntr

\* A process that can run is run, the disk answers and its interrupt is taken;
\* what the holder of a buffer does next is up to him, but he lets it go.
Fairness ==
    /\ WF_vars(DriveDone) /\ WF_vars(IdeIntr)
    /\ \A p \in Procs : WF_vars(Run(p)) /\ SF_vars(Brelse(p))

Spec == Init /\ [][Next]_vars /\ Fairness

-----------------------------------------------------------------------------
(* Properties *)

PCs == {"idle", "lock", "locksleep", "read", "readsleep", "readcheck", "hold",
        "write", "writesleep", "writecheck", "unref"}

TypeOK ==
    /\ bufs \in [Bufs -> [blk : Blocks \union {NoBlock}, valid : BOOLEAN,
                          dirty : BOOLEAN, ref : 0 .. Cardinality(Procs),
                          data : Contents \union {"none"}]]
    /\ mru \in [Bufs -> Bufs]
    /\ locked \in [Bufs -> Procs \union {Nobody}]
    /\ idequeue \in Seq(Bufs)
    /\ drive \in [cmd : {"idle", "read", "write"}, blk : Blocks \union {NoBlock},
                  data : Contents \union {"none"}, done : BOOLEAN]
    /\ disk \in [Blocks -> Contents]
    /\ pc \in [Procs -> PCs]
    /\ cur \in [Procs -> Bufs \union {0}]
    /\ panicked \in BOOLEAN

\* A block is in at most one buffer, though bget drops bcache.lock before it has
\* the lock of the buffer that it recycled.
OneBuffer == \A b, c \in Bufs : bufs[b].blk = bufs[c].blk /\ bufs[b].blk # NoBlock => b = c

\* refcnt counts the processes that have the buffer or wait for its lock: one too
\* few and the buffer is recycled under somebody, one too many and it never is.
RefsExact ==
    \A b \in Bufs : bufs[b].ref = Cardinality({p \in Procs : cur[p] = b})

\* The queue and the sleepers agree: each request is of a process that sleeps on
\* it with the buffer locked, no buffer is queued twice, nobody sleeps without a
\* request, and the controller works on the first request whenever there is one.
QueueExact ==
    /\ \A i, j \in 1 .. Len(idequeue) : idequeue[i] = idequeue[j] => i = j
    /\ \A p \in Procs : pc[p] \in {"readsleep", "writesleep"} <=>
           \E i \in 1 .. Len(idequeue) : locked[idequeue[i]] = p
    /\ idequeue # <<>> => drive.blk = bufs[Head(idequeue)].blk
    /\ (drive.cmd = "idle") = (idequeue = <<>>)

\* "bget: no buffers" does not happen as long as there is a buffer for each block
\* that the log keeps and for each process.
BuffersSuffice == MaxPinned + Cardinality(Procs) <= NBUF => ~panicked

\* bget and brelse account for the buffers, whatever runs between the lock of the
\* cache and the lock of a buffer.
BuffersAccounted == TypeOK /\ OneBuffer /\ RefsExact /\ BuffersSuffice

\* Whoever sleeps is woken: a request is answered, whatever the others ask of the
\* disk, and the wakeup of releasesleep does not come between the test of a lock
\* and the sleep.
NobodyOversleeps ==
    \A p \in Procs :
        /\ pc[p] \in {"readsleep", "writesleep"} ~> pc[p] = "hold"
        /\ pc[p] = "locksleep" ~> pc[p] = "lock"

-----------------------------------------------------------------------------
(* The refinement of BlockStore *)

Holding == {"hold", "write", "writesleep", "writecheck"}

View ==
    [p \in Procs |->
       IF pc[p] \in Holding THEN [blk |-> bufs[cur[p]].blk, val |-> bufs[cur[p]].data]
       ELSE [blk |-> "none", val |-> "none"]]

Data ==
    [k \in Blocks |->
       IF \E b \in Bufs : bufs[b].blk = k /\ bufs[b].valid
       THEN bufs[CHOOSE b \in Bufs : bufs[b].blk = k /\ bufs[b].valid].data
       ELSE disk[k]]

Store == INSTANCE BlockStore WITH Vals <- Contents, view <- View, data <- Data

\* Through eviction, pinning and the queue of the driver, whoever holds a block
\* sees what was stored in it last, has it alone, and what reaches the disk is
\* the contents of a block that is held.
StoreSpec == Store!Spec
=============================================================================
