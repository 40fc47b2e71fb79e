-------------------------------- MODULE Pipe --------------------------------
(***************************************************************************)
(* A pipe (pipe.c) between processes that share its two ends by fork: a    *)
(* ring of PIPESIZE bytes under a spinlock, two counters that are never    *)
(* reduced modulo the ring but wrap as unsigned words, readers asleep on   *)
(* &p->nread, writers asleep on &p->nwrite.                                *)
(*                                                                         *)
(* sleep() releases the pipe's lock and goes to sleep in one step, which   *)
(* is what ptable.lock gives; a process that is woken has to take the      *)
(* lock again before it goes on.                                           *)
(***************************************************************************)
EXTENDS Integers, FiniteSets, Sequences

CONSTANTS
    Procs,      \* the processes
    Bytes,      \* what a byte can be
    PIPESIZE,   \* bytes of the ring
    WORD,       \* 2^32: nread and nwrite are uints
    Sizes       \* the lengths passed to read and write

Nobody == "nobody"
Err == -1           \* what a failed call returns

ASSUME PipeAssumption ==
    /\ Nobody \notin Procs
    /\ PIPESIZE \in Nat \ {0}
    /\ WORD \in Nat /\ PIPESIZE < WORD /\ WORD % PIPESIZE = 0
    /\ Sizes \subseteq Nat \ {0}

VARIABLES
    data, nread, nwrite, readopen, writeopen,       \* struct pipe
    lock,       \* who holds p->lock
    freed,      \* the page of the pipe was given back
    fds,        \* the ends each process holds open
    killed,     \* proc->killed
    pc,         \* where each process is
    left,       \* bytes it still wants to move in this call
    moved,      \* bytes it has moved
    result      \* what its last call returned

ring == <<data, nread, nwrite>>
ends == <<readopen, writeopen, freed>>
call == <<left, moved, result>>
vars == <<ring, ends, lock, fds, killed, pc, call>>

Index == 0 .. PIPESIZE - 1
Word == 0 .. WORD - 1
Ends == {"r", "w"}

Asleep == {"wsleep", "rsleep"}
InWrite == {"wlock", "write", "wsleep"}
InRead == {"rlock", "read", "copy", "rsleep"}
Closing == {"close_r", "close_w"}
PCs == {"idle"} \union InWrite \union InRead \union Closing
Holding == {"write", "read", "copy"}     \* between acquire and release

Goto(p, l) == pc' = [pc EXCEPT ![p] = l]

\* wakeup(&p->nread) and wakeup(&p->nwrite) in a step that leaves the map f of
\* program counters; kill wakes one sleeper of either kind.
WakeReaders(f) == [q \in Procs |-> IF f[q] = "rsleep" THEN "rlock" ELSE f[q]]
WakeWriters(f) == [q \in Procs |-> IF f[q] = "wsleep" THEN "wlock" ELSE f[q]]
WakeOne(f, p) ==
    [f EXCEPT ![p] = IF @ = "rsleep" THEN "rlock" ELSE IF @ = "wsleep" THEN "wlock" ELSE @]

\* Mutant of Inc: a wider word than the one compared with.
IncWide(x) == x + 1

\* Unsigned increment.
Inc(x) == IF x + 1 = WORD THEN 0 ELSE x + 1

\* Mutant of Full: the addition does not wrap.
FullSigned == nwrite = nread + PIPESIZE

Full == nwrite = (nread + PIPESIZE) % WORD
Empty == nread = nwrite

Init ==
    /\ data \in [Index -> Bytes]
    /\ nread = 0 /\ nwrite = 0
    /\ readopen = TRUE /\ writeopen = TRUE /\ freed = FALSE
    /\ lock = Nobody
    /\ \E p \in Procs : fds = [q \in Procs |-> IF q = p THEN Ends ELSE {}]
    /\ killed = [p \in Procs |-> FALSE]
    /\ pc = [p \in Procs |-> "idle"]
    /\ left = [p \in Procs |-> 0]
    /\ moved = [p \in Procs |-> 0]
    /\ result = [p \in Procs |-> Err]

-----------------------------------------------------------------------------
(* Entering and leaving a call *)

Enter(p, n, l) ==
    /\ pc[p] = "idle" /\ ~killed[p]
    /\ left' = [left EXCEPT ![p] = n]
    /\ moved' = [moved EXCEPT ![p] = 0]
    /\ result' = [result EXCEPT ![p] = Err]
    /\ Goto(p, l)
    /\ UNCHANGED <<ring, ends, lock, fds, killed>>

Acquire(p, from, to) ==
    /\ pc[p] = from /\ lock = Nobody
    /\ lock' = p
    /\ Goto(p, to)
    /\ UNCHANGED <<ring, ends, fds, killed, call>>

\* release and return r; f is the map of program counters after the wakeup.
Leave(p, r, f) ==
    /\ lock' = Nobody
    /\ pc' = [f EXCEPT ![p] = "idle"]
    /\ left' = [left EXCEPT ![p] = 0]
    /\ moved' = [moved EXCEPT ![p] = 0]
    /\ result' = [result EXCEPT ![p] = r]
    /\ UNCHANGED <<ring, ends, fds, killed>>

SleepAt(p, l, f) ==
    /\ lock' = Nobody
    /\ pc' = [f EXCEPT ![p] = l]
    /\ UNCHANGED <<ring, ends, fds, killed, call>>

-----------------------------------------------------------------------------
(* pipewrite *)

Write(p, n) == "w" \in fds[p] /\ Enter(p, n, "wlock")

WriteLock(p) == Acquire(p, "wlock", "write")

WriteFails(p) ==
    /\ pc[p] = "write" /\ left[p] > 0 /\ Full
    /\ ~readopen \/ killed[p]
    /\ Leave(p, Err, pc)

\* Mutant of WakeBeforeSleep: a writer goes to sleep on a full ring without a
\* word to the readers.
SleepQuietly(f) == f

WakeBeforeSleep(f) == WakeReaders(f)

WriteSleep(p) ==
    /\ pc[p] = "write" /\ left[p] > 0 /\ Full
    /\ readopen /\ ~killed[p]
    /\ SleepAt(p, "wsleep", WakeBeforeSleep(pc))

WriteByte(p, b) ==
    /\ pc[p] = "write" /\ left[p] > 0 /\ ~Full
    /\ data' = [data EXCEPT ![nwrite % PIPESIZE] = b]
    /\ nwrite' = Inc(nwrite)
    /\ left' = [left EXCEPT ![p] = @ - 1]
    /\ moved' = [moved EXCEPT ![p] = @ + 1]
    /\ UNCHANGED <<nread, ends, lock, fds, killed, pc, result>>

WriteDone(p) ==
    /\ pc[p] = "write" /\ left[p] = 0
    /\ Leave(p, moved[p], WakeReaders(pc))

-----------------------------------------------------------------------------
(* piperead *)

Read(p, n) == "r" \in fds[p] /\ Enter(p, n, "rlock")

ReadLock(p) == Acquire(p, "rlock", "read")

\* Mutant of MustWaitForData: the reader does not look at writeopen.
MustWaitAlways == Empty

MustWaitForData == Empty /\ writeopen

ReadFails(p) ==
    /\ pc[p] = "read" /\ MustWaitForData /\ killed[p]
    /\ Leave(p, Err, pc)

ReadSleep(p) ==
    /\ pc[p] = "read" /\ MustWaitForData /\ ~killed[p]
    /\ SleepAt(p, "rsleep", pc)

ReadStart(p) ==
    /\ pc[p] = "read" /\ ~MustWaitForData
    /\ Goto(p, "copy")
    /\ UNCHANGED <<ring, ends, lock, fds, killed, call>>

ReadByte(p) ==
    /\ pc[p] = "copy" /\ left[p] > 0 /\ ~Empty
    /\ nread' = Inc(nread)
    /\ left' = [left EXCEPT ![p] = @ - 1]
    /\ moved' = [moved EXCEPT ![p] = @ + 1]
    /\ UNCHANGED <<data, nwrite, ends, lock, fds, killed, pc, result>>

\* Mutant of WakeAfterRead: the reader forgets the writers.
WakeNobody(f) == f

WakeAfterRead(f) == WakeWriters(f)

ReadDone(p) ==
    /\ pc[p] = "copy" /\ (left[p] = 0 \/ Empty)
    /\ Leave(p, moved[p], WakeAfterRead(pc))

-----------------------------------------------------------------------------
(* fork, close, kill *)

\* fork: filedup of every open file, for a process that has none.  Bound: the
\* slot of a killed process is not used again.
Fork(p, q) ==
    /\ pc[p] = "idle" /\ fds[p] # {}
    /\ pc[q] = "idle" /\ fds[q] = {} /\ ~killed[q]
    /\ fds' = [fds EXCEPT ![q] = fds[p]]
    /\ UNCHANGED <<ring, ends, lock, killed, pc, call>>

\* fileclose: the last reference goes on to pipeclose, without ftable.lock.
Close(p, e) ==
    /\ pc[p] = "idle" /\ e \in fds[p]
    /\ fds' = [fds EXCEPT ![p] = @ \ {e}]
    /\ Goto(p, IF \E q \in Procs \ {p} : e \in fds[q] THEN "idle"
               ELSE IF e = "r" THEN "close_r" ELSE "close_w")
    /\ UNCHANGED <<ring, ends, lock, killed, call>>

WakeOnClose(e, f) == IF e = "w" THEN WakeReaders(f) ELSE WakeWriters(f)

\* Mutant of LastEnd: the page is given back with the first end.
FirstEnd(e) == TRUE

LastEnd(e) == IF e = "w" THEN ~readopen ELSE ~writeopen

PipeClose(p, e) ==
    /\ pc[p] = (IF e = "w" THEN "close_w" ELSE "close_r")
    /\ lock = Nobody
    /\ writeopen' = (writeopen /\ e # "w")
    /\ readopen' = (readopen /\ e # "r")
    /\ freed' = (freed \/ LastEnd(e))
    /\ pc' = [WakeOnClose(e, pc) EXCEPT ![p] = "idle"]
    /\ UNCHANGED <<ring, lock, fds, killed, call>>

Kill(p) ==
    /\ ~killed[p]
    /\ killed' = [killed EXCEPT ![p] = TRUE]
    /\ pc' = WakeOne(pc, p)
    /\ UNCHANGED <<ring, ends, lock, fds, call>>

-----------------------------------------------------------------------------
Locked(p) ==
    \/ WriteFails(p) \/ WriteSleep(p) \/ WriteDone(p)
    \/ \E b \in Bytes : WriteByte(p, b)
    \/ ReadFails(p) \/ ReadSleep(p) \/ ReadStart(p) \/ ReadByte(p) \/ ReadDone(p)

Next ==
    \E p \in Procs :
        \/ \E n \in Sizes : Write(p, n) \/ Read(p, n)
        \/ WriteLock(p) \/ ReadLock(p) \/ Locked(p)
        \/ \E q \in Procs : Fork(p, q)
        \/ \E e \in Ends : Close(p, e) \/ PipeClose(p, e)
        \/ Kill(p)

Spec == Init /\ [][Next]_vars

GetsLock(p) == WriteLock(p) \/ ReadLock(p) \/ \E e \in Ends : PipeClose(p, e)

\* A process that holds the lock goes on, and a process that wants the lock
\* gets it at some time (xchg has no queue, hence strong fairness).  Nobody has
\* to read, to write or to close.
Fairness ==
    \A p \in Procs :
        /\ WF_vars(Locked(p))
        /\ SF_vars(GetsLock(p))

FairSpec == Spec /\ Fairness

-----------------------------------------------------------------------------
(* Properties *)

TypeOK ==
    /\ data \in [Index -> Bytes]
    /\ nread \in Word /\ nwrite \in Word
    /\ readopen \in BOOLEAN /\ writeopen \in BOOLEAN /\ freed \in BOOLEAN
    /\ lock \in Procs \union {Nobody}
    /\ fds \in [Procs -> SUBSET Ends]
    /\ killed \in [Procs -> BOOLEAN]
    /\ pc \in [Procs -> PCs]
    /\ left \in [Procs -> Nat]
    /\ moved \in [Procs -> Nat]
    /\ result \in [Procs -> Nat \union {Err}]

\* Bytes in the ring.
Count == (nwrite + WORD - nread) % WORD

\* The bytes under way, the oldest first, and who was told the end of the stream.
Content == [i \in 1 .. Count |-> data[(nread + i - 1) % PIPESIZE]]
ToldEnd == {p \in Procs : result[p] = 0}

\* The pipe is a bounded stream of bytes, the counters' wrapping included.
Stream == INSTANCE ByteStream WITH bytes <- Content, open <- writeopen, ended <- ToldEnd

StreamSpec == Stream!Spec

Copying == \E p \in Procs : pc[p] = "copy"
Writing == \E p \in Procs : pc[p] = "write"

\* No wakeup of a writer is lost (the loop of pipewrite, wakeup in piperead,
\* pipeclose and kill): a writer sleeps only while the ring is full, a read end is
\* open and nobody killed it, or while the reader who made room is still at it.
WriterSleepsForRoom ==
    \A p \in Procs : pc[p] = "wsleep" => (Full \/ Copying) /\ readopen /\ ~killed[p]

\* No wakeup of a reader is lost (the loop of piperead, wakeup in pipewrite,
\* pipeclose and kill): a reader sleeps only while the ring is empty and a write
\* end is open, or while the writer is still at it.  The exception is a killed
\* writer, which leaves a full ring (pipe.c:86-89) without a word to the readers.
ReaderSleepsForData ==
    \A p \in Procs : pc[p] = "rsleep" =>
        (Empty \/ Writing \/ \E q \in Procs : killed[q])
        /\ writeopen /\ ~killed[p]

\* No wakeup is lost on either channel, whoever reads, writes, closes or kills in
\* between the test of a loop and the sleep; and the counters stay in their width.
SleepersHaveCause == TypeOK /\ WriterSleepsForRoom /\ ReaderSleepsForData

\* Nobody is in the pipe, or may come into it, once its page is free.
NoUseAfterFree ==
    freed => \A p \in Procs : fds[p] = {} /\ pc[p] = "idle"

\* A writer that the last reader leaves behind gets an error, a reader that the
\* last writer leaves behind gets the rest and the end of the stream: neither is
\* left in the pipe for ever (wakeup in pipeclose, the tests in both loops).
Forsaken(p) ==
    \/ pc[p] \in InWrite /\ ~readopen
    \/ pc[p] \in InRead /\ ~writeopen

ForsakenLeave == \A p \in Procs : Forsaken(p) ~> pc[p] = "idle"
=============================================================================
