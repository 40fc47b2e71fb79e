------------------------------ MODULE UserMem ------------------------------
(***************************************************************************)
(* The size of a process, its limit and the pages it has (Project_2:       *)
(* growproc, fork, thread_create, setmemorylimit, exec and exec2 over      *)
(* allocuvm, deallocuvm and copyuvm).  All threads of a process keep a     *)
(* copy of its size and of its limit in their slots and share its pages.   *)
(*                                                                         *)
(* A step is what is done under ptable.lock.  Lwp has the states of the    *)
(* threads and who runs; here a slot is unused, live or a zombie.  Sizes   *)
(* are counted in a unit of which PGSIZE make a page.                      *)
(***************************************************************************)
EXTENDS Integers, FiniteSets, FiniteSetsExt

CONSTANTS
    NPROC,     \* slots of the process table
    PGSIZE,    \* units in a page
    KERNBASE,  \* where the user's part of the address space ends
    NFRAMES,   \* physical pages for users
    Grows,     \* what sbrk is called with
    Images,    \* sizes of the programs that exec loads
    Stacks,    \* pages of a new stack with its guard: 2 in exec, more in exec2
    Limits,    \* what setmemorylimit is called with
    MaxCalls   \* bound: the calls of sbrk, fork, thread_create, setmemorylimit
               \* and exec in all

ASSUME UserMemAssumption ==
    /\ NPROC \in Nat \ {0} /\ PGSIZE \in Nat \ {0}
    /\ KERNBASE \in Nat /\ PGSIZE < KERNBASE /\ NFRAMES \in Nat \ {0}
    /\ Grows \subseteq Int /\ IsFiniteSet(Grows) /\ Images \subseteq Nat \ {0}
    /\ Stacks \subseteq Nat \ {0, 1} /\ Limits \subseteq Nat
    /\ MaxCalls \in Nat

VARIABLES
    proc,      \* ptable.proc: state, pid, main, sz, memlim, and the kernel stack
    pages,     \* the pages in the page table of each pid
    exec,      \* per slot: where its exec is, and the new page table
    gone,      \* ghost: pages below the size that sbrk has freed
    broken,    \* ghost: the pids whose size an error has made wrong
    twice,     \* ghost: slots whose kernel stack has been freed twice
    refused,   \* ghost: slots that a refused thread_create has left behind
    panicked,  \* what has stopped the kernel, if anything
    calls      \* the calls so far (bounded)

vars == <<proc, pages, exec, gone, broken, twice, refused, panicked, calls>>

Slots == 1 .. NPROC
Pids == 1 .. NPROC + 1
InitProc == 1
NoExec == [at |-> "none", new |-> {}, sz |-> 0]
FreeSlot == [state |-> "unused", pid |-> 0, main |-> 0, sz |-> 0, memlim |-> 0,
             kstack |-> "none"]

Running(s) == panicked = "no" /\ proc[s].state = "live" /\ exec[s] = NoExec
Of(pid) == {s \in Slots : proc[s].pid = pid}
Unused == {s \in Slots : proc[s].state = "unused"}

\* The number of the first page at or above an address.
PGROUNDUP(sz) == (sz + PGSIZE - 1) \div PGSIZE
\* The pages that lie between two sizes of a process.
Between(old, new) == {a \in 0 .. KERNBASE : PGROUNDUP(old) <= a /\ a * PGSIZE < new}
Below(sz) == Between(0, sz)

\* The pages of all these tables, each with its owner.
AllPages(dirs) == UNION {{i} \X dirs[i] : i \in DOMAIN dirs}

FreeFrames ==
    NFRAMES - Cardinality(AllPages(pages))
            - Cardinality(AllPages([s \in Slots |-> exec[s].new]))

-----------------------------------------------------------------------------
Init ==
    /\ proc = [s \in Slots |->
                 IF s = InitProc THEN [state |-> "live", pid |-> 1, main |-> s,
                                       sz |-> PGSIZE, memlim |-> 0, kstack |-> "held"]
                 ELSE FreeSlot]
    /\ pages = [p \in Pids |-> IF p = 1 THEN {0} ELSE {}]
    /\ exec = [s \in Slots |-> NoExec]
    /\ gone = [p \in Pids |-> {}]
    /\ broken = {} /\ twice = {} /\ refused = {}
    /\ panicked = "no" /\ calls = 0

-----------------------------------------------------------------------------
(* vm.c *)

\* Mutant of Undone: allocuvm leaves behind what it has got.
NotUndone(dir, wanted) == dir \union {Min(wanted)}

\* deallocuvm when the memory runs out: every page of the range goes.
Undone(dir, wanted) == dir \ wanted

\* allocuvm: pages for the addresses from old to new.  It stops at the first
\* page that cannot be had, and panics at one that is mapped already.
allocuvm(dir, old, new) ==
    LET wanted == Between(old, new)
        mapped == wanted \intersect dir
        reached == {a \in wanted : \A m \in mapped : a <= m}
    IN  CASE new >= KERNBASE -> [result |-> "fail", dir |-> dir]
          [] new < KERNBASE /\ Cardinality(reached) > FreeFrames ->
                [result |-> "fail", dir |-> Undone(dir, wanted)]
          [] new < KERNBASE /\ Cardinality(reached) <= FreeFrames /\ mapped # {} ->
                [result |-> "remap", dir |-> dir]
          [] OTHER -> [result |-> "ok", dir |-> dir \union wanted]

\* Mutant of Sized: the size is stored in the main thread only.
SizedMain(P, pid, sz) ==
    [s \in Slots |-> IF P[s].pid = pid /\ P[s].main = s THEN [P[s] EXCEPT !.sz = sz]
                     ELSE P[s]]

\* The end of allocuvm: the size goes into every slot with the caller's pid.
Sized(P, pid, sz) ==
    [s \in Slots |-> IF P[s].pid = pid THEN [P[s] EXCEPT !.sz = sz] ELSE P[s]]

\* A system call begins.
Count == calls < MaxCalls /\ calls' = calls + 1

Panic(why) ==
    /\ panicked' = why
    /\ UNCHANGED <<proc, pages, exec, gone, broken, twice, refused>>

-----------------------------------------------------------------------------
(* sbrk *)

\* The test of the limit in growproc and thread_create, whatever is asked for.
OverLimit(s) == proc[s].memlim > 0 /\ proc[s].memlim < proc[s].sz + 2 * PGSIZE

\* growproc(n), n > 0: all or nothing.
Grow(s, n) ==
    LET pid == proc[s].pid
        a == allocuvm(pages[pid], proc[s].sz, proc[s].sz + n)
    IN  /\ Running(s) /\ n > 0 /\ ~OverLimit(s) /\ Count
        /\ \/ a.result = "remap" /\ Panic("remap")
           \/ /\ a.result # "remap"
              /\ pages' = [pages EXCEPT ![pid] = a.dir]
              /\ proc' = IF a.result = "ok" THEN Sized(proc, pid, proc[s].sz + n) ELSE proc
              /\ UNCHANGED <<exec, gone, broken, twice, refused, panicked>>

\* growproc(n), n < 0: the pages are freed, but nobody stores the new size
\* ("curproc->sz = sz" is commented out and deallocuvm does not do it).  Below
\* 0 the size wraps around and deallocuvm does nothing.
Shrink(s, n) ==
    LET pid == proc[s].pid
        cut == Between(proc[s].sz + n, proc[s].sz)
    IN  /\ Running(s) /\ n < 0 /\ ~OverLimit(s) /\ Count
        /\ proc[s].sz + n >= 0
        /\ pages' = [pages EXCEPT ![pid] = @ \ cut]
        /\ gone' = [gone EXCEPT ![pid] = @ \union cut]
        /\ UNCHANGED <<proc, exec, broken, twice, refused, panicked>>

-----------------------------------------------------------------------------
(* processes and threads *)

NewSlot == Min(Unused)
NewPid == Min({p \in Pids : Of(p) = {}})

\* fork: copyuvm copies what lies below the size, and panics at a page that is not
\* there.  Without memory for the copy fork returns with ptable.lock held.
Fork(s) ==
    LET all == Below(proc[s].sz)
        pid == proc[s].pid
        missing == all \ pages[pid]
        copied == {a \in all : \A m \in missing : a < m}
    IN  /\ Running(s) /\ Unused # {} /\ Count
        /\ \/ missing # {} /\ Cardinality(copied) <= FreeFrames /\ Panic("page not present")
           \/ Cardinality(copied) > FreeFrames /\ Panic("ptable.lock kept")
           \/ /\ missing = {} /\ Cardinality(copied) <= FreeFrames
              /\ proc' = [proc EXCEPT ![NewSlot] =
                    [state |-> "live", pid |-> NewPid, main |-> NewSlot,
                     sz |-> proc[proc[s].main].sz, memlim |-> proc[s].memlim,
                     kstack |-> "held"]]
              /\ pages' = [pages EXCEPT ![NewPid] = all]
              /\ gone' = [gone EXCEPT ![NewPid] = {}]
              /\ broken' = IF pid \in broken THEN broken \union {NewPid} ELSE broken
              /\ refused' = refused \ {NewSlot} /\ twice' = twice \ {NewSlot}
              /\ UNCHANGED <<exec, panicked>>

\* thread_create: two pages above the size of the main thread.  A thread over the
\* limit is taken back but for its pid and the pointer to its kernel stack; one
\* for which there is no memory goes on with the size 0, since the code looks for
\* -1 where allocuvm returns 0.
ThreadCreate(s) ==
    LET pid == proc[s].pid
        main == proc[s].main
        t == NewSlot
        sz == proc[main].sz + 2 * PGSIZE
        a == allocuvm(pages[pid], proc[main].sz, sz)
        new == [state |-> "live", pid |-> pid, main |-> main, sz |-> proc[t].sz,
                memlim |-> proc[s].memlim, kstack |-> "held"]
    IN  /\ Running(s) /\ Unused # {} /\ Count
        /\ \/ /\ OverLimit(main)
              /\ proc' = [proc EXCEPT ![t] = [new EXCEPT !.state = "unused", !.kstack = "freed"]]
              /\ refused' = refused \union {t} /\ twice' = twice \ {t}
              /\ UNCHANGED <<pages, exec, gone, broken, panicked>>
           \/ /\ ~OverLimit(main) /\ a.result = "remap"
              /\ Panic("remap")
           \/ /\ ~OverLimit(main) /\ a.result # "remap"
              /\ pages' = [pages EXCEPT ![pid] = a.dir]
              /\ IF a.result = "ok"
                 THEN /\ proc' = Sized([proc EXCEPT ![t] = new], pid, sz)
                      /\ UNCHANGED broken
                 ELSE /\ proc' = [proc EXCEPT ![t] = [new EXCEPT !.sz = 0], ![main].sz = 0]
                      /\ broken' = broken \union {pid}
              /\ refused' = refused \ {t} /\ twice' = twice \ {t}
              /\ UNCHANGED <<exec, gone, panicked>>

\* Bound: the main thread ends by exit.
ThreadExit(s) ==
    /\ Running(s) /\ proc[s].main # s
    /\ proc' = [proc EXCEPT ![s].state = "zombie"]
    /\ UNCHANGED <<pages, exec, gone, broken, twice, refused, panicked, calls>>

\* Mutant of Joined: thread_join keeps the pid and the pointer to the stack.
JoinedDangling(t) == [FreeSlot EXCEPT !.pid = proc[t].pid, !.kstack = "freed"]

Joined(t) == FreeSlot

Join(s, t) ==
    /\ Running(s) /\ s # t
    /\ proc[t].state = "zombie" /\ proc[t].pid = proc[s].pid
    /\ proc' = [proc EXCEPT ![t] = Joined(t)]
    /\ UNCHANGED <<pages, exec, gone, broken, twice, refused, panicked, calls>>

\* exit makes zombies of all slots with the pid, used or not.
Exit(s) ==
    /\ Running(s) /\ proc[s].pid # 1
    /\ proc' = [t \in Slots |-> IF proc[t].pid = proc[s].pid
                                THEN [proc[t] EXCEPT !.state = "zombie"] ELSE proc[t]]
    /\ UNCHANGED <<pages, exec, gone, broken, twice, refused, panicked, calls>>

\* The stacks of these slots are freed; freed once before, they are now in the
\* list of free pages twice.
FreeStacks(S) == twice' = twice \union {t \in S : proc[t].kstack = "freed"}

\* wait, by the parent or by init: all slots of the process and its pages go.
Wait(pid) ==
    /\ panicked = "no"
    /\ \E s \in Of(pid) : proc[s].state = "zombie" /\ proc[s].main = s
    /\ FreeStacks(Of(pid))
    /\ proc' = [t \in Slots |-> IF t \in Of(pid) THEN FreeSlot ELSE proc[t]]
    /\ pages' = [pages EXCEPT ![pid] = {}]
    /\ gone' = [gone EXCEPT ![pid] = {}]
    /\ broken' = broken \ {pid}
    /\ UNCHANGED <<exec, refused, panicked, calls>>

\* Mutant of TooLow: setmemorylimit takes any limit.
NeverTooLow(sz, limit) == FALSE

TooLow(sz, limit) == limit > 0 /\ sz > limit

\* Mutant of Limited: the threads keep the old limit.
LimitedMain(p, t) == p = t

Limited(p, t) == proc[p].pid = proc[t].pid

\* setmemorylimit, by any process: p is the slot with the pid whose tid is 0.
SetLimit(p, limit) ==
    /\ panicked = "no"
    /\ proc[p].pid # 0 /\ proc[p].main = p
    /\ ~TooLow(proc[p].sz, limit) /\ Count
    /\ proc' = [t \in Slots |-> IF Limited(p, t) THEN [proc[t] EXCEPT !.memlim = limit]
                                ELSE proc[t]]
    /\ UNCHANGED <<pages, exec, gone, broken, twice, refused, panicked>>

-----------------------------------------------------------------------------
(* exec and exec2 *)

ExecAt(s, l) == panicked = "no" /\ proc[s].state = "live" /\ exec[s].at = l

\* thread_remove: the other slots with the pid are freed, and the limit is 0.
Exec(s) ==
    LET others == Of(proc[s].pid) \ {s}
    IN  /\ Running(s) /\ Count
        /\ FreeStacks(others)
        /\ proc' = [t \in Slots |->
              IF t = s THEN [proc[s] EXCEPT !.memlim = 0, !.main = s]
              ELSE IF t \in others THEN FreeSlot ELSE proc[t]]
        /\ exec' = [exec EXCEPT ![s].at = "load"]
        /\ UNCHANGED <<pages, gone, broken, refused, panicked>>

\* The program gets its pages in a table of its own, but allocuvm stores their
\* size in the slot that still has the old table.
ExecAlloc(s, from, old, sz, to) ==
    LET a == allocuvm(exec[s].new, old, sz)
    IN  /\ ExecAt(s, from) /\ a.result = "ok"
        /\ exec' = [exec EXCEPT ![s] = [at |-> to, new |-> a.dir, sz |-> sz]]
        /\ proc' = Sized(proc, proc[s].pid, sz)
        /\ UNCHANGED <<pages, gone, broken, twice, refused, panicked, calls>>

ExecLoad(s, image) == ExecAlloc(s, "load", 0, image, "stack")

ExecStack(s, n) ==
    LET top == PGROUNDUP(exec[s].sz) * PGSIZE
    IN  ExecAlloc(s, "stack", top, top + n * PGSIZE, "check")

\* The limit, which only another process can have set meanwhile.
ExecCheck(s) ==
    /\ ExecAt(s, "check")
    /\ ~(proc[s].memlim > 0 /\ proc[s].memlim < exec[s].sz)
    /\ exec' = [exec EXCEPT ![s].at = "commit"]
    /\ UNCHANGED <<proc, pages, gone, broken, twice, refused, panicked, calls>>

ExecCommit(s) ==
    LET pid == proc[s].pid
    IN  /\ ExecAt(s, "commit")
        /\ pages' = [pages EXCEPT ![pid] = exec[s].new]
        /\ proc' = [proc EXCEPT ![s].sz = exec[s].sz]
        /\ gone' = [gone EXCEPT ![pid] = {}]
        /\ broken' = broken \ {pid}
        /\ exec' = [exec EXCEPT ![s] = NoExec]
        /\ UNCHANGED <<twice, refused, panicked, calls>>

\* No such program, no memory, the limit, too many arguments: the new table is
\* freed and the old program goes on, with the size of the new one.
ExecBad(s) ==
    /\ panicked = "no" /\ proc[s].state = "live" /\ exec[s] # NoExec
    /\ exec' = [exec EXCEPT ![s] = NoExec]
    /\ broken' = IF exec[s].at = "load" THEN broken ELSE broken \union {proc[s].pid}
    /\ UNCHANGED <<proc, pages, gone, twice, refused, panicked, calls>>

-----------------------------------------------------------------------------
Next ==
    \/ \E s \in Slots :
          \/ \E n \in Grows : Grow(s, n) \/ Shrink(s, n)
          \/ Fork(s) \/ ThreadCreate(s) \/ ThreadExit(s) \/ Exit(s)
          \/ \E t \in Slots : Join(s, t)
          \/ Exec(s) \/ ExecCheck(s) \/ ExecCommit(s) \/ ExecBad(s)
          \/ \E image \in Images : ExecLoad(s, image)
          \/ \E n \in Stacks : ExecStack(s, n)
          \/ \E limit \in Limits : SetLimit(s, limit)
    \/ \E pid \in Pids : Wait(pid)

Spec == Init /\ [][Next]_vars

-----------------------------------------------------------------------------
(* Properties *)

\* The frames add up: none is in two tables or lost.
TypeOK ==
    /\ proc \in [Slots -> [state : {"unused", "live", "zombie"}, pid : Pids \union {0},
                           main : Slots \union {0}, sz : 0 .. KERNBASE, memlim : Nat,
                           kstack : {"none", "held", "freed"}]]
    /\ pages \in [Pids -> SUBSET (0 .. KERNBASE)]
    /\ gone \in [Pids -> SUBSET (0 .. KERNBASE)]
    /\ broken \subseteq Pids
    /\ twice \subseteq Slots /\ refused \subseteq Slots
    /\ FreeFrames \in 0 .. NFRAMES

Settled(s) == proc[s].state = "live" /\ proc[s].pid \notin broken /\ exec[s] = NoExec

\* The copies of the size and of the limit in the slots of a process agree, whoever
\* of the threads grows the process, creates a thread or is given a limit.
CopiesAgree ==
    \A s, t \in Slots : Settled(s) /\ Settled(t) /\ proc[s].pid = proc[t].pid =>
        proc[s].sz = proc[t].sz /\ proc[s].memlim = proc[t].memlim

\* The table has the pages below the size, and no others, but for those that sbrk
\* has freed: copyuvm's "page not present" and mappages' "remap" have no other
\* cause than these, a failed exec and a thread_create without memory.
ImageExact ==
    \A s \in Slots : Settled(s) =>
        pages[proc[s].pid] = Below(proc[s].sz) \ gone[proc[s].pid]

\* Size, limit, table and frames agree, whichever thread calls sbrk, thread_create,
\* fork, exec or setmemorylimit, and wherever memory runs out.
SizesExact == TypeOK /\ CopiesAgree /\ ImageExact

\* How far a process can get beyond its limit: sbrk tests the limit for two more
\* pages and may then add more than that.
LimitKept ==
    \A s \in Slots : Settled(s) /\ proc[s].memlim > 0 =>
        proc[s].sz + 2 * PGSIZE <= proc[s].memlim + Max(Grows \union {2 * PGSIZE})

\* A kernel stack that is freed twice is one that a refused thread_create freed
\* and left in its slot: exit, wait and exec then find it by its pid.
StackFreedOnce == twice \subseteq refused
=============================================================================
