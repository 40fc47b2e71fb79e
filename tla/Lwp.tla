-------------------------------- MODULE Lwp --------------------------------
(***************************************************************************)
(* Processes and their threads (Project_2: proc.c, exec.c, trap.c).  A     *)
(* thread is a slot of the process table that shares pid and page table    *)
(* with the slot "main" of its process.  The module has the life of a      *)
(* slot: fork, thread_create, exit, thread_exit, wait, thread_join, exec,  *)
(* kill, sleep and wakeup, the timer and the scheduler.                    *)
(*                                                                         *)
(* What the code does under ptable.lock is one step; what it does outside  *)
(* (closing files before exit, filedup after thread_create, the loading of *)
(* exec) lies between two steps, and the process can lose its CPU there.   *)
(* cpu says who really runs, which the field state need not agree with.    *)
(***************************************************************************)
EXTENDS Naturals, FiniteSets

CONSTANTS
    NPROC,      \* slots of the process table
    NCPU,       \* processors
    MaxPid,     \* bound: pids given out
    MaxTid,     \* bound: tids given out
    Tidy        \* whether a thread that waits or ends has joined the threads it
                \* created, only the creator joins, and main ends by exit

Slots == 1 .. NPROC
CPUs == 1 .. NCPU
InitProc == 1
None == 0           \* the null pointer, the idle CPU, the pid of a free slot

ASSUME LwpAssumption ==
    /\ NPROC \in Nat \ {0} /\ NCPU \in Nat \ {0}
    /\ MaxPid \in Nat \ {0} /\ MaxTid \in Nat
    /\ Tidy \in BOOLEAN

VARIABLES
    proc,       \* ptable.proc
    cpu,        \* the slot each CPU runs
    due,        \* slots whose timer interrupt has decided to yield
    pc,         \* where the kernel code of each slot is
    local,      \* np of fork, t of thread_create and thread_join
    nextpid, nexttid,
    pgdirs      \* the page tables that are allocated

vars == <<proc, cpu, due, pc, local, nextpid, nexttid, pgdirs>>

States == {"UNUSED", "EMBRYO", "SLEEPING", "RUNNABLE", "RUNNING", "ZOMBIE"}
PCs == {"user", "fork", "create", "texit", "exit", "wait", "join", "exec",
        "ended", "exited"}
PageTables == 1 .. NPROC + 1

Unused ==
    [state |-> "UNUSED", pid |-> None, tid |-> 0, main |-> None, parent |-> None,
     parent_pid |-> None, killed |-> FALSE, kstack |-> FALSE, pgdir |-> None]

\* init is RUNNABLE: userinit.
Init ==
    /\ proc = [s \in Slots |->
        IF s = InitProc
          THEN [Unused EXCEPT !.state = "RUNNABLE", !.pid = 1, !.main = InitProc,
                              !.kstack = TRUE, !.pgdir = 1]
          ELSE Unused]
    /\ cpu = [c \in CPUs |-> None]
    /\ due = {}
    /\ pc = [s \in Slots |-> "user"]
    /\ local = [s \in Slots |-> None]
    /\ nextpid = 2 /\ nexttid = 1
    /\ pgdirs = {1}

-----------------------------------------------------------------------------
(* Helpers *)

On(s) == \E c \in CPUs : cpu[c] = s

\* The slot s executes kernel code at l.
At(s, l) == On(s) /\ s \notin due /\ pc[s] = l

\* It enters a system call: trap tests killed first.
Syscall(s) == At(s, "user") /\ ~proc[s].killed

Goto(s, l) == pc' = [pc EXCEPT ![s] = l]

\* s goes to l; where the slots of S were no longer matters if they do not run.
GotoAndForget(s, l, S, k) ==
    /\ pc' = [p \in Slots |->
                IF p = s THEN l ELSE IF p \in S /\ ~On(p) THEN k ELSE pc[p]]
    /\ local' = [p \in Slots |-> IF p = s \/ (p \in S /\ ~On(p)) THEN None ELSE local[p]]

\* sched(): back to the scheduler.
Sched(s) == cpu' = [c \in CPUs |-> IF cpu[c] = s THEN None ELSE cpu[c]]

First(S) == CHOOSE s \in S : \A t \in S : s <= t
FreeSlots == {s \in Slots : proc[s].state = "UNUSED"}
FreshPageTable == First(PageTables \ pgdirs)

\* wakeup1(chan) for the channels in S.  The channel of wait and of thread_join is
\* the sleeper itself.
Asleep(s) == proc[s].state = "SLEEPING"
wakeup1(S) ==
    [s \in Slots |->
        IF s \in S /\ Asleep(s) /\ pc[s] \in {"wait", "join"}
          THEN [proc[s] EXCEPT !.state = "RUNNABLE"]
          ELSE proc[s]]

\* sleep(curproc, &ptable.lock)
SleepIn(s, l) ==
    /\ proc' = [proc EXCEPT ![s].state = "SLEEPING"]
    /\ Sched(s)
    /\ Goto(s, l)
    /\ UNCHANGED <<due, nextpid, nexttid, pgdirs>>

\* Mutant of Freed: the pid is not cleared.
FreedKeepsPid(r) ==
    [r EXCEPT !.state = "UNUSED", !.tid = 0, !.parent = None, !.kstack = FALSE,
              !.pgdir = None]

\* What thread_join and thread_remove leave of a slot; main, parent_pid and killed
\* keep their values.
Freed(r) ==
    [r EXCEPT !.state = "UNUSED", !.pid = None, !.tid = 0, !.parent = None,
              !.kstack = FALSE, !.pgdir = None]

SameProcess(s, t) == proc[s].pid = proc[t].pid

\* The threads that s created and that nobody joined.
Unjoined(s) ==
    {t \in Slots \ {s} : SameProcess(s, t) /\ proc[t].parent = s /\ proc[t].tid > 0}

-----------------------------------------------------------------------------
(* fork and thread_create *)

\* init forks a shell when it has none (init.c) and waits for its death; every
\* other process does what it likes.
Shell == {p \in Slots : proc[p].parent = InitProc /\ proc[p].parent_pid = proc[InitProc].pid}

Fork(s) ==
    /\ Syscall(s) /\ (s = InitProc => Shell = {})
    /\ nextpid <= MaxPid /\ FreeSlots # {}
    /\ LET np == First(FreeSlots) IN
        /\ proc' = [proc EXCEPT ![np].state = "EMBRYO", ![np].pid = nextpid, ![np].tid = 0,
                                ![np].main = np, ![np].kstack = TRUE]
        /\ local' = [local EXCEPT ![s] = np]
    /\ nextpid' = nextpid + 1
    /\ Goto(s, "fork")
    /\ UNCHANGED <<cpu, due, nexttid, pgdirs>>

ForkReady(s) ==
    /\ At(s, "fork")
    /\ LET np == local[s] IN
        /\ proc' = [proc EXCEPT ![np].pgdir = FreshPageTable, ![np].parent = s,
                                ![np].parent_pid = proc[s].pid, ![np].killed = FALSE,
                                ![np].state = "RUNNABLE"]
        /\ pc' = [pc EXCEPT ![s] = "user", ![np] = "user"]
    /\ pgdirs' = pgdirs \union {FreshPageTable}
    /\ local' = [local EXCEPT ![s] = None]
    /\ UNCHANGED <<cpu, due, nextpid, nexttid>>

\* Mutant of Creator: a thread is a child of the parent of its process.
CreatorIsParent(s) == proc[proc[s].main].parent

\* The parent of a thread that s creates.
Creator(s) == s

thread_create(s) ==
    /\ Syscall(s) /\ s # InitProc
    /\ nexttid <= MaxTid /\ FreeSlots # {}
    /\ LET t == First(FreeSlots)
           main == proc[s].main
       IN
        /\ proc' = [proc EXCEPT ![t] =
            [@ EXCEPT !.state = "EMBRYO", !.tid = nexttid, !.parent = Creator(s),
                      !.main = main, !.pid = proc[main].pid, !.parent_pid = proc[main].pid,
                      !.pgdir = proc[main].pgdir, !.kstack = TRUE]]
        /\ local' = [local EXCEPT ![s] = t]
    /\ nexttid' = nexttid + 1
    /\ Goto(s, "create")
    /\ UNCHANGED <<cpu, due, nextpid, pgdirs>>

\* The last assignment of thread_create, after ptable.lock was released.
ThreadReady(s) ==
    /\ At(s, "create")
    /\ proc' = [proc EXCEPT ![local[s]].state = "RUNNABLE"]
    /\ pc' = [pc EXCEPT ![s] = "user", ![local[s]] = "user"]
    /\ local' = [local EXCEPT ![s] = None]
    /\ UNCHANGED <<cpu, due, nextpid, nexttid, pgdirs>>

-----------------------------------------------------------------------------
(* exit and thread_exit *)

\* Exit is called, or trap finds the process killed on its way to user space.
ExitBegin(s) ==
    /\ At(s, "user") /\ s # InitProc
    /\ Goto(s, "exit")
    /\ UNCHANGED <<proc, cpu, due, local, nextpid, nexttid, pgdirs>>

\* Mutant of Siblings: main is left out.
SiblingsNotMain(s) == {p \in Slots : p = s \/ (SameProcess(p, s) /\ proc[p].tid > 0)}

\* The threads that exit takes along.
Siblings(s) == {p \in Slots : p = s \/ proc[p].pid = proc[proc[s].main].pid}

\* The children that lose their parent.
Abandoned(s) ==
    {p \in Slots : proc[p].parent_pid = proc[s].pid /\ proc[p].pid # proc[proc[s].main].pid}

exit(s) ==
    /\ At(s, "exit")
    /\ LET parent == proc[proc[s].main].parent
           init == IF \E p \in Abandoned(s) : proc[p].state = "ZOMBIE" THEN {InitProc} ELSE {}
           awake == wakeup1({parent} \union init)
       IN proc' = [p \in Slots |->
            IF p \in Siblings(s) THEN [awake[p] EXCEPT !.parent = parent, !.state = "ZOMBIE"]
            ELSE IF p \in Abandoned(s) THEN [awake[p] EXCEPT !.parent = InitProc]
            ELSE awake[p]]
    /\ Sched(s)
    /\ GotoAndForget(s, "exited", {p \in Siblings(s) : proc[p].state # "ZOMBIE"}, "exited")
    /\ UNCHANGED <<due, nextpid, nexttid, pgdirs>>

ThreadExitBegin(s) ==
    /\ Syscall(s) /\ s # InitProc
    /\ Tidy => Unjoined(s) = {} /\ proc[s].tid > 0
    /\ Goto(s, "texit")
    /\ UNCHANGED <<proc, cpu, due, local, nextpid, nexttid, pgdirs>>

\* Mutant of Joiner: main is woken, whoever created the thread.
JoinerIsMain(s) == proc[s].main

\* The slot that thread_exit wakes.
Joiner(s) == proc[s].parent

thread_exit(s) ==
    /\ At(s, "texit")
    /\ proc' = [wakeup1({Joiner(s)}) EXCEPT ![s].state = "ZOMBIE"]
    /\ Sched(s)
    /\ Goto(s, "ended")
    /\ UNCHANGED <<due, local, nextpid, nexttid, pgdirs>>

-----------------------------------------------------------------------------
(* wait and thread_join: a first look, and another one after each sleep *)

ZombieChildren(s) == {p \in Slots : proc[p].parent = s /\ proc[p].state = "ZOMBIE"}

\* Mutant of Reaped: the zombie found, and none of its threads.
ReapedAlone(p) == {p}

\* Everything with the pid of the zombie p goes with it.
Reaped(p) == {t \in Slots : t = p \/ SameProcess(t, p)}

Reap(s) ==
    /\ ZombieChildren(s) # {}
    /\ LET p == First(ZombieChildren(s)) IN
        /\ proc' = [t \in Slots |->
            IF t \in Reaped(p) THEN [Freed(proc[t]) EXCEPT !.killed = FALSE] ELSE proc[t]]
        /\ pgdirs' = pgdirs \ {proc[p].pgdir}
        /\ GotoAndForget(s, "user", Reaped(p), "user")
    /\ UNCHANGED <<cpu, due, nextpid, nexttid>>

Children(s) == {p \in Slots : proc[p].parent = s}

Return(s) ==
    /\ Goto(s, "user")
    /\ local' = [local EXCEPT ![s] = None]
    /\ UNCHANGED <<proc, cpu, due, nextpid, nexttid, pgdirs>>

WaitLoop(s) ==
    \/ Reap(s)
    \/ /\ ZombieChildren(s) = {}
       /\ Children(s) = {} \/ proc[s].killed
       /\ Return(s)
    \/ /\ ZombieChildren(s) = {}
       /\ Children(s) # {} /\ ~proc[s].killed
       /\ SleepIn(s, "wait")
       /\ UNCHANGED local

wait(s) ==
    \/ Syscall(s) /\ (Tidy => Unjoined(s) = {}) /\ WaitLoop(s)
    \/ At(s, "wait") /\ WaitLoop(s)

JoinLoop(s, t) ==
    \/ /\ proc[t].state = "ZOMBIE"
       /\ proc' = [proc EXCEPT ![t] = Freed(@)]
       /\ GotoAndForget(s, "user", {t}, "user")
       /\ UNCHANGED <<cpu, due, nextpid, nexttid, pgdirs>>
    \/ /\ proc[t].state # "ZOMBIE"
       /\ proc[s].killed \/ proc[proc[s].main].killed
       /\ Return(s)
    \/ /\ proc[t].state # "ZOMBIE"
       /\ ~proc[s].killed /\ ~proc[proc[s].main].killed
       /\ SleepIn(s, "join")
       /\ local' = [local EXCEPT ![s] = t]

thread_join(s) ==
    \/ /\ Syscall(s)
       /\ \E t \in Slots \ {s} :
            /\ proc[t].tid > 0 /\ SameProcess(s, t)
            /\ Tidy => proc[t].parent = s
            /\ JoinLoop(s, t)
    \/ At(s, "join") /\ JoinLoop(s, local[s])

-----------------------------------------------------------------------------
(* exec *)

\* Mutant of Removed: main is kept.
RemovedNotMain(s) == {p \in Slots \ {s} : SameProcess(p, s) /\ proc[p].tid > 0}

\* thread_remove: the caller becomes the only thread, and main, of its process.
Removed(s) == {p \in Slots \ {s} : SameProcess(p, s)}

thread_remove(s) ==
    [p \in Slots |->
        IF p = s
          THEN [proc[s] EXCEPT !.tid = 0, !.main = s,
                               !.parent = IF proc[s].main = s THEN @ ELSE proc[proc[s].main].parent]
        ELSE IF p \in Removed(s) THEN Freed(proc[p])
        ELSE proc[p]]

exec(s) ==
    /\ Syscall(s) /\ s # InitProc
    /\ proc' = thread_remove(s)
    /\ GotoAndForget(s, "exec", Removed(s), "user")
    /\ UNCHANGED <<cpu, due, nextpid, nexttid, pgdirs>>

ExecCommit(s) ==
    /\ At(s, "exec")
    /\ proc' = [proc EXCEPT ![s].pgdir = FreshPageTable, ![s].state = "RUNNABLE"]
    /\ pgdirs' = (pgdirs \ {proc[s].pgdir}) \union {FreshPageTable}
    /\ Goto(s, "user")
    /\ UNCHANGED <<cpu, due, local, nextpid, nexttid>>

ExecFails(s) ==
    /\ At(s, "exec")
    /\ Return(s)

-----------------------------------------------------------------------------
(* kill, sleeping on something else, the timer, the scheduler *)

\* Mutant of Roused: whoever does not run becomes runnable.
RousedAnyway(state) == IF state = "RUNNING" THEN state ELSE "RUNNABLE"

\* The state in which kill leaves its victim.
Roused(state) == IF state = "SLEEPING" THEN "RUNNABLE" ELSE state

kill(s) ==
    /\ Syscall(s) /\ s # InitProc
    /\ \E p \in Slots \ {InitProc} :
        /\ proc[p].pid # None /\ proc[p].tid = 0 /\ ~proc[p].killed
        /\ proc' = [proc EXCEPT ![p].killed = TRUE, ![p].state = Roused(@)]
    /\ UNCHANGED <<cpu, due, pc, local, nextpid, nexttid, pgdirs>>

\* A system call that sleeps until an interrupt: the disk, the console, the clock.
\* All it does when it runs again is to return to user space.
SleepIo(s) == Syscall(s) /\ s # InitProc /\ SleepIn(s, "user") /\ UNCHANGED local

IoDone(s) ==
    /\ Asleep(s) /\ pc[s] = "user"
    /\ proc' = [proc EXCEPT ![s].state = "RUNNABLE"]
    /\ UNCHANGED <<cpu, due, pc, local, nextpid, nexttid, pgdirs>>

\* The timer interrupt looks at state without the lock, then calls yield.
Timer(s) ==
    /\ On(s) /\ s \notin due
    /\ proc[s].state = "RUNNING"
    /\ due' = due \union {s}
    /\ UNCHANGED <<proc, cpu, pc, local, nextpid, nexttid, pgdirs>>

yield(s) ==
    /\ s \in due
    /\ due' = due \ {s}
    /\ proc' = [proc EXCEPT ![s].state = "RUNNABLE"]
    /\ Sched(s)
    /\ UNCHANGED <<pc, local, nextpid, nexttid, pgdirs>>

scheduler(c, s) ==
    /\ cpu[c] = None
    /\ proc[s].state = "RUNNABLE"
    /\ cpu' = [cpu EXCEPT ![c] = s]
    /\ proc' = [proc EXCEPT ![s].state = "RUNNING"]
    /\ UNCHANGED <<due, pc, local, nextpid, nexttid, pgdirs>>

-----------------------------------------------------------------------------
Next ==
    \E s \in Slots :
        \/ Fork(s) \/ ForkReady(s)
        \/ thread_create(s) \/ ThreadReady(s)
        \/ ExitBegin(s) \/ exit(s)
        \/ ThreadExitBegin(s) \/ thread_exit(s)
        \/ wait(s) \/ thread_join(s)
        \/ exec(s) \/ ExecCommit(s) \/ ExecFails(s)
        \/ kill(s)
        \/ SleepIo(s) \/ IoDone(s)
        \/ Timer(s) \/ yield(s)
        \/ \E c \in CPUs : scheduler(c, s)

Spec == Init /\ [][Next]_vars

-----------------------------------------------------------------------------
(* Properties *)

TypeOK ==
    /\ proc \in [Slots ->
        [state : States, pid : 0 .. MaxPid, tid : 0 .. MaxTid, main : 0 .. NPROC,
         parent : 0 .. NPROC, parent_pid : 0 .. MaxPid, killed : BOOLEAN,
         kstack : BOOLEAN, pgdir : 0 .. NPROC + 1]]
    /\ cpu \in [CPUs -> 0 .. NPROC]
    /\ due \subseteq Slots
    /\ pc \in [Slots -> PCs]
    /\ local \in [Slots -> 0 .. NPROC]
    /\ nextpid \in 1 .. MaxPid + 1 /\ nexttid \in 1 .. MaxTid + 1
    /\ pgdirs \subseteq PageTables
    /\ \A s \in Slots : proc[s].state = "UNUSED" => proc[s].pid = None /\ proc[s].tid = 0

Live(s) == proc[s].state \in {"SLEEPING", "RUNNABLE", "RUNNING"}

\* Nobody runs, or can run again, on a kernel stack or a page table that wait,
\* thread_join or thread_remove gave back.
NoUseAfterFree ==
    \A s \in Slots : Live(s) \/ On(s) => proc[s].kstack /\ proc[s].pgdir \in pgdirs

\* The threads of a process share one page table, two processes never do, and
\* every page table belongs to somebody: wait and exec free it once, whichever of
\* the threads they find.
OnePageTableEach ==
    /\ \A s, t \in Slots :
        proc[s].pgdir # None /\ proc[t].pgdir # None =>
            (proc[s].pgdir = proc[t].pgdir <=> SameProcess(s, t))
    /\ pgdirs = {proc[s].pgdir : s \in Slots} \ {None}

\* Slots, kernel stacks and page tables are owned as fork, thread_create, exec,
\* exit, wait and thread_join mean them to be, whatever they do in between: a free
\* slot is nobody's, a live one has what it runs on, and nothing is freed twice.
MemoryOwned == TypeOK /\ NoUseAfterFree /\ OnePageTableEach

\* Nobody sleeps in wait with a zombie child, or in thread_join on a thread that
\* has ended: exit and thread_exit wake the slot that looks for them, whoever the
\* parent was made to be in between.
NobodyOversleeps ==
    \A s \in Slots : Asleep(s) =>
        /\ pc[s] = "wait" => ZombieChildren(s) = {}
        /\ pc[s] = "join" => proc[local[s]].state # "ZOMBIE"

\* "An exited process remains in the zombie state until its parent calls wait()"
\* (proc.c:257): a zombie never runs, sleeps or becomes runnable again.
ZombieStays(s) ==
    proc[s].state = "ZOMBIE" => proc'[s].state \in {"ZOMBIE", "UNUSED"}

Ends(s) == proc[s].state = "ZOMBIE" /\ proc'[s].state = "UNUSED"

\* wait gives a page table back only when a thread of the process called exit
\* (proc.c:336 says of the zombie found that it has).
WaitReapsExited(s) ==
    Ends(s) /\ proc[s].pgdir \notin pgdirs' =>
        \E t \in Slots : SameProcess(s, t) /\ pc[t] = "exited"

\* thread_join, and exec, collect a zombie only if it went through thread_exit:
\* its return value is the one it gave.
JoinReapsEnded(s) ==
    Ends(s) /\ proc[s].pgdir \in pgdirs' => pc[s] = "ended"

\* The end of a thread takes its course: it calls exit or thread_exit, is a zombie,
\* and is collected by the call that stands for the way it ended, never woken in
\* between (exit, thread_exit, kill, wait, thread_join, exec).
EndsInOrder ==
    [][\A s \in Slots : ZombieStays(s) /\ WaitReapsExited(s) /\ JoinReapsEnded(s)]_vars
=============================================================================
