-------------------------------- MODULE Mlfq --------------------------------
(***************************************************************************)
(* The multi-level feedback queue scheduler of Project_1                   *)
(* (mlfq_scheduler.c, and the parts of proc.c, trap.c and sysproc.c that   *)
(* keep its queues), on the one CPU that run-xv6.sh starts.                *)
(*                                                                         *)
(* There is no queue in the code: a process is in queue q_level, at place  *)
(* q_num, and L0_size .. L2_size count the members.  What a CPU does with  *)
(* interrupts off (a timer interrupt, a section under ptable.lock) is one  *)
(* step; the timer may interrupt everything else.                          *)
(***************************************************************************)
EXTENDS Integers, FiniteSets

CONSTANTS
    NPROC,      \* slots of ptable.proc; slot 1 is initproc
    QUANTUM,    \* L0_TIME_QUANTUM .. L2_TIME_QUANTUM: ticks by level
    BOOST,      \* 100: the value of ticks at which the timer boosts
    WORD,       \* 2^32: ticks is a uint
    Calls,      \* the system calls and interrupts that processes make
    Prios,      \* the priorities they pass to setPriority
    Naps,       \* the arguments they pass to sleep
    MaxPid,     \* bound: processes ever created
    MaxPlace,   \* bound: places, which grow by one with every locked period
    MaxTicks    \* bound: value of ticks at which the clock stops

ASSUME MlfqAssumption ==
    /\ NPROC \in Nat \ {0}
    /\ QUANTUM \in [0 .. 2 -> Nat \ {0}]
    /\ BOOST \in Nat \ {0} /\ WORD \in Nat /\ BOOST < WORD
    /\ Prios \subseteq 0 .. 3 /\ Naps \subseteq Nat
    /\ MaxPid \in Nat \ {0} /\ MaxPlace \in Nat /\ MaxTicks \in Nat

VARIABLES
    ptable,     \* [proc, size, locked_proc]
    nextpid,
    ticks,
    cpu,        \* c->proc: the slot that runs, or 0 in the scheduler
    window,     \* a tick may still interrupt this turn of the scheduler's loop
    kpc,        \* where each process is in the kernel
    loc,        \* its local variables: the child of fork, ticks0 and n, i
    panicked    \* the message of the panic that stopped the machine

vars == <<ptable, nextpid, ticks, cpu, window, kpc, loc, panicked>>

Slots == 1 .. NPROC
initproc == 1
TicksChan == NPROC + 1      \* &ticks; the other channels are processes
Unlocked == -1

Queued == {"EMBRYO", "SLEEPING", "RUNNABLE", "RUNNING"}
Live(pt, s) == pt.proc[s].state \in Queued

\* Where interrupts are on: everywhere but under ptable.lock and in a trap.
Interruptible == {"user", "fork", "sleep", "boost0", "boost1", "boost2", "boost3"}

\* The process that runs, at a place of the kernel.
Running(s, pc) == panicked = "no" /\ cpu = s /\ kpc[s] = pc
Calling(s, call) == Running(s, "user") /\ call \in Calls
Goto(s, pc) == kpc' = [kpc EXCEPT ![s] = pc]

\* Each entry of the table changed by an operator.
ForEach(pt, Op(_)) == [pt EXCEPT !.proc = [s \in Slots |-> Op(s)]]

wakeup1(pt, chan) ==
    ForEach(pt, LAMBDA s : IF pt.proc[s].state = "SLEEPING" /\ pt.proc[s].chan = chan
                           THEN [pt.proc[s] EXCEPT !.state = "RUNNABLE"]
                           ELSE pt.proc[s])

\* The places behind place n of queue l move up.
CloseGap(pt, l, n) ==
    ForEach(pt, LAMBDA s : IF pt.proc[s].q_level = l /\ pt.proc[s].q_num > n
                           THEN [pt.proc[s] EXCEPT !.q_num = @ - 1]
                           ELSE pt.proc[s])

Init ==
    /\ ptable = [proc |-> [s \in Slots |->
                    [state |-> IF s = initproc THEN "RUNNABLE" ELSE "UNUSED",
                     pid |-> IF s = initproc THEN 1 ELSE 0,
                     parent |-> 0, chan |-> 0, killed |-> FALSE, q_level |-> 0,
                     priority |-> IF s = initproc THEN 3 ELSE 0,
                     proc_ticks |-> 0, q_num |-> 0]],
                 size |-> [l \in 0 .. 2 |-> IF l = 0 THEN 1 ELSE 0],
                 locked_proc |-> Unlocked]
    /\ nextpid = 2 /\ ticks = 0 /\ cpu = 0 /\ window = TRUE
    /\ kpc = [s \in Slots |-> "user"]
    /\ loc = [s \in Slots |-> [np |-> 0, ticks0 |-> 0, n |-> 0, i |-> 0]]
    /\ panicked = "no"

-----------------------------------------------------------------------------
(* mlfq_scheduler *)

\* Mutant of Beats: L2 is served in the order of arrival.
BeatsFCFS(c, p) ==
    \/ c.q_level < p.q_level
    \/ c.q_level = p.q_level /\ p.q_num > c.q_num

\* Whether the loop drops its choice p for the later entry c.
Beats(c, p) ==
    \/ c.q_level < p.q_level
    \/ /\ c.q_level = p.q_level
       /\ IF c.q_level < 2 THEN p.q_num > c.q_num
          ELSE \/ p.priority > c.priority
               \/ c.priority = p.priority /\ p.q_num > c.q_num

\* One turn of the loop over the table, with p chosen so far (0: nobody).
Turn(p, c) ==
    IF /\ ptable.proc[c].state = "RUNNABLE"
       /\ p = 0 \/ Beats(ptable.proc[c], ptable.proc[p])
    THEN c ELSE p

\* The choice after the first n entries; the last is the slot that will run, or 0.
Chosen[n \in 0 .. NPROC] == IF n = 0 THEN 0 ELSE Turn(Chosen[n - 1], n)

Choice == Chosen[NPROC]

\* The first slot whose pid is locked_proc, whatever its state, or 0.
Owner ==
    LET found == {s \in Slots : ptable.proc[s].pid = ptable.locked_proc}
    IN  IF found = {} THEN 0 ELSE CHOOSE s \in found : \A r \in found : s <= r

Dispatch(s) ==
    /\ ptable' = [ptable EXCEPT !.proc[s].state = "RUNNING"]
    /\ cpu' = s /\ window' = TRUE
    /\ UNCHANGED <<nextpid, ticks, kpc, loc, panicked>>

Schedule ==
    /\ panicked = "no" /\ cpu = 0 /\ ptable.locked_proc = Unlocked
    /\ Choice # 0 /\ Dispatch(Choice)

\* Mutant of ReleaseDead: 0 for "nobody", as in wait.
ReleaseZero(s) ==
    [CloseGap(ptable, ptable.proc[s].q_level, ptable.proc[s].q_num)
        EXCEPT !.locked_proc = 0]

ReleaseDead(s) ==
    [CloseGap(ptable, ptable.proc[s].q_level, ptable.proc[s].q_num)
        EXCEPT !.locked_proc = Unlocked]

\* While the scheduler is locked only the owner runs.  If it is neither a
\* zombie nor RUNNABLE the loop is continued with ptable.lock still held, and
\* its acquire panics.
ScheduleLocked ==
    /\ panicked = "no" /\ cpu = 0 /\ ptable.locked_proc # Unlocked
    /\ Owner # 0
    /\ CASE ptable.proc[Owner].state = "RUNNABLE" -> Dispatch(Owner)
         [] ptable.proc[Owner].state = "ZOMBIE" ->
               /\ ptable' = ReleaseDead(Owner) /\ window' = TRUE
               /\ UNCHANGED <<nextpid, ticks, cpu, kpc, loc, panicked>>
         [] OTHER ->
               /\ panicked' = "acquire"
               /\ UNCHANGED <<ptable, nextpid, ticks, cpu, window, kpc, loc>>

-----------------------------------------------------------------------------
(* _schedulerLock, _schedulerUnlock, priority_boosting, update_proc *)

SchedulerLock(pt, me) ==
    IF pt.locked_proc # Unlocked THEN pt
    ELSE [pt EXCEPT !.locked_proc = pt.proc[me].pid]

\* Mutant of ToFront: the time quantum is not reset.
ToFrontKeepTicks(p) == [p EXCEPT !.q_level = 0, !.priority = 3, !.q_num = 0]

\* The owner of the lock goes to the front of L0.
ToFront(p) == [p EXCEPT !.q_level = 0, !.priority = 3, !.proc_ticks = 0, !.q_num = 0]

\* Every other entry with q_level 0, in use or not, moves back and is counted.
SchedulerUnlock(pt, me) ==
    LET mine == pt.proc[me].q_level
        others == {s \in Slots : pt.proc[s].pid # pt.locked_proc /\ pt.proc[s].q_level = 0}
        found == {s \in Slots : pt.proc[s].pid = pt.locked_proc}
    IN  IF pt.locked_proc = Unlocked THEN pt
        ELSE [proc |-> [s \in Slots |->
                           IF s \in found THEN ToFront(pt.proc[s])
                           ELSE IF s \in others THEN [pt.proc[s] EXCEPT !.q_num = @ + 1]
                           ELSE pt.proc[s]],
              size |-> [l \in 0 .. 2 |->
                           IF l = 0 THEN Cardinality(others) + (IF found = {} THEN 0 ELSE 1)
                           ELSE IF l = mine THEN pt.size[l] - 1 ELSE pt.size[l]],
              locked_proc |-> Unlocked]

\* The loops of priority_boosting over the levels ls: the live processes there
\* go to L0, at the places from i on, by level and in the order of the table.
At(pt, ls) == {s \in Slots : Live(pt, s) /\ pt.proc[s].q_level \in ls}

Ahead(pt, r, s) ==
    \/ pt.proc[r].q_level < pt.proc[s].q_level
    \/ pt.proc[r].q_level = pt.proc[s].q_level /\ r < s

Lift(pt, ls, i) ==
    LET lifted == At(pt, ls)
    IN  [pt EXCEPT
            !.proc = [s \in Slots |->
                IF s \notin lifted THEN pt.proc[s]
                ELSE [pt.proc[s] EXCEPT !.q_level = 0, !.priority = 3, !.proc_ticks = 0,
                                        !.q_num = i + Cardinality({r \in lifted : Ahead(pt, r, s)})]],
            !.size[0] = @ + Cardinality(lifted)]

NoSizes(pt) == [pt EXCEPT !.size = [l \in 0 .. 2 |-> 0]]

\* The first loop, and the value of i after it: with the scheduler locked it is
\* _schedulerUnlock, and L0 is not reset.
LiftL0(pt, me) ==
    IF pt.locked_proc = Unlocked THEN Lift(pt, {0}, 0) ELSE SchedulerUnlock(pt, me)
LiftedL0(pt) == IF pt.locked_proc = Unlocked THEN Cardinality(At(pt, {0})) ELSE 0

\* Mutant of PriorityBoosting: the loop over L2 is missing.
BoostL1Only(pt, me) ==
    IF pt.locked_proc = Unlocked THEN Lift(NoSizes(pt), {0, 1}, 0)
    ELSE Lift(SchedulerUnlock(NoSizes(pt), me), {1}, 0)

PriorityBoosting(pt, me) ==
    IF pt.locked_proc = Unlocked THEN Lift(NoSizes(pt), {0, 1, 2}, 0)
    ELSE Lift(SchedulerUnlock(NoSizes(pt), me), {1, 2}, 0)

\* Mutants of Requeue: the priority is lowered without a test, and the process
\* that has run keeps its place.
RequeueLower(p, size) ==
    LET l == p.q_level IN
    IF p.proc_ticks # QUANTUM[l] THEN [p EXCEPT !.q_num = size[l] - 1]
    ELSE IF l < 2 THEN [p EXCEPT !.q_level = l + 1, !.proc_ticks = 0, !.q_num = size[l + 1]]
    ELSE [p EXCEPT !.proc_ticks = 0, !.priority = @ - 1, !.q_num = size[2] - 1]
RequeueStay(p, size) == p

\* What a tick does to the process it interrupts: it goes to the end of its
\* queue, or of the next one when its quantum is used up.
Requeue(p, size) ==
    LET l == p.q_level IN
    IF p.proc_ticks # QUANTUM[l] THEN [p EXCEPT !.q_num = size[l] - 1]
    ELSE IF l < 2 THEN [p EXCEPT !.q_level = l + 1, !.proc_ticks = 0, !.q_num = size[l + 1]]
    ELSE [p EXCEPT !.proc_ticks = 0, !.priority = IF @ >= 1 THEN @ - 1 ELSE @,
                   !.q_num = size[2] - 1]

\* proc_ticks++ and update_proc.
UpdateProc(pt, me) ==
    LET p == pt.proc[me]
        moved == [s \in Slots |->
                     IF /\ pt.proc[s].pid # p.pid
                        /\ pt.proc[s].q_level = p.q_level /\ pt.proc[s].q_num > 0
                     THEN [pt.proc[s] EXCEPT !.q_num = @ - 1] ELSE pt.proc[s]]
        mine == Requeue([p EXCEPT !.proc_ticks = @ + 1], pt.size)
    IN  [pt EXCEPT !.proc = [moved EXCEPT ![me] = mine],
                   !.size = [l \in 0 .. 2 |->
                                IF mine.q_level = p.q_level THEN @[l]
                                ELSE IF l = p.q_level THEN @[l] - 1
                                ELSE IF l = mine.q_level THEN @[l] + 1 ELSE @[l]]]

-----------------------------------------------------------------------------
(* trap: the timer interrupt, one step with interrupts off *)

\* ticks++, wakeup(&ticks), and the charge to the process that runs.
Ticked ==
    LET woken == wakeup1(ptable, TicksChan)
    IN  IF cpu = 0 THEN woken ELSE UpdateProc(woken, cpu)

\* Mutant of BoostDue: the test is off by one, and ticks is never reset.
BoostNever == FALSE

BoostDue == ticks + 1 = BOOST

TimerEnabled ==
    /\ panicked = "no" /\ ticks < MaxTicks
    /\ cpu # 0 => kpc[cpu] \in Interruptible

\* A killed process interrupted in user mode leaves for exit, before the test
\* that boosts.
TimerKilled ==
    /\ TimerEnabled /\ cpu # 0
    /\ ptable.proc[cpu].killed /\ kpc[cpu] = "user"
    /\ ptable' = Ticked /\ ticks' = ticks + 1
    /\ Goto(cpu, "exit")
    /\ UNCHANGED <<nextpid, cpu, loc, panicked, window>>

\* Otherwise boost when it is time, and yield.
Timer ==
    /\ TimerEnabled /\ cpu # 0
    /\ ~(ptable.proc[cpu].killed /\ kpc[cpu] = "user")
    /\ \E st \in {Ticked} :
          ptable' = [IF BoostDue THEN PriorityBoosting(st, cpu) ELSE st
                        EXCEPT !.proc[cpu].state = "RUNNABLE"]
    /\ ticks' = IF BoostDue THEN 0 ELSE ticks + 1
    /\ cpu' = 0
    /\ kpc' = [kpc EXCEPT ![cpu] = IF @ = "user" THEN "trap" ELSE @]
    /\ UNCHANGED <<nextpid, loc, panicked, window>>

\* Whether a turn of the scheduler's loop finds a process.
Work == ptable.locked_proc # Unlocked \/ Choice # 0

\* The timer interrupts the scheduler, between its sti and its acquire: there
\* is no myproc() for _schedulerUnlock to read.  A turn of the loop is shorter
\* than a tick, so it is interrupted at most once.
TimerIdle ==
    /\ TimerEnabled /\ cpu = 0 /\ (window \/ ~Work)
    /\ window' = ~Work
    /\ IF BoostDue /\ ptable.locked_proc # Unlocked
       THEN panicked' = "trap" /\ UNCHANGED <<ptable, ticks>>
       ELSE /\ \E st \in {Ticked} :
                  ptable' = IF BoostDue THEN PriorityBoosting(st, 0) ELSE st
            /\ ticks' = IF BoostDue THEN 0 ELSE ticks + 1
            /\ UNCHANGED panicked
    /\ UNCHANGED <<nextpid, cpu, kpc, loc>>

\* The process is scheduled again and leaves the trap.
TrapReturn(s) ==
    /\ Running(s, "trap")
    /\ Goto(s, IF ptable.proc[s].killed THEN "exit" ELSE "user")
    /\ UNCHANGED <<ptable, nextpid, ticks, cpu, loc, panicked, window>>

-----------------------------------------------------------------------------
(* System calls *)

\* The end of a system call tests killed once more.
Return(s) == Goto(s, IF ptable.proc[s].killed THEN "exit" ELSE "user")

Yield(s) ==
    /\ Calling(s, "yield")
    /\ ptable' = [ptable EXCEPT !.proc[s].state = "RUNNABLE"]
    /\ cpu' = 0 /\ Return(s)
    /\ UNCHANGED <<nextpid, ticks, loc, panicked, window>>

SetPriority(s, r, priority) ==
    /\ Calling(s, "setPriority") /\ Live(ptable, r)
    /\ ptable' = [ptable EXCEPT !.proc[r].priority = priority]
    /\ Return(s)
    /\ UNCHANGED <<nextpid, ticks, cpu, window, loc, panicked>>

Lock(s) ==
    /\ Calling(s, "lock") /\ \A r \in Slots : ptable.proc[r].q_num < MaxPlace
    /\ ptable' = SchedulerLock(ptable, s) /\ Return(s)
    /\ UNCHANGED <<nextpid, ticks, cpu, window, loc, panicked>>

Unlock(s) ==
    /\ Calling(s, "unlock")
    /\ ptable' = SchedulerUnlock(ptable, s) /\ Return(s)
    /\ UNCHANGED <<nextpid, ticks, cpu, window, loc, panicked>>

\* int 131 is a trap gate: its boost runs with interrupts on and no lock.
Boost(s) ==
    /\ Calling(s, "boost")
    /\ ptable' = NoSizes(ptable) /\ Goto(s, "boost0")
    /\ UNCHANGED <<nextpid, ticks, cpu, window, loc, panicked>>

BoostL0(s) ==
    /\ Running(s, "boost0")
    /\ ptable' = LiftL0(ptable, s) /\ Goto(s, "boost1")
    /\ loc' = [loc EXCEPT ![s].i = LiftedL0(ptable)]
    /\ UNCHANGED <<nextpid, ticks, cpu, window, panicked>>

BoostLevel(s) ==
    \E l \in {1, 2} :
        /\ Running(s, IF l = 1 THEN "boost1" ELSE "boost2")
        /\ ptable' = Lift(ptable, {l}, loc[s].i)
        /\ loc' = [loc EXCEPT ![s].i = @ + Cardinality(At(ptable, {l}))]
        /\ Goto(s, IF l = 1 THEN "boost2" ELSE "boost3")
        /\ UNCHANGED <<nextpid, ticks, cpu, window, panicked>>

BoostTicks(s) ==
    /\ Running(s, "boost3")
    /\ ticks' = 0
    /\ loc' = [loc EXCEPT ![s].i = 0]
    /\ Return(s)
    /\ UNCHANGED <<ptable, nextpid, cpu, panicked, window>>

\* sys_sleep, and each turn of its loop after a wakeup.
SleepOn(s, chan) ==
    /\ ptable' = [ptable EXCEPT !.proc[s].state = "SLEEPING", !.proc[s].chan = chan]
    /\ cpu' = 0

Sleep(s, n) ==
    /\ Calling(s, "sleep") /\ n > 0 /\ ~ptable.proc[s].killed
    /\ loc' = [loc EXCEPT ![s].ticks0 = ticks, ![s].n = n]
    /\ SleepOn(s, TicksChan) /\ Goto(s, "sleep")
    /\ UNCHANGED <<nextpid, ticks, panicked, window>>

SleepLoop(s) ==
    /\ Running(s, "sleep")
    /\ IF (ticks - loc[s].ticks0) % WORD < loc[s].n /\ ~ptable.proc[s].killed
       THEN SleepOn(s, TicksChan) /\ UNCHANGED <<kpc, loc>>
       ELSE /\ ptable' = [ptable EXCEPT !.proc[s].chan = 0]
            /\ loc' = [loc EXCEPT ![s].ticks0 = 0, ![s].n = 0]
            /\ Return(s) /\ UNCHANGED cpu
    /\ UNCHANGED <<nextpid, ticks, panicked, window>>

\* fork: allocproc takes the first unused slot ...
Fork(s) ==
    /\ Calling(s, "fork") /\ nextpid <= MaxPid
    /\ \E np \in Slots :
          /\ ptable.proc[np].state = "UNUSED"
          /\ \A r \in 1 .. np - 1 : ptable.proc[r].state # "UNUSED"
          /\ ptable' = [ptable EXCEPT
                           !.proc[np] = [@ EXCEPT !.state = "EMBRYO", !.pid = nextpid,
                                                  !.priority = 3, !.q_num = ptable.size[0]],
                           !.size[0] = @ + 1]
          /\ loc' = [loc EXCEPT ![s].np = np]
    /\ nextpid' = nextpid + 1 /\ Goto(s, "fork")
    /\ UNCHANGED <<ticks, cpu, panicked, window>>

\* ... kalloc or copyuvm has no memory ...
ForkFails(s) ==
    /\ Running(s, "fork")
    /\ ptable' = [ptable EXCEPT !.proc[loc[s].np].state = "UNUSED", !.size[0] = @ - 1]
    /\ loc' = [loc EXCEPT ![s].np = 0]
    /\ Return(s)
    /\ UNCHANGED <<nextpid, ticks, cpu, window, panicked>>

\* ... or the child is made runnable, at the place that is last by now.
ForkReady(s) ==
    /\ Running(s, "fork")
    /\ LET np == loc[s].np IN
       /\ ptable' = [ptable EXCEPT
                        !.proc[np] = [@ EXCEPT !.state = "RUNNABLE", !.parent = s,
                                               !.priority = 3, !.proc_ticks = 0, !.q_level = 0,
                                               !.q_num = ptable.size[0] - 1]]
       /\ kpc' = [kpc EXCEPT ![np] = "user",
                             ![s] = IF ptable.proc[s].killed THEN "exit" ELSE "user"]
    /\ loc' = [loc EXCEPT ![s].np = 0]
    /\ UNCHANGED <<nextpid, ticks, cpu, window, panicked>>

\* exit; closing the files is not modelled.
Exit(s) ==
    /\ s # initproc
    /\ Calling(s, "exit") \/ Running(s, "exit")
    /\ LET woken == wakeup1(ptable, ptable.proc[s].parent)
           orphans == {r \in Slots : ptable.proc[r].parent = s}
           told == IF \E r \in orphans : ptable.proc[r].state = "ZOMBIE"
                   THEN wakeup1(woken, initproc) ELSE woken
       IN  ptable' = ForEach(told, LAMBDA r :
                        IF r = s THEN [told.proc[r] EXCEPT !.state = "ZOMBIE"]
                        ELSE IF r \in orphans THEN [told.proc[r] EXCEPT !.parent = initproc]
                        ELSE told.proc[r])
    /\ cpu' = 0 /\ Goto(s, "user")
    /\ UNCHANGED <<nextpid, ticks, loc, panicked, window>>

\* wait: the zombie is freed; the queue it closes up is that of the caller.
Reap(s, z) ==
    LET me == ptable.proc[s]
        closed == CloseGap(ptable, me.q_level, me.q_num)
    IN  ptable' = [closed EXCEPT
                      !.proc[z] = [@ EXCEPT !.state = "UNUSED", !.pid = 0, !.parent = 0,
                                            !.killed = FALSE, !.q_level = 0, !.q_num = 0,
                                            !.proc_ticks = 0],
                      !.proc[s].chan = 0,
                      !.size[me.q_level] = @ - 1,
                      !.locked_proc = IF @ = ptable.proc[z].pid THEN 0 ELSE @]

Wait(s) ==
    /\ Calling(s, "wait") \/ Running(s, "wait")
    /\ LET kids == {r \in Slots : ptable.proc[r].parent = s}
           dead == {r \in kids : ptable.proc[r].state = "ZOMBIE"}
       IN  \/ \E z \in dead :
                 /\ \A r \in dead : z <= r
                 /\ Reap(s, z) /\ Return(s) /\ UNCHANGED cpu
           \/ /\ dead = {} /\ (kids = {} \/ ptable.proc[s].killed)
              /\ ptable' = [ptable EXCEPT !.proc[s].chan = 0]
              /\ Return(s) /\ UNCHANGED cpu
           \/ /\ dead = {} /\ kids # {} /\ ~ptable.proc[s].killed
              /\ SleepOn(s, s) /\ Goto(s, "wait")
    /\ UNCHANGED <<nextpid, ticks, loc, panicked, window>>

Kill(s, r) ==
    /\ Calling(s, "kill") /\ r # initproc /\ ptable.proc[r].state # "UNUSED"
    /\ ptable' = [ptable EXCEPT !.proc[r].killed = TRUE,
                                !.proc[r].state = IF @ = "SLEEPING" THEN "RUNNABLE" ELSE @]
    /\ Goto(s, IF r = s \/ ptable.proc[s].killed THEN "exit" ELSE "user")
    /\ UNCHANGED <<nextpid, ticks, cpu, window, loc, panicked>>

-----------------------------------------------------------------------------
\* What a process does once it is in the kernel.
KernelStep(s) ==
    \/ TrapReturn(s) \/ BoostL0(s) \/ BoostLevel(s) \/ BoostTicks(s)
    \/ SleepLoop(s) \/ ForkFails(s) \/ ForkReady(s)

Clock == Timer \/ TimerKilled \/ TimerIdle

Next ==
    \/ Schedule \/ ScheduleLocked
    \/ Clock
    \/ \E s \in Slots :
          \/ KernelStep(s)
          \/ Yield(s) \/ Lock(s) \/ Unlock(s) \/ Boost(s)
          \/ \E n \in Naps : Sleep(s, n)
          \/ Fork(s) \/ Exit(s) \/ Wait(s)
          \/ \E r \in Slots : Kill(s, r)
          \/ \E r \in Slots, priority \in Prios : SetPriority(s, r, priority)

Spec == Init /\ [][Next]_vars

\* The scheduler loops, the timer ticks, and a process that is in the kernel
\* gets on between two interrupts.  No process is obliged to make a call.
Fairness ==
    /\ WF_vars(Schedule \/ ScheduleLocked)
    /\ WF_vars(Clock)
    /\ \A s \in Slots :
          /\ SF_vars(KernelStep(s))
          /\ WF_vars(Running(s, "wait") /\ Wait(s))
          /\ WF_vars(Running(s, "exit") /\ Exit(s))

FairSpec == Spec /\ Fairness

-----------------------------------------------------------------------------
(* Properties *)

KernelPlaces == Interruptible \union {"trap", "wait", "exit"}

TypeOK ==
    /\ ptable.proc \in
          [Slots -> [state : Queued \union {"UNUSED", "ZOMBIE"}, pid : 0 .. MaxPid,
                     parent : 0 .. NPROC, chan : 0 .. TicksChan, killed : BOOLEAN,
                     q_level : 0 .. 2, priority : 0 .. 3, proc_ticks : Nat, q_num : Int]]
    /\ ptable.size \in [0 .. 2 -> Int]
    /\ ptable.locked_proc \in {Unlocked} \union (1 .. MaxPid)
    /\ nextpid \in 2 .. MaxPid + 1
    /\ ticks \in Nat
    /\ cpu \in 0 .. NPROC /\ window \in BOOLEAN
    /\ kpc \in [Slots -> KernelPlaces]
    /\ loc \in [Slots -> [np : 0 .. NPROC, ticks0 : Nat, n : Nat, i : Nat]]
    /\ panicked \in {"no", "acquire", "trap"}

\* A process never keeps a queue for longer than its time quantum: update_proc
\* tests for equality, so a process that came into a queue with more ticks than
\* its quantum would never leave it.
QuantumBounded ==
    \A s \in Slots :
        Live(ptable, s) => ptable.proc[s].proc_ticks < QUANTUM[ptable.proc[s].q_level]

\* The step that gives the CPU to s while the scheduler is not locked.
Dispatches(s) == ptable.locked_proc = Unlocked /\ cpu = 0 /\ cpu' = s

RunnableAt(l) == {r \in Slots : ptable.proc[r].state = "RUNNABLE" /\ ptable.proc[r].q_level = l}

\* The CPU goes to the highest queue that is not empty: in L0 and L1 to the
\* first in line, in L2 to the best priority and there to the first in line.
DispatchBest ==
    [][\A s \in Slots : Dispatches(s) =>
          LET p == ptable.proc[s]
              rivals == RunnableAt(p.q_level)
          IN  /\ \A l \in 0 .. p.q_level - 1 : RunnableAt(l) = {}
              /\ IF p.q_level < 2
                 THEN \A r \in rivals : p.q_num <= ptable.proc[r].q_num
                 ELSE \A r \in rivals :
                         /\ p.priority <= ptable.proc[r].priority
                         /\ p.priority = ptable.proc[r].priority
                               => p.q_num <= ptable.proc[r].q_num]_vars

\* Whoever locked the scheduler is still in the table: a locked_proc that
\* nobody has would stop every dispatch for ever.
LockHasOwner ==
    ptable.locked_proc # Unlocked =>
        \E s \in Slots : ptable.proc[s].pid = ptable.locked_proc /\ ptable.proc[s].state # "UNUSED"

\* A boost by the timer leaves every live process in L0.
BoostLifts ==
    [][ticks # 0 /\ ticks' = 0 /\ (\A s \in Slots : kpc[s] # "boost3")
          => \A s \in Slots : Live(ptable', s) => ptable'.proc[s].q_level = 0]_vars

\* ticks never goes past the value at which the timer boosts.
BoostOnTime == ticks < BOOST

\* A process that can run gets the CPU, whatever the others compute, as long as
\* nobody locks the scheduler.
NoStarvation ==
    \A s \in Slots :
        ptable.proc[s].state = "RUNNABLE"
            ~> ptable.proc[s].state # "RUNNABLE" \/ ptable.locked_proc # Unlocked

\* No CPU acquires a spinlock it already holds (the panic of acquire).
NoRelock == panicked # "acquire"
=============================================================================
