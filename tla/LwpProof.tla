------------------------------ MODULE LwpProof ------------------------------
(***************************************************************************)
(* Proofs about the slots of the process table, for any number of slots,   *)
(* pids and tids.  They assume what the runs do (Disciplined): the one CPU *)
(* of run-xv6.sh, and threads that are joined by the thread that created   *)
(* them before it waits or ends.  Without either the properties fail.      *)
(***************************************************************************)
EXTENDS Lwp, TLAPS, FiniteSetTheorems, WellFoundedInduction

Disciplined == NCPU = 1 /\ Tidy

-----------------------------------------------------------------------------
(* The inductive invariant *)

Used(s) == proc[s].state # "UNUSED"

\* The whole process of s has exited.
Gone(s) == \A t \in Slots : SameProcess(s, t) => proc[t].state = "ZOMBIE"

Alone(s) == \A t \in Slots : SameProcess(s, t) => t = s

\* A used slot has a pid and a kernel stack, and a page table unless fork has only
\* begun to make it, when no other slot has its pid.
StateInv ==
    \A s \in Slots :
        /\ Used(s) <=> proc[s].pid # None
        /\ proc[s].pid < nextpid
        /\ Used(s) => proc[s].kstack
        /\ Used(s) /\ proc[s].pgdir = None => proc[s].state = "EMBRYO" /\ Alone(s)
        /\ ~Used(s) => proc[s].pgdir = None
        /\ proc[s].state = "ZOMBIE" <=> pc[s] \in {"ended", "exited"}

\* Who runs is not dead, and the interrupted run.
CpuInv ==
    \A s \in Slots :
        /\ On(s) => proc[s].state \in {"RUNNING", "RUNNABLE"}
        /\ s \in due => On(s)

\* A process has one main slot, and the others know it.
MainInv ==
    /\ \A s \in Slots : Used(s) =>
        /\ proc[s].main \in Slots
        /\ SameProcess(s, proc[s].main)
        /\ proc[proc[s].main].tid = 0
        /\ proc[s].tid = 0 => proc[s].main = s
        /\ proc[s].tid # 0 => proc[s].parent_pid = proc[s].pid
    /\ \A s, t \in Slots :
        Used(s) /\ SameProcess(s, t) /\ proc[s].tid = 0 /\ proc[t].tid = 0 => s = t

\* As long as its process has not exited, a thread has a creator that has not ended,
\* and only a thread that called thread_exit is a zombie.
ThreadInv ==
    \A s \in Slots :
        /\ proc[s].tid # 0 => \/ Gone(s)
                              \/ /\ proc[s].parent \in Slots \ {s}
                                 /\ SameProcess(s, proc[s].parent)
                                 /\ proc[proc[s].parent].state # "ZOMBIE"
        /\ proc[s].state = "ZOMBIE" => Gone(s) \/ pc[s] = "ended"
        /\ pc[s] = "ended" => proc[s].tid # 0

\* What holds of a slot that is at l with the slot k in its hands; who waits or ends
\* has joined the threads it created.
Placed(s, l, k) ==
    /\ l = "fork" => k \in Slots /\ proc[k].state = "EMBRYO" /\ proc[k].pgdir = None
    /\ l = "create" => k \in Slots /\ proc[k].state = "EMBRYO" /\ proc[k].tid # 0
                       /\ SameProcess(s, k)
    /\ l = "join" => k \in Slots /\ proc[k].tid # 0 /\ SameProcess(s, k) /\ proc[k].parent = s
    /\ l = "exec" => Alone(s)
    /\ l = "texit" => proc[s].tid # 0
    /\ l \in {"wait", "texit"} => Unjoined(s) = {}

Making(s) == Live(s) /\ pc[s] \in {"fork", "create"}

LocalInv ==
    /\ \A s \in Slots : Live(s) => Placed(s, pc[s], local[s])
    /\ \A s, t \in Slots : Making(s) /\ Making(t) /\ local[s] = local[t] => s = t

IInv ==
    TypeOK /\ StateInv /\ CpuInv /\ MainInv /\ ThreadInv /\ LocalInv
        /\ OnePageTableEach /\ NobodyOversleeps

-----------------------------------------------------------------------------
(* Lemmas about the operators *)

\* First chooses the least element.
LEMMA FirstIsLeast ==
    ASSUME NEW S \in SUBSET Nat, S # {}
    PROVE  First(S) \in S
  <1>1. PICK s \in S : \A t \in S : <<t, s>> \notin OpToRel(<, Nat)
    BY NatLessThanWellFounded, WFMin
  <1>2. ASSUME NEW t \in S
        PROVE  s <= t
    <2>1. t < s => <<t, s>> \in OpToRel(<, Nat)
      BY Zenon DEF OpToRel
    <2>2. ~(t < s)
      BY <1>1, <2>1, Zenon
    <2>3. s \in Nat /\ t \in Nat
      OBVIOUS
    <2> QED
      BY <2>2, <2>3
  <1> QED
    BY <1>2 DEF First

\* There is a free slot, of process and of page table, when First looks for one.
LEMMA FreeSlotFound ==
    ASSUME FreeSlots # {}
    PROVE  First(FreeSlots) \in Slots /\ proc[First(FreeSlots)].state = "UNUSED"
  <1>1. FreeSlots \in SUBSET Nat
    BY LwpAssumption DEF FreeSlots, Slots
  <1> QED
    BY <1>1, FirstIsLeast DEF FreeSlots

\* There are more page tables than slots, so that one is always free.
LEMMA PageTableFound ==
    ASSUME TypeOK, OnePageTableEach
    PROVE  FreshPageTable \in PageTables /\ FreshPageTable \notin pgdirs /\ FreshPageTable # None
  <1>1. PageTables \ pgdirs # {}
    <2>1. IsFiniteSet(Slots) /\ Cardinality(Slots) = NPROC
      BY LwpAssumption, FS_Interval DEF Slots
    <2>2. IsFiniteSet(PageTables) /\ Cardinality(PageTables) = NPROC + 1
      BY LwpAssumption, FS_Interval DEF PageTables
    <2> DEFINE f == [s \in Slots |-> proc[s].pgdir]
               T == {proc[s].pgdir : s \in Slots}
    <2>3. f \in Surjection(Slots, T)
      BY DEF Surjection
    <2>4. IsFiniteSet(T) /\ Cardinality(T) <= NPROC
      BY <2>1, <2>3, FS_Surjection
    <2>5. pgdirs \subseteq T
      BY DEF OnePageTableEach
    <2>6. IsFiniteSet(pgdirs) /\ Cardinality(pgdirs) <= NPROC
      BY LwpAssumption, <2>4, <2>5, FS_Subset, FS_CardinalityType
    <2>7. PageTables # pgdirs
      BY LwpAssumption, <2>2, <2>6
    <2>8. pgdirs \subseteq PageTables
      BY DEF TypeOK
    <2> QED
      BY <2>7, <2>8
  <1>2. PageTables \ pgdirs \in SUBSET Nat
    BY LwpAssumption DEF PageTables
  <1>3. FreshPageTable \in PageTables \ pgdirs
    BY <1>1, <1>2, FirstIsLeast DEF FreshPageTable
  <1> QED
    BY LwpAssumption, <1>3 DEF PageTables, None

\* With one CPU, one slot runs.
LEMMA OneRuns ==
    ASSUME NCPU = 1, NEW s \in Slots, NEW t \in Slots, On(s), On(t)
    PROVE  s = t
  BY LwpAssumption DEF On, CPUs

-----------------------------------------------------------------------------
(* Steps that neither make nor free nor end a slot *)

SameButState(t) ==
    /\ proc'[t].pid = proc[t].pid /\ proc'[t].tid = proc[t].tid
    /\ proc'[t].main = proc[t].main /\ proc'[t].parent = proc[t].parent
    /\ proc'[t].parent_pid = proc[t].parent_pid
    /\ proc'[t].kstack = proc[t].kstack /\ proc'[t].pgdir = proc[t].pgdir

\* What s looks for before it sleeps has not happened.
Restful(s, l, k) ==
    /\ l = "wait" => ZombieChildren(s) = {}
    /\ l = "join" => proc[k].state # "ZOMBIE"

Quiet ==
    /\ \A t \in Slots :
        /\ SameButState(t)
        /\ proc'[t].state = proc[t].state \/ (Live(t) /\ Live(t)')
        /\ \/ pc'[t] = pc[t] /\ local'[t] = local[t]
           \/ /\ Live(t) /\ pc'[t] \in {"user", "exit", "texit", "wait", "join"}
              /\ pc[t] \notin {"ended", "exited"}
              /\ Placed(t, pc'[t], local'[t])
        /\ Asleep(t)' => \/ Asleep(t) /\ pc'[t] = pc[t] /\ local'[t] = local[t]
                         \/ Restful(t, pc'[t], local'[t])
    /\ UNCHANGED <<nextpid, pgdirs>>

\* Such a step keeps all of the invariant but what it says of the CPU.
LEMMA QuietKeeps ==
    ASSUME IInv, Quiet
    PROVE  /\ StateInv' /\ MainInv' /\ ThreadInv' /\ LocalInv'
           /\ OnePageTableEach' /\ NobodyOversleeps'
  <1>1. \A t \in Slots :
          /\ SameButState(t)
          /\ proc'[t].state = "UNUSED" <=> proc[t].state = "UNUSED"
          /\ proc'[t].state = "EMBRYO" <=> proc[t].state = "EMBRYO"
          /\ proc'[t].state = "ZOMBIE" <=> proc[t].state = "ZOMBIE"
          /\ Live(t)' <=> Live(t)
    BY DEF Quiet, Live
  <1>2. \A s, t \in Slots : SameProcess(s, t)' <=> SameProcess(s, t)
    BY <1>1 DEF SameProcess, SameButState
  <1>3. \A s \in Slots : /\ Used(s)' <=> Used(s)
                         /\ Gone(s)' <=> Gone(s)
                         /\ Alone(s)' <=> Alone(s)
    BY <1>1, <1>2 DEF Used, Gone, Alone
  <1>4. \A s \in Slots : /\ Unjoined(s)' = Unjoined(s)
                         /\ ZombieChildren(s)' = ZombieChildren(s)
    BY <1>1, <1>2 DEF Unjoined, ZombieChildren, SameButState
  <1>5. UNCHANGED <<nextpid, pgdirs>>
    BY DEF Quiet
  <1>6. \A t \in Slots : pc'[t] \in {"ended", "exited", "fork", "create", "exec"} =>
            pc'[t] = pc[t] /\ local'[t] = local[t]
    BY DEF Quiet
  <1>7. \A t \in Slots : pc[t] \in {"ended", "exited"} => pc'[t] = pc[t]
    BY DEF Quiet
  <1>8. StateInv'
    BY <1>1, <1>2, <1>3, <1>5, <1>6, <1>7 DEF IInv, StateInv, SameButState
  <1>9. MainInv'
    BY <1>1, <1>2, <1>3 DEF IInv, MainInv, SameButState
  <1>10. ThreadInv'
    BY <1>1, <1>2, <1>3, <1>6, <1>7 DEF IInv, ThreadInv, SameButState
  <1>11. ASSUME NEW s \in Slots, NEW l, NEW k, Placed(s, l, k)
         PROVE  Placed(s, l, k)'
    BY <1>1, <1>2, <1>3, <1>4, <1>11 DEF Placed, SameButState
  <1>12. ASSUME NEW s \in Slots, Live(s)'
         PROVE  Placed(s, pc[s], local[s])'
    <2>1. Placed(s, pc'[s], local'[s])
      BY <1>12, <1>1 DEF Quiet, IInv, LocalInv
    <2> QED
      BY <2>1, <1>11
  <1>13. LocalInv'
    <2>1. \A s \in Slots : Making(s)' => Making(s) /\ local'[s] = local[s]
      BY <1>1, <1>6 DEF Making
    <2> QED
      BY <1>12, <2>1 DEF IInv, LocalInv
  <1>14. OnePageTableEach'
    BY <1>1, <1>2, <1>5 DEF IInv, OnePageTableEach, SameButState
  <1>15. NobodyOversleeps'
    <2>1. ASSUME NEW s \in Slots, NEW l, NEW k, Restful(s, l, k), l = "join" => k \in Slots
          PROVE  Restful(s, l, k)'
      BY <1>1, <1>4, <2>1 DEF Restful
    <2>2. ASSUME NEW s \in Slots, Asleep(s)'
          PROVE  Restful(s, pc[s], local[s])'
      <3>1. Restful(s, pc'[s], local'[s])
        BY <2>2 DEF Quiet, IInv, NobodyOversleeps, Restful
      <3>2. pc'[s] = "join" => local'[s] \in Slots
        BY <1>12, <2>2 DEF Live, Asleep, Placed
      <3> QED
        BY <3>1, <3>2, <2>1
    <2> QED
      BY <2>2 DEF NobodyOversleeps, Restful
  <1> QED
    BY <1>8, <1>9, <1>10, <1>13, <1>14, <1>15

\* Who runs is alive, and neither ended nor exited.
LEMMA RunnerLives ==
    ASSUME IInv, NEW s \in Slots, On(s)
    PROVE  Live(s) /\ pc[s] \notin {"ended", "exited"}
  BY DEF IInv, CpuInv, StateInv, Live

\* Each action keeps the invariant: what follows has a lemma for each.
LEMMA ExitBeginStep ==
    ASSUME IInv, NEW s \in Slots, ExitBegin(s)
    PROVE  IInv'
  <1>1. On(s) /\ pc' = [pc EXCEPT ![s] = "exit"]
        /\ UNCHANGED <<proc, cpu, due, local, nextpid, nexttid, pgdirs>>
    BY DEF ExitBegin, At, Goto
  <1>2. TypeOK'
    BY <1>1 DEF IInv, TypeOK, PCs
  <1>3. CpuInv'
    BY <1>1 DEF IInv, CpuInv, On
  <1>4. Quiet
    <2>1. \A t \in Slots : pc'[t] = IF t = s THEN "exit" ELSE pc[t]
      BY <1>1 DEF IInv, TypeOK
    <2> QED
      BY <1>1, <2>1, RunnerLives DEF Quiet, Live, Asleep, SameButState, Placed, Restful
  <1> QED
    BY <1>2, <1>3, <1>4, QuietKeeps DEF IInv

\* A thread ends only when it has joined the threads it created.
LEMMA ThreadExitBeginStep ==
    ASSUME IInv, Disciplined, NEW s \in Slots, ThreadExitBegin(s)
    PROVE  IInv'
  <1>1. /\ On(s) /\ pc' = [pc EXCEPT ![s] = "texit"] /\ Unjoined(s) = {} /\ proc[s].tid > 0
        /\ UNCHANGED <<proc, cpu, due, local, nextpid, nexttid, pgdirs>>
    BY DEF ThreadExitBegin, Syscall, At, Goto, Disciplined
  <1>2. TypeOK'
    BY <1>1 DEF IInv, TypeOK, PCs
  <1>3. CpuInv'
    BY <1>1 DEF IInv, CpuInv, On
  <1>4. Quiet
    <2>1. \A t \in Slots : pc'[t] = IF t = s THEN "texit" ELSE pc[t]
      BY <1>1 DEF IInv, TypeOK
    <2>2. Placed(s, "texit", local[s])
      BY <1>1 DEF Placed, IInv, TypeOK
    <2> QED
      BY <1>1, <2>1, <2>2, RunnerLives DEF Quiet, Live, Asleep, SameButState, Restful
  <1> QED
    BY <1>2, <1>3, <1>4, QuietKeeps DEF IInv

\* wait, thread_join and a failed exec return.
LEMMA ReturnStep ==
    ASSUME IInv, NEW s \in Slots, On(s), Return(s)
    PROVE  IInv'
  <1>1. /\ pc' = [pc EXCEPT ![s] = "user"] /\ local' = [local EXCEPT ![s] = None]
        /\ UNCHANGED <<proc, cpu, due, nextpid, nexttid, pgdirs>>
    BY DEF Return, Goto
  <1>2. TypeOK'
    BY <1>1, LwpAssumption DEF IInv, TypeOK, PCs, None
  <1>3. CpuInv'
    BY <1>1 DEF IInv, CpuInv, On
  <1>4. Quiet
    <2>1. \A t \in Slots : /\ pc'[t] = (IF t = s THEN "user" ELSE pc[t])
                           /\ local'[t] = (IF t = s THEN None ELSE local[t])
      BY <1>1 DEF IInv, TypeOK
    <2> QED
      BY <1>1, <2>1, RunnerLives DEF Quiet, Live, Asleep, SameButState, Placed, Restful
  <1> QED
    BY <1>2, <1>3, <1>4, QuietKeeps DEF IInv

\* s leaves the CPU, and nobody else had it.
LEMMA SchedIs ==
    ASSUME IInv, NCPU = 1, NEW s \in Slots, On(s), Sched(s)
    PROVE  cpu' \in [CPUs -> 0 .. NPROC] /\ \A t \in Slots : ~On(t)'
  <1>1. cpu' \in [CPUs -> 0 .. NPROC]
    BY LwpAssumption DEF Sched, IInv, TypeOK, None
  <1>2. ASSUME NEW t \in Slots, NEW c \in CPUs
        PROVE  cpu'[c] # t
    <2>1. t # None
      BY LwpAssumption DEF Slots, None
    <2> QED
      BY LwpAssumption, <2>1 DEF Sched, On, CPUs
  <1> QED
    BY <1>1, <1>2 DEF On

\* A step that sleeps in l with k in its hands, having found nothing to do.
LEMMA SleepStep ==
    ASSUME IInv, NCPU = 1, NEW s \in Slots, On(s), s \notin due,
           NEW l \in {"user", "wait", "join"}, NEW k \in 0 .. NPROC, SleepIn(s, l),
           local' = [local EXCEPT ![s] = k], Placed(s, l, k), Restful(s, l, k)
    PROVE  IInv'
  <1>1. /\ proc' = [proc EXCEPT ![s].state = "SLEEPING"] /\ pc' = [pc EXCEPT ![s] = l]
        /\ Sched(s) /\ UNCHANGED <<due, nextpid, nexttid, pgdirs>>
    BY DEF SleepIn, Goto
  <1>2. TypeOK'
    <2>1. cpu' \in [CPUs -> 0 .. NPROC]
      BY <1>1, SchedIs
    <2>2. proc' \in [Slots ->
        [state : States, pid : 0 .. MaxPid, tid : 0 .. MaxTid, main : 0 .. NPROC,
         parent : 0 .. NPROC, parent_pid : 0 .. MaxPid, killed : BOOLEAN,
         kstack : BOOLEAN, pgdir : 0 .. NPROC + 1]]
      BY <1>1 DEF IInv, TypeOK, States
    <2>3. pc' \in [Slots -> PCs] /\ local' \in [Slots -> 0 .. NPROC]
      BY <1>1 DEF IInv, TypeOK, PCs
    <2>4. \A t \in Slots : proc'[t].state = "UNUSED" => proc'[t].pid = None /\ proc'[t].tid = 0
      BY <1>1 DEF IInv, TypeOK
    <2> QED
      BY <1>1, <2>1, <2>2, <2>3, <2>4 DEF IInv, TypeOK
  <1>3. CpuInv'
    <2>1. due = {}
      BY OneRuns DEF IInv, CpuInv, TypeOK
    <2> QED
      BY <1>1, <2>1, SchedIs DEF CpuInv
  <1>4. Quiet
    <2>1. \A t \in Slots : /\ pc'[t] = (IF t = s THEN l ELSE pc[t])
                           /\ local'[t] = (IF t = s THEN k ELSE local[t])
      BY <1>1 DEF IInv, TypeOK
    <2>2. \A t \in Slots : SameButState(t) /\ (t # s => proc'[t] = proc[t])
      BY <1>1 DEF IInv, TypeOK, SameButState
    <2>3. proc'[s].state = "SLEEPING"
      BY <1>1 DEF IInv, TypeOK
    <2> QED
      BY <1>1, <2>1, <2>2, <2>3, RunnerLives DEF Quiet, Live, Asleep
  <1> QED
    BY <1>2, <1>3, <1>4, QuietKeeps DEF IInv

\* A step that changes nothing but the state of p, which was alive and stays so.
LEMMA RestateStep ==
    ASSUME IInv, NEW p \in Slots, NEW st, NEW k \in BOOLEAN,
           proc' = [proc EXCEPT ![p].state = st, ![p].killed = k],
           st = proc[p].state \/ (Live(p) /\ st \in {"RUNNABLE", "RUNNING"}),
           UNCHANGED <<pc, local, nextpid, nexttid, pgdirs>>,
           cpu' \in [CPUs -> 0 .. NPROC], due' \subseteq Slots, CpuInv'
    PROVE  IInv'
  <1>1. proc' \in [Slots ->
        [state : States, pid : 0 .. MaxPid, tid : 0 .. MaxTid, main : 0 .. NPROC,
         parent : 0 .. NPROC, parent_pid : 0 .. MaxPid, killed : BOOLEAN,
         kstack : BOOLEAN, pgdir : 0 .. NPROC + 1]]
    <2>1. st \in States
      BY DEF IInv, TypeOK, States
    <2> QED
      BY <2>1, ZenonT(60) DEF IInv, TypeOK
  <1>2. \A t \in Slots : SameButState(t) /\ (t # p => proc'[t] = proc[t])
    BY DEF IInv, TypeOK, SameButState
  <1>3. proc'[p].state = st
    BY DEF IInv, TypeOK
  <1>4. TypeOK'
    <2>1. \A t \in Slots : proc'[t].state = "UNUSED" => proc'[t].pid = None /\ proc'[t].tid = 0
      BY <1>2, <1>3 DEF IInv, TypeOK, SameButState, Live
    <2> QED
      BY <1>1, <2>1 DEF IInv, TypeOK
  <1>5. Quiet
    BY <1>2, <1>3 DEF Quiet, Live, Asleep
  <1> QED
    BY <1>4, <1>5, QuietKeeps DEF IInv

\* kill makes a sleeper runnable, whatever it sleeps on.
LEMMA KillStep ==
    ASSUME IInv, NEW s \in Slots, kill(s)
    PROVE  IInv'
  <1>1. PICK p \in Slots :
          /\ proc' = [proc EXCEPT ![p].killed = TRUE, ![p].state = Roused(@)]
          /\ UNCHANGED <<cpu, due, pc, local, nextpid, nexttid, pgdirs>>
    BY DEF kill
  <1>2. proc' = [proc EXCEPT ![p].state = Roused(proc[p].state), ![p].killed = TRUE]
    BY <1>1 DEF IInv, TypeOK
  <1>3. Roused(proc[p].state) = proc[p].state
        \/ (Live(p) /\ Roused(proc[p].state) \in {"RUNNABLE", "RUNNING"})
    BY DEF Roused, Live
  <1>4. CpuInv'
    <2>1. \A t \in Slots : proc'[t].state = proc[t].state \/ proc[t].state = "SLEEPING"
      BY <1>2 DEF Roused, IInv, TypeOK
    <2> QED
      BY <1>1, <2>1 DEF IInv, CpuInv, On
  <1>5. cpu' \in [CPUs -> 0 .. NPROC] /\ due' \subseteq Slots
    BY <1>1 DEF IInv, TypeOK
  <1> QED
    BY <1>1, <1>2, <1>3, <1>4, <1>5, RestateStep

\* The steps below give p a state, and leave killed as it was.
LEMMA StateStep ==
    ASSUME IInv, NEW p \in Slots, NEW st \in {"RUNNABLE", "RUNNING"}, Live(p),
           proc' = [proc EXCEPT ![p].state = st],
           UNCHANGED <<pc, local, nextpid, nexttid, pgdirs>>,
           cpu' \in [CPUs -> 0 .. NPROC], due' \subseteq Slots, CpuInv'
    PROVE  IInv'
  <1>1. proc' = [proc EXCEPT ![p].state = st, ![p].killed = proc[p].killed]
    BY DEF IInv, TypeOK
  <1>2. proc[p].killed \in BOOLEAN
    BY DEF IInv, TypeOK
  <1> QED
    BY <1>1, <1>2, RestateStep

\* An interrupt ends a sleep.
LEMMA IoDoneStep ==
    ASSUME IInv, NEW s \in Slots, IoDone(s)
    PROVE  IInv'
  <1>1. /\ Asleep(s) /\ proc' = [proc EXCEPT ![s].state = "RUNNABLE"]
        /\ UNCHANGED <<cpu, due, pc, local, nextpid, nexttid, pgdirs>>
    BY DEF IoDone
  <1>2. CpuInv'
    BY <1>1 DEF IInv, CpuInv, On, TypeOK, Asleep
  <1>3. cpu' \in [CPUs -> 0 .. NPROC] /\ due' \subseteq Slots /\ Live(s)
    BY <1>1 DEF IInv, TypeOK, Asleep, Live
  <1> QED
    BY <1>1, <1>2, <1>3, StateStep

\* The timer interrupt makes up its mind.
LEMMA TimerStep ==
    ASSUME IInv, NEW s \in Slots, Timer(s)
    PROVE  IInv'
  <1>1. /\ On(s) /\ due' = due \union {s}
        /\ UNCHANGED <<proc, cpu, pc, local, nextpid, nexttid, pgdirs>>
    BY DEF Timer
  <1>2. TypeOK' /\ CpuInv'
    BY <1>1 DEF IInv, TypeOK, CpuInv, On
  <1>3. Quiet
    BY <1>1 DEF Quiet, SameButState, Asleep, Live
  <1> QED
    BY <1>2, <1>3, QuietKeeps DEF IInv

\* The slot that yields was still the one that runs.
LEMMA YieldStep ==
    ASSUME IInv, NCPU = 1, NEW s \in Slots, yield(s)
    PROVE  IInv'
  <1>1. /\ s \in due /\ due' = due \ {s} /\ proc' = [proc EXCEPT ![s].state = "RUNNABLE"]
        /\ Sched(s) /\ UNCHANGED <<pc, local, nextpid, nexttid, pgdirs>>
    BY DEF yield
  <1>2. On(s) /\ Live(s)
    BY <1>1, RunnerLives DEF IInv, CpuInv
  <1>3. cpu' \in [CPUs -> 0 .. NPROC] /\ \A t \in Slots : ~On(t)'
    BY <1>1, <1>2, SchedIs
  <1>4. due' = {}
    BY <1>1, <1>2, OneRuns DEF IInv, CpuInv, TypeOK
  <1>5. CpuInv' /\ due' \subseteq Slots
    BY <1>3, <1>4 DEF CpuInv
  <1> QED
    BY <1>1, <1>2, <1>3, <1>5, StateStep

\* The scheduler takes a runnable slot, and the CPU was idle.
LEMMA SchedulerStep ==
    ASSUME IInv, NCPU = 1, NEW s \in Slots, NEW c \in CPUs, scheduler(c, s)
    PROVE  IInv'
  <1>1. /\ cpu[c] = None /\ cpu' = [cpu EXCEPT ![c] = s] /\ proc[s].state = "RUNNABLE"
        /\ proc' = [proc EXCEPT ![s].state = "RUNNING"]
        /\ UNCHANGED <<due, pc, local, nextpid, nexttid, pgdirs>>
    BY DEF scheduler
  <1>2. cpu' \in [CPUs -> 0 .. NPROC] /\ due' \subseteq Slots /\ Live(s)
    BY <1>1, LwpAssumption DEF IInv, TypeOK, Slots, Live
  <1>3. \A t \in Slots : ~On(t)
    BY <1>1, LwpAssumption DEF On, CPUs, Slots, None
  <1>4. due = {}
    BY <1>3 DEF IInv, CpuInv, TypeOK
  <1>5. \A t \in Slots : On(t)' => t = s
    BY <1>1, <1>3 DEF On, IInv, TypeOK
  <1>6. proc'[s].state = "RUNNING"
    BY <1>1 DEF IInv, TypeOK
  <1>7. CpuInv'
    BY <1>1, <1>4, <1>5, <1>6 DEF CpuInv
  <1> QED
    BY <1>1, <1>2, <1>7, StateStep

\* A sleep that only an interrupt ends.
LEMMA SleepIoStep ==
    ASSUME IInv, NCPU = 1, NEW s \in Slots, SleepIo(s)
    PROVE  IInv'
  <1>1. On(s) /\ s \notin due /\ SleepIn(s, "user") /\ local' = local
    BY DEF SleepIo, Syscall, At
  <1>2. local' = [local EXCEPT ![s] = local[s]] /\ local[s] \in 0 .. NPROC
    BY <1>1 DEF IInv, TypeOK
  <1>3. Placed(s, "user", local[s]) /\ Restful(s, "user", local[s])
    BY DEF Placed, Restful
  <1> QED
    BY <1>1, <1>2, <1>3, SleepStep

-----------------------------------------------------------------------------
(* fork *)

Record ==
    [state : States, pid : 0 .. MaxPid, tid : 0 .. MaxTid, main : 0 .. NPROC,
     parent : 0 .. NPROC, parent_pid : 0 .. MaxPid, killed : BOOLEAN,
     kstack : BOOLEAN, pgdir : 0 .. NPROC + 1]

\* The slot that fork takes is alone in its process and has no page table yet.
LEMMA ForkStep ==
    ASSUME IInv, NEW s \in Slots, Fork(s)
    PROVE  IInv'
  <1>1. PICK np \in Slots :
        /\ proc[np].state = "UNUSED"
        /\ On(s) /\ nextpid <= MaxPid /\ nextpid' = nextpid + 1
        /\ proc' = [proc EXCEPT ![np].state = "EMBRYO", ![np].pid = nextpid, ![np].tid = 0,
                                ![np].main = np, ![np].kstack = TRUE]
        /\ local' = [local EXCEPT ![s] = np] /\ pc' = [pc EXCEPT ![s] = "fork"]
        /\ UNCHANGED <<cpu, due, nexttid, pgdirs>>
    BY FreeSlotFound DEF Fork, Syscall, At, Goto
  <1>2. np \in Slots /\ proc[np].state = "UNUSED"
    BY <1>1
  <1>3. Live(s) /\ pc[s] \notin {"ended", "exited"} /\ s # np
    BY <1>1, <1>2, RunnerLives DEF Live
  <1>4. /\ \A t \in Slots : t # np => proc'[t] = proc[t]
        /\ proc'[np].state = "EMBRYO" /\ proc'[np].pid = nextpid /\ proc'[np].tid = 0
        /\ proc'[np].main = np /\ proc'[np].kstack = TRUE /\ proc'[np].pgdir = None
        /\ proc'[np].parent = proc[np].parent
    BY <1>1, <1>2 DEF IInv, TypeOK, StateInv, Used
  <1>5. \A t \in Slots : /\ pc'[t] = (IF t = s THEN "fork" ELSE pc[t])
                         /\ local'[t] = (IF t = s THEN np ELSE local[t])
    BY <1>1 DEF IInv, TypeOK
  <1>6. \A t \in Slots : proc[t].pid \in Nat /\ proc[t].pid < nextpid /\ nextpid \in Nat
    BY LwpAssumption DEF IInv, TypeOK, StateInv
  <1>7. /\ \A t, u \in Slots : t # np /\ u # np => (SameProcess(t, u)' <=> SameProcess(t, u))
        /\ \A t \in Slots : t # np => ~SameProcess(t, np)' /\ ~SameProcess(np, t)'
    BY <1>4, <1>6 DEF SameProcess
  <1>8. \A t \in Slots : t # np => /\ Live(t)' <=> Live(t)
                                   /\ Used(t)' <=> Used(t)
                                   /\ Alone(t) => Alone(t)'
                                   /\ Gone(t) => Gone(t)'
    BY <1>2, <1>4, <1>7 DEF Live, Used, Alone, Gone
  <1>9. /\ ~Live(np)' /\ Used(np)' /\ Alone(np)' /\ ~Asleep(np)'
        /\ \A t \in Slots : Unjoined(t)' \subseteq Unjoined(t)
    BY <1>4, <1>7 DEF Live, Used, Alone, Asleep, Unjoined
  <1>10. TypeOK'
    <2>1. proc' \in [Slots -> Record]
      <3>1. nextpid \in 0 .. MaxPid
        BY <1>1, LwpAssumption DEF IInv, TypeOK
      <3>2. 0 \in 0 .. MaxTid /\ np \in 0 .. NPROC
        BY <1>2, LwpAssumption DEF Slots
      <3>3. proc \in [Slots -> Record]
        BY DEF IInv, TypeOK, Record
      <3> DEFINE r == [proc[np] EXCEPT !.state = "EMBRYO", !.pid = nextpid, !.tid = 0,
                                       !.main = np, !.kstack = TRUE]
      <3>4. r \in Record
        BY <3>1, <3>2, <3>3 DEF Record, States
      <3>5. proc' = [proc EXCEPT ![np] = r]
        BY <1>1, <3>3
      <3> QED
        BY <3>3, <3>4, <3>5
    <2>2. pc' \in [Slots -> PCs] /\ local' \in [Slots -> 0 .. NPROC]
      BY <1>1, <1>2, SMTT(30) DEF IInv, TypeOK, PCs, Slots
    <2>3. \A t \in Slots : proc'[t].state = "UNUSED" => proc'[t].pid = None /\ proc'[t].tid = 0
      BY <1>4 DEF IInv, TypeOK
    <2>4. nextpid' \in 1 .. MaxPid + 1
      BY <1>1, LwpAssumption DEF IInv, TypeOK
    <2> QED
      BY <1>1, <2>1, <2>2, <2>3, <2>4 DEF IInv, TypeOK, Record
  <1>11. StateInv'
    <2>1. nextpid # None /\ nextpid < nextpid'
      BY <1>1, <1>6 DEF None, IInv, TypeOK
    <2>2. \A t \in Slots : proc[t].pid < nextpid'
      BY <1>1, <1>6
    <2>3. pc[np] \notin {"ended", "exited"}
      BY <1>2 DEF IInv, StateInv
    <2> QED
      BY <1>3, <1>4, <1>5, <1>8, <1>9, <2>1, <2>2, <2>3 DEF IInv, StateInv, Live
  <1>12. CpuInv'
    BY <1>1, <1>2, <1>4 DEF IInv, CpuInv, On
  <1>13. MainInv'
    <2>1. \A t \in Slots : Used(t) /\ t # np => proc[t].main # np
      BY <1>2, <1>6 DEF IInv, MainInv, StateInv, SameProcess, Used
    <2> QED
      BY <1>2, <1>4, <1>7, <1>8, <1>9, <2>1 DEF IInv, MainInv, SameProcess
  <1>14. ThreadInv'
    <2>1. \A t \in Slots : t # np /\ proc[t].tid # 0 => Used(t)
      BY DEF IInv, TypeOK, Used
    <2>2. \A t \in Slots : t # np /\ proc[t].tid # 0 /\ SameProcess(t, proc[t].parent)
                           => proc[t].parent # np
      BY <1>2, <2>1 DEF IInv, StateInv, SameProcess, Used
    <2>3. pc[np] \notin {"ended", "exited"}
      BY <1>2 DEF IInv, StateInv
    <2> QED
      BY <1>2, <1>3, <1>4, <1>5, <1>7, <1>8, <2>2, <2>3 DEF IInv, ThreadInv
  <1>15. LocalInv'
    <2>1. ASSUME NEW t \in Slots, Live(t)'
          PROVE  Placed(t, pc[t], local[t])'
      <3>1. t # np
        BY <2>1, <1>9
      <3>2. CASE t = s
        BY <3>2, <1>2, <1>4, <1>5 DEF Placed
      <3>3. CASE t # s
        <4>1. Placed(t, pc[t], local[t])
          BY <2>1, <3>1, <1>8 DEF IInv, LocalInv
        <4>2. pc[t] \in {"fork", "create", "join"} => local[t] # np
          BY <4>1, <1>2 DEF Placed, IInv, TypeOK
        <4> QED
          BY <4>1, <4>2, <3>1, <3>3, <1>4, <1>5, <1>7, <1>8, <1>9 DEF Placed
      <3> QED
        BY <3>2, <3>3
    <2>2. \A t \in Slots : Making(t) => local[t] # np
      BY <1>2 DEF Making, IInv, LocalInv, Placed
    <2>3. \A t \in Slots : Making(t)' => t = s \/ Making(t)
      BY <1>5, <1>8, <1>9 DEF Making
    <2> QED
      BY <2>1, <2>2, <2>3, <1>5 DEF IInv, LocalInv
  <1>16. OnePageTableEach'
    <2>1. {proc'[t].pgdir : t \in Slots} = {proc[t].pgdir : t \in Slots}
      BY <1>2, <1>4 DEF IInv, StateInv, Used
    <2>2. ASSUME NEW t \in Slots, NEW u \in Slots, proc'[t].pgdir # None, proc'[u].pgdir # None
          PROVE  proc'[t].pgdir = proc'[u].pgdir <=> SameProcess(t, u)'
      <3>1. t # np /\ u # np
        BY <2>2, <1>4
      <3> QED
        BY <3>1, <2>2, <1>4, <1>7 DEF IInv, OnePageTableEach
    <2>3. pgdirs' = {proc'[t].pgdir : t \in Slots} \ {None}
      BY <1>1, <2>1 DEF IInv, OnePageTableEach
    <2> QED
      BY <2>2, <2>3 DEF OnePageTableEach
  <1>17. NobodyOversleeps'
    <2>1. \A t \in Slots : Asleep(t)' => t # s /\ t # np /\ Asleep(t)
      BY <1>3, <1>4, <1>1 DEF Asleep, IInv, CpuInv
    <2>2. \A t \in Slots : ZombieChildren(t)' = ZombieChildren(t)
      BY <1>2, <1>4 DEF ZombieChildren
    <2>3. \A t \in Slots : Asleep(t) /\ pc[t] = "join" => local[t] # np
      BY <1>2 DEF Asleep, Live, IInv, LocalInv, Placed, TypeOK
    <2>4. \A t \in Slots : Asleep(t) /\ pc[t] = "join" => local[t] \in Slots
      BY DEF Asleep, Live, IInv, LocalInv, Placed
    <2> QED
      BY <2>1, <2>2, <2>3, <2>4, <1>4, <1>5 DEF IInv, NobodyOversleeps
  <1> QED
    BY <1>10, <1>11, <1>12, <1>13, <1>14, <1>15, <1>16, <1>17 DEF IInv

\* The page table of a child is a new one.
LEMMA ForkReadyStep ==
    ASSUME IInv, NEW s \in Slots, ForkReady(s)
    PROVE  IInv'
  <1>1. PICK np \in Slots, f \in PageTables :
        /\ np = local[s] /\ On(s) /\ pc[s] = "fork" /\ f \notin pgdirs /\ f # None
        /\ proc' = [proc EXCEPT ![np].pgdir = f, ![np].parent = s,
                                ![np].parent_pid = proc[s].pid, ![np].killed = FALSE,
                                ![np].state = "RUNNABLE"]
        /\ pc' = [pc EXCEPT ![s] = "user", ![np] = "user"]
        /\ pgdirs' = pgdirs \union {f}
        /\ local' = [local EXCEPT ![s] = None]
        /\ UNCHANGED <<cpu, due, nextpid, nexttid>>
    <2>1. On(s) /\ pc[s] = "fork"
      BY DEF ForkReady, At
    <2>2. local[s] \in Slots
      BY <2>1, RunnerLives DEF IInv, LocalInv, Placed
    <2>3. FreshPageTable \in PageTables /\ FreshPageTable \notin pgdirs /\ FreshPageTable # None
      BY PageTableFound DEF IInv
    <2> QED
      BY <2>1, <2>2, <2>3 DEF ForkReady
  <1>2. /\ Live(s) /\ pc[s] \notin {"ended", "exited"} /\ Making(s)
        /\ proc[np].state = "EMBRYO" /\ proc[np].pgdir = None
    BY <1>1, RunnerLives DEF IInv, LocalInv, Placed, Making
  <1>3. s # np /\ Alone(np) /\ proc[np].tid = 0 /\ ~Live(np)
    BY <1>2 DEF Live, IInv, StateInv, Used, MainInv, Alone
  <1>4. /\ \A t \in Slots : t # np => proc'[t] = proc[t]
        /\ proc'[np].state = "RUNNABLE" /\ proc'[np].pid = proc[np].pid
        /\ proc'[np].tid = proc[np].tid
        /\ proc'[np].main = proc[np].main /\ proc'[np].kstack = proc[np].kstack
        /\ proc'[np].pgdir = f /\ proc'[np].parent = s
    BY <1>1 DEF IInv, TypeOK
  <1>5. \A t \in Slots : /\ pc'[t] = (IF t \in {s, np} THEN "user" ELSE pc[t])
                         /\ local'[t] = (IF t = s THEN None ELSE local[t])
    BY <1>1 DEF IInv, TypeOK
  <1>6. \A t, u \in Slots : SameProcess(t, u)' <=> SameProcess(t, u)
    BY <1>4 DEF SameProcess
  <1>7. \A t \in Slots : /\ Used(t)' <=> Used(t)
                         /\ Alone(t)' <=> Alone(t)
                         /\ Gone(t)' <=> Gone(t)
                         /\ t # np => (Live(t)' <=> Live(t))
    BY <1>2, <1>4, <1>6 DEF Live, Used, Alone, Gone
  <1>8. \A t \in Slots : Unjoined(t)' = Unjoined(t) /\ ZombieChildren(t)' = ZombieChildren(t)
    <2>1. ASSUME NEW t \in Slots
          PROVE  Unjoined(t)' = Unjoined(t)
      BY <1>3, <1>4, <1>6 DEF Unjoined
    <2>2. ASSUME NEW t \in Slots
          PROVE  ZombieChildren(t)' = ZombieChildren(t)
      BY <1>2, <1>4 DEF ZombieChildren
    <2> QED
      BY <2>1, <2>2
  <1>9. TypeOK'
    <2>1. proc' \in [Slots -> Record]
      <3>1. proc[s].pid \in 0 .. MaxPid /\ s \in 0 .. NPROC /\ f \in 0 .. NPROC + 1
        BY LwpAssumption DEF IInv, TypeOK, Slots, PageTables
      <3>2. proc \in [Slots -> Record]
        BY DEF IInv, TypeOK, Record
      <3> DEFINE r == [proc[np] EXCEPT !.pgdir = f, !.parent = s, !.parent_pid = proc[s].pid,
                                       !.killed = FALSE, !.state = "RUNNABLE"]
      <3>3. r \in Record
        BY <3>1, <3>2 DEF Record, States
      <3>4. proc' = [proc EXCEPT ![np] = r]
        BY <1>1, <3>2
      <3> QED
        BY <3>2, <3>3, <3>4
    <2>2. pc' \in [Slots -> PCs] /\ local' \in [Slots -> 0 .. NPROC]
      BY <1>1, LwpAssumption DEF IInv, TypeOK, PCs, None
    <2>3. \A t \in Slots : proc'[t].state = "UNUSED" => proc'[t].pid = None /\ proc'[t].tid = 0
      BY <1>4 DEF IInv, TypeOK
    <2>4. pgdirs' \subseteq PageTables
      BY <1>1 DEF IInv, TypeOK
    <2> QED
      BY <1>1, <2>1, <2>2, <2>3, <2>4 DEF IInv, TypeOK, Record
  <1>10. StateInv'
    <2>1. \A t \in Slots : proc'[t].pid = proc[t].pid /\ proc'[t].kstack = proc[t].kstack
      BY <1>4
    <2>2. nextpid' = nextpid /\ f # None
      BY <1>1
    <2>3. \A t \in Slots : proc'[t].state = "ZOMBIE" <=> pc'[t] \in {"ended", "exited"}
      BY <1>2, <1>3, <1>4, <1>5 DEF IInv, StateInv
    <2>4. \A t \in Slots : /\ Used(t)' /\ proc'[t].pgdir = None =>
                                 proc'[t].state = "EMBRYO" /\ Alone(t)'
                           /\ ~Used(t)' => proc'[t].pgdir = None
      BY <1>2, <1>4, <1>7, <2>2 DEF IInv, StateInv, Used
    <2>5. \A t \in Slots : /\ Used(t)' <=> proc'[t].pid # None
                           /\ proc'[t].pid < nextpid'
                           /\ Used(t)' => proc'[t].kstack
      BY <1>7, <2>1, <2>2 DEF IInv, StateInv
    <2> QED
      BY <2>3, <2>4, <2>5 DEF StateInv
  <1>11. CpuInv'
    BY <1>1, <1>2, <1>4 DEF IInv, CpuInv, On
  <1>12. MainInv'
    <2>1. \A t \in Slots : proc'[t].tid = proc[t].tid /\ proc'[t].main = proc[t].main
                           /\ proc'[t].pid = proc[t].pid
      BY <1>4
    <2> QED
      BY <1>3, <1>4, <1>6, <1>7, <2>1 DEF IInv, MainInv
  <1>13. ThreadInv'
    BY <1>2, <1>3, <1>4, <1>5, <1>6, <1>7 DEF IInv, ThreadInv, StateInv
  <1>14. LocalInv'
    <2>1. \A t \in Slots : Making(t)' => t # s /\ t # np /\ Making(t) /\ local[t] # np
      BY <1>1, <1>2, <1>5, <1>7 DEF Making, IInv, LocalInv
    <2>2. ASSUME NEW t \in Slots, Live(t)'
          PROVE  Placed(t, pc[t], local[t])'
      <3>1. CASE t \in {s, np}
        BY <3>1, <1>5 DEF Placed
      <3>2. CASE t \notin {s, np}
        <4>1. Placed(t, pc[t], local[t])
          BY <2>2, <3>2, <1>7 DEF IInv, LocalInv
        <4>2. pc[t] \in {"fork", "create", "join"} => local[t] # np
          BY <4>1, <2>1, <2>2, <3>2, <1>3, <1>5 DEF Placed, Making
        <4> QED
          BY <4>1, <4>2, <3>2, <1>4, <1>5, <1>6, <1>7, <1>8 DEF Placed
      <3> QED
        BY <3>1, <3>2
    <2> QED
      BY <2>1, <2>2, <1>5 DEF IInv, LocalInv
  <1>15. OnePageTableEach'
    <2>1. {proc'[t].pgdir : t \in Slots} \ {None}
            = ({proc[t].pgdir : t \in Slots} \ {None}) \union {f}
      <3>1. \A t \in Slots : proc'[t].pgdir = IF t = np THEN f ELSE proc[t].pgdir
        BY <1>4
      <3>2. f # None /\ proc[np].pgdir = None
        BY <1>1, <1>2
      <3> QED
        BY <3>1, <3>2
    <2>2. pgdirs' = {proc'[t].pgdir : t \in Slots} \ {None}
      BY <1>1, <2>1 DEF IInv, OnePageTableEach
    <2>3. \A t \in Slots : proc[t].pgdir # f
      BY <1>1 DEF IInv, OnePageTableEach
    <2>4. ASSUME NEW t \in Slots, NEW u \in Slots, proc'[t].pgdir # None, proc'[u].pgdir # None
          PROVE  proc'[t].pgdir = proc'[u].pgdir <=> SameProcess(t, u)'
      <3>1. CASE t # np /\ u # np
        BY <3>1, <2>4, <1>4, <1>6 DEF IInv, OnePageTableEach
      <3>2. CASE t = np \/ u = np
        BY <3>2, <2>3, <1>3, <1>4, <1>6 DEF Alone, SameProcess
      <3> QED
        BY <3>1, <3>2
    <2> QED
      BY <2>2, <2>4 DEF OnePageTableEach
  <1>16. NobodyOversleeps'
    <2>1. \A t \in Slots : Asleep(t)' => t # s /\ t # np /\ Asleep(t)
      BY <1>1, <1>4 DEF Asleep, IInv, CpuInv
    <2>2. \A t \in Slots : Asleep(t) /\ pc[t] = "join" => local[t] \in Slots /\ local[t] # np
      BY <1>3 DEF Asleep, Live, IInv, LocalInv, Placed
    <2> QED
      BY <2>1, <2>2, <1>4, <1>5, <1>8 DEF IInv, NobodyOversleeps
  <1> QED
    BY <1>9, <1>10, <1>11, <1>12, <1>13, <1>14, <1>15, <1>16 DEF IInv

-----------------------------------------------------------------------------
(* thread_create *)

\* A live slot, its main and all with its pid have the same page table.
LEMMA MainShares ==
    ASSUME IInv, NEW s \in Slots, Live(s)
    PROVE  /\ proc[s].main \in Slots /\ SameProcess(s, proc[s].main)
           /\ proc[s].pid # None /\ proc[s].pgdir # None
           /\ proc[proc[s].main].pgdir = proc[s].pgdir
  <1>1. Used(s) /\ proc[s].main \in Slots /\ SameProcess(s, proc[s].main)
    BY DEF IInv, MainInv, Used, Live
  <1>2. proc[s].pid # None /\ proc[s].pgdir # None
    BY <1>1 DEF IInv, StateInv, Live
  <1>3. Used(proc[s].main)
    BY <1>1, <1>2 DEF IInv, StateInv, SameProcess
  <1>4. proc[proc[s].main].pgdir # None
    BY <1>1, <1>2, <1>3 DEF IInv, StateInv, Alone, SameProcess
  <1> QED
    BY <1>1, <1>2, <1>4 DEF IInv, OnePageTableEach

\* A new thread has the page table of its process, and s as its creator.
LEMMA ThreadCreateStep ==
    ASSUME IInv, NEW s \in Slots, thread_create(s)
    PROVE  IInv'
  <1>1. PICK np \in Slots, m \in Slots :
        /\ m = proc[s].main /\ proc[np].state = "UNUSED"
        /\ On(s) /\ pc[s] = "user" /\ nexttid <= MaxTid /\ nexttid' = nexttid + 1
        /\ proc' = [proc EXCEPT ![np] =
            [@ EXCEPT !.state = "EMBRYO", !.tid = nexttid, !.parent = s,
                      !.main = m, !.pid = proc[m].pid, !.parent_pid = proc[m].pid,
                      !.pgdir = proc[m].pgdir, !.kstack = TRUE]]
        /\ local' = [local EXCEPT ![s] = np] /\ pc' = [pc EXCEPT ![s] = "create"]
        /\ UNCHANGED <<cpu, due, nextpid, pgdirs>>
    <2>1. On(s) /\ FreeSlots # {} /\ pc[s] = "user"
      BY DEF thread_create, Syscall, At
    <2>2. First(FreeSlots) \in Slots /\ proc[First(FreeSlots)].state = "UNUSED"
      BY <2>1, FreeSlotFound
    <2>3. proc[s].main \in Slots
      BY <2>1, RunnerLives, MainShares
    <2> QED
      BY <2>1, <2>2, <2>3 DEF thread_create, Goto, Creator
  <1>2. /\ Live(s) /\ s # np /\ Used(s) /\ proc[m].pid = proc[s].pid /\ proc[s].pid # None
        /\ proc[m].pgdir = proc[s].pgdir /\ proc[s].pgdir # None /\ m # np /\ Used(m)
        /\ proc[m].tid = 0 /\ proc[np].pid = None /\ proc[np].pgdir = None
    <2>1. Live(s) /\ Used(s)
      BY <1>1, RunnerLives DEF Live, Used
    <2>2. proc[np].pid = None /\ proc[np].pgdir = None
      BY <1>1 DEF IInv, StateInv, Used
    <2>3. /\ proc[m].pid = proc[s].pid /\ proc[s].pid # None
          /\ proc[m].pgdir = proc[s].pgdir /\ proc[s].pgdir # None
      BY <1>1, <2>1, MainShares DEF SameProcess
    <2>4. proc[m].tid = 0
      BY <1>1, <2>1 DEF IInv, MainInv
    <2> QED
      BY <1>1, <2>1, <2>2, <2>3, <2>4 DEF Live, IInv, StateInv
  <1>3. nexttid \in Nat /\ nexttid # 0
    BY LwpAssumption DEF IInv, TypeOK
  <1>4. /\ \A t \in Slots : t # np => proc'[t] = proc[t]
        /\ proc'[np].state = "EMBRYO" /\ proc'[np].pid = proc[s].pid /\ proc'[np].tid = nexttid
        /\ proc'[np].main = m /\ proc'[np].kstack = TRUE /\ proc'[np].pgdir = proc[s].pgdir
        /\ proc'[np].parent = s /\ proc'[np].parent_pid = proc[s].pid
    BY <1>1, <1>2 DEF IInv, TypeOK
  <1>5. \A t \in Slots : /\ pc'[t] = (IF t = s THEN "create" ELSE pc[t])
                         /\ local'[t] = (IF t = s THEN np ELSE local[t])
    BY <1>1 DEF IInv, TypeOK
  <1>6. /\ \A t, u \in Slots : t # np /\ u # np => (SameProcess(t, u)' <=> SameProcess(t, u))
        /\ \A t \in Slots : t # np => /\ SameProcess(t, np)' <=> SameProcess(t, s)
                                      /\ SameProcess(np, t)' <=> SameProcess(s, t)
        /\ SameProcess(np, np)'
    BY <1>2, <1>4 DEF SameProcess
  <1>7. \A t \in Slots : t # np => /\ Live(t)' <=> Live(t)
                                   /\ Used(t)' <=> Used(t)
    BY <1>4 DEF Live, Used
  <1>8. ~Live(np)' /\ Used(np)' /\ ~Asleep(np)'
    BY <1>4 DEF Live, Used, Asleep
  <1>9. \A t \in Slots : t # np /\ t # s => /\ Alone(t) => Alone(t)'
                                            /\ Gone(t) => Gone(t)'
                                            /\ Unjoined(t)' \subseteq Unjoined(t)
    <2>1. ASSUME NEW t \in Slots, t # np, t # s, Alone(t)
          PROVE  Alone(t)'
      BY <2>1, <1>2, <1>6 DEF Alone
    <2>2. ASSUME NEW t \in Slots, t # np, t # s, Gone(t)
          PROVE  Gone(t)'
      BY <2>2, <1>2, <1>4, <1>6 DEF Gone, Live
    <2>3. ASSUME NEW t \in Slots, t # np, t # s
          PROVE  Unjoined(t)' \subseteq Unjoined(t)
      BY <2>3, <1>4, <1>6 DEF Unjoined
    <2> QED
      BY <2>1, <2>2, <2>3
  <1>10. TypeOK'
    <2>1. proc' \in [Slots -> Record]
      <3>1. nexttid \in 0 .. MaxTid /\ s \in 0 .. NPROC /\ m \in 0 .. NPROC
        <4>1. nexttid <= MaxTid
          BY <1>1
        <4>2. s \in 0 .. NPROC /\ m \in 0 .. NPROC
          BY LwpAssumption DEF Slots
        <4> QED
          BY <4>1, <4>2, <1>3, LwpAssumption
      <3>2. proc \in [Slots -> Record]
        BY DEF IInv, TypeOK, Record
      <3>3. proc[m].pid \in 0 .. MaxPid /\ proc[m].pgdir \in 0 .. NPROC + 1
        BY <3>2 DEF Record
      <3> DEFINE r == [proc[np] EXCEPT !.state = "EMBRYO", !.tid = nexttid, !.parent = s,
                          !.main = m, !.pid = proc[m].pid, !.parent_pid = proc[m].pid,
                          !.pgdir = proc[m].pgdir, !.kstack = TRUE]
      <3>4. r \in Record
        BY <3>1, <3>2, <3>3 DEF Record, States
      <3>5. proc' = [proc EXCEPT ![np] = r]
        BY <1>1, <3>2
      <3> QED
        BY <3>2, <3>4, <3>5
    <2>2. pc' \in [Slots -> PCs] /\ local' \in [Slots -> 0 .. NPROC]
      <3>1. np \in 0 .. NPROC
        BY LwpAssumption DEF Slots
      <3> QED
        BY <3>1, <1>1 DEF IInv, TypeOK, PCs
    <2>3. \A t \in Slots : proc'[t].state = "UNUSED" => proc'[t].pid = None /\ proc'[t].tid = 0
      BY <1>4 DEF IInv, TypeOK
    <2>4. nexttid' \in 1 .. MaxTid + 1
      BY <1>1, LwpAssumption DEF IInv, TypeOK
    <2> QED
      BY <1>1, <2>1, <2>2, <2>3, <2>4 DEF IInv, TypeOK, Record
  <1>11. StateInv'
    <2>1. \A t \in Slots : /\ Used(t)' <=> proc'[t].pid # None
                           /\ proc'[t].pid < nextpid'
                           /\ Used(t)' => proc'[t].kstack
      BY <1>1, <1>2, <1>4, <1>7, <1>8 DEF IInv, StateInv
    <2>2. \A t \in Slots : /\ Used(t)' /\ proc'[t].pgdir = None =>
                                 proc'[t].state = "EMBRYO" /\ Alone(t)'
                           /\ ~Used(t)' => proc'[t].pgdir = None
      BY <1>2, <1>4, <1>7, <1>8, <1>9 DEF IInv, StateInv
    <2>3. \A t \in Slots : proc'[t].state = "ZOMBIE" <=> pc'[t] \in {"ended", "exited"}
      BY <1>1, <1>2, <1>4, <1>5 DEF IInv, StateInv, Live
    <2> QED
      BY <2>1, <2>2, <2>3 DEF StateInv
  <1>12. CpuInv'
    BY <1>1, <1>2, <1>4 DEF IInv, CpuInv, On
  <1>13. MainInv'
    <2>1. \A t \in Slots : Used(t) /\ t # np => proc[t].main # np
      BY <1>2 DEF IInv, MainInv, StateInv, SameProcess
    <2>2. \A t \in Slots : t # np => /\ proc'[t].tid = proc[t].tid /\ proc'[t].main = proc[t].main
                                     /\ proc'[t].pid = proc[t].pid
                                     /\ proc'[t].parent_pid = proc[t].parent_pid
      BY <1>4
    <2>3. SameProcess(np, m)'
      BY <1>2, <1>6 DEF SameProcess
    <2> QED
      BY <1>2, <1>3, <1>4, <1>6, <1>7, <2>1, <2>2, <2>3 DEF IInv, MainInv
  <1>14. ThreadInv'
    <2>1. \A t \in Slots : proc[t].tid # 0 => Used(t)
      BY DEF IInv, TypeOK, Used
    <2>2. \A t \in Slots : t # np /\ proc[t].tid # 0 /\ SameProcess(t, proc[t].parent)
                           => proc[t].parent # np
      BY <1>2, <2>1 DEF IInv, StateInv, SameProcess
    <2>3. pc[np] \notin {"ended", "exited"}
      BY <1>1 DEF IInv, StateInv
    <2>4. ~Gone(s)
      BY <1>2 DEF Gone, Live, SameProcess
    <2>5. \A t \in Slots : t # np /\ proc[t].tid # 0 =>
             \/ Gone(t)'
             \/ /\ proc'[t].parent \in Slots \ {t}
                /\ SameProcess(t, proc[t].parent)'
                /\ proc'[proc'[t].parent].state # "ZOMBIE"
      BY <2>2, <2>4, <1>4, <1>6, <1>9 DEF IInv, ThreadInv
    <2>6. /\ proc'[np].parent \in Slots \ {np} /\ SameProcess(np, s)'
          /\ proc'[s].state # "ZOMBIE"
      BY <1>2, <1>4, <1>6 DEF Live, SameProcess
    <2>7. \A t \in Slots : /\ proc'[t].state = "ZOMBIE" => Gone(t)' \/ pc'[t] = "ended"
                           /\ pc'[t] = "ended" => proc'[t].tid # 0
      BY <2>3, <1>2, <1>4, <1>5, <1>9 DEF IInv, ThreadInv, Live
    <2> QED
      BY <2>5, <2>6, <2>7, <1>4 DEF ThreadInv, SameProcess
  <1>15. LocalInv'
    <2>1. ASSUME NEW t \in Slots, Live(t)'
          PROVE  Placed(t, pc[t], local[t])'
      <3>1. t # np
        BY <2>1, <1>8
      <3>2. CASE t = s
        BY <3>2, <1>2, <1>3, <1>4, <1>5, <1>6 DEF Placed, SameProcess
      <3>3. CASE t # s
        <4>1. Placed(t, pc[t], local[t])
          BY <2>1, <3>1, <1>7 DEF IInv, LocalInv
        <4>2. pc[t] \in {"fork", "create", "join"} => local[t] # np
          BY <4>1, <1>1 DEF Placed, IInv, TypeOK
        <4> QED
          BY <4>1, <4>2, <3>1, <3>3, <1>4, <1>5, <1>6, <1>7, <1>9 DEF Placed
      <3> QED
        BY <3>2, <3>3
    <2>2. \A t \in Slots : Making(t) => local[t] # np
      BY <1>1 DEF Making, IInv, LocalInv, Placed
    <2>3. \A t \in Slots : Making(t)' => t = s \/ Making(t)
      BY <1>5, <1>7, <1>8 DEF Making
    <2> QED
      BY <2>1, <2>2, <2>3, <1>5 DEF IInv, LocalInv
  <1>16. OnePageTableEach'
    <2>1. \A t \in Slots : proc'[t].pgdir = IF t = np THEN proc[s].pgdir ELSE proc[t].pgdir
      BY <1>4
    <2>2. {proc'[t].pgdir : t \in Slots} \ {None} = {proc[t].pgdir : t \in Slots} \ {None}
      BY <2>1, <1>2
    <2>3. pgdirs' = {proc'[t].pgdir : t \in Slots} \ {None}
      BY <1>1, <2>2 DEF IInv, OnePageTableEach
    <2>4. ASSUME NEW t \in Slots, NEW u \in Slots, proc'[t].pgdir # None, proc'[u].pgdir # None
          PROVE  proc'[t].pgdir = proc'[u].pgdir <=> SameProcess(t, u)'
      <3> DEFINE old(x) == IF x = np THEN s ELSE x
      <3>1. old(t) \in Slots /\ old(u) \in Slots
        OBVIOUS
      <3>2. proc'[t].pgdir = proc[old(t)].pgdir /\ proc'[u].pgdir = proc[old(u)].pgdir
        BY <2>1
      <3>3. SameProcess(t, u)' <=> SameProcess(old(t), old(u))
        BY <1>2, <1>4 DEF SameProcess
      <3> QED
        BY <2>4, <3>1, <3>2, <3>3 DEF IInv, OnePageTableEach
    <2> QED
      BY <2>3, <2>4 DEF OnePageTableEach
  <1>17. NobodyOversleeps'
    <2>1. \A t \in Slots : Asleep(t)' => t # s /\ t # np /\ Asleep(t)
      BY <1>1, <1>4 DEF Asleep, IInv, CpuInv
    <2>2. \A t \in Slots : ZombieChildren(t)' = ZombieChildren(t)
      <3>1. \A t \in Slots : proc'[t].state = "ZOMBIE" <=> proc[t].state = "ZOMBIE"
        BY <1>1, <1>4
      <3> QED
        BY <3>1, <1>1, <1>4 DEF ZombieChildren
    <2>3. \A t \in Slots : Asleep(t) /\ pc[t] = "join" =>
                              local[t] \in Slots /\ proc[local[t]].tid # 0
      BY DEF Asleep, Live, IInv, LocalInv, Placed
    <2>4. \A t \in Slots : Asleep(t) /\ pc[t] = "join" => local[t] # np
      BY <2>3, <1>1 DEF IInv, TypeOK
    <2> QED
      BY <2>1, <2>2, <2>3, <2>4, <1>4, <1>5 DEF IInv, NobodyOversleeps
  <1> QED
    BY <1>10, <1>11, <1>12, <1>13, <1>14, <1>15, <1>16, <1>17 DEF IInv

\* The slot is still an embryo when thread_create makes it runnable.
LEMMA ThreadReadyStep ==
    ASSUME IInv, NEW s \in Slots, ThreadReady(s)
    PROVE  IInv'
  <1>1. PICK k \in Slots :
        /\ k = local[s] /\ On(s) /\ pc[s] = "create"
        /\ proc' = [proc EXCEPT ![k].state = "RUNNABLE"]
        /\ pc' = [pc EXCEPT ![s] = "user", ![k] = "user"]
        /\ local' = [local EXCEPT ![s] = None]
        /\ UNCHANGED <<cpu, due, nextpid, nexttid, pgdirs>>
    <2>1. On(s) /\ pc[s] = "create"
      BY DEF ThreadReady, At
    <2>2. local[s] \in Slots
      BY <2>1, RunnerLives DEF IInv, LocalInv, Placed
    <2> QED
      BY <2>1, <2>2 DEF ThreadReady
  <1>2. /\ Live(s) /\ pc[s] \notin {"ended", "exited"} /\ Making(s)
        /\ proc[k].state = "EMBRYO" /\ proc[k].tid # 0 /\ SameProcess(s, k)
    BY <1>1, RunnerLives DEF IInv, LocalInv, Placed, Making
  <1>3. s # k /\ ~Live(k) /\ proc[k].pgdir # None
    BY <1>2 DEF Live, IInv, StateInv, Used, Alone, SameProcess
  <1>4. /\ \A t \in Slots : SameButState(t) /\ (t # k => proc'[t] = proc[t])
        /\ proc'[k].state = "RUNNABLE"
    BY <1>1 DEF IInv, TypeOK, SameButState
  <1>5. \A t \in Slots : /\ pc'[t] = (IF t \in {s, k} THEN "user" ELSE pc[t])
                         /\ local'[t] = (IF t = s THEN None ELSE local[t])
    BY <1>1 DEF IInv, TypeOK
  <1>6. \A t, u \in Slots : SameProcess(t, u)' <=> SameProcess(t, u)
    BY <1>4 DEF SameProcess, SameButState
  <1>7. \A t \in Slots : /\ Used(t)' <=> Used(t)
                         /\ Alone(t)' <=> Alone(t)
                         /\ Gone(t)' <=> Gone(t)
                         /\ t # k => (Live(t)' <=> Live(t))
    BY <1>2, <1>4, <1>6 DEF Live, Used, Alone, Gone
  <1>8. \A t \in Slots : Unjoined(t)' = Unjoined(t) /\ ZombieChildren(t)' = ZombieChildren(t)
    <2>1. ASSUME NEW t \in Slots
          PROVE  Unjoined(t)' = Unjoined(t)
      BY <1>4, <1>6 DEF Unjoined, SameButState
    <2>2. ASSUME NEW t \in Slots
          PROVE  ZombieChildren(t)' = ZombieChildren(t)
      BY <1>2, <1>4 DEF ZombieChildren, SameButState
    <2> QED
      BY <2>1, <2>2
  <1>9. TypeOK'
    <2>1. proc' \in [Slots -> Record]
      BY <1>1 DEF IInv, TypeOK, Record, States
    <2>2. pc' \in [Slots -> PCs] /\ local' \in [Slots -> 0 .. NPROC]
      BY <1>1, LwpAssumption DEF IInv, TypeOK, PCs, None
    <2>3. \A t \in Slots : proc'[t].state = "UNUSED" => proc'[t].pid = None /\ proc'[t].tid = 0
      BY <1>4 DEF IInv, TypeOK
    <2> QED
      BY <1>1, <2>1, <2>2, <2>3 DEF IInv, TypeOK, Record
  <1>10. StateInv'
    <2>1. \A t \in Slots : proc'[t].state = "ZOMBIE" <=> pc'[t] \in {"ended", "exited"}
      BY <1>2, <1>3, <1>4, <1>5 DEF IInv, StateInv
    <2>2. nextpid' = nextpid
      BY <1>1
    <2> QED
      BY <1>3, <1>4, <1>7, <2>1, <2>2 DEF IInv, StateInv, SameButState
  <1>11. CpuInv'
    BY <1>1, <1>2, <1>4 DEF IInv, CpuInv, On
  <1>12. MainInv'
    BY <1>4, <1>6, <1>7 DEF IInv, MainInv, SameButState
  <1>13. ThreadInv'
    BY <1>2, <1>3, <1>4, <1>5, <1>6, <1>7 DEF IInv, ThreadInv, StateInv, SameButState
  <1>14. LocalInv'
    <2>1. \A t \in Slots : Making(t)' => t # s /\ t # k /\ Making(t) /\ local[t] # k
      BY <1>1, <1>2, <1>5, <1>7 DEF Making, IInv, LocalInv
    <2>2. ASSUME NEW t \in Slots, Live(t)'
          PROVE  Placed(t, pc[t], local[t])'
      <3>1. CASE t \in {s, k}
        BY <3>1, <1>5 DEF Placed
      <3>2. CASE t \notin {s, k}
        <4>1. Placed(t, pc[t], local[t])
          BY <2>2, <3>2, <1>7 DEF IInv, LocalInv
        <4>2. pc[t] \in {"fork", "create"} => local[t] # k
          BY <2>1, <2>2, <3>2, <1>5 DEF Making
        <4> QED
          BY <4>1, <4>2, <3>2, <1>4, <1>5, <1>6, <1>7, <1>8 DEF Placed, SameButState
      <3> QED
        BY <3>1, <3>2
    <2> QED
      BY <2>1, <2>2, <1>5 DEF IInv, LocalInv
  <1>15. OnePageTableEach'
    BY <1>1, <1>4, <1>6 DEF IInv, OnePageTableEach, SameButState
  <1>16. NobodyOversleeps'
    <2>1. \A t \in Slots : Asleep(t)' => t # s /\ t # k /\ Asleep(t)
      BY <1>1, <1>4 DEF Asleep, IInv, CpuInv
    <2>2. \A t \in Slots : Asleep(t) /\ pc[t] = "join" => local[t] \in Slots
      BY DEF Asleep, Live, IInv, LocalInv, Placed
    <2> QED
      BY <2>1, <2>2, <1>4, <1>5, <1>8 DEF IInv, NobodyOversleeps
  <1> QED
    BY <1>9, <1>10, <1>11, <1>12, <1>13, <1>14, <1>15, <1>16 DEF IInv

-----------------------------------------------------------------------------
(* thread_exit *)

\* thread_exit leaves no thread without a creator that lives, and wakes its joiner.
LEMMA ThreadExitStep ==
    ASSUME IInv, NCPU = 1, NEW s \in Slots, thread_exit(s)
    PROVE  IInv'
  <1>1. /\ On(s) /\ s \notin due /\ pc[s] = "texit"
        /\ proc' = [wakeup1({proc[s].parent}) EXCEPT ![s].state = "ZOMBIE"]
        /\ pc' = [pc EXCEPT ![s] = "ended"] /\ Sched(s)
        /\ UNCHANGED <<due, local, nextpid, nexttid, pgdirs>>
    BY DEF thread_exit, At, Goto, Joiner
  <1>2. Live(s) /\ proc[s].tid # 0 /\ Unjoined(s) = {} /\ ~Gone(s)
    BY <1>1, RunnerLives DEF IInv, LocalInv, Placed, Gone, Live, SameProcess
  <1>3. /\ proc[s].parent \in Slots \ {s} /\ SameProcess(s, proc[s].parent)
        /\ proc[proc[s].parent].state # "ZOMBIE"
    BY <1>2 DEF IInv, ThreadInv
  <1>4. /\ \A t \in Slots : SameButState(t) /\ proc'[t].killed = proc[t].killed
        /\ proc'[s].state = "ZOMBIE"
        /\ \A t \in Slots \ {s} : proc'[t].state =
             IF t = proc[s].parent /\ Asleep(t) /\ pc[t] \in {"wait", "join"} THEN "RUNNABLE"
             ELSE proc[t].state
    BY <1>1 DEF IInv, TypeOK, SameButState, wakeup1
  <1>5. \A t \in Slots : pc'[t] = (IF t = s THEN "ended" ELSE pc[t])
    BY <1>1 DEF IInv, TypeOK
  <1>6. \A t, u \in Slots : SameProcess(t, u)' <=> SameProcess(t, u)
    BY <1>4 DEF SameProcess, SameButState
  <1>7. \A t \in Slots : /\ Used(t)' <=> Used(t)
                         /\ Alone(t)' <=> Alone(t)
                         /\ Gone(t) => Gone(t)'
                         /\ proc'[t].state = "EMBRYO" <=> proc[t].state = "EMBRYO"
                         /\ t # s => /\ Live(t)' <=> Live(t)
                                     /\ proc'[t].state = "ZOMBIE" <=> proc[t].state = "ZOMBIE"
    <2>1. \A t \in Slots : /\ Used(t)' <=> Used(t)
                           /\ proc'[t].state = "EMBRYO" <=> proc[t].state = "EMBRYO"
                           /\ t # s => /\ Live(t)' <=> Live(t)
                                       /\ proc'[t].state = "ZOMBIE" <=> proc[t].state = "ZOMBIE"
      BY <1>2, <1>4 DEF Live, Used, Asleep
    <2>2. \A t \in Slots : (Alone(t)' <=> Alone(t)) /\ (Gone(t) => Gone(t)')
      BY <2>1, <1>4, <1>6 DEF Alone, Gone
    <2> QED
      BY <2>1, <2>2
  <1>8. /\ \A t \in Slots : Unjoined(t)' = Unjoined(t)
        /\ \A t \in Slots : t # proc[s].parent => ZombieChildren(t)' = ZombieChildren(t)
    <2>1. ASSUME NEW t \in Slots
          PROVE  Unjoined(t)' = Unjoined(t)
      BY <1>4, <1>6 DEF Unjoined, SameButState
    <2>2. ASSUME NEW t \in Slots, t # proc[s].parent
          PROVE  ZombieChildren(t)' = ZombieChildren(t)
      BY <2>2, <1>4, <1>7 DEF ZombieChildren, SameButState
    <2> QED
      BY <2>1, <2>2
  <1>9. cpu' \in [CPUs -> 0 .. NPROC] /\ \A t \in Slots : ~On(t)'
    BY <1>1, SchedIs
  <1>10. TypeOK'
    <2>1. proc' \in [Slots -> Record]
      <3>1. wakeup1({proc[s].parent}) \in [Slots -> Record]
        BY DEF IInv, TypeOK, Record, States, wakeup1
      <3> QED
        BY <3>1, <1>1, ZenonT(60) DEF Record, States
    <2>2. pc' \in [Slots -> PCs]
      BY <1>1 DEF IInv, TypeOK, PCs
    <2>3. \A t \in Slots : proc'[t].state = "UNUSED" => proc'[t].pid = None /\ proc'[t].tid = 0
      BY <1>4, <1>7 DEF IInv, TypeOK, Used, SameButState
    <2> QED
      BY <1>1, <1>9, <2>1, <2>2, <2>3 DEF IInv, TypeOK, Record
  <1>11. StateInv'
    <2>1. \A t \in Slots : proc'[t].state = "ZOMBIE" <=> pc'[t] \in {"ended", "exited"}
      BY <1>4, <1>5, <1>7 DEF IInv, StateInv
    <2>2. nextpid' = nextpid
      BY <1>1
    <2> QED
      BY <1>4, <1>7, <2>1, <2>2 DEF IInv, StateInv, SameButState
  <1>12. CpuInv'
    <2>1. due = {}
      BY <1>1, OneRuns DEF IInv, CpuInv, TypeOK
    <2> QED
      BY <1>1, <1>9, <2>1 DEF CpuInv
  <1>13. MainInv'
    BY <1>4, <1>6, <1>7 DEF IInv, MainInv, SameButState
  <1>14. ThreadInv'
    <2>1. ASSUME NEW t \in Slots, proc[t].tid # 0, ~Gone(t)
          PROVE  /\ proc[t].parent \in Slots \ {t} /\ SameProcess(t, proc[t].parent)
                 /\ proc[proc[t].parent].state # "ZOMBIE" /\ proc[t].parent # s
      <3>1. proc[t].tid > 0
        BY <2>1, LwpAssumption DEF IInv, TypeOK
      <3> QED
        BY <2>1, <3>1, <1>2 DEF IInv, ThreadInv, Unjoined, SameProcess
    <2> QED
      BY <2>1, <1>2, <1>4, <1>5, <1>6, <1>7 DEF IInv, ThreadInv, SameButState
  <1>15. LocalInv'
    <2>1. \A t \in Slots : Live(t)' => t # s /\ Live(t) /\ pc'[t] = pc[t]
      BY <1>4, <1>5, <1>7 DEF Live
    <2>2. ASSUME NEW t \in Slots, Live(t)'
          PROVE  Placed(t, pc[t], local[t])'
      <3>1. Placed(t, pc[t], local[t])
        BY <2>1, <2>2 DEF IInv, LocalInv
      <3>2. local' = local
        BY <1>1
      <3> QED
        BY <2>1, <2>2, <3>1, <3>2, <1>4, <1>6, <1>7, <1>8 DEF Placed, SameButState
    <2> QED
      BY <2>1, <2>2, <1>1 DEF IInv, LocalInv, Making
  <1>16. OnePageTableEach'
    <2>1. \A t \in Slots : proc'[t].pgdir = proc[t].pgdir
      BY <1>4 DEF SameButState
    <2>2. pgdirs' = pgdirs
      BY <1>1
    <2> QED
      BY <2>1, <2>2, <1>6 DEF IInv, OnePageTableEach
  <1>17. NobodyOversleeps'
    <2>1. \A t \in Slots : Asleep(t)' => /\ Asleep(t) /\ t # s
                                         /\ t = proc[s].parent => pc[t] \notin {"wait", "join"}
      BY <1>3, <1>4 DEF Asleep
    <2>2. ASSUME NEW t \in Slots, Asleep(t), pc[t] = "join", local[t] = s
          PROVE  t = proc[s].parent
      BY <2>2 DEF Asleep, Live, IInv, LocalInv, Placed
    <2>3. \A t \in Slots : Asleep(t) /\ pc[t] = "join" => local[t] \in Slots
      BY DEF Asleep, Live, IInv, LocalInv, Placed
    <2>4. local' = local
      BY <1>1
    <2>5. ASSUME NEW t \in Slots, Asleep(t)', pc'[t] = "wait"
          PROVE  ZombieChildren(t)' = {}
      <3>1. Asleep(t) /\ pc[t] = "wait" /\ t # proc[s].parent
        BY <2>1, <2>5, <1>5
      <3> QED
        BY <3>1, <1>8 DEF IInv, NobodyOversleeps
    <2>6. ASSUME NEW t \in Slots, Asleep(t)', pc'[t] = "join"
          PROVE  proc'[local'[t]].state # "ZOMBIE"
      <3>1. Asleep(t) /\ pc[t] = "join" /\ t # proc[s].parent
        BY <2>1, <2>6, <1>5
      <3>2. local[t] \in Slots /\ local[t] # s /\ proc[local[t]].state # "ZOMBIE"
        BY <3>1, <2>2, <2>3 DEF IInv, NobodyOversleeps
      <3> QED
        BY <3>2, <2>4, <1>7
    <2> QED
      BY <2>5, <2>6 DEF NobodyOversleeps
  <1> QED
    BY <1>10, <1>11, <1>12, <1>13, <1>14, <1>15, <1>16, <1>17 DEF IInv

-----------------------------------------------------------------------------
(* exit *)

\* What exit does to the slots: those of the process end, those it leaves behind go
\* to init, and the parent and init may be woken.
ExitEffect(s, parent, left, awake) ==
    /\ Live(s) /\ On(s) /\ s \notin due /\ Sched(s)
    /\ UNCHANGED <<due, nextpid, nexttid, pgdirs>>
    /\ \A t \in left : proc[t].tid = 0 /\ ~SameProcess(s, t)
    /\ \A t \in awake : Asleep(t)
    /\ parent \in Slots /\ Asleep(parent) /\ pc[parent] \in {"wait", "join"}
          => parent \in awake
    /\ (\E t \in left : proc[t].state = "ZOMBIE") /\ Asleep(InitProc)
          /\ pc[InitProc] \in {"wait", "join"} => InitProc \in awake
    /\ proc' \in [Slots -> Record]
    /\ \A t \in Slots :
         /\ proc'[t].pid = proc[t].pid /\ proc'[t].tid = proc[t].tid
         /\ proc'[t].main = proc[t].main /\ proc'[t].parent_pid = proc[t].parent_pid
         /\ proc'[t].kstack = proc[t].kstack /\ proc'[t].pgdir = proc[t].pgdir
         /\ proc'[t].parent = IF SameProcess(s, t) THEN parent
                              ELSE IF t \in left THEN InitProc ELSE proc[t].parent
         /\ proc'[t].state = IF SameProcess(s, t) THEN "ZOMBIE"
                             ELSE IF t \in awake THEN "RUNNABLE" ELSE proc[t].state
         /\ pc'[t] = (IF SameProcess(s, t) /\ proc[t].state # "ZOMBIE" THEN "exited"
                      ELSE pc[t])
         /\ local'[t] = (IF SameProcess(s, t) /\ proc[t].state # "ZOMBIE" THEN None
                         ELSE local[t])
    /\ pc' \in [Slots -> PCs] /\ local' \in [Slots -> 0 .. NPROC]

\* exit has that effect: the threads of a process find each other by their pid.
LEMMA ExitIs ==
    ASSUME IInv, NCPU = 1, NEW s \in Slots, exit(s)
    PROVE  \E parent \in 0 .. NPROC, left \in SUBSET Slots, awake \in SUBSET Slots :
             ExitEffect(s, parent, left, awake)
  <1>1. On(s) /\ Live(s)
    BY RunnerLives DEF exit, At
  <1>2. proc[s].main \in Slots /\ proc[proc[s].main].pid = proc[s].pid
    BY <1>1, MainShares DEF SameProcess
  <1>3. Siblings(s) = {t \in Slots : SameProcess(s, t)}
    BY <1>2 DEF Siblings, SameProcess
  <1>4. \A t \in Abandoned(s) : t \in Slots /\ proc[t].tid = 0 /\ ~SameProcess(s, t)
    BY <1>2 DEF Abandoned, SameProcess, IInv, MainInv, TypeOK, Used
  <1> DEFINE init == IF \E p \in Abandoned(s) : proc[p].state = "ZOMBIE" THEN {InitProc} ELSE {}
             S == {proc[proc[s].main].parent} \union init
             W == {t \in Slots : t \in S /\ Asleep(t) /\ pc[t] \in {"wait", "join"}}
  <1>5. /\ proc' = [p \in Slots |->
              IF p \in Siblings(s) THEN [wakeup1(S)[p] EXCEPT !.parent = proc[proc[s].main].parent,
                                                             !.state = "ZOMBIE"]
              ELSE IF p \in Abandoned(s) THEN [wakeup1(S)[p] EXCEPT !.parent = InitProc]
              ELSE wakeup1(S)[p]]
        /\ Sched(s) /\ s \notin due /\ UNCHANGED <<due, nextpid, nexttid, pgdirs>>
        /\ GotoAndForget(s, "exited", {p \in Siblings(s) : proc[p].state # "ZOMBIE"}, "exited")
    BY DEF exit, At
  <1>6. W \in SUBSET Slots /\ \A t \in W : Asleep(t)
    OBVIOUS
  <1>7. /\ proc[proc[s].main].parent \in Slots /\ Asleep(proc[proc[s].main].parent)
              /\ pc[proc[proc[s].main].parent] \in {"wait", "join"}
           => proc[proc[s].main].parent \in W
        /\ (\E t \in Abandoned(s) : proc[t].state = "ZOMBIE") /\ Asleep(InitProc)
              /\ pc[InitProc] \in {"wait", "join"} => InitProc \in W
    BY LwpAssumption DEF InitProc, Slots
  <1>8. \A t \in Slots : wakeup1(S)[t] = IF t \in W THEN [proc[t] EXCEPT !.state = "RUNNABLE"]
                                         ELSE proc[t]
    BY DEF wakeup1
  <1> HIDE DEF S, W
  <1>9. proc[proc[s].main].parent \in 0 .. NPROC /\ InitProc \in 0 .. NPROC
    BY <1>2, LwpAssumption DEF IInv, TypeOK, InitProc
  <1>10. proc \in [Slots -> Record]
    BY DEF IInv, TypeOK, Record
  <1>11. \A t \in Slots :
           proc'[t] = IF SameProcess(s, t)
                        THEN [wakeup1(S)[t] EXCEPT !.parent = proc[proc[s].main].parent,
                                                   !.state = "ZOMBIE"]
                      ELSE IF t \in Abandoned(s) THEN [wakeup1(S)[t] EXCEPT !.parent = InitProc]
                      ELSE wakeup1(S)[t]
    BY <1>3, <1>5
  <1>12. \A t \in Slots : wakeup1(S)[t] \in Record
    <2>1. ASSUME NEW r \in Record
          PROVE  [r EXCEPT !.state = "RUNNABLE"] \in Record
      BY DEF Record, States
    <2>2. \A t \in Slots : proc[t] \in Record
      BY <1>10
    <2> QED
      BY <1>8, <2>1, <2>2
  <1>13. \A t \in Slots : proc'[t] \in Record
    <2>1. ASSUME NEW r \in Record, NEW k \in 0 .. NPROC
          PROVE  /\ [r EXCEPT !.parent = k, !.state = "ZOMBIE"] \in Record
                 /\ [r EXCEPT !.parent = k] \in Record
      BY DEF Record, States
    <2>2. ASSUME NEW t \in Slots
          PROVE  proc'[t] \in Record
      <3>1. wakeup1(S)[t] \in Record
        BY <1>12
      <3>2. CASE SameProcess(s, t)
        <4>1. proc'[t] = [wakeup1(S)[t] EXCEPT !.parent = proc[proc[s].main].parent,
                                               !.state = "ZOMBIE"]
          BY <3>2, <1>11
        <4> QED
          BY <4>1, <3>1, <2>1, <1>9
      <3>3. CASE ~SameProcess(s, t) /\ t \in Abandoned(s)
        <4>1. proc'[t] = [wakeup1(S)[t] EXCEPT !.parent = InitProc]
          BY <3>3, <1>11
        <4> QED
          BY <4>1, <3>1, <2>1, <1>9
      <3>4. CASE ~SameProcess(s, t) /\ t \notin Abandoned(s)
        BY <3>1, <3>4, <1>11
      <3> QED
        BY <3>2, <3>3, <3>4
    <2> QED
      BY <2>2
  <1>14. proc' \in [Slots -> Record]
    BY <1>5, <1>13
  <1>15. \A t \in Slots :
           /\ wakeup1(S)[t].pid = proc[t].pid /\ wakeup1(S)[t].tid = proc[t].tid
           /\ wakeup1(S)[t].main = proc[t].main /\ wakeup1(S)[t].parent_pid = proc[t].parent_pid
           /\ wakeup1(S)[t].kstack = proc[t].kstack /\ wakeup1(S)[t].pgdir = proc[t].pgdir
           /\ wakeup1(S)[t].parent = proc[t].parent
           /\ wakeup1(S)[t].state = IF t \in W THEN "RUNNABLE" ELSE proc[t].state
    BY <1>8, <1>10 DEF Record
  <1>16. \A t \in Slots :
           /\ proc'[t].pid = proc[t].pid /\ proc'[t].tid = proc[t].tid
           /\ proc'[t].main = proc[t].main /\ proc'[t].parent_pid = proc[t].parent_pid
           /\ proc'[t].kstack = proc[t].kstack /\ proc'[t].pgdir = proc[t].pgdir
           /\ proc'[t].parent = IF SameProcess(s, t) THEN proc[proc[s].main].parent
                                ELSE IF t \in Abandoned(s) THEN InitProc ELSE proc[t].parent
           /\ proc'[t].state = IF SameProcess(s, t) THEN "ZOMBIE"
                               ELSE IF t \in W THEN "RUNNABLE" ELSE proc[t].state
    <2> SUFFICES ASSUME NEW t \in Slots
                 PROVE  /\ proc'[t].pid = proc[t].pid /\ proc'[t].tid = proc[t].tid
                        /\ proc'[t].main = proc[t].main /\ proc'[t].parent_pid = proc[t].parent_pid
                        /\ proc'[t].kstack = proc[t].kstack /\ proc'[t].pgdir = proc[t].pgdir
                        /\ proc'[t].parent = IF SameProcess(s, t) THEN proc[proc[s].main].parent
                                             ELSE IF t \in Abandoned(s) THEN InitProc
                                             ELSE proc[t].parent
                        /\ proc'[t].state = IF SameProcess(s, t) THEN "ZOMBIE"
                                            ELSE IF t \in W THEN "RUNNABLE" ELSE proc[t].state
      OBVIOUS
    <2>1. CASE SameProcess(s, t)
      BY <2>1, <1>11, <1>12, <1>15, ZenonT(60) DEF Record
    <2>2. CASE ~SameProcess(s, t) /\ t \in Abandoned(s)
      BY <2>2, <1>11, <1>12, <1>15, ZenonT(60) DEF Record
    <2>3. CASE ~SameProcess(s, t) /\ t \notin Abandoned(s)
      BY <2>3, <1>11, <1>15
    <2> QED
      BY <2>1, <2>2, <2>3
  <1>17. \A t \in Slots : On(t) => t = s
    BY <1>1, OneRuns
  <1>18. /\ SameProcess(s, s) /\ proc[s].state # "ZOMBIE"
         /\ \A t \in Slots : t \in {p \in Siblings(s) : proc[p].state # "ZOMBIE"}
                             <=> SameProcess(s, t) /\ proc[t].state # "ZOMBIE"
    BY <1>1, <1>3 DEF SameProcess, Live
  <1>19. \A t \in Slots :
           /\ pc'[t] = (IF SameProcess(s, t) /\ proc[t].state # "ZOMBIE" THEN "exited"
                        ELSE pc[t])
           /\ local'[t] = (IF SameProcess(s, t) /\ proc[t].state # "ZOMBIE" THEN None
                           ELSE local[t])
    BY <1>5, <1>17, <1>18 DEF GotoAndForget
  <1>20. pc' \in [Slots -> PCs] /\ local' \in [Slots -> 0 .. NPROC]
    <2>1. None \in 0 .. NPROC
      BY LwpAssumption DEF None
    <2> QED
      BY <2>1, <1>5 DEF GotoAndForget, IInv, TypeOK, PCs
  <1>21. Abandoned(s) \in SUBSET Slots
    BY DEF Abandoned
  <1>22. ExitEffect(s, proc[proc[s].main].parent, Abandoned(s), W)
    BY <1>1, <1>4, <1>5, <1>6, <1>7, <1>14, <1>16, <1>19, <1>20 DEF ExitEffect
  <1> QED
    BY <1>6, <1>9, <1>21, <1>22

\* exit takes every thread of its process along, and nobody else.
LEMMA ExitStep ==
    ASSUME IInv, NCPU = 1, NEW s \in Slots, exit(s)
    PROVE  IInv'
  <1>1. PICK parent \in 0 .. NPROC, left \in SUBSET Slots, awake \in SUBSET Slots :
             ExitEffect(s, parent, left, awake)
    BY ExitIs
  <1> USE DEF ExitEffect
  <1>2. \A t, u \in Slots : SameProcess(t, u)' <=> SameProcess(t, u)
    BY <1>1 DEF SameProcess
  <1>3. \A t \in Slots : SameProcess(s, t) => /\ Used(t) /\ proc[t].pgdir # None
                                              /\ ~Gone(t) /\ ~Live(t)' /\ Gone(t)'
    <2>1. proc[s].pid # None /\ proc[s].pgdir # None
      BY <1>1, MainShares
    <2>2. ASSUME NEW t \in Slots, SameProcess(s, t)
          PROVE  Used(t) /\ proc[t].pgdir # None
      BY <2>1, <2>2 DEF IInv, StateInv, SameProcess, Alone
    <2>3. ASSUME NEW t \in Slots, SameProcess(s, t)
          PROVE  ~Gone(t) /\ ~Live(t)' /\ Gone(t)'
      BY <2>3, <1>1, <1>2 DEF Gone, Live, SameProcess
    <2> QED
      BY <2>2, <2>3
  <1>4. \A t \in Slots : ~SameProcess(s, t) =>
                            /\ proc'[t].state = "ZOMBIE" <=> proc[t].state = "ZOMBIE"
                            /\ proc'[t].state = "EMBRYO" <=> proc[t].state = "EMBRYO"
                            /\ Live(t)' <=> Live(t)
                            /\ Gone(t) => Gone(t)'
                            /\ proc[t].tid # 0 => proc'[t].parent = proc[t].parent
                            /\ pc'[t] = pc[t] /\ local'[t] = local[t]
    <2>1. \A t \in Slots : ~SameProcess(s, t) =>
                            /\ proc'[t].state = "ZOMBIE" <=> proc[t].state = "ZOMBIE"
                            /\ proc'[t].state = "EMBRYO" <=> proc[t].state = "EMBRYO"
                            /\ Live(t)' <=> Live(t)
                            /\ proc[t].tid # 0 => proc'[t].parent = proc[t].parent
                            /\ pc'[t] = pc[t] /\ local'[t] = local[t]
      BY <1>1 DEF Asleep, Live
    <2>2. ASSUME NEW t \in Slots, ~SameProcess(s, t), Gone(t)
          PROVE  Gone(t)'
      BY <2>1, <2>2, <1>2 DEF Gone, SameProcess
    <2> QED
      BY <2>1, <2>2
  <1>5. \A t \in Slots : /\ Used(t)' <=> Used(t)
                         /\ Alone(t)' <=> Alone(t)
    BY <1>1, <1>2, <1>3 DEF Used, Alone, Asleep
  <1>6. cpu' \in [CPUs -> 0 .. NPROC] /\ \A t \in Slots : ~On(t)'
    BY <1>1, SchedIs
  <1>7. TypeOK'
    <2>1. \A t \in Slots : proc'[t].state = "UNUSED" => proc'[t].pid = None /\ proc'[t].tid = 0
      BY <1>1, <1>5 DEF IInv, TypeOK, Used
    <2> QED
      BY <1>1, <1>6, <2>1 DEF IInv, TypeOK, Record
  <1>8. StateInv'
    <2>1. \A t \in Slots : proc'[t].state = "ZOMBIE" <=> pc'[t] \in {"ended", "exited"}
      BY <1>1, <1>4 DEF IInv, StateInv
    <2>2. nextpid' = nextpid
      BY <1>1
    <2>3. \A t \in Slots : proc'[t].pid = proc[t].pid /\ proc'[t].pgdir = proc[t].pgdir
                           /\ proc'[t].kstack = proc[t].kstack
      BY <1>1
    <2> QED
      BY <1>3, <1>4, <1>5, <2>1, <2>2, <2>3 DEF IInv, StateInv
  <1>9. CpuInv'
    <2>1. due = {} /\ due' = due
      BY <1>1, OneRuns DEF IInv, CpuInv, TypeOK
    <2> QED
      BY <1>6, <2>1 DEF CpuInv
  <1>10. MainInv'
    <2>1. \A t \in Slots : /\ proc'[t].tid = proc[t].tid /\ proc'[t].main = proc[t].main
                           /\ proc'[t].pid = proc[t].pid
                           /\ proc'[t].parent_pid = proc[t].parent_pid
      BY <1>1
    <2> QED
      BY <1>2, <1>5, <2>1 DEF IInv, MainInv
  <1>11. ThreadInv'
    <2>1. \A t \in Slots : proc'[t].tid = proc[t].tid
      BY <1>1
    <2>2. \A t \in Slots : pc'[t] = "ended" => pc[t] = "ended"
      BY <1>1
    <2>3. ASSUME NEW t \in Slots, ~SameProcess(s, t), proc[t].tid # 0, ~Gone(t)
          PROVE  /\ proc'[t].parent \in Slots \ {t} /\ SameProcess(t, proc[t].parent)'
                 /\ proc'[proc'[t].parent].state # "ZOMBIE"
      <3>1. /\ proc[t].parent \in Slots \ {t} /\ SameProcess(t, proc[t].parent)
            /\ proc[proc[t].parent].state # "ZOMBIE"
        BY <2>3 DEF IInv, ThreadInv
      <3>2. ~SameProcess(s, proc[t].parent)
        BY <2>3, <3>1 DEF SameProcess
      <3> QED
        BY <2>3, <3>1, <3>2, <1>2, <1>4 DEF SameProcess
    <2>4. ASSUME NEW t \in Slots, SameProcess(s, t)
          PROVE  Gone(t)'
      BY <2>4, <1>3
    <2>5. ASSUME NEW t \in Slots, ~SameProcess(s, t), proc'[t].state = "ZOMBIE"
          PROVE  Gone(t)' \/ pc'[t] = "ended"
      BY <2>5, <1>4 DEF IInv, ThreadInv
    <2>6. \A t \in Slots : pc'[t] = "ended" => proc'[t].tid # 0
      BY <2>1, <2>2 DEF IInv, ThreadInv
    <2>7. \A t \in Slots : proc'[t].tid # 0 =>
             \/ Gone(t)'
             \/ /\ proc'[t].parent \in Slots \ {t} /\ SameProcess(t, proc[t].parent)'
                /\ proc'[proc'[t].parent].state # "ZOMBIE"
      BY <2>1, <2>3, <2>4, <1>4
    <2> QED
      BY <2>4, <2>5, <2>6, <2>7 DEF ThreadInv
  <1>12. \A t \in Slots : Live(t)' => ~SameProcess(s, t) /\ Live(t)
    BY <1>3, <1>4
  <1>13. LocalInv'
    <2>1. ASSUME NEW t \in Slots, Live(t)'
          PROVE  Placed(t, pc[t], local[t])'
      <3>1. ~SameProcess(s, t) /\ Placed(t, pc[t], local[t]) /\ pc'[t] = pc[t] /\ local'[t] = local[t]
        BY <2>1, <1>4, <1>12 DEF IInv, LocalInv
      <3>2. Unjoined(t)' = Unjoined(t)
        <4>1. ASSUME NEW u \in Slots, SameProcess(t, u), proc[u].tid > 0
              PROVE  proc'[u].parent = proc[u].parent
          <5>1. ~SameProcess(s, u)
            BY <3>1, <4>1 DEF SameProcess
          <5> QED
            BY <5>1, <4>1, <1>4
        <4>2. \A u \in Slots : proc'[u].tid = proc[u].tid
          BY <1>1
        <4> QED
          BY <4>1, <4>2, <1>2 DEF Unjoined
      <3>3. ASSUME pc[t] = "fork"
            PROVE  /\ local[t] \in Slots /\ proc'[local[t]].state = "EMBRYO"
                   /\ proc'[local[t]].pgdir = None
        BY <3>1, <3>3, <1>1, <1>3, <1>4 DEF Placed
      <3>4. ASSUME pc[t] = "create"
            PROVE  /\ local[t] \in Slots /\ proc'[local[t]].state = "EMBRYO"
                   /\ proc'[local[t]].tid # 0 /\ SameProcess(t, local[t])'
        <4>1. local[t] \in Slots /\ SameProcess(t, local[t]) /\ ~SameProcess(s, local[t])
          BY <3>1, <3>4 DEF Placed, SameProcess
        <4>2. proc[local[t]].state = "EMBRYO" /\ proc[local[t]].tid # 0
          BY <3>1, <3>4 DEF Placed
        <4> QED
          BY <3>1, <4>1, <4>2, <1>1, <1>2, <1>4 DEF SameProcess
      <3>5. ASSUME pc[t] = "join"
            PROVE  /\ local[t] \in Slots /\ proc'[local[t]].parent = t
                   /\ proc'[local[t]].tid # 0 /\ SameProcess(t, local[t])'
        <4>1. local[t] \in Slots /\ SameProcess(t, local[t]) /\ ~SameProcess(s, local[t])
          BY <3>1, <3>5 DEF Placed, SameProcess
        <4>2. proc[local[t]].parent = t /\ proc[local[t]].tid # 0
          BY <3>1, <3>5 DEF Placed
        <4> QED
          BY <3>1, <4>1, <4>2, <1>1, <1>2, <1>4 DEF SameProcess
      <3>6. proc'[t].tid = proc[t].tid
        BY <1>1
      <3> QED
        BY <3>1, <3>2, <3>3, <3>4, <3>5, <3>6, <1>5 DEF Placed, SameProcess
    <2> QED
      BY <2>1, <1>4, <1>12 DEF IInv, LocalInv, Making
  <1>14. OnePageTableEach'
    <2>1. \A t \in Slots : proc'[t].pgdir = proc[t].pgdir
      BY <1>1
    <2>2. pgdirs' = pgdirs
      BY <1>1
    <2> QED
      BY <2>1, <2>2, <1>2 DEF IInv, OnePageTableEach
  <1>15. NobodyOversleeps'
    <2>1. ASSUME NEW t \in Slots, Asleep(t)'
          PROVE  Asleep(t) /\ ~SameProcess(s, t) /\ t \notin awake
      BY <2>1, <1>1 DEF Asleep
    <2>2. ASSUME NEW t \in Slots, Asleep(t)', pc'[t] = "wait"
          PROVE  ZombieChildren(t)' = {}
      <3>1. Asleep(t) /\ t \notin awake /\ pc[t] = "wait"
        BY <2>1, <2>2, <1>4
      <3>2. ZombieChildren(t) = {}
        BY <3>1 DEF IInv, NobodyOversleeps
      <3>3. ASSUME NEW u \in Slots, proc'[u].parent = t, proc'[u].state = "ZOMBIE"
            PROVE  FALSE
        <4>1. CASE SameProcess(s, u)
          BY <4>1, <3>1, <3>3, <1>1
        <4>2. CASE ~SameProcess(s, u) /\ u \in left
          BY <4>2, <3>1, <3>3, <1>1, <1>4
        <4>3. CASE ~SameProcess(s, u) /\ u \notin left
          BY <4>3, <3>2, <3>3, <1>1, <1>4 DEF ZombieChildren
        <4> QED
          BY <4>1, <4>2, <4>3
      <3> QED
        BY <3>3 DEF ZombieChildren
    <2>3. ASSUME NEW t \in Slots, Asleep(t)', pc'[t] = "join"
          PROVE  proc'[local'[t]].state # "ZOMBIE"
      <3>1. Asleep(t) /\ pc[t] = "join" /\ local'[t] = local[t] /\ ~SameProcess(s, t)
        BY <2>1, <2>3, <1>4
      <3>2. local[t] \in Slots /\ SameProcess(t, local[t]) /\ proc[local[t]].state # "ZOMBIE"
        BY <3>1 DEF IInv, NobodyOversleeps, LocalInv, Placed, Asleep, Live
      <3>3. ~SameProcess(s, local[t])
        BY <3>1, <3>2 DEF SameProcess
      <3> QED
        BY <3>1, <3>2, <3>3, <1>4
    <2> QED
      BY <2>2, <2>3 DEF NobodyOversleeps
  <1> QED
    BY <1>7, <1>8, <1>9, <1>10, <1>11, <1>13, <1>14, <1>15 DEF IInv

-----------------------------------------------------------------------------
(* wait and thread_join *)

\* The zombies in F are freed by s, which goes on with nothing in its hands.
Frees(s, F) ==
    /\ On(s)
    /\ \A t \in F : proc[t].state = "ZOMBIE"
    /\ \A t \in Slots \ F : Used(t) => proc[t].main \notin F
    /\ \A t \in Slots \ {s} : Live(t) /\ pc[t] = "join" => local[t] \notin F
    /\ proc' \in [Slots -> Record]
    /\ \A t \in F : /\ proc'[t].state = "UNUSED" /\ proc'[t].pid = None /\ proc'[t].tid = 0
                    /\ proc'[t].pgdir = None
    /\ \A t \in Slots \ F : proc'[t] = proc[t]
    /\ pc' \in [Slots -> PCs] /\ local' \in [Slots -> 0 .. NPROC]
    /\ \A t \in Slots : /\ pc'[t] = (IF t = s \/ t \in F THEN "user" ELSE pc[t])
                        /\ local'[t] = (IF t = s \/ t \in F THEN None ELSE local[t])
    /\ pgdirs' = {proc'[t].pgdir : t \in Slots} \ {None}
    /\ UNCHANGED <<cpu, due, nextpid, nexttid>>

\* Freeing zombies that no used slot points to keeps the invariant.
LEMMA FreesStep ==
    ASSUME IInv, NEW s \in Slots, NEW F \in SUBSET Slots, Frees(s, F)
    PROVE  IInv'
  <1> USE DEF Frees
  <1>1. s \notin F /\ Live(s) /\ \A t \in F : ~On(t) /\ ~Live(t)
    BY RunnerLives DEF Live, IInv, CpuInv
  <1>2. /\ \A t, u \in Slots \ F : SameProcess(t, u)' <=> SameProcess(t, u)
        /\ \A t \in Slots \ F, u \in F : Used(t) => ~SameProcess(t, u)' /\ ~SameProcess(u, t)'
    BY DEF SameProcess, IInv, StateInv
  <1>3. /\ \A t \in F : ~Used(t)' /\ ~Live(t)' /\ ~Asleep(t)'
        /\ \A t \in Slots \ F : (Used(t)' <=> Used(t)) /\ (Live(t)' <=> Live(t))
    BY DEF Used, Live, Asleep
  <1>4. \A t \in Slots \ F : Used(t) => /\ Alone(t) => Alone(t)'
                                        /\ Gone(t) => Gone(t)'
                                        /\ Unjoined(t)' \subseteq Unjoined(t)
    BY <1>2 DEF Alone, Gone, Unjoined
  <1>5. \A t \in Slots : ZombieChildren(t)' \subseteq ZombieChildren(t)
    <2>1. \A t \in F : proc'[t].state # "ZOMBIE"
      OBVIOUS
    <2> QED
      BY <2>1 DEF ZombieChildren
  <1>6. TypeOK'
    <2>1. \A t \in Slots : proc'[t].state = "UNUSED" => proc'[t].pid = None /\ proc'[t].tid = 0
      BY DEF IInv, TypeOK
    <2>2. \A t \in Slots : proc'[t].pgdir \in 0 .. NPROC + 1
      BY DEF Record
    <2>3. pgdirs' \subseteq PageTables
      BY <2>2, LwpAssumption DEF PageTables, None
    <2> QED
      BY <2>1, <2>3 DEF IInv, TypeOK, Record
  <1>7. StateInv'
    <2>1. \A t \in F : None < nextpid'
      BY LwpAssumption DEF IInv, TypeOK, None
    <2>2. pc[s] \notin {"ended", "exited"}
      BY RunnerLives
    <2>3. \A t \in Slots : proc'[t].state = "ZOMBIE" <=> pc'[t] \in {"ended", "exited"}
      BY <1>1, <2>2 DEF IInv, StateInv, Live
    <2>4. \A t \in F : ~Used(t)' /\ proc'[t].pid = None /\ proc'[t].pgdir = None
      BY <1>3
    <2>5. \A t \in Slots \ F : /\ Used(t)' <=> proc'[t].pid # None
                               /\ proc'[t].pid < nextpid'
                               /\ Used(t)' => proc'[t].kstack
                               /\ ~Used(t)' => proc'[t].pgdir = None
                               /\ Used(t)' /\ proc'[t].pgdir = None =>
                                    proc'[t].state = "EMBRYO" /\ Alone(t)'
      BY <1>3, <1>4 DEF IInv, StateInv
    <2> QED
      BY <2>1, <2>3, <2>4, <2>5 DEF StateInv
  <1>8. CpuInv'
    BY <1>1 DEF IInv, CpuInv, On
  <1>9. MainInv'
    <2>1. ASSUME NEW t \in Slots \ F, Used(t)
          PROVE  /\ proc'[t].main \in Slots \ F
                 /\ SameProcess(t, proc[t].main)'
                 /\ proc'[proc'[t].main].tid = 0
                 /\ proc'[t].tid = 0 => proc'[t].main = t
                 /\ proc'[t].tid # 0 => proc'[t].parent_pid = proc'[t].pid
      <3>1. proc[t].main \in Slots \ F /\ SameProcess(t, proc[t].main) /\ proc'[t] = proc[t]
        BY <2>1 DEF IInv, MainInv
      <3>2. proc'[proc[t].main] = proc[proc[t].main]
        BY <3>1
      <3> QED
        BY <2>1, <3>1, <3>2, <1>2 DEF IInv, MainInv, SameProcess
    <2>2. ASSUME NEW t \in Slots, NEW u \in Slots, Used(t)', SameProcess(t, u)',
                 proc'[t].tid = 0, proc'[u].tid = 0
          PROVE  t = u
      <3>1. t \notin F /\ u \notin F
        BY <2>2, <1>2, <1>3
      <3> QED
        BY <2>2, <3>1, <1>2, <1>3 DEF IInv, MainInv
    <2> QED
      BY <2>1, <2>2, <1>3 DEF MainInv
  <1>10. ThreadInv'
    <2>1. ASSUME NEW t \in Slots, proc'[t].tid # 0
          PROVE  \/ Gone(t)'
                 \/ /\ proc'[t].parent \in Slots \ {t} /\ SameProcess(t, proc[t].parent)'
                    /\ proc'[proc'[t].parent].state # "ZOMBIE"
      <3>1. t \notin F /\ proc'[t] = proc[t]
        BY <2>1
      <3>2. Used(t)
        BY <2>1, <3>1 DEF Used, IInv, TypeOK
      <3>3. CASE Gone(t)
        BY <3>1, <3>2, <3>3, <1>4
      <3>4. CASE ~Gone(t)
        <4>1. /\ proc[t].parent \in Slots \ {t} /\ SameProcess(t, proc[t].parent)
              /\ proc[proc[t].parent].state # "ZOMBIE"
          BY <2>1, <3>1, <3>4 DEF IInv, ThreadInv
        <4>2. proc[t].parent \notin F
          BY <4>1
        <4> QED
          BY <3>1, <4>1, <4>2, <1>2 DEF SameProcess
      <3> QED
        BY <3>3, <3>4
    <2>2. ASSUME NEW t \in Slots
          PROVE  /\ proc'[t].state = "ZOMBIE" => Gone(t)' \/ pc'[t] = "ended"
                 /\ pc'[t] = "ended" => proc'[t].tid # 0
      BY <1>1, <1>4 DEF IInv, ThreadInv, Live, Used
    <2> QED
      BY <2>1, <2>2 DEF ThreadInv
  <1>11. LocalInv'
    <2>1. ASSUME NEW t \in Slots, Live(t)'
          PROVE  Placed(t, pc[t], local[t])'
      <3>1. t \notin F /\ Live(t)
        BY <2>1, <1>3
      <3>2. CASE t = s
        BY <3>2 DEF Placed
      <3>3. CASE t # s
        <4>1. Placed(t, pc[t], local[t]) /\ pc'[t] = pc[t] /\ local'[t] = local[t] /\ Used(t)
          BY <3>1, <3>3 DEF IInv, LocalInv, Live, Used
        <4>2. pc[t] \in {"fork", "create", "join"} => local[t] \in Slots \ F
          BY <3>1, <3>3, <4>1 DEF Placed
        <4> QED
          BY <3>1, <4>1, <4>2, <1>2, <1>4 DEF Placed
      <3> QED
        BY <3>2, <3>3
    <2>2. \A t \in Slots : Making(t)' => Making(t) /\ local'[t] = local[t]
      BY <1>3 DEF Making
    <2> QED
      BY <2>1, <2>2 DEF IInv, LocalInv
  <1>12. OnePageTableEach'
    BY <1>2 DEF IInv, OnePageTableEach
  <1>13. NobodyOversleeps'
    <2>1. \A t \in Slots : Asleep(t)' => t # s /\ t \notin F /\ Asleep(t) /\ pc'[t] = pc[t]
                                         /\ local'[t] = local[t]
      BY <1>3 DEF Asleep, IInv, CpuInv
    <2>2. ASSUME NEW t \in Slots, Asleep(t), pc[t] = "join"
          PROVE  local[t] \in Slots /\ proc'[local[t]].state # "ZOMBIE"
      BY <2>2 DEF Asleep, Live, IInv, LocalInv, Placed, NobodyOversleeps
    <2> QED
      BY <2>1, <2>2, <1>5 DEF IInv, NobodyOversleeps
  <1> QED
    BY <1>6, <1>7, <1>8, <1>9, <1>10, <1>11, <1>12, <1>13 DEF IInv

\* What is left of a slot that was freed.
LEMMA FreedIs ==
    ASSUME NEW r \in Record
    PROVE  /\ Freed(r) \in Record /\ Freed(r).state = "UNUSED" /\ Freed(r).pid = None
           /\ Freed(r).tid = 0 /\ Freed(r).pgdir = None
  <1>1. None \in 0 .. MaxPid /\ 0 \in 0 .. MaxTid /\ None \in 0 .. NPROC /\ None \in 0 .. NPROC + 1
    BY LwpAssumption DEF None
  <1>2. Freed(r) \in Record
    BY <1>1 DEF Freed, Record, States
  <1> QED
    BY <1>2 DEF Freed, Record

\* wait finds only processes that have exited.
LEMMA ReapsGone ==
    ASSUME IInv, NEW s \in Slots, On(s), Unjoined(s) = {}, NEW p \in ZombieChildren(s)
    PROVE  Gone(p)
  <1>1. p \in Slots /\ proc[p].parent = s /\ proc[p].state = "ZOMBIE"
    BY DEF ZombieChildren
  <1>2. p # s
    BY <1>1, RunnerLives DEF Live
  <1>3. proc[p].tid # 0 /\ SameProcess(p, s) => p \in Unjoined(s)
    BY <1>1, <1>2, LwpAssumption DEF Unjoined, SameProcess, IInv, TypeOK
  <1> QED
    BY <1>1, <1>3 DEF IInv, ThreadInv

\* wait frees a whole process, with its page table.
LEMMA ReapStep ==
    ASSUME IInv, NCPU = 1, NEW s \in Slots, On(s), Unjoined(s) = {}, Reap(s)
    PROVE  IInv'
  <1>1. PICK p \in ZombieChildren(s) :
        /\ proc' = [t \in Slots |->
             IF t \in Reaped(p) THEN [Freed(proc[t]) EXCEPT !.killed = FALSE] ELSE proc[t]]
        /\ pgdirs' = pgdirs \ {proc[p].pgdir}
        /\ GotoAndForget(s, "user", Reaped(p), "user")
        /\ UNCHANGED <<cpu, due, nextpid, nexttid>>
    <2>1. ZombieChildren(s) # {} /\ ZombieChildren(s) \in SUBSET Nat
      BY LwpAssumption DEF Reap, ZombieChildren, Slots
    <2>2. First(ZombieChildren(s)) \in ZombieChildren(s)
      BY <2>1, FirstIsLeast
    <2> QED
      BY <2>2 DEF Reap
  <1>2. p \in Slots /\ proc[p].state = "ZOMBIE" /\ Gone(p)
    BY <1>1, ReapsGone DEF ZombieChildren
  <1>3. /\ Reaped(p) = {t \in Slots : SameProcess(p, t)}
        /\ \A t \in Reaped(p) : proc[t].state = "ZOMBIE"
    BY <1>2 DEF Reaped, SameProcess, Gone
  <1> DEFINE F == {t \in Slots : SameProcess(p, t)}
  <1>4. \A t \in Slots \ F : Used(t) => proc[t].main \notin F
    BY DEF IInv, MainInv, SameProcess
  <1>5. \A t \in Slots \ {s} : Live(t) /\ pc[t] = "join" => local[t] \notin F
    BY <1>2 DEF IInv, LocalInv, Placed, SameProcess, Live, Gone
  <1>6. proc \in [Slots -> Record]
    BY DEF IInv, TypeOK, Record
  <1>7. ASSUME NEW r \in Record
        PROVE  /\ [Freed(r) EXCEPT !.killed = FALSE] \in Record
               /\ [Freed(r) EXCEPT !.killed = FALSE].state = "UNUSED"
               /\ [Freed(r) EXCEPT !.killed = FALSE].pid = None
               /\ [Freed(r) EXCEPT !.killed = FALSE].tid = 0
               /\ [Freed(r) EXCEPT !.killed = FALSE].pgdir = None
    <2>1. \A q \in Record : /\ [q EXCEPT !.killed = FALSE] \in Record
                            /\ [q EXCEPT !.killed = FALSE].state = q.state
                            /\ [q EXCEPT !.killed = FALSE].pid = q.pid
                            /\ [q EXCEPT !.killed = FALSE].tid = q.tid
                            /\ [q EXCEPT !.killed = FALSE].pgdir = q.pgdir
      BY DEF Record
    <2> QED
      BY <2>1, FreedIs
  <1>8. proc' \in [Slots -> Record]
    BY <1>1, <1>6, <1>7
  <1>9. /\ \A t \in F : /\ proc'[t].state = "UNUSED" /\ proc'[t].pid = None /\ proc'[t].tid = 0
                        /\ proc'[t].pgdir = None
        /\ \A t \in Slots \ F : proc'[t] = proc[t]
    BY <1>1, <1>3, <1>6, <1>7
  <1>10. \A t \in Slots : On(t) => t = s
    BY OneRuns
  <1>11. s \notin F
    BY <1>2, RunnerLives DEF Live, Gone
  <1>12. \A t \in Slots : /\ pc'[t] = (IF t = s \/ t \in F THEN "user" ELSE pc[t])
                          /\ local'[t] = (IF t = s \/ t \in F THEN None ELSE local[t])
    BY <1>1, <1>3, <1>10, <1>11 DEF GotoAndForget
  <1>13. pc' \in [Slots -> PCs] /\ local' \in [Slots -> 0 .. NPROC]
    <2>1. None \in 0 .. NPROC
      BY LwpAssumption DEF None
    <2> QED
      BY <2>1, <1>1 DEF GotoAndForget, IInv, TypeOK, PCs
  <1>14. pgdirs' = {proc'[t].pgdir : t \in Slots} \ {None}
    <2>1. proc[p].pgdir # None
      BY <1>2 DEF IInv, StateInv, Used
    <2>2. \A t \in Slots : proc[t].pgdir = proc[p].pgdir <=> t \in F
      <3>1. \A t \in F : proc[t].pgdir # None
        BY <1>3 DEF IInv, StateInv, Used
      <3>2. ASSUME NEW t \in Slots, proc[t].pgdir = proc[p].pgdir
            PROVE  SameProcess(p, t)
        BY <2>1, <3>2, <1>2 DEF IInv, OnePageTableEach
      <3>3. ASSUME NEW t \in F
            PROVE  proc[t].pgdir = proc[p].pgdir
        BY <2>1, <3>1, <1>2 DEF IInv, OnePageTableEach
      <3> QED
        BY <3>2, <3>3
    <2>3. \A t \in Slots : proc'[t].pgdir = IF t \in F THEN None ELSE proc[t].pgdir
      BY <1>9
    <2>4. pgdirs = {proc[t].pgdir : t \in Slots} \ {None}
      BY DEF IInv, OnePageTableEach
    <2> HIDE DEF F
    <2> QED
      BY <2>1, <2>2, <2>3, <2>4, <1>1
  <1>15. Frees(s, F)
    <2> HIDE DEF F
    <2> QED
      BY <1>1, <1>3, <1>4, <1>5, <1>8, <1>9, <1>12, <1>13, <1>14 DEF Frees, F
  <1> QED
    BY <1>15, FreesStep

\* wait, whichever of its ends it takes.
LEMMA WaitStep ==
    ASSUME IInv, Disciplined, NEW s \in Slots, wait(s)
    PROVE  IInv'
  <1>1. On(s) /\ s \notin due /\ Unjoined(s) = {} /\ WaitLoop(s)
    BY RunnerLives DEF wait, Syscall, At, Disciplined, IInv, LocalInv, Placed
  <1>2. CASE Reap(s)
    BY <1>1, <1>2, ReapStep DEF Disciplined
  <1>3. CASE Return(s)
    BY <1>1, <1>3, ReturnStep
  <1>4. CASE ZombieChildren(s) = {} /\ SleepIn(s, "wait") /\ UNCHANGED local
    <2>1. local' = [local EXCEPT ![s] = local[s]] /\ local[s] \in 0 .. NPROC
      BY <1>4 DEF IInv, TypeOK
    <2>2. Placed(s, "wait", local[s]) /\ Restful(s, "wait", local[s])
      BY <1>1, <1>4 DEF Placed, Restful
    <2> QED
      BY <1>1, <1>4, <2>1, <2>2, SleepStep DEF Disciplined
  <1> QED
    BY <1>1, <1>2, <1>3, <1>4 DEF WaitLoop

\* What is joined is a thread of the caller's, created by it.
LEMMA JoinIs ==
    ASSUME IInv, Tidy, NEW s \in Slots, thread_join(s)
    PROVE  /\ On(s) /\ s \notin due
           /\ \E k \in Slots : /\ proc[k].tid # 0 /\ SameProcess(s, k) /\ proc[k].parent = s
                               /\ JoinLoop(s, k)
  <1>1. On(s) /\ s \notin due
    BY DEF thread_join, Syscall, At
  <1>2. CASE At(s, "join") /\ JoinLoop(s, local[s])
    BY <1>1, <1>2, RunnerLives DEF At, IInv, LocalInv, Placed
  <1>3. CASE \E t \in Slots \ {s} : /\ proc[t].tid > 0 /\ SameProcess(s, t)
                                    /\ Tidy => proc[t].parent = s
                                    /\ JoinLoop(s, t)
    BY <1>1, <1>3 DEF IInv, TypeOK
  <1> QED
    BY <1>1, <1>2, <1>3 DEF thread_join

\* thread_join frees one thread and leaves the page table to the others.
LEMMA JoinStep ==
    ASSUME IInv, Disciplined, NEW s \in Slots, thread_join(s)
    PROVE  IInv'
  <1>1. PICK k \in Slots : /\ On(s) /\ s \notin due
                           /\ proc[k].tid # 0 /\ SameProcess(s, k) /\ proc[k].parent = s
                           /\ JoinLoop(s, k)
    BY JoinIs DEF Disciplined
  <1>2. CASE /\ proc[k].state = "ZOMBIE"
             /\ proc' = [proc EXCEPT ![k] = Freed(@)]
             /\ GotoAndForget(s, "user", {k}, "user")
             /\ UNCHANGED <<cpu, due, nextpid, nexttid, pgdirs>>
    <2>1. Live(s) /\ s # k /\ \A t \in Slots : On(t) => t = s
      BY <1>1, <1>2, RunnerLives, OneRuns DEF Live, Disciplined
    <2>2. \A t \in Slots \ {k} : Used(t) => proc[t].main # k
      BY <1>1 DEF IInv, MainInv
    <2>3. \A t \in Slots \ {s} : Live(t) /\ pc[t] = "join" => local[t] # k
      BY <1>1 DEF IInv, LocalInv, Placed
    <2>4. proc \in [Slots -> Record]
      BY DEF IInv, TypeOK, Record
    <2>6. /\ proc' \in [Slots -> Record]
          /\ proc'[k].state = "UNUSED" /\ proc'[k].pid = None /\ proc'[k].tid = 0
          /\ proc'[k].pgdir = None
          /\ \A t \in Slots \ {k} : proc'[t] = proc[t]
      BY <1>2, <2>4, FreedIs
    <2>7. \A t \in Slots : /\ pc'[t] = (IF t = s \/ t \in {k} THEN "user" ELSE pc[t])
                           /\ local'[t] = (IF t = s \/ t \in {k} THEN None ELSE local[t])
      BY <1>2, <2>1 DEF GotoAndForget
    <2>8. pc' \in [Slots -> PCs] /\ local' \in [Slots -> 0 .. NPROC]
      <3>1. None \in 0 .. NPROC
        BY LwpAssumption DEF None
      <3> QED
        BY <3>1, <1>2 DEF GotoAndForget, IInv, TypeOK, PCs
    <2>9. pgdirs' = {proc'[t].pgdir : t \in Slots} \ {None}
      <3>1. proc[s].pgdir # None /\ proc[k].pgdir = proc[s].pgdir
        BY <1>1, <1>2, <2>1, MainShares DEF IInv, StateInv, Used, OnePageTableEach
      <3>2. \A t \in Slots : proc'[t].pgdir = IF t = k THEN None ELSE proc[t].pgdir
        BY <2>6
      <3>3. pgdirs' = {proc[t].pgdir : t \in Slots} \ {None}
        BY <1>2 DEF IInv, OnePageTableEach
      <3> QED
        BY <3>1, <3>2, <3>3, <2>1
    <2>10. Frees(s, {k})
      BY <1>1, <1>2, <2>2, <2>3, <2>6, <2>7, <2>8, <2>9 DEF Frees
    <2> QED
      BY <2>10, FreesStep
  <1>3. CASE Return(s)
    BY <1>1, <1>3, ReturnStep
  <1>4. CASE proc[k].state # "ZOMBIE" /\ SleepIn(s, "join") /\ local' = [local EXCEPT ![s] = k]
    <2>1. Placed(s, "join", k) /\ Restful(s, "join", k)
      BY <1>1, <1>4 DEF Placed, Restful
    <2>2. k \in 0 .. NPROC
      BY LwpAssumption DEF Slots
    <2> QED
      BY <1>1, <1>4, <2>1, <2>2, SleepStep DEF Disciplined
  <1> QED
    BY <1>1, <1>2, <1>3, <1>4 DEF JoinLoop

-----------------------------------------------------------------------------
(* exec *)

\* What thread_remove does: s is the only slot of its process, and its main.
ExecEffect(s, F) ==
    /\ On(s) /\ Live(s) /\ pc[s] = "user"
    /\ F = {t \in Slots \ {s} : SameProcess(s, t)}
    /\ proc' \in [Slots -> Record]
    /\ \A t \in F : /\ proc'[t].state = "UNUSED" /\ proc'[t].pid = None /\ proc'[t].tid = 0
                    /\ proc'[t].pgdir = None
    /\ \A t \in Slots \ (F \union {s}) : proc'[t] = proc[t]
    /\ proc'[s].state = proc[s].state /\ proc'[s].pid = proc[s].pid
    /\ proc'[s].tid = 0 /\ proc'[s].main = s
    /\ proc'[s].kstack = proc[s].kstack /\ proc'[s].pgdir = proc[s].pgdir
    /\ pc' \in [Slots -> PCs] /\ local' \in [Slots -> 0 .. NPROC]
    /\ \A t \in Slots : /\ pc'[t] = (IF t = s THEN "exec" ELSE IF t \in F THEN "user" ELSE pc[t])
                        /\ local'[t] = (IF t = s \/ t \in F THEN None ELSE local[t])
    /\ UNCHANGED <<cpu, due, nextpid, nexttid, pgdirs>>

\* exec has that effect up to the point where it loads the program.
LEMMA ExecIs ==
    ASSUME IInv, NCPU = 1, NEW s \in Slots, exec(s)
    PROVE  ExecEffect(s, {t \in Slots \ {s} : SameProcess(s, t)})
  <1> DEFINE F == {t \in Slots \ {s} : SameProcess(s, t)}
  <1>1. On(s) /\ Live(s) /\ pc[s] = "user"
    BY RunnerLives DEF exec, Syscall, At
  <1>2. Removed(s) = F
    BY DEF Removed, SameProcess
  <1>3. \A t \in F : ~On(t)
    BY <1>1, OneRuns
  <1>4. /\ proc' = thread_remove(s) /\ GotoAndForget(s, "exec", F, "user")
        /\ UNCHANGED <<cpu, due, nextpid, nexttid, pgdirs>>
    BY <1>2 DEF exec
  <1>5. \A t \in Slots : /\ pc'[t] = (IF t = s THEN "exec" ELSE IF t \in F THEN "user" ELSE pc[t])
                         /\ local'[t] = (IF t = s \/ t \in F THEN None ELSE local[t])
    BY <1>3, <1>4 DEF GotoAndForget
  <1>6. pc' \in [Slots -> PCs] /\ local' \in [Slots -> 0 .. NPROC]
    <2>1. None \in 0 .. NPROC
      BY LwpAssumption DEF None
    <2> QED
      BY <2>1, <1>4 DEF GotoAndForget, IInv, TypeOK, PCs
  <1>7. proc \in [Slots -> Record]
    BY DEF IInv, TypeOK, Record
  <1> DEFINE up == IF proc[s].main = s THEN proc[s].parent ELSE proc[proc[s].main].parent
             r == [proc[s] EXCEPT !.tid = 0, !.main = s, !.parent = up]
  <1>8. up \in 0 .. NPROC /\ s \in 0 .. NPROC /\ 0 \in 0 .. MaxTid
    <2>1. proc[s].main \in Slots
      BY <1>1, MainShares
    <2>2. proc[s].parent \in 0 .. NPROC /\ proc[proc[s].main].parent \in 0 .. NPROC
      BY <2>1, <1>7 DEF Record
    <2>3. s \in 0 .. NPROC /\ 0 \in 0 .. MaxTid
      BY LwpAssumption DEF Slots
    <2> QED
      BY <2>2, <2>3
  <1>9. proc' = [p \in Slots |-> IF p = s THEN r ELSE IF p \in F THEN Freed(proc[p]) ELSE proc[p]]
    <2>1. r = [proc[s] EXCEPT !.tid = 0, !.main = s,
                              !.parent = IF proc[s].main = s THEN @ ELSE proc[proc[s].main].parent]
      BY <1>7 DEF Record
    <2> QED
      BY <1>2, <1>4, <2>1 DEF thread_remove
  <1>10. /\ r \in Record /\ r.state = proc[s].state /\ r.pid = proc[s].pid /\ r.tid = 0
         /\ r.main = s /\ r.kstack = proc[s].kstack /\ r.pgdir = proc[s].pgdir
    <2> HIDE DEF up
    <2> QED
      BY <1>7, <1>8 DEF Record
  <1> HIDE DEF r, F
  <1>11. proc' \in [Slots -> Record]
    BY <1>7, <1>9, <1>10, FreedIs
  <1>12. \A t \in F : /\ proc'[t].state = "UNUSED" /\ proc'[t].pid = None /\ proc'[t].tid = 0
                      /\ proc'[t].pgdir = None
    <2>1. F \subseteq Slots \ {s}
      BY DEF F
    <2> QED
      BY <2>1, <1>7, <1>9, FreedIs
  <1>13. proc'[s] = r /\ \A t \in Slots \ (F \union {s}) : proc'[t] = proc[t]
    BY <1>9
  <1>14. F = {t \in Slots \ {s} : SameProcess(s, t)}
    BY DEF F
  <1>15. ExecEffect(s, F)
    BY <1>1, <1>4, <1>5, <1>6, <1>10, <1>11, <1>12, <1>13, <1>14 DEF ExecEffect
  <1> QED
    BY <1>14, <1>15

\* thread_remove frees threads that do not run, and leaves their page table to s.
LEMMA ExecStep ==
    ASSUME IInv, NCPU = 1, NEW s \in Slots, exec(s)
    PROVE  IInv'
  <1>1. PICK F \in SUBSET Slots : ExecEffect(s, F)
    BY ExecIs
  <1> USE <1>1 DEF ExecEffect
  <1>2. /\ s \notin F /\ Used(s) /\ \A t \in F : ~On(t) /\ Used(t)
        /\ \A t \in Slots \ F : SameProcess(s, t) => t = s
    BY OneRuns DEF Used, Live, IInv, StateInv, SameProcess
  <1>3. /\ \A t, u \in Slots \ F : SameProcess(t, u)' <=> SameProcess(t, u)
        /\ \A t \in Slots \ F, u \in F : Used(t) => ~SameProcess(t, u)' /\ ~SameProcess(u, t)'
        /\ \A t \in Slots \ (F \union {s}), u \in F \union {s} :
             ~SameProcess(t, u) /\ ~SameProcess(u, t)
    BY <1>2 DEF SameProcess, IInv, StateInv
  <1>4. /\ \A t \in F : ~Used(t)' /\ ~Live(t)' /\ ~Asleep(t)'
        /\ \A t \in Slots \ F : (Used(t)' <=> Used(t)) /\ (Live(t)' <=> Live(t))
    BY <1>2 DEF Used, Live, Asleep
  <1>5. \A t \in Slots \ F : Used(t) => /\ Alone(t) => Alone(t)'
                                        /\ Gone(t) => Gone(t)'
                                        /\ Unjoined(t)' \subseteq Unjoined(t)
    <2>1. ASSUME NEW t \in Slots \ F, Used(t), Alone(t)
          PROVE  Alone(t)'
      BY <1>3, <2>1 DEF Alone
    <2>2. ASSUME NEW t \in Slots \ F, Used(t), Gone(t)
          PROVE  Gone(t)'
      BY <1>3, <2>2 DEF Gone
    <2>3. ASSUME NEW t \in Slots \ F, Used(t), NEW u \in Unjoined(t)'
          PROVE  u \in Unjoined(t)
      <3>1. u \in Slots \ {t} /\ SameProcess(t, u)' /\ proc'[u].parent = t /\ proc'[u].tid > 0
        BY DEF Unjoined
      <3>2. u \notin F /\ u # s
        BY <2>3, <3>1, <1>2
      <3> QED
        BY <2>3, <3>1, <3>2, <1>3 DEF Unjoined
    <2> QED
      BY <2>1, <2>2, <2>3
  <1>6. Alone(s)'
    BY <1>2, <1>3 DEF Alone
  <1>7. \A t \in Slots : ZombieChildren(t)' \subseteq ZombieChildren(t)
    <2>1. \A t \in F \union {s} : proc'[t].state # "ZOMBIE"
      BY DEF Live
    <2> QED
      BY <2>1 DEF ZombieChildren
  <1>8. TypeOK'
    <2>1. \A t \in Slots : proc'[t].state = "UNUSED" => proc'[t].pid = None /\ proc'[t].tid = 0
      BY DEF IInv, TypeOK, Live
    <2> QED
      BY <2>1 DEF IInv, TypeOK, Record
  <1>9. StateInv'
    <2>1. None < nextpid'
      BY LwpAssumption DEF IInv, TypeOK, None
    <2>2. pc[s] \notin {"ended", "exited"} /\ proc[s].state # "ZOMBIE"
      BY DEF Live
    <2>3. \A t \in Slots : proc'[t].state = "ZOMBIE" <=> pc'[t] \in {"ended", "exited"}
      BY <2>2 DEF IInv, StateInv
    <2>4. \A t \in F : ~Used(t)' /\ proc'[t].pid = None /\ proc'[t].pgdir = None
      BY <1>4
    <2>5. \A t \in Slots \ F : /\ Used(t)' <=> proc'[t].pid # None
                               /\ proc'[t].pid < nextpid'
                               /\ Used(t)' => proc'[t].kstack
                               /\ ~Used(t)' => proc'[t].pgdir = None
      BY <1>4 DEF IInv, StateInv
    <2>6. \A t \in Slots \ F : Used(t)' /\ proc'[t].pgdir = None =>
                                    proc'[t].state = "EMBRYO" /\ Alone(t)'
      BY <1>4, <1>5 DEF IInv, StateInv
    <2> QED
      BY <2>1, <2>3, <2>4, <2>5, <2>6 DEF StateInv
  <1>10. CpuInv'
    BY <1>2 DEF IInv, CpuInv, On
  <1>11. MainInv'
    <2>1. ASSUME NEW t \in Slots \ (F \union {s}), Used(t)
          PROVE  /\ proc'[t].main \in Slots
                 /\ SameProcess(t, proc[t].main)'
                 /\ proc'[proc'[t].main].tid = 0
                 /\ proc'[t].tid = 0 => proc'[t].main = t
                 /\ proc'[t].tid # 0 => proc'[t].parent_pid = proc'[t].pid
      <3>1. proc[t].main \in Slots /\ SameProcess(t, proc[t].main) /\ proc'[t] = proc[t]
        BY <2>1 DEF IInv, MainInv
      <3>2. proc[t].main \notin F \union {s}
        BY <3>1, <1>3
      <3>3. proc'[proc[t].main] = proc[proc[t].main]
        BY <3>1, <3>2
      <3> QED
        BY <2>1, <3>1, <3>3 DEF IInv, MainInv, SameProcess
    <2>2. ASSUME NEW t \in Slots, NEW u \in Slots, Used(t)', SameProcess(t, u)',
                 proc'[t].tid = 0, proc'[u].tid = 0
          PROVE  t = u
      <3>1. t \notin F /\ u \notin F
        BY <2>2, <1>3, <1>4
      <3>2. CASE t = s \/ u = s
        BY <2>2, <3>1, <3>2, <1>2, <1>3 DEF SameProcess
      <3>3. CASE t # s /\ u # s
        BY <2>2, <3>1, <3>3, <1>3, <1>4 DEF IInv, MainInv
      <3> QED
        BY <3>2, <3>3
    <2>3. /\ proc'[s].main = s /\ proc'[s].tid = 0 /\ SameProcess(s, s)'
      BY DEF SameProcess
    <2> QED
      BY <2>1, <2>2, <2>3, <1>4 DEF MainInv
  <1>12. ThreadInv'
    <2>1. ASSUME NEW t \in Slots, proc'[t].tid # 0
          PROVE  \/ Gone(t)'
                 \/ /\ proc'[t].parent \in Slots \ {t} /\ SameProcess(t, proc[t].parent)'
                    /\ proc'[proc'[t].parent].state # "ZOMBIE"
      <3>1. t \notin F \union {s} /\ proc'[t] = proc[t]
        BY <2>1
      <3>2. Used(t)
        BY <2>1, <3>1 DEF Used, IInv, TypeOK
      <3>3. CASE Gone(t)
        BY <3>1, <3>2, <3>3, <1>5
      <3>4. CASE ~Gone(t)
        <4>1. /\ proc[t].parent \in Slots \ {t} /\ SameProcess(t, proc[t].parent)
              /\ proc[proc[t].parent].state # "ZOMBIE"
          BY <2>1, <3>1, <3>4 DEF IInv, ThreadInv
        <4>2. proc[t].parent \notin F \union {s}
          BY <3>1, <4>1, <1>3
        <4> QED
          BY <3>1, <4>1, <4>2 DEF SameProcess
      <3> QED
        BY <3>3, <3>4
    <2>2. ASSUME NEW t \in Slots
          PROVE  /\ proc'[t].state = "ZOMBIE" => Gone(t)' \/ pc'[t] = "ended"
                 /\ pc'[t] = "ended" => proc'[t].tid # 0
      <3>1. CASE t \in F \union {s}
        BY <3>1 DEF Live
      <3>2. CASE t \notin F \union {s}
        BY <3>2, <1>5 DEF IInv, ThreadInv, Used
      <3> QED
        BY <3>1, <3>2
    <2> QED
      BY <2>1, <2>2 DEF ThreadInv
  <1>13. LocalInv'
    <2>1. ASSUME NEW t \in Slots, Live(t)'
          PROVE  Placed(t, pc[t], local[t])'
      <3>1. t \notin F /\ Live(t)
        BY <2>1, <1>4
      <3>2. CASE t = s
        BY <3>2, <1>6 DEF Placed
      <3>3. CASE t # s
        <4>1. Placed(t, pc[t], local[t]) /\ pc'[t] = pc[t] /\ local'[t] = local[t] /\ Used(t)
          BY <3>1, <3>3 DEF IInv, LocalInv, Live, Used
        <4>2. pc[t] \in {"create", "join"} => local[t] \in Slots \ (F \union {s})
          BY <3>1, <3>3, <4>1, <1>3 DEF Placed
        <4>3. pc[t] = "fork" => local[t] \in Slots \ (F \union {s})
          <5>1. ASSUME NEW k \in F, proc[k].state = "EMBRYO", proc[k].pgdir = None
                PROVE  FALSE
            BY <5>1, <1>2 DEF IInv, StateInv, Alone, SameProcess
          <5> QED
            BY <4>1, <5>1 DEF Placed, Live
        <4> QED
          BY <3>1, <3>3, <4>1, <4>2, <4>3, <1>3, <1>5 DEF Placed
      <3> QED
        BY <3>2, <3>3
    <2>2. \A t \in Slots : Making(t)' => Making(t) /\ local'[t] = local[t]
      BY <1>4 DEF Making
    <2> QED
      BY <2>1, <2>2 DEF IInv, LocalInv
  <1>14. OnePageTableEach'
    <2>1. proc[s].pgdir # None
      BY MainShares
    <2>2. \A t \in F : proc[t].pgdir = proc[s].pgdir
      <3>1. ASSUME NEW t \in F
            PROVE  proc[t].pgdir # None
        BY <1>2 DEF IInv, StateInv, Alone, SameProcess
      <3> QED
        BY <2>1, <3>1 DEF IInv, OnePageTableEach
    <2>3. \A t \in Slots : proc'[t].pgdir = IF t \in F THEN None ELSE proc[t].pgdir
      OBVIOUS
    <2>4. pgdirs' = {proc'[t].pgdir : t \in Slots} \ {None}
      <3>1. pgdirs' = {proc[t].pgdir : t \in Slots} \ {None}
        BY DEF IInv, OnePageTableEach
      <3> QED
        BY <3>1, <2>1, <2>2, <2>3, <1>2
    <2>5. ASSUME NEW t \in Slots, NEW u \in Slots, proc'[t].pgdir # None, proc'[u].pgdir # None
          PROVE  proc'[t].pgdir = proc'[u].pgdir <=> SameProcess(t, u)'
      <3>1. t \notin F /\ u \notin F
        BY <2>5
      <3> QED
        BY <2>3, <2>5, <3>1, <1>3 DEF IInv, OnePageTableEach
    <2> QED
      BY <2>4, <2>5 DEF OnePageTableEach
  <1>15. NobodyOversleeps'
    <2>1. \A t \in Slots : Asleep(t)' => t # s /\ t \notin F /\ Asleep(t) /\ pc'[t] = pc[t]
                                         /\ local'[t] = local[t]
      BY <1>4 DEF Asleep, IInv, CpuInv
    <2>2. ASSUME NEW t \in Slots \ (F \union {s}), Asleep(t), pc[t] = "join"
          PROVE  local[t] \in Slots /\ proc'[local[t]].state # "ZOMBIE"
      BY <2>2, <1>3 DEF Asleep, Live, IInv, LocalInv, Placed, NobodyOversleeps
    <2> QED
      BY <2>1, <2>2, <1>7 DEF IInv, NobodyOversleeps
  <1> QED
    BY <1>8, <1>9, <1>10, <1>11, <1>12, <1>13, <1>14, <1>15 DEF IInv

\* exec frees the old page table, which is nobody else's, and takes a new one.
LEMMA ExecCommitStep ==
    ASSUME IInv, NEW s \in Slots, ExecCommit(s)
    PROVE  IInv'
  <1>1. PICK d \in PageTables : d \notin pgdirs /\ d # None /\ d = FreshPageTable
    BY PageTableFound DEF IInv
  <1>2. /\ On(s) /\ s \notin due /\ Live(s) /\ Alone(s) /\ pc[s] = "exec"
        /\ proc' = [proc EXCEPT ![s].pgdir = d, ![s].state = "RUNNABLE"]
        /\ pgdirs' = (pgdirs \ {proc[s].pgdir}) \union {d}
        /\ pc' = [pc EXCEPT ![s] = "user"]
        /\ UNCHANGED <<cpu, due, local, nextpid, nexttid>>
    BY <1>1, RunnerLives DEF ExecCommit, At, Goto, IInv, LocalInv, Placed
  <1>3. proc \in [Slots -> Record]
    BY DEF IInv, TypeOK, Record
  <1>4. /\ proc' \in [Slots -> Record]
        /\ proc'[s].state = "RUNNABLE" /\ proc'[s].pgdir = d
        /\ proc'[s].pid = proc[s].pid /\ proc'[s].tid = proc[s].tid
        /\ proc'[s].main = proc[s].main /\ proc'[s].parent = proc[s].parent
        /\ proc'[s].parent_pid = proc[s].parent_pid /\ proc'[s].kstack = proc[s].kstack
        /\ \A t \in Slots \ {s} : proc'[t] = proc[t]
    <2>1. d \in 0 .. NPROC + 1 /\ "RUNNABLE" \in States
      BY LwpAssumption DEF PageTables, States
    <2> DEFINE r == [proc[s] EXCEPT !.pgdir = d, !.state = "RUNNABLE"]
    <2>2. r \in Record /\ r.state = "RUNNABLE" /\ r.pgdir = d
          /\ r.pid = proc[s].pid /\ r.tid = proc[s].tid
          /\ r.main = proc[s].main /\ r.parent = proc[s].parent
          /\ r.parent_pid = proc[s].parent_pid /\ r.kstack = proc[s].kstack
      BY <2>1, <1>3 DEF Record
    <2>3. proc' = [proc EXCEPT ![s] = r]
      BY <1>2, <1>3
    <2> HIDE DEF r
    <2> QED
      BY <2>2, <2>3, <1>3
  <1>5. \A t \in Slots : pc'[t] = IF t = s THEN "user" ELSE pc[t]
    BY <1>2 DEF IInv, TypeOK
  <1>6. \A t, u \in Slots : SameProcess(t, u)' <=> SameProcess(t, u)
    BY <1>4 DEF SameProcess
  <1>7. \A t \in Slots : /\ Used(t)' <=> Used(t)
                         /\ Live(t)' <=> Live(t)
                         /\ Alone(t)' <=> Alone(t)
                         /\ proc'[t].state = "ZOMBIE" <=> proc[t].state = "ZOMBIE"
    BY <1>2, <1>4, <1>6 DEF Used, Live, Alone
  <1>8. \A t \in Slots : /\ Gone(t)' <=> Gone(t)
                         /\ Unjoined(t)' = Unjoined(t)
                         /\ ZombieChildren(t)' = ZombieChildren(t)
    BY <1>4, <1>6, <1>7 DEF Gone, Unjoined, ZombieChildren
  <1>9. \A t \in Slots \ {s} : ~SameProcess(s, t) /\ ~SameProcess(t, s)
    BY <1>2 DEF Alone, SameProcess
  <1>10. proc[s].pgdir # None /\ proc[s].pgdir # d
         /\ \A t \in Slots \ {s} : proc[t].pgdir # proc[s].pgdir /\ proc[t].pgdir # d
    <2>1. proc[s].pgdir # None
      BY <1>2, MainShares
    <2>2. \A t \in Slots : proc[t].pgdir # None => proc[t].pgdir \in pgdirs
      BY DEF IInv, OnePageTableEach
    <2> QED
      BY <2>1, <2>2, <1>1, <1>9 DEF IInv, OnePageTableEach
  <1>11. TypeOK'
    <2>1. \A t \in Slots : proc'[t].state = "UNUSED" => proc'[t].pid = None /\ proc'[t].tid = 0
      BY <1>4 DEF IInv, TypeOK
    <2>2. pc' \in [Slots -> PCs] /\ pgdirs' \subseteq PageTables
      BY <1>1, <1>2 DEF IInv, TypeOK, PCs
    <2> QED
      BY <2>1, <2>2, <1>2, <1>4 DEF IInv, TypeOK, Record
  <1>12. StateInv'
    <2>1. \A t \in Slots : proc'[t].state = "ZOMBIE" <=> pc'[t] \in {"ended", "exited"}
      <3>1. \A t \in Slots : proc'[t].state = "ZOMBIE" <=> pc[t] \in {"ended", "exited"}
        BY <1>7 DEF IInv, StateInv
      <3> QED
        BY <3>1, <1>2, <1>4, <1>5
    <2> QED
      BY <2>1, <1>1, <1>2, <1>4, <1>7 DEF IInv, StateInv, Used
  <1>13. CpuInv'
    BY <1>2, <1>4 DEF IInv, CpuInv, On
  <1>14. MainInv'
    BY <1>4, <1>6, <1>7 DEF IInv, MainInv
  <1>15. ThreadInv'
    BY <1>2, <1>4, <1>5, <1>6, <1>7, <1>8 DEF IInv, ThreadInv
  <1>16. LocalInv'
    <2>1. ASSUME NEW t \in Slots, Live(t)'
          PROVE  Placed(t, pc[t], local[t])'
      <3>1. CASE t = s
        BY <3>1, <1>5 DEF Placed
      <3>2. CASE t # s
        <4>1. Placed(t, pc[t], local[t]) /\ pc'[t] = pc[t] /\ local'[t] = local[t]
          BY <2>1, <3>2, <1>2, <1>5, <1>7 DEF IInv, LocalInv
        <4>2. pc[t] \in {"fork", "create", "join"} => local[t] \in Slots \ {s}
          BY <3>2, <4>1, <1>2, <1>9 DEF Placed, Live
        <4> QED
          BY <3>2, <4>1, <4>2, <1>4, <1>6, <1>7, <1>8 DEF Placed
      <3> QED
        BY <3>1, <3>2
    <2>2. \A t \in Slots : Making(t)' => Making(t) /\ local'[t] = local[t]
      BY <1>2, <1>5, <1>7 DEF Making
    <2> QED
      BY <2>1, <2>2 DEF IInv, LocalInv
  <1>17. OnePageTableEach'
    <2>1. \A t \in Slots : proc'[t].pgdir = IF t = s THEN d ELSE proc[t].pgdir
      BY <1>4
    <2>2. pgdirs = {proc[t].pgdir : t \in Slots} \ {None}
      BY DEF IInv, OnePageTableEach
    <2>3. \A x : x \in pgdirs' <=> x = d \/ (x \in pgdirs /\ x # proc[s].pgdir)
      BY <1>2
    <2>4. pgdirs' = {proc'[t].pgdir : t \in Slots} \ {None}
      <3>1. ASSUME NEW x \in pgdirs'
            PROVE  x # None /\ \E t \in Slots : proc'[t].pgdir = x
        <4>1. CASE x = d
          BY <4>1, <2>1, <1>1
        <4>2. CASE x \in pgdirs /\ x # proc[s].pgdir
          BY <4>2, <2>1, <2>2
        <4> QED
          BY <4>1, <4>2, <2>3
      <3>2. ASSUME NEW t \in Slots, proc'[t].pgdir # None
            PROVE  proc'[t].pgdir \in pgdirs'
        <4>1. CASE t = s
          BY <4>1, <2>1, <2>3
        <4>2. CASE t # s
          <5>1. proc[t].pgdir # None /\ proc[t].pgdir # proc[s].pgdir
            BY <3>2, <4>2, <2>1, <1>10
          <5>2. proc[t].pgdir \in pgdirs
            BY <5>1, <2>2
          <5> QED
            BY <4>2, <5>1, <5>2, <2>1, <2>3
        <4> QED
          BY <4>1, <4>2
      <3> QED
        BY <3>1, <3>2
    <2>5. \A t, u \in Slots : proc'[t].pgdir # None /\ proc'[u].pgdir # None =>
            (proc'[t].pgdir = proc'[u].pgdir <=> SameProcess(t, u)')
      BY <2>1, <1>6, <1>9, <1>10 DEF IInv, OnePageTableEach, SameProcess
    <2> QED
      BY <2>4, <2>5 DEF OnePageTableEach
  <1>18. NobodyOversleeps'
    <2>1. \A t \in Slots : Asleep(t)' => Asleep(t) /\ Live(t) /\ pc'[t] = pc[t]
                                         /\ local'[t] = local[t]
      BY <1>2, <1>4, <1>5 DEF Asleep, Live
    <2>2. \A t \in Slots : Live(t) /\ pc[t] = "join" => local[t] \in Slots
      BY DEF IInv, LocalInv, Placed
    <2> QED
      BY <2>1, <2>2, <1>7, <1>8 DEF IInv, NobodyOversleeps
  <1> QED
    BY <1>11, <1>12, <1>13, <1>14, <1>15, <1>16, <1>17, <1>18 DEF IInv

-----------------------------------------------------------------------------
(* The invariant *)

\* userinit makes the only slot in use.
LEMMA InitInv ==
    ASSUME Init
    PROVE  IInv
  <1>1. NPROC \in Nat \ {0} /\ MaxPid \in Nat \ {0} /\ MaxTid \in Nat
    BY LwpAssumption
  <1> DEFINE r == [Unused EXCEPT !.state = "RUNNABLE", !.pid = 1, !.main = InitProc,
                                 !.kstack = TRUE, !.pgdir = 1]
  <1>2. Unused \in Record /\ r \in Record
    <2>1. /\ 0 \in 0 .. MaxPid /\ 1 \in 0 .. MaxPid /\ 0 \in 0 .. MaxTid
          /\ 0 \in 0 .. NPROC /\ 1 \in 0 .. NPROC /\ 0 \in 0 .. NPROC + 1 /\ 1 \in 0 .. NPROC + 1
      BY <1>1
    <2> QED
      BY <2>1 DEF Unused, Record, States, None, InitProc
  <1>3. /\ Unused.state = "UNUSED" /\ Unused.pid = None /\ Unused.tid = 0 /\ Unused.pgdir = None
        /\ r.state = "RUNNABLE" /\ r.pid = 1 /\ r.tid = 0 /\ r.main = InitProc /\ r.kstack
        /\ r.pgdir = 1
    BY DEF Unused
  <1> HIDE DEF r
  <1>4. proc = [s \in Slots |-> IF s = InitProc THEN r ELSE Unused]
    BY DEF Init, r
  <1>5. InitProc \in Slots /\ None = 0 /\ InitProc = 1
    BY <1>1 DEF InitProc, Slots, None
  <1>6. /\ \A s \in Slots : pc[s] = "user" /\ local[s] = None
        /\ nextpid = 2 /\ due = {} /\ pgdirs = {1} /\ \A s \in Slots : ~On(s)
    BY <1>1 DEF Init, On, Slots, None
  <1>7. TypeOK
    <2>1. proc \in [Slots -> Record]
      BY <1>2, <1>4
    <2>2. \A s \in Slots : proc[s].state = "UNUSED" => proc[s].pid = None /\ proc[s].tid = 0
      BY <1>3, <1>4
    <2>3. /\ cpu \in [CPUs -> 0 .. NPROC] /\ due \subseteq Slots
          /\ pc \in [Slots -> PCs] /\ local \in [Slots -> 0 .. NPROC]
      BY <1>1 DEF Init, PCs, None
    <2>4. nextpid \in 1 .. MaxPid + 1 /\ nexttid \in 1 .. MaxTid + 1 /\ pgdirs \subseteq PageTables
      BY <1>1 DEF Init, PageTables
    <2> QED
      BY <2>1, <2>2, <2>3, <2>4 DEF TypeOK, Record
  <1>8. \A s \in Slots : IF s = InitProc
                           THEN /\ proc[s].state = "RUNNABLE" /\ proc[s].pid = 1 /\ proc[s].tid = 0
                                /\ proc[s].main = s /\ proc[s].kstack /\ proc[s].pgdir = 1
                           ELSE /\ proc[s].state = "UNUSED" /\ proc[s].pid = 0 /\ proc[s].tid = 0
                                /\ proc[s].pgdir = 0
    BY <1>3, <1>4, <1>5
  <1>9. StateInv
    BY <1>5, <1>6, <1>8 DEF StateInv, Used
  <1>10. CpuInv
    BY <1>6 DEF CpuInv
  <1>11. MainInv
    BY <1>5, <1>8 DEF MainInv, Used, SameProcess
  <1>12. ThreadInv
    BY <1>6, <1>8 DEF ThreadInv
  <1>13. LocalInv
    BY <1>6 DEF LocalInv, Placed, Making
  <1>14. OnePageTableEach
    BY <1>5, <1>6, <1>8 DEF OnePageTableEach, SameProcess
  <1>15. NobodyOversleeps
    BY <1>6 DEF NobodyOversleeps
  <1> QED
    BY <1>7, <1>9, <1>10, <1>11, <1>12, <1>13, <1>14, <1>15 DEF IInv

\* A step that changes nothing.
LEMMA StutterStep ==
    ASSUME IInv, UNCHANGED vars
    PROVE  IInv'
  <1>1. TypeOK' /\ CpuInv'
    BY DEF vars, IInv, TypeOK, CpuInv, On
  <1>2. Quiet
    BY DEF vars, Quiet, SameButState, Asleep
  <1> QED
    BY <1>1, <1>2, QuietKeeps DEF IInv

\* Every step keeps the invariant.
LEMMA StepInv ==
    ASSUME IInv, Disciplined, [Next]_vars
    PROVE  IInv'
  <1>1. CASE UNCHANGED vars
    BY <1>1, StutterStep
  <1>2. ASSUME NEW s \in Slots, Fork(s) \/ ForkReady(s) \/ thread_create(s) \/ ThreadReady(s)
        PROVE  IInv'
    BY <1>2, ForkStep, ForkReadyStep, ThreadCreateStep, ThreadReadyStep DEF Disciplined
  <1>3. ASSUME NEW s \in Slots, ExitBegin(s) \/ exit(s) \/ ThreadExitBegin(s) \/ thread_exit(s)
        PROVE  IInv'
    BY <1>3, ExitBeginStep, ExitStep, ThreadExitBeginStep, ThreadExitStep DEF Disciplined
  <1>4. ASSUME NEW s \in Slots, wait(s) \/ thread_join(s)
        PROVE  IInv'
    BY <1>4, WaitStep, JoinStep
  <1>5. ASSUME NEW s \in Slots, exec(s) \/ ExecCommit(s) \/ ExecFails(s)
        PROVE  IInv'
    BY <1>5, ExecStep, ExecCommitStep, ReturnStep DEF Disciplined, ExecFails, At
  <1>6. ASSUME NEW s \in Slots, kill(s) \/ SleepIo(s) \/ IoDone(s) \/ Timer(s) \/ yield(s)
        PROVE  IInv'
    BY <1>6, KillStep, SleepIoStep, IoDoneStep, TimerStep, YieldStep DEF Disciplined
  <1>7. ASSUME NEW s \in Slots, NEW c \in CPUs, scheduler(c, s)
        PROVE  IInv'
    BY <1>7, SchedulerStep DEF Disciplined
  <1> QED
    BY <1>1, <1>2, <1>3, <1>4, <1>5, <1>6, <1>7 DEF Next

\* On one CPU, with threads joined by their creators, the state is always as the code
\* of proc.c and exec.c takes it to be under ptable.lock.
THEOREM Invariance ==
    ASSUME Disciplined
    PROVE  Spec => []IInv
  <1>1. Init => IInv
    BY InitInv
  <1>2. IInv /\ [Next]_vars => IInv'
    BY StepInv
  <1> QED
    BY <1>1, <1>2, PTL DEF Spec

\* Nothing that runs, or can run again, is freed; the threads of a process share one
\* page table and no two processes do; all page tables belong to somebody (fork,
\* thread_create, exec, exit, wait, thread_join).
THEOREM Ownership ==
    ASSUME Disciplined
    PROVE  Spec => []MemoryOwned
  <1>1. ASSUME IInv
        PROVE  NoUseAfterFree
    <2>1. ASSUME NEW s \in Slots, Live(s) \/ On(s)
          PROVE  proc[s].kstack /\ proc[s].pgdir \in pgdirs
      <3>1. Live(s) /\ Used(s)
        BY <1>1, <2>1, RunnerLives DEF Live, Used
      <3>2. proc[s].pgdir # None
        BY <1>1, <3>1, MainShares
      <3> QED
        BY <1>1, <3>1, <3>2 DEF IInv, StateInv, OnePageTableEach
    <2> QED
      BY <2>1 DEF NoUseAfterFree
  <1>2. IInv => MemoryOwned
    BY <1>1 DEF IInv, MemoryOwned
  <1> QED
    BY <1>2, Invariance, PTL

\* Who waits for a child, or joins a thread, that has ended is awake: exit and
\* thread_exit wake the right slot and make the right one the parent.
THEOREM WokenForTheDead ==
    ASSUME Disciplined
    PROVE  Spec => []NobodyOversleeps
  <1>1. IInv => NobodyOversleeps
    BY DEF IInv
  <1> QED
    BY <1>1, Invariance, PTL

-----------------------------------------------------------------------------
(* How a thread ends *)

Orderly(t) == ZombieStays(t) /\ WaitReapsExited(t) /\ JoinReapsEnded(t)

KeepsZombies == \A t \in Slots : proc[t].state = "ZOMBIE" => proc'[t].state = "ZOMBIE"

\* Where zombies stay zombies, nothing ends.
LEMMA KeepsOrder ==
    ASSUME KeepsZombies, NEW t \in Slots
    PROVE  Orderly(t)
  BY DEF KeepsZombies, Orderly, ZombieStays, WaitReapsExited, JoinReapsEnded, Ends

\* A step that gives one slot, which is not dead, another state.
LEMMA OneChanges ==
    ASSUME IInv, NEW p \in Slots, proc[p].state # "ZOMBIE",
           NEW r, proc' = [proc EXCEPT ![p] = r]
    PROVE  KeepsZombies
  BY DEF KeepsZombies, IInv, TypeOK

\* wait, thread_join and exec are the only ones to end a zombie.
LEMMA OthersKeepZombies ==
    ASSUME IInv, Disciplined, NEW s \in Slots,
           \/ Fork(s) \/ ForkReady(s) \/ thread_create(s) \/ ThreadReady(s)
           \/ ExitBegin(s) \/ exit(s) \/ ThreadExitBegin(s) \/ thread_exit(s)
           \/ ExecCommit(s) \/ ExecFails(s)
           \/ kill(s) \/ SleepIo(s) \/ IoDone(s) \/ Timer(s) \/ yield(s)
           \/ \E c \in CPUs : scheduler(c, s)
    PROVE  KeepsZombies
  <1>1. On(s) => proc[s].state # "ZOMBIE"
    BY RunnerLives DEF Live
  <1>2. CASE Fork(s) \/ thread_create(s)
    <2>1. PICK np \in Slots : proc[np].state = "UNUSED" /\ np = First(FreeSlots)
      BY <1>2, FreeSlotFound DEF Fork, thread_create
    <2>2. CASE Fork(s)
      BY <2>1, <2>2 DEF Fork, KeepsZombies, IInv, TypeOK
    <2>3. CASE thread_create(s)
      BY <2>1, <2>3 DEF thread_create, KeepsZombies, IInv, TypeOK
    <2> QED
      BY <1>2, <2>2, <2>3
  <1>3. CASE ForkReady(s) \/ ThreadReady(s)
    <2>1. PICK np \in Slots : np = local[s] /\ proc[np].state = "EMBRYO"
      BY <1>3, RunnerLives DEF ForkReady, ThreadReady, At, IInv, LocalInv, Placed
    <2>2. CASE ForkReady(s)
      BY <2>1, <2>2 DEF ForkReady, KeepsZombies, IInv, TypeOK
    <2>3. CASE ThreadReady(s)
      BY <2>1, <2>3 DEF ThreadReady, KeepsZombies, IInv, TypeOK
    <2> QED
      BY <1>3, <2>2, <2>3
  <1>4. CASE ExitBegin(s) \/ ThreadExitBegin(s) \/ ExecFails(s) \/ Timer(s)
    BY <1>4 DEF ExitBegin, ThreadExitBegin, ExecFails, Return, Timer, KeepsZombies
  <1>5. CASE exit(s)
    <2>1. PICK parent \in 0 .. NPROC, left \in SUBSET Slots, awake \in SUBSET Slots :
            ExitEffect(s, parent, left, awake)
      BY <1>5, ExitIs DEF Disciplined
    <2> QED
      BY <2>1 DEF ExitEffect, KeepsZombies, Asleep
  <1>6. CASE thread_exit(s)
    <2>1. \A t \in Slots : wakeup1({Joiner(s)})[t].state = proc[t].state \/ Asleep(t)
      BY DEF wakeup1
    <2> QED
      BY <1>6, <2>1 DEF thread_exit, KeepsZombies, Asleep, wakeup1
  <1>7. CASE ExecCommit(s) \/ SleepIo(s)
    BY <1>1, <1>7 DEF ExecCommit, SleepIo, SleepIn, Syscall, At, KeepsZombies, IInv, TypeOK
  <1>8. CASE kill(s)
    BY <1>8 DEF kill, Roused, KeepsZombies, IInv, TypeOK
  <1>9. CASE IoDone(s) \/ yield(s)
    <2>1. proc[s].state # "ZOMBIE"
      BY <1>1, <1>9 DEF IoDone, Asleep, yield, IInv, CpuInv
    <2> QED
      BY <1>9, <2>1 DEF IoDone, yield, KeepsZombies, IInv, TypeOK
  <1>10. CASE \E c \in CPUs : scheduler(c, s)
    BY <1>10 DEF scheduler, KeepsZombies, IInv, TypeOK
  <1> QED
    BY <1>2, <1>3, <1>4, <1>5, <1>6, <1>7, <1>8, <1>9, <1>10

\* Main of a process that has exited called exit.
LEMMA MainExited ==
    ASSUME IInv, NEW p \in Slots, proc[p].state = "ZOMBIE", Gone(p)
    PROVE  \E t \in Slots : SameProcess(p, t) /\ pc[t] = "exited"
  <1>1. PICK m \in Slots : m = proc[p].main /\ SameProcess(p, m) /\ proc[m].tid = 0
    BY DEF IInv, MainInv, Used
  <1>2. pc[m] \in {"ended", "exited"} /\ pc[m] # "ended"
    BY <1>1 DEF Gone, IInv, StateInv, ThreadInv
  <1> QED
    BY <1>1, <1>2

\* wait frees a page table, and main of that process called exit.
LEMMA WaitOrder ==
    ASSUME IInv, Disciplined, NEW s \in Slots, wait(s), NEW t \in Slots
    PROVE  Orderly(t)
  <1>1. On(s) /\ Unjoined(s) = {} /\ WaitLoop(s)
    BY RunnerLives DEF wait, Syscall, At, Disciplined, IInv, LocalInv, Placed
  <1>2. CASE Reap(s)
    <2>1. PICK p \in ZombieChildren(s) :
          /\ proc' = [u \in Slots |->
               IF u \in Reaped(p) THEN [Freed(proc[u]) EXCEPT !.killed = FALSE] ELSE proc[u]]
          /\ pgdirs' = pgdirs \ {proc[p].pgdir}
      <3>1. ZombieChildren(s) # {} /\ ZombieChildren(s) \in SUBSET Nat
        BY <1>2, LwpAssumption DEF Reap, ZombieChildren, Slots
      <3>2. First(ZombieChildren(s)) \in ZombieChildren(s)
        BY <3>1, FirstIsLeast
      <3> QED
        BY <1>2, <3>2 DEF Reap
    <2>2. p \in Slots /\ proc[p].state = "ZOMBIE" /\ Gone(p)
      BY <1>1, <2>1, ReapsGone DEF ZombieChildren
    <2>3. PICK m \in Slots : SameProcess(p, m) /\ pc[m] = "exited"
      BY <2>2, MainExited
    <2>4. CASE t \in Reaped(p)
      <3>1. SameProcess(t, p) /\ proc[t].state = "ZOMBIE"
        BY <2>2, <2>4 DEF Reaped, SameProcess, Gone
      <3>2. SameProcess(t, m)
        BY <3>1, <2>3 DEF SameProcess
      <3>3. proc[t].pgdir = proc[p].pgdir
        BY <3>1, <2>2 DEF IInv, StateInv, Used, OnePageTableEach
      <3>4. proc[t].pgdir \notin pgdirs'
        BY <2>1, <3>3
      <3>5. proc'[t].state = "UNUSED"
        <4>1. proc[t] \in Record /\ proc'[t] = [Freed(proc[t]) EXCEPT !.killed = FALSE]
          BY <2>1, <2>4 DEF IInv, TypeOK, Record
        <4>2. Freed(proc[t]) \in Record /\ Freed(proc[t]).state = "UNUSED"
          BY <4>1, FreedIs
        <4> QED
          BY <4>1, <4>2 DEF Record
      <3> QED
        BY <2>3, <3>2, <3>4, <3>5 DEF Orderly, ZombieStays, WaitReapsExited, JoinReapsEnded
    <2>5. CASE t \notin Reaped(p)
      BY <2>1, <2>5 DEF Orderly, ZombieStays, WaitReapsExited, JoinReapsEnded, Ends
    <2> QED
      BY <2>4, <2>5
  <1>3. CASE Return(s)
    BY <1>3, KeepsOrder DEF Return, KeepsZombies
  <1>4. CASE SleepIn(s, "wait")
    <2>1. KeepsZombies
      BY <1>1, <1>4, RunnerLives DEF SleepIn, Live, KeepsZombies, IInv, TypeOK
    <2> QED
      BY <2>1, KeepsOrder
  <1> QED
    BY <1>1, <1>2, <1>3, <1>4 DEF WaitLoop

\* What thread_join frees has ended, for its process goes on.
LEMMA JoinOrder ==
    ASSUME IInv, Disciplined, NEW s \in Slots, thread_join(s), NEW t \in Slots
    PROVE  Orderly(t)
  <1>1. PICK k \in Slots : On(s) /\ proc[k].tid # 0 /\ SameProcess(s, k) /\ JoinLoop(s, k)
    BY JoinIs DEF Disciplined
  <1>2. CASE proc[k].state = "ZOMBIE" /\ proc' = [proc EXCEPT ![k] = Freed(@)] /\ pgdirs' = pgdirs
    <2>1. ~Gone(k)
      BY <1>1, RunnerLives DEF Gone, Live, SameProcess
    <2>2. pc[k] = "ended" /\ proc[k].pgdir # None /\ proc[k].pgdir \in pgdirs
      BY <1>2, <2>1 DEF IInv, ThreadInv, StateInv, Used, OnePageTableEach
    <2>3. proc'[k].state = "UNUSED" /\ \A u \in Slots \ {k} : proc'[u] = proc[u]
      BY <1>2, FreedIs DEF IInv, TypeOK, Record
    <2> QED
      BY <1>2, <2>2, <2>3 DEF Orderly, ZombieStays, WaitReapsExited, JoinReapsEnded, Ends
  <1>3. CASE Return(s)
    BY <1>3, KeepsOrder DEF Return, KeepsZombies
  <1>4. CASE SleepIn(s, "join")
    <2>1. KeepsZombies
      BY <1>1, <1>4, RunnerLives DEF SleepIn, Live, KeepsZombies, IInv, TypeOK
    <2> QED
      BY <2>1, KeepsOrder
  <1> QED
    BY <1>1, <1>2, <1>3, <1>4 DEF JoinLoop

\* What exec frees is no zombie, or has ended, for its process goes on.
LEMMA ExecOrder ==
    ASSUME IInv, Disciplined, NEW s \in Slots, exec(s), NEW t \in Slots
    PROVE  Orderly(t)
  <1>1. PICK F \in SUBSET Slots : ExecEffect(s, F)
    BY ExecIs DEF Disciplined
  <1>2. CASE t \in F
    <2>1. proc'[t].state = "UNUSED" /\ pgdirs' = pgdirs
      BY <1>1, <1>2 DEF ExecEffect
    <2>2. proc[t].state = "ZOMBIE" => /\ pc[t] = "ended"
                                      /\ proc[t].pgdir # None /\ proc[t].pgdir \in pgdirs
      <3>1. ~Gone(t)
        BY <1>1, <1>2 DEF ExecEffect, Gone, Live, SameProcess
      <3> QED
        BY <3>1 DEF IInv, ThreadInv, StateInv, Used, OnePageTableEach
    <2> QED
      BY <2>1, <2>2 DEF Orderly, ZombieStays, WaitReapsExited, JoinReapsEnded, Ends
  <1>3. CASE t \notin F
    <2>1. proc'[t].state = proc[t].state
      BY <1>1, <1>3 DEF ExecEffect
    <2> QED
      BY <2>1 DEF Orderly, ZombieStays, WaitReapsExited, JoinReapsEnded, Ends
  <1> QED
    BY <1>2, <1>3

\* A zombie is never woken; wait frees a page table only after exit was called, and
\* what thread_join and exec collect has gone through thread_exit.
THEOREM EndOfThreads ==
    ASSUME Disciplined
    PROVE  Spec => EndsInOrder
  <1>1. IInv /\ [Next]_vars => [\A s \in Slots : Orderly(s)]_vars
    <2> SUFFICES ASSUME IInv, Next
                 PROVE  \A t \in Slots : Orderly(t)
      OBVIOUS
    <2>1. PICK s \in Slots :
            \/ Fork(s) \/ ForkReady(s) \/ thread_create(s) \/ ThreadReady(s)
            \/ ExitBegin(s) \/ exit(s) \/ ThreadExitBegin(s) \/ thread_exit(s)
            \/ ExecCommit(s) \/ ExecFails(s)
            \/ kill(s) \/ SleepIo(s) \/ IoDone(s) \/ Timer(s) \/ yield(s)
            \/ \E c \in CPUs : scheduler(c, s)
            \/ wait(s) \/ thread_join(s) \/ exec(s)
      BY DEF Next
    <2>2. CASE wait(s) \/ thread_join(s) \/ exec(s)
      BY <2>2, WaitOrder, JoinOrder, ExecOrder
    <2>3. CASE ~(wait(s) \/ thread_join(s) \/ exec(s))
      <3>1. KeepsZombies
        BY <2>1, <2>3, OthersKeepZombies
      <3> QED
        BY <3>1, KeepsOrder
    <2> QED
      BY <2>2, <2>3
  <1> QED
    BY <1>1, Invariance, PTL DEF Spec, EndsInOrder, Orderly
=============================================================================
