----------------------------- MODULE MlfqProof -----------------------------
(***************************************************************************)
(* Proofs about the multi-level feedback queue, for any number of slots,   *)
(* any time quanta and any mix of system calls.                            *)
(***************************************************************************)
EXTENDS Mlfq, TLAPS, FiniteSetTheorems, WellFoundedInduction

-----------------------------------------------------------------------------
(* The inductive invariant *)

Entry ==
    [state : Queued \union {"UNUSED", "ZOMBIE"}, pid : 0 .. MaxPid,
     parent : 0 .. NPROC, chan : 0 .. TicksChan, killed : BOOLEAN,
     q_level : 0 .. 2, priority : 0 .. 3, proc_ticks : Nat, q_num : Int]

Tables ==
    [proc : [Slots -> Entry], size : [0 .. 2 -> Int],
     locked_proc : {Unlocked} \union (1 .. MaxPid)]

\* The invariant QuantumBounded, of a table and of all its entries.
Bounded(pt) == \A s \in Slots : pt.proc[s].proc_ticks < QUANTUM[pt.proc[s].q_level]

\* A pid is given out once, and those in use are.
PidInv ==
    /\ \A s \in Slots : /\ ptable.proc[s].pid < nextpid
                        /\ ptable.proc[s].state # "UNUSED" => ptable.proc[s].pid # 0
    /\ \A s, r \in Slots :
          ptable.proc[s].pid = ptable.proc[r].pid /\ ptable.proc[s].pid # 0 => s = r

\* The child of a fork under way is an embryo, in the hands of one process.
ForkInv ==
    /\ \A s \in Slots : kpc[s] = "fork" =>
          loc[s].np \in Slots /\ ptable.proc[loc[s].np].state = "EMBRYO"
    /\ \A s, r \in Slots :
          kpc[s] = "fork" /\ kpc[r] = "fork" /\ loc[s].np = loc[r].np => s = r

\* Who has the CPU is RUNNING, and while the scheduler is locked it is the owner.
CpuInv ==
    cpu # 0 => /\ ptable.proc[cpu].state = "RUNNING"
               /\ \/ ptable.locked_proc = Unlocked
                  \/ ptable.locked_proc = ptable.proc[cpu].pid

IInv ==
    /\ TypeOK /\ ptable \in Tables /\ Bounded(ptable)
    /\ PidInv /\ ForkInv /\ CpuInv /\ LockHasOwner

-----------------------------------------------------------------------------
(* What the bookkeeping of the queues does to a table *)

\* It puts entries at other places, and may wake sleepers and end the lock.
Calm(pt, qt) ==
    /\ qt \in Tables
    /\ \A s \in Slots :
          /\ qt.proc[s].pid = pt.proc[s].pid /\ qt.proc[s].killed = pt.proc[s].killed
          /\ \/ qt.proc[s].state = pt.proc[s].state
             \/ pt.proc[s].state = "SLEEPING" /\ qt.proc[s].state = "RUNNABLE"
    /\ Bounded(pt) => Bounded(qt)
    /\ qt.locked_proc \in {pt.locked_proc, Unlocked}

\* Two such changes are one.
LEMMA CalmTwice ==
    ASSUME NEW pt, NEW qt, NEW rt, Calm(pt, qt), Calm(qt, rt)
    PROVE  Calm(pt, rt)
  BY DEF Calm

LEMMA CalmTable ==
    ASSUME NEW pt, NEW qt, Calm(pt, qt)
    PROVE  qt \in Tables
  BY DEF Calm

\* An entry that is moved: its state, its owner and the bound of its ticks stay.
Moved(e, f) ==
    /\ f \in Entry
    /\ f.pid = e.pid /\ f.killed = e.killed
    /\ f.state = e.state \/ (e.state = "SLEEPING" /\ f.state = "RUNNABLE")
    /\ e.proc_ticks < QUANTUM[e.q_level] => f.proc_ticks < QUANTUM[f.q_level]

\* A table all of whose entries are moved.
LEMMA MovedCalm ==
    ASSUME NEW pt \in Tables, NEW P \in [Slots -> Entry], NEW z \in [0 .. 2 -> Int],
           NEW l \in {pt.locked_proc, Unlocked},
           \A s \in Slots : Moved(pt.proc[s], P[s])
    PROVE  Calm(pt, [proc |-> P, size |-> z, locked_proc |-> l])
  <1> DEFINE qt == [proc |-> P, size |-> z, locked_proc |-> l]
  <1>1. qt \in Tables /\ qt.proc = P /\ qt.locked_proc = l
    BY DEF Tables
  <1>2. Bounded(pt) => Bounded(qt)
    BY <1>1 DEF Bounded, Moved
  <1> HIDE DEF qt
  <1>3. Calm(pt, qt)
    BY <1>1, <1>2 DEF Calm, Moved
  <1> QED
    BY <1>3 DEF qt

\* Changes of an entry that move it.
LEMMA EntryMoves ==
    ASSUME NEW e \in Entry, MlfqAssumption
    PROVE  /\ Moved(e, e)
           /\ \A q \in Int : Moved(e, [e EXCEPT !.q_num = q])
           /\ e.state = "SLEEPING" => Moved(e, [e EXCEPT !.state = "RUNNABLE"])
           /\ Moved(e, ToFront(e))
  <1>1. QUANTUM[0] > 0 /\ 0 \in 0 .. 2 /\ 3 \in 0 .. 3 /\ 0 \in Nat /\ 0 \in Int
    BY DEF MlfqAssumption
  <1>2. \A q \in Int : Moved(e, [e EXCEPT !.q_num = q])
    BY DEF Moved, Entry
  <1>3. e.state = "SLEEPING" => Moved(e, [e EXCEPT !.state = "RUNNABLE"])
    BY DEF Moved, Entry, Queued
  <1>4. Moved(e, ToFront(e))
    <2> DEFINE f == [e EXCEPT !.q_level = 0, !.priority = 3, !.proc_ticks = 0, !.q_num = 0]
    <2>1. f \in Entry /\ f.pid = e.pid /\ f.killed = e.killed /\ f.state = e.state
          /\ f.proc_ticks = 0 /\ f.q_level = 0
      BY <1>1 DEF Entry
    <2> QED
      BY <1>1, <2>1 DEF Moved, ToFront
  <1> QED
    BY <1>2, <1>3, <1>4 DEF Moved

\* wakeup1 moves nobody and wakes sleepers only.
LEMMA WakeupCalm ==
    ASSUME NEW pt \in Tables, NEW chan, MlfqAssumption
    PROVE  Calm(pt, wakeup1(pt, chan))
  <1> DEFINE P == [s \in Slots |-> IF pt.proc[s].state = "SLEEPING" /\ pt.proc[s].chan = chan
                                     THEN [pt.proc[s] EXCEPT !.state = "RUNNABLE"]
                                     ELSE pt.proc[s]]
  <1>1. \A s \in Slots : pt.proc[s] \in Entry
    BY DEF Tables
  <1>2. \A s \in Slots : Moved(pt.proc[s], P[s])
    BY <1>1, EntryMoves
  <1>3. P \in [Slots -> Entry]
    BY <1>2 DEF Moved
  <1>4. wakeup1(pt, chan) = [proc |-> P, size |-> pt.size, locked_proc |-> pt.locked_proc]
    BY DEF wakeup1, ForEach, Tables
  <1> HIDE DEF P
  <1> QED
    BY <1>2, <1>3, <1>4, MovedCalm DEF Tables

\* The move up behind a place that became free.
LEMMA CloseGapCalm ==
    ASSUME NEW pt \in Tables, NEW l, NEW k, MlfqAssumption
    PROVE  Calm(pt, CloseGap(pt, l, k))
  <1> DEFINE P == [s \in Slots |-> IF pt.proc[s].q_level = l /\ pt.proc[s].q_num > k
                                     THEN [pt.proc[s] EXCEPT !.q_num = @ - 1]
                                     ELSE pt.proc[s]]
  <1>1. \A s \in Slots : pt.proc[s] \in Entry /\ pt.proc[s].q_num - 1 \in Int
    BY DEF Tables, Entry
  <1>2. \A s \in Slots : Moved(pt.proc[s], P[s])
    BY <1>1, EntryMoves
  <1>3. P \in [Slots -> Entry]
    BY <1>2 DEF Moved
  <1>4. CloseGap(pt, l, k) = [proc |-> P, size |-> pt.size, locked_proc |-> pt.locked_proc]
    BY DEF CloseGap, ForEach, Tables
  <1> HIDE DEF P
  <1> QED
    BY <1>2, <1>3, <1>4, MovedCalm DEF Tables

\* The slots are finitely many, and so are those of any kind.
LEMMA CountSlots ==
    ASSUME NEW S \in SUBSET Slots, MlfqAssumption
    PROVE  Cardinality(S) \in Nat
  <1>1. IsFiniteSet(Slots)
    BY FS_Interval DEF Slots, MlfqAssumption
  <1> QED
    BY <1>1, FS_Subset, FS_CardinalityType

\* _schedulerUnlock takes the owner to the front of L0 with fresh ticks.
LEMMA UnlockCalm ==
    ASSUME NEW pt \in Tables, NEW me \in Slots, MlfqAssumption
    PROVE  Calm(pt, SchedulerUnlock(pt, me))
  <1> DEFINE mine == pt.proc[me].q_level
             others == {s \in Slots : pt.proc[s].pid # pt.locked_proc /\ pt.proc[s].q_level = 0}
             found == {s \in Slots : pt.proc[s].pid = pt.locked_proc}
             P == [s \in Slots |-> IF s \in found THEN ToFront(pt.proc[s])
                                   ELSE IF s \in others THEN [pt.proc[s] EXCEPT !.q_num = @ + 1]
                                   ELSE pt.proc[s]]
             z == [l \in 0 .. 2 |->
                     IF l = 0 THEN Cardinality(others) + (IF found = {} THEN 0 ELSE 1)
                     ELSE IF l = mine THEN pt.size[l] - 1 ELSE pt.size[l]]
  <1>1. \A s \in Slots : pt.proc[s] \in Entry /\ pt.proc[s].q_num + 1 \in Int
    BY DEF Tables, Entry
  <1>2. \A s \in Slots : Moved(pt.proc[s], P[s])
    BY <1>1, EntryMoves
  <1>3. P \in [Slots -> Entry]
    BY <1>2 DEF Moved
  <1>4. z \in [0 .. 2 -> Int]
    <2>1. Cardinality(others) \in Nat
      BY CountSlots
    <2> HIDE DEF others, found, mine
    <2>2. Cardinality(others) + (IF found = {} THEN 0 ELSE 1) \in Int
      BY <2>1
    <2>3. \A l \in 0 .. 2 : pt.size[l] \in Int
      BY DEF Tables
    <2> QED
      BY <2>2, <2>3
  <1>5. CASE pt.locked_proc = Unlocked
    <2>1. SchedulerUnlock(pt, me) = pt
      BY <1>5 DEF SchedulerUnlock
    <2> QED
      BY <2>1 DEF Calm
  <1>6. CASE pt.locked_proc # Unlocked
    <2>1. SchedulerUnlock(pt, me) = [proc |-> P, size |-> z, locked_proc |-> Unlocked]
      BY <1>6 DEF SchedulerUnlock
    <2> HIDE DEF P, z
    <2> QED
      BY <1>2, <1>3, <1>4, <2>1, MovedCalm
  <1> QED
    BY <1>5, <1>6

\* The loops of a boost over some levels empty these levels into L0.
LEMMA LiftCalm ==
    ASSUME NEW pt \in Tables, NEW ls, NEW i \in Nat, MlfqAssumption
    PROVE  /\ Calm(pt, Lift(pt, ls, i))
           /\ Lift(pt, ls, i).locked_proc = pt.locked_proc
           /\ \A s \in Slots : Lift(pt, ls, i).proc[s].q_level =
                 IF s \in At(pt, ls) THEN 0 ELSE pt.proc[s].q_level
  <1> DEFINE L == At(pt, ls)
             place(s) == i + Cardinality({r \in L : Ahead(pt, r, s)})
             lifted(s) == [pt.proc[s] EXCEPT !.q_level = 0, !.priority = 3, !.proc_ticks = 0,
                                             !.q_num = place(s)]
             P == [s \in Slots |-> IF s \notin L THEN pt.proc[s] ELSE lifted(s)]
             z == [pt.size EXCEPT ![0] = @ + Cardinality(L)]
  <1>1. \A s \in Slots : pt.proc[s] \in Entry
    BY DEF Tables
  <1>2. ASSUME NEW s \in Slots
        PROVE  Moved(pt.proc[s], lifted(s)) /\ lifted(s).q_level = 0
    <2>1. place(s) \in Int
      <3>1. {r \in L : Ahead(pt, r, s)} \in SUBSET Slots
        BY DEF At
      <3> QED
        BY <3>1, CountSlots
    <2>2. \A e \in Entry, q \in Int : [ToFront(e) EXCEPT !.q_num = q] =
            [e EXCEPT !.q_level = 0, !.priority = 3, !.proc_ticks = 0, !.q_num = q]
      BY DEF ToFront, Entry
    <2> HIDE DEF place
    <2>3. lifted(s) = [ToFront(pt.proc[s]) EXCEPT !.q_num = place(s)]
      BY <1>1, <2>1, <2>2
    <2>4. ToFront(pt.proc[s]) \in Entry /\ Moved(pt.proc[s], ToFront(pt.proc[s]))
      BY <1>1, EntryMoves DEF Moved
    <2>5. Moved(ToFront(pt.proc[s]), lifted(s))
      BY <2>1, <2>3, <2>4, EntryMoves
    <2>6. lifted(s).q_level = 0
      BY <1>1 DEF Entry
    <2> HIDE DEF lifted
    <2> QED
      BY <2>4, <2>5, <2>6 DEF Moved, ToFront, Entry
  <1> HIDE DEF lifted
  <1>3. \A s \in Slots : Moved(pt.proc[s], P[s])
    BY <1>1, <1>2, EntryMoves
  <1>4. P \in [Slots -> Entry]
    BY <1>3 DEF Moved
  <1>5. z \in [0 .. 2 -> Int]
    <2>1. Cardinality(L) \in Nat
      BY CountSlots DEF At
    <2> QED
      BY <2>1 DEF Tables
  <1>6. Lift(pt, ls, i) = [proc |-> P, size |-> z, locked_proc |-> pt.locked_proc]
    <2>1. Lift(pt, ls, i) = [pt EXCEPT !.proc = P, !.size[0] = @ + Cardinality(L)]
      BY Zenon DEF Lift, lifted
    <2> HIDE DEF P, L
    <2> QED
      BY <2>1 DEF Tables
  <1>7. \A s \in Slots : P[s].q_level = IF s \in L THEN 0 ELSE pt.proc[s].q_level
    BY <1>2
  <1> HIDE DEF P, z, L
  <1>8. Lift(pt, ls, i).proc = P /\ Lift(pt, ls, i).locked_proc = pt.locked_proc
    BY <1>6
  <1>9. Calm(pt, Lift(pt, ls, i))
    BY <1>3, <1>4, <1>5, <1>6, MovedCalm
  <1> QED
    BY <1>7, <1>8, <1>9 DEF L

\* The reset of the sizes touches no entry.
LEMMA NoSizesCalm ==
    ASSUME NEW pt \in Tables, MlfqAssumption
    PROVE  Calm(pt, NoSizes(pt)) /\ NoSizes(pt).locked_proc = pt.locked_proc
           /\ NoSizes(pt).proc = pt.proc
  <1>1. NoSizes(pt) = [proc |-> pt.proc, size |-> [l \in 0 .. 2 |-> 0],
                       locked_proc |-> pt.locked_proc]
    BY DEF NoSizes, Tables
  <1>2. \A s \in Slots : Moved(pt.proc[s], pt.proc[s])
    BY EntryMoves DEF Tables
  <1> QED
    <2>1. [l \in 0 .. 2 |-> 0] \in [0 .. 2 -> Int] /\ pt.proc \in [Slots -> Entry]
      BY DEF Tables
    <2>2. Calm(pt, NoSizes(pt))
      BY <1>1, <1>2, <2>1, MovedCalm
    <2>3. NoSizes(pt).locked_proc = pt.locked_proc /\ NoSizes(pt).proc = pt.proc
      BY <1>1
    <2> QED
      BY <2>2, <2>3

\* A tick never lets an entry keep its queue for longer than the quantum.
LEMMA RequeueMoves ==
    ASSUME NEW e \in Entry, NEW size \in [0 .. 2 -> Int], MlfqAssumption
    PROVE  Moved(e, Requeue([e EXCEPT !.proc_ticks = @ + 1], size))
  <1>1. \A l \in 0 .. 2 : QUANTUM[l] \in Nat \ {0} /\ size[l] \in Int
    BY DEF MlfqAssumption
  <1>2. PICK l \in 0 .. 2, k \in Nat, pri \in 0 .. 3 :
          l = e.q_level /\ k = e.proc_ticks /\ pri = e.priority
    BY DEF Entry
  <1> DEFINE d == [e EXCEPT !.proc_ticks = @ + 1]
  <1>3. /\ d \in Entry /\ d.q_level = l /\ d.proc_ticks = k + 1 /\ d.priority = pri
        /\ d.pid = e.pid /\ d.killed = e.killed /\ d.state = e.state
    BY <1>2 DEF Entry
  <1> SUFFICES Moved(e, Requeue(d, size))
    OBVIOUS
  <1> HIDE DEF d
  <1>4. CASE k + 1 # QUANTUM[l]
    <2>1. Requeue(d, size) = [d EXCEPT !.q_num = size[l] - 1]
      BY <1>3, <1>4 DEF Requeue
    <2>2. size[l] - 1 \in Int
      BY <1>1
    <2>3. k < QUANTUM[l] => k + 1 < QUANTUM[l]
      BY <1>1, <1>4
    <2>4. \A q \in Int : LET f == [d EXCEPT !.q_num = q] IN
            /\ f \in Entry /\ f.q_level = l /\ f.proc_ticks = k + 1
            /\ f.pid = d.pid /\ f.killed = d.killed /\ f.state = d.state
      BY <1>3 DEF Entry
    <2> QED
      BY <1>2, <1>3, <2>1, <2>2, <2>3, <2>4 DEF Moved
  <1>5. CASE k + 1 = QUANTUM[l] /\ l < 2
    <2>1. Requeue(d, size) = [d EXCEPT !.q_level = l + 1, !.proc_ticks = 0, !.q_num = size[l + 1]]
      BY <1>3, <1>5 DEF Requeue
    <2>2. size[l + 1] \in Int /\ l + 1 \in 0 .. 2 /\ 0 < QUANTUM[l + 1]
      BY <1>1, <1>5
    <2> DEFINE f == [d EXCEPT !.q_level = l + 1, !.proc_ticks = 0, !.q_num = size[l + 1]]
    <2>3. /\ f \in Entry /\ f.q_level = l + 1 /\ f.proc_ticks = 0
          /\ f.pid = d.pid /\ f.killed = d.killed /\ f.state = d.state
      BY <1>3, <2>2 DEF Entry
    <2> HIDE DEF f
    <2>4. Moved(e, f)
      BY <1>3, <2>2, <2>3 DEF Moved
    <2> QED
      BY <2>1, <2>4 DEF f
  <1>6. CASE k + 1 = QUANTUM[l] /\ ~(l < 2)
    <2> DEFINE low == IF pri >= 1 THEN pri - 1 ELSE pri
    <2>1. Requeue(d, size) = [d EXCEPT !.proc_ticks = 0, !.priority = low, !.q_num = size[2] - 1]
      BY <1>3, <1>6 DEF Requeue
    <2>2. size[2] - 1 \in Int /\ low \in 0 .. 3 /\ 0 < QUANTUM[l]
      BY <1>1
    <2> DEFINE f == [d EXCEPT !.proc_ticks = 0, !.priority = low, !.q_num = size[2] - 1]
    <2>3. /\ f \in Entry /\ f.q_level = l /\ f.proc_ticks = 0
          /\ f.pid = d.pid /\ f.killed = d.killed /\ f.state = d.state
      <3> HIDE DEF low
      <3> QED
        BY <1>3, <2>2 DEF Entry
    <2> HIDE DEF f
    <2>4. Moved(e, f)
      BY <1>3, <2>2, <2>3 DEF Moved
    <2> QED
      BY <2>1, <2>4 DEF f
  <1> QED
    BY <1>2, <1>4, <1>5, <1>6

\* update_proc charges one process and moves up those behind it.
LEMMA UpdateCalm ==
    ASSUME NEW pt \in Tables, NEW me \in Slots, MlfqAssumption
    PROVE  Calm(pt, UpdateProc(pt, me)) /\ UpdateProc(pt, me).locked_proc = pt.locked_proc
  <1> DEFINE p == pt.proc[me]
             moved == [s \in Slots |->
                         IF /\ pt.proc[s].pid # p.pid
                            /\ pt.proc[s].q_level = p.q_level /\ pt.proc[s].q_num > 0
                         THEN [pt.proc[s] EXCEPT !.q_num = @ - 1] ELSE pt.proc[s]]
             mine == Requeue([p EXCEPT !.proc_ticks = @ + 1], pt.size)
             P == [moved EXCEPT ![me] = mine]
             z == [l \in 0 .. 2 |->
                     IF mine.q_level = p.q_level THEN pt.size[l]
                     ELSE IF l = p.q_level THEN pt.size[l] - 1
                     ELSE IF l = mine.q_level THEN pt.size[l] + 1 ELSE pt.size[l]]
  <1>1. \A s \in Slots : pt.proc[s] \in Entry /\ pt.proc[s].q_num - 1 \in Int
    BY DEF Tables, Entry
  <1>2. pt.size \in [0 .. 2 -> Int]
    BY DEF Tables
  <1>3. Moved(p, mine)
    BY <1>1, <1>2, RequeueMoves
  <1>4. z \in [0 .. 2 -> Int]
    <2> HIDE DEF mine, p
    <2>1. \A l \in 0 .. 2 : pt.size[l] \in Int
      BY <1>2
    <2> QED
      BY <2>1
  <1>5. UpdateProc(pt, me) = [proc |-> P, size |-> z, locked_proc |-> pt.locked_proc]
    <2>1. UpdateProc(pt, me) = [pt EXCEPT !.proc = P, !.size = z]
      BY Zenon DEF UpdateProc
    <2> HIDE DEF P, z
    <2> QED
      BY <2>1 DEF Tables
  <1>6. \A s \in Slots : Moved(pt.proc[s], moved[s])
    BY <1>1, EntryMoves
  <1> HIDE DEF mine, moved, z
  <1>7. \A s \in Slots : Moved(pt.proc[s], P[s])
    BY <1>3, <1>6 DEF moved
  <1>8. P \in [Slots -> Entry]
    BY <1>3, <1>6 DEF Moved, moved
  <1> HIDE DEF P
  <1>9. Calm(pt, UpdateProc(pt, me))
    BY <1>4, <1>5, <1>7, <1>8, MovedCalm
  <1>10. UpdateProc(pt, me).locked_proc = pt.locked_proc
    BY <1>5
  <1> QED
    BY <1>9, <1>10

\* A boost moves all that live to L0.
LEMMA BoostCalm ==
    ASSUME NEW pt \in Tables, NEW me, me \in Slots \/ pt.locked_proc = Unlocked,
           MlfqAssumption
    PROVE  /\ Calm(pt, PriorityBoosting(pt, me))
           /\ \A s \in Slots : Live(PriorityBoosting(pt, me), s) =>
                 PriorityBoosting(pt, me).proc[s].q_level = 0
  <1>1. PICK nt \in Tables : nt = NoSizes(pt) /\ Calm(pt, nt) /\ nt.locked_proc = pt.locked_proc
    BY NoSizesCalm DEF Calm
  <1>2. \A qt \in Tables, ls \in SUBSET (0 .. 2) :
          /\ Calm(qt, Lift(qt, ls, 0))
          /\ \A s \in Slots : Lift(qt, ls, 0).proc[s].q_level =
                 IF s \in At(qt, ls) THEN 0 ELSE qt.proc[s].q_level
    BY LiftCalm
  <1>3. \A qt \in Tables, s \in Slots : qt.proc[s].q_level \in {0, 1, 2}
    BY DEF Tables, Entry
  <1>4. CASE pt.locked_proc = Unlocked
    <2>1. PICK rt : rt = Lift(nt, {0, 1, 2}, 0)
      OBVIOUS
    <2>2. Calm(nt, rt) /\ Calm(pt, rt)
      BY <1>1, <1>2, <2>1, CalmTwice
    <2>3. ASSUME NEW s \in Slots, Live(rt, s)
          PROVE  rt.proc[s].q_level = 0
      <3>1. Live(nt, s)
        BY <2>2, <2>3 DEF Live, Calm, Queued
      <3>2. s \in At(nt, {0, 1, 2})
        BY <3>1, <1>3 DEF At
      <3> QED
        BY <3>2, <2>1, <1>2
    <2> QED
      BY <1>1, <1>4, <2>1, <2>2, <2>3 DEF PriorityBoosting
  <1>5. CASE pt.locked_proc # Unlocked
    <2>1. PICK qt : qt = SchedulerUnlock(nt, me)
      OBVIOUS
    <2>2. Calm(nt, qt) /\ qt \in Tables
      BY <1>5, <2>1, UnlockCalm DEF Calm
    <2>3. PICK rt : rt = Lift(qt, {1, 2}, 0)
      OBVIOUS
    <2>4. Calm(qt, rt) /\ Calm(pt, rt)
      BY <1>1, <1>2, <2>2, <2>3, CalmTwice
    <2>5. ASSUME NEW s \in Slots, Live(rt, s)
          PROVE  rt.proc[s].q_level = 0
      <3>1. Live(qt, s)
        BY <2>4, <2>5 DEF Live, Calm, Queued
      <3>2. qt.proc[s].q_level = 0 \/ s \in At(qt, {1, 2})
        BY <3>1, <2>2, <1>3 DEF At
      <3> QED
        BY <3>2, <2>2, <2>3, <1>2
    <2> QED
      BY <1>1, <1>5, <2>1, <2>3, <2>4, <2>5 DEF PriorityBoosting
  <1> QED
    BY <1>4, <1>5

\* The interrupt charges the process it interrupts, if there is one.
LEMMA TickedCalm ==
    ASSUME ptable \in Tables, cpu = 0 \/ cpu \in Slots, MlfqAssumption
    PROVE  Calm(ptable, Ticked) /\ Ticked.locked_proc = ptable.locked_proc
  <1>1. PICK wt : wt = wakeup1(ptable, TicksChan)
    OBVIOUS
  <1>2. Calm(ptable, wt) /\ wt \in Tables
    BY <1>1, WakeupCalm DEF Calm
  <1>3. wt.locked_proc = ptable.locked_proc
    BY <1>1 DEF wakeup1, ForEach, Tables
  <1>4. CASE cpu = 0
    BY <1>1, <1>2, <1>3, <1>4 DEF Ticked
  <1>5. CASE cpu # 0
    <2>1. PICK ut : ut = UpdateProc(wt, cpu)
      OBVIOUS
    <2>2. Calm(wt, ut) /\ ut.locked_proc = wt.locked_proc
      BY <1>2, <1>5, <2>1, UpdateCalm
    <2>3. Calm(ptable, ut)
      BY <1>2, <2>2, CalmTwice
    <2>4. Ticked = ut
      BY <1>1, <1>5, <2>1 DEF Ticked
    <2> QED
      BY <1>3, <2>2, <2>3, <2>4
  <1> QED
    BY <1>4, <1>5

-----------------------------------------------------------------------------
(* Steps that create and free no process *)

Made == {"SLEEPING", "RUNNABLE", "RUNNING", "ZOMBIE"}

\* No entry comes into use, goes out of use or changes its pid; an embryo stays
\* one; who locks the scheduler is in the table.
Steady(pt, qt) ==
    /\ qt \in Tables
    /\ \A s \in Slots :
          /\ qt.proc[s].pid = pt.proc[s].pid
          /\ \/ qt.proc[s].state = pt.proc[s].state
             \/ pt.proc[s].state \in Made /\ qt.proc[s].state \in Made
    /\ Bounded(pt) => Bounded(qt)
    /\ \/ qt.locked_proc \in {pt.locked_proc, Unlocked}
       \/ \E s \in Slots : qt.locked_proc = pt.proc[s].pid /\ pt.proc[s].state # "UNUSED"

\* Bookkeeping is steady.
LEMMA CalmSteady ==
    ASSUME NEW pt, NEW qt, Calm(pt, qt)
    PROVE  Steady(pt, qt)
  BY DEF Calm, Steady, Made

\* Two steady changes are one.
LEMMA SteadyTwice ==
    ASSUME NEW pt, NEW qt, NEW rt, Steady(pt, qt), Steady(qt, rt)
    PROVE  Steady(pt, rt)
  BY DEF Steady, Made

\* An entry is replaced by one of the same pid, in or out of the kernel's hands
\* as before.
LEMMA SetEntry ==
    ASSUME NEW pt \in Tables, NEW s \in Slots, NEW f \in Entry,
           f.pid = pt.proc[s].pid,
           f.state = pt.proc[s].state \/ (pt.proc[s].state \in Made /\ f.state \in Made),
           pt.proc[s].proc_ticks < QUANTUM[pt.proc[s].q_level]
               => f.proc_ticks < QUANTUM[f.q_level]
    PROVE  LET qt == [pt EXCEPT !.proc[s] = f] IN
           /\ Steady(pt, qt) /\ qt.locked_proc = pt.locked_proc
           /\ qt.proc = [pt.proc EXCEPT ![s] = f]
  <1> DEFINE qt == [pt EXCEPT !.proc[s] = f]
  <1>1. /\ qt \in Tables /\ qt.locked_proc = pt.locked_proc
        /\ qt.proc = [pt.proc EXCEPT ![s] = f]
    BY DEF Tables
  <1>2. qt.proc[s] = f /\ \A r \in Slots \ {s} : qt.proc[r] = pt.proc[r]
    BY <1>1 DEF Tables
  <1> HIDE DEF qt
  <1>3. Bounded(pt) => Bounded(qt)
    BY <1>2 DEF Bounded
  <1>4. Steady(pt, qt)
    BY <1>1, <1>2, <1>3 DEF Steady
  <1> QED
    BY <1>1, <1>4 DEF qt

\* The process goes to another state of those that are made.
LEMMA SetState ==
    ASSUME NEW pt \in Tables, NEW s \in Slots, pt.proc[s].state \in Made, NEW st \in Made
    PROVE  LET qt == [pt EXCEPT !.proc[s].state = st] IN
           /\ Steady(pt, qt) /\ qt.locked_proc = pt.locked_proc /\ qt.proc[s].state = st
           /\ \A r \in Slots : r # s => qt.proc[r] = pt.proc[r]
  <1> DEFINE f == [pt.proc[s] EXCEPT !.state = st]
  <1>1. f \in Entry /\ f.pid = pt.proc[s].pid /\ f.state = st
        /\ f.proc_ticks = pt.proc[s].proc_ticks /\ f.q_level = pt.proc[s].q_level
    BY DEF Tables, Entry, Queued, Made
  <1>2. [pt EXCEPT !.proc[s].state = st] = [pt EXCEPT !.proc[s] = f]
    BY DEF Tables
  <1> HIDE DEF f
  <1>3. PICK qt : qt = [pt EXCEPT !.proc[s] = f]
    OBVIOUS
  <1>4. Steady(pt, qt) /\ qt.locked_proc = pt.locked_proc /\ qt.proc = [pt.proc EXCEPT ![s] = f]
    BY <1>1, <1>3, SetEntry
  <1> QED
    BY <1>1, <1>2, <1>3, <1>4 DEF Tables

\* What such a step leaves to be shown.
LEMMA SteadyKeeps ==
    ASSUME IInv, Steady(ptable, ptable'), nextpid' = nextpid,
           kpc' \in [Slots -> KernelPlaces],
           loc' \in [Slots -> [np : 0 .. NPROC, ticks0 : Nat, n : Nat, i : Nat]],
           \A s \in Slots : kpc'[s] = "fork" => kpc[s] = "fork" /\ loc'[s].np = loc[s].np,
           ticks' \in Nat, cpu' \in 0 .. NPROC, window' \in BOOLEAN,
           panicked' \in {"no", "acquire", "trap"},
           CpuInv'
    PROVE  IInv'
  <1>1. TypeOK'
    BY DEF IInv, TypeOK, Steady, Tables, Entry
  <1>2. ptable' \in Tables /\ Bounded(ptable')
    BY DEF IInv, Steady
  <1>3. PidInv'
    BY DEF IInv, PidInv, Steady, Made
  <1>4. ForkInv'
    BY DEF IInv, ForkInv, Steady, Made
  <1>5. LockHasOwner'
    BY DEF IInv, LockHasOwner, Steady, Made
  <1> QED
    BY <1>1, <1>2, <1>3, <1>4, <1>5 DEF IInv

-----------------------------------------------------------------------------
(* The loop of the scheduler over the table *)

\* A set of numbers that is not empty has a least one.
LEMMA Least ==
    ASSUME NEW S \in SUBSET Nat, S # {}
    PROVE  \E s \in S : \A t \in S : s <= t
  <1>1. PICK s \in S : \A t \in S : <<t, s>> \notin OpToRel(<, Nat)
    BY NatLessThanWellFounded, WFMin
  <1>2. ASSUME NEW t \in S
        PROVE  s <= t
    <2>1. t < s => <<t, s>> \in OpToRel(<, Nat)
      BY Zenon DEF OpToRel
    <2>2. ~(t < s)
      BY <1>1, <2>1, Zenon
    <2>3. s \in Nat /\ t \in Nat
      OBVIOUS
    <2> QED
      BY <2>2, <2>3
  <1> QED
    BY <1>2

\* A set of numbers that has 0 and, with n, n + 1, has them all.
LEMMA AllNumbers ==
    ASSUME NEW N \in Nat, NEW S \in SUBSET (0 .. N), 0 \in S,
           \A n \in 1 .. N : n - 1 \in S => n \in S
    PROVE  S = 0 .. N
  <1> SUFFICES ASSUME (0 .. N) \ S # {}
               PROVE  FALSE
    OBVIOUS
  <1>1. PICK n \in (0 .. N) \ S : \A k \in (0 .. N) \ S : n <= k
    <2>1. (0 .. N) \ S \in SUBSET Nat
      OBVIOUS
    <2> QED
      BY <2>1, Least
  <1>2. n \in 1 .. N
    BY <1>1
  <1>3. n - 1 \in 0 .. N /\ ~(n <= n - 1)
    BY <1>2
  <1>4. n - 1 \in S
    BY <1>1, <1>3
  <1> QED
    BY <1>1, <1>2, <1>4

\* The function Chosen on the first n slots.
Loop(n, f) ==
    /\ f \in [0 .. n -> 0 .. NPROC] /\ f[0] = 0
    /\ \A k \in 1 .. n : f[k] = Turn(f[k - 1], k)

\* There is such a function: each turn of the loop extends the one before.
LEMMA LoopRuns ==
    ASSUME MlfqAssumption
    PROVE  \E f : Loop(NPROC, f)
  <1> DEFINE S == {n \in 0 .. NPROC : \E f : Loop(n, f)}
  <1>1. NPROC \in Nat
    BY DEF MlfqAssumption
  <1>2. 0 \in S
    <2>1. Loop(0, [k \in 0 .. 0 |-> 0])
      BY <1>1 DEF Loop
    <2> QED
      BY <1>1, <2>1
  <1>3. ASSUME NEW n \in 1 .. NPROC, n - 1 \in S
        PROVE  n \in S
    <2>1. PICK f : Loop(n - 1, f)
      BY <1>3
    <2>2. n \in Nat /\ n - 1 \in 0 .. n - 1 /\ n - 1 \in Nat /\ n \in 0 .. NPROC
      BY <1>1
    <2>3. f[n - 1] \in 0 .. NPROC /\ Turn(f[n - 1], n) \in 0 .. NPROC
      BY <2>1, <2>2 DEF Loop, Turn
    <2> DEFINE t == Turn(f[n - 1], n)
               g == [k \in 0 .. n |-> IF k = n THEN t ELSE f[k]]
    <2> HIDE DEF t
    <2>4. g \in [0 .. n -> 0 .. NPROC]
      BY <2>1, <2>2, <2>3 DEF Loop, t
    <2>5. g[0] = 0
      BY <2>1, <2>2 DEF Loop
    <2>6. ASSUME NEW k \in 1 .. n
          PROVE  g[k] = Turn(g[k - 1], k)
      <3>1. k - 1 \in 0 .. n /\ k - 1 # n /\ g[k - 1] = f[k - 1]
        BY <2>2
      <3>2. CASE k = n
        BY <3>1, <3>2, <2>2 DEF t
      <3>3. CASE k # n
        <4>1. k \in 1 .. n - 1 /\ k \in 0 .. n
          BY <3>3, <2>2
        <4> QED
          BY <3>1, <3>3, <4>1, <2>1 DEF Loop
      <3> QED
        BY <3>2, <3>3
    <2> HIDE DEF g
    <2>7. Loop(n, g)
      BY <2>4, <2>5, <2>6 DEF Loop
    <2> QED
      BY <2>2, <2>7
  <1>4. S = 0 .. NPROC
    <2> HIDE DEF S
    <2>1. S \in SUBSET (0 .. NPROC)
      BY DEF S
    <2> QED
      BY <1>1, <1>2, <1>3, <2>1, AllNumbers
  <1> QED
    BY <1>1, <1>4

\* Chosen is the function that its definition describes.
LEMMA ChosenLoops ==
    ASSUME MlfqAssumption
    PROVE  Loop(NPROC, Chosen)
  <1> DEFINE D(f) == f = [n \in 0 .. NPROC |-> IF n = 0 THEN 0 ELSE Turn(f[n - 1], n)]
  <1>1. NPROC \in Nat
    BY DEF MlfqAssumption
  <1>2. PICK f : Loop(NPROC, f)
    BY LoopRuns
  <1>3. D(f)
    BY <1>1, <1>2 DEF Loop
  <1>4. Chosen = CHOOSE g : D(g)
    BY DEF Chosen
  <1>5. D(Chosen)
    BY <1>3, <1>4
  <1>6. \A n \in 0 .. NPROC : Chosen[n] = IF n = 0 THEN 0 ELSE Turn(Chosen[n - 1], n)
    BY <1>5
  <1>7. Chosen[0] = 0 /\ \A n \in 1 .. NPROC : Chosen[n] = Turn(Chosen[n - 1], n)
    BY <1>1, <1>6
  <1> DEFINE S == {n \in 0 .. NPROC : Chosen[n] \in 0 .. NPROC}
  <1>8. 0 \in S
    BY <1>1, <1>7
  <1>9. \A n \in 1 .. NPROC : n - 1 \in S => n \in S
    BY <1>1, <1>7 DEF Turn
  <1>10. S = 0 .. NPROC
    <2> HIDE DEF S
    <2>1. S \in SUBSET (0 .. NPROC)
      BY DEF S
    <2> QED
      BY <1>1, <1>8, <1>9, <2>1, AllNumbers
  <1>11. \A n \in 0 .. NPROC : Chosen[n] \in 0 .. NPROC
    BY <1>10
  <1>12. DOMAIN Chosen = 0 .. NPROC /\ Chosen = [n \in 0 .. NPROC |-> Chosen[n]]
    BY <1>5, <1>6
  <1> QED
    BY <1>7, <1>11, <1>12 DEF Loop

\* Nobody that can run among S beats entry c.
Unbeaten(c, S) ==
    \A r \in S : ptable.proc[r].state = "RUNNABLE" => ~Beats(ptable.proc[r], ptable.proc[c])

\* An entry that beats an unbeaten one is unbeaten.
LEMMA BeatsTransitive ==
    ASSUME NEW a \in Entry, NEW b \in Entry, NEW c \in Entry, ~Beats(a, b), Beats(c, b)
    PROVE  ~Beats(a, c)
  BY DEF Beats, Entry

\* The loop chooses a process that can run and that nobody beats, or nobody can run.
LEMMA ChoiceIsBest ==
    ASSUME ptable \in Tables, MlfqAssumption
    PROVE  \/ Choice = 0 /\ \A r \in Slots : ptable.proc[r].state # "RUNNABLE"
           \/ /\ Choice \in Slots /\ ptable.proc[Choice].state = "RUNNABLE"
              /\ Unbeaten(Choice, Slots)
  <1> DEFINE Good(c, n) ==
                \/ c = 0 /\ \A r \in 1 .. n : ptable.proc[r].state # "RUNNABLE"
                \/ /\ c \in 1 .. n /\ ptable.proc[c].state = "RUNNABLE"
                   /\ Unbeaten(c, 1 .. n)
             S == {n \in 0 .. NPROC : Good(Chosen[n], n)}
  <1>1. NPROC \in Nat
    BY DEF MlfqAssumption
  <1>2. /\ \A n \in 0 .. NPROC : Chosen[n] \in 0 .. NPROC
        /\ Chosen[0] = 0 /\ \A n \in 1 .. NPROC : Chosen[n] = Turn(Chosen[n - 1], n)
    BY ChosenLoops DEF Loop
  <1>3. \A s \in Slots : ptable.proc[s] \in Entry
    BY DEF Tables
  <1>4. 0 \in S
    BY <1>1, <1>2
  <1>5. ASSUME NEW n \in 1 .. NPROC, n - 1 \in S
        PROVE  n \in S
    <2>1. PICK c : c = Chosen[n - 1]
      OBVIOUS
    <2>2. Good(c, n - 1)
      BY <1>5, <2>1
    <2>3. Chosen[n] = Turn(c, n)
      BY <1>2, <2>1
    <2>4. n \in Slots /\ n \in 0 .. NPROC /\ 1 .. n = (1 .. n - 1) \union {n}
          /\ 1 .. n - 1 \subseteq Slots
      BY <1>1 DEF Slots
    <2>5. CASE ptable.proc[n].state # "RUNNABLE"
      <3>1. Chosen[n] = c
        BY <2>3, <2>5 DEF Turn
      <3>2. Good(c, n)
        BY <2>2, <2>4, <2>5 DEF Unbeaten
      <3> QED
        BY <2>4, <3>1, <3>2
    <2>6. CASE ptable.proc[n].state = "RUNNABLE" /\ (c = 0 \/ Beats(ptable.proc[n], ptable.proc[c]))
      <3>1. Chosen[n] = n
        BY <2>3, <2>6 DEF Turn
      <3>2. ~Beats(ptable.proc[n], ptable.proc[n])
        BY <1>3, <2>4 DEF Beats, Entry
      <3>3. CASE c = 0
        <4>1. \A r \in 1 .. n - 1 : ptable.proc[r].state # "RUNNABLE"
          BY <2>2, <3>3
        <4>2. Good(n, n)
          BY <2>4, <2>6, <3>2, <4>1 DEF Unbeaten
        <4> QED
          BY <2>4, <3>1, <4>2
      <3>4. CASE c # 0
        <4>1. c \in 1 .. n - 1 /\ Unbeaten(c, 1 .. n - 1) /\ Beats(ptable.proc[n], ptable.proc[c])
          BY <2>2, <2>6, <3>4
        <4>2. ASSUME NEW r \in 1 .. n - 1, ptable.proc[r].state = "RUNNABLE"
              PROVE  ~Beats(ptable.proc[r], ptable.proc[n])
          <5>1. ~Beats(ptable.proc[r], ptable.proc[c])
            BY <4>1, <4>2 DEF Unbeaten
          <5>2. ptable.proc[r] \in Entry /\ ptable.proc[c] \in Entry /\ ptable.proc[n] \in Entry
            BY <1>3, <2>4, <4>1
          <5> QED
            BY <4>1, <5>1, <5>2, BeatsTransitive
        <4>3. Good(n, n)
          BY <2>4, <2>6, <3>2, <4>2 DEF Unbeaten
        <4> QED
          BY <2>4, <3>1, <4>3
      <3> QED
        BY <3>3, <3>4
    <2>7. CASE ptable.proc[n].state = "RUNNABLE" /\ c # 0 /\ ~Beats(ptable.proc[n], ptable.proc[c])
      <3>1. Chosen[n] = c
        BY <2>3, <2>7 DEF Turn
      <3>2. Good(c, n)
        BY <2>2, <2>4, <2>7 DEF Unbeaten
      <3> QED
        BY <2>4, <3>1, <3>2
    <2> QED
      BY <2>5, <2>6, <2>7
  <1>6. S = 0 .. NPROC
    <2> HIDE DEF S
    <2>1. S \in SUBSET (0 .. NPROC)
      BY DEF S
    <2> QED
      BY <1>1, <1>4, <1>5, <2>1, AllNumbers
  <1>7. NPROC \in S
    BY <1>1, <1>6
  <1> QED
    BY <1>7 DEF Choice, Slots

\* The scheduler, locked, finds the slot of the owner.
LEMMA OwnerFound ==
    ASSUME IInv, ptable.locked_proc # Unlocked, MlfqAssumption
    PROVE  Owner \in Slots /\ ptable.proc[Owner].pid = ptable.locked_proc
  <1> DEFINE found == {s \in Slots : ptable.proc[s].pid = ptable.locked_proc}
  <1>1. found # {} /\ found \in SUBSET Nat
    BY DEF IInv, LockHasOwner, Slots
  <1>2. \E s \in found : \A r \in found : s <= r
    BY <1>1, Least
  <1>3. Owner = CHOOSE s \in found : \A r \in found : s <= r
    BY <1>1 DEF Owner
  <1> HIDE DEF found
  <1>4. Owner \in found
    BY <1>2, <1>3
  <1> QED
    BY <1>4 DEF found

-----------------------------------------------------------------------------
(* Every step keeps the invariant *)

\* The table that userinit leaves.
LEMMA InitHolds ==
    ASSUME Init, MlfqAssumption
    PROVE  IInv
  <1>1. /\ NPROC \in Nat \ {0} /\ MaxPid \in Nat \ {0} /\ initproc \in Slots
        /\ 2 \in 2 .. MaxPid + 1 /\ 1 \in 0 .. MaxPid /\ 0 \in 0 .. MaxPid
        /\ 0 \in 0 .. NPROC /\ 0 \in 0 .. TicksChan
    BY DEF MlfqAssumption, initproc, Slots, TicksChan
  <1> DEFINE e(s) == [state |-> IF s = initproc THEN "RUNNABLE" ELSE "UNUSED",
                      pid |-> IF s = initproc THEN 1 ELSE 0,
                      parent |-> 0, chan |-> 0, killed |-> FALSE, q_level |-> 0,
                      priority |-> IF s = initproc THEN 3 ELSE 0,
                      proc_ticks |-> 0, q_num |-> 0]
  <1>2. \A s \in Slots : e(s) \in Entry
    BY <1>1 DEF Entry, Queued
  <1>3. /\ \A s \in Slots : ptable.proc[s] = e(s)
        /\ ptable.locked_proc = Unlocked /\ ptable \in Tables
    BY <1>2 DEF Init, Tables
  <1>4. TypeOK
    BY <1>1, <1>3 DEF TypeOK, Init, Tables, Entry, KernelPlaces, Interruptible
  <1>5. \A s \in Slots : /\ ptable.proc[s].proc_ticks = 0 /\ ptable.proc[s].q_level = 0
                         /\ ptable.proc[s].pid = (IF s = initproc THEN 1 ELSE 0)
                         /\ s # initproc => ptable.proc[s].state = "UNUSED"
    <2> SUFFICES ASSUME NEW s \in Slots
                 PROVE  /\ e(s).proc_ticks = 0 /\ e(s).q_level = 0
                        /\ e(s).pid = (IF s = initproc THEN 1 ELSE 0)
                        /\ s # initproc => e(s).state = "UNUSED"
      BY <1>3, Zenon
    <2> QED
      OBVIOUS
  <1>6. Bounded(ptable)
    BY <1>5 DEF Bounded, MlfqAssumption
  <1>7. PidInv
    BY <1>5 DEF PidInv, Init
  <1>8. ForkInv /\ CpuInv /\ LockHasOwner
    BY <1>3 DEF Init, ForkInv, CpuInv, LockHasOwner
  <1> QED
    BY <1>3, <1>4, <1>6, <1>7, <1>8 DEF IInv

\* The process that the scheduler picks runs; it is the owner, if there is one.
LEMMA DispatchKeeps ==
    ASSUME IInv, cpu = 0, NEW s \in Slots, ptable.proc[s].state = "RUNNABLE",
           ptable.locked_proc \in {Unlocked, ptable.proc[s].pid}, Dispatch(s), MlfqAssumption
    PROVE  IInv'
  <1>1. ptable \in Tables
    BY DEF IInv
  <1>2. /\ Steady(ptable, ptable') /\ ptable'.locked_proc = ptable.locked_proc
        /\ ptable'.proc[s].state = "RUNNING"
    BY <1>1, SetState DEF Dispatch, Made
  <1>3. ptable'.proc[s].pid = ptable.proc[s].pid
    BY <1>2 DEF Steady
  <1>4. CpuInv'
    BY <1>2, <1>3 DEF Dispatch, CpuInv
  <1>5. cpu' \in 0 .. NPROC
    BY DEF Dispatch, Slots, MlfqAssumption
  <1> QED
    BY <1>2, <1>4, <1>5, SteadyKeeps DEF Dispatch, IInv, TypeOK

\* A turn of the scheduler dispatches somebody, releases a dead owner or panics.
LEMMA ScheduleKeeps ==
    ASSUME IInv, Schedule \/ ScheduleLocked, MlfqAssumption
    PROVE  IInv'
  <1>1. ptable \in Tables
    BY DEF IInv
  <1>2. CASE Schedule
    BY <1>1, <1>2, ChoiceIsBest, DispatchKeeps DEF Schedule
  <1>3. CASE ScheduleLocked
    <2>1. Owner \in Slots /\ ptable.proc[Owner].pid = ptable.locked_proc
      BY <1>3, OwnerFound DEF ScheduleLocked
    <2>2. PICK s \in Slots : s = Owner
      BY <2>1
    <2>3. CASE ptable.proc[s].state = "RUNNABLE"
      <3>1. Dispatch(s) /\ cpu = 0
        BY <1>3, <2>2, <2>3 DEF ScheduleLocked
      <3> QED
        BY <2>1, <2>2, <2>3, <3>1, DispatchKeeps
    <2>4. CASE ptable.proc[s].state = "ZOMBIE"
      <3>1. /\ ptable' = ReleaseDead(s) /\ window' = TRUE /\ cpu = 0
            /\ UNCHANGED <<nextpid, ticks, cpu, kpc, loc, panicked>>
        BY <1>3, <2>2, <2>4 DEF ScheduleLocked
      <3>2. PICK ct : ct = CloseGap(ptable, ptable.proc[s].q_level, ptable.proc[s].q_num)
        OBVIOUS
      <3>3. Calm(ptable, ct)
        BY <1>1, <3>2, CloseGapCalm
      <3>4. ptable' = [ct EXCEPT !.locked_proc = Unlocked]
        BY <3>1, <3>2 DEF ReleaseDead
      <3>5. Calm(ct, ptable')
        <4>1. ptable' \in Tables /\ ptable'.proc = ct.proc /\ ptable'.locked_proc = Unlocked
          BY <3>3, <3>4 DEF Calm, Tables
        <4> QED
          BY <4>1 DEF Calm, Bounded
      <3>6. Steady(ptable, ptable')
        BY <3>3, <3>5, CalmTwice, CalmSteady
      <3>7. CpuInv'
        BY <3>1 DEF CpuInv
      <3> QED
        BY <3>1, <3>6, <3>7, SteadyKeeps DEF IInv, TypeOK
    <2>5. CASE ptable.proc[s].state \notin {"RUNNABLE", "ZOMBIE"}
      <3>1. /\ panicked' = "acquire"
            /\ UNCHANGED <<ptable, nextpid, ticks, cpu, window, kpc, loc>>
        BY <1>3, <2>2, <2>5 DEF ScheduleLocked
      <3>2. Steady(ptable, ptable') /\ CpuInv'
        BY <1>1, <3>1 DEF Steady, IInv, CpuInv
      <3> QED
        BY <3>1, <3>2, SteadyKeeps DEF IInv, TypeOK
    <2> QED
      BY <2>3, <2>4, <2>5
  <1> QED
    BY <1>2, <1>3

\* The interrupt charges, boosts when it is due, and takes the CPU away.
LEMMA ClockKeeps ==
    ASSUME IInv, Clock, MlfqAssumption
    PROVE  IInv'
  <1>1. ptable \in Tables /\ TypeOK
    BY DEF IInv
  <1>2. cpu \in Slots \/ cpu = 0
    BY <1>1 DEF TypeOK, Slots, MlfqAssumption
  <1>3. Calm(ptable, Ticked) /\ Ticked.locked_proc = ptable.locked_proc
    BY <1>1, <1>2, TickedCalm
  <1>4. PICK st : st = Ticked
    OBVIOUS
  <1>5. st \in Tables /\ Calm(ptable, st) /\ st.locked_proc = ptable.locked_proc
    BY <1>3, <1>4 DEF Calm
  <1>6. ticks + 1 \in Nat /\ 0 \in Nat
    BY <1>1 DEF TypeOK
  <1>7. CASE TimerKilled
    <2>1. Steady(ptable, ptable')
      BY <1>3, <1>7, CalmSteady DEF TimerKilled
    <2>2. CpuInv'
      BY <1>3, <1>7, <1>2 DEF TimerKilled, IInv, CpuInv, Calm
    <2> QED
      BY <1>1, <1>6, <1>7, <2>1, <2>2, SteadyKeeps
      DEF TimerKilled, TypeOK, Goto, KernelPlaces, Interruptible
  <1>8. CASE Timer
    <2>1. cpu \in Slots /\ ptable.proc[cpu].state = "RUNNING"
      BY <1>2, <1>8 DEF Timer, IInv, CpuInv
    <2>2. PICK bt : bt = (IF BoostDue THEN PriorityBoosting(st, cpu) ELSE st)
      OBVIOUS
    <2>3. Calm(st, PriorityBoosting(st, cpu))
      BY <1>5, <2>1, BoostCalm
    <2>4. Calm(ptable, bt) /\ bt \in Tables
      BY <1>5, <2>2, <2>3, CalmTwice DEF Calm
    <2>5. bt.proc[cpu].state = "RUNNING"
      BY <2>1, <2>4 DEF Calm
    <2>6. ptable' = [bt EXCEPT !.proc[cpu].state = "RUNNABLE"]
      BY <1>4, <1>8, <2>2 DEF Timer
    <2>7. Steady(bt, ptable')
      BY <2>1, <2>4, <2>5, <2>6, SetState DEF Made
    <2>8. Steady(ptable, ptable')
      BY <2>4, <2>7, CalmSteady, SteadyTwice
    <2>9. CpuInv'
      BY <1>8 DEF Timer, CpuInv
    <2>10. /\ ticks' \in Nat /\ cpu' \in 0 .. NPROC /\ nextpid' = nextpid
           /\ UNCHANGED <<loc, panicked, window>>
      BY <1>6, <1>8 DEF Timer, MlfqAssumption
    <2>11. /\ kpc' \in [Slots -> KernelPlaces]
           /\ \A s \in Slots : kpc'[s] = "fork" => kpc[s] = "fork"
      BY <1>1, <1>8 DEF Timer, TypeOK, KernelPlaces
    <2> QED
      BY <1>1, <2>8, <2>9, <2>10, <2>11, SteadyKeeps DEF TypeOK
  <1>9. CASE TimerIdle
    <2>1. CpuInv'
      BY <1>9 DEF TimerIdle, CpuInv
    <2>2. window' \in BOOLEAN /\ UNCHANGED <<nextpid, cpu, kpc, loc>>
      BY <1>9 DEF TimerIdle, Work
    <2>3. CASE BoostDue /\ ptable.locked_proc # Unlocked
      <3>1. panicked' = "trap" /\ UNCHANGED <<ptable, ticks>>
        BY <1>9, <2>3 DEF TimerIdle
      <3>2. Steady(ptable, ptable')
        BY <1>1, <3>1 DEF Steady
      <3> QED
        BY <1>1, <2>1, <2>2, <3>1, <3>2, SteadyKeeps DEF TypeOK
    <2>4. CASE ~(BoostDue /\ ptable.locked_proc # Unlocked)
      <3>1. /\ ptable' = (IF BoostDue THEN PriorityBoosting(st, 0) ELSE st)
            /\ ticks' = (IF BoostDue THEN 0 ELSE ticks + 1) /\ UNCHANGED panicked
        BY <1>4, <1>9, <2>4 DEF TimerIdle
      <3>2. BoostDue => Calm(st, PriorityBoosting(st, 0))
        BY <1>5, <2>4, BoostCalm
      <3>3. Steady(ptable, ptable')
        BY <1>5, <3>1, <3>2, CalmTwice, CalmSteady
      <3> QED
        BY <1>1, <1>6, <2>1, <2>2, <3>1, <3>3, SteadyKeeps DEF TypeOK
    <2> QED
      BY <2>3, <2>4
  <1> QED
    BY <1>7, <1>8, <1>9 DEF Clock

Locals == [np : 0 .. NPROC, ticks0 : Nat, n : Nat, i : Nat]

\* A process that makes a steady step and goes to a place other than fork.
LEMMA CallKeeps ==
    ASSUME IInv, NEW s \in Slots, cpu = s, NEW pc \in KernelPlaces \ {"fork"}, Goto(s, pc),
           Steady(ptable, ptable'), loc' \in [Slots -> Locals],
           \A r \in Slots \ {s} : loc'[r] = loc[r],
           ticks' \in Nat, UNCHANGED <<nextpid, window, panicked>>,
           \/ cpu' = 0
           \/ /\ cpu' = cpu /\ ptable'.proc[s].state = "RUNNING"
              /\ ptable'.locked_proc \in {ptable.locked_proc, Unlocked, ptable.proc[s].pid},
           MlfqAssumption
    PROVE  IInv'
  <1>1. TypeOK
    BY DEF IInv
  <1>2. kpc' \in [Slots -> KernelPlaces] /\ \A r \in Slots : kpc'[r] = "fork" => r # s /\ kpc[r] = "fork"
    BY <1>1 DEF TypeOK, Goto
  <1>3. ptable'.proc[s].pid = ptable.proc[s].pid
    BY DEF Steady
  <1>4. CpuInv'
    BY <1>3 DEF CpuInv, IInv
  <1>5. cpu' \in 0 .. NPROC
    BY DEF Slots, MlfqAssumption
  <1> QED
    BY <1>1, <1>2, <1>4, <1>5, SteadyKeeps DEF TypeOK, Locals

\* Who is running, and where it goes when a call returns.
LEMMA Runner ==
    ASSUME IInv, NEW s \in Slots, NEW pc, Running(s, pc)
    PROVE  /\ ptable \in Tables /\ cpu = s /\ ptable.proc[s].state = "RUNNING"
           /\ loc \in [Slots -> Locals] /\ ticks \in Nat
           /\ Return(s) => \E place \in {"user", "exit"} : Goto(s, place)
  BY DEF IInv, TypeOK, CpuInv, Running, Slots, Locals, Return

\* The end of a trap changes no entry.
LEMMA TrapReturnKeeps ==
    ASSUME IInv, NEW s \in Slots, TrapReturn(s), MlfqAssumption
    PROVE  IInv'
  <1>1. Running(s, "trap")
    BY DEF TrapReturn
  <1>2. Steady(ptable, ptable')
    BY <1>1, Runner DEF TrapReturn, Steady
  <1>3. \E place \in {"user", "exit"} : Goto(s, place)
    BY DEF TrapReturn
  <1> QED
    BY <1>1, <1>2, <1>3, Runner, CallKeeps DEF TrapReturn, KernelPlaces, Interruptible

\* yield makes its caller runnable.
LEMMA YieldKeeps ==
    ASSUME IInv, NEW s \in Slots, Yield(s), MlfqAssumption
    PROVE  IInv'
  <1>1. Running(s, "user")
    BY DEF Yield, Calling
  <1>2. Steady(ptable, ptable')
    BY <1>1, Runner, SetState DEF Yield, Made
  <1>3. \E place \in {"user", "exit"} : Goto(s, place)
    BY <1>1, Runner DEF Yield
  <1> QED
    BY <1>1, <1>2, <1>3, Runner, CallKeeps DEF Yield, KernelPlaces, Interruptible

\* setPriority changes one priority, of any live process.
LEMMA SetPriorityKeeps ==
    ASSUME IInv, NEW s \in Slots, NEW r \in Slots, NEW priority \in Prios,
           SetPriority(s, r, priority), MlfqAssumption
    PROVE  IInv'
  <1>1. Running(s, "user")
    BY DEF SetPriority, Calling
  <1>2. ptable \in Tables /\ priority \in 0 .. 3
    BY <1>1, Runner DEF MlfqAssumption
  <1> DEFINE f == [ptable.proc[r] EXCEPT !.priority = priority]
  <1>3. /\ f \in Entry /\ f.pid = ptable.proc[r].pid /\ f.state = ptable.proc[r].state
        /\ f.proc_ticks = ptable.proc[r].proc_ticks /\ f.q_level = ptable.proc[r].q_level
    BY <1>2 DEF Tables, Entry
  <1>4. ptable' = [ptable EXCEPT !.proc[r] = f]
    BY <1>2 DEF SetPriority, Tables
  <1> HIDE DEF f
  <1>5. /\ Steady(ptable, ptable') /\ ptable'.locked_proc = ptable.locked_proc
        /\ ptable'.proc = [ptable.proc EXCEPT ![r] = f]
    BY <1>2, <1>3, <1>4, SetEntry
  <1>6. ptable'.proc[s].state = "RUNNING"
    BY <1>1, <1>2, <1>3, <1>5, Runner DEF Tables
  <1>7. \E place \in {"user", "exit"} : Goto(s, place)
    BY <1>1, Runner DEF SetPriority
  <1> QED
    BY <1>1, <1>5, <1>6, <1>7, Runner, CallKeeps DEF SetPriority, KernelPlaces, Interruptible

\* schedulerLock puts the caller's own pid into locked_proc.
LEMMA LockKeeps ==
    ASSUME IInv, NEW s \in Slots, Lock(s), MlfqAssumption
    PROVE  IInv'
  <1>1. Running(s, "user")
    BY DEF Lock, Calling
  <1>2. ptable \in Tables /\ ptable.proc[s].pid \in 1 .. MaxPid
    BY <1>1, Runner DEF IInv, PidInv, TypeOK, Tables, Entry, MlfqAssumption
  <1>3. /\ ptable' \in Tables /\ ptable'.proc = ptable.proc
        /\ ptable'.locked_proc \in {ptable.locked_proc, ptable.proc[s].pid}
    BY <1>2 DEF Lock, SchedulerLock, Tables
  <1>4. Steady(ptable, ptable') /\ ptable'.proc[s].state = "RUNNING"
    BY <1>1, <1>3, Runner DEF Steady, Bounded
  <1>5. \E place \in {"user", "exit"} : Goto(s, place)
    BY <1>1, Runner DEF Lock
  <1> QED
    BY <1>1, <1>3, <1>4, <1>5, Runner, CallKeeps DEF Lock, KernelPlaces, Interruptible

\* A call that only does bookkeeping of the queues.
LEMMA QueueCallKeeps ==
    ASSUME IInv, NEW s \in Slots, NEW pc, Running(s, pc), NEW place \in KernelPlaces \ {"fork"},
           Goto(s, place), Calm(ptable, ptable'), loc' \in [Slots -> Locals],
           \A r \in Slots \ {s} : loc'[r] = loc[r],
           ticks' \in Nat, UNCHANGED <<nextpid, cpu, window, panicked>>,
           MlfqAssumption
    PROVE  IInv'
  <1>1. Steady(ptable, ptable') /\ ptable'.locked_proc \in {ptable.locked_proc, Unlocked}
    BY CalmSteady DEF Calm
  <1>2. ptable'.proc[s].state = "RUNNING"
    BY Runner DEF Calm
  <1> QED
    BY <1>1, <1>2, Runner, CallKeeps

\* schedulerUnlock is bookkeeping.
LEMMA UnlockKeeps ==
    ASSUME IInv, NEW s \in Slots, Unlock(s), MlfqAssumption
    PROVE  IInv'
  <1>1. Running(s, "user")
    BY DEF Unlock, Calling
  <1>2. Calm(ptable, ptable')
    BY <1>1, Runner, UnlockCalm DEF Unlock
  <1>3. \E place \in {"user", "exit"} : Goto(s, place)
    BY <1>1, Runner DEF Unlock
  <1> QED
    BY <1>1, <1>2, <1>3, Runner, QueueCallKeeps DEF Unlock, KernelPlaces, Interruptible

\* The loops of int 131, one by one.
LEMMA BoostKeeps ==
    ASSUME IInv, NEW s \in Slots,
           Boost(s) \/ BoostL0(s) \/ BoostLevel(s) \/ BoostTicks(s), MlfqAssumption
    PROVE  IInv'
  <1>1. ptable \in Tables /\ loc \in [Slots -> Locals] /\ ticks \in Nat
    BY DEF IInv, TypeOK, Locals
  <1>2. \A ls : Cardinality(At(ptable, ls)) \in Nat
    BY CountSlots DEF At
  <1>3. ASSUME NEW i \in Nat
        PROVE  LET l == [loc EXCEPT ![s].i = i] IN
               l \in [Slots -> Locals] /\ \A r \in Slots \ {s} : l[r] = loc[r]
    BY <1>1 DEF Locals
  <1>4. CASE Boost(s)
    BY <1>1, <1>4, NoSizesCalm, QueueCallKeeps
    DEF Boost, Calling, KernelPlaces, Interruptible
  <1>5. CASE BoostL0(s)
    <2>1. Calm(ptable, ptable')
      BY <1>1, <1>5, UnlockCalm, LiftCalm DEF BoostL0, LiftL0
    <2>2. LiftedL0(ptable) \in Nat
      BY <1>2 DEF LiftedL0
    <2> QED
      BY <1>1, <1>3, <1>5, <2>1, <2>2, QueueCallKeeps
      DEF BoostL0, KernelPlaces, Interruptible
  <1>6. CASE BoostLevel(s)
    <2>1. PICK l \in {1, 2} :
            /\ Running(s, IF l = 1 THEN "boost1" ELSE "boost2")
            /\ ptable' = Lift(ptable, {l}, loc[s].i)
            /\ loc' = [loc EXCEPT ![s].i = @ + Cardinality(At(ptable, {l}))]
            /\ Goto(s, IF l = 1 THEN "boost2" ELSE "boost3")
            /\ UNCHANGED <<nextpid, ticks, cpu, window, panicked>>
      BY <1>6 DEF BoostLevel
    <2>2. PICK c \in Nat : c = Cardinality(At(ptable, {l}))
      BY <1>2
    <2>3. loc[s].i \in Nat /\ loc[s].i + c \in Nat
      BY <1>1 DEF Locals
    <2>4. loc' = [loc EXCEPT ![s].i = loc[s].i + c]
      BY <1>1, <2>1, <2>2 DEF Locals
    <2>5. loc' \in [Slots -> Locals] /\ \A r \in Slots \ {s} : loc'[r] = loc[r]
      BY <1>3, <2>3, <2>4
    <2>6. Calm(ptable, ptable')
      BY <1>1, <2>1, <2>3, LiftCalm
    <2>7. PICK place \in {"boost2", "boost3"} : Goto(s, place)
      BY <2>1
    <2> QED
      BY <1>1, <2>1, <2>5, <2>6, <2>7, QueueCallKeeps DEF KernelPlaces, Interruptible
  <1>7. CASE BoostTicks(s)
    <2>1. Calm(ptable, ptable')
      BY <1>1, <1>7 DEF BoostTicks, Calm
    <2>2. PICK place \in {"user", "exit"} : Goto(s, place)
      BY <1>7, Runner DEF BoostTicks
    <2> QED
      BY <1>1, <1>3, <1>7, <2>1, <2>2, QueueCallKeeps
      DEF BoostTicks, KernelPlaces, Interruptible
  <1> QED
    BY <1>4, <1>5, <1>6, <1>7

\* An entry whose channel is set is otherwise the same.
LEMMA SetChan ==
    ASSUME NEW pt \in Tables, NEW s \in Slots, NEW chan \in 0 .. TicksChan
    PROVE  LET qt == [pt EXCEPT !.proc[s].chan = chan] IN
           /\ Steady(pt, qt) /\ qt.locked_proc = pt.locked_proc
           /\ qt.proc[s].state = pt.proc[s].state
  <1> DEFINE f == [pt.proc[s] EXCEPT !.chan = chan]
  <1>1. /\ f \in Entry /\ f.pid = pt.proc[s].pid /\ f.state = pt.proc[s].state
        /\ f.proc_ticks = pt.proc[s].proc_ticks /\ f.q_level = pt.proc[s].q_level
    BY DEF Tables, Entry
  <1>2. [pt EXCEPT !.proc[s].chan = chan] = [pt EXCEPT !.proc[s] = f]
    BY DEF Tables
  <1> HIDE DEF f
  <1>3. PICK qt : qt = [pt EXCEPT !.proc[s] = f]
    OBVIOUS
  <1>4. Steady(pt, qt) /\ qt.locked_proc = pt.locked_proc /\ qt.proc = [pt.proc EXCEPT ![s] = f]
    BY <1>1, <1>3, SetEntry
  <1> QED
    BY <1>1, <1>2, <1>3, <1>4 DEF Tables

\* sleep gives the CPU up.
LEMMA SleepOnSteady ==
    ASSUME ptable \in Tables, NEW s \in Slots, NEW chan \in 0 .. TicksChan, SleepOn(s, chan),
           ptable.proc[s].state = "RUNNING"
    PROVE  Steady(ptable, ptable') /\ cpu' = 0
  <1>1. PICK qt : qt = [ptable EXCEPT !.proc[s].chan = chan]
    OBVIOUS
  <1>2. Steady(ptable, qt) /\ qt.proc[s].state = "RUNNING" /\ qt \in Tables
    BY <1>1, SetChan DEF Steady
  <1>3. ptable' = [qt EXCEPT !.proc[s].state = "SLEEPING"]
    BY <1>1 DEF SleepOn, Tables, Entry
  <1>4. Steady(qt, ptable')
    BY <1>2, <1>3, SetState DEF Made
  <1> QED
    BY <1>2, <1>4, SteadyTwice DEF SleepOn

\* sys_sleep, from its call to the end of its loop.
LEMMA SleepKeeps ==
    ASSUME IInv, NEW s \in Slots, SleepLoop(s) \/ \E n \in Naps : Sleep(s, n), MlfqAssumption
    PROVE  IInv'
  <1>1. Running(s, "sleep") \/ Running(s, "user")
    BY DEF SleepLoop, Sleep, Calling
  <1>2. /\ ptable \in Tables /\ cpu = s /\ ptable.proc[s].state = "RUNNING"
        /\ loc \in [Slots -> Locals] /\ ticks \in Nat
    BY <1>1, Runner
  <1>3. TicksChan \in 0 .. TicksChan /\ 0 \in 0 .. TicksChan
    BY DEF TicksChan, MlfqAssumption
  <1>4. ASSUME NEW t \in Nat, NEW n \in Nat
        PROVE  LET l == [loc EXCEPT ![s].ticks0 = t, ![s].n = n] IN
               l \in [Slots -> Locals] /\ \A r \in Slots \ {s} : l[r] = loc[r]
    BY <1>2 DEF Locals
  <1>5. CASE \E n \in Naps : Sleep(s, n)
    <2>1. PICK n \in Naps : Sleep(s, n)
      BY <1>5
    <2>2. Steady(ptable, ptable') /\ cpu' = 0
      BY <1>2, <1>3, <2>1, SleepOnSteady DEF Sleep
    <2>3. loc' \in [Slots -> Locals] /\ \A r \in Slots \ {s} : loc'[r] = loc[r]
      BY <1>2, <1>4, <2>1 DEF Sleep, MlfqAssumption
    <2> QED
      BY <1>2, <2>1, <2>2, <2>3, CallKeeps DEF Sleep, KernelPlaces, Interruptible
  <1>6. CASE SleepLoop(s)
    <2>1. CASE SleepOn(s, TicksChan) /\ UNCHANGED <<kpc, loc>>
      <3>1. Steady(ptable, ptable') /\ cpu' = 0
        BY <1>2, <1>3, <2>1, SleepOnSteady
      <3>2. CpuInv'
        BY <3>1 DEF CpuInv
      <3>3. cpu' \in 0 .. NPROC
        BY <3>1 DEF MlfqAssumption
      <3> QED
        BY <1>6, <2>1, <3>1, <3>2, <3>3, SteadyKeeps DEF SleepLoop, IInv, TypeOK
    <2>2. CASE /\ ptable' = [ptable EXCEPT !.proc[s].chan = 0]
               /\ loc' = [loc EXCEPT ![s].ticks0 = 0, ![s].n = 0]
               /\ Return(s) /\ UNCHANGED cpu
      <3>1. /\ Steady(ptable, ptable') /\ ptable'.locked_proc = ptable.locked_proc
            /\ ptable'.proc[s].state = "RUNNING"
        BY <1>2, <1>3, <2>2, SetChan
      <3>2. loc' \in [Slots -> Locals] /\ \A r \in Slots \ {s} : loc'[r] = loc[r]
        BY <1>4, <2>2
      <3>3. PICK place \in {"user", "exit"} : Goto(s, place)
        BY <1>1, <2>2, Runner
      <3> QED
        BY <1>2, <1>6, <2>2, <3>1, <3>2, <3>3, CallKeeps
        DEF SleepLoop, KernelPlaces, Interruptible
    <2> QED
      BY <1>6, <2>1, <2>2 DEF SleepLoop
  <1> QED
    BY <1>5, <1>6

\* kill marks an entry and wakes it if it sleeps, whatever state it is in.
LEMMA KillKeeps ==
    ASSUME IInv, NEW s \in Slots, NEW r \in Slots, Kill(s, r), MlfqAssumption
    PROVE  IInv'
  <1>1. Running(s, "user")
    BY DEF Kill, Calling
  <1>2. ptable \in Tables /\ ptable.proc[s].state = "RUNNING" /\ cpu = s
        /\ loc \in [Slots -> Locals] /\ ticks \in Nat
    BY <1>1, Runner
  <1> DEFINE st == IF ptable.proc[r].state = "SLEEPING" THEN "RUNNABLE" ELSE ptable.proc[r].state
             f == [ptable.proc[r] EXCEPT !.killed = TRUE, !.state = st]
  <1>3. /\ f \in Entry /\ f.pid = ptable.proc[r].pid
        /\ f.state = ptable.proc[r].state
           \/ (ptable.proc[r].state = "SLEEPING" /\ f.state = "RUNNABLE")
        /\ f.proc_ticks = ptable.proc[r].proc_ticks /\ f.q_level = ptable.proc[r].q_level
    <2>1. ptable.proc[r] \in Entry
      BY <1>2 DEF Tables
    <2>2. /\ st \in Queued \union {"UNUSED", "ZOMBIE"}
          /\ st = ptable.proc[r].state \/ (ptable.proc[r].state = "SLEEPING" /\ st = "RUNNABLE")
      BY <2>1 DEF Entry, Queued
    <2> HIDE DEF st
    <2>3. f.state = st
      BY <2>1 DEF Entry
    <2> QED
      BY <2>1, <2>2, <2>3 DEF Entry
  <1>4. ptable' = [ptable EXCEPT !.proc[r] = f]
    BY <1>2 DEF Kill, Tables, Entry
  <1> HIDE DEF f
  <1>5. /\ Steady(ptable, ptable') /\ ptable'.locked_proc = ptable.locked_proc
        /\ ptable'.proc = [ptable.proc EXCEPT ![r] = f]
    BY <1>2, <1>3, <1>4, SetEntry DEF Made
  <1>6. ptable'.proc[s].state = "RUNNING"
    BY <1>2, <1>3, <1>5 DEF Tables
  <1>7. PICK place \in {"user", "exit"} : Goto(s, place)
    BY DEF Kill
  <1> QED
    BY <1>2, <1>5, <1>6, <1>7, CallKeeps DEF Kill, KernelPlaces, Interruptible

\* exit wakes the parent, gives its children to initproc and becomes a zombie.
LEMMA ExitKeeps ==
    ASSUME IInv, NEW s \in Slots, Exit(s), MlfqAssumption
    PROVE  IInv'
  <1>1. Running(s, "user") \/ Running(s, "exit")
    BY DEF Exit, Calling
  <1>2. ptable \in Tables /\ ptable.proc[s].state = "RUNNING" /\ cpu = s
        /\ loc \in [Slots -> Locals] /\ ticks \in Nat
    BY <1>1, Runner
  <1>3. PICK orphans : orphans = {r \in Slots : ptable.proc[r].parent = s}
    OBVIOUS
  <1>4. PICK woken \in Tables : woken = wakeup1(ptable, ptable.proc[s].parent) /\ Calm(ptable, woken)
    BY <1>2, WakeupCalm DEF Calm
  <1>5. PICK told \in Tables :
           /\ told = (IF \E r \in orphans : ptable.proc[r].state = "ZOMBIE"
                      THEN wakeup1(woken, initproc) ELSE woken)
           /\ Calm(ptable, told)
    <2>1. Calm(woken, wakeup1(woken, initproc)) /\ Calm(ptable, wakeup1(woken, initproc))
      BY <1>4, WakeupCalm, CalmTwice
    <2> DEFINE d == IF \E r \in orphans : ptable.proc[r].state = "ZOMBIE"
                    THEN wakeup1(woken, initproc) ELSE woken
    <2>2. d = woken \/ d = wakeup1(woken, initproc)
      OBVIOUS
    <2>3. Calm(ptable, d) /\ d \in Tables
      BY <1>4, <2>1, <2>2, CalmTable
    <2> QED
      BY <2>3
  <1> DEFINE P == [r \in Slots |->
                     IF r = s THEN [told.proc[r] EXCEPT !.state = "ZOMBIE"]
                     ELSE IF r \in orphans THEN [told.proc[r] EXCEPT !.parent = initproc]
                     ELSE told.proc[r]]
  <1>6. ptable' = [told EXCEPT !.proc = P]
    BY <1>3, <1>4, <1>5 DEF Exit, ForEach
  <1>7. \A e \in Entry :
           LET z == [e EXCEPT !.state = "ZOMBIE"]
               o == [e EXCEPT !.parent = initproc]
           IN  /\ z \in Entry /\ z.pid = e.pid /\ z.state = "ZOMBIE"
               /\ z.proc_ticks = e.proc_ticks /\ z.q_level = e.q_level
               /\ o \in Entry /\ o.pid = e.pid /\ o.state = e.state
               /\ o.proc_ticks = e.proc_ticks /\ o.q_level = e.q_level
    <2>1. 1 \in 0 .. NPROC
      BY DEF MlfqAssumption
    <2> QED
      BY <2>1 DEF Entry, initproc
  <1>8. \A r \in Slots : told.proc[r] \in Entry
    BY DEF Tables
  <1>9. \A r \in Slots :
           /\ P[r] \in Entry /\ P[r].pid = told.proc[r].pid
           /\ P[r].proc_ticks = told.proc[r].proc_ticks /\ P[r].q_level = told.proc[r].q_level
           /\ P[r].state = (IF r = s THEN "ZOMBIE" ELSE told.proc[r].state)
    BY <1>7, <1>8
  <1>10. P \in [Slots -> Entry]
    BY <1>9
  <1>11. told.proc[s].state = "RUNNING"
    BY <1>2, <1>5 DEF Calm
  <1> HIDE DEF P
  <1>12. ptable' \in Tables /\ ptable'.proc = P /\ ptable'.locked_proc = told.locked_proc
    BY <1>6, <1>10 DEF Tables
  <1>13. Bounded(told) => Bounded(ptable')
    BY <1>9, <1>12 DEF Bounded
  <1>14. Steady(told, ptable')
    BY <1>9, <1>11, <1>12, <1>13 DEF Steady, Made
  <1>15. Steady(ptable, ptable')
    BY <1>5, <1>14, CalmSteady, SteadyTwice
  <1> QED
    BY <1>2, <1>15, CallKeeps DEF Exit, KernelPlaces, Interruptible

\* wait frees the entry of a zombie: not that of the owner of the lock, who is
\* the caller, so that locked_proc stays.
LEMMA ReapKeeps ==
    ASSUME IInv, NEW s \in Slots, cpu = s, NEW z \in Slots, ptable.proc[z].state = "ZOMBIE",
           Reap(s, z), NEW place \in {"user", "exit"}, Goto(s, place),
           UNCHANGED <<nextpid, ticks, cpu, loc, panicked, window>>, MlfqAssumption
    PROVE  IInv'
  <1>1. /\ ptable \in Tables /\ ptable.proc[s].state = "RUNNING" /\ z # s
        /\ ptable.locked_proc \in {Unlocked, ptable.proc[s].pid}
    BY DEF IInv, CpuInv, Slots
  <1>2. ptable.locked_proc # ptable.proc[z].pid
    BY <1>1 DEF IInv, PidInv, Tables, Entry, Unlocked
  <1>3. PICK l \in 0 .. 2, ct \in Tables :
          /\ l = ptable.proc[s].q_level
          /\ ct = CloseGap(ptable, l, ptable.proc[s].q_num) /\ Calm(ptable, ct)
          /\ ct.locked_proc = ptable.locked_proc
    <2>1. PICK l \in 0 .. 2 : l = ptable.proc[s].q_level
      BY <1>1 DEF Tables, Entry
    <2>2. CloseGap(ptable, l, ptable.proc[s].q_num).locked_proc = ptable.locked_proc
      BY <1>1 DEF CloseGap, ForEach, Tables
    <2> QED
      BY <1>1, <2>1, <2>2, CloseGapCalm DEF Calm
  <1> DEFINE f == [ct.proc[z] EXCEPT !.state = "UNUSED", !.pid = 0, !.parent = 0,
                                     !.killed = FALSE, !.q_level = 0, !.q_num = 0,
                                     !.proc_ticks = 0]
             g == [ct.proc[s] EXCEPT !.chan = 0]
             size == [ct.size EXCEPT ![l] = @ - 1]
  <1>4. /\ f \in Entry /\ f.state = "UNUSED" /\ f.pid = 0 /\ f.q_level = 0 /\ f.proc_ticks = 0
        /\ g \in Entry /\ g.state = ct.proc[s].state /\ g.pid = ct.proc[s].pid
        /\ g.q_level = ct.proc[s].q_level /\ g.proc_ticks = ct.proc[s].proc_ticks
    <2>1. ct.proc[z] \in Entry /\ ct.proc[s] \in Entry
      BY DEF Tables
    <2>2. 0 \in 0 .. MaxPid /\ 0 \in 0 .. NPROC /\ 0 \in 0 .. TicksChan
      BY DEF MlfqAssumption, TicksChan
    <2>3. f \in Entry /\ f.state = "UNUSED" /\ f.pid = 0 /\ f.q_level = 0 /\ f.proc_ticks = 0
      <3> DEFINE d(e) == [e EXCEPT !.state = "UNUSED", !.pid = 0, !.parent = 0, !.killed = FALSE]
                 h(e) == [e EXCEPT !.q_level = 0, !.q_num = 0, !.proc_ticks = 0]
      <3>1. \A e \in Entry : d(e) \in Entry /\ d(e).state = "UNUSED" /\ d(e).pid = 0
        BY <2>2 DEF Entry
      <3>2. \A e \in Entry : /\ h(e) \in Entry /\ h(e).state = e.state /\ h(e).pid = e.pid
                             /\ h(e).q_level = 0 /\ h(e).proc_ticks = 0
        <4>1. 0 \in 0 .. 2 /\ 0 \in Nat /\ 0 \in Int
          OBVIOUS
        <4> QED
          BY <4>1 DEF Entry
      <3>3. f = h(d(ct.proc[z]))
        BY Zenon
      <3> HIDE DEF f, d, h
      <3> QED
        BY <2>1, <3>1, <3>2, <3>3
    <2>4. /\ g \in Entry /\ g.state = ct.proc[s].state /\ g.pid = ct.proc[s].pid
          /\ g.q_level = ct.proc[s].q_level /\ g.proc_ticks = ct.proc[s].proc_ticks
      BY <2>1, <2>2 DEF Entry
    <2> QED
      BY <2>3, <2>4
  <1>5. size \in [0 .. 2 -> Int]
    BY DEF Tables
  <1>6. /\ ptable'.proc = [ct.proc EXCEPT ![z] = f, ![s] = g] /\ ptable'.size = size
        /\ ptable'.locked_proc = ptable.locked_proc
        /\ ptable' = [proc |-> ptable'.proc, size |-> size, locked_proc |-> ptable'.locked_proc]
    BY <1>1, <1>2, <1>3 DEF Reap, Tables
  <1> HIDE DEF f, g, size
  <1>7. ptable' \in Tables
    BY <1>1, <1>4, <1>5, <1>6 DEF Tables
  <1>8. /\ ptable'.proc[z] = f /\ ptable'.proc[s] = g
        /\ \A r \in Slots \ {s, z} : ptable'.proc[r] = ct.proc[r]
    BY <1>1, <1>6 DEF Tables
  <1>9. \A r \in Slots :
           /\ ct.proc[r].pid = ptable.proc[r].pid
           /\ \/ ct.proc[r].state = ptable.proc[r].state
              \/ ptable.proc[r].state = "SLEEPING" /\ ct.proc[r].state = "RUNNABLE"
    BY <1>3 DEF Calm
  <1>10. Bounded(ptable')
    <2>1. Bounded(ptable) => Bounded(ct)
      BY <1>3 DEF Calm
    <2>2. Bounded(ptable)
      BY DEF IInv
    <2>3. 0 < QUANTUM[0]
      BY DEF MlfqAssumption
    <2> QED
      BY <1>4, <1>8, <2>1, <2>2, <2>3 DEF Bounded
  <1>11. /\ \A r \in Slots \ {z} : /\ ptable'.proc[r].pid = ptable.proc[r].pid
                                   /\ \/ ptable'.proc[r].state = ptable.proc[r].state
                                      \/ /\ ptable.proc[r].state = "SLEEPING"
                                         /\ ptable'.proc[r].state = "RUNNABLE"
         /\ ptable'.proc[z].pid = 0 /\ ptable'.proc[z].state = "UNUSED"
         /\ ptable'.proc[s].state = "RUNNING"
    BY <1>1, <1>4, <1>8, <1>9
  <1>12. PidInv'
    BY <1>11 DEF IInv, PidInv, TypeOK
  <1>13. ForkInv'
    BY <1>11 DEF IInv, ForkInv, Goto, TypeOK
  <1>14. CpuInv' /\ LockHasOwner'
    BY <1>1, <1>6, <1>11 DEF CpuInv, LockHasOwner
  <1>15. TypeOK'
    BY <1>7 DEF IInv, TypeOK, Tables, Entry, Goto, KernelPlaces, Interruptible
  <1> QED
    BY <1>7, <1>10, <1>12, <1>13, <1>14, <1>15 DEF IInv

\* wait reaps, fails or sleeps.
LEMMA WaitKeeps ==
    ASSUME IInv, NEW s \in Slots, Wait(s), MlfqAssumption
    PROVE  IInv'
  <1>1. Running(s, "user") \/ Running(s, "wait")
    BY DEF Wait, Calling
  <1>2. ptable \in Tables /\ ptable.proc[s].state = "RUNNING" /\ cpu = s
        /\ loc \in [Slots -> Locals] /\ ticks \in Nat
    BY <1>1, Runner
  <1>3. UNCHANGED <<nextpid, ticks, loc, panicked, window>>
    BY DEF Wait
  <1>4. s \in 0 .. TicksChan /\ 0 \in 0 .. TicksChan
    BY DEF Slots, TicksChan, MlfqAssumption
  <1>5. \/ \E z \in Slots : ptable.proc[z].state = "ZOMBIE" /\ Reap(s, z) /\ Return(s) /\ UNCHANGED cpu
        \/ ptable' = [ptable EXCEPT !.proc[s].chan = 0] /\ Return(s) /\ UNCHANGED cpu
        \/ SleepOn(s, s) /\ Goto(s, "wait")
    BY DEF Wait
  <1>6. Return(s) => \E place \in {"user", "exit"} : Goto(s, place)
    BY DEF Return
  <1>7. CASE \E z \in Slots : ptable.proc[z].state = "ZOMBIE" /\ Reap(s, z) /\ Return(s) /\ UNCHANGED cpu
    BY <1>2, <1>3, <1>6, <1>7, ReapKeeps
  <1>8. CASE ptable' = [ptable EXCEPT !.proc[s].chan = 0] /\ Return(s) /\ UNCHANGED cpu
    <2>1. /\ Steady(ptable, ptable') /\ ptable'.locked_proc = ptable.locked_proc
          /\ ptable'.proc[s].state = "RUNNING"
      BY <1>2, <1>4, <1>8, SetChan
    <2> QED
      BY <1>2, <1>3, <1>6, <1>8, <2>1, CallKeeps DEF KernelPlaces, Interruptible
  <1>9. CASE SleepOn(s, s) /\ Goto(s, "wait")
    <2>1. Steady(ptable, ptable') /\ cpu' = 0
      BY <1>2, <1>4, <1>9, SleepOnSteady
    <2> QED
      BY <1>2, <1>3, <1>9, <2>1, CallKeeps DEF KernelPlaces, Interruptible
  <1> QED
    BY <1>5, <1>7, <1>8, <1>9

\* fork takes a slot that nobody uses, with a pid that nobody had.
LEMMA ForkKeeps ==
    ASSUME IInv, NEW s \in Slots, Fork(s), MlfqAssumption
    PROVE  IInv'
  <1>1. Running(s, "user") /\ nextpid <= MaxPid
    BY DEF Fork, Calling
  <1>2. ptable \in Tables /\ ptable.proc[s].state = "RUNNING" /\ cpu = s
        /\ loc \in [Slots -> Locals] /\ ticks \in Nat
    BY <1>1, Runner
  <1>3. PICK np \in Slots :
          /\ ptable.proc[np].state = "UNUSED"
          /\ ptable' = [ptable EXCEPT
                           !.proc[np] = [@ EXCEPT !.state = "EMBRYO", !.pid = nextpid,
                                                  !.priority = 3, !.q_num = ptable.size[0]],
                           !.size[0] = @ + 1]
          /\ loc' = [loc EXCEPT ![s].np = np]
    BY DEF Fork
  <1>4. /\ nextpid' = nextpid + 1 /\ Goto(s, "fork")
        /\ UNCHANGED <<ticks, cpu, panicked, window>>
    BY DEF Fork
  <1>5. nextpid \in 2 .. MaxPid /\ nextpid \in 0 .. MaxPid /\ nextpid + 1 \in 2 .. MaxPid + 1
    BY <1>1 DEF IInv, TypeOK, MlfqAssumption
  <1>6. PICK n \in Int : n = ptable.size[0]
    BY <1>2 DEF Tables
  <1>7. PICK e \in Entry : e = ptable.proc[np]
    BY <1>2 DEF Tables
  <1> DEFINE f == [e EXCEPT !.state = "EMBRYO", !.pid = nextpid, !.priority = 3, !.q_num = n]
  <1>8. /\ f \in Entry /\ f.state = "EMBRYO" /\ f.pid = nextpid
        /\ f.proc_ticks = e.proc_ticks /\ f.q_level = e.q_level
    <2>1. 3 \in 0 .. 3 /\ "EMBRYO" \in Queued
      BY DEF Queued
    <2> QED
      BY <1>5, <2>1 DEF Entry
  <1>9. ptable' = [ptable EXCEPT !.proc[np] = f, !.size[0] = n + 1]
    BY <1>2, <1>3, <1>6, <1>7 DEF Tables, Entry
  <1> HIDE DEF f
  <1>10. /\ ptable' \in Tables /\ Bounded(ptable') /\ ptable'.locked_proc = ptable.locked_proc
         /\ ptable'.proc[np] = f /\ \A r \in Slots \ {np} : ptable'.proc[r] = ptable.proc[r]
    <2>1. Bounded(ptable) /\ f.proc_ticks < QUANTUM[f.q_level]
      BY <1>7, <1>8 DEF IInv, Bounded
    <2>2. n + 1 \in Int
      OBVIOUS
    <2>3. ptable' \in Tables /\ ptable'.locked_proc = ptable.locked_proc
      BY <1>2, <1>8, <1>9, <2>2 DEF Tables
    <2>4. ptable'.proc[np] = f /\ \A r \in Slots \ {np} : ptable'.proc[r] = ptable.proc[r]
      BY <1>2, <1>9 DEF Tables
    <2> QED
      BY <2>1, <2>3, <2>4 DEF Bounded
  <1>11. np # s /\ np \in 0 .. NPROC
    BY <1>2, <1>3 DEF Slots, MlfqAssumption
  <1>12. /\ loc' \in [Slots -> Locals] /\ loc'[s].np = np
         /\ \A r \in Slots \ {s} : loc'[r] = loc[r]
    BY <1>2, <1>3, <1>11 DEF Locals
  <1>13. /\ kpc' \in [Slots -> KernelPlaces]
         /\ \A r \in Slots \ {s} : kpc'[r] = kpc[r]
    BY <1>4 DEF IInv, TypeOK, Goto, KernelPlaces, Interruptible
  <1>14. TypeOK'
    BY <1>4, <1>5, <1>10, <1>12, <1>13 DEF IInv, TypeOK, Tables, Entry, Locals
  <1>15. PidInv'
    <2>1. /\ \A r \in Slots :
                /\ ptable.proc[r].pid < nextpid
                /\ ptable.proc[r].state # "UNUSED" => ptable.proc[r].pid # 0
          /\ \A q, r \in Slots : ptable.proc[q].pid = ptable.proc[r].pid
                                 /\ ptable.proc[q].pid # 0 => q = r
          /\ \A r \in Slots : ptable.proc[r].pid \in Nat /\ ptable.proc[r].pid # nextpid
      BY <1>2, <1>5 DEF IInv, PidInv, Tables, Entry
    <2>2. \A r \in Slots : ptable'.proc[r].pid = IF r = np THEN nextpid ELSE ptable.proc[r].pid
      BY <1>8, <1>10
    <2>3. \A r \in Slots :
             /\ ptable'.proc[r].pid < nextpid + 1
             /\ ptable'.proc[r].state # "UNUSED" => ptable'.proc[r].pid # 0
      <3>1. \A r \in Slots \ {np} : ptable'.proc[r].state = ptable.proc[r].state
        BY <1>10
      <3>2. nextpid \in Nat /\ nextpid # 0
        BY <1>5
      <3>3. \A r \in Slots : ptable'.proc[r].pid < nextpid + 1
        BY <2>1, <2>2, <3>2
      <3> QED
        BY <2>1, <2>2, <3>1, <3>2, <3>3
    <2>4. \A q, r \in Slots : ptable'.proc[q].pid = ptable'.proc[r].pid
                              /\ ptable'.proc[q].pid # 0 => q = r
      BY <2>1, <2>2
    <2> QED
      BY <1>4, <2>3, <2>4 DEF PidInv
  <1>16. ForkInv'
    <2>1. \A r \in Slots \ {s} : kpc'[r] = "fork" =>
            loc'[r].np \in Slots \ {np} /\ ptable'.proc[loc'[r].np].state = "EMBRYO"
      BY <1>3, <1>10, <1>12, <1>13 DEF IInv, ForkInv
    <2>2. \A q, r \in Slots \ {s} : kpc'[q] = "fork" /\ kpc'[r] = "fork" /\ loc'[q].np = loc'[r].np => q = r
      BY <1>12, <1>13 DEF IInv, ForkInv
    <2>3. loc'[s].np = np /\ ptable'.proc[np].state = "EMBRYO"
      BY <1>8, <1>10, <1>12
    <2> QED
      BY <2>1, <2>2, <2>3 DEF ForkInv
  <1>17. CpuInv' /\ LockHasOwner'
    BY <1>2, <1>3, <1>4, <1>10, <1>11 DEF IInv, CpuInv, LockHasOwner
  <1> QED
    BY <1>10, <1>14, <1>15, <1>16, <1>17 DEF IInv

\* The child of a fork under way is neither the parent nor the owner of the lock.
LEMMA EndForkKeeps ==
    ASSUME IInv, NEW s \in Slots, Running(s, "fork"), ForkFails(s) \/ ForkReady(s), MlfqAssumption
    PROVE  IInv'
  <1>1. ptable \in Tables /\ ptable.proc[s].state = "RUNNING" /\ cpu = s /\ kpc[s] = "fork"
        /\ loc \in [Slots -> Locals] /\ ticks \in Nat
    BY Runner DEF Running
  <1>2. PICK np \in Slots : np = loc[s].np /\ ptable.proc[np].state = "EMBRYO"
    BY <1>1 DEF IInv, ForkInv
  <1>3. np # s
    BY <1>1, <1>2
  <1>4. PICK n \in Int : n = ptable.size[0]
    BY <1>1 DEF Tables
  <1>5. PICK e \in Entry : e = ptable.proc[np]
    BY <1>1 DEF Tables
  <1>6. PICK f \in Entry, m \in Int :
          /\ ptable' = [ptable EXCEPT !.proc[np] = f, !.size[0] = m]
          /\ f.pid = e.pid /\ f.state \in {"UNUSED", "RUNNABLE"}
          /\ f.proc_ticks < QUANTUM[f.q_level]
    <2>1. e.proc_ticks < QUANTUM[e.q_level] /\ 0 < QUANTUM[0]
      BY <1>5 DEF IInv, Bounded, MlfqAssumption
    <2>2. CASE ForkFails(s)
      <3> DEFINE f == [e EXCEPT !.state = "UNUSED"]
      <3>1. /\ f \in Entry /\ f.pid = e.pid /\ f.state = "UNUSED"
            /\ f.proc_ticks = e.proc_ticks /\ f.q_level = e.q_level
        BY DEF Entry
      <3>2. ptable' = [ptable EXCEPT !.proc[np] = f, !.size[0] = n - 1]
        BY <1>1, <1>2, <1>4, <1>5, <2>2 DEF ForkFails, Tables
      <3>3. n - 1 \in Int
        OBVIOUS
      <3> HIDE DEF f
      <3> QED
        BY <2>1, <3>1, <3>2, <3>3, Zenon
    <2>3. CASE ForkReady(s)
      <3> DEFINE f == [e EXCEPT !.state = "RUNNABLE", !.parent = s, !.priority = 3,
                                !.proc_ticks = 0, !.q_level = 0, !.q_num = n - 1]
                 c(d) == [d EXCEPT !.state = "RUNNABLE", !.parent = s, !.priority = 3]
                 h(d) == [d EXCEPT !.proc_ticks = 0, !.q_level = 0, !.q_num = n - 1]
      <3>1. s \in 0 .. NPROC /\ 0 \in Nat /\ 0 \in 0 .. 2 /\ 3 \in 0 .. 3
            /\ "RUNNABLE" \in Queued /\ n - 1 \in Int
        BY DEF Slots, MlfqAssumption, Queued
      <3>2. \A d \in Entry : c(d) \in Entry /\ c(d).pid = d.pid /\ c(d).state = "RUNNABLE"
        BY <3>1 DEF Entry
      <3>3. \A d \in Entry : /\ h(d) \in Entry /\ h(d).pid = d.pid /\ h(d).state = d.state
                             /\ h(d).proc_ticks = 0 /\ h(d).q_level = 0
        BY <3>1 DEF Entry
      <3>4. f = h(c(e))
        BY Zenon
      <3>5. ptable' = [ptable EXCEPT !.proc[np] = f]
        BY <1>2, <1>4, <1>5, <2>3 DEF ForkReady
      <3> HIDE DEF f, c, h
      <3>6. /\ f \in Entry /\ f.pid = e.pid /\ f.state = "RUNNABLE"
            /\ f.proc_ticks = 0 /\ f.q_level = 0
        BY <3>2, <3>3, <3>4
      <3>7. ptable' = [ptable EXCEPT !.proc[np] = f, !.size[0] = n]
        BY <1>1, <1>4, <3>5 DEF Tables
      <3> QED
        BY <2>1, <3>6, <3>7, Zenon
    <2> QED
      BY <2>2, <2>3
  <1>7. /\ ptable' \in Tables /\ Bounded(ptable') /\ ptable'.locked_proc = ptable.locked_proc
        /\ ptable'.proc[np] = f /\ \A r \in Slots \ {np} : ptable'.proc[r] = ptable.proc[r]
    <2>1. ptable' \in Tables /\ ptable'.locked_proc = ptable.locked_proc
      BY <1>1, <1>6 DEF Tables
    <2>2. ptable'.proc[np] = f /\ \A r \in Slots \ {np} : ptable'.proc[r] = ptable.proc[r]
      BY <1>1, <1>6 DEF Tables
    <2>3. Bounded(ptable)
      BY DEF IInv
    <2> QED
      BY <1>6, <2>1, <2>2, <2>3 DEF Bounded
  <1>8. /\ UNCHANGED <<nextpid, ticks, cpu, window, panicked>>
        /\ loc' = [loc EXCEPT ![s].np = 0]
    BY DEF ForkFails, ForkReady
  <1>9. loc' \in [Slots -> Locals] /\ \A r \in Slots \ {s} : loc'[r] = loc[r]
    <2>1. 0 \in 0 .. NPROC
      BY DEF MlfqAssumption
    <2> QED
      BY <1>1, <1>8, <2>1 DEF Locals
  <1>10. /\ kpc' \in [Slots -> KernelPlaces]
         /\ \A r \in Slots : kpc'[r] = "fork" => r # s /\ kpc[r] = "fork"
    <2>1. kpc \in [Slots -> KernelPlaces] /\ {"user", "exit"} \subseteq KernelPlaces
      BY DEF IInv, TypeOK, KernelPlaces, Interruptible
    <2>2. PICK place \in {"user", "exit"} :
            kpc' = [kpc EXCEPT ![s] = place] \/ kpc' = [kpc EXCEPT ![np] = "user", ![s] = place]
      BY <1>2 DEF ForkFails, ForkReady, Return, Goto
    <2> QED
      BY <2>1, <2>2
  <1>11. TypeOK'
    BY <1>7, <1>8, <1>9, <1>10 DEF IInv, TypeOK, Tables, Entry, Locals
  <1>12. PidInv'
    BY <1>2, <1>5, <1>6, <1>7, <1>8 DEF IInv, PidInv
  <1>13. ForkInv'
    BY <1>1, <1>2, <1>7, <1>9, <1>10 DEF IInv, ForkInv
  <1>14. CpuInv' /\ LockHasOwner'
    <2>1. s # 0 /\ ptable.locked_proc \in {Unlocked, ptable.proc[s].pid}
      BY <1>1 DEF IInv, CpuInv, Slots
    <2>2. ptable'.proc[s] = ptable.proc[s] /\ cpu' = s
      BY <1>1, <1>3, <1>7, <1>8
    <2> QED
      BY <1>1, <1>7, <2>1, <2>2 DEF CpuInv, LockHasOwner
  <1> QED
    BY <1>7, <1>11, <1>12, <1>13, <1>14 DEF IInv

\* Action by action.
LEMMA StepKeeps ==
    ASSUME IInv, [Next]_vars, MlfqAssumption
    PROVE  IInv'
  <1>1. CASE Schedule \/ ScheduleLocked
    BY <1>1, ScheduleKeeps
  <1>2. CASE Clock
    BY <1>2, ClockKeeps
  <1>3. ASSUME NEW s \in Slots, KernelStep(s)
        PROVE  IInv'
    BY <1>3, TrapReturnKeeps, BoostKeeps, SleepKeeps, EndForkKeeps
    DEF KernelStep, ForkFails, ForkReady
  <1>4. ASSUME NEW s \in Slots, Yield(s) \/ Lock(s) \/ Unlock(s) \/ Boost(s)
        PROVE  IInv'
    BY <1>4, YieldKeeps, LockKeeps, UnlockKeeps, BoostKeeps
  <1>5. ASSUME NEW s \in Slots, \E n \in Naps : Sleep(s, n)
        PROVE  IInv'
    BY <1>5, SleepKeeps
  <1>6. ASSUME NEW s \in Slots, Fork(s) \/ Exit(s) \/ Wait(s)
        PROVE  IInv'
    BY <1>6, ForkKeeps, ExitKeeps, WaitKeeps
  <1>7. ASSUME NEW s \in Slots, NEW r \in Slots, Kill(s, r)
        PROVE  IInv'
    BY <1>7, KillKeeps
  <1>8. ASSUME NEW s \in Slots, NEW r \in Slots, NEW priority \in Prios, SetPriority(s, r, priority)
        PROVE  IInv'
    BY <1>8, SetPriorityKeeps
  <1>9. CASE UNCHANGED vars
    BY <1>9 DEF vars, IInv, TypeOK, Tables, Bounded, PidInv, ForkInv, CpuInv, LockHasOwner
  <1> QED
    BY <1>1, <1>2, <1>3, <1>4, <1>5, <1>6, <1>7, <1>8, <1>9 DEF Next

\* The invariant holds in every state that the scheduler reaches.
THEOREM QueuesKept == Spec => []IInv
  <1>1. Init => IInv
    BY InitHolds, MlfqAssumption
  <1>2. IInv /\ [Next]_vars => IInv'
    BY StepKeeps, MlfqAssumption
  <1> QED
    BY <1>1, <1>2, PTL DEF Spec

-----------------------------------------------------------------------------
(* What the invariant gives *)

\* Every entry, counter and local variable has values of its type: the queues
\* are 0 .. 2, no priority leaves 0 .. 3 and no pid is lost.
THEOREM Typed == Spec => []TypeOK
  <1>1. IInv => TypeOK
    BY DEF IInv
  <1> QED
    BY <1>1, QueuesKept, PTL

\* No process stays in a queue beyond its time quantum, through ticks, boosts,
\* locks and forks into slots that were in use before.
THEOREM QuantaKept == Spec => []QuantumBounded
  <1>1. IInv => QuantumBounded
    BY DEF IInv, Bounded, QuantumBounded
  <1> QED
    BY <1>1, QueuesKept, PTL

\* locked_proc never names a process that has been freed: wait cannot free the
\* owner of the lock, since only the owner runs while it is set.
THEOREM OwnerStays == Spec => []LockHasOwner
  <1>1. IInv => LockHasOwner
    BY DEF IInv
  <1> QED
    BY <1>1, QueuesKept, PTL

\* Only the scheduler gives the CPU away.
LEMMA OnlySchedule ==
    ASSUME IInv, [Next]_vars, NEW s \in Slots, Dispatches(s)
    PROVE  Schedule /\ s = Choice
  <1>1. cpu = 0 /\ cpu' # 0 /\ cpu' = s /\ ptable.locked_proc = Unlocked
    BY DEF Dispatches, Slots
  <1>2. ~ScheduleLocked /\ ~(UNCHANGED vars)
    BY <1>1 DEF ScheduleLocked, vars
  <1>3. ~Clock
    BY <1>1 DEF Clock, Timer, TimerKilled, TimerIdle
  <1>4. \A r \in Slots : \A pc : ~Running(r, pc)
    BY <1>1 DEF Running, Slots
  <1>5. \A r \in Slots : ~KernelStep(r)
    BY <1>4 DEF KernelStep, TrapReturn, BoostL0, BoostLevel, BoostTicks, SleepLoop,
                ForkFails, ForkReady
  <1>6. \A r \in Slots : /\ ~Yield(r) /\ ~Lock(r) /\ ~Unlock(r) /\ ~Boost(r)
                         /\ ~Fork(r) /\ ~Exit(r) /\ ~Wait(r)
    BY <1>4 DEF Yield, Lock, Unlock, Boost, Fork, Exit, Wait, Calling
  <1>7. /\ \A r \in Slots, n \in Naps : ~Sleep(r, n)
        /\ \A r, q \in Slots : ~Kill(r, q)
        /\ \A r, q \in Slots, priority \in Prios : ~SetPriority(r, q, priority)
    BY <1>4 DEF Sleep, Kill, SetPriority, Calling
  <1>8. Schedule
    BY <1>2, <1>3, <1>5, <1>6, <1>7 DEF Next
  <1> QED
    BY <1>1, <1>8 DEF Schedule, Dispatch

\* The CPU goes to the highest queue that is not empty and there to the first
\* in line: the loop of mlfq_scheduler over the table finds the best entry,
\* however long the table is.
THEOREM BestIsDispatched == Spec => DispatchBest
  <1>1. ASSUME IInv, [Next]_vars, NEW s \in Slots, Dispatches(s)
        PROVE  LET p == ptable.proc[s]
                   rivals == RunnableAt(p.q_level)
               IN  /\ \A l \in 0 .. p.q_level - 1 : RunnableAt(l) = {}
                   /\ IF p.q_level < 2
                      THEN \A r \in rivals : p.q_num <= ptable.proc[r].q_num
                      ELSE \A r \in rivals :
                              /\ p.priority <= ptable.proc[r].priority
                              /\ p.priority = ptable.proc[r].priority
                                    => p.q_num <= ptable.proc[r].q_num
    <2>1. ptable \in Tables /\ Choice = s
      BY <1>1, OnlySchedule DEF IInv
    <2>2. Unbeaten(s, Slots)
      BY <2>1, ChoiceIsBest, MlfqAssumption DEF Slots
    <2>3. ASSUME NEW r \in Slots, ptable.proc[r].state = "RUNNABLE"
          PROVE  ~Beats(ptable.proc[r], ptable.proc[s])
      BY <2>2, <2>3 DEF Unbeaten
    <2>4. PICK p \in Entry : p = ptable.proc[s]
      BY <2>1 DEF Tables
    <2>5. ASSUME NEW l \in 0 .. p.q_level - 1, NEW r \in RunnableAt(l)
          PROVE  FALSE
      <3>1. PICK e \in Entry : e = ptable.proc[r] /\ e.q_level = l /\ ~Beats(e, p)
        BY <2>1, <2>3, <2>4, <2>5 DEF RunnableAt, Tables
      <3>2. l < p.q_level
        BY <2>4 DEF Entry
      <3> QED
        BY <3>1, <3>2 DEF Beats
    <2>6. ASSUME NEW r \in RunnableAt(p.q_level)
          PROVE  IF p.q_level < 2 THEN p.q_num <= ptable.proc[r].q_num
                 ELSE /\ p.priority <= ptable.proc[r].priority
                      /\ p.priority = ptable.proc[r].priority
                            => p.q_num <= ptable.proc[r].q_num
      <3>1. PICK e \in Entry : e = ptable.proc[r] /\ e.q_level = p.q_level /\ ~Beats(e, p)
        BY <2>1, <2>3, <2>4, <2>6 DEF RunnableAt, Tables
      <3>2. e.q_num \in Int /\ p.q_num \in Int /\ e.priority \in Int /\ p.priority \in Int
        BY DEF Entry
      <3> QED
        BY <3>1, <3>2 DEF Beats
    <2> QED
      BY <2>4, <2>5, <2>6
  <1>2. IInv /\ [Next]_vars =>
           [\A s \in Slots : Dispatches(s) =>
              LET p == ptable.proc[s]
                  rivals == RunnableAt(p.q_level)
              IN  /\ \A l \in 0 .. p.q_level - 1 : RunnableAt(l) = {}
                  /\ IF p.q_level < 2
                     THEN \A r \in rivals : p.q_num <= ptable.proc[r].q_num
                     ELSE \A r \in rivals :
                             /\ p.priority <= ptable.proc[r].priority
                             /\ p.priority = ptable.proc[r].priority
                                   => p.q_num <= ptable.proc[r].q_num]_vars
    BY <1>1
  <1> QED
    BY <1>2, QueuesKept, PTL DEF Spec, DispatchBest

\* A boost by the timer takes every live process to L0, whether or not the
\* scheduler is locked.
THEOREM BoostReachesAll == Spec => BoostLifts
  <1>1. ASSUME IInv, Next, ticks # 0, ticks' = 0, \A s \in Slots : kpc[s] # "boost3",
               NEW r \in Slots, Live(ptable', r)
        PROVE  ptable'.proc[r].q_level = 0
    <2>1. ptable \in Tables /\ ticks \in Nat /\ (cpu \in Slots \/ cpu = 0)
      BY <1>1, MlfqAssumption DEF IInv, TypeOK, Slots
    <2>2. ticks' # ticks /\ ticks' # ticks + 1
      BY <1>1, <2>1
    <2>3. PICK st \in Tables : st = Ticked /\ st.locked_proc = ptable.locked_proc /\ Calm(ptable, st)
      BY <2>1, TickedCalm, MlfqAssumption DEF Calm
    <2>4. Timer \/ TimerIdle
      <3>1. ~Schedule /\ ~ScheduleLocked /\ ~TimerKilled
        BY <2>2 DEF Schedule, ScheduleLocked, Dispatch, TimerKilled
      <3>2. \A s \in Slots : ~KernelStep(s)
        BY <1>1, <2>2 DEF KernelStep, TrapReturn, BoostL0, BoostLevel, BoostTicks, Running,
                          SleepLoop, ForkFails, ForkReady
      <3>3. \A s \in Slots : /\ ~Yield(s) /\ ~Lock(s) /\ ~Unlock(s) /\ ~Boost(s)
                             /\ ~Fork(s) /\ ~Exit(s) /\ ~Wait(s)
        BY <2>2 DEF Yield, Lock, Unlock, Boost, Fork, Exit, Wait
      <3>4. /\ \A s \in Slots, n \in Naps : ~Sleep(s, n)
            /\ \A s, q \in Slots : ~Kill(s, q)
            /\ \A s, q \in Slots, priority \in Prios : ~SetPriority(s, q, priority)
        BY <2>2 DEF Sleep, Kill, SetPriority
      <3> QED
        BY <1>1, <3>1, <3>2, <3>3, <3>4 DEF Next, Clock
    <2>5. CASE Timer
      <3>1. BoostDue /\ cpu \in Slots
        BY <2>1, <2>2, <2>5 DEF Timer
      <3>2. PICK bt : bt = PriorityBoosting(st, cpu)
        OBVIOUS
      <3>3. Calm(st, bt) /\ \A s \in Slots : Live(bt, s) => bt.proc[s].q_level = 0
        BY <3>1, <3>2, BoostCalm, MlfqAssumption
      <3>4. ptable' = [bt EXCEPT !.proc[cpu].state = "RUNNABLE"]
        BY <2>3, <2>5, <3>1, <3>2 DEF Timer
      <3>5. bt \in Tables /\ bt.proc[cpu].state = "RUNNING"
        <4>1. ptable.proc[cpu].state = "RUNNING"
          BY <1>1, <3>1 DEF IInv, CpuInv, Slots
        <4> QED
          BY <2>3, <3>1, <3>3, <4>1 DEF Calm
      <3>6. CASE r = cpu
        <4>1. bt.proc[r].q_level = 0
          BY <3>1, <3>3, <3>5, <3>6 DEF Live, Queued
        <4>2. ptable'.proc[r].q_level = bt.proc[r].q_level
          BY <3>1, <3>4, <3>5, <3>6 DEF Tables, Entry
        <4> QED
          BY <4>1, <4>2
      <3>7. CASE r # cpu
        <4>1. ptable'.proc[r] = bt.proc[r]
          BY <3>1, <3>4, <3>5, <3>7 DEF Tables
        <4> QED
          BY <1>1, <3>3, <4>1 DEF Live
      <3> QED
        BY <3>6, <3>7
    <2>6. CASE TimerIdle
      <3>1. BoostDue /\ ptable.locked_proc = Unlocked /\ ptable' = PriorityBoosting(st, 0)
        BY <2>2, <2>3, <2>6 DEF TimerIdle
      <3>2. \A s \in Slots : Live(PriorityBoosting(st, 0), s) =>
               PriorityBoosting(st, 0).proc[s].q_level = 0
        BY <2>3, <3>1, BoostCalm, MlfqAssumption
      <3> QED
        BY <1>1, <3>1, <3>2
    <2> QED
      BY <2>4, <2>5, <2>6
  <1>2. IInv /\ [Next]_vars =>
           [ticks # 0 /\ ticks' = 0 /\ (\A s \in Slots : kpc[s] # "boost3")
              => \A s \in Slots : Live(ptable', s) => ptable'.proc[s].q_level = 0]_vars
    BY <1>1
  <1> QED
    BY <1>2, QueuesKept, PTL DEF Spec, BoostLifts

\* Nobody is ever killed, and the clock has not reached the boost.
ClockInv ==
    /\ \A s \in Slots : ~ptable.proc[s].killed
    /\ BoostOnTime

\* Only kill sets killed.
LEMMA KilledByKill ==
    ASSUME IInv, Next, "kill" \notin Calls, NEW r \in Slots, ptable'.proc[r].killed,
           MlfqAssumption
    PROVE  ptable.proc[r].killed
  <1>1. ptable \in Tables /\ loc \in [Slots -> Locals] /\ (cpu \in Slots \/ cpu = 0)
    BY DEF IInv, TypeOK, Slots, Locals
  <1>2. \A qt : Calm(ptable, qt) => qt \in Tables /\ \A s \in Slots : qt.proc[s].killed = ptable.proc[s].killed
    BY DEF Calm
  <1>3. ASSUME NEW pt \in Tables, NEW s \in Slots, NEW st
        PROVE  [pt EXCEPT !.proc[s].state = st].proc[r].killed = pt.proc[r].killed
    BY DEF Tables, Entry
  <1>4. ASSUME NEW pt \in Tables, NEW s \in Slots, NEW c
        PROVE  [pt EXCEPT !.proc[s].chan = c].proc[r].killed = pt.proc[r].killed
    BY DEF Tables, Entry
  <1>5. CASE Schedule \/ ScheduleLocked
    <2>1. CASE \E s \in Slots : Dispatch(s)
      BY <1>1, <1>3, <2>1 DEF Dispatch
    <2>2. CASE \E s \in Slots : ptable' = ReleaseDead(s)
      <3>1. PICK s \in Slots : ptable' = ReleaseDead(s)
        BY <2>2
      <3>2. PICK ct : ct = CloseGap(ptable, ptable.proc[s].q_level, ptable.proc[s].q_num)
        OBVIOUS
      <3>3. ct \in Tables /\ ct.proc[r].killed = ptable.proc[r].killed
        BY <1>1, <1>2, <3>2, CloseGapCalm
      <3>4. ptable'.proc = ct.proc
        BY <3>1, <3>2, <3>3 DEF ReleaseDead, Tables
      <3> QED
        BY <3>3, <3>4
    <2>3. Schedule => Choice \in Slots
      BY <1>1, ChoiceIsBest DEF Schedule
    <2>4. ScheduleLocked => Owner \in Slots
      BY OwnerFound DEF ScheduleLocked
    <2>5. (\E s \in Slots : Dispatch(s)) \/ (\E s \in Slots : ptable' = ReleaseDead(s)) \/ ptable' = ptable
      BY <1>5, <2>3, <2>4 DEF Schedule, ScheduleLocked
    <2> QED
      BY <2>1, <2>2, <2>5
  <1>6. CASE Clock
    <2>1. PICK st \in Tables : st = Ticked /\ Calm(ptable, st) /\ st.locked_proc = ptable.locked_proc
      BY <1>1, TickedCalm DEF Calm
    <2>2. CASE TimerKilled
      BY <1>2, <2>1, <2>2 DEF TimerKilled
    <2>3. CASE Timer
      <3>1. cpu \in Slots
        BY <1>1, <2>3 DEF Timer
      <3>2. PICK bt : bt = (IF BoostDue THEN PriorityBoosting(st, cpu) ELSE st)
        OBVIOUS
      <3>3. Calm(ptable, bt)
        BY <2>1, <3>1, <3>2, BoostCalm, CalmTwice
      <3>4. ptable' = [bt EXCEPT !.proc[cpu].state = "RUNNABLE"]
        BY <2>1, <2>3, <3>2 DEF Timer
      <3> QED
        BY <1>2, <1>3, <3>1, <3>3, <3>4
    <2>4. CASE TimerIdle
      <3>1. CASE UNCHANGED ptable
        BY <3>1
      <3>2. CASE /\ ptable' = (IF BoostDue THEN PriorityBoosting(st, 0) ELSE st)
                 /\ ~(BoostDue /\ ptable.locked_proc # Unlocked)
        <4>1. BoostDue => Calm(ptable, PriorityBoosting(st, 0))
          BY <2>1, <3>2, BoostCalm, CalmTwice
        <4> QED
          BY <1>2, <2>1, <3>2, <4>1
      <3> QED
        BY <2>1, <2>4, <3>1, <3>2 DEF TimerIdle
    <2> QED
      BY <1>6, <2>2, <2>3, <2>4 DEF Clock
  <1>7. ASSUME NEW s \in Slots, TrapReturn(s) \/ BoostL0(s) \/ BoostLevel(s) \/ BoostTicks(s) \/ Boost(s)
        PROVE  ptable.proc[r].killed
    <2>1. CASE TrapReturn(s) \/ BoostTicks(s)
      BY <2>1 DEF TrapReturn, BoostTicks
    <2>2. CASE Boost(s)
      BY <1>1, <1>2, <2>2, NoSizesCalm DEF Boost
    <2>3. CASE BoostL0(s)
      BY <1>1, <1>2, <2>3, UnlockCalm, LiftCalm DEF BoostL0, LiftL0
    <2>4. CASE BoostLevel(s)
      <3>1. PICK l \in {1, 2} : ptable' = Lift(ptable, {l}, loc[s].i)
        BY <2>4 DEF BoostLevel
      <3>2. loc[s].i \in Nat
        BY <1>1 DEF Locals
      <3> QED
        BY <1>1, <1>2, <3>1, <3>2, LiftCalm
    <2> QED
      BY <1>7, <2>1, <2>2, <2>3, <2>4
  <1>8. ASSUME NEW s \in Slots, NEW chan, SleepOn(s, chan)
        PROVE  ptable.proc[r].killed
    <2>1. PICK qt : qt = [ptable EXCEPT !.proc[s].chan = chan]
      OBVIOUS
    <2>2. qt.proc[r].killed = ptable.proc[r].killed
      BY <1>1, <1>4, <2>1
    <2>3. ptable' = [qt EXCEPT !.proc[s].state = "SLEEPING"]
      BY <1>8, <2>1, Zenon DEF SleepOn
    <2>4. ptable'.proc[r].killed = qt.proc[r].killed
      BY <1>1, <2>1, <2>3, ZenonT(60) DEF Tables, Entry
    <2> QED
      BY <2>2, <2>4
  <1>9. ASSUME NEW s \in Slots, SleepLoop(s) \/ \E n \in Naps : Sleep(s, n)
        PROVE  ptable.proc[r].killed
    <2>1. CASE \E n \in Naps : Sleep(s, n)
      BY <1>8, <2>1 DEF Sleep
    <2>2. CASE SleepLoop(s)
      <3>1. SleepOn(s, TicksChan) \/ ptable' = [ptable EXCEPT !.proc[s].chan = 0]
        BY <2>2 DEF SleepLoop
      <3>2. CASE SleepOn(s, TicksChan)
        BY <1>8, <3>2
      <3>3. CASE ptable' = [ptable EXCEPT !.proc[s].chan = 0]
        BY <1>1, <1>4, <3>3
      <3> QED
        BY <3>1, <3>2, <3>3
    <2> QED
      BY <1>9, <2>1, <2>2
  <1>10. ASSUME NEW s \in Slots, ForkFails(s) \/ ForkReady(s) \/ Fork(s)
         PROVE  ptable.proc[r].killed
    <2>3. PICK n \in Int : n = ptable.size[0]
      BY <1>1 DEF Tables
    <2>4. CASE Fork(s)
      <3>1. PICK np \in Slots :
              ptable' = [ptable EXCEPT
                           !.proc[np] = [@ EXCEPT !.state = "EMBRYO", !.pid = nextpid,
                                                  !.priority = 3, !.q_num = ptable.size[0]],
                           !.size[0] = @ + 1]
        BY <2>4 DEF Fork
      <3>2. PICK e \in Entry : e = ptable.proc[np]
        BY <1>1 DEF Tables
      <3> DEFINE f == [e EXCEPT !.state = "EMBRYO", !.pid = nextpid, !.priority = 3, !.q_num = n]
      <3>3. f.killed = e.killed
        BY DEF Entry
      <3>4. ptable' = [ptable EXCEPT !.proc[np] = f, !.size[0] = n + 1]
        BY <1>1, <2>3, <3>1, <3>2 DEF Tables, Entry
      <3> HIDE DEF f
      <3> QED
        BY <1>1, <3>2, <3>3, <3>4 DEF Tables
    <2>5. CASE ForkFails(s) \/ ForkReady(s)
      <3>1. Running(s, "fork")
        BY <2>5 DEF ForkFails, ForkReady
      <3>2. PICK np \in Slots : np = loc[s].np
        BY <3>1 DEF Running, IInv, ForkInv
      <3>3. CASE ForkFails(s)
        BY <1>1, <3>2, <3>3 DEF ForkFails, Tables, Entry
      <3>4. CASE ForkReady(s)
        BY <1>1, <3>2, <3>4 DEF ForkReady, Tables, Entry
      <3> QED
        BY <2>5, <3>3, <3>4
    <2> QED
      BY <1>10, <2>4, <2>5
  <1>11. ASSUME NEW s \in Slots, Yield(s) \/ Lock(s) \/ Unlock(s)
         PROVE  ptable.proc[r].killed
    <2>1. CASE Yield(s)
      BY <1>1, <1>3, <2>1 DEF Yield
    <2>2. CASE Lock(s)
      BY <1>1, <2>2 DEF Lock, SchedulerLock, Tables
    <2>3. CASE Unlock(s)
      BY <1>1, <1>2, <2>3, UnlockCalm DEF Unlock
    <2> QED
      BY <1>11, <2>1, <2>2, <2>3
  <1>12. ASSUME NEW s \in Slots, Exit(s)
         PROVE  ptable.proc[r].killed
    <2>1. PICK orphans : orphans = {q \in Slots : ptable.proc[q].parent = s}
      OBVIOUS
    <2>2. PICK woken \in Tables : woken = wakeup1(ptable, ptable.proc[s].parent) /\ Calm(ptable, woken)
      BY <1>1, WakeupCalm DEF Calm
    <2>3. PICK told \in Tables :
             /\ told = (IF \E q \in orphans : ptable.proc[q].state = "ZOMBIE"
                        THEN wakeup1(woken, initproc) ELSE woken)
             /\ Calm(ptable, told)
      <3>1. Calm(woken, wakeup1(woken, initproc)) /\ Calm(ptable, wakeup1(woken, initproc))
        BY <2>2, WakeupCalm, CalmTwice
      <3> DEFINE d == IF \E q \in orphans : ptable.proc[q].state = "ZOMBIE"
                      THEN wakeup1(woken, initproc) ELSE woken
      <3>2. d = woken \/ d = wakeup1(woken, initproc)
        OBVIOUS
      <3>3. Calm(ptable, d) /\ d \in Tables
        BY <2>2, <3>1, <3>2, CalmTable
      <3> QED
        BY <3>3
    <2>4. ptable' = [told EXCEPT !.proc = [q \in Slots |->
                       IF q = s THEN [told.proc[q] EXCEPT !.state = "ZOMBIE"]
                       ELSE IF q \in orphans THEN [told.proc[q] EXCEPT !.parent = initproc]
                       ELSE told.proc[q]]]
      BY <1>12, <2>1, <2>2, <2>3 DEF Exit, ForEach
    <2>5. PICK e \in Entry : e = told.proc[r]
      BY DEF Tables
    <2>6. \/ ptable'.proc[r] = [e EXCEPT !.state = "ZOMBIE"]
          \/ ptable'.proc[r] = [e EXCEPT !.parent = initproc]
          \/ ptable'.proc[r] = e
      BY <2>4, <2>5 DEF Tables
    <2>7. ptable'.proc[r].killed = told.proc[r].killed
      <3>1. [e EXCEPT !.state = "ZOMBIE"].killed = e.killed
        BY DEF Entry
      <3>2. [e EXCEPT !.parent = initproc].killed = e.killed
        BY DEF Entry
      <3> QED
        BY <2>5, <2>6, <3>1, <3>2, Zenon
    <2> QED
      BY <1>2, <2>3, <2>7
  <1>13. ASSUME NEW s \in Slots, Wait(s)
         PROVE  ptable.proc[r].killed
    <2>1. CASE \E z \in Slots : ptable.proc[z].state = "ZOMBIE" /\ Reap(s, z)
      <3>1. PICK z \in Slots : ptable.proc[z].state = "ZOMBIE" /\ Reap(s, z)
        BY <2>1
      <3>7. z # s
        BY <1>13, <3>1, Runner DEF Wait, Calling
      <3>2. PICK ct \in Tables :
              /\ ct = CloseGap(ptable, ptable.proc[s].q_level, ptable.proc[s].q_num)
              /\ Calm(ptable, ct)
        BY <1>1, CloseGapCalm DEF Calm
      <3> DEFINE f == [ct.proc[z] EXCEPT !.state = "UNUSED", !.pid = 0, !.parent = 0,
                                         !.killed = FALSE, !.q_level = 0, !.q_num = 0,
                                         !.proc_ticks = 0]
                 P == [ct.proc EXCEPT ![z] = f]
      <3>3. ~f.killed
        <4> DEFINE d(e) == [e EXCEPT !.state = "UNUSED", !.pid = 0, !.parent = 0, !.killed = FALSE]
                   h(e) == [e EXCEPT !.q_level = 0, !.q_num = 0, !.proc_ticks = 0]
        <4>1. ct.proc[z] \in Entry
          BY DEF Tables
        <4>2. \A e \in Entry : ~d(e).killed /\ h(d(e)).killed = d(e).killed
          BY DEF Entry
        <4>3. f = h(d(ct.proc[z]))
          BY Zenon
        <4> HIDE DEF f, d, h
        <4> QED
          BY <4>1, <4>2, <4>3
      <3>4. ptable'.proc = [P EXCEPT ![s].chan = 0]
        BY <1>1, <3>1, <3>2 DEF Reap, Tables
      <3> HIDE DEF f
      <3>5. P[r].killed => ct.proc[r].killed
        BY <3>3 DEF Tables
      <3>6. ptable'.proc[r].killed = P[r].killed
        <4>1. P[s] \in Entry /\ DOMAIN P = Slots
          BY <3>7 DEF Tables
        <4> HIDE DEF P
        <4> QED
          BY <3>4, <4>1 DEF Entry
      <3> QED
        BY <1>2, <3>2, <3>5, <3>6
    <2>2. CASE ptable' = [ptable EXCEPT !.proc[s].chan = 0]
      BY <1>1, <1>4, <2>2
    <2>3. CASE SleepOn(s, s)
      BY <1>8, <2>3
    <2> QED
      BY <1>13, <2>1, <2>2, <2>3 DEF Wait
  <1>14. ASSUME NEW s \in Slots, NEW q \in Slots, NEW priority \in Prios, SetPriority(s, q, priority)
         PROVE  ptable.proc[r].killed
    BY <1>1, <1>14 DEF SetPriority, Tables, Entry
  <1>15. \A s \in Slots, q \in Slots : ~Kill(s, q)
    BY DEF Kill, Calling
  <1> QED
    BY <1>5, <1>6, <1>7, <1>9, <1>10, <1>11, <1>12, <1>13, <1>14, <1>15 DEF Next, KernelStep

\* ticks passes over BOOST only if a tick at BOOST - 1 makes no boost.
LEMMA ClockInvKept ==
    ASSUME IInv, ClockInv, [Next]_vars, "kill" \notin Calls, MlfqAssumption
    PROVE  ClockInv'
  <1>1. ticks \in Nat /\ BOOST \in Nat \ {0} /\ ticks < BOOST
    BY DEF IInv, TypeOK, MlfqAssumption, ClockInv, BoostOnTime
  <1>2. CASE Next
    <2>1. \A s \in Slots : ~ptable'.proc[s].killed
      BY <1>2, KilledByKill DEF ClockInv
    <2>2. \/ ticks' \in {ticks, 0}
          \/ ticks' = ticks + 1 /\ ~BoostDue
      <3>1. ~TimerKilled
        <4>1. cpu # 0 => cpu \in Slots
          BY MlfqAssumption DEF IInv, TypeOK, Slots
        <4> QED
          BY <4>1 DEF TimerKilled, ClockInv
      <3>2. CASE Schedule \/ ScheduleLocked
        BY <3>2 DEF Schedule, ScheduleLocked, Dispatch
      <3>3. CASE Clock
        BY <3>1, <3>3 DEF Clock, Timer, TimerIdle
      <3>4. ASSUME NEW s \in Slots, KernelStep(s)
            PROVE  ticks' \in {ticks, 0}
        BY <3>4 DEF KernelStep, TrapReturn, BoostL0, BoostLevel, BoostTicks, SleepLoop,
                    ForkFails, ForkReady
      <3>5. ASSUME NEW s \in Slots,
                   Yield(s) \/ Lock(s) \/ Unlock(s) \/ Boost(s) \/ Fork(s) \/ Exit(s) \/ Wait(s)
            PROVE  ticks' = ticks
        BY <3>5 DEF Yield, Lock, Unlock, Boost, Fork, Exit, Wait
      <3>6. /\ \A s \in Slots, n \in Naps : Sleep(s, n) => ticks' = ticks
            /\ \A s, q \in Slots : Kill(s, q) => ticks' = ticks
            /\ \A s, q \in Slots, priority \in Prios : SetPriority(s, q, priority) => ticks' = ticks
        BY DEF Sleep, Kill, SetPriority
      <3> QED
        BY <1>2, <3>2, <3>3, <3>4, <3>5, <3>6 DEF Next
    <2>3. ticks' < BOOST
      BY <1>1, <2>2 DEF BoostDue
    <2> QED
      BY <2>1, <2>3 DEF ClockInv, BoostOnTime
  <1>3. CASE UNCHANGED vars
    BY <1>3 DEF vars, ClockInv, BoostOnTime
  <1> QED
    BY <1>2, <1>3

\* The timer never misses the boost, which trap makes only when ticks is
\* exactly 100 - as long as nobody calls kill: a killed process that the tick
\* finds in user mode leaves for exit before the test.
THEOREM BoostNotMissed ==
    ASSUME "kill" \notin Calls
    PROVE  Spec => []BoostOnTime
  <1>1. Init => ClockInv
    <2> SUFFICES ASSUME Init PROVE ClockInv
      OBVIOUS
    <2>1. \A s \in Slots : ~ptable.proc[s].killed
      BY DEF Init
    <2>2. 0 < BOOST /\ ticks = 0
      BY MlfqAssumption DEF Init, MlfqAssumption
    <2> QED
      BY <2>1, <2>2 DEF ClockInv, BoostOnTime
  <1>2. IInv /\ ClockInv /\ [Next]_vars => ClockInv'
    BY ClockInvKept, MlfqAssumption
  <1>3. ClockInv => BoostOnTime
    BY DEF ClockInv
  <1> QED
    BY <1>1, <1>2, <1>3, QueuesKept, PTL DEF Spec
=============================================================================
