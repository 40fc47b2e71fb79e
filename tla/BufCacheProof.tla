---------------------------- MODULE BufCacheProof ----------------------------
(***************************************************************************)
(* The safety of the buffer cache of Project_2 with its driver, and its    *)
(* refinement of BlockStore, for every number of processes, blocks and     *)
(* buffers.                                                                *)
(***************************************************************************)
EXTENDS BufCache, TLAPS, FiniteSetTheorems, SequenceTheorems

-----------------------------------------------------------------------------
(* The inductive invariant *)

\* What a buffer is.
BufType ==
    [blk : Blocks \union {NoBlock}, valid : BOOLEAN, dirty : BOOLEAN,
     ref : 0 .. Cardinality(Procs), data : Contents \union {"none"}]

Having == {"read", "readsleep", "readcheck"} \union Holding
Sleeping == {"readsleep", "writesleep"}
Writing == {"write", "writesleep"}

\* Every buffer is in the list.
ListInv == \A b \in Bufs : \E i \in Bufs : mru[i] = b

\* Who is in a call has a buffer, and that buffer a block.
UserInv ==
    \A p \in Procs :
        /\ cur[p] = 0 <=> pc[p] = "idle"
        /\ cur[p] # 0 => bufs[cur[p]].blk # NoBlock

\* The sleeping lock of a buffer is held by the process that works on it.
HolderInv ==
    /\ \A p \in Procs : pc[p] \in Having => locked[cur[p]] = p
    /\ \A b \in Bufs : locked[b] # Nobody =>
           cur[locked[b]] = b /\ pc[locked[b]] \in Having

\* What a process may take for granted of the flags of the buffer it has locked.
FlagInv ==
    /\ \A b \in Bufs :
          /\ bufs[b].dirty => bufs[b].valid /\ bufs[b].data \in Contents
          /\ bufs[b].valid => bufs[b].blk # NoBlock
    /\ \A p \in Procs :
          /\ pc[p] \in Having => (bufs[cur[p]].valid <=> pc[p] \notin {"read", "readsleep"})
          /\ pc[p] \in Writing => bufs[cur[p]].dirty
          /\ pc[p] \in {"readcheck", "writecheck"} => ~bufs[cur[p]].dirty

\* A request is of the holder of its buffer, who sleeps.
RequestInv ==
    \A i \in 1 .. Len(idequeue) :
        /\ locked[idequeue[i]] # Nobody
        /\ pc[locked[idequeue[i]]] \in Sleeping

\* The controller does what the first request asks for; when it has finished, the
\* disk and the answer are the same.
DriveInv ==
    LET b == Head(idequeue)
    IN  /\ idequeue = <<>> => drive = Idle
        /\ idequeue # <<>> =>
              /\ drive.cmd = IF bufs[b].dirty THEN "write" ELSE "read"
              /\ drive.cmd = "write" => drive.data = bufs[b].data
              /\ drive.done => drive.data = disk[drive.blk]

\* A buffer that is not dirty has what the disk has.
CleanInv ==
    \A b \in Bufs : bufs[b].valid /\ ~bufs[b].dirty => bufs[b].data = disk[bufs[b].blk]

\* The dirty buffers that nobody is writing are those of the log.
Kept == {b \in Bufs : bufs[b].dirty /\ \A p \in Procs : cur[p] = b => pc[p] \notin Writing}

KeptInv == Cardinality(Kept) <= MaxPinned

IInv ==
    /\ BuffersAccounted /\ ListInv /\ UserInv /\ HolderInv /\ FlagInv
    /\ QueueExact /\ RequestInv /\ DriveInv /\ CleanInv /\ KeptInv

-----------------------------------------------------------------------------
(* Finite sets *)

\* A finite set of numbers that has elements has a greatest one: of the sets of
\* those that are not below a given one, take a smallest.
LEMMA Greatest ==
    ASSUME NEW S \in SUBSET Nat, IsFiniteSet(S), S # {}
    PROVE  Max(S) \in S
  <1> DEFINE Up(x) == {y \in S : x <= y}
             T == {Up(x) : x \in S}
  <1>1. T # {} /\ T \subseteq FiniteSubsetsOf(S)
    <2>1. \A x \in S : Up(x) \in SUBSET S
      OBVIOUS
    <2>2. \A x \in S : IsFiniteSet(Up(x))
      BY <2>1, FS_Subset
    <2> QED
      BY <2>1, <2>2 DEF FiniteSubsetsOf
  <1> HIDE DEF T
  <1>2. PICK u \in T : \A v \in T : <<v, u>> \notin StrictSubsetOrdering(S)
    BY <1>1, FS_StrictSubsetOrderingWellFounded, WFMin
  <1>3. PICK x \in S : u = Up(x)
    BY DEF T
  <1>4. ASSUME NEW y \in S, ~(x >= y)
        PROVE  FALSE
    <2>1. x \in Nat /\ y \in Nat /\ x < y
      BY <1>4
    <2>2. \A z \in S : y <= z => x <= z
      BY <2>1
    <2>3. Up(y) \subseteq Up(x)
      BY <2>2
    <2>4. x \in Up(x) /\ x \notin Up(y)
      BY <2>1
    <2>5. Up(y) \in T
      BY DEF T
    <2>6. Up(y) \subseteq S /\ Up(x) \subseteq S
      OBVIOUS
    <2> HIDE DEF Up
    <2>7. <<Up(y), Up(x)>> \in StrictSubsetOrdering(S)
      BY <2>3, <2>4, <2>6 DEF StrictSubsetOrdering
    <2> QED
      BY <2>5, <2>7, <1>2, <1>3
  <1>5. \E z \in S : \A y \in S : z >= y
    BY <1>4
  <1> QED
    BY <1>5 DEF Max

\* The processes that use a buffer.
Users(c, b) == {p \in Procs : c[p] = b}

LEMMA UsersFinite ==
    ASSUME NEW c, NEW b
    PROVE  IsFiniteSet(Users(c, b)) /\ Cardinality(Users(c, b)) \in 0 .. Cardinality(Procs)
  <1>1. Users(c, b) \subseteq Procs /\ IsFiniteSet(Procs)
    BY BufCacheAssumption DEF Users
  <1> QED
    BY <1>1, FS_Subset, FS_CardinalityType

\* A process that had no buffer and takes b is one user of b more.
LEMMA UsersTake ==
    ASSUME NEW c \in [Procs -> Bufs \union {0}], NEW p \in Procs, NEW b \in Bufs, c[p] = 0
    PROVE  \A d \in Bufs : Cardinality(Users([c EXCEPT ![p] = b], d))
                             = Cardinality(Users(c, d)) + (IF d = b THEN 1 ELSE 0)
  <1> SUFFICES ASSUME NEW d \in Bufs
               PROVE  Cardinality(Users([c EXCEPT ![p] = b], d))
                        = Cardinality(Users(c, d)) + (IF d = b THEN 1 ELSE 0)
    OBVIOUS
  <1>1. CASE d = b
    <2>1. p \notin Users(c, b)
      BY DEF Users, Bufs
    <2>2. Users([c EXCEPT ![p] = b], b) = Users(c, b) \union {p}
      BY DEF Users
    <2> QED
      BY <1>1, <2>1, <2>2, UsersFinite, FS_AddElement, ZenonT(60)
  <1>2. CASE d # b
    <2>1. Users([c EXCEPT ![p] = b], d) = Users(c, d)
      BY <1>2 DEF Users, Bufs
    <2>2. Cardinality(Users(c, d)) \in Nat
      BY UsersFinite
    <2> QED
      BY <1>2, <2>1, <2>2
  <1> QED
    BY <1>1, <1>2

\* A process that gives its buffer up is one user less.
LEMMA UsersLeave ==
    ASSUME NEW c \in [Procs -> Bufs \union {0}], NEW p \in Procs, NEW b \in Bufs, c[p] = b
    PROVE  \A d \in Bufs : Cardinality(Users([c EXCEPT ![p] = 0], d))
                             = Cardinality(Users(c, d)) - (IF d = b THEN 1 ELSE 0)
  <1> SUFFICES ASSUME NEW d \in Bufs
               PROVE  Cardinality(Users([c EXCEPT ![p] = 0], d))
                        = Cardinality(Users(c, d)) - (IF d = b THEN 1 ELSE 0)
    OBVIOUS
  <1>1. CASE d = b
    <2>1. p \in Users(c, b)
      BY DEF Users
    <2>2. Users([c EXCEPT ![p] = 0], b) = Users(c, b) \ {p}
      BY DEF Users, Bufs
    <2> QED
      BY <1>1, <2>1, <2>2, UsersFinite, FS_RemoveElement
  <1>2. CASE d # b
    <2>1. Users([c EXCEPT ![p] = 0], d) = Users(c, d)
      BY <1>2 DEF Users, Bufs
    <2>2. Cardinality(Users(c, d)) \in Nat
      BY UsersFinite
    <2> QED
      BY <1>2, <2>1, <2>2
  <1> QED
    BY <1>1, <1>2

\* A buffer that somebody uses has a reference, and one without has no user.
LEMMA UnusedBuffer ==
    ASSUME RefsExact, TypeOK, NEW b \in Bufs
    PROVE  bufs[b].ref = 0 <=> \A p \in Procs : cur[p] # b
  <1>1. bufs[b].ref = Cardinality(Users(cur, b)) /\ IsFiniteSet(Users(cur, b))
    BY UsersFinite DEF RefsExact, Users
  <1>2. bufs[b].ref = 0 <=> Users(cur, b) = {}
    BY <1>1, FS_EmptySet
  <1> QED
    BY <1>2 DEF Users

-----------------------------------------------------------------------------
(* The list *)

LEMMA BufsFinite == IsFiniteSet(Bufs) /\ Cardinality(Bufs) = NBUF /\ Bufs \subseteq Nat \ {0}
  BY FS_Interval, BufCacheAssumption DEF Bufs

\* brelse loses no buffer from the list.
LEMMA ListKept ==
    ASSUME mru \in [Bufs -> Bufs], ListInv, NEW b \in Bufs
    PROVE  /\ MoveToFront(b) \in [Bufs -> Bufs]
           /\ \A c \in Bufs : \E i \in Bufs : MoveToFront(b)[i] = c
  <1> DEFINE k == CHOOSE i \in Bufs : mru[i] = b
  <1>1. k \in Bufs /\ mru[k] = b
    BY DEF ListInv
  <1> HIDE DEF k
  <1>2. MoveToFront(b) = [i \in Bufs |-> IF i = 1 THEN b ELSE IF i <= k THEN mru[i - 1] ELSE mru[i]]
    BY DEF MoveToFront, k
  <1>3. \A i \in Bufs : i # 1 => i - 1 \in Bufs
    BY BufCacheAssumption DEF Bufs
  <1>4. MoveToFront(b) \in [Bufs -> Bufs]
    BY <1>1, <1>2, <1>3
  <1>5. ASSUME NEW c \in Bufs
        PROVE  \E i \in Bufs : MoveToFront(b)[i] = c
    <2>1. CASE c = b
      <3>1. 1 \in Bufs
        BY BufCacheAssumption DEF Bufs
      <3> QED
        BY <2>1, <3>1, <1>2
    <2>2. CASE c # b
      <3>1. PICK j \in Bufs : mru[j] = c
        BY DEF ListInv
      <3>2. j # k /\ j \in Nat /\ k \in Nat /\ j >= 1
        BY <2>2, <3>1, <1>1 DEF Bufs
      <3>3. CASE j < k
        <4>1. j + 1 \in Bufs /\ j + 1 # 1 /\ j + 1 <= k /\ (j + 1) - 1 = j
          BY <3>2, <3>3, <1>1, BufCacheAssumption DEF Bufs
        <4> QED
          BY <4>1, <3>1, <1>2
      <3>4. CASE k < j
        <4>1. j # 1 /\ ~(j <= k)
          BY <3>2, <3>4, <1>1 DEF Bufs
        <4> QED
          BY <4>1, <3>1, <1>2
      <3> QED
        BY <3>2, <3>3, <3>4
    <2> QED
      BY <2>1, <2>2
  <1> QED
    BY <1>4, <1>5

-----------------------------------------------------------------------------
(* What a step leaves alone *)

\* None of the names of the model is a process or a block.
LEMMA Names == Nobody \notin Procs /\ NoBlock \notin Blocks
  BY BufCacheAssumption DEF Nobody, NoBlock

\* A process in a call has a buffer, and it has the lock when it works on it.
LEMMA Holder ==
    ASSUME IInv, NEW p \in Procs
    PROVE  /\ pc[p] # "idle" => cur[p] \in Bufs
           /\ pc[p] \in Having => cur[p] \in Bufs /\ locked[cur[p]] = p
  BY DEF IInv, BuffersAccounted, TypeOK, UserInv, HolderInv, Having, Holding

\* Two processes that work on a buffer work on two.
LEMMA HoldersApart ==
    ASSUME IInv, NEW p \in Procs, NEW q \in Procs, pc[p] \in Having, pc[q] \in Having,
           cur[p] = cur[q]
    PROVE  p = q
  BY Holder

\* A request is of a process that sleeps with the buffer locked.
LEMMA Request ==
    ASSUME IInv, NEW i \in 1 .. Len(idequeue)
    PROVE  /\ idequeue[i] \in Bufs /\ locked[idequeue[i]] \in Procs
           /\ cur[locked[idequeue[i]]] = idequeue[i]
           /\ pc[locked[idequeue[i]]] \in Sleeping
  <1>1. idequeue[i] \in Bufs
    BY ElementOfSeq DEF IInv, BuffersAccounted, TypeOK
  <1>2. locked[idequeue[i]] # Nobody /\ pc[locked[idequeue[i]]] \in Sleeping
    BY DEF IInv, RequestInv
  <1> QED
    BY <1>1, <1>2 DEF IInv, BuffersAccounted, TypeOK, HolderInv

LEMMA FirstRequest ==
    ASSUME IInv, idequeue # <<>>
    PROVE  /\ 1 \in 1 .. Len(idequeue) /\ Head(idequeue) = idequeue[1]
           /\ Len(idequeue) \in Nat
  <1>1. idequeue \in Seq(Bufs)
    BY DEF IInv, BuffersAccounted, TypeOK
  <1> QED
    BY <1>1, EmptySeq, LenProperties

\* A step that changes no request and no buffer that has one.
LEMMA RequestsFrame ==
    ASSUME IInv, idequeue' = idequeue, drive' = drive, disk' = disk,
           \A i \in 1 .. Len(idequeue) :
               /\ locked'[idequeue[i]] = locked[idequeue[i]]
               /\ bufs'[idequeue[i]].blk = bufs[idequeue[i]].blk
               /\ bufs'[idequeue[i]].dirty = bufs[idequeue[i]].dirty
               /\ bufs'[idequeue[i]].data = bufs[idequeue[i]].data,
           \A q \in Procs : pc'[q] \in Sleeping <=> pc[q] \in Sleeping
    PROVE  QueueExact' /\ RequestInv' /\ DriveInv'
  <1>1. QueueExact'
    <2>1. idequeue # <<>> => drive.blk = bufs'[Head(idequeue)].blk
      BY FirstRequest DEF IInv, QueueExact
    <2>2. \A q \in Procs : (\E i \in 1 .. Len(idequeue) : locked'[idequeue[i]] = q)
                             <=> (\E i \in 1 .. Len(idequeue) : locked[idequeue[i]] = q)
      OBVIOUS
    <2> QED
      BY <2>1, <2>2 DEF IInv, QueueExact, Sleeping
  <1>2. RequestInv'
    <2> SUFFICES ASSUME NEW i \in 1 .. Len(idequeue)
                 PROVE  locked'[idequeue[i]] # Nobody /\ pc'[locked'[idequeue[i]]] \in Sleeping
      BY DEF RequestInv
    <2> QED
      BY Request, Names
  <1>3. DriveInv'
    BY FirstRequest DEF IInv, DriveInv
  <1> QED
    BY <1>1, <1>2, <1>3

\* The references are counted right as long as neither they nor the users change.
LEMMA RefsFrame ==
    ASSUME RefsExact, cur' = cur, \A b \in Bufs : bufs'[b].ref = bufs[b].ref
    PROVE  RefsExact'
  <1>1. \A b \in Bufs : bufs[b].ref = Cardinality(Users(cur, b))
    BY DEF RefsExact, Users
  <1>2. \A b \in Bufs : bufs'[b].ref = Cardinality(Users(cur', b))
    BY <1>1
  <1> QED
    BY <1>2 DEF RefsExact, Users

\* The log keeps no more when no buffer is added to those it keeps.
LEMMA KeptFrame ==
    ASSUME KeptInv, Kept' \subseteq Kept
    PROVE  KeptInv'
  <1>1. IsFiniteSet(Kept)
    BY BufsFinite, FS_Subset DEF Kept
  <1>2. Cardinality(Kept') <= Cardinality(Kept) /\ IsFiniteSet(Kept')
    BY <1>1, FS_Subset
  <1>3. Cardinality(Kept') \in Nat /\ Cardinality(Kept) \in Nat
    BY <1>1, <1>2, FS_CardinalityType
  <1> QED
    BY <1>2, <1>3, BufCacheAssumption DEF KeptInv


-----------------------------------------------------------------------------
(* Every action keeps the invariant *)

\* acquiresleep takes the lock or goes to sleep.
LEMMA LockStep ==
    ASSUME IInv, NEW p \in Procs, Lock(p)
    PROVE  IInv'
  <1>0. /\ TypeOK /\ OneBuffer /\ RefsExact /\ BuffersSuffice /\ ListInv /\ UserInv /\ HolderInv
        /\ FlagInv /\ QueueExact /\ RequestInv /\ DriveInv /\ CleanInv /\ KeptInv
    BY DEF IInv, BuffersAccounted
  <1>1. /\ pc[p] = "lock" /\ cur[p] \in Bufs /\ bufs[cur[p]].blk # NoBlock
        /\ UNCHANGED <<bufs, mru, idequeue, drive, disk, cur, panicked>>
        /\ \/ pc' = [pc EXCEPT ![p] = "locksleep"] /\ locked' = locked
           \/ /\ locked[cur[p]] = Nobody /\ locked' = [locked EXCEPT ![cur[p]] = p]
              /\ bufs[cur[p]].valid /\ pc' = [pc EXCEPT ![p] = "hold"]
           \/ /\ locked[cur[p]] = Nobody /\ locked' = [locked EXCEPT ![cur[p]] = p]
              /\ ~bufs[cur[p]].valid /\ pc' = [pc EXCEPT ![p] = "read"]
    BY <1>0 DEF Lock, At, Goto, TypeOK, UserInv
  <1>2. TypeOK'
    <2>1. locked' \in [Bufs -> Procs \union {Nobody}]
      BY <1>0, <1>1 DEF TypeOK
    <2>2. pc' \in [Procs -> PCs]
      BY <1>0, <1>1 DEF TypeOK, PCs
    <2> QED
      BY <2>1, <2>2, <1>0, <1>1 DEF TypeOK, BufType
  <1>3. OneBuffer'
    BY <1>0, <1>1 DEF OneBuffer
  <1>4. RefsExact'
    BY <1>0, <1>1, RefsFrame DEF TypeOK
  <1>5. BuffersSuffice'
    BY <1>0, <1>1 DEF BuffersSuffice
  <1>6. ListInv'
    BY <1>0, <1>1 DEF ListInv
  <1>7. UserInv'
    BY <1>0, <1>1 DEF UserInv, TypeOK
  <1>8. HolderInv'
    <2>1. \A q \in Procs \ {p} : pc'[q] = pc[q]
      BY <1>0, <1>1 DEF TypeOK
    <2>2. \A c \in Bufs : locked[c] # p
      BY <1>0, <1>1, Names DEF HolderInv, Having, Holding
    <2>3. \/ locked' = locked /\ pc'[p] \notin Having
          \/ /\ locked[cur[p]] = Nobody /\ pc'[p] \in Having
             /\ \A c \in Bufs : locked'[c] = IF c = cur[p] THEN p ELSE locked[c]
      BY <1>0, <1>1 DEF TypeOK, Having, Holding
    <2>4. \A q \in Procs : pc'[q] \in Having => locked'[cur[q]] = q
      BY <2>1, <2>3, <1>1, Holder, Names
    <2>5. ASSUME NEW c \in Bufs, locked'[c] # Nobody
          PROVE  cur[locked'[c]] = c /\ pc'[locked'[c]] \in Having
      <3>1. CASE locked'[c] = p
        BY <3>1, <2>2, <2>3
      <3>2. CASE locked'[c] # p
        <4>1. locked'[c] = locked[c] /\ locked[c] \in Procs \ {p}
          BY <3>2, <2>3, <2>5, <1>0 DEF TypeOK
        <4> QED
          BY <4>1, <2>1, <2>5, <1>0 DEF HolderInv
      <3> QED
        BY <3>1, <3>2
    <2> QED
      BY <2>4, <2>5, <1>1 DEF HolderInv
  <1>9. FlagInv'
    BY <1>0, <1>1 DEF FlagInv, HolderInv, Having, Holding, Writing, TypeOK
  <1>10. QueueExact' /\ RequestInv' /\ DriveInv'
    <2>1. \A i \in 1 .. Len(idequeue) :
            /\ locked'[idequeue[i]] = locked[idequeue[i]]
            /\ bufs'[idequeue[i]].blk = bufs[idequeue[i]].blk
            /\ bufs'[idequeue[i]].dirty = bufs[idequeue[i]].dirty
            /\ bufs'[idequeue[i]].data = bufs[idequeue[i]].data
      BY <1>0, <1>1, Request, Names DEF TypeOK
    <2>2. \A q \in Procs : pc'[q] \in Sleeping <=> pc[q] \in Sleeping
      BY <1>0, <1>1 DEF Sleeping, TypeOK
    <2> QED
      BY <2>1, <2>2, <1>1, RequestsFrame
  <1>11. CleanInv'
    BY <1>0, <1>1 DEF CleanInv
  <1>12. KeptInv'
    <2>1. Kept' \subseteq Kept
      BY <1>0, <1>1 DEF Kept, Writing, TypeOK
    <2> QED
      BY <2>1, <1>0, KeptFrame
  <1> QED
    BY <1>2, <1>3, <1>4, <1>5, <1>6, <1>7, <1>8, <1>9, <1>10,
       <1>11, <1>12 DEF IInv, BuffersAccounted

\* iderw queues its request and sleeps.
LEMMA IderwStep ==
    ASSUME IInv, NEW p \in Procs, Iderw(p)
    PROVE  IInv'
  <1>0. /\ TypeOK /\ OneBuffer /\ RefsExact /\ BuffersSuffice /\ ListInv /\ UserInv /\ HolderInv
        /\ FlagInv /\ QueueExact /\ RequestInv /\ DriveInv /\ CleanInv /\ KeptInv
    BY DEF IInv, BuffersAccounted
  <1>1. /\ cur[p] \in Bufs /\ locked[cur[p]] = p
        /\ UNCHANGED <<bufs, mru, locked, disk, cur, panicked>>
        /\ idequeue' = Append(idequeue, cur[p])
        /\ drive' = IF idequeue = <<>> THEN Start(cur[p]) ELSE drive
        /\ \/ pc[p] = "read" /\ pc' = [pc EXCEPT ![p] = "readsleep"]
           \/ pc[p] = "write" /\ pc' = [pc EXCEPT ![p] = "writesleep"]
    <2>1. pc[p] \in {"read", "write"}
      BY DEF Iderw
    <2>2. cur[p] \in Bufs /\ locked[cur[p]] = p
      BY <2>1, Holder DEF Having, Holding
    <2> QED
      BY <2>1, <2>2 DEF Iderw, Goto
  <1>2. TypeOK'
    <2>1. pc' \in [Procs -> PCs]
      BY <1>0, <1>1 DEF TypeOK, PCs
    <2>2. idequeue' \in Seq(Bufs)
      BY <1>0, <1>1, AppendProperties DEF TypeOK
    <2>3. Start(cur[p]) \in [cmd : {"idle", "read", "write"}, blk : Blocks \union {NoBlock},
                             data : Contents \union {"none"}, done : BOOLEAN]
      BY <1>0, <1>1 DEF TypeOK, Start
    <2> QED
      BY <2>1, <2>2, <2>3, <1>0, <1>1 DEF TypeOK
  <1>3. OneBuffer'
    BY <1>0, <1>1 DEF OneBuffer
  <1>4. RefsExact'
    BY <1>0, <1>1, RefsFrame DEF TypeOK
  <1>5. BuffersSuffice'
    BY <1>0, <1>1 DEF BuffersSuffice
  <1>6. ListInv'
    BY <1>0, <1>1 DEF ListInv
  <1>7. UserInv'
    BY <1>0, <1>1 DEF UserInv, TypeOK
  <1>8. HolderInv'
    <2>1. \A q \in Procs : pc'[q] \in Having <=> pc[q] \in Having
      BY <1>0, <1>1 DEF TypeOK, Having, Holding
    <2> QED
      BY <2>1, <1>0, <1>1, Names DEF HolderInv, TypeOK
  <1>9. FlagInv'
    BY <1>0, <1>1 DEF FlagInv, HolderInv, Having, Holding, Writing, TypeOK
  <1>10. QueueExact' /\ RequestInv' /\ DriveInv'
    <2> DEFINE n == Len(idequeue)
    <2>1. /\ n \in Nat /\ Len(idequeue') = n + 1 /\ idequeue' # <<>>
          /\ \A i \in 1 .. n : idequeue'[i] = idequeue[i]
          /\ idequeue'[n + 1] = cur[p] /\ idequeue' \in Seq(Bufs)
      BY <1>0, <1>1, AppendProperties, LenProperties DEF TypeOK
    <2>2. \A i \in 1 .. n : idequeue[i] # cur[p] /\ locked[idequeue[i]] # p
      BY <1>1, Request DEF Sleeping
    <2>3. Head(idequeue') = IF idequeue = <<>> THEN cur[p] ELSE Head(idequeue)
      <3>1. CASE idequeue = <<>>
        BY <3>1, <2>1, EmptySeq
      <3>2. CASE idequeue # <<>>
        BY <3>2, <2>1, FirstRequest
      <3> QED
        BY <3>1, <3>2
    <2>4. \A i \in 1 .. n + 1 : i \in 1 .. n \/ i = n + 1
      BY <2>1
    <2> HIDE DEF n
    <2>5. \A i, j \in 1 .. Len(idequeue') : idequeue'[i] = idequeue'[j] => i = j
      BY <2>1, <2>2, <2>4, <1>0 DEF QueueExact, n
    <2>6. \A q \in Procs : pc'[q] \in Sleeping <=> \E i \in 1 .. n + 1 : locked'[idequeue'[i]] = q
      <3> SUFFICES ASSUME NEW q \in Procs
                   PROVE  pc'[q] \in Sleeping <=> \E i \in 1 .. n + 1 : locked[idequeue'[i]] = q
        BY <1>1
      <3>1. CASE q = p
        <4>1. n + 1 \in 1 .. n + 1
          BY <2>1
        <4> QED
          BY <3>1, <4>1, <2>1, <1>0, <1>1 DEF Sleeping, TypeOK
      <3>2. CASE q # p
        <4>1. pc'[q] = pc[q]
          BY <3>2, <1>0, <1>1 DEF TypeOK
        <4>2. pc[q] \in Sleeping <=> \E i \in 1 .. n : locked[idequeue[i]] = q
          BY <1>0 DEF QueueExact, Sleeping, n
        <4>3. \A i \in 1 .. n : i \in 1 .. n + 1
          BY <2>1
        <4> QED
          BY <4>1, <4>2, <4>3, <2>1, <2>4, <3>2, <1>1
      <3> QED
        BY <3>1, <3>2
    <2>7. QueueExact'
      <3>1. drive'.blk = bufs'[Head(idequeue')].blk
        BY <1>0, <1>1, <2>3 DEF QueueExact, Start
      <3>2. drive'.cmd # "idle"
        BY <1>0, <1>1 DEF QueueExact, Start
      <3> QED
        BY <3>1, <3>2, <2>1, <2>5, <2>6 DEF QueueExact, Sleeping
    <2>8. RequestInv'
      <3> SUFFICES ASSUME NEW i \in 1 .. n + 1
                   PROVE  locked[idequeue'[i]] # Nobody /\ pc'[locked[idequeue'[i]]] \in Sleeping
        BY <1>1, <2>1 DEF RequestInv
      <3>1. CASE i \in 1 .. n
        BY <3>1, <1>0, <1>1, <2>1, <2>2, Request, Names DEF Sleeping, TypeOK, n
      <3>2. CASE i = n + 1
        BY <3>2, <1>0, <1>1, <2>1, Names DEF Sleeping, TypeOK
      <3> QED
        BY <2>4, <3>1, <3>2
    <2>9. DriveInv'
      <3>1. CASE idequeue = <<>>
        BY <3>1, <2>1, <2>3, <1>1 DEF DriveInv, Start
      <3>2. CASE idequeue # <<>>
        BY <3>2, <2>1, <2>3, <1>0, <1>1 DEF DriveInv
      <3> QED
        BY <3>1, <3>2
    <2> QED
      BY <2>7, <2>8, <2>9
  <1>11. CleanInv'
    BY <1>0, <1>1 DEF CleanInv
  <1>12. KeptInv'
    <2>1. Kept' \subseteq Kept
      BY <1>0, <1>1 DEF Kept, Writing, TypeOK
    <2> QED
      BY <2>1, <1>0, KeptFrame
  <1> QED
    BY <1>2, <1>3, <1>4, <1>5, <1>6, <1>7, <1>8, <1>9, <1>10,
       <1>11, <1>12 DEF IInv, BuffersAccounted

\* The first request and who waits for it.
LEMMA First ==
    ASSUME IInv, idequeue # <<>>
    PROVE  LET b == Head(idequeue)
               h == locked[b]
           IN  /\ b = idequeue[1] /\ b \in Bufs /\ h \in Procs /\ cur[h] = b
               /\ pc[h] \in Sleeping /\ bufs[b].blk \in Blocks /\ drive.blk = bufs[b].blk
               /\ \A q \in Procs : pc[q] \in Having /\ cur[q] = b => q = h
  <1> DEFINE b == Head(idequeue)
             h == locked[b]
  <1>1. /\ b = idequeue[1] /\ b \in Bufs /\ h \in Procs /\ cur[h] = b /\ pc[h] \in Sleeping
    BY FirstRequest, Request
  <1>2. drive.blk = bufs[b].blk
    BY DEF IInv, QueueExact
  <1>3. bufs[b].blk \in Blocks
    <2>1. b # 0
      BY <1>1, BufsFinite
    <2> QED
      BY <1>1, <2>1 DEF IInv, BuffersAccounted, UserInv, TypeOK
  <1>4. \A q \in Procs : pc[q] \in Having /\ cur[q] = b => q = h
    BY <1>1, HoldersApart DEF Having, Holding, Sleeping
  <1> QED
    BY <1>1, <1>2, <1>3, <1>4

\* What the disk does is what the first request asks for.
LEMMA DriveDoneIs ==
    ASSUME IInv, DriveDone
    PROVE  LET b == Head(idequeue)
           IN  /\ UNCHANGED <<bufs, mru, locked, idequeue, pc, cur, panicked>>
               /\ idequeue # <<>>
               /\ drive'.cmd = drive.cmd /\ drive'.blk = drive.blk
               /\ drive.cmd \in {"read", "write"}
               /\ drive.cmd = (IF bufs[b].dirty THEN "write" ELSE "read")
               /\ IF drive.cmd = "write"
                  THEN drive'.data = bufs[b].data /\ disk' = [disk EXCEPT ![drive.blk] = bufs[b].data]
                  ELSE drive'.data = disk[drive.blk] /\ disk' = disk
  <1> DEFINE b == Head(idequeue)
  <1>1. /\ UNCHANGED <<bufs, mru, locked, idequeue, pc, cur, panicked>>
        /\ drive.cmd # "idle"
        /\ disk' = IF drive.cmd = "write" THEN [disk EXCEPT ![drive.blk] = drive.data] ELSE disk
        /\ drive' = [drive EXCEPT !.done = TRUE,
                                  !.data = IF drive.cmd = "read" THEN disk[drive.blk] ELSE @]
    BY DEF DriveDone
  <1>2. idequeue # <<>>
    BY <1>1 DEF IInv, QueueExact
  <1> HIDE DEF b
  <1> QED
    BY <1>1, <1>2 DEF IInv, BuffersAccounted, DriveInv, TypeOK, b

\* The disk finishes a command.
LEMMA DriveDoneStep ==
    ASSUME IInv, DriveDone
    PROVE  IInv'
  <1>0. /\ TypeOK /\ OneBuffer /\ RefsExact /\ BuffersSuffice /\ ListInv /\ UserInv /\ HolderInv
        /\ FlagInv /\ QueueExact /\ RequestInv /\ DriveInv /\ CleanInv /\ KeptInv
    BY DEF IInv, BuffersAccounted
  <1> DEFINE b == Head(idequeue)
  <1>1. /\ UNCHANGED <<bufs, mru, locked, idequeue, pc, cur, panicked>>
        /\ drive'.cmd = drive.cmd /\ drive'.blk = drive.blk /\ drive.cmd \in {"read", "write"}
        /\ drive.cmd = (IF bufs[b].dirty THEN "write" ELSE "read")
        /\ IF drive.cmd = "write"
           THEN drive'.data = bufs[b].data /\ disk' = [disk EXCEPT ![drive.blk] = bufs[b].data]
           ELSE drive'.data = disk[drive.blk] /\ disk' = disk
    BY DriveDoneIs
  <1>a. drive' = [drive EXCEPT !.done = TRUE,
                              !.data = IF drive.cmd = "read" THEN disk[drive.blk] ELSE @]
    BY DEF DriveDone
  <1>b. idequeue # <<>> /\ b \in Bufs /\ bufs[b].blk \in Blocks /\ drive.blk = bufs[b].blk
    BY DriveDoneIs, First
  <1> HIDE DEF b
  <1>2. TypeOK'
    <2>1. disk' \in [Blocks -> Contents]
      BY <1>0, <1>1, <1>b DEF TypeOK, FlagInv
    <2>2. drive' \in [cmd : {"idle", "read", "write"}, blk : Blocks \union {NoBlock},
                      data : Contents \union {"none"}, done : BOOLEAN]
      <3>1. drive.cmd = "read" => disk[drive.blk] \in Contents
        BY <1>0, <1>b DEF TypeOK
      <3> QED
        BY <3>1, <1>0, <1>a DEF TypeOK
    <2> QED
      BY <2>1, <2>2, <1>0, <1>1 DEF TypeOK, BufType
  <1>3. OneBuffer'
    BY <1>0, <1>1 DEF OneBuffer
  <1>4. RefsExact'
    BY <1>0, <1>1, RefsFrame DEF TypeOK
  <1>5. BuffersSuffice'
    BY <1>0, <1>1 DEF BuffersSuffice
  <1>6. ListInv'
    BY <1>0, <1>1 DEF ListInv
  <1>7. UserInv'
    BY <1>0, <1>1 DEF UserInv, TypeOK
  <1>8. HolderInv'
    BY <1>0, <1>1 DEF HolderInv, Having, Holding, TypeOK, UserInv
  <1>9. FlagInv'
    BY <1>0, <1>1 DEF FlagInv, HolderInv, Having, Holding, Writing, TypeOK
  <1>10. QueueExact' /\ RequestInv' /\ DriveInv'
    <2>1. QueueExact'
      BY <1>0, <1>1 DEF QueueExact
    <2>2. RequestInv'
      BY <1>0, <1>1 DEF RequestInv
    <2>3. DriveInv'
      BY <1>0, <1>1, <1>b DEF DriveInv, TypeOK, b
    <2> QED
      BY <2>1, <2>2, <2>3
  <1>11. CleanInv'
    <2> SUFFICES ASSUME NEW c \in Bufs, bufs[c].valid, ~bufs[c].dirty
                 PROVE  bufs[c].data = disk'[bufs[c].blk]
      BY <1>1 DEF CleanInv
    <2>1. bufs[c].data = disk[bufs[c].blk] /\ bufs[c].blk \in Blocks
      BY <1>0 DEF CleanInv, FlagInv, TypeOK
    <2>2. CASE drive.cmd = "write"
      <3>1. bufs[c].blk # drive.blk
        BY <2>1, <2>2, <1>0, <1>1, <1>b, Names DEF OneBuffer
      <3> QED
        BY <3>1, <2>1, <2>2, <1>0, <1>1 DEF TypeOK
    <2>3. CASE drive.cmd # "write"
      BY <2>1, <2>3, <1>1
    <2> QED
      BY <2>2, <2>3
  <1>12. KeptInv'
    <2>1. Kept' \subseteq Kept
      BY <1>0, <1>1 DEF Kept, Writing, TypeOK
    <2> QED
      BY <2>1, <1>0, KeptFrame
  <1> QED
    BY <1>2, <1>3, <1>4, <1>5, <1>6, <1>7, <1>8, <1>9, <1>10,
       <1>11, <1>12 DEF IInv, BuffersAccounted

\* The interrupt is of the first request, and only who waits for it is woken.
LEMMA IdeIntrIs ==
    ASSUME IInv, IdeIntr
    PROVE  LET b == Head(idequeue)
               h == locked[b]
           IN  /\ UNCHANGED <<mru, locked, disk, cur, panicked>>
               /\ idequeue # <<>> /\ idequeue' = Tail(idequeue)
               /\ drive' = StartNext(Tail(idequeue))
               /\ pc' = [pc EXCEPT ![h] = IF @ = "readsleep" THEN "readcheck" ELSE "writecheck"]
               /\ bufs' = [bufs EXCEPT ![b] = [@ EXCEPT !.valid = TRUE, !.dirty = FALSE,
                                                        !.data = disk[bufs[b].blk]]]
               /\ bufs[b].dirty => bufs[b].data = disk[bufs[b].blk]
  <1> DEFINE b == Head(idequeue)
             h == locked[b]
  <1>1. /\ UNCHANGED <<mru, locked, disk, cur, panicked>>
        /\ drive.done
        /\ bufs' = [bufs EXCEPT ![b] = Answered(b)]
        /\ idequeue' = Tail(idequeue)
        /\ drive' = StartNext(Tail(idequeue))
        /\ pc' = [q \in Procs |->
                    CASE cur[q] = b /\ pc[q] = "readsleep" -> "readcheck"
                      [] cur[q] = b /\ pc[q] = "writesleep" -> "writecheck"
                      [] OTHER -> pc[q]]
    BY DEF IdeIntr
  <1>2. idequeue # <<>> /\ drive.data = disk[bufs[b].blk]
    BY <1>1 DEF IInv, QueueExact, DriveInv, Idle
  <1>3. /\ h \in Procs /\ cur[h] = b /\ pc[h] \in Sleeping
        /\ \A q \in Procs : pc[q] \in Having /\ cur[q] = b => q = h
    BY <1>2, First
  <1>4. bufs[b].dirty => bufs[b].data = drive.data
    BY <1>2 DEF IInv, DriveInv
  <1> HIDE DEF b, h
  <1>5. pc' = [pc EXCEPT ![h] = IF @ = "readsleep" THEN "readcheck" ELSE "writecheck"]
    BY <1>1, <1>3 DEF IInv, BuffersAccounted, TypeOK, Having, Holding, Sleeping
  <1>6. /\ bufs' = [bufs EXCEPT ![b] = [@ EXCEPT !.valid = TRUE, !.dirty = FALSE,
                                                 !.data = disk[bufs[b].blk]]]
        /\ bufs[b].dirty => bufs[b].data = disk[bufs[b].blk]
    BY <1>1, <1>2, <1>4 DEF Answered
  <1> QED
    BY <1>1, <1>2, <1>5, <1>6 DEF b, h

\* The interrupt answers the first request and starts the next.
LEMMA IdeIntrStep ==
    ASSUME IInv, IdeIntr
    PROVE  IInv'
  <1>0. /\ TypeOK /\ OneBuffer /\ RefsExact /\ BuffersSuffice /\ ListInv /\ UserInv /\ HolderInv
        /\ FlagInv /\ QueueExact /\ RequestInv /\ DriveInv /\ CleanInv /\ KeptInv
    BY DEF IInv, BuffersAccounted
  <1> DEFINE b == Head(idequeue)
             h == locked[b]
             n == Len(idequeue)
  <1>1. /\ UNCHANGED <<mru, locked, disk, cur, panicked>>
        /\ pc' = [pc EXCEPT ![h] = IF @ = "readsleep" THEN "readcheck" ELSE "writecheck"]
        /\ bufs' = [bufs EXCEPT ![b] = [@ EXCEPT !.valid = TRUE, !.dirty = FALSE,
                                                 !.data = disk[bufs[b].blk]]]
        /\ bufs[b].dirty => bufs[b].data = disk[bufs[b].blk]
    BY IdeIntrIs
  <1>a. idequeue' = Tail(idequeue) /\ drive' = StartNext(Tail(idequeue))
    BY IdeIntrIs
  <1>b. idequeue # <<>>
    BY IdeIntrIs
  <1>c. /\ b = idequeue[1] /\ n \in Nat \ {0} /\ b \in Bufs /\ h \in Procs
        /\ cur[h] = b /\ pc[h] \in Sleeping
    BY <1>b, First, FirstRequest
  <1>d. bufs[b].blk \in Blocks
    BY <1>b, First
  <1>e. \A q \in Procs : cur[q] = b /\ pc[q] \in Having => q = h
    BY <1>b, First
  <1> HIDE DEF b, h, n
  <1>2. TypeOK'
    <2>1. pc' \in [Procs -> PCs]
      BY <1>0, <1>1 DEF TypeOK, PCs
    <2>2. bufs' \in [Bufs -> BufType]
      <3>1. bufs[b] \in BufType /\ disk[bufs[b].blk] \in Contents
        BY <1>0, <1>c, <1>d DEF TypeOK, BufType
      <3>2. [bufs[b] EXCEPT !.valid = TRUE, !.dirty = FALSE, !.data = disk[bufs[b].blk]] \in BufType
        BY <3>1 DEF BufType
      <3> QED
        BY <3>2, <1>0, <1>1 DEF TypeOK, BufType
    <2>3. idequeue' \in Seq(Bufs)
      BY <1>0, <1>a, <1>b, HeadTailProperties DEF TypeOK
    <2>4. \A c \in Bufs : Start(c) \in [cmd : {"idle", "read", "write"}, blk : Blocks \union {NoBlock},
                                data : Contents \union {"none"}, done : BOOLEAN]
      BY <1>0 DEF TypeOK, Start
    <2>5. drive' \in [cmd : {"idle", "read", "write"}, blk : Blocks \union {NoBlock},
                      data : Contents \union {"none"}, done : BOOLEAN]
      BY <2>3, <2>4, <1>a, HeadTailProperties DEF StartNext, Idle
    <2> QED
      BY <2>1, <2>2, <2>3, <2>4, <2>5, <1>0, <1>1 DEF TypeOK, BufType
  <1>3. OneBuffer'
    <2>1. \A c \in Bufs : bufs'[c].blk = bufs[c].blk
      BY <1>0, <1>1, <1>c DEF TypeOK
    <2> QED
      BY <2>1, <1>0 DEF OneBuffer
  <1>4. RefsExact'
    <2>1. \A c \in Bufs : bufs'[c].ref = bufs[c].ref
      BY <1>0, <1>1, <1>c DEF TypeOK
    <2> QED
      BY <2>1, <1>0, <1>1, RefsFrame
  <1>5. BuffersSuffice'
    BY <1>0, <1>1 DEF BuffersSuffice
  <1>6. ListInv'
    BY <1>0, <1>1 DEF ListInv
  <1>7. UserInv'
    BY <1>0, <1>1, <1>c DEF UserInv, TypeOK, Sleeping
  <1>8. HolderInv'
    BY <1>0, <1>1, <1>c DEF HolderInv, Having, Holding, TypeOK, Sleeping
  <1>9. FlagInv'
    <2>1. \A c \in Bufs \ {b} : bufs'[c] = bufs[c]
      BY <1>1
    <2>2. bufs'[b].valid /\ ~bufs'[b].dirty /\ bufs'[b].blk = bufs[b].blk
      BY <1>0, <1>1, <1>c DEF TypeOK
    <2>3. \A c \in Bufs :
            /\ bufs'[c].dirty => bufs'[c].valid /\ bufs'[c].data \in Contents
            /\ bufs'[c].valid => bufs'[c].blk # NoBlock
      BY <2>1, <2>2, <1>0, <1>d, Names DEF FlagInv
    <2>4. \A q \in Procs \ {h} : pc'[q] = pc[q] /\ (pc[q] \in Having => cur[q] \in Bufs \ {b})
      BY <1>0, <1>1, <1>e, Holder DEF TypeOK
    <2>5. pc'[h] \in {"readcheck", "writecheck"}
      BY <1>0, <1>1, <1>c DEF TypeOK
    <2>6. ASSUME NEW q \in Procs
          PROVE  /\ pc'[q] \in Having => (bufs'[cur[q]].valid <=> pc'[q] \notin {"read", "readsleep"})
                 /\ pc'[q] \in Writing => bufs'[cur[q]].dirty
                 /\ pc'[q] \in {"readcheck", "writecheck"} => ~bufs'[cur[q]].dirty
      <3>1. CASE q = h
        BY <3>1, <2>2, <2>5, <1>c DEF Writing
      <3>2. CASE q # h
        BY <3>2, <2>1, <2>4, <1>0 DEF FlagInv, Having, Holding, Writing
      <3> QED
        BY <3>1, <3>2
    <2> QED
      BY <2>3, <2>6, <1>1 DEF FlagInv
  <1>10. QueueExact' /\ RequestInv' /\ DriveInv'
    <2> DEFINE t == Tail(idequeue)
    <2>1. /\ t \in Seq(Bufs) /\ Len(t) = n - 1
          /\ \A i \in 1 .. n - 1 : t[i] = idequeue[i + 1]
      BY <1>0, <1>b, HeadTailProperties DEF TypeOK, n
    <2> HIDE DEF t
    <2>2. idequeue' = t /\ drive' = StartNext(t)
      BY <1>a DEF t
    <2>3. \A i \in 1 .. n - 1 : i + 1 \in 1 .. n /\ i + 1 # 1
      BY <1>c
    <2>4. \A i \in 1 .. n : i # 1 => i - 1 \in 1 .. n - 1 /\ (i - 1) + 1 = i
      BY <1>c
    <2>5. 1 \in 1 .. n
      BY <1>c
    <2>6. \A i \in 1 .. n - 1 : t[i] # b /\ t[i] \in Bufs /\ locked[t[i]] # h
                               /\ locked[t[i]] \in Procs /\ pc[locked[t[i]]] \in Sleeping
      <3> SUFFICES ASSUME NEW i \in 1 .. n - 1
                   PROVE  /\ t[i] # b /\ t[i] \in Bufs /\ locked[t[i]] # h
                          /\ locked[t[i]] \in Procs /\ pc[locked[t[i]]] \in Sleeping
        OBVIOUS
      <3>1. i + 1 \in 1 .. Len(idequeue) /\ 1 \in 1 .. Len(idequeue) /\ i + 1 # 1
        BY <2>3, <2>5 DEF n
      <3>2. t[i] = idequeue[i + 1]
        BY <2>1
      <3>3. t[i] # b
        BY <3>1, <3>2, <1>0, <1>c DEF QueueExact
      <3>4. /\ t[i] \in Bufs /\ locked[t[i]] \in Procs /\ cur[locked[t[i]]] = t[i]
            /\ pc[locked[t[i]]] \in Sleeping
        BY <3>1, <3>2, Request
      <3> QED
        BY <3>3, <3>4, <1>c
    <2>7. t # <<>> => Head(t) = t[1] /\ 1 \in 1 .. n - 1
      BY <2>1, EmptySeq, LenProperties
    <2>8. \A c \in Bufs \ {b} : bufs'[c] = bufs[c]
      BY <1>1
    <2>9. QueueExact'
      <3>1. \A i, j \in 1 .. Len(t) : t[i] = t[j] => i = j
        <4> SUFFICES ASSUME NEW i \in 1 .. n - 1, NEW j \in 1 .. n - 1, t[i] = t[j]
                     PROVE  i = j
          BY <2>1
        <4>1. i + 1 = j + 1
          BY <2>1, <2>3, <1>0 DEF QueueExact, n
        <4> QED
          BY <4>1
      <3>2. \A q \in Procs : pc'[q] \in Sleeping <=> \E i \in 1 .. n - 1 : locked[t[i]] = q
        <4> SUFFICES ASSUME NEW q \in Procs
                     PROVE  pc'[q] \in Sleeping <=> \E i \in 1 .. n - 1 : locked[t[i]] = q
          OBVIOUS
        <4>1. CASE q = h
          BY <4>1, <2>6, <1>0, <1>1 DEF Sleeping, TypeOK
        <4>2. CASE q # h
          <5>1. pc'[q] = pc[q]
            BY <4>2, <1>0, <1>1 DEF TypeOK
          <5>2. pc[q] \in Sleeping <=> \E i \in 1 .. n : locked[idequeue[i]] = q
            BY <1>0 DEF QueueExact, Sleeping, n
          <5>3. \A i \in 1 .. n : locked[idequeue[i]] = q => i # 1
            BY <4>2, <1>c DEF h
          <5>4. ASSUME NEW i \in 1 .. n, locked[idequeue[i]] = q
                PROVE  \E j \in 1 .. n - 1 : locked[t[j]] = q
            <6>1. i - 1 \in 1 .. n - 1 /\ (i - 1) + 1 = i
              BY <5>3, <5>4, <2>4
            <6>2. t[i - 1] = idequeue[i]
              BY <6>1, <2>1
            <6> QED
              BY <6>1, <6>2, <5>4
          <5>5. ASSUME NEW j \in 1 .. n - 1, locked[t[j]] = q
                PROVE  \E i \in 1 .. n : locked[idequeue[i]] = q
            BY <5>5, <2>1, <2>3
          <5> QED
            BY <5>1, <5>2, <5>4, <5>5
        <4> QED
          BY <4>1, <4>2
      <3>3. t # <<>> => drive'.blk = bufs'[Head(t)].blk
        BY <2>2, <2>6, <2>7, <2>8 DEF StartNext, Start
      <3>4. (drive'.cmd = "idle") = (t = <<>>)
        BY <2>2 DEF StartNext, Start, Idle
      <3> QED
        BY <3>1, <3>2, <3>3, <3>4, <2>1, <2>2, <1>1 DEF QueueExact, Sleeping
    <2>10. RequestInv'
      <3> SUFFICES ASSUME NEW i \in 1 .. n - 1
                   PROVE  locked[t[i]] # Nobody /\ pc'[locked[t[i]]] \in Sleeping
        BY <2>1, <2>2, <1>1 DEF RequestInv
      <3> QED
        BY <2>6, <1>0, <1>1, Names DEF TypeOK
    <2>11. DriveInv'
      BY <2>2, <2>6, <2>7, <2>8 DEF DriveInv, StartNext, Start
    <2> QED
      BY <2>9, <2>10, <2>11
  <1>11. CleanInv'
    <2> SUFFICES ASSUME NEW c \in Bufs, bufs'[c].valid, ~bufs'[c].dirty
                 PROVE  bufs'[c].data = disk[bufs'[c].blk]
      BY <1>1 DEF CleanInv
    <2>1. CASE c = b
      BY <2>1, <1>0, <1>1 DEF TypeOK
    <2>2. CASE c # b
      BY <2>2, <1>0, <1>1 DEF CleanInv
    <2> QED
      BY <2>1, <2>2
  <1>12. KeptInv'
    <2>1. ASSUME NEW c \in Kept'
          PROVE  c \in Kept
      <3>1. c \in Bufs /\ bufs'[c].dirty
        BY <2>1 DEF Kept
      <3>2. c # b
        BY <3>1, <1>0, <1>1 DEF TypeOK
      <3>3. \A q \in Procs : cur[q] = c => pc'[q] = pc[q]
        BY <3>2, <1>0, <1>1, <1>c DEF TypeOK
      <3> QED
        BY <2>1, <3>1, <3>2, <3>3, <1>1 DEF Kept
    <2> QED
      BY <2>1, <1>0, KeptFrame
  <1> QED
    BY <1>2, <1>3, <1>4, <1>5, <1>6, <1>7, <1>8, <1>9, <1>10,
       <1>11, <1>12 DEF IInv, BuffersAccounted

\* Who comes back from sleep finds his request done.
LEMMA RecheckStep ==
    ASSUME IInv, NEW p \in Procs, Recheck(p)
    PROVE  IInv'
  <1>0. /\ TypeOK /\ OneBuffer /\ RefsExact /\ BuffersSuffice /\ ListInv /\ UserInv /\ HolderInv
        /\ FlagInv /\ QueueExact /\ RequestInv /\ DriveInv /\ CleanInv /\ KeptInv
    BY DEF IInv, BuffersAccounted
  <1>1. /\ UNCHANGED <<bufs, mru, locked, idequeue, drive, disk, cur, panicked>>
        /\ pc[p] \in {"readcheck", "writecheck"} /\ pc' = [pc EXCEPT ![p] = "hold"]
    BY <1>0 DEF Recheck, Goto, FlagInv, Having, Holding
  <1>2. TypeOK'
    BY <1>0, <1>1 DEF TypeOK, PCs, Idle
  <1>3. OneBuffer'
    BY <1>0, <1>1 DEF OneBuffer
  <1>4. RefsExact'
    BY <1>0, <1>1, RefsFrame DEF TypeOK
  <1>5. BuffersSuffice'
    BY <1>0, <1>1 DEF BuffersSuffice
  <1>6. ListInv'
    BY <1>0, <1>1 DEF ListInv
  <1>7. UserInv'
    BY <1>0, <1>1 DEF UserInv, TypeOK
  <1>8. HolderInv'
    BY <1>0, <1>1 DEF HolderInv, Having, Holding, TypeOK, UserInv
  <1>9. FlagInv'
    BY <1>0, <1>1 DEF FlagInv, HolderInv, Having, Holding, Writing, TypeOK
  <1>10. QueueExact' /\ RequestInv' /\ DriveInv'
    <2>1. \A i \in 1 .. Len(idequeue) :
            /\ locked'[idequeue[i]] = locked[idequeue[i]]
            /\ bufs'[idequeue[i]].blk = bufs[idequeue[i]].blk
            /\ bufs'[idequeue[i]].dirty = bufs[idequeue[i]].dirty
            /\ bufs'[idequeue[i]].data = bufs[idequeue[i]].data
      BY <1>1
    <2>2. \A q \in Procs : pc'[q] \in Sleeping <=> pc[q] \in Sleeping
      BY <1>0, <1>1 DEF Sleeping, TypeOK
    <2> QED
      BY <2>1, <2>2, <1>1, RequestsFrame
  <1>11. CleanInv'
    BY <1>0, <1>1 DEF CleanInv
  <1>12. KeptInv'
    <2>1. Kept' \subseteq Kept
      BY <1>0, <1>1 DEF Kept, Writing, TypeOK
    <2> QED
      BY <2>1, <1>0, KeptFrame
  <1> QED
    BY <1>2, <1>3, <1>4, <1>5, <1>6, <1>7, <1>8, <1>9, <1>10,
       <1>11, <1>12 DEF IInv, BuffersAccounted

\* The holder of a buffer changes it, for bwrite or for the log.
LEMMA WriteStep ==
    ASSUME IInv, NEW p \in Procs, NEW v \in Vals, Write(p, v) \/ LogWrite(p, v)
    PROVE  IInv'
  <1>0. /\ TypeOK /\ OneBuffer /\ RefsExact /\ BuffersSuffice /\ ListInv /\ UserInv /\ HolderInv
        /\ FlagInv /\ QueueExact /\ RequestInv /\ DriveInv /\ CleanInv /\ KeptInv
    BY DEF IInv, BuffersAccounted
  <1> DEFINE b == cur[p]
  <1>a. pc[p] = "hold" /\ b \in Bufs /\ locked[b] = p /\ bufs[b].valid /\ v \in Contents
    <2>1. pc[p] = "hold"
      BY DEF Write, LogWrite, At
    <2> QED
      BY <2>1, <1>0, Holder DEF FlagInv, Having, Holding, Contents
  <1>1. /\ UNCHANGED <<mru, locked, idequeue, drive, disk, cur, panicked>>
        /\ bufs' = [bufs EXCEPT ![b] = [@ EXCEPT !.data = v, !.dirty = TRUE]]
        /\ \/ pc' = [pc EXCEPT ![p] = "write"]
           \/ pc' = pc /\ (bufs[b].dirty \/ Cardinality(Pinned) < MaxPinned)
    BY DEF Write, LogWrite, Goto
  <1>b. /\ \A c \in Bufs \ {b} : bufs'[c] = bufs[c]
        /\ bufs'[b].blk = bufs[b].blk /\ bufs'[b].ref = bufs[b].ref /\ bufs'[b].valid
        /\ bufs'[b].dirty /\ bufs'[b].data = v
    BY <1>0, <1>1, <1>a DEF TypeOK
  <1>c. \A q \in Procs \ {p} : pc[q] \in Having => cur[q] \in Bufs \ {b}
    BY <1>a, Holder
  <1> HIDE DEF b
  <1>2. TypeOK'
    <2>1. pc' \in [Procs -> PCs]
      BY <1>0, <1>1 DEF TypeOK, PCs
    <2>2. bufs' \in [Bufs -> BufType]
      <3>1. bufs[b] \in BufType
        BY <1>0, <1>a DEF TypeOK, BufType
      <3>2. [bufs[b] EXCEPT !.data = v, !.dirty = TRUE] \in BufType
        BY <3>1, <1>a DEF BufType
      <3> QED
        BY <3>2, <1>0, <1>1 DEF TypeOK, BufType
    <2> QED
      BY <2>1, <2>2, <1>0, <1>1 DEF TypeOK, BufType
  <1>3. OneBuffer'
    <2>1. \A c \in Bufs : bufs'[c].blk = bufs[c].blk
      BY <1>b
    <2> QED
      BY <2>1, <1>0 DEF OneBuffer
  <1>4. RefsExact'
    BY <1>0, <1>1, <1>b, RefsFrame
  <1>5. BuffersSuffice'
    BY <1>0, <1>1 DEF BuffersSuffice
  <1>6. ListInv'
    BY <1>0, <1>1 DEF ListInv
  <1>7. UserInv'
    <2>1. \A c \in Bufs : bufs'[c].blk = bufs[c].blk
      BY <1>b
    <2>2. \A q \in Procs : pc'[q] = "idle" <=> pc[q] = "idle"
      BY <1>0, <1>1, <1>a DEF TypeOK
    <2> QED
      BY <2>1, <2>2, <1>0, <1>1 DEF UserInv, TypeOK
  <1>8. HolderInv'
    BY <1>0, <1>1, <1>a, SMTT(30) DEF HolderInv, Having, Holding, TypeOK
  <1>9. FlagInv'
    <2>1. \A c \in Bufs :
            /\ bufs'[c].dirty => bufs'[c].valid /\ bufs'[c].data \in Contents
            /\ bufs'[c].valid => bufs'[c].blk # NoBlock
      BY <1>0, <1>a, <1>b DEF FlagInv
    <2>2. ASSUME NEW q \in Procs
          PROVE  /\ pc'[q] \in Having => (bufs'[cur[q]].valid <=> pc'[q] \notin {"read", "readsleep"})
                 /\ pc'[q] \in Writing => bufs'[cur[q]].dirty
                 /\ pc'[q] \in {"readcheck", "writecheck"} => ~bufs'[cur[q]].dirty
      <3>1. CASE q = p
        BY <3>1, <1>0, <1>1, <1>a, <1>b DEF TypeOK, Writing, b
      <3>2. CASE q # p
        <4>1. pc'[q] = pc[q]
          BY <3>2, <1>0, <1>1 DEF TypeOK
        <4> QED
          BY <3>2, <4>1, <1>0, <1>b, <1>c DEF FlagInv, Having, Holding, Writing
      <3> QED
        BY <3>1, <3>2
    <2> QED
      BY <2>1, <2>2, <1>1 DEF FlagInv
  <1>10. QueueExact' /\ RequestInv' /\ DriveInv'
    <2>1. \A i \in 1 .. Len(idequeue) : idequeue[i] \in Bufs \ {b}
      BY <1>a, Request DEF Sleeping
    <2>2. \A q \in Procs : pc'[q] \in Sleeping <=> pc[q] \in Sleeping
      BY <1>0, <1>1, <1>a DEF Sleeping, TypeOK
    <2> QED
      BY <2>1, <2>2, <1>1, <1>b, RequestsFrame
  <1>11. CleanInv'
    BY <1>0, <1>1, <1>b DEF CleanInv
  <1>12. KeptInv'
    <2>1. \A c \in Bufs \ {b} : c \in Kept' => c \in Kept
      BY <1>0, <1>1, <1>a, <1>b DEF Kept, Writing, TypeOK
    <2>2. CASE pc' = [pc EXCEPT ![p] = "write"]
      <3>1. b \notin Kept'
        BY <2>2, <1>0, <1>1 DEF Kept, Writing, TypeOK, b
      <3>2. Kept' \subseteq Kept
        BY <2>1, <3>1 DEF Kept
      <3> QED
        BY <3>2, <1>0, KeptFrame
    <2>3. CASE pc' = pc /\ bufs[b].dirty
      <3>1. b \in Kept
        BY <2>3, <1>a, <1>c DEF Kept, Writing, Having, Holding
      <3>2. Kept' \subseteq Kept
        BY <2>1, <3>1 DEF Kept
      <3> QED
        BY <3>2, <1>0, KeptFrame
    <2>4. CASE pc' = pc /\ Cardinality(Pinned) < MaxPinned
      <3>1. Kept' \subseteq Pinned \union {b} /\ IsFiniteSet(Pinned)
        BY <2>1, BufsFinite, FS_Subset DEF Kept, Pinned
      <3>2. /\ IsFiniteSet(Pinned \union {b}) /\ Cardinality(Pinned) \in Nat
            /\ Cardinality(Pinned \union {b}) <= Cardinality(Pinned) + 1
        <4>1. IsFiniteSet(Pinned \union {b}) /\ Cardinality(Pinned) \in Nat
          BY <3>1, FS_AddElement, FS_CardinalityType
        <4>2. Cardinality(Pinned \union {b}) \in {Cardinality(Pinned), Cardinality(Pinned) + 1}
          BY <3>1, FS_AddElement
        <4> DEFINE m == Cardinality(Pinned)
        <4> HIDE DEF m
        <4>3. m \in Nat /\ Cardinality(Pinned \union {b}) \in {m, m + 1}
          BY <4>1, <4>2 DEF m
        <4>4. Cardinality(Pinned \union {b}) <= m + 1
          BY <4>3
        <4> QED
          BY <4>1, <4>4 DEF m
      <3>3. /\ Cardinality(Kept') <= Cardinality(Pinned \union {b}) /\ Cardinality(Kept') \in Nat
            /\ Cardinality(Pinned \union {b}) \in Nat
        BY <3>1, <3>2, FS_Subset, FS_CardinalityType
      <3> QED
        BY <2>4, <3>2, <3>3, BufCacheAssumption DEF KeptInv
    <2> QED
      BY <1>1, <2>2, <2>3, <2>4
  <1> QED
    BY <1>2, <1>3, <1>4, <1>5, <1>6, <1>7, <1>8, <1>9, <1>10,
       <1>11, <1>12 DEF IInv, BuffersAccounted

\* The log writes a buffer that it has kept.
LEMMA InstallStep ==
    ASSUME IInv, NEW p \in Procs, Install(p)
    PROVE  IInv'
  <1>0. /\ TypeOK /\ OneBuffer /\ RefsExact /\ BuffersSuffice /\ ListInv /\ UserInv /\ HolderInv
        /\ FlagInv /\ QueueExact /\ RequestInv /\ DriveInv /\ CleanInv /\ KeptInv
    BY DEF IInv, BuffersAccounted
  <1>1. /\ UNCHANGED <<bufs, mru, locked, idequeue, drive, disk, cur, panicked>>
        /\ pc[p] = "hold" /\ bufs[cur[p]].dirty /\ pc' = [pc EXCEPT ![p] = "write"]
    BY DEF Install, At, Goto
  <1>2. TypeOK'
    BY <1>0, <1>1 DEF TypeOK, PCs, Idle
  <1>3. OneBuffer'
    BY <1>0, <1>1 DEF OneBuffer
  <1>4. RefsExact'
    BY <1>0, <1>1, RefsFrame DEF TypeOK
  <1>5. BuffersSuffice'
    BY <1>0, <1>1 DEF BuffersSuffice
  <1>6. ListInv'
    BY <1>0, <1>1 DEF ListInv
  <1>7. UserInv'
    BY <1>0, <1>1 DEF UserInv, TypeOK
  <1>8. HolderInv'
    BY <1>0, <1>1 DEF HolderInv, Having, Holding, TypeOK, UserInv
  <1>9. FlagInv'
    BY <1>0, <1>1 DEF FlagInv, HolderInv, Having, Holding, Writing, TypeOK
  <1>10. QueueExact' /\ RequestInv' /\ DriveInv'
    <2>1. \A i \in 1 .. Len(idequeue) :
            /\ locked'[idequeue[i]] = locked[idequeue[i]]
            /\ bufs'[idequeue[i]].blk = bufs[idequeue[i]].blk
            /\ bufs'[idequeue[i]].dirty = bufs[idequeue[i]].dirty
            /\ bufs'[idequeue[i]].data = bufs[idequeue[i]].data
      BY <1>1
    <2>2. \A q \in Procs : pc'[q] \in Sleeping <=> pc[q] \in Sleeping
      BY <1>0, <1>1 DEF Sleeping, TypeOK
    <2> QED
      BY <2>1, <2>2, <1>1, RequestsFrame
  <1>11. CleanInv'
    BY <1>0, <1>1 DEF CleanInv
  <1>12. KeptInv'
    <2>1. Kept' \subseteq Kept
      BY <1>0, <1>1 DEF Kept, Writing, TypeOK
    <2> QED
      BY <2>1, <1>0, KeptFrame
  <1> QED
    BY <1>2, <1>3, <1>4, <1>5, <1>6, <1>7, <1>8, <1>9, <1>10,
       <1>11, <1>12 DEF IInv, BuffersAccounted

\* releasesleep gives the lock up and wakes those who wait for it.
LEMMA BrelseStep ==
    ASSUME IInv, NEW p \in Procs, Brelse(p)
    PROVE  IInv'
  <1>0. /\ TypeOK /\ OneBuffer /\ RefsExact /\ BuffersSuffice /\ ListInv /\ UserInv /\ HolderInv
        /\ FlagInv /\ QueueExact /\ RequestInv /\ DriveInv /\ CleanInv /\ KeptInv
    BY DEF IInv, BuffersAccounted
  <1>1. /\ UNCHANGED <<bufs, mru, idequeue, drive, disk, cur, panicked>>
        /\ pc[p] = "hold" /\ cur[p] \in Bufs /\ locked[cur[p]] = p
        /\ locked' = [locked EXCEPT ![cur[p]] = Nobody]
        /\ pc' = [[q \in Procs |-> IF pc[q] = "locksleep" /\ cur[q] = cur[p] THEN "lock" ELSE pc[q]]
                    EXCEPT ![p] = "unref"]
    <2>1. pc[p] = "hold"
      BY DEF Brelse, At
    <2> QED
      BY <2>1, Holder DEF Brelse, Unlock, Wake, Having, Holding
  <1>2. TypeOK'
    <2>1. locked' \in [Bufs -> Procs \union {Nobody}]
      BY <1>0, <1>1 DEF TypeOK
    <2>2. pc' \in [Procs -> PCs]
      BY <1>0, <1>1 DEF TypeOK, PCs
    <2> QED
      BY <2>1, <2>2, <1>0, <1>1 DEF TypeOK, BufType
  <1>3. OneBuffer'
    BY <1>0, <1>1 DEF OneBuffer
  <1>4. RefsExact'
    BY <1>0, <1>1, RefsFrame DEF TypeOK
  <1>5. BuffersSuffice'
    BY <1>0, <1>1 DEF BuffersSuffice
  <1>6. ListInv'
    BY <1>0, <1>1 DEF ListInv
  <1>7. UserInv'
    BY <1>0, <1>1 DEF UserInv, TypeOK
  <1>8. HolderInv'
    BY <1>0, <1>1, HoldersApart, Holder DEF HolderInv, Having, Holding, TypeOK, UserInv
  <1>9. FlagInv'
    BY <1>0, <1>1 DEF FlagInv, HolderInv, Having, Holding, Writing, TypeOK
  <1>10. QueueExact' /\ RequestInv' /\ DriveInv'
    <2>1. \A i \in 1 .. Len(idequeue) :
            /\ locked'[idequeue[i]] = locked[idequeue[i]]
            /\ bufs'[idequeue[i]].blk = bufs[idequeue[i]].blk
            /\ bufs'[idequeue[i]].dirty = bufs[idequeue[i]].dirty
            /\ bufs'[idequeue[i]].data = bufs[idequeue[i]].data
      BY <1>0, <1>1, Request, ZenonT(60) DEF TypeOK, Sleeping
    <2>2. \A q \in Procs : pc'[q] \in Sleeping <=> pc[q] \in Sleeping
      BY <1>0, <1>1 DEF Sleeping, TypeOK
    <2> QED
      BY <2>1, <2>2, <1>1, RequestsFrame
  <1>11. CleanInv'
    BY <1>0, <1>1 DEF CleanInv
  <1>12. KeptInv'
    <2>1. Kept' \subseteq Kept
      BY <1>0, <1>1 DEF Kept, Writing, TypeOK
    <2> QED
      BY <2>1, <1>0, KeptFrame
  <1> QED
    BY <1>2, <1>3, <1>4, <1>5, <1>6, <1>7, <1>8, <1>9, <1>10,
       <1>11, <1>12 DEF IInv, BuffersAccounted

\* The end of a reference.
LEMMA UnrefStep ==
    ASSUME IInv, NEW p \in Procs, Unref(p)
    PROVE  IInv'
  <1>0. /\ TypeOK /\ OneBuffer /\ RefsExact /\ BuffersSuffice /\ ListInv /\ UserInv /\ HolderInv
        /\ FlagInv /\ QueueExact /\ RequestInv /\ DriveInv /\ CleanInv /\ KeptInv
    BY DEF IInv, BuffersAccounted
  <1> DEFINE b == cur[p]
  <1>a. pc[p] = "unref" /\ b \in Bufs
    <2>1. pc[p] = "unref"
      BY DEF Unref, At
    <2> QED
      BY <2>1, Holder
  <1>1. /\ UNCHANGED <<locked, idequeue, drive, disk, panicked>>
        /\ bufs' = [bufs EXCEPT ![b].ref = @ - 1]
        /\ mru' = IF bufs[b].ref = 1 THEN MoveToFront(b) ELSE mru
        /\ cur' = [cur EXCEPT ![p] = 0]
        /\ pc' = [pc EXCEPT ![p] = "idle"]
    BY DEF Unref, Goto, Fewer
  <1>b. /\ \A c \in Bufs : bufs'[c].blk = bufs[c].blk /\ bufs'[c].valid = bufs[c].valid
                          /\ bufs'[c].dirty = bufs[c].dirty /\ bufs'[c].data = bufs[c].data
        /\ \A c \in Bufs : bufs'[c].ref = bufs[c].ref - (IF c = b THEN 1 ELSE 0)
    BY <1>0, <1>1, <1>a DEF TypeOK
  <1>c. bufs[b].ref # 0
    BY <1>0, <1>a, UnusedBuffer
  <1>d. \A q \in Procs : cur'[q] = IF q = p THEN 0 ELSE cur[q]
    BY <1>0, <1>1 DEF TypeOK
  <1>e. \A q \in Procs : pc'[q] = IF q = p THEN "idle" ELSE pc[q]
    BY <1>0, <1>1 DEF TypeOK
  <1> HIDE DEF b
  <1>2. TypeOK'
    <2>1. pc' \in [Procs -> PCs]
      BY <1>0, <1>1 DEF TypeOK, PCs
    <2>2. bufs' \in [Bufs -> BufType]
      <3>1. bufs[b] \in BufType /\ bufs[b].ref # 0
        BY <1>0, <1>a, <1>c DEF TypeOK, BufType
      <3>2. Cardinality(Procs) \in Nat
        BY BufCacheAssumption, FS_CardinalityType
      <3>3. [bufs[b] EXCEPT !.ref = @ - 1] \in BufType
        BY <3>1, <3>2 DEF BufType
      <3> QED
        BY <3>3, <1>0, <1>1 DEF TypeOK, BufType
    <2>3. mru' \in [Bufs -> Bufs]
      BY <1>0, <1>1, <1>a, ListKept DEF TypeOK
    <2>4. cur' \in [Procs -> Bufs \union {0}]
      BY <1>0, <1>1 DEF TypeOK
    <2> QED
      BY <2>1, <2>2, <2>3, <2>4, <1>0, <1>1 DEF TypeOK, BufType
  <1>3. OneBuffer'
    BY <1>0, <1>b DEF OneBuffer
  <1>4. RefsExact'
    <2>1. \A c \in Bufs : Cardinality(Users(cur', c))
                            = Cardinality(Users(cur, c)) - (IF c = b THEN 1 ELSE 0)
      <3>1. cur \in [Procs -> Bufs \union {0}] /\ cur[p] = b
        BY <1>0 DEF TypeOK, b
      <3>2. cur' = [cur EXCEPT ![p] = 0]
        BY <1>1
      <3>3. \A c \in Bufs : Cardinality(Users([cur EXCEPT ![p] = 0], c))
                            = Cardinality(Users(cur, c)) - (IF c = b THEN 1 ELSE 0)
        BY <3>1, <1>a, UsersLeave
      <3> QED
        BY <3>2, <3>3
    <2>2. \A c \in Bufs : bufs[c].ref = Cardinality(Users(cur, c))
      BY <1>0 DEF RefsExact, Users
    <2>3. \A c \in Bufs : bufs'[c].ref = Cardinality(Users(cur', c))
      BY <2>1, <2>2, <1>b
    <2> QED
      BY <2>3 DEF RefsExact, Users
  <1>5. BuffersSuffice'
    BY <1>0, <1>1 DEF BuffersSuffice
  <1>6. ListInv'
    BY <1>0, <1>1, <1>a, ListKept DEF TypeOK, ListInv
  <1>7. UserInv'
    BY <1>0, <1>b, <1>d, <1>e DEF UserInv, TypeOK
  <1>8. HolderInv'
    BY <1>0, <1>1, <1>a, <1>d, <1>e DEF HolderInv, Having, Holding, TypeOK
  <1>9. FlagInv'
    <2>1. \A q \in Procs \ {p} : pc[q] \in Having => cur[q] \in Bufs
      BY Holder
    <2> QED
      BY <2>1, <1>0, <1>b, <1>d, <1>e DEF FlagInv, Having, Holding, Writing
  <1>10. QueueExact' /\ RequestInv' /\ DriveInv'
    <2>1. \A i \in 1 .. Len(idequeue) : idequeue[i] \in Bufs
      BY Request
    <2>2. \A q \in Procs : pc'[q] \in Sleeping <=> pc[q] \in Sleeping
      BY <1>a, <1>e DEF Sleeping
    <2> QED
      BY <2>1, <2>2, <1>1, <1>b, RequestsFrame
  <1>11. CleanInv'
    BY <1>0, <1>1, <1>b DEF CleanInv
  <1>12. KeptInv'
    <2>1. Kept' \subseteq Kept
      BY <1>a, <1>b, <1>d, <1>e DEF Kept, Writing
    <2> QED
      BY <2>1, <1>0, KeptFrame
  <1> QED
    BY <1>2, <1>3, <1>4, <1>5, <1>6, <1>7, <1>8, <1>9, <1>10,
       <1>11, <1>12 DEF IInv, BuffersAccounted

\* bget finds the buffer of the block, if there is one, ...
LEMMA CachedOne ==
    ASSUME OneBuffer, NEW blk \in Blocks, Cached(blk) # {}
    PROVE  Min(Cached(blk)) \in Bufs /\ bufs[Min(Cached(blk))].blk = blk
  <1>1. PICK b \in Bufs : bufs[b].blk = blk
    BY DEF Cached
  <1>2. \A c \in Cached(blk) : c = b
    BY <1>1, Names DEF Cached, OneBuffer
  <1>3. b \in Cached(blk) /\ b \in Nat
    BY <1>1, BufsFinite DEF Cached
  <1>4. \E x \in Cached(blk) : \A y \in Cached(blk) : x =< y
    BY <1>2, <1>3
  <1>5. Min(Cached(blk)) \in Cached(blk)
    BY <1>4 DEF Min
  <1> QED
    BY <1>5 DEF Cached

\* ... and else the last in the list that is neither in use nor dirty, if there is one.
LEMMA VictimIs ==
    ASSUME TypeOK, {i \in Bufs : Unused(mru[i])} # {}
    PROVE  LET b == mru[Max({i \in Bufs : Unused(mru[i])})] IN b \in Bufs /\ Unused(b)
  <1> DEFINE F == {i \in Bufs : Unused(mru[i])}
  <1>1. F \in SUBSET Nat /\ IsFiniteSet(F)
    BY BufsFinite, FS_Subset
  <1>2. Max(F) \in F
    BY <1>1, Greatest
  <1> QED
    BY <1>2 DEF TypeOK

\* bget takes a buffer: the one of the block, or one that nobody uses.
Takes(p, blk, b, r) ==
    /\ r \in [blk : Blocks \union {NoBlock}, valid : BOOLEAN, dirty : BOOLEAN,
             ref : Nat, data : Contents \union {"none"}]
    /\ pc[p] = "idle" /\ r.blk = blk /\ r.ref = bufs[b].ref + 1
    /\ \/ /\ r.blk = bufs[b].blk /\ r.valid = bufs[b].valid
          /\ r.dirty = bufs[b].dirty /\ r.data = bufs[b].data
       \/ /\ ~r.valid /\ ~r.dirty /\ bufs[b].ref = 0 /\ ~bufs[b].dirty
          /\ \A q \in Procs : cur[q] # b
          /\ \A c \in Bufs : bufs[c].blk # blk
    /\ bufs' = [bufs EXCEPT ![b] = r]
    /\ cur' = [cur EXCEPT ![p] = b] /\ pc' = [pc EXCEPT ![p] = "lock"]
    /\ UNCHANGED <<mru, locked, idequeue, drive, disk, panicked>>

LEMMA TakeStep ==
    ASSUME IInv, NEW p \in Procs, NEW blk \in Blocks, NEW b \in Bufs, NEW r, Takes(p, blk, b, r)
    PROVE  IInv'
  <1> USE DEF Takes
  <1>0. /\ TypeOK /\ OneBuffer /\ RefsExact /\ BuffersSuffice /\ ListInv /\ UserInv /\ HolderInv
        /\ FlagInv /\ QueueExact /\ RequestInv /\ DriveInv /\ CleanInv /\ KeptInv
    BY DEF IInv, BuffersAccounted
  <1>1. cur[p] = 0 /\ blk # NoBlock /\ b # 0
    BY <1>0, Names, BufsFinite DEF UserInv
  <1>2. \A q \in Procs : /\ cur'[q] = (IF q = p THEN b ELSE cur[q])
                         /\ pc'[q] = (IF q = p THEN "lock" ELSE pc[q])
    BY <1>0 DEF TypeOK
  <1>3. bufs'[b] = r /\ \A c \in Bufs \ {b} : bufs'[c] = bufs[c]
    BY <1>0 DEF TypeOK
  <1>4. ASSUME NEW q \in Procs, cur[q] = b
        PROVE  /\ r.blk = bufs[b].blk /\ r.valid = bufs[b].valid
               /\ r.dirty = bufs[b].dirty /\ r.data = bufs[b].data
    BY <1>4
  <1>5. RefsExact'
    <2>1. \A c \in Bufs : Cardinality(Users(cur', c))
                            = Cardinality(Users(cur, c)) + (IF c = b THEN 1 ELSE 0)
      <3>1. cur \in [Procs -> Bufs \union {0}]
        BY <1>0 DEF TypeOK
      <3>2. \A c \in Bufs : Cardinality(Users([cur EXCEPT ![p] = b], c))
                            = Cardinality(Users(cur, c)) + (IF c = b THEN 1 ELSE 0)
        BY <3>1, <1>1, UsersTake
      <3> QED
        BY <3>2
    <2>2. ASSUME NEW c \in Bufs
          PROVE  bufs[c].ref = Cardinality(Users(cur, c)) /\ Cardinality(Users(cur, c)) \in Nat
      <3>1. Cardinality(Users(cur, c)) \in Nat
        BY UsersFinite
      <3>2. bufs[c].ref = Cardinality(Users(cur, c))
        BY <1>0 DEF RefsExact, Users
      <3> QED
        BY <3>1, <3>2
    <2>3. \A c \in Bufs : bufs'[c].ref = Cardinality(Users(cur', c))
      <3> SUFFICES ASSUME NEW c \in Bufs
                   PROVE  bufs'[c].ref = Cardinality(Users(cur', c))
        OBVIOUS
      <3>1. CASE c = b
        BY <3>1, <2>1, <2>2, <1>3
      <3>2. CASE c # b
        <4>1. bufs[c].ref = Cardinality(Users(cur, c)) /\ Cardinality(Users(cur, c)) \in Nat
          BY <2>2
        <4>2. Cardinality(Users(cur', c)) = Cardinality(Users(cur, c)) + 0
          BY <3>2, <2>1
        <4>3. bufs'[c] = bufs[c]
          BY <3>2, <1>3
        <4> QED
          BY <4>1, <4>2, <4>3
      <3> QED
        BY <3>1, <3>2
    <2> QED
      BY <2>3 DEF RefsExact, Users
  <1>6. TypeOK'
    <2>1. bufs'[b].ref \in 0 .. Cardinality(Procs)
      <3>1. bufs'[b].ref = Cardinality(Users(cur', b))
        BY <1>5 DEF RefsExact, Users
      <3>2. Cardinality(Users(cur', b)) \in 0 .. Cardinality(Procs)
        BY UsersFinite
      <3> QED
        BY <3>1, <3>2
    <2>2. r \in BufType
      BY <2>1, <1>3 DEF BufType
    <2>3. bufs' \in [Bufs -> BufType]
      BY <2>2, <1>0 DEF TypeOK, BufType
    <2>4. pc' \in [Procs -> PCs] /\ cur' \in [Procs -> Bufs \union {0}]
      BY <1>0 DEF TypeOK, PCs
    <2> QED
      BY <2>3, <2>4, <1>0 DEF TypeOK, BufType
  <1>7. OneBuffer'
    <2> SUFFICES ASSUME NEW c \in Bufs, NEW d \in Bufs, bufs'[c].blk = bufs'[d].blk,
                        bufs'[c].blk # NoBlock, c # d
                 PROVE  FALSE
      BY DEF OneBuffer
    <2>1. CASE c # b /\ d # b
      BY <2>1, <1>0, <1>3 DEF OneBuffer
    <2>2. CASE c = b \/ d = b
      BY <2>2, <1>0, <1>3 DEF OneBuffer
    <2> QED
      BY <2>1, <2>2
  <1>8. BuffersSuffice' /\ ListInv'
    BY <1>0 DEF BuffersSuffice, ListInv
  <1>9. UserInv'
    <2> SUFFICES ASSUME NEW q \in Procs
                 PROVE  /\ cur'[q] = 0 <=> pc'[q] = "idle"
                        /\ cur'[q] # 0 => bufs'[cur'[q]].blk # NoBlock
      BY DEF UserInv
    <2>1. CASE q = p
      BY <2>1, <1>1, <1>2, <1>3
    <2>2. CASE q # p
      BY <2>2, <1>0, <1>1, <1>2, <1>3 DEF UserInv, TypeOK
    <2> QED
      BY <2>1, <2>2
  <1>10. HolderInv'
    BY <1>0, <1>1, <1>2 DEF HolderInv, Having, Holding, TypeOK
  <1>11. FlagInv'
    <2>1. ASSUME NEW c \in Bufs
          PROVE  /\ bufs'[c].dirty => bufs'[c].valid /\ bufs'[c].data \in Contents
                 /\ bufs'[c].valid => bufs'[c].blk # NoBlock
      BY <1>0, <1>1, <1>3 DEF FlagInv
    <2>2. ASSUME NEW q \in Procs
          PROVE  /\ pc'[q] \in Having => (bufs'[cur'[q]].valid <=> pc'[q] \notin {"read", "readsleep"})
                 /\ pc'[q] \in Writing => bufs'[cur'[q]].dirty
                 /\ pc'[q] \in {"readcheck", "writecheck"} => ~bufs'[cur'[q]].dirty
      <3>1. CASE q = p
        BY <3>1, <1>2 DEF Having, Holding, Writing
      <3>2. CASE q # p
        <4>1. pc'[q] = pc[q] /\ cur'[q] = cur[q]
          BY <3>2, <1>2
        <4>2. pc[q] \in Having => cur[q] \in Bufs
          BY Holder
        <4>3. pc[q] \in Having => /\ bufs'[cur[q]].valid = bufs[cur[q]].valid
                                  /\ bufs'[cur[q]].dirty = bufs[cur[q]].dirty
          BY <4>2, <1>3, <1>4
        <4> QED
          BY <4>1, <4>3, <1>0 DEF FlagInv, Having, Holding, Writing
      <3> QED
        BY <3>1, <3>2
    <2> QED
      BY <2>1, <2>2 DEF FlagInv
  <1>12. QueueExact' /\ RequestInv' /\ DriveInv'
    <2>1. \A i \in 1 .. Len(idequeue) :
            /\ bufs'[idequeue[i]].blk = bufs[idequeue[i]].blk
            /\ bufs'[idequeue[i]].dirty = bufs[idequeue[i]].dirty
            /\ bufs'[idequeue[i]].data = bufs[idequeue[i]].data
      BY <1>3, <1>4, Request
    <2>2. \A q \in Procs : pc'[q] \in Sleeping <=> pc[q] \in Sleeping
      BY <1>2 DEF Sleeping
    <2> QED
      BY <2>1, <2>2, RequestsFrame
  <1>13. CleanInv'
    BY <1>0, <1>3 DEF CleanInv
  <1>14. KeptInv'
    <2>1. ASSUME NEW c \in Kept'
          PROVE  c \in Kept
      <3>1. c \in Bufs /\ bufs'[c].dirty
        BY <2>1 DEF Kept
      <3>2. bufs[c].dirty
        BY <3>1, <1>3
      <3>3. ASSUME NEW q \in Procs, cur[q] = c
            PROVE  pc[q] \notin Writing
        <4>1. q # p
          BY <3>1, <3>3, <1>1, BufsFinite
        <4> QED
          BY <4>1, <3>3, <2>1, <1>2 DEF Kept
      <3> QED
        BY <3>1, <3>2, <3>3 DEF Kept
    <2> QED
      BY <2>1, <1>0, KeptFrame
  <1> QED
    BY <1>5, <1>6, <1>7, <1>8, <1>9, <1>10, <1>11, <1>12, <1>13, <1>14
       DEF IInv, BuffersAccounted

\* When bget finds no buffer, each one is of another process or kept by the log.
LEMMA NoneFree ==
    ASSUME IInv, NEW p \in Procs, pc[p] = "idle", {i \in Bufs : Unused(mru[i])} = {}
    PROVE  NBUF < MaxPinned + Cardinality(Procs)
  <1>0. TypeOK /\ RefsExact /\ ListInv /\ UserInv /\ KeptInv
    BY DEF IInv, BuffersAccounted
  <1> DEFINE Others == Procs \ {p}
             Taken == {cur[q] : q \in Others}
  <1>1. Bufs \subseteq Taken \union Kept
    <2> SUFFICES ASSUME NEW b \in Bufs
                 PROVE  b \in Taken \union Kept
      OBVIOUS
    <2>1. ~Unused(b)
      BY <1>0 DEF ListInv
    <2>2. CASE bufs[b].ref # 0
      <3>1. PICK q \in Procs : cur[q] = b
        BY <2>2, <1>0, UnusedBuffer
      <3>2. q # p
        BY <3>1, <1>0, BufsFinite DEF UserInv
      <3> QED
        BY <3>1, <3>2
    <2>3. CASE bufs[b].ref = 0
      BY <2>1, <2>3, <1>0, UnusedBuffer DEF Unused, Kept
    <2> QED
      BY <2>2, <2>3
  <1>2. /\ IsFiniteSet(Others) /\ Cardinality(Others) = Cardinality(Procs) - 1
        /\ Cardinality(Procs) \in Nat /\ Cardinality(Others) \in Nat
    BY BufCacheAssumption, FS_RemoveElement, FS_CardinalityType
  <1>3. /\ IsFiniteSet(Taken) /\ Cardinality(Taken) <= Cardinality(Others)
        /\ Cardinality(Taken) \in Nat
    <2>1. IsFiniteSet(Taken) /\ Cardinality(Taken) <= Cardinality(Others)
      <3> DEFINE f == [q \in Others |-> cur[q]]
      <3>1. f \in Surjection(Others, Taken)
        BY DEF Surjection
      <3> QED
        BY <3>1, <1>2, FS_Surjection DEF ExistsSurjection
    <2> QED
      BY <2>1, FS_CardinalityType
  <1>4. IsFiniteSet(Kept) /\ Cardinality(Kept) \in Nat /\ Cardinality(Kept) <= MaxPinned
    <2>1. Kept \subseteq Bufs
      BY DEF Kept
    <2> QED
      BY <2>1, <1>0, BufsFinite, FS_Subset, FS_CardinalityType DEF KeptInv
  <1> HIDE DEF Taken, Others
  <1>5. /\ IsFiniteSet(Taken \union Kept)
        /\ Cardinality(Taken \union Kept) <= Cardinality(Taken) + Cardinality(Kept)
        /\ Cardinality(Taken \union Kept) \in Nat
    <2>1. IsFiniteSet(Taken \intersect Kept) /\ Cardinality(Taken \intersect Kept) \in Nat
      BY <1>3, FS_Intersection, FS_CardinalityType
    <2>2. /\ IsFiniteSet(Taken \union Kept)
          /\ Cardinality(Taken \union Kept)
              = Cardinality(Taken) + Cardinality(Kept) - Cardinality(Taken \intersect Kept)
      BY <1>3, <1>4, FS_Union
    <2> QED
      BY <2>1, <2>2, <1>3, <1>4, FS_CardinalityType
  <1>6. NBUF <= Cardinality(Taken \union Kept)
    BY <1>1, <1>5, BufsFinite, FS_Subset
  <1> QED
    BY <1>2, <1>3, <1>4, <1>5, <1>6, BufCacheAssumption

\* bget: a hit, a buffer used again, or the panic.
LEMMA BgetIs ==
    ASSUME IInv, NEW p \in Procs, NEW blk \in Blocks, Bget(p, blk)
    PROVE  \/ \E b \in Bufs : \E r : Takes(p, blk, b, r)
           \/ /\ pc[p] = "idle" /\ {i \in Bufs : Unused(mru[i])} = {}
              /\ UNCHANGED <<bufs, mru, locked, idequeue, drive, disk, pc, cur>>
  <1>0. TypeOK /\ OneBuffer /\ RefsExact
    BY DEF IInv, BuffersAccounted
  <1> DEFINE F == {i \in Bufs : Unused(mru[i])}
             hit == Min(Cached(blk))
             victim == mru[Max(F)]
             new == [Empty EXCEPT !.blk = blk, !.ref = 1]
  <1>1. pc[p] = "idle" /\ UNCHANGED <<mru, locked, idequeue, drive, disk>>
    BY DEF Bget, At
  <1>2. CASE Cached(blk) # {}
    <2>1. hit \in Bufs /\ bufs[hit].blk = blk
      BY <1>0, <1>2, CachedOne
    <2>2. /\ bufs' = [bufs EXCEPT ![hit].ref = @ + 1] /\ panicked' = panicked
          /\ cur' = [cur EXCEPT ![p] = hit] /\ pc' = [pc EXCEPT ![p] = "lock"]
      BY <1>2 DEF Bget, Goto
    <2> HIDE DEF hit
    <2>3. [bufs[hit] EXCEPT !.ref = @ + 1]
            \in [blk : Blocks \union {NoBlock}, valid : BOOLEAN, dirty : BOOLEAN,
                 ref : Nat, data : Contents \union {"none"}]
      <3>1. bufs[hit] \in BufType /\ Cardinality(Procs) \in Nat
        BY <2>1, <1>0, BufCacheAssumption, FS_CardinalityType DEF TypeOK, BufType
      <3>2. bufs[hit].ref + 1 \in Nat
        BY <3>1 DEF BufType
      <3> QED
        BY <3>1, <3>2 DEF BufType
    <2>4. bufs' = [bufs EXCEPT ![hit] = [bufs[hit] EXCEPT !.ref = @ + 1]]
      BY <2>2
    <2>5. bufs[hit] \in BufType
      BY <2>1, <1>0 DEF TypeOK, BufType
    <2> DEFINE r == [bufs[hit] EXCEPT !.ref = @ + 1]
    <2>6. /\ r.blk = blk /\ r.ref = bufs[hit].ref + 1 /\ r.blk = bufs[hit].blk
          /\ r.valid = bufs[hit].valid /\ r.dirty = bufs[hit].dirty /\ r.data = bufs[hit].data
      BY <2>1, <2>5 DEF BufType
    <2> HIDE DEF r
    <2>7. r \in [blk : Blocks \union {NoBlock}, valid : BOOLEAN, dirty : BOOLEAN,
                 ref : Nat, data : Contents \union {"none"}]
      BY <2>3 DEF r
    <2>8. bufs' = [bufs EXCEPT ![hit] = r]
      BY <2>4 DEF r
    <2> QED
      BY <1>1, <2>1, <2>2, <2>6, <2>7, <2>8 DEF Takes
  <1>3. CASE Cached(blk) = {} /\ F # {}
    <2>1. victim \in Bufs /\ bufs[victim].ref = 0 /\ ~bufs[victim].dirty
      BY <1>0, <1>3, VictimIs DEF Unused
    <2>2. /\ bufs' = [bufs EXCEPT ![victim] = new] /\ panicked' = panicked
          /\ cur' = [cur EXCEPT ![p] = victim] /\ pc' = [pc EXCEPT ![p] = "lock"]
      BY <1>3 DEF Bget, Goto
    <2> HIDE DEF victim
    <2>3. \A q \in Procs : cur[q] # victim
      BY <2>1, <1>0, UnusedBuffer
    <2>4. \A c \in Bufs : bufs[c].blk # blk
      BY <1>3 DEF Cached
    <2>5. /\ new \in [blk : Blocks \union {NoBlock}, valid : BOOLEAN, dirty : BOOLEAN,
                       ref : Nat, data : Contents \union {"none"}]
          /\ new.blk = blk /\ new.ref = bufs[victim].ref + 1 /\ ~new.valid /\ ~new.dirty
      <3>1. Empty \in [blk : Blocks \union {NoBlock}, valid : BOOLEAN, dirty : BOOLEAN,
                       ref : Nat, data : Contents \union {"none"}]
        BY DEF Empty
      <3>2. ~Empty.valid /\ ~Empty.dirty
        BY DEF Empty
      <3>3. new \in [blk : Blocks \union {NoBlock}, valid : BOOLEAN, dirty : BOOLEAN,
                     ref : Nat, data : Contents \union {"none"}]
        BY <3>1
      <3>4. new.blk = blk /\ new.ref = 1
        BY <3>1
      <3>5. ~new.valid /\ ~new.dirty
        BY <3>1, <3>2
      <3> QED
        BY <3>3, <3>4, <3>5, <2>1
    <2> HIDE DEF new
    <2> QED
      BY <1>1, <2>1, <2>2, <2>3, <2>4, <2>5 DEF Takes
  <1>4. CASE Cached(blk) = {} /\ F = {}
    BY <1>1, <1>4 DEF Bget
  <1> QED
    BY <1>2, <1>3, <1>4

LEMMA BgetStep ==
    ASSUME IInv, NEW p \in Procs, NEW blk \in Blocks, Bget(p, blk)
    PROVE  IInv'
  <1>1. ASSUME NEW b \in Bufs, NEW r, Takes(p, blk, b, r)
        PROVE  IInv'
    BY <1>1, TakeStep
  <1>2. ASSUME pc[p] = "idle", {i \in Bufs : Unused(mru[i])} = {},
               UNCHANGED <<bufs, mru, locked, idequeue, drive, disk, pc, cur>>
        PROVE  IInv'
    <2>1. NBUF < MaxPinned + Cardinality(Procs)
      BY <1>2, NoneFree
    <2>2. BuffersSuffice'
      <3>1. Cardinality(Procs) \in Nat
        BY BufCacheAssumption, FS_CardinalityType
      <3> QED
        BY <3>1, <2>1, BufCacheAssumption DEF BuffersSuffice
    <2>3. panicked' \in BOOLEAN
      BY DEF Bget, IInv, BuffersAccounted, TypeOK
    <2>4. TypeOK' /\ OneBuffer'
      BY <1>2, <2>3 DEF IInv, BuffersAccounted, TypeOK, OneBuffer
    <2>5. RefsExact'
      BY <1>2, RefsFrame DEF IInv, BuffersAccounted
    <2>6. ListInv' /\ UserInv' /\ HolderInv' /\ FlagInv' /\ CleanInv'
      BY <1>2 DEF IInv, ListInv, UserInv, HolderInv, FlagInv, CleanInv
    <2>7. QueueExact' /\ RequestInv' /\ DriveInv'
      BY <1>2, RequestsFrame
    <2>8. KeptInv'
      <3>1. Kept' = Kept
        BY <1>2 DEF Kept
      <3> QED
        BY <3>1 DEF IInv, KeptInv
    <2> QED
      BY <2>2, <2>4, <2>5, <2>6, <2>7, <2>8 DEF IInv, BuffersAccounted
  <1> QED
    BY <1>1, <1>2, BgetIs

-----------------------------------------------------------------------------
(* The invariant *)

LEMMA InitInv == Init => IInv
  <1> SUFFICES ASSUME Init
               PROVE  IInv
    OBVIOUS
  <1>1. /\ bufs = [b \in Bufs |-> Empty] /\ mru = [i \in Bufs |-> NBUF + 1 - i]
        /\ locked = [b \in Bufs |-> Nobody] /\ idequeue = <<>> /\ drive = Idle
        /\ disk = [k \in Blocks |-> k] /\ pc = [p \in Procs |-> "idle"]
        /\ cur = [p \in Procs |-> 0] /\ panicked = FALSE
    BY DEF Init
  <1>2. /\ Empty.blk = NoBlock /\ ~Empty.valid /\ ~Empty.dirty /\ Empty.ref = 0
        /\ Empty.data = "none"
    BY DEF Empty
  <1>3. \A b \in Bufs : NBUF + 1 - b \in Bufs /\ NBUF + 1 - (NBUF + 1 - b) = b
    BY BufCacheAssumption DEF Bufs
  <1>4. TypeOK
    <2>1. Cardinality(Procs) \in Nat
      BY BufCacheAssumption, FS_CardinalityType
    <2>2. bufs \in [Bufs -> BufType]
      <3>1. Empty \in BufType
        BY <2>1 DEF Empty, BufType
      <3> QED
        BY <3>1, <1>1
    <2>3. mru \in [Bufs -> Bufs]
      BY <1>1, <1>3
    <2>4. drive \in [cmd : {"idle", "read", "write"}, blk : Blocks \union {NoBlock},
                     data : Contents \union {"none"}, done : BOOLEAN]
      BY <1>1 DEF Idle
    <2>5. disk \in [Blocks -> Contents] /\ idequeue \in Seq(Bufs)
      BY <1>1 DEF Contents
    <2> QED
      BY <2>2, <2>3, <2>4, <2>5, <1>1 DEF TypeOK, BufType, PCs
  <1>5. OneBuffer /\ BuffersSuffice
    BY <1>1, <1>2 DEF OneBuffer, BuffersSuffice
  <1>6. RefsExact
    <2> SUFFICES ASSUME NEW b \in Bufs
                 PROVE  bufs[b].ref = Cardinality(Users(cur, b))
      BY DEF RefsExact, Users
    <2>1. Users(cur, b) = {}
      BY <1>1, BufsFinite DEF Users
    <2> QED
      BY <2>1, <1>1, <1>2, FS_EmptySet
  <1>7. ListInv /\ UserInv /\ CleanInv
    BY <1>1, <1>2, <1>3 DEF ListInv, UserInv, CleanInv
  <1>8. HolderInv /\ FlagInv
    BY <1>1, <1>2 DEF HolderInv, FlagInv, Having, Holding, Writing
  <1>9. QueueExact
    BY <1>1 DEF QueueExact, Idle
  <1>10. RequestInv /\ DriveInv
    BY <1>1 DEF RequestInv, DriveInv
  <1>11. KeptInv
    <2>1. Kept = {}
      BY <1>1, <1>2 DEF Kept
    <2> QED
      BY <2>1, FS_EmptySet, BufCacheAssumption DEF KeptInv
  <1> QED
    BY <1>4, <1>5, <1>6, <1>7, <1>8, <1>9, <1>10, <1>11 DEF IInv, BuffersAccounted

LEMMA StepInv == IInv /\ [Next]_vars => IInv'
  <1>1. ASSUME IInv, UNCHANGED vars
        PROVE  IInv'
    <2>1. UNCHANGED <<bufs, mru, locked, idequeue, drive, disk, pc, cur, panicked>>
      BY <1>1 DEF vars
    <2>2. BuffersAccounted'
      BY <1>1, <2>1, RefsFrame DEF IInv, BuffersAccounted, TypeOK, OneBuffer, BuffersSuffice
    <2>3. ListInv' /\ UserInv' /\ HolderInv' /\ FlagInv' /\ CleanInv'
      BY <1>1, <2>1 DEF IInv, ListInv, UserInv, HolderInv, FlagInv, CleanInv
    <2>4. QueueExact' /\ RequestInv' /\ DriveInv'
      BY <1>1, <2>1, RequestsFrame
    <2>5. KeptInv'
      <3>1. Kept' = Kept
        BY <2>1 DEF Kept
      <3> QED
        BY <1>1, <3>1 DEF IInv, KeptInv
    <2> QED
      BY <2>2, <2>3, <2>4, <2>5 DEF IInv
  <1>2. ASSUME IInv, Next
        PROVE  IInv'
    BY <1>2, BgetStep, WriteStep, LockStep, IderwStep, RecheckStep, UnrefStep, InstallStep,
       BrelseStep, DriveDoneStep, IdeIntrStep DEF Next
  <1> QED
    BY <1>1, <1>2

\* The invariant behind the others.
THEOREM Invariance == Spec => []IInv
  BY InitInv, StepInv, PTL DEF Spec

\* A block has one buffer, the references are the processes that use a buffer or
\* wait for it, and bget never panics as long as there is a buffer for each process
\* and for each block that the log keeps.
THEOREM Accounting == Spec => []BuffersAccounted
  <1>1. IInv => BuffersAccounted
    BY DEF IInv
  <1> QED
    BY <1>1, Invariance, PTL

\* The queue of the driver, the processes that sleep and the controller agree.
THEOREM QueueAgrees == Spec => []QueueExact
  <1>1. IInv => QueueExact
    BY DEF IInv
  <1> QED
    BY <1>1, Invariance, PTL

-----------------------------------------------------------------------------
(* The refinement of BlockStore *)

\* The contents of the blocks as the buffers B and the disk D have them.
DataOf(B, D) ==
    [k \in Blocks |->
       IF \E b \in Bufs : B[b].blk = k /\ B[b].valid
       THEN B[CHOOSE b \in Bufs : B[b].blk = k /\ B[b].valid].data
       ELSE D[k]]

LEMMA DataValue ==
    ASSUME NEW B, NEW D, NEW k \in Blocks, NEW v,
           \A b \in Bufs : B[b].blk = k /\ B[b].valid => B[b].data = v,
           (\A b \in Bufs : B[b].blk = k => ~B[b].valid) => D[k] = v
    PROVE  DataOf(B, D)[k] = v
  <1>1. CASE \E b \in Bufs : B[b].blk = k /\ B[b].valid
    <2> DEFINE c == CHOOSE b \in Bufs : B[b].blk = k /\ B[b].valid
    <2>1. c \in Bufs /\ B[c].blk = k /\ B[c].valid
      BY <1>1
    <2> HIDE DEF c
    <2>2. DataOf(B, D)[k] = B[c].data
      BY <1>1 DEF DataOf, c
    <2> QED
      BY <2>1, <2>2
  <1>2. CASE ~ \E b \in Bufs : B[b].blk = k /\ B[b].valid
    BY <1>2 DEF DataOf
  <1> QED
    BY <1>1, <1>2

\* A block has the contents of its buffer, if it has a valid one, and of the disk else.
LEMMA DataIs ==
    ASSUME IInv, NEW k \in Blocks
    PROVE  /\ Data = DataOf(bufs, disk)
           /\ \A b \in Bufs : bufs[b].blk = k /\ bufs[b].valid => Data[k] = bufs[b].data
           /\ (\A b \in Bufs : bufs[b].blk = k => ~bufs[b].valid) => Data[k] = disk[k]
  <1>1. Data = DataOf(bufs, disk)
    BY DEF Data, DataOf
  <1>2. ASSUME NEW b \in Bufs, bufs[b].blk = k, bufs[b].valid
        PROVE  Data[k] = bufs[b].data
    <2>1. \A c \in Bufs : bufs[c].blk = k => c = b
      BY <1>2, Names DEF IInv, BuffersAccounted, OneBuffer
    <2>2. DataOf(bufs, disk)[k] = bufs[b].data
      BY <1>2, <2>1, DataValue
    <2> QED
      BY <2>2, <1>1
  <1>3. ASSUME \A b \in Bufs : bufs[b].blk = k => ~bufs[b].valid
        PROVE  Data[k] = disk[k]
    <2>1. DataOf(bufs, disk)[k] = disk[k]
      BY <1>3, DataValue
    <2> QED
      BY <2>1, <1>1
  <1> QED
    BY <1>1, <1>2, <1>3

\* The contents stay when the buffers after the step say what the blocks had before.
LEMMA DataFrame ==
    ASSUME \A k \in Blocks :
             /\ \A b \in Bufs : bufs'[b].blk = k /\ bufs'[b].valid => bufs'[b].data = Data[k]
             /\ (\A b \in Bufs : bufs'[b].blk = k => ~bufs'[b].valid) => disk'[k] = Data[k]
    PROVE  Data' = Data
  <1>1. Data' = DataOf(bufs', disk')
    BY DEF Data, DataOf
  <1>2. \A k \in Blocks : DataOf(bufs', disk')[k] = Data[k]
    BY DataValue
  <1>3. DataOf(bufs', disk') = [k \in Blocks |-> DataOf(bufs', disk')[k]]
    BY DEF DataOf
  <1>4. Data = [k \in Blocks |-> Data[k]]
    BY DEF Data
  <1> QED
    BY <1>1, <1>2, <1>3, <1>4

LEMMA SameBuffers ==
    ASSUME bufs' = bufs, disk' = disk
    PROVE  Data' = Data
  BY DEF Data

Shown(p) == [blk |-> bufs[cur[p]].blk, val |-> bufs[cur[p]].data]

LEMMA ViewIs ==
    /\ \A p \in Procs : View[p] = IF pc[p] \in Holding THEN Shown(p) ELSE Store!NoView
    /\ \A p \in Procs : View'[p] = IF pc'[p] \in Holding THEN Shown(p)' ELSE Store!NoView
    /\ View = [p \in Procs |-> View[p]] /\ View' = [p \in Procs |-> View'[p]]
  BY DEF View, Shown, Store!NoView

\* Who holds a block sees a block.
LEMMA SeesBlock ==
    ASSUME IInv, NEW p \in Procs, pc[p] \in Holding
    PROVE  /\ View[p] = Shown(p) /\ View[p] # Store!NoView
           /\ View[p].blk = bufs[cur[p]].blk /\ bufs[cur[p]].blk \in Blocks /\ cur[p] \in Bufs
  <1>1. cur[p] \in Bufs /\ cur[p] # 0
    BY Holder, BufsFinite DEF Having
  <1>2. bufs[cur[p]].blk \in Blocks
    BY <1>1 DEF IInv, BuffersAccounted, UserInv, TypeOK
  <1>3. View[p] = Shown(p)
    BY ViewIs
  <1>4. View[p].blk = bufs[cur[p]].blk
    BY <1>3 DEF Shown
  <1>5. Store!NoView.blk = NoBlock
    BY DEF Store!NoView, NoBlock
  <1> QED
    BY <1>1, <1>2, <1>3, <1>4, <1>5, Names

\* Nobody sees anything else when the holders and their buffers stay as they are.
LEMMA ViewFrame ==
    ASSUME \A q \in Procs : pc'[q] \in Holding <=> pc[q] \in Holding,
           \A q \in Procs : pc[q] \in Holding => Shown(q)' = Shown(q)
    PROVE  View' = View
  <1>1. \A q \in Procs : View'[q] = View[q]
    BY ViewIs
  <1> QED
    BY <1>1, ViewIs

\* A step that changes neither the buffers nor the disk, and no holder.
LEMMA Stutter ==
    ASSUME bufs' = bufs, disk' = disk, cur' = cur,
           \A q \in Procs : pc'[q] \in Holding <=> pc[q] \in Holding
    PROVE  UNCHANGED Store!vars
  <1>1. View' = View
    BY ViewFrame DEF Shown
  <1> QED
    BY <1>1, SameBuffers DEF Store!vars

\* A process that comes to hold a buffer with the contents gets its block: nobody
\* else has it.
LEMMA GetRefines ==
    ASSUME IInv, NEW p \in Procs, pc[p] \notin Holding, pc[p] # "idle",
           bufs[cur[p]].valid, \A q \in Procs \ {p} : pc[q] \in Having => cur[q] # cur[p],
           bufs' = bufs, disk' = disk, cur' = cur, pc' = [pc EXCEPT ![p] = "hold"]
    PROVE  \E blk \in Blocks : Store!Get(p, blk)
  <1> DEFINE b == cur[p]
             blk == bufs[b].blk
  <1>1. b \in Bufs /\ b # 0
    BY Holder, BufsFinite
  <1>2. blk \in Blocks
    BY <1>1 DEF IInv, BuffersAccounted, UserInv, TypeOK
  <1>3. View[p] = Store!NoView
    BY ViewIs
  <1>4. ASSUME NEW q \in Procs
        PROVE  View[q].blk # blk
    <2>1. CASE pc[q] \in Holding
      <3>1. q # p
        BY <2>1
      <3>2. cur[q] # b /\ cur[q] \in Bufs /\ View[q].blk = bufs[cur[q]].blk
        BY <2>1, <3>1, SeesBlock DEF Having
      <3> QED
        BY <3>2, <1>1, <1>2, Names DEF IInv, BuffersAccounted, OneBuffer
    <2>2. CASE pc[q] \notin Holding
      <3>1. View[q] = Store!NoView
        BY <2>2, ViewIs
      <3> QED
        BY <3>1, <1>2, Names DEF Store!NoView, NoBlock
    <2> QED
      BY <2>1, <2>2
  <1>5. Data[blk] = bufs[b].data
    BY <1>1, <1>2, DataIs
  <1>6. \A q \in Procs : pc'[q] = IF q = p THEN "hold" ELSE pc[q]
    BY DEF IInv, BuffersAccounted, TypeOK
  <1>7. View' = [View EXCEPT ![p] = [blk |-> blk, val |-> Data[blk]]]
    <2>1. View'[p] = [blk |-> blk, val |-> Data[blk]]
      BY <1>5, <1>6, ViewIs DEF Shown, Holding
    <2>2. \A q \in Procs \ {p} : View'[q] = View[q]
      BY <1>6, ViewIs DEF Shown
    <2> QED
      BY <2>1, <2>2, ViewIs
  <1>8. Data' = Data
    BY SameBuffers
  <1> QED
    BY <1>2, <1>3, <1>4, <1>7, <1>8 DEF Store!Get

\* A holder stores.
LEMMA StoreRefines ==
    ASSUME IInv, NEW p \in Procs, NEW v \in Vals, Write(p, v) \/ LogWrite(p, v)
    PROVE  \E w \in Contents : Store!Store(p, w)
  <1> DEFINE b == cur[p]
             blk == bufs[b].blk
  <1>1. /\ pc[p] = "hold" /\ disk' = disk /\ cur' = cur
        /\ bufs' = [bufs EXCEPT ![b] = [@ EXCEPT !.data = v, !.dirty = TRUE]]
        /\ pc' = [pc EXCEPT ![p] = "write"] \/ pc' = pc
    BY DEF Write, LogWrite, At, Goto
  <1>2. pc[p] \in Holding /\ pc[p] \in Having
    BY <1>1 DEF Holding, Having
  <1>3. b \in Bufs /\ blk \in Blocks /\ View[p] = Shown(p) /\ View[p] # Store!NoView
    BY <1>2, SeesBlock
  <1>4. bufs[b].valid
    BY <1>1, <1>2 DEF IInv, FlagInv
  <1>5. /\ \A c \in Bufs \ {b} : bufs'[c] = bufs[c]
        /\ bufs'[b].blk = blk /\ bufs'[b].valid /\ bufs'[b].data = v
    BY <1>1, <1>3, <1>4 DEF IInv, BuffersAccounted, TypeOK
  <1>6. \A q \in Procs \ {p} : pc[q] \in Holding => cur[q] \in Bufs \ {b}
    BY <1>2, HoldersApart, Holder DEF Having
  <1>7. /\ pc'[p] \in Holding
        /\ \A q \in Procs \ {p} : pc'[q] = pc[q]
    BY <1>1, <1>2 DEF IInv, BuffersAccounted, TypeOK, Holding
  <1>8. View' = [View EXCEPT ![p].val = v]
    <2>1. View'[p] = [blk |-> blk, val |-> v]
      BY <1>1, <1>5, <1>7, ViewIs DEF Shown
    <2>2. \A q \in Procs \ {p} : View'[q] = View[q]
      BY <1>1, <1>5, <1>6, <1>7, ViewIs DEF Shown
    <2>3. [View[p] EXCEPT !.val = v] = [blk |-> blk, val |-> v]
      BY <1>3 DEF Shown
    <2> QED
      BY <2>1, <2>2, <2>3, ViewIs
  <1>9. Data' = [Data EXCEPT ![View[p].blk] = v]
    <2>1. View[p].blk = blk
      BY <1>3 DEF Shown
    <2>2. Data' = DataOf(bufs', disk')
      BY DEF Data, DataOf
    <2>3. DataOf(bufs', disk')[blk] = v
      <3>1. \A c \in Bufs : bufs'[c].blk = blk => c = b
        BY <1>3, <1>5, Names DEF IInv, BuffersAccounted, OneBuffer
      <3> QED
        BY <3>1, <1>3, <1>5, DataValue
    <2>4. ASSUME NEW k \in Blocks, k # blk
          PROVE  DataOf(bufs', disk')[k] = Data[k]
      <3>1. \A c \in Bufs : /\ bufs'[c].blk = k => c # b /\ bufs'[c] = bufs[c]
                            /\ bufs[c].blk = k => c # b /\ bufs'[c] = bufs[c]
        BY <2>4, <1>5
      <3>2. \A c \in Bufs : bufs'[c].blk = k /\ bufs'[c].valid => bufs'[c].data = Data[k]
        BY <3>1, DataIs
      <3>3. (\A c \in Bufs : bufs'[c].blk = k => ~bufs'[c].valid) => disk'[k] = Data[k]
        BY <3>1, <1>1, DataIs
      <3> QED
        BY <3>2, <3>3, DataValue
    <2>5. Data = [k \in Blocks |-> Data[k]]
      BY DEF Data
    <2>6. DataOf(bufs', disk') = [k \in Blocks |-> DataOf(bufs', disk')[k]]
      BY DEF DataOf
    <2> QED
      BY <2>1, <2>2, <2>3, <2>4, <2>5, <2>6
  <1>10. v \in Contents
    BY DEF Contents
  <1> QED
    BY <1>1, <1>3, <1>8, <1>9, <1>10 DEF Store!Store

\* What the disk writes are the contents of a block that somebody holds.
LEMMA SyncRefines ==
    ASSUME IInv, DriveDone
    PROVE  (\E p \in Procs : Store!Sync(p)) \/ UNCHANGED Store!vars
  <1> DEFINE b == Head(idequeue)
             h == locked[b]
  <1>1. /\ UNCHANGED <<bufs, mru, locked, idequeue, pc, cur, panicked>>
        /\ idequeue # <<>>
        /\ drive.cmd = (IF bufs[b].dirty THEN "write" ELSE "read")
        /\ IF drive.cmd = "write"
           THEN disk' = [disk EXCEPT ![drive.blk] = bufs[b].data]
           ELSE disk' = disk
    BY DriveDoneIs
  <1>2. /\ b \in Bufs /\ h \in Procs /\ cur[h] = b /\ pc[h] \in Sleeping
        /\ bufs[b].blk \in Blocks /\ drive.blk = bufs[b].blk
    BY <1>1, First
  <1> HIDE DEF b, h
  <1>3. View' = View
    BY <1>1, ViewFrame DEF Shown
  <1>4. CASE ~bufs[b].dirty
    BY <1>1, <1>4, Stutter
  <1>5. CASE bufs[b].dirty
    <2>1. bufs[b].valid
      BY <1>2, <1>5 DEF IInv, FlagInv
    <2>2. pc[h] = "writesleep"
      BY <1>2, <2>1 DEF IInv, FlagInv, Sleeping, Having, Holding
    <2>3. View[h].blk = bufs[b].blk /\ View[h] # Store!NoView
      BY <2>2, <1>2, SeesBlock DEF Holding
    <2>4. Data[bufs[b].blk] = bufs[b].data
      BY <2>1, <1>2, DataIs
    <2>5. disk' = [disk EXCEPT ![bufs[b].blk] = bufs[b].data]
      BY <1>1, <1>2, <1>5
    <2>6. Data' = Data
      <3> SUFFICES ASSUME NEW k \in Blocks
                   PROVE  /\ \A c \in Bufs : bufs'[c].blk = k /\ bufs'[c].valid
                                             => bufs'[c].data = Data[k]
                          /\ (\A c \in Bufs : bufs'[c].blk = k => ~bufs'[c].valid)
                                             => disk'[k] = Data[k]
        BY DataFrame
      <3>1. \A c \in Bufs : bufs[c].blk = k /\ bufs[c].valid => bufs[c].data = Data[k]
        BY DataIs
      <3>2. ASSUME \A c \in Bufs : bufs[c].blk = k => ~bufs[c].valid
            PROVE  disk'[k] = Data[k]
        <4>1. k # bufs[b].blk
          BY <3>2, <2>1, <1>2
        <4>2. disk'[k] = disk[k]
          BY <4>1, <2>5 DEF IInv, BuffersAccounted, TypeOK
        <4> QED
          BY <4>2, <3>2, DataIs
      <3> QED
        BY <3>1, <3>2, <1>1
    <2>7. Store!Sync(h)
      BY <2>3, <2>4, <2>5, <2>6, <1>3 DEF Store!Sync
    <2> QED
      BY <2>7, <1>2
  <1> QED
    BY <1>4, <1>5

\* The answer to a request shows nobody anything new.
LEMMA AnswerRefines ==
    ASSUME IInv, IdeIntr
    PROVE  UNCHANGED Store!vars
  <1> DEFINE b == Head(idequeue)
             h == locked[b]
  <1>1. /\ UNCHANGED <<mru, locked, disk, cur, panicked>> /\ idequeue # <<>>
        /\ pc' = [pc EXCEPT ![h] = IF @ = "readsleep" THEN "readcheck" ELSE "writecheck"]
        /\ bufs' = [bufs EXCEPT ![b] = [@ EXCEPT !.valid = TRUE, !.dirty = FALSE,
                                                 !.data = disk[bufs[b].blk]]]
        /\ bufs[b].dirty => bufs[b].data = disk[bufs[b].blk]
    BY IdeIntrIs
  <1>2. /\ b \in Bufs /\ h \in Procs /\ cur[h] = b /\ pc[h] \in Sleeping
        /\ bufs[b].blk \in Blocks
        /\ \A q \in Procs : pc[q] \in Having /\ cur[q] = b => q = h
    BY <1>1, First
  <1> HIDE DEF b, h
  <1>3. /\ \A c \in Bufs \ {b} : bufs'[c] = bufs[c]
        /\ bufs'[b].blk = bufs[b].blk /\ bufs'[b].valid /\ bufs'[b].data = disk[bufs[b].blk]
    BY <1>1, <1>2 DEF IInv, BuffersAccounted, TypeOK
  <1>4. /\ \A q \in Procs \ {h} : pc'[q] = pc[q]
        /\ pc'[h] = IF pc[h] = "readsleep" THEN "readcheck" ELSE "writecheck"
    BY <1>1, <1>2 DEF IInv, BuffersAccounted, TypeOK
  <1>5. bufs[b].valid => bufs[b].data = disk[bufs[b].blk]
    BY <1>1, <1>2 DEF IInv, CleanInv
  <1>6. View' = View
    <2>1. \A q \in Procs : pc'[q] \in Holding <=> pc[q] \in Holding
      BY <1>2, <1>4 DEF Holding, Sleeping
    <2>2. ASSUME NEW q \in Procs, pc[q] \in Holding
          PROVE  bufs'[cur[q]].blk = bufs[cur[q]].blk /\ bufs'[cur[q]].data = bufs[cur[q]].data
      <3>1. CASE q = h
        <4>1. bufs[b].valid
          BY <2>2, <3>1, <1>2 DEF IInv, FlagInv, Having, Holding, Sleeping
        <4> QED
          BY <4>1, <3>1, <1>2, <1>3, <1>5
      <3>2. CASE q # h
        BY <2>2, <3>2, <1>2, <1>3, Holder DEF Having
      <3> QED
        BY <3>1, <3>2
    <2> QED
      BY <2>1, <2>2, <1>1, ViewFrame DEF Shown
  <1>7. Data' = Data
    <2> SUFFICES ASSUME NEW k \in Blocks
                 PROVE  /\ \A c \in Bufs : bufs'[c].blk = k /\ bufs'[c].valid
                                           => bufs'[c].data = Data[k]
                        /\ (\A c \in Bufs : bufs'[c].blk = k => ~bufs'[c].valid)
                                           => disk'[k] = Data[k]
      BY DataFrame
    <2>1. CASE k = bufs[b].blk
      <3>1. Data[k] = disk[k]
        <4>1. CASE bufs[b].valid
          BY <4>1, <2>1, <1>2, <1>5, DataIs
        <4>2. CASE ~bufs[b].valid
          <5>1. \A c \in Bufs : bufs[c].blk = k => ~bufs[c].valid
            BY <4>2, <2>1, <1>2, Names DEF IInv, BuffersAccounted, OneBuffer
          <5> QED
            BY <5>1, DataIs
        <4> QED
          BY <4>1, <4>2
      <3>2. \A c \in Bufs : bufs'[c].blk = k => c = b
        BY <2>1, <1>2, <1>3, Names DEF IInv, BuffersAccounted, OneBuffer
      <3> QED
        BY <3>1, <3>2, <2>1, <1>1, <1>3
    <2>2. CASE k # bufs[b].blk
      <3>1. \A c \in Bufs : (bufs'[c].blk = k <=> bufs[c].blk = k)
                            /\ (bufs[c].blk = k => bufs'[c] = bufs[c])
        BY <2>2, <1>3
      <3>2. /\ \A c \in Bufs : bufs[c].blk = k /\ bufs[c].valid => bufs[c].data = Data[k]
            /\ (\A c \in Bufs : bufs[c].blk = k => ~bufs[c].valid) => disk[k] = Data[k]
        BY DataIs
      <3>3. disk' = disk
        BY <1>1
      <3>4. \A c \in Bufs : bufs'[c].blk = k /\ bufs'[c].valid => bufs'[c].data = Data[k]
        BY <3>1, <3>2
      <3>5. (\A c \in Bufs : bufs'[c].blk = k => ~bufs'[c].valid) => disk'[k] = Data[k]
        BY <3>1, <3>2, <3>3
      <3> QED
        BY <3>4, <3>5
    <2> QED
      BY <2>1, <2>2
  <1> QED
    BY <1>1, <1>6, <1>7 DEF Store!vars

\* bget shows nobody anything new: a buffer that is used again held what the disk holds.
LEMMA TakeRefines ==
    ASSUME IInv, NEW p \in Procs, NEW blk \in Blocks, NEW b \in Bufs, NEW r, Takes(p, blk, b, r)
    PROVE  UNCHANGED Store!vars
  <1>1. bufs'[b] = r /\ \A c \in Bufs \ {b} : bufs'[c] = bufs[c]
    BY DEF Takes, IInv, BuffersAccounted, TypeOK
  <1>2. pc[p] = "idle" /\ \A q \in Procs : /\ cur'[q] = (IF q = p THEN b ELSE cur[q])
                                         /\ pc'[q] = (IF q = p THEN "lock" ELSE pc[q])
    BY DEF Takes, IInv, BuffersAccounted, TypeOK
  <1>3. View' = View
    <2>1. \A q \in Procs : pc'[q] \in Holding <=> pc[q] \in Holding
      BY <1>2 DEF Holding
    <2>2. ASSUME NEW q \in Procs, pc[q] \in Holding
          PROVE  Shown(q)' = Shown(q)
      <3>1. q # p /\ cur[q] \in Bufs /\ cur'[q] = cur[q]
        BY <2>2, <1>2, Holder DEF Having, Holding
      <3>2. bufs'[cur[q]].blk = bufs[cur[q]].blk /\ bufs'[cur[q]].data = bufs[cur[q]].data
        BY <3>1, <1>1 DEF Takes
      <3> QED
        BY <3>1, <3>2 DEF Shown
    <2> QED
      BY <2>1, <2>2, ViewFrame
  <1>4. Data' = Data
    <2> SUFFICES ASSUME NEW k \in Blocks
                 PROVE  /\ \A c \in Bufs : bufs'[c].blk = k /\ bufs'[c].valid
                                           => bufs'[c].data = Data[k]
                        /\ (\A c \in Bufs : bufs'[c].blk = k => ~bufs'[c].valid)
                                           => disk'[k] = Data[k]
      BY DataFrame
    <2>1. \A c \in Bufs : bufs'[c].blk = k /\ bufs'[c].valid => bufs'[c].data = Data[k]
      BY <1>1, DataIs DEF Takes
    <2>2. ASSUME \A c \in Bufs : bufs'[c].blk = k => ~bufs'[c].valid
          PROVE  disk[k] = Data[k]
      <3>1. CASE bufs[b].blk = k /\ bufs[b].valid
        <4>1. ~bufs[b].dirty
          BY <2>2, <3>1, <1>1 DEF Takes
        <4>2. bufs[b].data = disk[k]
          BY <3>1, <4>1 DEF IInv, CleanInv
        <4> QED
          BY <3>1, <4>2, DataIs
      <3>2. CASE ~(bufs[b].blk = k /\ bufs[b].valid)
        <4>1. \A c \in Bufs : bufs[c].blk = k => ~bufs[c].valid
          BY <2>2, <3>2, <1>1
        <4> QED
          BY <4>1, DataIs
      <3> QED
        BY <3>1, <3>2
    <2> QED
      BY <2>1, <2>2 DEF Takes
  <1> QED
    BY <1>3, <1>4 DEF Store!vars, Takes

\* brelse gives the block up.
LEMMA PutRefines ==
    ASSUME IInv, NEW p \in Procs, Brelse(p)
    PROVE  Store!Put(p)
  <1>1. /\ UNCHANGED <<bufs, disk, cur>> /\ pc[p] = "hold"
        /\ pc' = [[q \in Procs |-> IF pc[q] = "locksleep" /\ cur[q] = cur[p] THEN "lock" ELSE pc[q]]
                    EXCEPT ![p] = "unref"]
    BY DEF Brelse, Unlock, Wake, At
  <1>2. View[p] # Store!NoView
    BY <1>1, SeesBlock DEF Holding
  <1>3. pc'[p] \notin Holding /\ \A q \in Procs \ {p} : pc'[q] \in Holding <=> pc[q] \in Holding
    BY <1>1 DEF Holding
  <1>4. View' = [View EXCEPT ![p] = Store!NoView]
    <2>1. View'[p] = Store!NoView
      BY <1>3, ViewIs
    <2>2. \A q \in Procs \ {p} : View'[q] = View[q]
      BY <1>1, <1>3, ViewIs DEF Shown
    <2> QED
      BY <2>1, <2>2, ViewIs
  <1> QED
    BY <1>1, <1>2, <1>4, SameBuffers DEF Store!Put

LEMMA UnrefRefines ==
    ASSUME IInv, NEW p \in Procs, Unref(p)
    PROVE  UNCHANGED Store!vars
  <1>1. /\ pc[p] = "unref" /\ disk' = disk /\ cur' = [cur EXCEPT ![p] = 0]
        /\ pc' = [pc EXCEPT ![p] = "idle"]
        /\ bufs' = [bufs EXCEPT ![cur[p]].ref = Fewer(@)]
    BY DEF Unref, At, Goto
  <1>2. \A c \in Bufs : /\ bufs'[c].blk = bufs[c].blk /\ bufs'[c].valid = bufs[c].valid
                        /\ bufs'[c].data = bufs[c].data
    BY <1>1 DEF IInv, BuffersAccounted, TypeOK
  <1>3. View' = View
    <2>1. \A q \in Procs : pc'[q] \in Holding <=> pc[q] \in Holding
      BY <1>1 DEF IInv, BuffersAccounted, TypeOK, Holding
    <2>2. ASSUME NEW q \in Procs, pc[q] \in Holding
          PROVE  Shown(q)' = Shown(q)
      <3>1. cur'[q] = cur[q] /\ cur[q] \in Bufs
        BY <2>2, <1>1, Holder DEF IInv, BuffersAccounted, TypeOK, Holding, Having
      <3> QED
        BY <3>1, <1>2 DEF Shown
    <2> QED
      BY <2>1, <2>2, ViewFrame
  <1>4. Data' = Data
    <2> SUFFICES ASSUME NEW k \in Blocks
                 PROVE  /\ \A c \in Bufs : bufs'[c].blk = k /\ bufs'[c].valid
                                           => bufs'[c].data = Data[k]
                        /\ (\A c \in Bufs : bufs'[c].blk = k => ~bufs'[c].valid)
                                           => disk'[k] = Data[k]
      BY DataFrame
    <2>1. /\ \A c \in Bufs : bufs[c].blk = k /\ bufs[c].valid => bufs[c].data = Data[k]
          /\ (\A c \in Bufs : bufs[c].blk = k => ~bufs[c].valid) => disk[k] = Data[k]
      BY DataIs
    <2>2. disk' = disk
      BY <1>1
    <2> QED
      BY <2>1, <2>2, <1>2
  <1> QED
    BY <1>1, <1>3, <1>4 DEF Store!vars

LEMMA InitRefines == Init => Store!Init
  <1> SUFFICES ASSUME Init
               PROVE  Store!Init
    OBVIOUS
  <1>1. View = [p \in Procs |-> Store!NoView]
    BY DEF View, Init, Holding, Store!NoView
  <1>2. Data = disk
    <2>1. \A b \in Bufs : ~bufs[b].valid
      BY DEF Init, Empty
    <2>2. disk = [k \in Blocks |-> disk[k]]
      BY DEF Init
    <2>3. Data = [k \in Blocks |-> disk[k]]
      BY <2>1 DEF Data
    <2> QED
      BY <2>2, <2>3
  <1>3. disk \in [Blocks -> Contents]
    BY DEF Init, Contents
  <1> QED
    BY <1>1, <1>2, <1>3 DEF Store!Init

\* Every step of the cache is one of the store or a stutter.
LEMMA StepRefines ==
    ASSUME IInv, [Next]_vars
    PROVE  [Store!Next]_(Store!vars)
  <1> DEFINE Goal == [Store!Next]_(Store!vars)
  <1> HIDE DEF Goal
  <1>1. ASSUME UNCHANGED Store!vars
        PROVE  Goal
    BY <1>1 DEF Goal
  <1>2. ASSUME NEW p \in Procs,
               \/ \E blk \in Blocks : Store!Get(p, blk)
               \/ \E w \in Contents : Store!Store(p, w)
               \/ Store!Sync(p) \/ Store!Put(p)
        PROVE  Goal
    BY <1>2 DEF Goal, Store!Next
  <1>3. ASSUME UNCHANGED vars
        PROVE  Goal
    BY <1>1, <1>3, Stutter DEF vars
  <1>4. ASSUME NEW p \in Procs, NEW blk \in Blocks, Bget(p, blk)
        PROVE  Goal
    <2>1. ASSUME NEW b \in Bufs, NEW r, Takes(p, blk, b, r)
          PROVE  Goal
      BY <2>1, <1>1, TakeRefines
    <2>2. ASSUME UNCHANGED <<bufs, mru, locked, idequeue, drive, disk, pc, cur>>
          PROVE  Goal
      BY <2>2, <1>1, Stutter
    <2> QED
      BY <2>1, <2>2, <1>4, BgetIs
  <1>5. ASSUME NEW p \in Procs, NEW v \in Vals, Write(p, v) \/ LogWrite(p, v)
        PROVE  Goal
    BY <1>2, <1>5, StoreRefines
  <1>6. ASSUME NEW p \in Procs, Lock(p)
        PROVE  Goal
    <2>1. pc[p] = "lock" /\ bufs' = bufs /\ disk' = disk /\ cur' = cur
      BY <1>6 DEF Lock, At
    <2>2. \/ pc' = [pc EXCEPT ![p] = "locksleep"]
          \/ locked[cur[p]] = Nobody /\ bufs[cur[p]].valid /\ pc' = [pc EXCEPT ![p] = "hold"]
          \/ pc' = [pc EXCEPT ![p] = "read"]
      BY <1>6 DEF Lock, Goto
    <2>3. CASE pc' = [pc EXCEPT ![p] = "locksleep"] \/ pc' = [pc EXCEPT ![p] = "read"]
      <3>1. \A q \in Procs : pc'[q] \in Holding <=> pc[q] \in Holding
        BY <2>1, <2>3 DEF IInv, BuffersAccounted, TypeOK, Holding
      <3> QED
        BY <2>1, <3>1, <1>1, Stutter
    <2>4. CASE locked[cur[p]] = Nobody /\ bufs[cur[p]].valid /\ pc' = [pc EXCEPT ![p] = "hold"]
      <3>1. \A q \in Procs \ {p} : pc[q] \in Having => cur[q] # cur[p]
        BY <2>4, Holder, Names
      <3>2. pc[p] \notin Holding /\ pc[p] # "idle"
        BY <2>1 DEF Holding
      <3> QED
        BY <2>1, <2>4, <3>1, <3>2, <1>2, GetRefines
    <2> QED
      BY <2>2, <2>3, <2>4
  <1>7. ASSUME NEW p \in Procs, Recheck(p)
        PROVE  Goal
    <2>1. /\ bufs' = bufs /\ disk' = disk /\ cur' = cur
          /\ pc[p] \in {"readcheck", "writecheck"} /\ pc' = [pc EXCEPT ![p] = "hold"]
          /\ bufs[cur[p]].valid
      BY <1>7 DEF Recheck, Goto, IInv, FlagInv, Having, Holding
    <2>2. CASE pc[p] = "writecheck"
      <3>1. \A q \in Procs : pc'[q] \in Holding <=> pc[q] \in Holding
        BY <2>1, <2>2 DEF IInv, BuffersAccounted, TypeOK, Holding
      <3> QED
        BY <2>1, <3>1, <1>1, Stutter
    <2>3. CASE pc[p] = "readcheck"
      <3>1. \A q \in Procs \ {p} : pc[q] \in Having => cur[q] # cur[p]
        BY <2>3, HoldersApart DEF Having
      <3>2. pc[p] \notin Holding /\ pc[p] # "idle"
        BY <2>3 DEF Holding
      <3> QED
        BY <2>1, <3>1, <3>2, <1>2, GetRefines
    <2> QED
      BY <2>1, <2>2, <2>3
  <1>8. ASSUME NEW p \in Procs, Iderw(p) \/ Install(p)
        PROVE  Goal
    <2>1. \A q \in Procs : pc'[q] \in Holding <=> pc[q] \in Holding
      BY <1>8 DEF Iderw, Install, At, Goto, IInv, BuffersAccounted, TypeOK, Holding
    <2>2. bufs' = bufs /\ disk' = disk /\ cur' = cur
      BY <1>8 DEF Iderw, Install
    <2> QED
      BY <2>1, <2>2, <1>1, Stutter
  <1>9. ASSUME NEW p \in Procs, Unref(p) \/ Brelse(p)
        PROVE  Goal
    BY <1>1, <1>2, <1>9, UnrefRefines, PutRefines
  <1>10. ASSUME DriveDone \/ IdeIntr
         PROVE  Goal
    BY <1>1, <1>2, <1>10, SyncRefines, AnswerRefines
  <1>11. Goal
    BY <1>3, <1>4, <1>5, <1>6, <1>7, <1>8, <1>9, <1>10 DEF Next
  <1> QED
    BY <1>11 DEF Goal

\* The cache implements the store of blocks: whoever holds a block has it alone and
\* sees what was stored in it last, through eviction, pinning and the driver's queue.
THEOREM Refinement == Spec => StoreSpec
  <1>1. IInv /\ [Next]_vars => [Store!Next]_(Store!vars)
    BY StepRefines
  <1> QED
    BY <1>1, InitRefines, Invariance, PTL DEF Spec, StoreSpec, Store!Spec
=============================================================================
