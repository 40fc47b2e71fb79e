---------------------------- MODULE BufSyncProof ----------------------------
(***************************************************************************)
(* The safety of the buffer cache with write-back, for every number of     *)
(* processes, blocks and buffers.                                          *)
(***************************************************************************)
EXTENDS BufSync, TLAPS, FiniteSetTheorems

-----------------------------------------------------------------------------
(* The inductive invariant *)

Types ==
    /\ buf \in [Bufs -> Buffer]
    /\ diskLatest \in [Blocks -> BOOLEAN]
    /\ pc \in [Procs -> PCs]
    /\ want \in [Procs -> Blocks \union {NoBlock}]
    /\ target \in [Procs -> Nat]

Waiting == {"acquire", "flushlock"}
Owning == {"read", "flushwrite"}

\* What a process at each place knows of the buffer it is about.
ProcInv ==
    \A p \in Procs :
        /\ pc[p] = "bget" => want[p] # NoBlock
        /\ pc[p] = "flush" => target[p] # 0
        /\ pc[p] \in Waiting \union Owning => target[p] \in Bufs
        /\ pc[p] \in Owning => buf[target[p]].holder = p
        /\ pc[p] = "read" => ~buf[target[p]].valid
        /\ pc[p] \in {"flushlock", "flushwrite"} => buf[target[p]].valid

\* What holds of every buffer.
BufInv ==
    \A i \in Bufs :
        /\ buf[i].dirty => buf[i].valid
        /\ buf[i].valid => buf[i].block # NoBlock
        /\ buf[i].refcnt # 0 => buf[i].block # NoBlock
        /\ \A p \in Procs :
              buf[i].holder = p /\ ~buf[i].valid => pc[p] = "read" /\ target[p] = i

IInv ==
    /\ Types /\ ProcInv /\ BufInv
    /\ OneBufferPerBlock /\ CacheIsLatest /\ NothingLost /\ RefcntExact

-----------------------------------------------------------------------------
(* Counting those who wait for a buffer *)

\* There are finitely many of them.
LEMMA WaitersFinite ==
    ASSUME NEW i \in Bufs
    PROVE  /\ IsFiniteSet(Waiters(i)) /\ Cardinality(Waiters(i)) \in Nat
           /\ Cardinality(Waiters(i)) = 0 <=> Waiters(i) = {}
  <1>1. Waiters(i) \in SUBSET Procs
    BY DEF Waiters
  <1>2. IsFiniteSet(Waiters(i))
    BY <1>1, BufSyncAssumption, FS_Subset DEF BufSyncAssumption
  <1> QED
    BY <1>2, FS_CardinalityType, FS_EmptySet

\* A process that begins to wait is one more.
LEMMA CountUp ==
    ASSUME NEW p \in Procs, NEW j \in Bufs,
           pc[p] \notin Waiting, pc'[p] \in Waiting, target'[p] = j,
           \A q \in Procs \ {p} : pc'[q] = pc[q] /\ target'[q] = target[q]
    PROVE  \A i \in Bufs :
              Cardinality(Waiters(i)') = Cardinality(Waiters(i)) + (IF i = j THEN 1 ELSE 0)
  <1> SUFFICES ASSUME NEW i \in Bufs
               PROVE  Cardinality(Waiters(i)')
                        = Cardinality(Waiters(i)) + (IF i = j THEN 1 ELSE 0)
    OBVIOUS
  <1>1. IsFiniteSet(Waiters(i)) /\ Cardinality(Waiters(i)) \in Nat
    BY WaitersFinite
  <1>2. CASE i = j
    <2>1. Waiters(i)' = Waiters(i) \cup {p} /\ p \notin Waiters(i)
      BY <1>2 DEF Waiters, Waiting
    <2>2. Cardinality(Waiters(i) \cup {p}) = Cardinality(Waiters(i)) + 1
      BY <2>1, <1>1, FS_AddElement
    <2> QED
      BY <2>1, <2>2, <1>2
  <1>3. CASE i # j
    <2>1. Waiters(i)' = Waiters(i)
      BY <1>3 DEF Waiters, Waiting
    <2> QED
      BY <2>1, <1>1, <1>3
  <1> QED
    BY <1>2, <1>3

\* A process that stops waiting is one less.
LEMMA CountDown ==
    ASSUME NEW p \in Procs, NEW j \in Bufs,
           pc[p] \in Waiting, pc'[p] \notin Waiting, target[p] = j,
           \A q \in Procs \ {p} : pc'[q] = pc[q] /\ target'[q] = target[q]
    PROVE  \A i \in Bufs :
              Cardinality(Waiters(i)') = Cardinality(Waiters(i)) - (IF i = j THEN 1 ELSE 0)
  <1> SUFFICES ASSUME NEW i \in Bufs
               PROVE  Cardinality(Waiters(i)')
                        = Cardinality(Waiters(i)) - (IF i = j THEN 1 ELSE 0)
    OBVIOUS
  <1>1. IsFiniteSet(Waiters(i)) /\ Cardinality(Waiters(i)) \in Nat
    BY WaitersFinite
  <1>2. CASE i = j
    <2>1. Waiters(i)' = Waiters(i) \ {p} /\ p \in Waiters(i)
      BY <1>2 DEF Waiters, Waiting
    <2>2. Cardinality(Waiters(i) \ {p}) = Cardinality(Waiters(i)) - 1
      BY <2>1, <1>1, FS_RemoveElement
    <2> QED
      BY <2>1, <2>2, <1>2
  <1>3. CASE i # j
    <2>1. Waiters(i)' = Waiters(i)
      BY <1>3 DEF Waiters, Waiting
    <2> QED
      BY <2>1, <1>1, <1>3
  <1> QED
    BY <1>2, <1>3

\* Whoever moves between places where nobody waits changes no count.
LEMMA CountSame ==
    ASSUME NEW p \in Procs,
           pc[p] \notin Waiting, pc'[p] \notin Waiting,
           \A q \in Procs \ {p} : pc'[q] = pc[q] /\ target'[q] = target[q]
    PROVE  \A i \in Bufs : Waiters(i)' = Waiters(i)
  BY DEF Waiters, Waiting

-----------------------------------------------------------------------------
(* Steps that leave the cache and the disk alone *)

\* A step of a process that neither waits for a buffer nor is about to read or
\* write one, and that touches no buffer.
LEMMA Quiet ==
    ASSUME IInv, Types', NEW p \in Procs, UNCHANGED cache,
           pc[p] \notin Waiting \union Owning, pc'[p] \notin Waiting \union Owning,
           \A q \in Procs \ {p} :
              pc'[q] = pc[q] /\ target'[q] = target[q] /\ want'[q] = want[q],
           pc'[p] = "bget" => want'[p] # NoBlock,
           pc'[p] = "flush" => target'[p] # 0
    PROVE  IInv'
  <1>1. ProcInv'
    BY DEF IInv, ProcInv, cache, Waiting, Owning
  <1>2. BufInv'
    BY DEF IInv, BufInv, cache, Waiting, Owning
  <1>3. (OneBufferPerBlock /\ CacheIsLatest /\ NothingLost)'
    BY DEF IInv, OneBufferPerBlock, CacheIsLatest, NothingLost, cache
  <1>4. \A i \in Bufs : Waiters(i)' = Waiters(i)
    BY CountSame
  <1>5. RefcntExact'
    BY <1>4 DEF IInv, RefcntExact, cache
  <1> QED
    BY <1>1, <1>2, <1>3, <1>5 DEF IInv
-----------------------------------------------------------------------------
(* Steps of bget, bread, log_write and brelse *)

\* bget finds the block.
LEMMA HitStep ==
    ASSUME IInv, Types', NEW p \in Procs, BgetHit(p)
    PROVE  IInv'
  <1>1. PICK i \in Bufs : /\ buf[i].block = want[p]
                          /\ buf' = [buf EXCEPT ![i].refcnt = @ + 1]
                          /\ target' = [target EXCEPT ![p] = i]
    BY DEF BgetHit, Cached, Referenced
  <1>2. /\ pc[p] = "bget" /\ pc' = [pc EXCEPT ![p] = "acquire"]
        /\ want' = [want EXCEPT ![p] = NoBlock] /\ diskLatest' = diskLatest
    BY DEF BgetHit, Goto
  <1>3. ProcInv'
    BY <1>1, <1>2 DEF IInv, Types, Buffer, ProcInv, Waiting, Owning
  <1>4. want[p] # NoBlock
    BY <1>2 DEF IInv, ProcInv
  <1>5. BufInv'
    BY <1>1, <1>2, <1>4 DEF IInv, Types, Buffer, BufInv
  <1>6. (OneBufferPerBlock /\ CacheIsLatest)'
    BY <1>1 DEF IInv, Types, Buffer, OneBufferPerBlock, CacheIsLatest
  <1>7. NothingLost'
    BY <1>1, <1>2 DEF IInv, Types, Buffer, NothingLost
  <1>8. \A j \in Bufs :
          Cardinality(Waiters(j)') = Cardinality(Waiters(j)) + (IF j = i THEN 1 ELSE 0)
    BY <1>1, <1>2, CountUp DEF IInv, Types, Waiting
  <1>9. RefcntExact'
    BY <1>1, <1>8, WaitersFinite DEF IInv, Types, Buffer, RefcntExact
  <1> QED
    BY <1>3, <1>5, <1>6, <1>7, <1>9 DEF IInv

\* bget takes a buffer nobody references and nobody has changed.
LEMMA RecycleStep ==
    ASSUME IInv, Types', NEW p \in Procs, BgetRecycle(p)
    PROVE  IInv'
  <1>1. PICK i \in Bufs :
          /\ buf[i].refcnt = 0 /\ ~buf[i].dirty
          /\ buf' = [buf EXCEPT ![i].block = want[p], ![i].valid = FALSE,
                                ![i].dirty = FALSE, ![i].latest = FALSE, ![i].refcnt = 1]
          /\ target' = [target EXCEPT ![p] = i]
    BY DEF BgetRecycle, Recyclable, Recycled
  <1>2. /\ pc[p] = "bget" /\ pc' = [pc EXCEPT ![p] = "acquire"]
        /\ want' = [want EXCEPT ![p] = NoBlock] /\ diskLatest' = diskLatest
        /\ \A j \in Bufs : buf[j].block # want[p]
    BY DEF BgetRecycle, Goto, Cached
  <1>3. want[p] # NoBlock
    BY <1>2 DEF IInv, ProcInv
  <1>4. /\ Cardinality(Waiters(i)) = 0 /\ buf[i].holder = Nobody
    BY <1>1, WaitersFinite DEF IInv, RefcntExact, Types, Buffer
  <1>5. \A q \in Procs : pc[q] \in Waiting \union Owning => target[q] # i
    <2>1. Waiters(i) = {}
      BY <1>4, WaitersFinite
    <2> QED
      BY <2>1, <1>4, BufSyncAssumption
        DEF IInv, ProcInv, Waiters, Waiting, Owning, BufSyncAssumption
  <1>6. ProcInv'
    BY <1>1, <1>2, <1>5 DEF IInv, Types, Buffer, ProcInv, Waiting, Owning
  <1>7. BufInv'
    BY <1>1, <1>2, <1>3, <1>4, BufSyncAssumption
      DEF IInv, Types, Buffer, BufInv, BufSyncAssumption
  <1>8. (OneBufferPerBlock /\ CacheIsLatest)'
    BY <1>1, <1>2 DEF IInv, Types, Buffer, OneBufferPerBlock, CacheIsLatest
  <1>9. NothingLost'
    BY <1>1, <1>2 DEF IInv, Types, Buffer, NothingLost
  <1>10. \A j \in Bufs :
          Cardinality(Waiters(j)') = Cardinality(Waiters(j)) + (IF j = i THEN 1 ELSE 0)
    BY <1>1, <1>2, CountUp DEF IInv, Types, Waiting
  <1>11. RefcntExact'
    BY <1>1, <1>4, <1>10, WaitersFinite DEF IInv, Types, Buffer, RefcntExact
  <1> QED
    BY <1>6, <1>7, <1>8, <1>9, <1>11 DEF IInv

\* A process gets the sleeplock of the buffer it waited for.
LEMMA LockStep ==
    ASSUME IInv, Types', NEW p \in Procs, BgetLock(p) \/ FlushLock(p)
    PROVE  IInv'
  <1> DEFINE i == target[p]
  <1>1. /\ pc[p] \in Waiting /\ i \in Bufs /\ buf[i].holder = Nobody
        /\ buf' = [buf EXCEPT ![i].holder = p]
        /\ UNCHANGED <<diskLatest, want, target>>
    BY DEF BgetLock, FlushLock, Lock, Waiting, IInv, ProcInv
  <1>2. PICK l \in {"op", "read", "flushwrite"} :
          /\ pc' = [pc EXCEPT ![p] = l]
          /\ l = "read" <=> ~buf[i].valid
    BY DEF BgetLock, FlushLock, Lock, Goto, IInv, ProcInv
  <1>3. \A q \in Procs : pc[q] \in Owning => target[q] # i
    BY <1>1, BufSyncAssumption DEF IInv, ProcInv, BufSyncAssumption
  <1>4. ProcInv'
    BY <1>1, <1>2, <1>3 DEF IInv, Types, Buffer, ProcInv, Waiting, Owning
  <1>5. BufInv'
    BY <1>1, <1>2 DEF IInv, Types, Buffer, BufInv, Waiting
  <1>6. (OneBufferPerBlock /\ CacheIsLatest /\ NothingLost)'
    BY <1>1 DEF IInv, Types, Buffer, OneBufferPerBlock, CacheIsLatest, NothingLost
  <1>7. \A j \in Bufs :
          Cardinality(Waiters(j)') = Cardinality(Waiters(j)) - (IF j = i THEN 1 ELSE 0)
    BY <1>1, <1>2, CountDown DEF IInv, Types, Waiting
  <1>8. RefcntExact'
    BY <1>1, <1>7, WaitersFinite, BufSyncAssumption
      DEF IInv, Types, Buffer, RefcntExact, BufSyncAssumption
  <1> QED
    BY <1>4, <1>5, <1>6, <1>8 DEF IInv

\* The buffer is read from its home, which is the latest.
LEMMA ReadStep ==
    ASSUME IInv, Types', NEW p \in Procs, BreadDisk(p)
    PROVE  IInv'
  <1> DEFINE i == target[p]
  <1>1. /\ pc[p] = "read" /\ i \in Bufs /\ buf[i].holder = p /\ ~buf[i].valid
        /\ buf' = [buf EXCEPT ![i].valid = TRUE, ![i].latest = diskLatest[buf[i].block]]
        /\ pc' = [pc EXCEPT ![p] = "op"]
        /\ UNCHANGED <<diskLatest, want, target>>
    BY DEF BreadDisk, Goto, Owning, IInv, ProcInv
  <1>2. buf[i].block # NoBlock
    BY <1>1, WaitersFinite, BufSyncAssumption
      DEF IInv, Types, Buffer, RefcntExact, BufInv, BufSyncAssumption
  <1>3. diskLatest[buf[i].block] = TRUE
    BY <1>1, <1>2 DEF IInv, Types, Buffer, NothingLost, OneBufferPerBlock
  <1>4. \A q \in Procs \ {p} : pc[q] \in Owning => target[q] # i
    BY <1>1 DEF IInv, ProcInv
  <1>5. ProcInv'
    BY <1>1, <1>4 DEF IInv, Types, Buffer, ProcInv, Waiting, Owning
  <1>6. BufInv'
    BY <1>1, <1>2 DEF IInv, Types, Buffer, BufInv
  <1>7. (OneBufferPerBlock /\ CacheIsLatest)'
    BY <1>1, <1>3 DEF IInv, Types, Buffer, OneBufferPerBlock, CacheIsLatest
  <1>8. NothingLost'
    BY <1>1 DEF IInv, Types, Buffer, NothingLost
  <1>9. \A j \in Bufs : Waiters(j)' = Waiters(j)
    BY <1>1, CountSame DEF IInv, Types, Waiting
  <1>10. RefcntExact'
    BY <1>1, <1>9 DEF IInv, Types, Buffer, RefcntExact
  <1> QED
    BY <1>5, <1>6, <1>7, <1>8, <1>10 DEF IInv

\* A block is changed in a buffer that is locked, valid, and dirty from now on.
LEMMA WriteStep ==
    ASSUME IInv, Types', NEW p \in Procs, NEW i \in Bufs, LogWrite(p, i)
    PROVE  IInv'
  <1>1. /\ pc[p] = "op" /\ buf[i].holder = p
        /\ buf' = [buf EXCEPT ![i].dirty = TRUE]
        /\ diskLatest' = [diskLatest EXCEPT ![buf[i].block] = FALSE]
        /\ UNCHANGED <<pc, want, target>>
    BY DEF LogWrite, Held
  <1>2. buf[i].valid
    BY <1>1 DEF IInv, BufInv
  <1>3. ProcInv'
    BY <1>1 DEF IInv, Types, Buffer, ProcInv, Waiting, Owning
  <1>4. BufInv'
    BY <1>1, <1>2 DEF IInv, Types, Buffer, BufInv
  <1>5. (OneBufferPerBlock /\ CacheIsLatest)'
    BY <1>1 DEF IInv, Types, Buffer, OneBufferPerBlock, CacheIsLatest
  <1>6. NothingLost'
    BY <1>1, <1>2 DEF IInv, Types, Buffer, NothingLost
  <1>7. RefcntExact'
    BY <1>1 DEF IInv, Types, Buffer, RefcntExact, Waiters
  <1> QED
    BY <1>3, <1>4, <1>5, <1>6, <1>7 DEF IInv

\* A buffer is given back.
LEMMA ReleaseStep ==
    ASSUME IInv, Types', NEW p \in Procs, NEW i \in Bufs, Brelse(p, i)
    PROVE  IInv'
  <1>1. /\ pc[p] = "op" /\ buf[i].holder = p
        /\ buf' = [buf EXCEPT ![i].holder = Nobody, ![i].refcnt = @ - 1]
        /\ UNCHANGED <<diskLatest, pc, want, target>>
    BY DEF Brelse, Held, Released
  <1>2. buf[i].block # NoBlock
    BY <1>1, WaitersFinite, BufSyncAssumption
      DEF IInv, Types, Buffer, RefcntExact, BufInv, BufSyncAssumption
  <1>3. \A q \in Procs : pc[q] \in Owning => target[q] # i
    BY <1>1 DEF IInv, ProcInv, Owning
  <1>4. ProcInv'
    BY <1>1, <1>3 DEF IInv, Types, Buffer, ProcInv, Waiting, Owning
  <1>5. BufInv'
    BY <1>1, <1>2, BufSyncAssumption DEF IInv, Types, Buffer, BufInv, BufSyncAssumption
  <1>6. (OneBufferPerBlock /\ CacheIsLatest /\ NothingLost)'
    BY <1>1 DEF IInv, Types, Buffer, OneBufferPerBlock, CacheIsLatest, NothingLost
  <1>7. RefcntExact'
    <2>1. \A j \in Bufs : Waiters(j)' = Waiters(j)
      BY <1>1 DEF Waiters
    <2> QED
      BY <1>1, <2>1, WaitersFinite, BufSyncAssumption
        DEF IInv, Types, Buffer, RefcntExact, BufSyncAssumption
  <1> QED
    BY <1>4, <1>5, <1>6, <1>7 DEF IInv

-----------------------------------------------------------------------------
(* Steps of flush_to_disk *)

\* flush_to_disk reads the block of a dirty buffer.
LEMMA FlushHitStep ==
    ASSUME IInv, Types', NEW p \in Procs, FlushBget(p)
    PROVE  IInv'
  <1> DEFINE i == target[p]
  <1>1. /\ pc[p] = "flush" /\ buf[i].dirty
        /\ buf' = [buf EXCEPT ![i].refcnt = @ + 1]
        /\ pc' = [pc EXCEPT ![p] = "flushlock"]
        /\ UNCHANGED <<diskLatest, want, target>>
    BY DEF FlushBget, Referenced, Goto
  <1>2. i \in Bufs
    BY <1>1, BufSyncAssumption
      DEF FlushBget, LastBuf, IInv, ProcInv, Types, Bufs, BufSyncAssumption
  <1>3. buf[i].valid /\ buf[i].block # NoBlock
    BY <1>1, <1>2 DEF IInv, BufInv
  <1>4. ProcInv'
    BY <1>1, <1>2, <1>3 DEF IInv, Types, Buffer, ProcInv, Waiting, Owning
  <1>5. BufInv'
    BY <1>1, <1>2, <1>3 DEF IInv, Types, Buffer, BufInv
  <1>6. (OneBufferPerBlock /\ CacheIsLatest /\ NothingLost)'
    BY <1>1 DEF IInv, Types, Buffer, OneBufferPerBlock, CacheIsLatest, NothingLost
  <1>7. \A j \in Bufs :
          Cardinality(Waiters(j)') = Cardinality(Waiters(j)) + (IF j = i THEN 1 ELSE 0)
    BY <1>1, <1>2, CountUp DEF IInv, Types, Waiting
  <1>8. RefcntExact'
    BY <1>1, <1>2, <1>7, WaitersFinite DEF IInv, Types, Buffer, RefcntExact
  <1> QED
    BY <1>4, <1>5, <1>6, <1>8 DEF IInv

\* flush_to_disk writes the block to its home and gives the buffer back.
LEMMA FlushWriteStep ==
    ASSUME IInv, Types', NEW p \in Procs, FlushWrite(p)
    PROVE  IInv'
  <1> DEFINE i == target[p]
  <1>1. /\ pc[p] = "flushwrite" /\ i \in Bufs /\ buf[i].holder = p /\ buf[i].valid
        /\ diskLatest' = [diskLatest EXCEPT ![buf[i].block] = buf[i].latest]
        /\ target' = [target EXCEPT ![p] = @ + 1]
        /\ pc' = [pc EXCEPT ![p] = "flush"]
        /\ want' = want
    BY DEF FlushWrite, Goto, Owning, IInv, ProcInv
  <1>2. /\ buf' \in [Bufs -> Buffer]
        /\ \A j \in Bufs \ {i} : buf'[j] = buf[j]
        /\ buf'[i].block = buf[i].block /\ buf'[i].valid = buf[i].valid
        /\ buf'[i].latest = buf[i].latest /\ ~buf'[i].dirty
        /\ buf'[i].holder = Nobody /\ buf'[i].refcnt = buf[i].refcnt - 1
    BY <1>1 DEF FlushWrite, Released, IInv, Types, Buffer
  <1>3. buf[i].block # NoBlock /\ buf[i].latest
    BY <1>1 DEF IInv, BufInv, CacheIsLatest
  <1>4. \A q \in Procs \ {p} : pc[q] \in Owning => target[q] # i
    BY <1>1 DEF IInv, ProcInv
  <1>5. ProcInv'
    <2>1. /\ pc'[p] = "flush" /\ target'[p] = i + 1 /\ i + 1 # 0
          /\ \A q \in Procs \ {p} : pc'[q] = pc[q] /\ target'[q] = target[q]
      BY <1>1 DEF IInv, Types, Bufs
    <2>2. \A j \in Bufs : buf'[j].valid = buf[j].valid
      BY <1>2
    <2>3. \A j \in Bufs \ {i} : buf'[j].holder = buf[j].holder
      BY <1>2
    <2> QED
      BY <1>1, <1>4, <2>1, <2>2, <2>3 DEF IInv, ProcInv, Waiting, Owning
  <1>6. BufInv'
    BY <1>1, <1>2, <1>3, BufSyncAssumption DEF IInv, Types, BufInv, BufSyncAssumption
  <1>7. (OneBufferPerBlock /\ CacheIsLatest)'
    BY <1>2 DEF IInv, OneBufferPerBlock, CacheIsLatest
  <1>8. NothingLost'
    BY <1>1, <1>2, <1>3 DEF IInv, Types, Buffer, NothingLost
  <1>9. \A j \in Bufs : Waiters(j)' = Waiters(j)
    BY <1>1, CountSame DEF IInv, Types, Waiting
  <1>10. RefcntExact'
    BY <1>1, <1>2, <1>9, WaitersFinite, BufSyncAssumption
      DEF IInv, Types, Buffer, RefcntExact, BufSyncAssumption
  <1> QED
    BY <1>5, <1>6, <1>7, <1>8, <1>10 DEF IInv

-----------------------------------------------------------------------------
(* Types, and the theorem *)

\* Counting a reference, dirtying, releasing and reading a buffer keep its type.
LEMMA BufferTypes ==
    ASSUME buf \in [Bufs -> Buffer], NEW i
    PROVE  /\ [buf EXCEPT ![i].refcnt = @ + 1] \in [Bufs -> Buffer]
           /\ [buf EXCEPT ![i].dirty = TRUE] \in [Bufs -> Buffer]
           /\ [buf EXCEPT ![i].holder = Nobody, ![i].refcnt = @ - 1] \in [Bufs -> Buffer]
           /\ \A l \in BOOLEAN :
                 [buf EXCEPT ![i].valid = TRUE, ![i].latest = l] \in [Bufs -> Buffer]
  <1>1. CASE i \in Bufs
    <2>1. buf[i] \in Buffer
      BY <1>1
    <2> DEFINE b == buf[i]
    <2>2. /\ b.refcnt \in Int /\ b.refcnt + 1 \in Int /\ b.refcnt - 1 \in Int
      BY <2>1 DEF Buffer
    <2>3. [b EXCEPT !.refcnt = b.refcnt + 1] \in Buffer
      <3> DEFINE r == b.refcnt + 1
      <3>1. r \in Int
        BY <2>2
      <3> HIDE DEF r, b
      <3>2. [b EXCEPT !.refcnt = r] \in Buffer
        BY <2>1, <3>1 DEF Buffer, b
      <3> QED
        BY <3>2 DEF r, b
    <2>4. [b EXCEPT !.dirty = TRUE] \in Buffer
      BY <2>1 DEF Buffer
    <2>5. [b EXCEPT !.holder = Nobody, !.refcnt = b.refcnt - 1] \in Buffer
      <3> DEFINE r == b.refcnt - 1
      <3>1. r \in Int
        BY <2>2
      <3> HIDE DEF r, b
      <3>2. [b EXCEPT !.holder = Nobody, !.refcnt = r] \in Buffer
        BY <2>1, <3>1 DEF Buffer, b
      <3> QED
        BY <3>2 DEF r, b
    <2>6. \A l \in BOOLEAN : [b EXCEPT !.valid = TRUE, !.latest = l] \in Buffer
      BY <2>1 DEF Buffer
    <2> QED
      BY <1>1, <2>3, <2>4, <2>5, <2>6
  <1>2. CASE i \notin Bufs
    BY <1>2
  <1> QED
    BY <1>1, <1>2

\* Every step keeps the types that the proof needs.
LEMMA TypesStep ==
    ASSUME IInv, [Next]_vars
    PROVE  Types'
  <1>1. CASE UNCHANGED vars
    BY <1>1 DEF vars, cache, IInv, Types
  <1>2. CASE Next
    <2>1. PICK p \in Procs :
        \/ BeginOp(p) \/ BeginOpSpin(p) \/ BeginOpEnd(p) \/ EndOp(p)
        \/ \E b \in Blocks : Bread(p, b)
        \/ BgetHit(p) \/ BgetRecycle(p) \/ BgetSync(p) \/ BgetLock(p) \/ BreadDisk(p)
        \/ \E i \in Bufs : LogWrite(p, i) \/ Brelse(p, i)
        \/ SyncCall(p) \/ SyncPanics(p) \/ SyncStart(p) \/ Commit(p)
        \/ FlushClean(p) \/ FlushBget(p) \/ FlushLock(p) \/ FlushWrite(p) \/ FlushEnd(p)
        \/ SyncEnd(p)
      BY <1>2 DEF Next
    <2> USE DEF IInv, Types, PCs, Goto, cache
    <2>2. CASE BeginOp(p) \/ BeginOpSpin(p) \/ BeginOpEnd(p) \/ EndOp(p)
      BY <2>2 DEF BeginOp, BeginOpSpin, BeginOpEnd, EndOp
    <2>3. CASE \E b \in Blocks : Bread(p, b)
      BY <2>3 DEF Bread
    <2>4. CASE BgetHit(p)
      <3>1. PICK i \in Bufs : /\ buf' = [buf EXCEPT ![i].refcnt = @ + 1]
                              /\ target' = [target EXCEPT ![p] = i]
        BY <2>4 DEF BgetHit, Cached, Referenced
      <3>2. buf' \in [Bufs -> Buffer]
        BY <3>1 DEF Buffer
      <3>3. target' \in [Procs -> Nat]
        BY <3>1 DEF Bufs
      <3> QED
        BY <2>4, <3>2, <3>3 DEF BgetHit
    <2>5. CASE BgetRecycle(p)
      <3>1. want[p] \in Blocks
        BY <2>5 DEF BgetRecycle, ProcInv
      <3> QED
        BY <2>5, <3>1 DEF BgetRecycle, Recyclable, Recycled, Buffer, Bufs
    <2>6. CASE BgetSync(p)
      BY <2>6 DEF BgetSync
    <2>7. CASE BgetLock(p)
      <3>1. buf' = [buf EXCEPT ![target[p]].holder = p]
        BY <2>7 DEF BgetLock, Lock
      <3>2. buf' \in [Bufs -> Buffer]
        BY <3>1, ZenonT(60) DEF Buffer
      <3> QED
        BY <2>7, <3>2 DEF BgetLock, Lock
    <2>8. CASE BreadDisk(p)
      <3>1. target[p] \in Bufs /\ buf[target[p]].block \in Blocks
        BY <2>8, WaitersFinite, BufSyncAssumption
          DEF BreadDisk, ProcInv, BufInv, Owning, RefcntExact, Buffer, BufSyncAssumption
      <3>2. buf' \in [Bufs -> Buffer]
        <4>1. diskLatest[buf[target[p]].block] \in BOOLEAN
          BY <3>1
        <4>2. PICK l \in BOOLEAN :
                buf' = [buf EXCEPT ![target[p]].valid = TRUE, ![target[p]].latest = l]
          BY <2>8, <4>1 DEF BreadDisk
        <4> QED
          BY <4>2, BufferTypes
      <3> QED
        BY <2>8, <3>2 DEF BreadDisk
    <2>9. CASE \E i \in Bufs : LogWrite(p, i) \/ Brelse(p, i)
      <3>1. buf' \in [Bufs -> Buffer]
        <4>1. PICK i \in Bufs :
                \/ buf' = [buf EXCEPT ![i].dirty = TRUE]
                \/ buf' = [buf EXCEPT ![i].holder = Nobody, ![i].refcnt = @ - 1]
          BY <2>9 DEF LogWrite, Brelse, Released
        <4>2. /\ [buf EXCEPT ![i].dirty = TRUE] \in [Bufs -> Buffer]
              /\ [buf EXCEPT ![i].holder = Nobody, ![i].refcnt = @ - 1] \in [Bufs -> Buffer]
          BY BufferTypes
        <4> QED
          BY <4>1, <4>2
      <3>2. diskLatest' \in [Blocks -> BOOLEAN]
        BY <2>9 DEF LogWrite, Brelse
      <3>3. UNCHANGED <<pc, want, target>>
        BY <2>9 DEF LogWrite, Brelse
      <3> QED
        BY <3>1, <3>2, <3>3
    <2>10. CASE SyncCall(p) \/ SyncPanics(p) \/ SyncStart(p)
      BY <2>10 DEF SyncCall, SyncPanics, SyncStart
    <2>11. CASE Commit(p)
      BY <2>11 DEF Commit
    <2>12. CASE FlushClean(p)
      BY <2>12 DEF FlushClean
    <2>13. CASE FlushBget(p)
      <3>1. buf' = [buf EXCEPT ![target[p]].refcnt = @ + 1]
        BY <2>13 DEF FlushBget, Referenced
      <3>2. buf' \in [Bufs -> Buffer]
        BY <3>1, BufferTypes
      <3> QED
        BY <2>13, <3>2 DEF FlushBget
    <2>14. CASE FlushLock(p)
      <3>1. buf' = [buf EXCEPT ![target[p]].holder = p]
        BY <2>14 DEF FlushLock, Lock
      <3>2. buf' \in [Bufs -> Buffer]
        BY <3>1, ZenonT(60) DEF Buffer
      <3> QED
        BY <2>14, <3>2 DEF FlushLock, Lock
    <2>15. CASE FlushWrite(p)
      <3>1. target[p] \in Bufs /\ buf[target[p]] \in Buffer
        BY <2>15 DEF FlushWrite, ProcInv, Owning
      <3>2. diskLatest' \in [Blocks -> BOOLEAN]
        BY <2>15, <3>1 DEF FlushWrite, Buffer
      <3>3. buf' \in [Bufs -> Buffer]
        BY <2>15, <3>1 DEF FlushWrite, Released, Buffer
      <3> QED
        <4>1. pc' \in [Procs -> PCs] /\ want' = want
          BY <2>15 DEF FlushWrite
        <4>2. target' \in [Procs -> Nat]
          BY <2>15 DEF FlushWrite
        <4> QED
          BY <3>2, <3>3, <4>1, <4>2
    <2>16. CASE FlushEnd(p) \/ SyncEnd(p)
      BY <2>16 DEF FlushEnd, SyncEnd
    <2> QED
      BY <2>1, <2>2, <2>3, <2>4, <2>5, <2>6, <2>7, <2>8, <2>9, <2>10, <2>11, <2>12,
         <2>13, <2>14, <2>15, <2>16
  <1> QED
    BY <1>1, <1>2

\* The cache starts with no block, the disk with the latest of all.
LEMMA Start == Init => IInv
  <1> SUFFICES ASSUME Init PROVE IInv
    OBVIOUS
  <1>1. Types
    BY DEF Init, Types, Buffer, PCs
  <1>2. ProcInv /\ BufInv
    BY BufSyncAssumption DEF Init, ProcInv, BufInv, Waiting, Owning, BufSyncAssumption
  <1>3. OneBufferPerBlock /\ CacheIsLatest /\ NothingLost
    BY DEF Init, OneBufferPerBlock, CacheIsLatest, NothingLost
  <1>4. \A i \in Bufs : Waiters(i) = {}
    BY DEF Init, Waiters
  <1>5. RefcntExact
    BY <1>4, WaitersFinite DEF Init, RefcntExact
  <1> QED
    BY <1>1, <1>2, <1>3, <1>5 DEF IInv

\* A step that leaves the cache alone, one lemma for all of them.
LEMMA QuietStep ==
    ASSUME IInv, Types', NEW p \in Procs,
           \/ BeginOp(p) \/ BeginOpSpin(p) \/ BeginOpEnd(p) \/ EndOp(p)
           \/ \E b \in Blocks : Bread(p, b)
           \/ BgetSync(p)
           \/ SyncCall(p) \/ SyncPanics(p) \/ SyncStart(p) \/ Commit(p)
           \/ FlushClean(p) \/ FlushEnd(p) \/ SyncEnd(p)
    PROVE  IInv'
  <1> USE DEF Goto, Waiting, Owning, IInv, Types
  <1>1. UNCHANGED cache
    BY DEF BeginOp, BeginOpSpin, BeginOpEnd, EndOp, Bread, BgetSync, SyncCall, SyncPanics,
           SyncStart, Commit, FlushClean, FlushEnd, SyncEnd
  <1>2. /\ pc[p] \notin Waiting \union Owning
        /\ pc'[p] \notin Waiting \union Owning
    BY DEF BeginOp, BeginOpSpin, BeginOpEnd, EndOp, Bread, BgetSync, SyncCall, SyncPanics,
           SyncStart, Commit, FlushClean, FlushEnd, SyncEnd
  <1>3. \A q \in Procs \ {p} :
          pc'[q] = pc[q] /\ target'[q] = target[q] /\ want'[q] = want[q]
    BY DEF BeginOp, BeginOpSpin, BeginOpEnd, EndOp, Bread, BgetSync, SyncCall, SyncPanics,
           SyncStart, Commit, FlushClean, FlushEnd, SyncEnd
  <1>4. pc'[p] = "bget" => want'[p] # NoBlock
    BY BufSyncAssumption
      DEF BeginOp, BeginOpSpin, BeginOpEnd, EndOp, Bread, BgetSync, SyncCall, SyncPanics,
          SyncStart, Commit, FlushClean, FlushEnd, SyncEnd, BufSyncAssumption
  <1>5. pc'[p] = "flush" => target'[p] # 0
    BY DEF BeginOp, BeginOpSpin, BeginOpEnd, EndOp, Bread, BgetSync, SyncCall, SyncPanics,
           SyncStart, Commit, FlushClean, FlushEnd, SyncEnd, ProcInv
  <1> QED
    BY <1>1, <1>2, <1>3, <1>4, <1>5, Quiet

\* Every step keeps the invariant.
LEMMA Step == IInv /\ [Next]_vars => IInv'
  <1> SUFFICES ASSUME IInv, [Next]_vars PROVE IInv'
    OBVIOUS
  <1>1. Types'
    BY TypesStep
  <1>2. CASE UNCHANGED vars
    BY <1>2 DEF vars, cache, IInv, Types, ProcInv, BufInv, OneBufferPerBlock,
                CacheIsLatest, NothingLost, RefcntExact, Waiters
  <1>3. CASE Next
    BY <1>1, <1>3, QuietStep, HitStep, RecycleStep, LockStep, ReadStep, WriteStep,
       ReleaseStep, FlushHitStep, FlushWriteStep DEF Next
  <1> QED
    BY <1>2, <1>3

\* The invariant of the cache: its types, what a process knows of the buffer it is
\* about, and the four properties below, which hold only together.
THEOREM Invariance == Spec => []IInv
  BY Start, Step, PTL DEF Spec

\* bget (bio.c) never gives a block two buffers.
THEOREM BuffersUnique == Spec => []OneBufferPerBlock
  <1>1. IInv => OneBufferPerBlock
    BY DEF IInv
  <1> QED
    BY <1>1, Invariance, PTL

\* Every valid buffer holds what was last written to its block.
THEOREM ReadsLatest == Spec => []CacheIsLatest
  <1>1. IInv => CacheIsLatest
    BY DEF IInv
  <1> QED
    BY <1>1, Invariance, PTL

\* Between log_write and the flush of a sync the cache keeps every write.
THEOREM WritesKept == Spec => []NothingLost
  <1>1. IInv => NothingLost
    BY DEF IInv
  <1> QED
    BY <1>1, Invariance, PTL

\* refcnt counts exactly the holder of a buffer and those who wait for it.
THEOREM ReferencesExact == Spec => []RefcntExact
  <1>1. IInv => RefcntExact
    BY DEF IInv
  <1> QED
    BY <1>1, Invariance, PTL

-----------------------------------------------------------------------------
(* What a sync writes *)

Flushing == {"flush", "flushlock", "flushwrite"}
Syncing == Flushing \union {"commit", "finish"}

\* A block that has to be written is in a dirty buffer that the loop of flush_to_disk
\* has yet to reach.
Ahead(p, from) ==
    \A b \in due[p] : \E i \in Bufs : i >= from /\ buf[i].dirty /\ buf[i].block = b

\* There is one sync at a time, and nothing it has to write escapes its loop.
SyncInv ==
    /\ due \in [Procs -> SUBSET (Blocks \union {NoBlock})]
    /\ flushed \in [Procs -> Nat]
    /\ \A p \in Procs : pc[p] \in Syncing => committing
    /\ \A p, q \in Procs : pc[p] \in Syncing /\ pc[q] \in Syncing => p = q
    /\ \A p \in Procs : /\ pc[p] = "commit" => Ahead(p, 1) /\ flushed[p] = 0
                        /\ pc[p] \in Flushing => Ahead(p, target[p])
                        /\ pc[p] = "finish" => due[p] = {} \/ flushed[p] = 0

KeepsDirty == \A i \in Bufs : buf[i].dirty => buf'[i].dirty /\ buf'[i].block = buf[i].block

\* Only flush_to_disk makes a dirty buffer clean: the others lock, count, fill or
\* dirty it, or take one that is clean.
LEMMA DirtyKept ==
    ASSUME IInv, NEW p \in Procs,
           \/ UNCHANGED buf
           \/ \E i \in Bufs : /\ buf' = Referenced(i) \/ buf' = Released(buf, i)
                                 \/ (\E l : Lock(p, i, l))
                                 \/ buf' = [buf EXCEPT ![i].dirty = TRUE]
                                 \/ (\E x, y : buf' = [buf EXCEPT ![i].valid = x, ![i].latest = y])
                                 \/ (i \in Recyclable /\ \E b : buf' = Recycled(i, b))
    PROVE  KeepsDirty
  <1>1. buf \in [Bufs -> Buffer]
    BY DEF IInv, Types
  <1>2. CASE UNCHANGED buf
    BY <1>2 DEF KeepsDirty
  <1>3. ASSUME NEW i \in Bufs, buf' = Referenced(i) \/ buf' = Released(buf, i)
        PROVE  KeepsDirty
    BY <1>1, <1>3 DEF KeepsDirty, Referenced, Released, Buffer
  <1>4. ASSUME NEW i \in Bufs, NEW l, Lock(p, i, l)
        PROVE  KeepsDirty
    BY <1>1, <1>4 DEF KeepsDirty, Lock, Buffer
  <1>5. ASSUME NEW i \in Bufs, buf' = [buf EXCEPT ![i].dirty = TRUE]
        PROVE  KeepsDirty
    BY <1>1, <1>5 DEF KeepsDirty, Buffer
  <1>6. ASSUME NEW i \in Bufs, NEW x, NEW y,
               buf' = [buf EXCEPT ![i].valid = x, ![i].latest = y]
        PROVE  KeepsDirty
    BY <1>1, <1>6 DEF KeepsDirty, Buffer
  <1>7. ASSUME NEW i \in Recyclable, NEW b, buf' = Recycled(i, b)
        PROVE  KeepsDirty
    BY <1>1, <1>7 DEF KeepsDirty, Recycled, Recyclable, Buffer
  <1> QED
    BY <1>2, <1>3, <1>4, <1>5, <1>6, <1>7

\* A step of p that is no part of a sync leaves the sync under way as it was.
LEMMA OutsideKeeps ==
    ASSUME SyncInv, KeepsDirty, NEW p \in Procs, NEW l,
           pc \in [Procs -> PCs], pc' = [pc EXCEPT ![p] = l],
           pc[p] \notin Syncing, l \notin Syncing,
           \A q \in Procs \ {p} : target'[q] = target[q],
           UNCHANGED <<due, flushed, committing>>
    PROVE  SyncInv'
  <1>1. \A q \in Procs : pc'[q] \in Syncing => q # p /\ pc'[q] = pc[q]
    OBVIOUS
  <1>2. \A q \in Procs : \A k : Ahead(q, k) => Ahead(q, k)'
    BY DEF KeepsDirty, Ahead
  <1>3. ASSUME NEW q \in Procs
        PROVE  /\ pc'[q] = "commit" => Ahead(q, 1)' /\ flushed'[q] = 0
               /\ pc'[q] \in Flushing => Ahead(q, target[q])'
               /\ pc'[q] = "finish" => due'[q] = {} \/ flushed'[q] = 0
    <2>1. CASE pc'[q] \in Syncing
      <3>1. q # p /\ pc'[q] = pc[q] /\ target'[q] = target[q]
        BY <2>1, <1>1
      <3>2. Ahead(q, 1) => Ahead(q, 1)'
        BY <1>2
      <3>3. Ahead(q, target[q]) => Ahead(q, target[q])'
        BY <3>1 DEF KeepsDirty, Ahead
      <3> QED
        BY <3>1, <3>2, <3>3 DEF SyncInv
    <2> QED
      BY <2>1 DEF Syncing, Flushing
  <1> QED
    BY <1>1, <1>3 DEF SyncInv

\* The steps of a process that is not in a sync.
LEMMA OutsideStep ==
    ASSUME IInv, SyncInv, NEW p \in Procs,
           \/ BeginOp(p) \/ BeginOpSpin(p) \/ BeginOpEnd(p) \/ EndOp(p)
           \/ \E b \in Blocks : Bread(p, b)
           \/ BgetHit(p) \/ BgetRecycle(p) \/ BgetSync(p) \/ BgetLock(p) \/ BreadDisk(p)
           \/ \E i \in Bufs : LogWrite(p, i) \/ Brelse(p, i)
           \/ SyncCall(p) \/ SyncPanics(p)
    PROVE  SyncInv'
  <1>1. pc \in [Procs -> PCs] /\ target \in [Procs -> Nat]
    BY DEF IInv, Types
  <1>2. KeepsDirty
    <2>1. pc[p] \in {"acquire", "read"} => target[p] \in Bufs
      BY DEF IInv, ProcInv, Waiting, Owning
    <2>2. CASE BgetHit(p) \/ BgetRecycle(p)
      BY <2>2, DirtyKept DEF BgetHit, BgetRecycle, Cached, Recyclable
    <2>3. CASE BgetLock(p) \/ BreadDisk(p)
      BY <2>1, <2>3, DirtyKept DEF BgetLock, BreadDisk
    <2>4. CASE \E i \in Bufs : LogWrite(p, i) \/ Brelse(p, i)
      BY <2>4, DirtyKept DEF LogWrite, Brelse
    <2>5. CASE \/ BeginOp(p) \/ BeginOpSpin(p) \/ BeginOpEnd(p) \/ EndOp(p)
               \/ (\E b \in Blocks : Bread(p, b)) \/ BgetSync(p) \/ SyncCall(p) \/ SyncPanics(p)
      BY <2>5 DEF BeginOp, BeginOpSpin, BeginOpEnd, EndOp, Bread, BgetSync, SyncCall,
                  SyncPanics, cache, KeepsDirty
    <2> QED
      BY <2>2, <2>3, <2>4, <2>5
  <1>3. /\ pc[p] \notin Syncing
        /\ \E l : l \notin Syncing /\ pc' = [pc EXCEPT ![p] = l]
        /\ \A q \in Procs \ {p} : target'[q] = target[q]
        /\ UNCHANGED <<due, flushed, committing>>
    <2>1. CASE BeginOp(p) \/ BeginOpSpin(p) \/ BeginOpEnd(p) \/ EndOp(p)
      BY <2>1 DEF BeginOp, BeginOpSpin, BeginOpEnd, EndOp, Goto, sync, Syncing, Flushing
    <2>2. CASE (\E b \in Blocks : Bread(p, b)) \/ BgetSync(p) \/ SyncCall(p) \/ SyncPanics(p)
      BY <2>2 DEF Bread, BgetSync, SyncCall, SyncPanics, Goto, sync, log, Syncing, Flushing
    <2>3. CASE BgetHit(p) \/ BgetRecycle(p)
      BY <2>3, <1>1 DEF BgetHit, BgetRecycle, Goto, sync, log, Syncing, Flushing
    <2>4. CASE BgetLock(p)
      <3>1. CASE buf[target[p]].valid
        BY <2>4, <3>1 DEF BgetLock, Lock, Goto, sync, log, Syncing, Flushing
      <3>2. CASE ~buf[target[p]].valid
        BY <2>4, <3>2 DEF BgetLock, Lock, Goto, sync, log, Syncing, Flushing
      <3> QED
        BY <3>1, <3>2
    <2>5. CASE BreadDisk(p)
      BY <2>5 DEF BreadDisk, Goto, sync, log, Syncing, Flushing
    <2>6. CASE \E i \in Bufs : LogWrite(p, i) \/ Brelse(p, i)
      <3>1. pc[p] = "op" /\ pc' = pc /\ UNCHANGED <<target, due, flushed, committing>>
        BY <2>6 DEF LogWrite, Brelse, sync, log
      <3>2. pc' = [pc EXCEPT ![p] = "op"]
        BY <3>1, <1>1
      <3> QED
        BY <3>1, <3>2 DEF Syncing, Flushing
    <2> QED
      BY <2>1, <2>2, <2>3, <2>4, <2>5, <2>6
  <1> QED
    BY <1>1, <1>2, <1>3, OutsideKeeps

\* A step of the sync: the others are in none, and stay where they are.
LEMMA InsideKeeps ==
    ASSUME SyncInv, NEW p \in Procs, pc[p] \in Syncing \/ ~committing, NEW l,
           pc \in [Procs -> PCs], pc' = [pc EXCEPT ![p] = l],
           l \in Syncing => committing',
           due' \in [Procs -> SUBSET (Blocks \union {NoBlock})], flushed' \in [Procs -> Nat],
           /\ l = "commit" => Ahead(p, 1)' /\ flushed'[p] = 0
           /\ l \in Flushing => Ahead(p, target[p])'
           /\ l = "finish" => due'[p] = {} \/ flushed'[p] = 0
    PROVE  SyncInv'
  <1>1. \A q \in Procs \ {p} : pc'[q] \notin Syncing
    BY DEF SyncInv
  <1>2. pc'[p] = l
    OBVIOUS
  <1>3. ASSUME NEW q \in Procs
        PROVE  /\ pc'[q] \in Syncing => q = p /\ committing'
               /\ pc'[q] = "commit" => Ahead(q, 1)' /\ flushed'[q] = 0
               /\ pc'[q] \in Flushing => Ahead(q, target[q])'
               /\ pc'[q] = "finish" => due'[q] = {} \/ flushed'[q] = 0
    <2>1. CASE q = p
      BY <2>1, <1>2
    <2>2. CASE q # p
      BY <2>2, <1>1 DEF Syncing, Flushing
    <2> QED
      BY <2>1, <2>2
  <1> QED
    BY <1>3 DEF SyncInv

\* The loop of flush_to_disk visits every buffer, and none that has to be written is
\* cleaned or given to another block before its turn.
LEMMA InsideStep ==
    ASSUME IInv, SyncInv, NEW p \in Procs,
           \/ SyncStart(p) \/ Commit(p) \/ FlushClean(p) \/ FlushBget(p) \/ FlushLock(p)
           \/ FlushWrite(p) \/ FlushEnd(p) \/ SyncEnd(p)
    PROVE  SyncInv'
  <1>1. /\ pc \in [Procs -> PCs] /\ target \in [Procs -> Nat] /\ buf \in [Bufs -> Buffer]
        /\ due \in [Procs -> SUBSET (Blocks \union {NoBlock})] /\ flushed \in [Procs -> Nat]
        /\ NBUF \in Nat
    BY BufSyncAssumption DEF IInv, Types, SyncInv, BufSyncAssumption
  <1>2. CASE SyncStart(p)
    <2>1. /\ pc' = [pc EXCEPT ![p] = "commit"] /\ committing' = TRUE /\ ~committing /\ buf' = buf
          /\ due' = [due EXCEPT ![p] = DirtyBlocks] /\ flushed' = [flushed EXCEPT ![p] = 0]
      BY <1>2 DEF SyncStart, Goto, cache
    <2>2. DirtyBlocks \subseteq Blocks \union {NoBlock}
      BY <1>1 DEF DirtyBlocks, Buffer
    <2>3. Ahead(p, 1)'
      <3>1. \A b \in DirtyBlocks : \E i \in Bufs : i >= 1 /\ buf[i].dirty /\ buf[i].block = b
        BY <1>1 DEF DirtyBlocks, Bufs
      <3> QED
        BY <3>1, <2>1, <1>1 DEF Ahead
    <2> QED
      BY <1>1, <2>1, <2>2, <2>3, InsideKeeps DEF Syncing, Flushing
  <1>3. CASE Commit(p)
    <2>1. /\ pc[p] = "commit" /\ buf' = buf /\ UNCHANGED <<due, flushed, committing>>
          /\ committing /\ flushed[p] = 0 /\ Ahead(p, 1)
      BY <1>3 DEF Commit, cache, log, sync, SyncInv, Syncing
    <2>2. CASE n > 0
      <3>1. pc' = [pc EXCEPT ![p] = "flush"] /\ target'[p] = 1
        BY <1>1, <1>3, <2>2 DEF Commit, Goto
      <3>2. Ahead(p, target[p])'
        BY <2>1, <3>1 DEF Ahead
      <3> QED
        BY <1>1, <2>1, <3>1, <3>2, InsideKeeps DEF Syncing, Flushing
    <2>3. CASE ~(n > 0)
      <3>1. pc' = [pc EXCEPT ![p] = "finish"]
        BY <1>3, <2>3 DEF Commit, Goto
      <3> QED
        BY <1>1, <2>1, <3>1, InsideKeeps DEF Syncing, Flushing
    <2> QED
      BY <2>2, <2>3
  <1>4. CASE FlushClean(p)
    <2>1. /\ pc[p] = "flush" /\ pc' = pc /\ buf' = buf /\ UNCHANGED <<due, flushed, committing>>
          /\ committing /\ Ahead(p, target[p]) /\ ~buf[target[p]].dirty /\ target'[p] = target[p] + 1
      BY <1>1, <1>4 DEF FlushClean, cache, log, sync, SyncInv, Syncing, Flushing
    <2>2. pc' = [pc EXCEPT ![p] = "flush"]
      BY <1>1, <2>1
    <2>3. Ahead(p, target[p])'
      <3>1. \A i \in Bufs : i >= target[p] /\ buf[i].dirty => i >= target[p] + 1
        BY <1>1, <2>1 DEF Bufs
      <3> QED
        BY <3>1, <2>1 DEF Ahead
    <2> QED
      BY <1>1, <2>1, <2>2, <2>3, InsideKeeps DEF Syncing, Flushing
  <1>5. CASE FlushBget(p) \/ FlushLock(p)
    <2>1. target[p] \in Bufs
      BY <1>5, <1>1 DEF FlushBget, FlushLock, IInv, ProcInv, LastBuf, Bufs, Waiting
    <2>2. PICK l \in {"flushlock", "flushwrite"} : pc' = [pc EXCEPT ![p] = l]
      BY <1>5 DEF FlushBget, FlushLock, Lock, Goto
    <2>3. /\ pc[p] \in Flushing /\ UNCHANGED <<target, due, flushed, committing>>
          /\ committing /\ Ahead(p, target[p])
      BY <1>5 DEF FlushBget, FlushLock, log, sync, SyncInv, Syncing, Flushing
    <2>4. KeepsDirty
      BY <1>5, <2>1, DirtyKept DEF FlushBget, FlushLock
    <2>5. Ahead(p, target[p])'
      BY <2>3, <2>4 DEF Ahead, KeepsDirty
    <2> QED
      BY <1>1, <2>2, <2>3, <2>5, InsideKeeps DEF Syncing, Flushing
  <1>6. CASE FlushWrite(p)
    <2>1. PICK i \in Bufs : i = target[p] /\ pc[p] = "flushwrite"
      BY <1>6 DEF FlushWrite, IInv, ProcInv, Owning
    <2>2. /\ pc' = [pc EXCEPT ![p] = "flush"] /\ UNCHANGED committing /\ committing
          /\ due' = [due EXCEPT ![p] = @ \ {buf[i].block}]
          /\ flushed' = [flushed EXCEPT ![p] = @ + 1] /\ target'[p] = i + 1
          /\ Ahead(p, i)
      BY <1>1, <1>6, <2>1 DEF FlushWrite, Goto, log, SyncInv, Syncing, Flushing
    <2>3. \A j \in Bufs \ {i} : buf'[j] = buf[j]
      BY <1>1, <1>6, <2>1 DEF FlushWrite, Released
    <2>4. Ahead(p, target[p])'
      <3>1. ASSUME NEW b \in due'[p]
            PROVE  \E j \in Bufs : j >= i + 1 /\ buf'[j].dirty /\ buf'[j].block = b
        <4>1. b \in due[p] /\ b # buf[i].block
          BY <1>1, <2>2, <3>1
        <4>2. PICK j \in Bufs : j >= i /\ buf[j].dirty /\ buf[j].block = b
          BY <4>1, <2>2 DEF Ahead
        <4>3. j # i /\ j >= i + 1
          BY <4>1, <4>2 DEF Bufs
        <4> QED
          BY <4>2, <4>3, <2>3
      <3> QED
        BY <3>1, <2>2 DEF Ahead
    <2>5. due' \in [Procs -> SUBSET (Blocks \union {NoBlock})] /\ flushed' \in [Procs -> Nat]
      BY <1>1, <2>2
    <2> QED
      BY <1>1, <2>1, <2>2, <2>4, <2>5, InsideKeeps DEF Syncing, Flushing
  <1>7. CASE FlushEnd(p)
    <2>1. /\ pc[p] = "flush" /\ pc' = [pc EXCEPT ![p] = "finish"]
          /\ UNCHANGED <<due, flushed, committing>> /\ committing
          /\ target[p] > NBUF /\ Ahead(p, target[p])
      BY <1>7 DEF FlushEnd, LastBuf, Goto, sync, SyncInv, Syncing, Flushing
    <2>2. due[p] = {}
      <3>1. \A i \in Bufs : ~(i >= target[p])
        BY <1>1, <2>1 DEF Bufs
      <3> QED
        BY <3>1, <2>1 DEF Ahead
    <2> QED
      BY <1>1, <2>1, <2>2, InsideKeeps DEF Syncing, Flushing
  <1>8. CASE SyncEnd(p)
    <2>1. PICK l \in {"idle", "bget"} : pc' = [pc EXCEPT ![p] = l]
      BY <1>8 DEF SyncEnd, Goto
    <2>2. /\ pc[p] = "finish"
          /\ due' \in [Procs -> SUBSET (Blocks \union {NoBlock})] /\ flushed' \in [Procs -> Nat]
      BY <1>1, <1>8 DEF SyncEnd
    <2> QED
      BY <1>1, <2>1, <2>2, InsideKeeps DEF Syncing, Flushing
  <1> QED
    BY <1>2, <1>3, <1>4, <1>5, <1>6, <1>7, <1>8

\* A sync that went through the cache has written every block that was dirty when it
\* began, whatever operations dirty, lock and recycle meanwhile.
THEOREM SyncComplete == Spec => []SyncWritesAll
  <1>1. Init => SyncInv
    <2> SUFFICES ASSUME Init PROVE SyncInv
      OBVIOUS
    <2>1. \A p \in Procs : pc[p] \notin Syncing
      BY DEF Init, Syncing, Flushing
    <2> QED
      BY <2>1 DEF Init, SyncInv, Syncing
  <1>2. IInv /\ SyncInv /\ [Next]_vars => SyncInv'
    <2>1. ASSUME SyncInv, UNCHANGED vars
          PROVE  SyncInv'
      BY <2>1 DEF vars, cache, log, sync, SyncInv, Ahead
    <2> QED
      BY <2>1, OutsideStep, InsideStep DEF Next
  <1>3. SyncInv => SyncWritesAll
    BY DEF SyncInv, SyncWritesAll
  <1> QED
    BY <1>1, <1>2, <1>3, Invariance, PTL DEF Spec
=============================================================================
