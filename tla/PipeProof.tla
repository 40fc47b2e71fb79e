------------------------------ MODULE PipeProof ------------------------------
(***************************************************************************)
(* The safety of the pipe and its refinement of ByteStream, for every      *)
(* number of processes, every size of the ring and every width of the      *)
(* counters that is a multiple of it.                                      *)
(***************************************************************************)
EXTENDS Pipe, TLAPS, SequenceTheorems

-----------------------------------------------------------------------------
(* Quotients and remainders *)

\* What % and \div are, which is all that the lemmas below need.
LEMMA DivMod ==
    ASSUME NEW x \in Int, NEW n \in Nat \ {0}
    PROVE  /\ x \div n \in Int /\ x % n \in 0 .. n - 1
           /\ x = n * (x \div n) + (x % n)
  OBVIOUS

\* A remainder is determined by its number.
LEMMA ModUnique ==
    ASSUME NEW n \in Nat \ {0}, NEW q \in Int, NEW r \in Int,
           NEW s \in 0 .. n - 1, NEW t \in 0 .. n - 1, n * q + s = n * r + t
    PROVE  s = t
  OBVIOUS

LEMMA ModSmall ==
    ASSUME NEW n \in Nat \ {0}, NEW x \in 0 .. n - 1
    PROVE  x % n = x
  OBVIOUS

\* A multiple of n does not count.
LEMMA ModShift ==
    ASSUME NEW n \in Nat \ {0}, NEW y \in Nat, NEW k \in Nat, NEW x \in Nat, x = y + n * k
    PROVE  x % n = y % n
  <1>1. /\ x % n \in 0 .. n - 1 /\ x \div n \in Int
        /\ y % n \in 0 .. n - 1 /\ y \div n \in Int
    BY DivMod
  <1>2. n * (x \div n) + (x % n) = n * ((y \div n) + k) + (y % n)
    BY DivMod, <1>1
  <1>3. (y \div n) + k \in Int
    BY <1>1
  <1> QED
    BY <1>1, <1>2, <1>3, ModUnique

\* Numbers less than n apart have different remainders.
LEMMA ModApart ==
    ASSUME NEW n \in Nat \ {0}, NEW x \in Nat, NEW y \in Nat, x < y, y < x + n
    PROVE  x % n # y % n
  <1>1. /\ x % n \in 0 .. n - 1 /\ x \div n \in Int
        /\ y % n \in 0 .. n - 1 /\ y \div n \in Int
    BY DivMod
  <1> SUFFICES ASSUME x % n = y % n
               PROVE  FALSE
    OBVIOUS
  <1> DEFINE k == (y \div n) - (x \div n)
  <1>2. y - x = n * k /\ k \in Int
    BY DivMod, <1>1
  <1>3. k > 0
    BY <1>2
  <1> QED
    BY <1>2, <1>3

-----------------------------------------------------------------------------
(* The counters *)

LEMMA WordAndRing ==
    /\ WORD \in Nat \ {0} /\ PIPESIZE \in Nat \ {0} /\ PIPESIZE < WORD
    /\ Word = 0 .. WORD - 1 /\ Index = 0 .. PIPESIZE - 1
  BY PipeAssumption DEF Word, Index

LEMMA RingDividesWord == \E k \in Nat : WORD = PIPESIZE * k
  <1>1. WORD = PIPESIZE * (WORD \div PIPESIZE) /\ WORD \div PIPESIZE \in Int
    BY PipeAssumption, DivMod
  <1>2. WORD \div PIPESIZE \in Nat
    BY <1>1, WordAndRing
  <1> QED
    BY <1>1, <1>2

\* How far the word w is ahead of the word r, without remainders.
Distance(r, w) == IF r <= w THEN w - r ELSE w + WORD - r

LEMMA DistanceIs ==
    ASSUME NEW r \in Word, NEW w \in Word
    PROVE  (w + WORD - r) % WORD = Distance(r, w)
  <1>1. CASE r <= w
    <2>1. /\ w - r \in 0 .. WORD - 1 /\ w + WORD - r \in Nat
          /\ w + WORD - r = (w - r) + WORD * 1
      BY <1>1, WordAndRing
    <2>2. (w + WORD - r) % WORD = (w - r) % WORD
      BY <2>1, WordAndRing, ModShift
    <2>3. (w - r) % WORD = w - r
      BY <2>1, WordAndRing, ModSmall
    <2> QED
      BY <1>1, <2>2, <2>3 DEF Distance
  <1>2. CASE ~(r <= w)
    <2>1. w + WORD - r \in 0 .. WORD - 1
      BY <1>2, WordAndRing
    <2> QED
      BY <2>1, <1>2, WordAndRing, ModSmall DEF Distance
  <1> QED
    BY <1>1, <1>2

\* Full, without remainders.
LEMMA FullIs ==
    ASSUME NEW r \in Word, NEW w \in Word
    PROVE  w = (r + PIPESIZE) % WORD <=> Distance(r, w) = PIPESIZE
  <1>1. (r + PIPESIZE) % WORD
          = IF r + PIPESIZE < WORD THEN r + PIPESIZE ELSE r + PIPESIZE - WORD
    <2>1. CASE r + PIPESIZE < WORD
      <3>1. r + PIPESIZE \in 0 .. WORD - 1
        BY <2>1, WordAndRing
      <3> QED
        BY <3>1, <2>1, WordAndRing, ModSmall
    <2>2. CASE ~(r + PIPESIZE < WORD)
      <3>1. /\ r + PIPESIZE - WORD \in 0 .. WORD - 1 /\ r + PIPESIZE \in Nat
            /\ r + PIPESIZE = (r + PIPESIZE - WORD) + WORD * 1
        BY WordAndRing, <2>2
      <3>2. (r + PIPESIZE) % WORD = (r + PIPESIZE - WORD) % WORD
        BY <3>1, WordAndRing, ModShift
      <3>3. (r + PIPESIZE - WORD) % WORD = r + PIPESIZE - WORD
        BY <3>1, WordAndRing, ModSmall
      <3> QED
        BY <3>2, <3>3, <2>2
    <2> QED
      BY <2>1, <2>2
  <1> QED
    BY <1>1, WordAndRing DEF Distance

\* What the number of bytes is, and what the two tests of the code mean.
LEMMA CountIs ==
    ASSUME nread \in Word, nwrite \in Word
    PROVE  /\ Count = Distance(nread, nwrite) /\ Count \in Nat
           /\ Count = 0 <=> Empty
           /\ Count = PIPESIZE <=> Full
  <1>1. Count = Distance(nread, nwrite)
    BY DistanceIs DEF Count
  <1>2. Count = PIPESIZE <=> Full
    BY <1>1, FullIs DEF Full
  <1>3. Distance(nread, nwrite) \in Nat /\ (Distance(nread, nwrite) = 0 <=> Empty)
    BY WordAndRing DEF Distance, Empty
  <1> QED
    BY <1>1, <1>2, <1>3

\* A byte put in is one more.
LEMMA CountUp ==
    ASSUME nread \in Word, nwrite \in Word, Count < PIPESIZE,
           nwrite' = Inc(nwrite), nread' = nread
    PROVE  nwrite' \in Word /\ Count' = Count + 1
  <1>1. nwrite' \in Word /\ nread' \in Word
    BY WordAndRing DEF Inc
  <1>2. Count' = Distance(nread', nwrite')
    BY <1>1, DistanceIs DEF Count
  <1>3. Count = Distance(nread, nwrite)
    BY CountIs
  <1>4. Distance(nread', nwrite') = Distance(nread, nwrite) + 1
    BY <1>3, WordAndRing DEF Distance, Inc
  <1> QED
    BY <1>1, <1>2, <1>3, <1>4

\* A byte taken out is one less.
LEMMA CountDown ==
    ASSUME nread \in Word, nwrite \in Word, Count # 0,
           nread' = Inc(nread), nwrite' = nwrite
    PROVE  nread' \in Word /\ Count' = Count - 1
  <1>1. nwrite' \in Word /\ nread' \in Word
    BY WordAndRing DEF Inc
  <1>2. Count' = Distance(nread', nwrite')
    BY <1>1, DistanceIs DEF Count
  <1>3. Count = Distance(nread, nwrite)
    BY CountIs
  <1>4. Distance(nread', nwrite') = Distance(nread, nwrite) - 1
    BY <1>3, WordAndRing DEF Distance, Inc
  <1> QED
    BY <1>1, <1>2, <1>3, <1>4

-----------------------------------------------------------------------------
(* The inductive invariant *)

\* The ring never holds more than it can.
RingInv == Count <= PIPESIZE

\* The lock is held by the process that is between acquire and release.
LockInv == \A p \in Procs : pc[p] \in Holding <=> lock = p

\* An end is open as long as somebody has it or is about to close it; nobody has
\* it when it is closed, and one process closes it.
EndInv(e, isopen, closing) ==
    /\ isopen <=> \E p \in Procs : e \in fds[p] \/ pc[p] = closing
    /\ \A p \in Procs : pc[p] = closing =>
          \A q \in Procs : e \notin fds[q] /\ (pc[q] = closing => q = p)

EndsInv ==
    /\ EndInv("r", readopen, "close_r")
    /\ EndInv("w", writeopen, "close_w")
    /\ freed <=> ~readopen /\ ~writeopen

\* Who is in a call has the end it needs and has moved bytes or still wants to;
\* who copies without a byte so far finds one or the end of the stream.
CallInv ==
    \A p \in Procs :
        /\ pc[p] \in InWrite => "w" \in fds[p]
        /\ pc[p] \in InRead => "r" \in fds[p]
        /\ pc[p] \in InWrite \union InRead => left[p] + moved[p] > 0
        /\ pc[p] = "copy" /\ moved[p] = 0 => left[p] > 0 /\ (~Empty \/ ~writeopen)

IInv ==
    /\ TypeOK /\ RingInv /\ LockInv /\ EndsInv /\ CallInv
    /\ WriterSleepsForRoom /\ ReaderSleepsForData

-----------------------------------------------------------------------------
(* Types *)

LEMMA InitType == Init => TypeOK
  <1>1. 0 \in Word /\ 0 \in Nat /\ Err \in Nat \union {Err}
    BY WordAndRing
  <1> QED
    BY <1>1 DEF Init, TypeOK, PCs

LEMMA TypeStep == TypeOK /\ [Next]_vars => TypeOK'
  <1> SUFFICES ASSUME TypeOK, [Next]_vars
               PROVE  TypeOK'
    OBVIOUS
  <1> USE DEF TypeOK, Goto, PCs, InWrite, InRead, Closing,
              ring, ends, call
  <1>1. ASSUME NEW p \in Procs, NEW n \in Sizes, Write(p, n) \/ Read(p, n)
        PROVE  TypeOK'
    BY <1>1, PipeAssumption DEF Write, Read, Enter
  <1>2. ASSUME NEW p \in Procs, WriteLock(p) \/ ReadLock(p)
        PROVE  TypeOK'
    BY <1>2 DEF WriteLock, ReadLock, Acquire
  <1>3. ASSUME NEW p \in Procs, WriteFails(p) \/ ReadFails(p)
        PROVE  TypeOK'
    BY <1>3 DEF WriteFails, ReadFails, Leave
  <1>4. ASSUME NEW p \in Procs, WriteDone(p) \/ ReadDone(p)
        PROVE  TypeOK'
    <2>1. pc' \in [Procs -> PCs]
      BY <1>4 DEF WriteDone, ReadDone, Leave, WakeAfterRead, WakeReaders, WakeWriters
    <2>2. result' \in [Procs -> Nat \union {Err}]
      BY <1>4 DEF WriteDone, ReadDone, Leave
    <2> HIDE DEF PCs
    <2> QED
      BY <1>4, <2>1, <2>2 DEF WriteDone, ReadDone, Leave
  <1>5. ASSUME NEW p \in Procs, WriteSleep(p) \/ ReadSleep(p)
        PROVE  TypeOK'
    BY <1>5 DEF WriteSleep, ReadSleep, SleepAt, WakeBeforeSleep, WakeReaders
  <1>6. ASSUME NEW p \in Procs, NEW b \in Bytes, WriteByte(p, b)
        PROVE  TypeOK'
    <2>1. nwrite' \in Word
      BY <1>6, WordAndRing DEF WriteByte, Inc
    <2>2. left' \in [Procs -> Nat] /\ moved' \in [Procs -> Nat]
      BY <1>6 DEF WriteByte
    <2>3. data' \in [Index -> Bytes]
      BY <1>6 DEF WriteByte
    <2> QED
      BY <1>6, <2>1, <2>2, <2>3 DEF WriteByte
  <1>7. ASSUME NEW p \in Procs, ReadByte(p)
        PROVE  TypeOK'
    <2>1. nread' \in Word
      BY <1>7, WordAndRing DEF ReadByte, Inc
    <2> QED
      BY <1>7, <2>1 DEF ReadByte
  <1>8. ASSUME NEW p \in Procs, ReadStart(p)
        PROVE  TypeOK'
    BY <1>8 DEF ReadStart
  <1>9. ASSUME NEW p \in Procs, NEW q \in Procs, Fork(p, q)
        PROVE  TypeOK'
    BY <1>9 DEF Fork
  <1>10. ASSUME NEW p \in Procs, NEW e \in Ends, Close(p, e)
         PROVE  TypeOK'
    BY <1>10 DEF Close
  <1>11. ASSUME NEW p \in Procs, NEW e \in Ends, PipeClose(p, e)
         PROVE  TypeOK'
    BY <1>11 DEF PipeClose, WakeOnClose, WakeReaders, WakeWriters, LastEnd
  <1>12. ASSUME NEW p \in Procs, Kill(p)
         PROVE  TypeOK'
    BY <1>12 DEF Kill, WakeOne
  <1>13. CASE UNCHANGED vars
    BY <1>13 DEF vars
  <1> QED
    BY <1>1, <1>2, <1>3, <1>4, <1>5, <1>6, <1>7, <1>8, <1>9, <1>10, <1>11, <1>12, <1>13
    DEF Next, Locked

-----------------------------------------------------------------------------
(* The steps: what each leaves of the invariant *)

\* A call begins.
LEMMA EnterStep ==
    ASSUME IInv, TypeOK', NEW p \in Procs, NEW n \in Sizes, Write(p, n) \/ Read(p, n)
    PROVE  IInv'
  <1> USE DEF Goto, ring, ends, call, InWrite, InRead, Holding
  <1>0. /\ pc[p] = "idle" /\ pc'[p] \in {"wlock", "rlock"}
        /\ \A q \in Procs : q # p => pc'[q] = pc[q]
        /\ n \in Nat /\ n > 0 /\ left'[p] = n /\ moved'[p] = 0
        /\ \A q \in Procs : q # p => left'[q] = left[q] /\ moved'[q] = moved[q]
        /\ UNCHANGED <<ring, ends, lock, fds, killed>>
    BY PipeAssumption DEF IInv, TypeOK, Write, Read, Enter
  <1>1. RingInv'
    BY <1>0 DEF IInv, RingInv, Count
  <1>2. LockInv'
    BY <1>0 DEF IInv, LockInv
  <1>3. EndsInv'
    BY <1>0 DEF IInv, EndsInv, EndInv
  <1>4. CallInv'
    BY <1>0 DEF IInv, CallInv, Empty, Write, Read, Enter, TypeOK
  <1>5. WriterSleepsForRoom'
    BY <1>0 DEF IInv, WriterSleepsForRoom, Full, Copying
  <1>6. ReaderSleepsForData'
    BY <1>0 DEF IInv, ReaderSleepsForData, Empty, Writing
  <1> QED
    BY <1>1, <1>2, <1>3, <1>4, <1>5, <1>6 DEF IInv

\* A process gets the lock.
LEMMA AcquireStep ==
    ASSUME IInv, TypeOK', NEW p \in Procs, WriteLock(p) \/ ReadLock(p)
    PROVE  IInv'
  <1> USE DEF Goto, ring, ends, call, InWrite, InRead, Holding
  <1>0. /\ lock = Nobody /\ lock' = p
        /\ \/ pc[p] = "wlock" /\ pc'[p] = "write"
           \/ pc[p] = "rlock" /\ pc'[p] = "read"
        /\ \A q \in Procs : q # p => pc'[q] = pc[q]
        /\ UNCHANGED <<ring, ends, fds, killed, call>>
    BY DEF IInv, TypeOK, WriteLock, ReadLock, Acquire
  <1>1. RingInv'
    BY <1>0 DEF IInv, RingInv, Count
  <1>2. LockInv'
    BY <1>0, PipeAssumption DEF IInv, LockInv
  <1>3. EndsInv'
    BY <1>0 DEF IInv, EndsInv, EndInv
  <1>4. CallInv'
    BY <1>0 DEF IInv, CallInv, Empty
  <1>5. WriterSleepsForRoom'
    BY <1>0 DEF IInv, WriterSleepsForRoom, Full, Copying
  <1>6. ReaderSleepsForData'
    BY <1>0 DEF IInv, ReaderSleepsForData, Empty, Writing
  <1> QED
    BY <1>1, <1>2, <1>3, <1>4, <1>5, <1>6 DEF IInv

\* A process that holds the lock lets it go: it leaves the call or goes to sleep,
\* and may have woken the sleepers of one kind or of both.
LEMMA ReleaseStep ==
    ASSUME IInv, TypeOK', NEW p \in Procs,
           pc[p] \in Holding, lock' = Nobody, UNCHANGED <<ring, ends, fds, killed>>,
           pc'[p] \in {"idle", "wsleep", "rsleep"},
           pc'[p] = "wsleep" => pc[p] = "write" /\ Full /\ readopen /\ ~killed[p]
                                /\ left'[p] = left[p] /\ moved'[p] = moved[p],
           pc'[p] = "rsleep" => pc[p] = "read" /\ Empty /\ writeopen /\ ~killed[p]
                                /\ left'[p] = left[p] /\ moved'[p] = moved[p],
           \A q \in Procs \ {p} :
              /\ left'[q] = left[q] /\ moved'[q] = moved[q]
              /\ pc'[q] # pc[q] => \/ pc[q] = "rsleep" /\ pc'[q] = "rlock"
                                   \/ pc[q] = "wsleep" /\ pc'[q] = "wlock"
              /\ pc[p] = "copy" => pc'[q] # "wsleep"
              /\ pc[p] = "write" /\ ~(\E r \in Procs : killed[r]) => pc'[q] # "rsleep"
    PROVE  IInv'
  <1> USE DEF ring, ends, InWrite, InRead, Holding
  <1>0. \A q \in Procs : q # p => pc[q] \notin Holding
    BY DEF IInv, LockInv
  <1>1. RingInv'
    BY DEF IInv, RingInv, Count
  <1>2. LockInv'
    BY <1>0, PipeAssumption DEF IInv, LockInv
  <1>3. EndsInv'
    BY DEF IInv, EndsInv, EndInv
  <1>4. CallInv'
    BY <1>0 DEF IInv, CallInv, Empty
  <1>5. WriterSleepsForRoom'
    BY <1>0 DEF IInv, WriterSleepsForRoom, Full, Copying
  <1>6. ReaderSleepsForData'
    BY <1>0 DEF IInv, ReaderSleepsForData, Empty, Writing
  <1> QED
    BY <1>1, <1>2, <1>3, <1>4, <1>5, <1>6 DEF IInv

\* The six ways out of the loops are such releases: an error is returned with
\* nobody woken, a write and a read wake the other side at their end, a writer
\* wakes the readers before it sleeps.
LEMMA LeaveStep ==
    ASSUME IInv, TypeOK', NEW p \in Procs,
           \/ WriteFails(p) \/ WriteSleep(p) \/ WriteDone(p)
           \/ ReadFails(p) \/ ReadSleep(p) \/ ReadDone(p)
    PROVE  IInv'
  <1> USE DEF Holding, Goto, call, TypeOK
  <1>1. CASE WriteFails(p)
    <2>1. (readopen /\ killed[p]) \/ ~readopen
      BY <1>1 DEF WriteFails, IInv
    <2>2. \A q \in Procs : pc[q] = "rsleep" => readopen
      BY DEF IInv, EndsInv, EndInv, CallInv, InRead
    <2>3. \A q \in Procs : pc[q] = "rsleep" => \E r \in Procs : killed[r]
      BY <2>1, <2>2, <1>1 DEF WriteFails
    <2> QED
      BY <1>1, <2>3, ReleaseStep DEF IInv, WriteFails, Leave
  <1>2. CASE WriteSleep(p)
    BY <1>2, ReleaseStep DEF IInv, WriteSleep, SleepAt, WakeBeforeSleep, WakeReaders
  <1>3. CASE WriteDone(p)
    BY <1>3, ReleaseStep DEF IInv, WriteDone, Leave, WakeReaders
  <1>4. CASE ReadFails(p)
    BY <1>4, ReleaseStep DEF IInv, ReadFails, Leave
  <1>5. CASE ReadSleep(p)
    BY <1>5, ReleaseStep DEF IInv, ReadSleep, SleepAt, MustWaitForData
  <1>6. CASE ReadDone(p)
    BY <1>6, ReleaseStep DEF IInv, ReadDone, Leave, WakeAfterRead, WakeWriters
  <1> QED
    BY <1>1, <1>2, <1>3, <1>4, <1>5, <1>6

\* A byte goes into the ring.  Nobody but the writer has the lock, so nobody
\* copies; with room in the ring, no writer can be asleep.
LEMMA WriteByteStep ==
    ASSUME IInv, TypeOK', NEW p \in Procs, NEW b \in Bytes, WriteByte(p, b)
    PROVE  IInv'
  <1> USE DEF ends, InWrite, InRead, Holding
  <1>0. /\ pc[p] = "write" /\ left[p] > 0 /\ ~Full /\ pc' = pc
        /\ UNCHANGED <<nread, ends, lock, fds, killed>>
        /\ \A q \in Procs : q # p => pc[q] \notin Holding
        /\ \A q \in Procs : left'[q] + moved'[q] = left[q] + moved[q]
    BY DEF IInv, TypeOK, LockInv, WriteByte
  <1>1. RingInv'
    BY <1>0, CountIs, CountUp, WordAndRing, SMTT(30) DEF IInv, RingInv, WriteByte, TypeOK
  <1>2. LockInv' /\ EndsInv'
    BY <1>0 DEF IInv, LockInv, EndsInv, EndInv
  <1>3. CallInv'
    BY <1>0 DEF IInv, CallInv, Empty
  <1>4. WriterSleepsForRoom'
    BY <1>0 DEF IInv, WriterSleepsForRoom, Copying
  <1>5. ReaderSleepsForData'
    BY <1>0 DEF IInv, ReaderSleepsForData, Writing
  <1> QED
    BY <1>1, <1>2, <1>3, <1>4, <1>5 DEF IInv

\* The reader starts to copy, or copies a byte.
LEMMA CopyStep ==
    ASSUME IInv, TypeOK', NEW p \in Procs, ReadStart(p) \/ ReadByte(p)
    PROVE  IInv'
  <1> USE DEF ends, InWrite, InRead, Holding
  <1>0. /\ pc[p] \in {"read", "copy"} /\ pc'[p] = "copy"
        /\ \A q \in Procs : q # p => pc'[q] = pc[q] /\ pc[q] \notin Holding
        /\ UNCHANGED <<nwrite, ends, lock, fds, killed>>
        /\ \A q \in Procs : left'[q] + moved'[q] = left[q] + moved[q]
    <2>1. CASE ReadStart(p)
      BY <2>1 DEF IInv, TypeOK, LockInv, ReadStart, Goto, call, ring
    <2>2. CASE ReadByte(p)
      BY <2>2 DEF IInv, TypeOK, LockInv, ReadByte
    <2> QED
      BY <2>1, <2>2
  <1>1. RingInv'
    <2>1. CASE ReadStart(p)
      BY <2>1 DEF ReadStart, IInv, RingInv, Count, ring
    <2>2. CASE ReadByte(p)
      BY <2>2, CountIs, CountDown, WordAndRing DEF IInv, RingInv, ReadByte, TypeOK
    <2> QED
      BY <2>1, <2>2
  <1>2. LockInv' /\ EndsInv'
    BY <1>0 DEF IInv, LockInv, EndsInv, EndInv
  <1>3. CallInv'
    <2>1. CASE ReadStart(p)
      BY <2>1, <1>0 DEF ReadStart, IInv, TypeOK, CallInv, Empty, MustWaitForData, ring, call
    <2>2. CASE ReadByte(p)
      BY <2>2, <1>0 DEF ReadByte, IInv, TypeOK, CallInv, Empty
    <2> QED
      BY <2>1, <2>2
  <1>4. WriterSleepsForRoom'
    BY <1>0 DEF IInv, WriterSleepsForRoom, Copying
  <1>5. ReaderSleepsForData'
    <2>1. CASE ReadStart(p)
      BY <2>1, <1>0 DEF ReadStart, IInv, ReaderSleepsForData, Writing, Empty, ring
    <2>2. CASE ReadByte(p)
      BY <2>2, <1>0 DEF ReadByte, IInv, ReaderSleepsForData, Writing
    <2> QED
      BY <2>1, <2>2
  <1> QED
    BY <1>1, <1>2, <1>3, <1>4, <1>5 DEF IInv

\* Descriptors are shared or given up, without the lock.
LEMMA DescriptorStep ==
    ASSUME IInv, TypeOK', NEW p \in Procs,
           (\E q \in Procs : Fork(p, q)) \/ (\E e \in Ends : Close(p, e))
    PROVE  IInv'
  <1> USE DEF ring, ends, call, InWrite, InRead, Holding, Goto
  <1>1. RingInv' /\ LockInv'
    BY DEF IInv, TypeOK, RingInv, LockInv, Count, Fork, Close
  <1>2. EndsInv'
    <2>1. CASE \E q \in Procs : Fork(p, q)
      BY <2>1 DEF IInv, TypeOK, EndsInv, EndInv, Fork
    <2>2. ASSUME NEW e \in Ends, Close(p, e)
          PROVE  EndsInv'
      <3>1. CASE e = "r"
        BY <2>2, <3>1 DEF IInv, TypeOK, EndsInv, EndInv, Close
      <3>2. CASE e = "w"
        BY <2>2, <3>2 DEF IInv, TypeOK, EndsInv, EndInv, Close
      <3> QED
        BY <3>1, <3>2 DEF Ends
    <2> QED
      BY <2>1, <2>2
  <1>3. CallInv'
    BY DEF IInv, TypeOK, CallInv, Empty, Fork, Close
  <1>4. WriterSleepsForRoom'
    BY DEF IInv, TypeOK, WriterSleepsForRoom, Full, Copying, Fork, Close
  <1>5. ReaderSleepsForData'
    BY DEF IInv, TypeOK, ReaderSleepsForData, Empty, Writing, Fork, Close
  <1> QED
    BY <1>1, <1>2, <1>3, <1>4, <1>5 DEF IInv

\* The last one closes an end and wakes the other side.
LEMMA PipeCloseStep ==
    ASSUME IInv, TypeOK', NEW p \in Procs, NEW e \in Ends, PipeClose(p, e)
    PROVE  IInv'
  <1> USE DEF ring, ends, call, InWrite, InRead, Holding
  <1>0. \A q \in Procs : pc[q] \notin Holding
    BY PipeAssumption DEF IInv, LockInv, PipeClose
  <1>1. CASE e = "r"
    <2>0. /\ pc[p] = "close_r" /\ pc'[p] = "idle" /\ readopen' = FALSE /\ writeopen' = writeopen
          /\ \A q \in Procs : q # p => pc'[q] = IF pc[q] = "wsleep" THEN "wlock" ELSE pc[q]
          /\ freed' = (freed \/ ~writeopen) /\ UNCHANGED <<ring, lock, fds, killed, call>>
      BY <1>1 DEF IInv, TypeOK, PipeClose, WakeOnClose, WakeWriters, LastEnd
    <2>1. RingInv' /\ LockInv'
      BY <2>0, <1>0 DEF IInv, RingInv, LockInv, Count
    <2>2. EndsInv'
      BY <2>0 DEF IInv, EndsInv, EndInv
    <2>3. CallInv'
      BY <2>0, <1>0 DEF IInv, CallInv
    <2>4. WriterSleepsForRoom'
      BY <2>0 DEF IInv, WriterSleepsForRoom
    <2>5. ReaderSleepsForData'
      BY <2>0, <1>0 DEF IInv, ReaderSleepsForData, Empty, Writing
    <2> QED
      BY <2>1, <2>2, <2>3, <2>4, <2>5 DEF IInv
  <1>2. CASE e = "w"
    <2>0. /\ pc[p] = "close_w" /\ pc'[p] = "idle" /\ writeopen' = FALSE /\ readopen' = readopen
          /\ \A q \in Procs : q # p => pc'[q] = IF pc[q] = "rsleep" THEN "rlock" ELSE pc[q]
          /\ freed' = (freed \/ ~readopen) /\ UNCHANGED <<ring, lock, fds, killed, call>>
      BY <1>2 DEF IInv, TypeOK, PipeClose, WakeOnClose, WakeReaders, LastEnd
    <2>1. RingInv' /\ LockInv'
      BY <2>0, <1>0 DEF IInv, RingInv, LockInv, Count
    <2>2. EndsInv'
      BY <2>0 DEF IInv, EndsInv, EndInv
    <2>3. CallInv'
      BY <2>0, <1>0 DEF IInv, CallInv
    <2>4. WriterSleepsForRoom'
      BY <2>0, <1>0 DEF IInv, WriterSleepsForRoom, Full, Copying
    <2>5. ReaderSleepsForData'
      BY <2>0 DEF IInv, ReaderSleepsForData
    <2> QED
      BY <2>1, <2>2, <2>3, <2>4, <2>5 DEF IInv
  <1> QED
    BY <1>1, <1>2 DEF Ends

\* kill wakes its victim, whatever it sleeps for.
LEMMA KillStep ==
    ASSUME IInv, TypeOK', NEW p \in Procs, Kill(p)
    PROVE  IInv'
  <1> USE DEF ring, ends, call, InWrite, InRead, Holding
  <1>0. /\ pc'[p] = IF pc[p] = "rsleep" THEN "rlock"
                    ELSE IF pc[p] = "wsleep" THEN "wlock" ELSE pc[p]
        /\ \A q \in Procs : q # p => pc'[q] = pc[q] /\ killed'[q] = killed[q]
        /\ killed'[p] /\ UNCHANGED <<ring, ends, lock, fds, call>>
    BY DEF IInv, TypeOK, Kill, WakeOne
  <1>1. RingInv' /\ LockInv'
    BY <1>0 DEF IInv, RingInv, LockInv, Count
  <1>2. EndsInv'
    BY <1>0 DEF IInv, EndsInv, EndInv
  <1>3. CallInv'
    BY <1>0 DEF IInv, CallInv, Empty
  <1>4. WriterSleepsForRoom'
    BY <1>0 DEF IInv, WriterSleepsForRoom, Full, Copying
  <1>5. ReaderSleepsForData'
    BY <1>0 DEF IInv, ReaderSleepsForData, Empty, Writing
  <1> QED
    BY <1>1, <1>2, <1>3, <1>4, <1>5 DEF IInv

-----------------------------------------------------------------------------
(* The theorems *)

LEMMA InitInv == Init => IInv
  <1> SUFFICES ASSUME Init
               PROVE  IInv
    OBVIOUS
  <1>1. TypeOK
    BY InitType
  <1>2. RingInv
    BY <1>1, CountIs, WordAndRing DEF Init, RingInv, Empty, TypeOK
  <1>3. LockInv /\ CallInv /\ WriterSleepsForRoom /\ ReaderSleepsForData
    BY PipeAssumption
    DEF Init, LockInv, CallInv, WriterSleepsForRoom, ReaderSleepsForData,
        Holding, InWrite, InRead
  <1>4. EndsInv
    BY DEF Init, EndsInv, EndInv, Ends
  <1> QED
    BY <1>1, <1>2, <1>3, <1>4 DEF IInv

LEMMA StepInv == IInv /\ [Next]_vars => IInv'
  <1> SUFFICES ASSUME IInv, [Next]_vars
               PROVE  IInv'
    OBVIOUS
  <1>0. TypeOK'
    BY TypeStep DEF IInv
  <1>1. CASE UNCHANGED vars
    BY <1>0, <1>1
    DEF IInv, vars, ring, ends, call, RingInv, LockInv, EndsInv, EndInv, CallInv, Count,
        Empty, Full, Copying, Writing, WriterSleepsForRoom, ReaderSleepsForData
  <1>2. CASE Next
    BY <1>0, <1>2, EnterStep, AcquireStep, LeaveStep, WriteByteStep, CopyStep,
       DescriptorStep, PipeCloseStep, KillStep
    DEF Next, Locked
  <1> QED
    BY <1>1, <1>2

\* The invariant behind the others.
THEOREM Invariance == Spec => []IInv
  BY InitInv, StepInv, PTL DEF Spec

\* No wakeup is lost on either channel: whoever sleeps has a reason to, or
\* somebody at work who will wake him.
THEOREM WakeupsSuffice == Spec => []SleepersHaveCause
  <1>1. IInv => SleepersHaveCause
    BY DEF IInv, SleepersHaveCause
  <1> QED
    BY <1>1, Invariance, PTL

\* Whoever gives the page of the pipe back is the last: nobody is in the pipe then,
\* and nobody has an end through which to come into it.
THEOREM FreedByTheLast == Spec => []NoUseAfterFree
  <1>1. IInv => NoUseAfterFree
    BY DEF IInv, TypeOK, NoUseAfterFree, EndsInv, EndInv, CallInv, PCs, Closing, Ends
  <1> QED
    BY <1>1, Invariance, PTL

-----------------------------------------------------------------------------
(* The refinement of ByteStream *)

\* The sequence that n places of the ring d hold, from the place of the counter r.
RingSeq(d, r, n) == [i \in 1 .. n |-> d[(r + i - 1) % PIPESIZE]]

LEMMA OneLess ==
    ASSUME NEW a \in Nat, NEW b \in Nat \ {0}
    PROVE  a + b - 1 \in Nat
  OBVIOUS

LEMMA ModIndex ==
    ASSUME NEW x \in Int
    PROVE  x % PIPESIZE \in Index
  BY DivMod, WordAndRing

LEMMA RingSeqIs ==
    ASSUME NEW d \in [Index -> Bytes], NEW r \in Word, NEW n \in Nat
    PROVE  /\ RingSeq(d, r, n) \in Seq(Bytes) /\ Len(RingSeq(d, r, n)) = n
           /\ \A i \in 1 .. n : RingSeq(d, r, n)[i] = d[(r + i - 1) % PIPESIZE]
           /\ RingSeq(d, r, n) = <<>> <=> n = 0
  <1>1. \A i \in 1 .. n : d[(r + i - 1) % PIPESIZE] \in Bytes
    <2> SUFFICES ASSUME NEW i \in 1 .. n
                 PROVE  d[(r + i - 1) % PIPESIZE] \in Bytes
      OBVIOUS
    <2>1. r + i - 1 \in Int
      BY WordAndRing
    <2>2. (r + i - 1) % PIPESIZE \in Index
      BY <2>1, ModIndex
    <2> QED
      BY <2>2
  <1>2. RingSeq(d, r, n) \in Seq(Bytes)
    BY <1>1, IsASeq DEF RingSeq
  <1> QED
    BY <1>2, LenProperties, EmptySeq DEF RingSeq

\* The place of the next byte is the one behind the last of the bytes under way,
\* also when the counter of the writer has wrapped.
LEMMA WritePlace ==
    ASSUME NEW r \in Word, NEW w \in Word
    PROVE  w % PIPESIZE = (r + Distance(r, w)) % PIPESIZE
  <1>1. r \in Nat /\ w \in Nat /\ WORD \in Nat
    BY WordAndRing
  <1>2. PICK k \in Nat : WORD = PIPESIZE * k
    BY RingDividesWord
  <1>3. CASE r <= w
    <2>1. r + Distance(r, w) = w
      BY <1>1, <1>3 DEF Distance
    <2> QED
      BY <2>1
  <1>4. CASE ~(r <= w)
    <2>1. r + Distance(r, w) = w + WORD /\ w + WORD \in Nat
      BY <1>1, <1>4 DEF Distance
    <2>2. (w + WORD) % PIPESIZE = w % PIPESIZE
      BY <2>1, <1>1, <1>2, WordAndRing, ModShift
    <2> QED
      BY <2>1, <2>2
  <1> QED
    BY <1>3, <1>4

\* WriteByte puts its byte behind the others and touches none of them.
LEMMA ContentPut ==
    ASSUME IInv, TypeOK', NEW p \in Procs, NEW b \in Bytes, WriteByte(p, b)
    PROVE  Content' = Append(Content, b) /\ Len(Content) < PIPESIZE
  <1>1. /\ nread' = nread /\ nwrite' = Inc(nwrite) /\ ~Full
        /\ data' = [data EXCEPT ![nwrite % PIPESIZE] = b]
    BY DEF WriteByte
  <1>2. /\ data \in [Index -> Bytes] /\ nread \in Word /\ nwrite \in Word
        /\ data' \in [Index -> Bytes] /\ nread \in Nat
    BY WordAndRing, SMTT(30) DEF IInv, TypeOK
  <1>3. /\ Count < PIPESIZE /\ Count' = Count + 1 /\ Count \in Nat
        /\ Count = Distance(nread, nwrite)
    BY <1>1, <1>2, CountIs, CountUp, WordAndRing DEF IInv, RingInv
  <1> DEFINE n == Count
             s == RingSeq(data, nread, n)
             t == RingSeq(data', nread, n + 1)
  <1>4. Content = s /\ Content' = t
    BY <1>1, <1>3 DEF Content, RingSeq
  <1> HIDE DEF n
  <1>5. n \in Nat /\ n + 1 \in Nat /\ n < PIPESIZE
    BY <1>3 DEF n
  <1>6. /\ s \in Seq(Bytes) /\ Len(s) = n
        /\ \A i \in 1 .. n : s[i] = data[(nread + i - 1) % PIPESIZE]
    BY <1>2, <1>5, RingSeqIs
  <1>7. /\ t \in Seq(Bytes) /\ Len(t) = n + 1
        /\ \A i \in 1 .. n + 1 : t[i] = data'[(nread + i - 1) % PIPESIZE]
    BY <1>2, <1>5, RingSeqIs
  <1> HIDE DEF s, t
  <1>8. nwrite % PIPESIZE = (nread + n) % PIPESIZE
    BY <1>2, <1>3, WritePlace DEF n
  <1>9. nwrite % PIPESIZE \in Index
    <2>1. nwrite \in Int
      BY <1>2, WordAndRing
    <2> QED
      BY <2>1, ModIndex
  <1>10. \A i \in 1 .. n : t[i] = s[i]
    <2> SUFFICES ASSUME NEW i \in 1 .. n
                 PROVE  t[i] = s[i]
      OBVIOUS
    <2>1. /\ nread + i - 1 \in Nat /\ nread + n \in Nat
          /\ nread + i - 1 < nread + n /\ nread + n < (nread + i - 1) + PIPESIZE
      BY <1>2, <1>5, WordAndRing
    <2>2. (nread + i - 1) % PIPESIZE # nwrite % PIPESIZE
      BY <2>1, <1>8, ModApart, WordAndRing
    <2>3. (nread + i - 1) % PIPESIZE \in Index
      BY <2>1, ModIndex
    <2>4. data'[(nread + i - 1) % PIPESIZE] = data[(nread + i - 1) % PIPESIZE]
      BY <2>2, <2>3, <1>1, <1>2
    <2>5. i \in 1 .. n + 1
      BY <1>5
    <2> QED
      BY <2>4, <2>5, <1>6, <1>7
  <1>11. t[n + 1] = b
    <2>1. n + 1 \in 1 .. n + 1
      BY <1>5
    <2>2. t[n + 1] = data'[(nread + (n + 1) - 1) % PIPESIZE]
      BY <1>7, <2>1
    <2>3. nread + (n + 1) - 1 = nread + n
      BY <1>2, <1>5
    <2>4. data'[nwrite % PIPESIZE] = b
      BY <1>1, <1>2, <1>9
    <2> QED
      BY <2>2, <2>3, <2>4, <1>8
  <1>12. /\ Append(s, b) \in Seq(Bytes) /\ Len(Append(s, b)) = n + 1
         /\ \A i \in 1 .. n : Append(s, b)[i] = s[i]
         /\ Append(s, b)[n + 1] = b
    BY <1>6, AppendProperties
  <1>13. \A i \in 1 .. n + 1 : t[i] = Append(s, b)[i]
    BY <1>5, <1>10, <1>11, <1>12
  <1>14. t = Append(s, b)
    BY <1>7, <1>12, <1>13, SeqEqual
  <1> QED
    BY <1>4, <1>5, <1>6, <1>14

\* ReadByte takes the oldest byte.
LEMMA ContentGet ==
    ASSUME IInv, TypeOK', NEW p \in Procs, ReadByte(p)
    PROVE  Content' = Tail(Content) /\ Content # <<>>
  <1>1. nread' = Inc(nread) /\ nwrite' = nwrite /\ ~Empty /\ data' = data
    BY DEF ReadByte
  <1>2. /\ data \in [Index -> Bytes] /\ nread \in Word /\ nwrite \in Word
        /\ nread' \in Word /\ nread \in Nat /\ nread' \in Nat
    BY WordAndRing DEF IInv, TypeOK
  <1>3. Count \in Nat /\ Count # 0 /\ Count' = Count - 1
    BY <1>1, <1>2, CountIs, CountDown
  <1> DEFINE n == Count
             s == RingSeq(data, nread, n)
             t == RingSeq(data, nread', n - 1)
  <1>4. Content = s /\ Content' = t
    BY <1>1, <1>3 DEF Content, RingSeq
  <1> HIDE DEF n
  <1>5. n \in Nat /\ n - 1 \in Nat /\ n # 0
    BY <1>3 DEF n
  <1>6. /\ s \in Seq(Bytes) /\ Len(s) = n /\ s # <<>>
        /\ \A i \in 1 .. n : s[i] = data[(nread + i - 1) % PIPESIZE]
    BY <1>2, <1>5, RingSeqIs
  <1>7. /\ t \in Seq(Bytes) /\ Len(t) = n - 1
        /\ \A i \in 1 .. n - 1 : t[i] = data[(nread' + i - 1) % PIPESIZE]
    BY <1>2, <1>5, RingSeqIs
  <1> HIDE DEF s, t
  <1>8. \A i \in 1 .. n - 1 : t[i] = s[i + 1]
    <2> SUFFICES ASSUME NEW i \in 1 .. n - 1
                 PROVE  t[i] = s[i + 1]
      OBVIOUS
    <2>1. i + 1 \in 1 .. n /\ i \in Nat /\ i >= 1
      BY <1>5
    <2>2. s[i + 1] = data[(nread + (i + 1) - 1) % PIPESIZE]
      BY <1>6, <2>1
    <2>3. nread + (i + 1) - 1 = nread + i /\ nread + i \in Nat /\ nread' + i - 1 \in Nat
      <3>1. nread + (i + 1) - 1 = nread + i
        BY <1>2, <2>1
      <3>2. nread + i \in Nat
        BY <1>2, <2>1
      <3>3. nread' + i - 1 \in Nat
        <4>1. nread' \in Nat
          BY <1>2
        <4>2. i \in Nat \ {0}
          BY <2>1
        <4> QED
          BY <4>1, <4>2, OneLess
      <3> QED
        BY <3>1, <3>2, <3>3
    <2>4. (nread + i) % PIPESIZE = (nread' + i - 1) % PIPESIZE
      <3>1. CASE nread + 1 = WORD
        <4>1. PICK k \in Nat : WORD = PIPESIZE * k
          BY RingDividesWord
        <4>2. nread' = 0
          BY <3>1, <1>1 DEF Inc
        <4>3. nread + i = (nread' + i - 1) + PIPESIZE * k
          BY <3>1, <4>1, <4>2, <1>2, <2>1
        <4>4. PIPESIZE \in Nat \ {0} /\ nread + i \in Nat /\ nread' + i - 1 \in Nat
          BY <2>3, WordAndRing
        <4> QED
          BY <4>3, <4>4, ModShift
      <3>2. CASE nread + 1 # WORD
        <4>1. nread' = nread + 1
          BY <3>2, <1>1 DEF Inc
        <4>2. nread' + i - 1 = nread + i
          BY <4>1, <1>2, <2>1
        <4> QED
          BY <4>2
      <3> QED
        BY <3>1, <3>2
    <2> QED
      BY <2>2, <2>3, <2>4, <1>7
  <1>9. /\ Tail(s) \in Seq(Bytes) /\ Len(Tail(s)) = n - 1
        /\ \A i \in 1 .. n - 1 : Tail(s)[i] = s[i + 1]
    BY <1>6, HeadTailProperties
  <1>10. t = Tail(s)
    BY <1>5, <1>7, <1>8, <1>9, SeqEqual
  <1> QED
    BY <1>4, <1>6, <1>10

\* A step that leaves the ring, the write end and the results alone is a stutter.
LEMMA Unmoved ==
    ASSUME ring' = ring, writeopen' = writeopen, result' = result
    PROVE  UNCHANGED Stream!streamvars
  BY DEF ring, Content, Count, ToldEnd, Stream!streamvars

\* A call that ends or begins with anything but 0 takes the process from those who
\* were told the end.
LEMMA ToldOther ==
    ASSUME TypeOK, NEW p \in Procs, NEW r, r # 0,
           ring' = ring, writeopen' = writeopen, result' = [result EXCEPT ![p] = r]
    PROVE  Stream!CallAgain(p)
  <1>1. Content' = Content
    BY DEF ring, Content, Count
  <1>2. ToldEnd' = ToldEnd \ {p}
    BY DEF ToldEnd, TypeOK
  <1> QED
    BY <1>1, <1>2 DEF Stream!CallAgain

\* Who is told 0 finds the ring empty and the last write end closed.
LEMMA ToldTheEnd ==
    ASSUME TypeOK, NEW p \in Procs, Empty, ~writeopen,
           ring' = ring, writeopen' = writeopen, result' = [result EXCEPT ![p] = 0]
    PROVE  Stream!End(p)
  <1>1. Content' = Content
    BY DEF ring, Content, Count
  <1>2. ToldEnd' = ToldEnd \union {p}
    BY DEF ToldEnd, TypeOK
  <1>3. Content = <<>>
    <2>1. Count = 0
      BY CountIs DEF TypeOK
    <2>2. Content = RingSeq(data, nread, 0)
      BY <2>1 DEF Content, RingSeq
    <2> QED
      BY <2>2, RingSeqIs DEF TypeOK
  <1> QED
    BY <1>1, <1>2, <1>3 DEF Stream!End

LEMMA InitRefines == Init => Stream!Init
  <1> SUFFICES ASSUME Init
               PROVE  Stream!Init
    OBVIOUS
  <1>1. TypeOK
    BY InitType
  <1>2. Content = <<>>
    <2>1. Count = 0
      BY <1>1, CountIs DEF TypeOK, Init, Empty
    <2>2. Content = RingSeq(data, nread, 0)
      BY <2>1 DEF Content, RingSeq
    <2> QED
      BY <1>1, <2>2, RingSeqIs DEF TypeOK
  <1>3. ToldEnd = {}
    BY DEF ToldEnd, Init, Err
  <1> QED
    BY <1>2, <1>3 DEF Stream!Init, Init

\* Every step of the pipe is one of the stream or a stutter.
LEMMA StepRefines ==
    ASSUME IInv, TypeOK', [Next]_vars
    PROVE  [Stream!Next]_(Stream!streamvars)
  <1> USE DEF IInv
  <1> DEFINE Goal == [Stream!Next]_(Stream!streamvars)
  <1> HIDE DEF Goal
  <1>0. ASSUME ring' = ring, writeopen' = writeopen, result' = result
        PROVE  Goal
    BY <1>0, Unmoved DEF Goal
  <1>1. ASSUME NEW p \in Procs, NEW r, r # 0,
               ring' = ring, writeopen' = writeopen, result' = [result EXCEPT ![p] = r]
        PROVE  Goal
    BY <1>1, ToldOther DEF Goal, Stream!Next
  <1>2. ASSUME UNCHANGED vars
        PROVE  Goal
    BY <1>2, <1>0 DEF vars, ends, call
  <1>3. ASSUME NEW p \in Procs, NEW n \in Sizes, Write(p, n) \/ Read(p, n)
        PROVE  Goal
    BY <1>3, <1>1 DEF Write, Read, Enter, ends, Err
  <1>4. ASSUME NEW p \in Procs, WriteLock(p) \/ ReadLock(p)
        PROVE  Goal
    BY <1>4, <1>0 DEF WriteLock, ReadLock, Acquire, ends, call
  <1>5. ASSUME NEW p \in Procs, WriteFails(p) \/ ReadFails(p)
        PROVE  Goal
    BY <1>5, <1>1 DEF WriteFails, ReadFails, Leave, ends, Err
  <1>6. ASSUME NEW p \in Procs, WriteDone(p)
        PROVE  Goal
    <2>1. moved[p] # 0
      BY <1>6 DEF WriteDone, CallInv, InWrite, TypeOK
    <2> QED
      BY <2>1, <1>6, <1>1 DEF WriteDone, Leave, ends
  <1>7. ASSUME NEW p \in Procs, ReadDone(p)
        PROVE  Goal
    <2>1. ring' = ring /\ writeopen' = writeopen /\ result' = [result EXCEPT ![p] = moved[p]]
      BY <1>7 DEF ReadDone, Leave, ends
    <2>2. CASE moved[p] # 0
      BY <2>1, <2>2, <1>1
    <2>3. CASE moved[p] = 0
      <3>1. Empty /\ ~writeopen
        BY <1>7, <2>3 DEF ReadDone, CallInv, TypeOK
      <3> QED
        BY <2>1, <2>3, <3>1, ToldTheEnd DEF Goal, Stream!Next
    <2> QED
      BY <2>2, <2>3
  <1>8. ASSUME NEW p \in Procs, WriteSleep(p) \/ ReadSleep(p) \/ ReadStart(p)
        PROVE  Goal
    BY <1>8, <1>0 DEF WriteSleep, ReadSleep, ReadStart, SleepAt, ends, call
  <1>9. ASSUME NEW p \in Procs, NEW b \in Bytes, WriteByte(p, b)
        PROVE  Goal
    <2>1. writeopen
      BY <1>9 DEF WriteByte, CallInv, InWrite, EndsInv, EndInv
    <2>2. writeopen' = writeopen /\ ToldEnd' = ToldEnd
      BY <1>9 DEF WriteByte, ends, ToldEnd
    <2>3. Stream!Put(b)
      BY <1>9, <2>1, <2>2, ContentPut DEF Stream!Put
    <2> QED
      BY <2>3 DEF Goal, Stream!Next
  <1>10. ASSUME NEW p \in Procs, ReadByte(p)
         PROVE  Goal
    <2>1. writeopen' = writeopen /\ ToldEnd' = ToldEnd
      BY <1>10 DEF ReadByte, ends, ToldEnd
    <2>2. Stream!Get
      BY <1>10, <2>1, ContentGet DEF Stream!Get
    <2> QED
      BY <2>2 DEF Goal, Stream!Next
  <1>11. ASSUME NEW p \in Procs, NEW e \in Ends, PipeClose(p, e)
         PROVE  Goal
    <2>1. ring' = ring /\ result' = result /\ writeopen' = (writeopen /\ e # "w")
      BY <1>11 DEF PipeClose, call
    <2>2. CASE e # "w"
      <3>1. writeopen' = writeopen
        BY <2>1, <2>2 DEF TypeOK
      <3> QED
        BY <2>1, <3>1, <1>0
    <2>3. CASE e = "w"
      <3>1. writeopen' = FALSE
        BY <2>1, <2>3
      <3>2. Content' = Content /\ ToldEnd' = ToldEnd
        BY <2>1 DEF ring, Content, Count, ToldEnd
      <3>3. Stream!CloseLast
        BY <3>1, <3>2 DEF Stream!CloseLast
      <3> QED
        BY <3>3 DEF Goal, Stream!Next
    <2> QED
      BY <2>2, <2>3
  <1>12. ASSUME NEW p \in Procs, \/ \E q \in Procs : Fork(p, q)
                                 \/ \E e \in Ends : Close(p, e)
                                 \/ Kill(p)
         PROVE  Goal
    BY <1>12, <1>0 DEF Fork, Close, Kill, ends, call
  <1>13. Goal
    BY <1>2, <1>3, <1>4, <1>5, <1>6, <1>7, <1>8, <1>9, <1>10, <1>11, <1>12
       DEF Next, Locked
  <1> QED
    BY <1>13 DEF Goal

\* The pipe is a bounded stream: bytes come out once and in their order, the
\* wrapping of the counters included, and a reader is told the end only when all
\* of them have been read and the last write end is closed.
THEOREM Refinement == Spec => StreamSpec
  <1>1. IInv /\ IInv' /\ [Next]_vars => [Stream!Next]_(Stream!streamvars)
    BY StepRefines DEF IInv
  <1> QED
    BY <1>1, InitRefines, Invariance, PTL DEF Spec, StreamSpec, Stream!Spec
=============================================================================
