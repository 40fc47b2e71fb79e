------------------------------ MODULE BigFile ------------------------------
(***************************************************************************)
(* Files with single, double and triple indirection (fs.c of Project_3):   *)
(* the block bitmap, bmap, readi, writei and itrunc, as processes run them *)
(* on different files at a time.                                           *)
(*                                                                         *)
(* Offsets count words of sizeof(uint), so that a block holds NINDIRECT    *)
(* words, be it a table or data.  A written word carries its file and its  *)
(* offset.  A file is locked by ilock for the whole of a call; a step is   *)
(* what the code does between two releases of a buffer that others use,    *)
(* which are those of the bitmap.                                          *)
(***************************************************************************)
EXTENDS Naturals, Sequences, FiniteSets, FiniteSetsExt, Functions

CONSTANTS
    Procs,       \* the processes
    Inodes,      \* the numbers of the inodes that are files
    NDIRECT,     \* direct entries of addrs (6 in fs.h)
    NINDIRECT,   \* words of a block (128 in fs.h)
    NBLOCKS,     \* data blocks of the disk, from 1; block 0 is the boot block
    MaxSize,     \* bound: the end of the longest write tried, in words, of a file
    MaxWrite,    \* bound: the words of one call of writei or readi
    MaxBack,     \* bound: how far before the end of the file a call starts
    MaxRemovals, \* bound: the files removed
    MaxRegrown   \* bound: as MaxSize, of every file once one was removed

ASSUME BigFileAssumption ==
    /\ IsFiniteSet(Procs) /\ Inodes \subseteq Nat \ {0}
    /\ NDIRECT \in Nat \ {0} /\ NINDIRECT \in Nat \ {0, 1}
    /\ NBLOCKS \in Nat \ {0}
    /\ MaxSize \in [Inodes -> Nat]
    /\ MaxWrite \in Nat \ {0} /\ MaxBack \in Nat /\ MaxRemovals \in Nat /\ MaxRegrown \in Nat

VARIABLES
    disk,      \* the contents of the blocks, through the buffer cache
    used,      \* the blocks whose bit of the bitmap is set
    dinode,    \* the inodes in their blocks: size and addrs
    ino,       \* the inodes in the inode cache
    valid,     \* ip->valid
    lock,      \* who holds ip->lock
    pc,        \* where each process is
    job,       \* its call: the file, off and the words left
    walk,      \* bmap: the word that holds the next address, and what is below it
    fresh,     \* the block balloc returned and bmap did not store yet
    stack,     \* the frames of remove_children
    panicked,  \* what the kernel panicked of, or "no"
    removals,  \* the files removed so far (bounded)
    lost       \* ghost: the blocks itrunc does not give back

cachevars == <<dinode, ino, valid, lock>>
bmapvars == <<walk, fresh>>
vars == <<disk, used, cachevars, pc, job, bmapvars, stack, panicked, removals, lost>>

Nobody == "none"
BSIZE == NINDIRECT
Words == 0 .. NINDIRECT - 1
Blocks == 0 .. NBLOCKS
Zeroed == [w \in Words |-> 0]

\* The data blocks below a table of a level, and the first block of the file
\* that each of the three trees maps.
Span(l) == NINDIRECT ^ l
Base(l) == NDIRECT + (IF l > 1 THEN Span(1) ELSE 0) + (IF l > 2 THEN Span(2) ELSE 0)
MAXFILE == Base(3) + Span(3)

Entries == 0 .. NDIRECT + 2
Root(l) == NDIRECT + l - 1
EmptyInode == [size |-> 0, addrs |-> [k \in Entries |-> 0]]

\* The word that a write puts at an offset of a file.
Tag(i, off) == 1000 * i + off + 1

NoJob == [i |-> 0, off |-> 0, n |-> 0]
NoWalk == [b |-> 0, w |-> 0, lev |-> 0, rest |-> 0]

Goto(p, l) == pc' = [pc EXCEPT ![p] = l]
Running == panicked = "no"

-----------------------------------------------------------------------------
Init ==
    /\ disk = [b \in Blocks |-> Zeroed]
    /\ used = {}
    /\ dinode = [i \in Inodes |-> EmptyInode]
    /\ ino = dinode
    /\ valid = [i \in Inodes |-> FALSE]
    /\ lock = [i \in Inodes |-> Nobody]
    /\ pc = [p \in Procs |-> "idle"]
    /\ job = [p \in Procs |-> NoJob]
    /\ walk = [p \in Procs |-> NoWalk]
    /\ fresh = [p \in Procs |-> 0]
    /\ stack = [p \in Procs |-> <<>>]
    /\ panicked = "no" /\ removals = 0 /\ lost = {}

-----------------------------------------------------------------------------
(* ilock, and the recycling of a cache entry *)

\* ilock: take the lock and, when the entry is not valid, read the inode.
Loaded(i) == IF valid[i] THEN ino[i] ELSE dinode[i]
ILock(p, i) ==
    /\ lock[i] = Nobody
    /\ lock' = [lock EXCEPT ![i] = p]
    /\ ino' = [ino EXCEPT ![i] = Loaded(i)]
    /\ valid' = [valid EXCEPT ![i] = TRUE]
    /\ UNCHANGED dinode

\* The last reference is dropped and the entry recycled for another inode.
Recycle(i) ==
    /\ Running /\ lock[i] = Nobody /\ valid[i]
    /\ valid' = [valid EXCEPT ![i] = FALSE]
    /\ ino' = [ino EXCEPT ![i] = EmptyInode]
    /\ UNCHANGED <<disk, used, dinode, lock, pc, job, bmapvars, stack, panicked,
                   removals, lost>>

-----------------------------------------------------------------------------
(* bmap *)

\* The entry of addrs that bmap begins with for block bn of the file, the tables
\* below it, and the number of the block among those they map.
Start(bn) ==
    IF bn < NDIRECT THEN [b |-> 0, w |-> bn, lev |-> 0, rest |-> 0]
    ELSE LET l == CHOOSE l \in 1 .. 3 : Base(l) <= bn /\ bn < Base(l) + Span(l)
         IN  [b |-> 0, w |-> Root(l), lev |-> l, rest |-> bn - Base(l)]

\* Mutant of Below: the quotient by the span of the table itself.
BelowWide(addr, lev, rest) ==
    [b |-> addr, w |-> rest \div Span(lev), lev |-> lev - 1, rest |-> rest % Span(lev - 1)]

\* The entry of the table at addr, lev tables deep, for the rest of the number.
Below(addr, lev, rest) ==
    [b |-> addr, w |-> rest \div Span(lev - 1), lev |-> lev - 1, rest |-> rest % Span(lev - 1)]

\* The address the walk stands before: an entry of the inode or of a table.
Entry(i, k) == IF k.b = 0 THEN ino[i].addrs[k.w] ELSE disk[k.b][k.w]

\* bmap finds an address: it goes on to the table, or it is done.
BmapFound(p) ==
    LET k == walk[p]
        addr == Entry(job[p].i, k)
    IN  /\ Running /\ pc[p] \in {"read", "write"}
        /\ addr # 0 /\ k.lev > 0
        /\ walk' = [walk EXCEPT ![p] = Below(addr, k.lev, k.rest)]
        /\ UNCHANGED <<disk, used, cachevars, pc, job, fresh, stack, panicked,
                       removals, lost>>

\* Mutant of Free: the blocks before the data blocks are not marked.
FreeFromBoot == {b \in Blocks : b \notin used}

Free == {b \in 1 .. NBLOCKS : b \notin used}

\* bmap finds none and calls balloc: the first free bit of the bitmap, set while
\* the bitmap's buffer is locked.
Balloc(p) ==
    /\ Running /\ pc[p] \in {"read", "write"}
    /\ Entry(job[p].i, walk[p]) = 0 /\ fresh[p] = 0
    /\ \/ /\ Free = {}
          /\ panicked' = "balloc: out of blocks"
          /\ UNCHANGED <<used, fresh>>
       \/ /\ Free # {}
          /\ used' = used \union {Min(Free)}
          /\ fresh' = [fresh EXCEPT ![p] = Min(Free)]
          /\ UNCHANGED panicked
    /\ UNCHANGED <<disk, cachevars, pc, job, walk, stack, removals, lost>>

Bzero(d, b) == [d EXCEPT ![b] = Zeroed]

\* The rest of balloc, and bmap stores the address in the inode or the table.
BmapStore(p) ==
    LET i == job[p].i
        k == walk[p]
        zeroed == Bzero(disk, fresh[p])
    IN  /\ Running /\ fresh[p] # 0
        /\ \/ /\ k.b = 0
              /\ ino' = [ino EXCEPT ![i].addrs[k.w] = fresh[p]]
              /\ disk' = zeroed
           \/ /\ k.b # 0
              /\ disk' = [zeroed EXCEPT ![k.b][k.w] = fresh[p]]
              /\ UNCHANGED ino
        /\ fresh' = [fresh EXCEPT ![p] = 0]
        /\ UNCHANGED <<used, dinode, valid, lock, pc, job, walk, stack, panicked,
                       removals, lost>>

-----------------------------------------------------------------------------
(* readi and writei *)

\* f->off grows with the bytes read or written: it is never beyond the size.
Offsets(i) == {off \in 0 .. Loaded(i).size : off + MaxBack >= Loaded(i).size}

\* Mutant of Clip: readi does not stop at the end of the file.
NoClip(n, left) == n

Clip(n, left) == Min({n, left})

\* A call that has nothing to do or is refused changes nothing, and is left out.
Read(p, i, off, n) ==
    LET size == Loaded(i).size
    IN  /\ Running /\ pc[p] = "idle"
        /\ ILock(p, i)
        /\ off < size
        /\ job' = [job EXCEPT ![p] = [i |-> i, off |-> off, n |-> Clip(n, size - off)]]
        /\ walk' = [walk EXCEPT ![p] = Start(off \div BSIZE)]
        /\ Goto(p, "read")
        /\ UNCHANGED <<disk, used, fresh, stack, panicked, removals, lost>>

TooLong(off, n) == off + n > MAXFILE * BSIZE

Write(p, i, off, n) ==
    /\ Running /\ pc[p] = "idle"
    /\ off + n <= IF removals = 0 THEN MaxSize[i] ELSE Min({MaxSize[i], MaxRegrown})
    /\ ILock(p, i)
    /\ ~TooLong(off, n)
    /\ job' = [job EXCEPT ![p] = [i |-> i, off |-> off, n |-> n]]
    /\ walk' = [walk EXCEPT ![p] = Start(off \div BSIZE)]
    /\ Goto(p, "write")
    /\ UNCHANGED <<disk, used, fresh, stack, panicked, removals, lost>>

\* Mutant of IUpdate: writei forgets it.
NoIUpdate(i, ip) == UNCHANGED dinode

IUpdate(i, ip) == dinode' = [dinode EXCEPT ![i] = ip]

\* The block is mapped: one turn of the loop of readi or writei copies the words
\* that lie in it; after the last one writei updates the inode when it grew, and
\* the caller unlocks it.
Copy(p) ==
    LET j == job[p]
        addr == Entry(j.i, walk[p])
        at == j.off % BSIZE
        m == Min({j.n, BSIZE - at})
        off == j.off + m
        grown == [ino[j.i] EXCEPT !.size = off]
    IN  /\ Running /\ pc[p] \in {"read", "write"}
        /\ addr # 0 /\ walk[p].lev = 0
        /\ \/ pc[p] = "read" /\ UNCHANGED disk
           \/ /\ pc[p] = "write"
              /\ disk' = [disk EXCEPT ![addr] = [w \in Words |->
                            IF at <= w /\ w < at + m THEN Tag(j.i, j.off - at + w) ELSE @[w]]]
        /\ \/ /\ j.n > m
              /\ job' = [job EXCEPT ![p] = [i |-> j.i, off |-> off, n |-> j.n - m]]
              /\ walk' = [walk EXCEPT ![p] = Start(off \div BSIZE)]
              /\ UNCHANGED <<cachevars, pc>>
           \/ /\ j.n = m
              /\ job' = [job EXCEPT ![p] = NoJob]
              /\ walk' = [walk EXCEPT ![p] = NoWalk]
              /\ lock' = [lock EXCEPT ![j.i] = Nobody]
              /\ Goto(p, "idle")
              /\ UNCHANGED valid
              /\ \/ /\ pc[p] = "write" /\ off > ino[j.i].size
                    /\ ino' = [ino EXCEPT ![j.i] = grown]
                    /\ IUpdate(j.i, grown)
                 \/ /\ pc[p] = "read" \/ off <= ino[j.i].size
                    /\ UNCHANGED <<ino, dinode>>
        /\ UNCHANGED <<used, fresh, stack, panicked, removals, lost>>

-----------------------------------------------------------------------------
(* iput of a file without links: itrunc and remove_children *)

Kids(B) == {disk[b][w] : b \in B, w \in Words} \ {0}

\* The tables and all the blocks below an address, l tables deep.
TablesUnder(b, l) ==
    IF b = 0 \/ l = 0 THEN {}
    ELSE {b} \union (IF l > 1 THEN Kids({b}) ELSE {})
             \union (IF l > 2 THEN Kids(Kids({b})) ELSE {})
Under(b, l) == ({b} \ {0}) \union Kids(TablesUnder(b, l))

\* iput finds no link and no other reference: the file is truncated.
Remove(p, i) ==
    /\ Running /\ pc[p] = "idle"
    /\ removals < MaxRemovals
    /\ ILock(p, i)
    /\ removals' = removals + 1
    /\ job' = [job EXCEPT ![p] = [NoJob EXCEPT !.i = i]]
    /\ Goto(p, "direct")
    /\ lost' = lost \union ({Loaded(i).addrs[Root(2)]} \ {0})
                    \union Under(Loaded(i).addrs[Root(3)], 3)
    /\ UNCHANGED <<disk, used, bmapvars, stack, panicked>>

\* bfree: clear the bit, which must be set.
Bfree(b) ==
    \/ b \in used /\ used' = used \ {b} /\ UNCHANGED panicked
    \/ b \notin used /\ panicked' = "freeing free block" /\ UNCHANGED used

FreeDirect(p) ==
    LET i == job[p].i
        left == {k \in 0 .. NDIRECT - 1 : ino[i].addrs[k] # 0}
    IN  /\ Running /\ pc[p] = "direct"
        /\ \/ /\ left # {}
              /\ Bfree(ino[i].addrs[Min(left)])
              /\ ino' = [ino EXCEPT ![i].addrs[Min(left)] = 0]
              /\ UNCHANGED pc
           \/ /\ left = {}
              /\ Goto(p, "tree1")
              /\ UNCHANGED <<used, panicked, ino>>
        /\ UNCHANGED <<disk, dinode, valid, lock, job, bmapvars, stack, removals, lost>>

Frame(b, lev) == [b |-> b, lev |-> lev, w |-> 0, back |-> FALSE]

\* The table itrunc walks for tree l; for the triple one it passes the entry of
\* the double one, which it has set to 0: block 0, whose words are 0.
TableOf(ip, l) == Frame(ip.addrs[IF l = 3 THEN Root(2) ELSE Root(l)], l)

Tree == [t \in {"tree1", "tree2", "tree3"} |-> CASE t = "tree1" -> 1 [] t = "tree2" -> 2
                                                  [] t = "tree3" -> 3]
After == [t \in {"tree1", "tree2", "tree3"} |-> CASE t = "tree1" -> "tree2"
                                                   [] t = "tree2" -> "tree3"
                                                   [] t = "tree3" -> "iupdate"]

EnterTree(p) ==
    LET i == job[p].i
    IN  /\ Running /\ pc[p] \in DOMAIN Tree /\ stack[p] = <<>>
        /\ \/ /\ ino[i].addrs[Root(Tree[pc[p]])] = 0
              /\ Goto(p, After[pc[p]])
              /\ UNCHANGED stack
           \/ /\ ino[i].addrs[Root(Tree[pc[p]])] # 0
              /\ stack' = [stack EXCEPT ![p] = <<TableOf(ino[i], Tree[pc[p]])>>]
              /\ UNCHANGED pc
        /\ UNCHANGED <<disk, used, cachevars, job, bmapvars, panicked, removals, lost>>

\* The loop over a table skips the words that are 0.
NextChild(f) ==
    LET rest == {w \in Words : w >= f.w /\ disk[f.b][w] # 0}
    IN  IF rest = {} THEN NINDIRECT ELSE Min(rest)

\* Mutants of Descends: the tables below the first are freed without a look, and
\* the data blocks are taken for tables.
DescendsOnce(f) == f.lev > 2 /\ ~f.back
DescendsIntoData(f) == f.lev >= 1 /\ ~f.back

Descends(f) == f.lev > 1 /\ ~f.back

Top(p) == stack[p][Len(stack[p])]
Pop(p) == SubSeq(stack[p], 1, Len(stack[p]) - 1)

\* remove_children calls itself for a child that is a table.
Recurse(p) ==
    LET f == Top(p)
        w == NextChild(f)
    IN  /\ Running /\ stack[p] # <<>>
        /\ w < NINDIRECT /\ Descends(f)
        /\ stack' = [stack EXCEPT ![p] =
                        Append(Append(Pop(p), [f EXCEPT !.w = w, !.back = TRUE]),
                               Frame(disk[f.b][w], f.lev - 1))]
        /\ UNCHANGED <<disk, used, cachevars, pc, job, bmapvars, panicked, removals, lost>>

\* It frees a child, after what is below it.
FreeChild(p) ==
    LET f == Top(p)
        w == NextChild(f)
    IN  /\ Running /\ stack[p] # <<>>
        /\ w < NINDIRECT /\ ~Descends(f)
        /\ Bfree(disk[f.b][w])
        /\ stack' = [stack EXCEPT ![p] = Append(Pop(p), [f EXCEPT !.w = w + 1, !.back = FALSE])]
        /\ UNCHANGED <<disk, cachevars, pc, job, bmapvars, removals, lost>>

Return(p) ==
    /\ Running /\ Len(stack[p]) > 1 /\ NextChild(Top(p)) = NINDIRECT
    /\ stack' = [stack EXCEPT ![p] = Pop(p)]
    /\ UNCHANGED <<disk, used, cachevars, pc, job, bmapvars, panicked, removals, lost>>

\* Mutant of Cleared: itrunc forgets addrs[NDIRECT] = 0.
ClearedButSingle(ip, k) == IF k = Root(1) THEN ip ELSE [ip EXCEPT !.addrs[k] = 0]

Cleared(ip, k) == [ip EXCEPT !.addrs[k] = 0]

\* The root of a tree is walked: only the single one's is freed.
LeaveTree(p) ==
    LET i == job[p].i
        root == Root(Tree[pc[p]])
    IN  /\ Running /\ Len(stack[p]) = 1 /\ NextChild(Top(p)) = NINDIRECT
        /\ \/ pc[p] = "tree1" /\ Bfree(ino[i].addrs[root])
           \/ pc[p] # "tree1" /\ UNCHANGED <<used, panicked>>
        /\ ino' = [ino EXCEPT ![i] = Cleared(@, root)]
        /\ stack' = [stack EXCEPT ![p] = <<>>]
        /\ Goto(p, After[pc[p]])
        /\ UNCHANGED <<disk, dinode, valid, lock, job, bmapvars, removals, lost>>

\* size = 0 and iupdate; iput frees the inode, drops the entry and unlocks.
RemoveEnd(p) ==
    LET i == job[p].i
    IN  /\ Running /\ pc[p] = "iupdate"
        /\ dinode' = [dinode EXCEPT ![i] = [size |-> 0, addrs |-> ino[i].addrs]]
        /\ ino' = [ino EXCEPT ![i] = EmptyInode]
        /\ valid' = [valid EXCEPT ![i] = FALSE]
        /\ lock' = [lock EXCEPT ![i] = Nobody]
        /\ job' = [job EXCEPT ![p] = NoJob]
        /\ Goto(p, "idle")
        /\ UNCHANGED <<disk, used, bmapvars, stack, panicked, removals, lost>>

-----------------------------------------------------------------------------
Next ==
    \/ \E p \in Procs :
          \/ \E i \in Inodes, n \in 1 .. MaxWrite : \E off \in Offsets(i) :
                Read(p, i, off, n) \/ Write(p, i, off, n)
          \/ \E i \in Inodes : Remove(p, i)
          \/ BmapFound(p) \/ Balloc(p) \/ BmapStore(p) \/ Copy(p)
          \/ FreeDirect(p) \/ EnterTree(p) \/ Recurse(p) \/ FreeChild(p) \/ Return(p)
          \/ LeaveTree(p) \/ RemoveEnd(p)
    \/ \E i \in Inodes : Recycle(i)

Spec == Init /\ [][Next]_vars

-----------------------------------------------------------------------------
(* Properties *)

PCs == {"idle", "read", "write", "direct", "tree1", "tree2", "tree3", "iupdate"}
InodeRecs == [size : Nat, addrs : [Entries -> Blocks]]
Frames == [b : Blocks, lev : 1 .. 3, w : 0 .. NINDIRECT, back : BOOLEAN]

TypeOK ==
    /\ disk \in [Blocks -> [Words -> Nat]]
    /\ used \subseteq 1 .. NBLOCKS
    /\ dinode \in [Inodes -> InodeRecs] /\ ino \in [Inodes -> InodeRecs]
    /\ valid \in [Inodes -> BOOLEAN]
    /\ lock \in [Inodes -> Procs \union {Nobody}]
    /\ pc \in [Procs -> PCs]
    /\ job \in [Procs -> [i : Inodes \union {0}, off : Nat, n : Nat]]
    /\ walk \in [Procs -> [b : Blocks, w : Nat, lev : 0 .. 3, rest : Nat]]
    /\ fresh \in [Procs -> Blocks]
    /\ stack \in [Procs -> Seq(Frames)]
    /\ panicked \in {"no", "balloc: out of blocks", "freeing free block"}
    /\ removals \in 0 .. MaxRemovals
    /\ lost \subseteq 1 .. NBLOCKS

\* A file that iput is truncating has no contents any more.
Dying(i) == \E p \in Procs : job[p].i = i /\ pc[p] \notin {"read", "write"}
Files == {i \in Inodes : ~Dying(i)}

\* The words that hold a block's address, in the inode and in the tables of a
\* file, and the blocks they name.
TablesOf(i) == LET ad == Loaded(i).addrs IN UNION {TablesUnder(ad[Root(l)], l) : l \in 1 .. 3}
HeldBy(i) ==
    LET ad == Loaded(i).addrs
    IN  {<<i, 0, k>> : k \in {k \in Entries : ad[k] # 0}} \union
        {x \in {i} \X TablesOf(i) \X Words : disk[x[2]][x[3]] # 0}
OwnedBy(i) == (Range(Loaded(i).addrs) \ {0}) \union Kids(TablesOf(i))
Held == UNION {HeldBy(i) : i \in Files}
Owned == UNION {OwnedBy(i) : i \in Files}
InFlight == {fresh[p] : p \in Procs} \ {0}

\* No block belongs to two files, nor twice to one: the allocation of a block
\* and its entry in a table are different steps, and others allocate and free
\* blocks in between (balloc, bmap, remove_children).
OneOwner == Cardinality(Held) = Cardinality(Owned) /\ Owned \intersect InFlight = {}

\* Every block a file can reach is marked in the bitmap, so that balloc gives it
\* to nobody else; and the bitmap marks nothing beyond that and what itrunc
\* leaves behind: the root of the double tree and the whole of the triple one.
BitmapExact ==
    (\A i \in Inodes : ~Dying(i)) => used = Owned \union InFlight \union lost

\* What the words of a file are, by the digits of the block's number.
Digit(r, l) == (r \div Span(l - 1)) % NINDIRECT
Address(ad, bn) ==
    CASE bn < NDIRECT -> ad[bn]
      [] bn \in Base(1) .. Base(2) - 1 -> disk[ad[Root(1)]][bn - Base(1)]
      [] bn \in Base(2) .. Base(3) - 1 ->
            LET r == bn - Base(2) IN disk[disk[ad[Root(2)]][Digit(r, 2)]][Digit(r, 1)]
      [] bn \in Base(3) .. MAXFILE - 1 ->
            LET r == bn - Base(3)
            IN  disk[disk[disk[ad[Root(3)]][Digit(r, 3)]][Digit(r, 2)]][Digit(r, 1)]

\* A file's contents are what was written to it, at every offset up to its size,
\* whoever wrote, grew or removed other files meanwhile, and also after its
\* inode left the cache and was read again.
ReadsBack ==
    \A i \in Files :
        LET ip == Loaded(i)
        IN  \A bn \in {off \div BSIZE : off \in 0 .. ip.size - 1} :
              LET data == disk[Address(ip.addrs, bn)]
              IN  \A w \in Words : bn * BSIZE + w < ip.size => data[w] = Tag(i, bn * BSIZE + w)

\* The inode cache is write-through: whatever bmap and writei changed is in the
\* inode's block when the lock is released, so that the entry may be recycled.
WriteThrough == \A i \in Inodes : lock[i] = Nobody /\ valid[i] => ino[i] = dinode[i]

\* Nothing that was written to a file is lost, neither to another file's blocks nor
\* with an entry of the inode cache (writei, bmap, iupdate).
ContentsKept == ReadsBack /\ WriteThrough

\* readi calls bmap, which allocates what is missing, outside a transaction: that
\* must never happen, for a file has no holes.
ReadNeverAllocates == \A p \in Procs : pc[p] = "read" => Entry(job[p].i, walk[p]) # 0

\* itrunc frees a block at most once.
NoDoubleFree == panicked # "freeing free block"

\* Blocks are accounted for in every interleaving of balloc, bmap and itrunc: each
\* has one owner, the bitmap marks exactly the owned ones (and the lost ones), and
\* none is freed twice.
BlocksAccounted == TypeOK /\ OneOwner /\ BitmapExact /\ NoDoubleFree
=============================================================================
