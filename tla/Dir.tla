-------------------------------- MODULE Dir --------------------------------
(***************************************************************************)
(* Names, links and the inode cache of Project_3 (sysfile.c and fs.c):     *)
(* open, close, link, unlink, mkdir and symlink, with the walk along a     *)
(* path, the sleeping locks of the inodes, and iput, which frees an inode  *)
(* that has neither links nor references.                                  *)
(*                                                                         *)
(* A step is what a process does between two acquisitions of an inode's    *)
(* lock or of icache.lock.  What a directory holds is a map of names; the  *)
(* contents of the files are the subject of BigFile.                       *)
(***************************************************************************)
EXTENDS Naturals, Sequences, FiniteSets, FiniteSetsExt

CONSTANTS
    Procs,      \* the processes
    NINODES,    \* sb.ninodes; the cache has a slot for each, so iget finds one
    Names,      \* names of directory entries
    Paths,      \* the paths that are used, sequences of names from the root
    Calls,      \* the system calls that are made
    MaxCalls    \* bound: the calls on paths in all

ASSUME DirAssumption ==
    /\ IsFiniteSet(Procs) /\ "none" \notin Procs /\ NINODES \in Nat \ {0, 1}
    /\ IsFiniteSet(Names)
    /\ Paths \subseteq Seq(Names) \ {<<>>}
    /\ Calls \subseteq {"create", "open", "link", "unlink", "mkdir", "symlink"}
    /\ MaxCalls \in Nat

VARIABLES
    dinode,    \* the inodes on the disk: type and nlink
    ents,      \* what each directory holds: the inode number of each name, or 0
    icache,    \* the slots of the inode cache
    lock,      \* who holds the lock of a slot
    fd,        \* the slot of each process's open file, or 0
    pc,        \* where each process is
    loc,       \* its call: arguments, where the walk is, dp and ip
    leaked,    \* ghost: the references to a slot that nobody will put
    overlap,   \* ghost: the unlinked inodes that two processes were putting at a time
    panicked,
    calls      \* the calls on paths so far (bounded)

vars == <<dinode, ents, icache, lock, fd, pc, loc, leaked, panicked,
          overlap, calls>>

Inums == 1 .. NINODES
Slots == 1 .. NINODES
ROOTINO == 1
ROOT == 1           \* the slot of the root, which working directories keep
Nobody == "none"
Empty == [n \in Names |-> 0]
ORIGIN == 0
SYMBOLIC == 1

NoCall == [op |-> "none", old |-> <<>>, new |-> <<>>, rest |-> <<>>, par |-> FALSE,
           phase |-> 0, at |-> 0, dp |-> 0, ip |-> 0, put |-> 0, ret |-> "idle"]

FreeSlot == [inum |-> 0, ref |-> 0, valid |-> FALSE, type |-> "free", nlink |-> 0,
             file_type |-> ORIGIN, path |-> <<>>]

At(p, l) == ~panicked /\ pc[p] = l
Inum(s) == icache[s].inum
Name(p) == Head(loc[p].rest)      \* the last element, once a walk stopped early

-----------------------------------------------------------------------------
(* the inode cache *)

\* iget: the slot that has the inode, else the first one without references.
SlotOf(c, i) ==
    LET has == {s \in Slots : c[s].ref > 0 /\ c[s].inum = i}
    IN  IF has # {} THEN Min(has) ELSE Min({s \in Slots : c[s].ref = 0})

\* A recycled slot keeps its file_type and its path.
IGet(c, i) ==
    LET s == SlotOf(c, i)
    IN  IF c[s].ref > 0 THEN [c EXCEPT ![s].ref = @ + 1]
        ELSE [c EXCEPT ![s] = [@ EXCEPT !.inum = i, !.ref = 1, !.valid = FALSE]]

\* The slot after ilock has read the inode.
Load(c, s) ==
    IF c[s].valid THEN c
    ELSE [c EXCEPT ![s] = [@ EXCEPT !.valid = TRUE, !.type = dinode[c[s].inum].type,
                                    !.nlink = dinode[c[s].inum].nlink]]

\* ip->nlink changes, and iupdate writes it.
SetLinks(c, d, s, n) ==
    /\ icache' = [c EXCEPT ![s].nlink = n]
    /\ dinode' = [d EXCEPT ![c[s].inum].nlink = n]

\* The reference in a variable of the call goes to iput, which returns to ret; a
\* call whose last act that is forgets the others.
Put(r, f, ret) ==
    IF ret = "idle" THEN [NoCall EXCEPT !.put = r[f]]
    ELSE [r EXCEPT ![f] = 0, !.put = r[f], !.ret = ret]

-----------------------------------------------------------------------------
Init ==
    /\ dinode = [i \in Inums |-> [type |-> IF i = ROOTINO THEN "dir" ELSE "free",
                                  nlink |-> IF i = ROOTINO THEN 1 ELSE 0]]
    /\ ents = [i \in Inums |-> Empty]
    /\ icache = [s \in Slots |->
                   IF s = ROOT THEN [FreeSlot EXCEPT !.inum = ROOTINO, !.ref = 1]
                   ELSE FreeSlot]
    /\ lock = [s \in Slots |-> Nobody]
    /\ fd = [p \in Procs |-> 0]
    /\ pc = [p \in Procs |-> "idle"]
    /\ loc = [p \in Procs |-> NoCall]
    /\ leaked = [s \in Slots |-> 0]
    /\ overlap = {} /\ panicked = FALSE /\ calls = 0

Step(p, l, r) == pc' = [pc EXCEPT ![p] = l] /\ loc' = [loc EXCEPT ![p] = r]
\* A call that is over forgets its variables.
Done(p) == Step(p, "idle", NoCall)

\* A walk along path starts at the root, with a reference to it.
Walk(r, path, par, phase) ==
    [r EXCEPT !.rest = path, !.par = par, !.phase = phase, !.at = ROOT]

Call(p, op, old, new) ==
    /\ At(p, "idle") /\ op \in Calls
    /\ op \in {"create", "open"} => fd[p] = 0
    /\ (op \in {"link", "symlink"}) = (new # <<>>) /\ new # old    \* bound: two paths
    /\ calls < MaxCalls /\ calls' = calls + 1
    /\ icache' = IGet(icache, ROOTINO)
    /\ Step(p, "walk", Walk([NoCall EXCEPT !.op = op, !.new = new,
                                           !.old = IF op \in {"open", "symlink"} THEN old ELSE <<>>],
                            old, op \in {"create", "mkdir", "unlink"}, 1))
    /\ UNCHANGED <<dinode, ents, lock, fd, leaked, panicked, overlap>>

-----------------------------------------------------------------------------
(* namex *)

\* Where a call goes on with what the walk found, and when it found nothing.
Found(r) ==
    CASE r.op \in {"create", "mkdir"} -> "create"
      [] r.op = "unlink" -> "unlink"
      [] r.op = "open" -> IF r.phase = 1 THEN "opencheck" ELSE "openlock"
      [] r.op = "link" -> IF r.phase = 1 THEN "linkinc" ELSE "linkentry"
      [] r.op = "symlink" -> IF r.phase = 1 THEN "symold" ELSE "create"
Missed(r) ==
    CASE r.op = "link" /\ r.phase = 2 -> "linkundo"
      [] r.op = "open" /\ r.phase = 2 -> "openself"
      [] OTHER -> "idle"

Further(r, s) ==
    IF Len(r.rest) = 1
    THEN [Put(r, "at", Found(r)) EXCEPT !.ip = s, !.rest = <<>>]
    ELSE [Put(r, "at", "walk") EXCEPT !.at = s, !.rest = Tail(r.rest)]

\* Mutant of NextGet: dirlookup returns without a reference.
NextNoGet(c, i) == [IGet(c, i) EXCEPT ![SlotOf(c, i)].ref = c[SlotOf(c, i)].ref]

NextGet(c, i) == IGet(c, i)

\* ilock, one element of the path, iunlock; the put of the directory follows, and
\* at the end of the path the inode is returned, unlocked.
WalkStep(p) ==
    LET r == loc[p]
        c == Load(icache, r.at)
        next == ents[Inum(r.at)][Name(p)]
    IN  /\ At(p, "walk") /\ lock[r.at] = Nobody
        /\ \/ /\ c[r.at].type # "dir"
              /\ Step(p, "iput", Put(r, "at", Missed(r)))
              /\ icache' = c
           \/ /\ c[r.at].type = "dir" /\ r.par /\ Len(r.rest) = 1
              /\ Step(p, Found(r), [r EXCEPT !.dp = r.at, !.at = 0])
              /\ icache' = c
           \/ /\ c[r.at].type = "dir" /\ ~(r.par /\ Len(r.rest) = 1) /\ next = 0
              /\ Step(p, "iput", Put(r, "at", Missed(r)))
              /\ icache' = c
           \/ /\ c[r.at].type = "dir" /\ ~(r.par /\ Len(r.rest) = 1) /\ next # 0
              /\ icache' = NextGet(c, next)
              /\ Step(p, "iput", Further(r, SlotOf(c, next)))
        /\ UNCHANGED <<dinode, ents, lock, fd, leaked, panicked, overlap, calls>>

-----------------------------------------------------------------------------
(* iput *)

\* Mutants of Unused: iput does not look at the references; it takes its own for
\* gone already.
UnusedUnlinked(s) == icache[s].valid /\ icache[s].nlink = 0
UnusedAtZero(s) == UnusedUnlinked(s) /\ icache[s].ref = 0

Unused(s) == icache[s].valid /\ icache[s].nlink = 0 /\ icache[s].ref = 1

\* The lock is taken and ip->ref read; unless the inode is to be freed, the lock
\* is released again.
IPutCheck(p) ==
    LET s == loc[p].put
    IN  /\ At(p, "iput") /\ lock[s] = Nobody
        /\ \/ Unused(s) /\ lock' = [lock EXCEPT ![s] = p] /\ pc' = [pc EXCEPT ![p] = "trunc"]
           \/ ~Unused(s) /\ pc' = [pc EXCEPT ![p] = "unref"] /\ UNCHANGED lock
        /\ overlap' = IF icache[s].nlink = 0
                         /\ \E q \in Procs \ {p} : pc[q] = "unref" /\ loc[q].put = s
                      THEN overlap \union {Inum(s)} ELSE overlap
        /\ UNCHANGED <<dinode, ents, icache, fd, loc, leaked, panicked, calls>>

\* itrunc, type = 0 and iupdate: from here on ialloc may take the inode.
IPutFree(p) ==
    LET i == Inum(loc[p].put)
    IN  /\ At(p, "trunc")
        /\ dinode' = [dinode EXCEPT ![i] = [type |-> "free", nlink |-> 0]]
        /\ icache' = [icache EXCEPT ![loc[p].put].type = "free"]
        /\ ents' = [ents EXCEPT ![i] = Empty]
        /\ pc' = [pc EXCEPT ![p] = "freed"]
        /\ UNCHANGED <<lock, fd, loc, leaked, panicked, overlap, calls>>

IPutInvalid(p) ==
    LET s == loc[p].put
    IN  /\ At(p, "freed")
        /\ icache' = [icache EXCEPT ![s].valid = FALSE]
        /\ lock' = [lock EXCEPT ![s] = Nobody]
        /\ pc' = [pc EXCEPT ![p] = "unref"]
        /\ UNCHANGED <<dinode, ents, fd, loc, leaked, panicked, overlap, calls>>

\* A slot without references keeps nothing that is read again but its file_type
\* and its path.
Unref(c, s) ==
    [c EXCEPT ![s] = IF c[s].ref > 1 THEN [c[s] EXCEPT !.ref = @ - 1]
                     ELSE [FreeSlot EXCEPT !.file_type = c[s].file_type, !.path = c[s].path]]

IPutEnd(p) ==
    LET r == loc[p]
    IN  /\ At(p, "unref")
        /\ icache' = Unref(icache, r.put)
        /\ CASE r.ret = "idle" -> Done(p)
             [] r.ret = "putip" -> Step(p, "iput", Put(r, "ip", "idle"))
             [] OTHER -> Step(p, r.ret, [r EXCEPT !.put = 0, !.ret = "idle"])
        /\ UNCHANGED <<dinode, ents, lock, fd, leaked, panicked, overlap, calls>>

-----------------------------------------------------------------------------
(* create: the last part of open with O_CREATE, of mkdir and of symlink *)

\* Mutant of Release: iunlock is forgotten.
KeepLock(s) == UNCHANGED lock

Release(s) == lock' = [lock EXCEPT ![s] = Nobody]

TypeFor(op) == IF op = "mkdir" THEN "dir" ELSE "file"

\* ialloc: the first inode whose type on the disk is 0.
FreeInums == {i \in Inums : dinode[i].type = "free"}

\* The directory is locked; an entry with the name is taken as it is, else
\* ialloc marks an inode and iget refers to it, the directory still locked.
Create(p) ==
    LET r == loc[p]
        c == Load(icache, r.dp)
        i == ents[Inum(r.dp)][Name(p)]
        new == Min(FreeInums)
    IN  /\ At(p, "create") /\ lock[r.dp] = Nobody
        /\ \/ /\ i # 0
              /\ icache' = IGet(c, i)
              /\ Step(p, "iput", [Put(r, "dp", "createold") EXCEPT !.ip = SlotOf(c, i)])
              /\ UNCHANGED <<dinode, lock, overlap, panicked>>
           \/ /\ i = 0 /\ FreeInums # {}
              /\ dinode' = [dinode EXCEPT ![new] = [type |-> TypeFor(r.op), nlink |-> 0]]
              /\ icache' = IGet(c, new)
              /\ lock' = [lock EXCEPT ![r.dp] = p]
              /\ Step(p, "createinit", [r EXCEPT !.ip = SlotOf(c, new)])
              /\ overlap' = overlap \ {new}
              /\ UNCHANGED panicked
           \/ /\ i = 0 /\ FreeInums = {}
              /\ panicked' = TRUE       \* "ialloc: no inodes"
              /\ UNCHANGED <<dinode, icache, lock, pc, loc, overlap>>
        /\ UNCHANGED <<ents, fd, leaked, calls>>

\* Mutant of DotDot: mkdir does not count "..".
NoDotDot(op) == 0

DotDot(op) == IF op = "mkdir" THEN 1 ELSE 0

\* The new inode is locked, gets its link and, in a directory, the entry ".."
\* that links to dp; dirlink enters the name; dp is unlocked and goes to iput
\* while the new inode stays locked.
CreateInit(p) ==
    LET r == loc[p]
        c == Load(icache, r.ip)
        up == icache[r.dp].nlink + DotDot(r.op)
    IN  /\ At(p, "createinit") /\ lock[r.ip] = Nobody
        /\ icache' = [c EXCEPT ![r.ip].nlink = 1, ![r.ip].type = TypeFor(r.op),
                               ![r.dp].nlink = up]
        /\ dinode' = [dinode EXCEPT ![Inum(r.ip)] = [type |-> TypeFor(r.op), nlink |-> 1],
                                    ![Inum(r.dp)].nlink = IF r.op = "mkdir" THEN up ELSE @]
        /\ ents' = [ents EXCEPT ![Inum(r.dp)][Name(p)] = Inum(r.ip)]
        /\ lock' = [lock EXCEPT ![r.ip] = p, ![r.dp] = Nobody]
        /\ Step(p, "iput", Put(r, "dp", "created"))
        /\ UNCHANGED <<fd, leaked, panicked, overlap, calls>>

\* The entry was there: a file is good enough for open and symlink.
CreateOld(p) ==
    LET r == loc[p]
        c == Load(icache, r.ip)
    IN  /\ At(p, "createold") /\ lock[r.ip] = Nobody
        /\ icache' = c
        /\ \/ /\ r.op # "mkdir" /\ c[r.ip].type = "file"
              /\ lock' = [lock EXCEPT ![r.ip] = p]
              /\ Step(p, "created", r)
           \/ /\ r.op = "mkdir" \/ c[r.ip].type # "file"
              /\ Step(p, "iput", Put(r, "ip", "idle"))
              /\ UNCHANGED lock
        /\ UNCHANGED <<dinode, ents, fd, leaked, panicked, overlap, calls>>

\* open keeps the reference in its file; mkdir puts it; symlink turns the inode,
\* also one that was a file before, into a link, in memory only, and keeps the
\* reference for ever.
Created(p) ==
    LET r == loc[p]
    IN  /\ At(p, "created")
        /\ Release(r.ip)
        /\ \/ /\ r.op = "create"
              /\ fd' = [fd EXCEPT ![p] = r.ip]
              /\ Done(p)
              /\ UNCHANGED <<icache, leaked>>
           \/ /\ r.op = "mkdir"
              /\ Step(p, "iput", Put(r, "ip", "idle"))
              /\ UNCHANGED <<icache, leaked, fd>>
           \/ /\ r.op = "symlink"
              /\ icache' = [icache EXCEPT ![r.ip].path = r.old, ![r.ip].file_type = SYMBOLIC]
              /\ leaked' = [leaked EXCEPT ![r.ip] = @ + 1]
              /\ Done(p)
              /\ UNCHANGED fd
        /\ UNCHANGED <<dinode, ents, panicked, overlap, calls>>

-----------------------------------------------------------------------------
(* open without O_CREATE, and close *)

\* sys_open looks at file_type and path before it locks the inode; the reference
\* to a link is not put.  Bound: the path is not empty.
OpenCheck(p) ==
    LET r == loc[p]
        ip == icache[r.ip]
    IN  /\ At(p, "opencheck")
        /\ \/ /\ ip.file_type = SYMBOLIC /\ ip.path # <<>>
              /\ icache' = IGet(icache, ROOTINO)
              /\ leaked' = [leaked EXCEPT ![r.ip] = @ + 1]
              /\ Step(p, "walk", [Walk(r, ip.path, FALSE, 2) EXCEPT !.ip = 0])
           \/ /\ ip.file_type # SYMBOLIC
              /\ Step(p, "openlock", r)
              /\ UNCHANGED <<icache, leaked>>
        /\ UNCHANGED <<dinode, ents, lock, fd, panicked, overlap, calls>>

\* What the link names is gone: the link itself is opened.
OpenSelf(p) ==
    /\ At(p, "openself")
    /\ icache' = IGet(icache, ROOTINO)
    /\ Step(p, "walk", Walk(loc[p], loc[p].old, FALSE, 3))
    /\ UNCHANGED <<dinode, ents, lock, fd, leaked, panicked, overlap, calls>>

\* Opened for reading, so that a directory may be.  Behind a link the inode that
\* is opened becomes symbolic, too.
OpenLock(p) ==
    LET r == loc[p]
        c == Load(icache, r.ip)
    IN  /\ At(p, "openlock") /\ lock[r.ip] = Nobody
        /\ icache' = [c EXCEPT ![r.ip].file_type = IF r.phase > 1 THEN SYMBOLIC ELSE @]
        /\ fd' = [fd EXCEPT ![p] = r.ip]
        /\ Done(p)
        /\ UNCHANGED <<dinode, ents, lock, leaked, panicked, overlap, calls>>

Close(p) ==
    /\ At(p, "idle") /\ fd[p] # 0
    /\ fd' = [fd EXCEPT ![p] = 0]
    /\ Step(p, "iput", [NoCall EXCEPT !.put = fd[p]])
    /\ UNCHANGED <<dinode, ents, icache, lock, leaked, panicked, overlap, calls>>

-----------------------------------------------------------------------------
(* link, and the first part of symlink *)

\* Mutant of OneMore: link forgets nlink++.
Same(n) == n

OneMore(n) == n + 1

\* The file gets its link before its second name is looked at.
LinkInc(p) ==
    LET r == loc[p]
        c == Load(icache, r.ip)
    IN  /\ At(p, "linkinc") /\ lock[r.ip] = Nobody
        /\ \/ /\ c[r.ip].type = "dir"
              /\ icache' = c
              /\ Step(p, "iput", Put(r, "ip", "idle"))
              /\ UNCHANGED dinode
           \/ /\ c[r.ip].type # "dir"
              /\ SetLinks(IGet(c, ROOTINO), dinode, r.ip, OneMore(c[r.ip].nlink))
              /\ Step(p, "walk", [Walk(r, r.new, TRUE, 2) EXCEPT !.new = <<>>])
        /\ UNCHANGED <<ents, lock, fd, leaked, panicked, overlap, calls>>

\* dirlink: an entry with the name is looked up and put; else it is written.
LinkEntry(p) ==
    LET r == loc[p]
        c == Load(icache, r.dp)
        i == ents[Inum(r.dp)][Name(p)]
    IN  /\ At(p, "linkentry") /\ lock[r.dp] = Nobody
        /\ \/ /\ i # 0
              /\ icache' = IGet(c, i)
              /\ lock' = [lock EXCEPT ![r.dp] = p]
              /\ Step(p, "iput", [r EXCEPT !.put = SlotOf(c, i), !.ret = "linkclash"])
              /\ UNCHANGED ents
           \/ /\ i = 0
              /\ icache' = c
              /\ ents' = [ents EXCEPT ![Inum(r.dp)][Name(p)] = Inum(r.ip)]
              /\ Step(p, "iput", Put(r, "dp", "putip"))
              /\ UNCHANGED lock
        /\ UNCHANGED <<dinode, fd, leaked, panicked, overlap, calls>>

LinkClash(p) ==
    /\ At(p, "linkclash")
    /\ Release(loc[p].dp)
    /\ Step(p, "iput", Put(loc[p], "dp", "linkundo"))
    /\ UNCHANGED <<dinode, ents, icache, fd, leaked, panicked, overlap, calls>>

LinkUndo(p) ==
    LET r == loc[p]
        c == Load(icache, r.ip)
    IN  /\ At(p, "linkundo") /\ lock[r.ip] = Nobody
        /\ SetLinks(c, dinode, r.ip, c[r.ip].nlink - 1)
        /\ Step(p, "iput", Put(r, "ip", "idle"))
        /\ UNCHANGED <<ents, lock, fd, leaked, panicked, overlap, calls>>

\* symlink writes the path into the file that it names, and forgets it.
SymOld(p) ==
    LET r == loc[p]
        c == Load(icache, r.ip)
    IN  /\ At(p, "symold") /\ lock[r.ip] = Nobody
        /\ \/ /\ c[r.ip].type = "dir"
              /\ icache' = c
              /\ Step(p, "iput", Put(r, "ip", "idle"))
              /\ UNCHANGED leaked
           \/ /\ c[r.ip].type # "dir"
              /\ icache' = IGet([c EXCEPT ![r.ip].path = r.old], ROOTINO)
              /\ leaked' = [leaked EXCEPT ![r.ip] = @ + 1]
              /\ Step(p, "walk", [Walk(r, r.new, TRUE, 2) EXCEPT !.ip = 0, !.new = <<>>])
        /\ UNCHANGED <<dinode, ents, lock, fd, panicked, overlap, calls>>

-----------------------------------------------------------------------------
(* unlink *)

\* The directory stays locked when the name is found.
Unlink(p) ==
    LET r == loc[p]
        c == Load(icache, r.dp)
        i == ents[Inum(r.dp)][Name(p)]
    IN  /\ At(p, "unlink") /\ lock[r.dp] = Nobody
        /\ \/ /\ i = 0
              /\ icache' = c
              /\ Step(p, "iput", Put(r, "dp", "idle"))
              /\ UNCHANGED lock
           \/ /\ i # 0
              /\ icache' = IGet(c, i)
              /\ lock' = [lock EXCEPT ![r.dp] = p]
              /\ Step(p, "unlinkip", [r EXCEPT !.ip = SlotOf(c, i)])
        /\ UNCHANGED <<dinode, ents, fd, leaked, panicked, overlap, calls>>

\* The inode is locked, too: the entry is erased, the directory unlocked and put
\* with the inode still locked.
UnlinkEntry(p) ==
    LET r == loc[p]
        c == Load(icache, r.ip)
        ip == c[r.ip]
        up == IF ip.type = "dir" THEN c[r.dp].nlink - 1 ELSE c[r.dp].nlink
    IN  /\ At(p, "unlinkip") /\ lock[r.ip] = Nobody
        /\ \/ /\ ip.nlink < 1
              /\ panicked' = TRUE       \* "unlink: nlink < 1"
              /\ UNCHANGED <<dinode, ents, icache, lock, pc, loc>>
           \/ /\ ip.nlink >= 1 /\ ip.type = "dir" /\ ents[Inum(r.ip)] # Empty
              /\ icache' = c
              /\ Step(p, "iput", Put(r, "ip", "unlinkbad"))
              /\ UNCHANGED <<dinode, ents, lock, panicked>>
           \/ /\ ip.nlink >= 1 /\ ~(ip.type = "dir" /\ ents[Inum(r.ip)] # Empty)
              /\ ents' = [ents EXCEPT ![Inum(r.dp)][Name(p)] = 0]
              /\ icache' = [c EXCEPT ![r.dp].nlink = up]
              /\ dinode' = IF ip.type = "dir" THEN [dinode EXCEPT ![Inum(r.dp)].nlink = up]
                           ELSE dinode
              /\ lock' = [lock EXCEPT ![r.dp] = Nobody, ![r.ip] = p]
              /\ Step(p, "iput", Put(r, "dp", "unlinkdec"))
              /\ UNCHANGED panicked
        /\ UNCHANGED <<fd, leaked, overlap, calls>>

UnlinkBad(p) ==
    /\ At(p, "unlinkbad")
    /\ Release(loc[p].dp)
    /\ Step(p, "iput", Put(loc[p], "dp", "idle"))
    /\ UNCHANGED <<dinode, ents, icache, fd, leaked, panicked, overlap, calls>>

UnlinkDec(p) ==
    LET r == loc[p]
    IN  /\ At(p, "unlinkdec")
        /\ SetLinks(icache, dinode, r.ip, icache[r.ip].nlink - 1)
        /\ Release(r.ip)
        /\ Step(p, "iput", Put(r, "ip", "idle"))
        /\ UNCHANGED <<ents, fd, leaked, panicked, overlap, calls>>

-----------------------------------------------------------------------------
Next ==
    \/ \E p \in Procs, op \in Calls, old \in Paths, new \in Paths \union {<<>>} : Call(p, op, old, new)
    \/ \E p \in Procs :
          \/ WalkStep(p)
          \/ IPutCheck(p) \/ IPutFree(p) \/ IPutInvalid(p) \/ IPutEnd(p)
          \/ Create(p) \/ CreateInit(p) \/ CreateOld(p) \/ Created(p)
          \/ OpenCheck(p) \/ OpenSelf(p) \/ OpenLock(p) \/ Close(p)
          \/ LinkInc(p) \/ LinkEntry(p) \/ LinkClash(p) \/ LinkUndo(p) \/ SymOld(p)
          \/ Unlink(p) \/ UnlinkEntry(p) \/ UnlinkBad(p) \/ UnlinkDec(p)

Spec == Init /\ [][Next]_vars

-----------------------------------------------------------------------------
(* Properties *)

PCs == {"idle", "walk", "iput", "trunc", "freed", "unref", "create", "createinit",
        "createold", "created", "opencheck", "openself", "openlock", "linkinc",
        "linkentry", "linkclash", "linkundo", "symold", "unlink", "unlinkip",
        "unlinkbad", "unlinkdec"}
Types == {"free", "file", "dir"}

CallRecs == [op : Calls \union {"none"}, old : Paths \union {<<>>}, new : Paths \union {<<>>},
             rest : Seq(Names), par : BOOLEAN, phase : 0 .. 3, at : Slots \union {0},
             dp : Slots \union {0}, ip : Slots \union {0}, put : Slots \union {0},
             ret : PCs \union {"putip"}]

TypeOK ==
    /\ dinode \in [Inums -> [type : Types, nlink : Nat]]
    /\ ents \in [Inums -> [Names -> Inums \union {0}]]
    /\ icache \in [Slots -> [inum : Inums \union {0}, ref : Nat, valid : BOOLEAN,
                             type : Types, nlink : Nat, file_type : {ORIGIN, SYMBOLIC},
                             path : Paths \union {<<>>}]]
    /\ lock \in [Slots -> Procs \union {Nobody}]
    /\ fd \in [Procs -> Slots \union {0}]
    /\ pc \in [Procs -> PCs]
    /\ loc \in [Procs -> CallRecs]
    /\ leaked \in [Slots -> Nat]
    /\ overlap \subseteq Inums
    /\ panicked \in BOOLEAN
    /\ calls \in 0 .. MaxCalls

Frac(b) == IF b THEN 1 ELSE 0

\* The variables that point to a slot: the open files and the locals of the calls.
Fields == {"fd", "at", "dp", "ip", "put"}
PointsTo(p, f) == IF f = "fd" THEN fd[p] ELSE loc[p][f]
Pointers(s) == {x \in Procs \X Fields : PointsTo(x[1], x[2]) = s}

\* The count of a slot is the number of the pointers to it: the open files, the
\* variables of running calls, the working directories, and those that symlink
\* and the opening of a link lost.  One too few and iget gives the slot away
\* under its user; one too many and the slot and the inode are never free again.
RefsExact ==
    \A s \in Slots :
        icache[s].ref = Frac(s = ROOT) + leaked[s] + Cardinality(Pointers(s))

\* Slots of the inode cache are counted right and hold what they are meant to: no
\* count, of references or of links, ever runs below 0.
SlotsExact == TypeOK /\ RefsExact

\* The entries that name an inode.
Entries(i) == {e \in Inums \X Names : ents[e[1]][e[2]] = i}

\* A file is in the directories no more often than its number of links says, so
\* that the last unlink, and no earlier one, frees it.
LinksCover ==
    \A i \in Inums : dinode[i].type = "file" =>
        Cardinality(Entries(i)) <= dinode[i].nlink

\* A directory that has a name has a link for it and one for the ".." of each
\* directory below, also between the steps of mkdir and unlink: the count comes
\* down to 0, and the directory is freed, only when both are gone.
DirLinks ==
    \A i \in Inums : dinode[i].type = "dir" /\ (i = ROOTINO \/ Entries(i) # {}) =>
        dinode[i].nlink = 1 + Cardinality({n \in Names :
                                  ents[i][n] # 0 /\ dinode[ents[i][n]].type = "dir"})

\* The links of files and of directories, between any two steps of create, link,
\* mkdir and unlink.
LinksExact == LinksCover /\ DirLinks

\* Every entry names an inode that is allocated: a walk never ends at ilock's
\* panic "no type".
NoDangling == \A d \in Inums, n \in Names : ents[d][n] # 0 => dinode[ents[d][n]].type # "free"

\* Nobody's open file is freed, nor is the inode of a reference in a call, except
\* by the iput that is about to drop it.
OpenNotFreed ==
    \A p \in Procs :
        /\ fd[p] # 0 => dinode[Inum(fd[p])].type # "free"
        /\ \A f \in {"at", "dp", "ip"} :
              loc[p][f] # 0 => dinode[Inum(loc[p][f])].type # "free"

\* The iput that frees an inode finds one that no name and nobody else refers to.
NothingInUseFreed == NoDangling /\ OpenNotFreed

\* The slot whose sleeping lock a process is about to take, and 0 if none.
Wants(p) ==
    CASE pc[p] = "walk" -> loc[p].at
      [] pc[p] = "iput" -> loc[p].put
      [] pc[p] \in {"create", "linkentry", "unlink"} -> loc[p].dp
      [] pc[p] \in {"createinit", "createold", "openlock", "linkinc", "linkundo",
                    "symold", "unlinkip"} -> loc[p].ip
      [] OTHER -> 0
WaitsFor(p, q) == Wants(p) # 0 /\ lock[Wants(p)] = q

\* Locks are taken from a directory to what is in it, with one exception: create
\* and unlink put the directory, and iput locks it, while they hold the lock of
\* the inode below.  Nobody waits for himself, and when two wait for each other
\* one of them is in that iput.
LockOrder ==
    \A p, q \in Procs : WaitsFor(p, q) /\ WaitsFor(q, p) =>
        /\ p # q
        /\ \E r \in {p, q} : pc[r] = "iput" /\ loc[r].ret \in {"created", "unlinkdec"}

\* "If that was the last reference and the inode has no links to it, free the
\* inode (and its content) on disk" (iput).  The code looks at ip->ref under one
\* lock and decrements it under another: two processes that put the last two
\* references at a time may both see 2, and the inode is lost.  Nothing else loses
\* one.
LastReferenceFrees ==
    \A i \in Inums : dinode[i].type # "free" /\ dinode[i].nlink = 0 =>
        i \in overlap \/ \E s \in Slots : Inum(s) = i /\ icache[s].ref > 0
=============================================================================
