------------------------------ MODULE DirProof ------------------------------
(***************************************************************************)
(* Names, links and the inode cache, for every number of processes and     *)
(* inodes and any set of names and paths: the references to a slot are     *)
(* counted, links and entries agree, nothing in use is freed, the locks    *)
(* are taken in order, and the last reference frees an unlinked inode.     *)
(***************************************************************************)
EXTENDS Dir, TLAPS, FiniteSetTheorems, NaturalsInduction, WellFoundedInduction

-----------------------------------------------------------------------------
(* The inductive invariant *)

\* While it puts a reference a call remembers where it goes on.
Putting == {"iput", "trunc", "freed", "unref"}
Label(p) == IF pc[p] \in Putting THEN loc[p].ret ELSE pc[p]

\* A link whose file has its new count, but not the entry yet.
Linking(p) ==
    \/ Label(p) \in {"linkentry", "linkclash", "linkundo"}
    \/ Label(p) = "walk" /\ loc[p].op = "link" /\ loc[p].phase = 2

Creating == {"create", "createinit", "createold", "created"}
Unlinking == {"unlink", "unlinkip", "unlinkbad", "unlinkdec"}
ForParent(r) == \/ r.op \in {"create", "mkdir", "unlink"}
                \/ r.op \in {"link", "symlink"} /\ r.phase = 2

\* Which variables of a call hold a reference at each place, and which call it is.
ShapeOf(p) ==
    LET l == Label(p)
        r == loc[p]
    IN  /\ r.put # 0 <=> pc[p] \in Putting
        /\ pc[p] \notin Putting => r.ret = "idle"
        /\ l \notin Putting
        /\ r.at # 0 <=> l = "walk"
        /\ r.dp # 0 <=> l \in {"create", "createinit", "linkentry", "linkclash", "unlink",
                               "unlinkip", "unlinkbad"}
        /\ r.ip # 0 <=> \/ l \in {"createinit", "createold", "created", "opencheck", "openlock",
                                  "linkinc", "symold", "putip", "unlinkip", "unlinkdec"}
                        \/ Linking(p)
        /\ l \in {"walk", "create", "createinit", "linkentry", "unlink", "unlinkip"}
              => r.rest # <<>>
        /\ l = "idle" <=> r.op = "none"
        /\ l \in Creating => r.op \in {"create", "mkdir", "symlink"}
        /\ l \in {"opencheck", "openself", "openlock"} => r.op = "open"
        /\ l = "linkinc" => r.op = "link" /\ r.phase = 1
        /\ l \in {"linkentry", "linkclash", "linkundo"} => r.op = "link" /\ r.phase = 2
        /\ l = "symold" => r.op = "symlink" /\ r.phase = 1
        /\ l \in Unlinking => r.op = "unlink"
        /\ l = "walk" => (r.par <=> ForParent(r))
        /\ l # "idle" => r.phase \in 1 .. 3
        /\ r.phase = 3 => r.op = "open"
        /\ r.phase = 2 => r.op \in {"link", "symlink", "open"}
        /\ r.op = "open" => r.old \in Paths
        /\ r.op \in {"link", "symlink"} /\ r.phase = 1 => r.new \in Paths
        /\ r.op \in {"create", "open"} => fd[p] = 0
Shape == \A p \in Procs : ShapeOf(p)

\* A slot has an inode when it has references, and no two slots the same.
Apart(c) ==
    /\ \A s \in Slots : c[s].ref = 0 <=> c[s].inum = 0
    /\ \A s \in Slots : c[s].ref = 0 => ~c[s].valid
    /\ \A s, t \in Slots : c[s].ref > 0 /\ c[s].inum = c[t].inum => s = t
SlotsApart == Apart(icache) /\ Inum(ROOT) = ROOTINO

\* The locks a process has, and that it never goes to wait for one of them.
HoldsPut(p) == pc[p] \in {"trunc", "freed"}
HoldsDp(p) == Label(p) \in {"createinit", "unlinkip", "linkclash", "unlinkbad"}
HoldsIp(p) == Label(p) \in {"created", "unlinkdec"}
Holds(p, s) == \/ HoldsPut(p) /\ loc[p].put = s
               \/ HoldsDp(p) /\ loc[p].dp = s
               \/ HoldsIp(p) /\ loc[p].ip = s
Locks ==
    /\ \A s \in Slots, p \in Procs : lock[s] = p <=> Holds(p, s)
    /\ \A s \in Slots : lock[s] # Nobody => icache[s].valid
    /\ \A p \in Procs :
          /\ HoldsIp(p) => loc[p].put # loc[p].ip
          /\ HoldsDp(p) => loc[p].put # loc[p].dp
          /\ Label(p) \in {"createinit", "unlinkip"} => pc[p] \notin Putting

\* A valid slot is what the disk has, but for the type of an inode just freed,
\* which the one that frees it still locks.
Freeing(s) == \E p \in Procs : pc[p] = "freed" /\ loc[p].put = s
Coherent ==
    \A s \in Slots : icache[s].valid =>
        /\ icache[s].nlink = dinode[Inum(s)].nlink
        /\ icache[s].type = dinode[Inum(s)].type \/ Freeing(s)

\* Only iputs about to end still point to a free inode or to one in the making.
Leaving(p) == pc[p] \in {"freed", "unref"}
Forsaken(s) ==
    /\ s # ROOT /\ leaked[s] = 0
    /\ \A p \in Procs : /\ fd[p] # s /\ loc[p].at # s /\ loc[p].dp # s
                        /\ loc[p].put = s => Leaving(p)
Alive ==
    /\ dinode[ROOTINO].type = "dir"
    /\ \A i \in Inums : dinode[i].type = "free" => Entries(i) = {} /\ dinode[i].nlink = 0
    /\ \A i \in Inums : dinode[i].type # "dir" => ents[i] = Empty
    /\ \A s \in Slots : Inum(s) # 0 /\ dinode[Inum(s)].type = "free" =>
          /\ Forsaken(s) /\ \A p \in Procs : loc[p].ip # s
          /\ icache[s].valid => Freeing(s)
    /\ \A p \in Procs : loc[p].dp # 0 => dinode[Inum(loc[p].dp)].type = "dir"
    /\ \A p \in Procs : Linking(p) => dinode[Inum(loc[p].ip)].type = "file"

\* An inode that create has marked and not entered yet: its own, without links.
MakingOf(p) ==
    LET s == loc[p].ip
        i == Inum(s)
    IN  /\ dinode[i] = [type |-> TypeFor(loc[p].op), nlink |-> 0]
        /\ Entries(i) = {} /\ ents[i] = Empty
        /\ Forsaken(s) /\ \A q \in Procs : loc[q].ip = s => q = p
        /\ ents[Inum(loc[p].dp)][Name(p)] = 0
Making == \A p \in Procs : pc[p] = "createinit" => MakingOf(p)

\* The inode that is truncated has one reference and no links; after that it is free,
\* or create has marked it and waits for the lock.
Truncating ==
    \A p \in Procs :
        /\ pc[p] = "trunc" => icache[loc[p].put].ref = 1 /\ icache[loc[p].put].nlink = 0
        /\ pc[p] = "freed" => \/ dinode[Inum(loc[p].put)].type = "free"
                              \/ \E q \in Procs : pc[q] = "createinit" /\ loc[q].ip = loc[p].put

\* The links counted: those of entries, and those of calls that wrote one and not
\* the other.
Linkers(i) == {p \in Procs : Linking(p) /\ Inum(loc[p].ip) = i}
Unlinkers(i) == {p \in Procs : Label(p) = "unlinkdec" /\ Inum(loc[p].ip) = i}
DirKids(i) == {n \in Names : ents[i][n] # 0 /\ dinode[ents[i][n]].type = "dir"}
FileCounted(i) ==
    Cardinality(Entries(i)) + Cardinality(Linkers(i)) + Cardinality(Unlinkers(i))
        <= dinode[i].nlink
Up(i) == Frac(i = ROOTINO) + Cardinality(Entries(i)) + Cardinality(Unlinkers(i))
DirCounted(i) == Up(i) <= 1 /\ dinode[i].nlink = Cardinality(DirKids(i)) + Up(i)
Counted ==
    \A i \in Inums : /\ dinode[i].type = "file" => FileCounted(i)
                     /\ dinode[i].type = "dir" => DirCounted(i)

\* The names that calls rely on while they hold the directory's lock.
NamedOf(p) ==
    /\ Label(p) = "unlinkip" => ents[Inum(loc[p].dp)][Name(p)] = Inum(loc[p].ip)
    /\ Label(p) \in {"linkclash", "unlinkbad"} /\ pc[p] = "iput" =>
          \E n \in Names : ents[Inum(loc[p].dp)][n] = Inum(loc[p].put)
Named == \A p \in Procs : NamedOf(p)

\* No directory is in itself nor in one of those in it.
NoLoops ==
    /\ \A i \in Inums, n \in Names : ents[i][n] # i
    /\ \A i, j \in Inums, m, n \in Names : ~(ents[i][m] = j /\ ents[j][n] = i)

\* An inode somebody uses was read, or has links: iput, which looks at the links
\* of a valid inode only, overlooks none without.
Uses(p) == {fd[p], loc[p].at, loc[p].dp, IF pc[p] = "createinit" THEN 0 ELSE loc[p].ip,
            IF pc[p] = "iput" THEN loc[p].put ELSE 0} \ {0}
Known == \A p \in Procs : \A s \in Uses(p) : icache[s].valid \/ dinode[Inum(s)].nlink > 0

\* An unlinked inode is kept by one that will look at it again.
Keeps(p, s) == \/ s \in {fd[p], loc[p].at, loc[p].dp, loc[p].ip}
               \/ loc[p].put = s /\ pc[p] # "unref"
Kept(s) == s = ROOT \/ leaked[s] > 0 \/ \E p \in Procs : Keeps(p, s)
NoneLost ==
    \A i \in Inums : dinode[i].type # "free" /\ dinode[i].nlink = 0 =>
        i \in overlap \/ \E s \in Slots : Inum(s) = i /\ Kept(s)

IInv == /\ TypeOK /\ RefsExact /\ Shape /\ SlotsApart /\ Locks /\ Coherent
        /\ Alive /\ Making /\ Truncating /\ Counted /\ Named /\ NoLoops /\ Known /\ NoneLost

-----------------------------------------------------------------------------
(* Counting references *)

SlotRec == [inum : Inums \union {0}, ref : Nat, valid : BOOLEAN, type : Types, nlink : Nat,
            file_type : {ORIGIN, SYMBOLIC}, path : Paths \union {<<>>}]
Caches == [Slots -> SlotRec]

LEMMA Constants ==
    /\ Slots \subseteq Nat /\ 0 \notin Slots /\ ROOT \in Slots /\ Slots = Inums
    /\ ROOTINO \in Inums /\ ORIGIN # SYMBOLIC /\ Nobody \notin Procs
    /\ IsFiniteSet(Slots) /\ Cardinality(Slots) = NINODES
BY DirAssumption, FS_Interval DEF Slots, Inums, ROOT, ROOTINO, ORIGIN, SYMBOLIC, Nobody

LEMMA TypeOKIs == TypeOK => icache \in Caches
BY DEF TypeOK, Caches, SlotRec

\* The references that files F and calls L have to a slot, those of one process and
\* of the others.
PointsIn(F, L, p, f) == IF f = "fd" THEN F[p] ELSE L[p][f]
PointersIn(F, L, s) == {x \in Procs \X Fields : PointsIn(F, L, x[1], x[2]) = s}
CountIn(F, L, p, s) == Frac(F[p] = s) + Frac(L[p].at = s) + Frac(L[p].dp = s)
                       + Frac(L[p].ip = s) + Frac(L[p].put = s)
TheirsIn(F, L, p, s) == {x \in (Procs \ {p}) \X Fields : PointsIn(F, L, x[1], x[2]) = s}
PtrCount(p, s) == CountIn(fd, loc, p, s)

LEMMA OneMoreIf ==
    ASSUME NEW S, NEW x, NEW b \in BOOLEAN, IsFiniteSet(S), x \notin S
    PROVE  LET T == S \union (IF b THEN {x} ELSE {})
           IN  IsFiniteSet(T) /\ Cardinality(T) = Cardinality(S) + Frac(b)
<1>1. CASE b
  BY <1>1, FS_AddElement DEF Frac
<1>2. CASE ~b
  <2>1. S \union {} = S /\ Cardinality(S) \in Nat
    BY FS_CardinalityType
  <2> QED
    BY <1>2, <2>1 DEF Frac
<1> QED
  BY <1>1, <1>2

LEMMA TheirsFinite ==
    ASSUME NEW F, NEW L, NEW p, NEW s
    PROVE  IsFiniteSet(TheirsIn(F, L, p, s)) /\ IsFiniteSet(PointersIn(F, L, s))
<1>1. IsFiniteSet(Fields)
  <2>1. Fields = ((({"fd"} \union {"at"}) \union {"dp"}) \union {"ip"}) \union {"put"}
    BY DEF Fields
  <2>2. IsFiniteSet({"fd"})
    BY FS_Singleton
  <2>3. IsFiniteSet({"fd"} \union {"at"})
    BY <2>2, FS_AddElement
  <2>4. IsFiniteSet(({"fd"} \union {"at"}) \union {"dp"})
    BY <2>3, FS_AddElement
  <2>5. IsFiniteSet((({"fd"} \union {"at"}) \union {"dp"}) \union {"ip"})
    BY <2>4, FS_AddElement
  <2> QED
    BY <2>1, <2>5, FS_AddElement
<1>2. IsFiniteSet(Procs \X Fields)
  BY <1>1, DirAssumption, FS_Product
<1>3. TheirsIn(F, L, p, s) \subseteq Procs \X Fields /\ PointersIn(F, L, s) \subseteq Procs \X Fields
  BY DEF TheirsIn, PointersIn
<1> QED
  BY <1>2, <1>3, FS_Subset

LEMMA PointersSplit ==
    ASSUME NEW F, NEW L, NEW p \in Procs, NEW s \in Slots
    PROVE  Cardinality(PointersIn(F, L, s)) = Cardinality(TheirsIn(F, L, p, s)) + CountIn(F, L, p, s)
<1> DEFINE T1 == TheirsIn(F, L, p, s) \union (IF F[p] = s THEN {<<p, "fd">>} ELSE {})
           T2 == T1 \union (IF L[p].at = s THEN {<<p, "at">>} ELSE {})
           T3 == T2 \union (IF L[p].dp = s THEN {<<p, "dp">>} ELSE {})
           T4 == T3 \union (IF L[p].ip = s THEN {<<p, "ip">>} ELSE {})
           T5 == T4 \union (IF L[p].put = s THEN {<<p, "put">>} ELSE {})
<1>1. PointersIn(F, L, s) = T5
  BY DEF PointersIn, TheirsIn, PointsIn, Fields
<1>2. \A f : <<p, f>> \notin TheirsIn(F, L, p, s)
  BY DEF TheirsIn
<1>3. IsFiniteSet(TheirsIn(F, L, p, s)) /\ Cardinality(TheirsIn(F, L, p, s)) \in Nat
  BY TheirsFinite, FS_CardinalityType
<1>4. IsFiniteSet(T1) /\ Cardinality(T1) = Cardinality(TheirsIn(F, L, p, s)) + Frac(F[p] = s)
  BY <1>2, <1>3, OneMoreIf
<1>5. IsFiniteSet(T2) /\ Cardinality(T2) = Cardinality(T1) + Frac(L[p].at = s)
  <2>1. <<p, "at">> \notin T1
    BY <1>2
  <2> QED
    BY <1>4, <2>1, OneMoreIf
<1>6. IsFiniteSet(T3) /\ Cardinality(T3) = Cardinality(T2) + Frac(L[p].dp = s)
  <2>1. <<p, "dp">> \notin T2
    BY <1>2
  <2> QED
    BY <1>5, <2>1, OneMoreIf
<1>7. IsFiniteSet(T4) /\ Cardinality(T4) = Cardinality(T3) + Frac(L[p].ip = s)
  <2>1. <<p, "ip">> \notin T3
    BY <1>2
  <2> QED
    BY <1>6, <2>1, OneMoreIf
<1>8. IsFiniteSet(T5) /\ Cardinality(T5) = Cardinality(T4) + Frac(L[p].put = s)
  <2>1. <<p, "put">> \notin T4
    BY <1>2
  <2> QED
    BY <1>7, <2>1, OneMoreIf
<1> HIDE DEF T1, T2, T3, T4, T5
<1>9. /\ Frac(F[p] = s) \in Nat /\ Frac(L[p].at = s) \in Nat /\ Frac(L[p].dp = s) \in Nat
      /\ Frac(L[p].ip = s) \in Nat /\ Frac(L[p].put = s) \in Nat
  BY DEF Frac
<1>10. Cardinality(T5) = Cardinality(TheirsIn(F, L, p, s)) + Frac(F[p] = s) + Frac(L[p].at = s)
                         + Frac(L[p].dp = s) + Frac(L[p].ip = s) + Frac(L[p].put = s)
  BY <1>3, <1>4, <1>5, <1>6, <1>7, <1>8, <1>9
<1>11. CountIn(F, L, p, s) = Frac(F[p] = s) + Frac(L[p].at = s) + Frac(L[p].dp = s)
                        + Frac(L[p].ip = s) + Frac(L[p].put = s)
  BY DEF CountIn
<1>12. Cardinality(PointersIn(F, L, s)) = Cardinality(T5)
  BY <1>1
<1> QED
  BY <1>3, <1>9, <1>10, <1>11, <1>12

LEMMA PointerCounts ==
    ASSUME NEW F, NEW L, NEW p \in Procs, NEW s \in Slots,
           s \in {F[p], L[p].at, L[p].dp, L[p].ip, L[p].put}
    PROVE  Cardinality(PointersIn(F, L, s)) > 0
<1>1. CountIn(F, L, p, s) > 0 /\ CountIn(F, L, p, s) \in Nat
  BY DEF CountIn, Frac
<1>2. Cardinality(TheirsIn(F, L, p, s)) \in Nat
  BY TheirsFinite, FS_CardinalityType
<1> QED
  BY <1>1, <1>2, PointersSplit

LEMMA PointersAre ==
    \A s : /\ Pointers(s) = PointersIn(fd, loc, s) /\ Pointers(s)' = PointersIn(fd', loc', s)
           /\ Cardinality(Pointers(s)) \in Nat /\ Cardinality(Pointers(s)') \in Nat
<1>1. \A s : Pointers(s) = PointersIn(fd, loc, s) /\ Pointers(s)' = PointersIn(fd', loc', s)
  BY DEF Pointers, PointersIn, PointsTo, PointsIn
<1> QED
  BY <1>1, TheirsFinite, FS_CardinalityType

\* A slot somebody points to has references, hence an inode.
LEMMA PointedHasInode ==
    ASSUME TypeOK, RefsExact, SlotsApart, NEW s \in Slots,
           \/ s = ROOT \/ leaked[s] > 0
           \/ \E p \in Procs : s \in {fd[p], loc[p].at, loc[p].dp, loc[p].ip, loc[p].put}
    PROVE  icache[s].ref > 0 /\ Inum(s) \in Inums
<1>1. icache[s].ref = Frac(s = ROOT) + leaked[s] + Cardinality(Pointers(s))
  BY DEF RefsExact
<1>2. /\ leaked[s] \in Nat /\ Frac(s = ROOT) \in Nat /\ Cardinality(Pointers(s)) \in Nat
      /\ icache[s].ref \in Nat /\ icache[s].inum \in Inums \union {0}
  BY PointersAre DEF TypeOK, Frac
<1>3. ASSUME NEW p \in Procs, s \in {fd[p], loc[p].at, loc[p].dp, loc[p].ip, loc[p].put}
      PROVE  Cardinality(Pointers(s)) > 0
  BY <1>3, PointerCounts, PointersAre
<1>4. icache[s].ref > 0
  BY <1>1, <1>2, <1>3 DEF Frac
<1> QED
  BY <1>2, <1>4 DEF SlotsApart, Apart, Inum

LEMMA PointedHasInodeNext ==
    ASSUME TypeOK', RefsExact', SlotsApart', NEW s \in Slots,
           \/ s = ROOT \/ leaked'[s] > 0
           \/ \E p \in Procs : s \in {fd'[p], loc'[p].at, loc'[p].dp, loc'[p].ip, loc'[p].put}
    PROVE  icache'[s].ref > 0 /\ Inum(s)' \in Inums
<1>1. icache'[s].ref = Frac(s = ROOT) + leaked'[s] + Cardinality(Pointers(s)')
  BY DEF RefsExact
<1>2. /\ leaked'[s] \in Nat /\ Frac(s = ROOT) \in Nat /\ Cardinality(Pointers(s)') \in Nat
      /\ icache'[s].ref \in Nat /\ icache'[s].inum \in Inums \union {0}
  BY PointersAre DEF TypeOK, Frac
<1>3. ASSUME NEW p \in Procs, s \in {fd'[p], loc'[p].at, loc'[p].dp, loc'[p].ip, loc'[p].put}
      PROVE  Cardinality(Pointers(s)') > 0
  BY <1>3, PointerCounts, PointersAre
<1>4. icache'[s].ref > 0
  BY <1>1, <1>2, <1>3 DEF Frac
<1> QED
  BY <1>2, <1>4 DEF SlotsApart, Apart, Inum

\* Where only one process moves, its own pointers account for the change.
Others(p) == \A q \in Procs : q # p => fd'[q] = fd[q] /\ loc'[q] = loc[q] /\ pc'[q] = pc[q]

LEMMA RefsStep ==
    ASSUME TypeOK, TypeOK', RefsExact, NEW p \in Procs, Others(p),
           \A s \in Slots : icache'[s].ref + leaked[s] + PtrCount(p, s)
                              = icache[s].ref + leaked'[s] + PtrCount(p, s)'
    PROVE  RefsExact'
<1> SUFFICES ASSUME NEW s \in Slots
             PROVE  icache'[s].ref = Frac(s = ROOT) + leaked'[s] + Cardinality(Pointers(s)')
  BY DEF RefsExact
<1>1. TheirsIn(fd', loc', p, s) = TheirsIn(fd, loc, p, s)
  BY DEF TheirsIn, PointsIn, Others, Fields
<1>2. Cardinality(Pointers(s)) = Cardinality(TheirsIn(fd, loc, p, s)) + PtrCount(p, s)
  BY PointersSplit, PointersAre DEF PtrCount
<1>3. Cardinality(Pointers(s)') = Cardinality(TheirsIn(fd', loc', p, s)) + PtrCount(p, s)'
  BY PointersSplit, PointersAre DEF PtrCount
<1>4. icache[s].ref = Frac(s = ROOT) + leaked[s] + Cardinality(Pointers(s))
  BY DEF RefsExact
<1>5. /\ Cardinality(TheirsIn(fd, loc, p, s)) \in Nat /\ PtrCount(p, s) \in Nat
      /\ PtrCount(p, s)' \in Nat /\ leaked[s] \in Nat /\ leaked'[s] \in Nat
      /\ icache[s].ref \in Nat /\ icache'[s].ref \in Nat /\ Frac(s = ROOT) \in Nat
  <2>1. Cardinality(TheirsIn(fd, loc, p, s)) \in Nat
    BY TheirsFinite, FS_CardinalityType
  <2>2. PtrCount(p, s) \in Nat /\ PtrCount(p, s)' \in Nat /\ Frac(s = ROOT) \in Nat
    BY DEF PtrCount, CountIn, Frac
  <2>3. leaked[s] \in Nat /\ leaked'[s] \in Nat
    BY DEF TypeOK
  <2>4. icache[s].ref \in Nat /\ icache'[s].ref \in Nat
    BY DEF TypeOK
  <2> QED
    BY <2>1, <2>2, <2>3, <2>4
<1> QED
  BY <1>1, <1>2, <1>3, <1>4, <1>5

-----------------------------------------------------------------------------
(* The inode cache *)

\* A cache in which the same slots have the same references and inodes.
Alike(c) == /\ c \in Caches
            /\ \A t \in Slots : c[t].ref = icache[t].ref /\ c[t].inum = icache[t].inum

\* A set of numbers that is not empty has a least one.
LEMMA MinIn ==
    ASSUME NEW S \in SUBSET Nat, S # {}
    PROVE  Min(S) \in S
<1>1. PICK s \in S : \A t \in S : <<t, s>> \notin OpToRel(<, Nat)
  BY NatLessThanWellFounded, WFMin
<1>2. ASSUME NEW t \in S
      PROVE  s <= t
  <2>1. t < s => <<t, s>> \in OpToRel(<, Nat)
    BY Zenon DEF OpToRel
  <2>2. ~(t < s)
    BY <1>1, <2>1, Zenon
  <2>3. s \in Nat /\ t \in Nat
    OBVIOUS
  <2> QED
    BY <2>2, <2>3
<1>3. \E x \in S : \A y \in S : x <= y
  BY <1>2
<1> QED
  BY <1>3 DEF Min

\* iget finds a slot: there are as many as inodes, and no inode has two.
LEMMA SlotOfIs ==
    ASSUME NEW c \in Caches, Apart(c), NEW i \in Inums
    PROVE  /\ SlotOf(c, i) \in Slots
           /\ \/ c[SlotOf(c, i)].ref > 0 /\ c[SlotOf(c, i)].inum = i
              \/ c[SlotOf(c, i)].ref = 0 /\ \A t \in Slots : c[t].inum # i
<1> DEFINE has == {s \in Slots : c[s].ref > 0 /\ c[s].inum = i}
           free == {s \in Slots : c[s].ref = 0}
<1>0. \A t \in Slots : c[t].ref \in Nat /\ c[t].inum \in Inums \union {0}
  BY DEF Caches, SlotRec
<1>a. \A S \in SUBSET Slots : S # {} => Min(S) \in S
  BY MinIn, Constants
<1>1. CASE has # {}
  <2>1. SlotOf(c, i) = Min(has)
    BY <1>1 DEF SlotOf
  <2> QED
    BY <1>1, <1>a, <2>1
<1>2. CASE has = {}
  <2>1. SlotOf(c, i) = Min(free)
    BY <1>2 DEF SlotOf
  <2>2. \A t \in Slots : c[t].inum # i
    BY <1>0, <1>2, Constants DEF Apart
  <2>3. free # {}
    <3> SUFFICES ASSUME free = {} PROVE FALSE
      OBVIOUS
    <3>1. \A t \in Slots : c[t].ref > 0
      BY <1>0
    <3>2. IsFiniteSet(Inums \ {i}) /\ Cardinality(Inums \ {i}) = NINODES - 1
      BY Constants, FS_RemoveElement
    <3>3. \A t \in Slots : c[t].inum \in Inums \ {i}
      <4> SUFFICES ASSUME NEW t \in Slots PROVE c[t].inum \in Inums \ {i}
        OBVIOUS
      <4>1. c[t].inum # 0 /\ c[t].inum # i
        BY <1>0, <2>2, <3>1 DEF Apart
      <4> QED
        BY <1>0, <4>1
    <3>4. PICK T : T = Inums \ {i}
      OBVIOUS
    <3>5. IsFiniteSet(T) /\ Cardinality(T) < Cardinality(Slots)
      BY <3>2, <3>4, Constants, DirAssumption
    <3>6. PICK f \in [Slots -> T] : \A t \in Slots : f[t] = c[t].inum
      <4>1. [t \in Slots |-> c[t].inum] \in [Slots -> T]
        BY <3>3, <3>4
      <4> QED
        BY <4>1
    <3>7. IsFiniteSet(Slots)
      BY Constants
    <3>8. \E s, t \in Slots : s # t /\ f[s] = f[t]
      BY <3>5, <3>7, FS_PigeonHole
    <3>9. \A s, t \in Slots : f[s] = f[t] => s = t
      BY <3>1, <3>6 DEF Apart
    <3> QED
      BY <3>8, <3>9
  <2> QED
    BY <1>a, <2>1, <2>2, <2>3
<1> QED
  BY <1>1, <1>2

\* A cache after ilock read some inodes, and the slot that iget returns.
Fresh(c) ==
    /\ c \in Caches
    /\ \A t \in Slots :
          /\ c[t].inum = icache[t].inum /\ c[t].ref = icache[t].ref
          /\ icache[t].valid => /\ c[t].valid /\ c[t].type = icache[t].type
                                /\ c[t].nlink = icache[t].nlink
          /\ c[t].valid /\ ~icache[t].valid =>
                /\ Inum(t) \in Inums /\ c[t].type = dinode[Inum(t)].type
                /\ c[t].nlink = dinode[Inum(t)].nlink /\ c[t].type # "free"

LEMMA FreshSame == TypeOK => Fresh(icache)
BY DEF Fresh, TypeOK, Caches, SlotRec

LEMMA FreshApart ==
    ASSUME SlotsApart, NEW c, Fresh(c)
    PROVE  Apart(c)
<1>1. \A t \in Slots : icache[t].ref = 0 => ~c[t].valid
  <2>1. \A t \in Slots : icache[t].ref = 0 => ~icache[t].valid /\ Inum(t) \notin Inums
    BY Constants DEF SlotsApart, Apart, Inum
  <2> QED
    BY <2>1 DEF Fresh
<1> QED
  BY <1>1 DEF SlotsApart, Apart, Fresh

\* ilock makes the slot valid.
LEMMA LoadIs ==
    ASSUME TypeOK, NEW s \in Slots, Inum(s) \in Inums, dinode[Inum(s)].type # "free"
    PROVE  /\ Fresh(Load(icache, s)) /\ Load(icache, s)[s].valid
           /\ icache[s].valid => Load(icache, s) = icache
           /\ \A t \in Slots : t # s => Load(icache, s)[t] = icache[t]
           /\ \A t \in Slots : /\ Load(icache, s)[t].path = icache[t].path
                               /\ Load(icache, s)[t].file_type = icache[t].file_type
<1>1. CASE icache[s].valid
  BY <1>1, FreshSame DEF Load
<1>2. CASE ~icache[s].valid
  <2>1. PICK i \in Inums : i = Inum(s)
    OBVIOUS
  <2>2. icache \in Caches /\ icache[s] \in SlotRec /\ dinode[i] \in [type : Types, nlink : Nat]
    BY <2>1, TypeOKIs DEF Caches, TypeOK
  <2>3. PICK r : r = [icache[s] EXCEPT !.valid = TRUE, !.type = dinode[i].type,
                                       !.nlink = dinode[i].nlink]
    OBVIOUS
  <2>4. /\ r \in SlotRec /\ r.valid /\ r.inum = icache[s].inum /\ r.ref = icache[s].ref
        /\ r.type = dinode[i].type /\ r.nlink = dinode[i].nlink
        /\ r.path = icache[s].path /\ r.file_type = icache[s].file_type
    BY <2>2, <2>3 DEF SlotRec
  <2>5. Load(icache, s) = [icache EXCEPT ![s] = r]
    BY <1>2, <2>1, <2>3 DEF Load, Inum
  <2>6. /\ Load(icache, s) \in Caches /\ Load(icache, s)[s] = r
        /\ \A t \in Slots : t # s => Load(icache, s)[t] = icache[t]
    BY <2>2, <2>4, <2>5 DEF Caches
  <2>7. Fresh(Load(icache, s))
    BY <1>2, <2>1, <2>4, <2>6 DEF Fresh
  <2> QED
    BY <1>2, <2>4, <2>6, <2>7
<1> QED
  BY <1>1, <1>2

\* A symbolic link is made in the cache only.
LEMMA FreshLink ==
    ASSUME NEW c, Fresh(c), NEW s \in Slots, NEW path \in Paths \union {<<>>},
           NEW ft \in {ORIGIN, SYMBOLIC}
    PROVE  /\ Fresh([c EXCEPT ![s].path = path])
           /\ Fresh([c EXCEPT ![s].file_type = ft])
           /\ Fresh([c EXCEPT ![s].path = path, ![s].file_type = ft])
<1>1. c \in Caches /\ c[s] \in SlotRec
  BY DEF Fresh, Caches
<1>2. \A r \in SlotRec :
         /\ r.inum = c[s].inum /\ r.ref = c[s].ref /\ r.valid = c[s].valid
         /\ r.type = c[s].type /\ r.nlink = c[s].nlink
         => Fresh([c EXCEPT ![s] = r])
  <2> SUFFICES ASSUME NEW r \in SlotRec, r.inum = c[s].inum, r.ref = c[s].ref,
                      r.valid = c[s].valid, r.type = c[s].type, r.nlink = c[s].nlink
               PROVE  Fresh([c EXCEPT ![s] = r])
    OBVIOUS
  <2>1. PICK d : d = [c EXCEPT ![s] = r]
    OBVIOUS
  <2>2. d \in Caches /\ d[s] = r /\ \A t \in Slots : t # s => d[t] = c[t]
    BY <1>1, <2>1 DEF Caches
  <2>3. Fresh(d)
    BY <2>2 DEF Fresh
  <2> QED
    BY <2>1, <2>3
<1>3. Fresh([c EXCEPT ![s] = [c[s] EXCEPT !.path = path]])
  BY <1>1, <1>2 DEF SlotRec
<1>4. Fresh([c EXCEPT ![s] = [c[s] EXCEPT !.file_type = ft]])
  BY <1>1, <1>2 DEF SlotRec
<1>5. Fresh([c EXCEPT ![s] = [c[s] EXCEPT !.path = path, !.file_type = ft]])
  BY <1>1, <1>2 DEF SlotRec
<1> QED
  BY <1>3, <1>4, <1>5

\* iget counts a reference to the slot of an inode.
Got(c, d, g, i) ==
    /\ d \in Caches /\ g \in Slots /\ g = SlotOf(c, i)
    /\ \A t \in Slots : t # g => d[t] = c[t]
    /\ d[g].inum = i /\ d[g].ref = c[g].ref + 1
    /\ \/ /\ c[g].inum = i /\ c[g].ref > 0
          /\ d[g].valid = c[g].valid /\ d[g].type = c[g].type /\ d[g].nlink = c[g].nlink
       \/ c[g].ref = 0 /\ ~d[g].valid /\ \A t \in Slots : c[t].inum # i

LEMMA IGetIs ==
    ASSUME NEW c \in Caches, Apart(c), NEW i \in Inums
    PROVE  Got(c, IGet(c, i), SlotOf(c, i), i)
<1>1. PICK g \in Slots : g = SlotOf(c, i)
  BY SlotOfIs
<1>2. c[g] \in SlotRec /\ c[g].ref \in Nat
  BY DEF Caches, SlotRec
<1>3. CASE c[g].ref > 0 /\ c[g].inum = i
  <2>1. PICK r : r = [c[g] EXCEPT !.ref = @ + 1]
    OBVIOUS
  <2>2. /\ r \in SlotRec /\ r.ref = c[g].ref + 1 /\ r.inum = i
        /\ r.valid = c[g].valid /\ r.type = c[g].type /\ r.nlink = c[g].nlink
    BY <1>2, <1>3, <2>1 DEF SlotRec
  <2>3. IGet(c, i) = [c EXCEPT ![g] = r]
    BY <1>1, <1>3, <2>1 DEF IGet
  <2> QED
    BY <1>1, <1>3, <2>2, <2>3 DEF Got, Caches
<1>4. CASE c[g].ref = 0 /\ \A t \in Slots : c[t].inum # i
  <2>1. PICK r : r = [c[g] EXCEPT !.inum = i, !.ref = 1, !.valid = FALSE]
    OBVIOUS
  <2>2. r \in SlotRec /\ r.ref = 1 /\ r.inum = i /\ ~r.valid
    BY <1>2, <2>1 DEF SlotRec
  <2>3. IGet(c, i) = [c EXCEPT ![g] = r]
    BY <1>1, <1>4, <2>1 DEF IGet
  <2> QED
    BY <1>1, <1>4, <2>2, <2>3 DEF Got, Caches
<1> QED
  BY <1>1, <1>3, <1>4, SlotOfIs

\* A cache where one process gets a reference to g or drops one to x, and no more
\* is changed than ilock changes.
SlotQuiet(t) ==
    /\ icache'[t].inum = icache[t].inum
    /\ icache[t].valid => /\ icache'[t].valid /\ icache'[t].type = icache[t].type
                          /\ icache'[t].nlink = icache[t].nlink
    /\ icache'[t].valid /\ ~icache[t].valid =>
          /\ Inum(t) \in Inums /\ icache'[t].type = dinode[Inum(t)].type
          /\ icache'[t].nlink = dinode[Inum(t)].nlink /\ icache'[t].type # "free"
Recycled(t) ==
    /\ icache[t].ref = 0 /\ ~icache'[t].valid /\ icache'[t].inum \in Inums
    /\ \A u \in Slots : icache[u].inum # icache'[t].inum
CacheQuiet(g, x) ==
    /\ icache' \in Caches
    /\ g \in Slots \union {0} /\ x \in Slots \union {0} /\ (g = 0 \/ x = 0)
    /\ \A t \in Slots :
          /\ icache'[t].ref + Frac(t = x) = icache[t].ref + Frac(t = g)
          /\ t # g /\ t # x => SlotQuiet(t)
          /\ t = g => /\ (icache[t].ref > 0 /\ SlotQuiet(t)) \/ Recycled(t)
                      /\ dinode[icache'[t].inum].nlink > 0
          /\ t = x => IF icache[t].ref > 1 THEN SlotQuiet(t)
                      ELSE icache'[t].inum = 0 /\ ~icache'[t].valid

LEMMA FreshQuiet ==
    ASSUME Fresh(icache'), TypeOK
    PROVE  CacheQuiet(0, 0)
<1>1. \A t \in Slots : t # 0 /\ icache[t].ref \in Nat /\ icache'[t].ref = icache[t].ref
  BY Constants DEF Fresh, TypeOK
<1> QED
  BY <1>1 DEF CacheQuiet, SlotQuiet, Frac, Fresh

LEMMA GetQuiet ==
    ASSUME TypeOK, SlotsApart, NEW c, Fresh(c), NEW i \in Inums, dinode[i].nlink > 0,
           icache' = IGet(c, i)
    PROVE  /\ CacheQuiet(SlotOf(c, i), 0) /\ SlotOf(c, i) \in Slots
           /\ icache'[SlotOf(c, i)].inum = i
<1>1. c \in Caches /\ Apart(c)
  BY FreshApart DEF Fresh
<1>2. PICK g \in Slots : g = SlotOf(c, i)
  BY <1>1, SlotOfIs
<1>3. Got(c, icache', g, i)
  BY <1>1, <1>2, IGetIs
<1>4. \A t \in Slots : t # 0 /\ icache[t].ref \in Nat /\ c[t].ref = icache[t].ref
  BY Constants DEF Fresh, TypeOK
<1>5. (icache[g].ref > 0 /\ SlotQuiet(g)) \/ Recycled(g)
  BY <1>2, <1>3, <1>4 DEF Got, Fresh, SlotQuiet, Recycled
<1>6. \A t \in Slots : t # g => SlotQuiet(t) /\ icache'[t].ref = icache[t].ref
  BY <1>3, <1>4 DEF Got, Fresh, SlotQuiet
<1>7. icache'[g].inum = i /\ icache'[g].ref = icache[g].ref + 1 /\ icache' \in Caches
  BY <1>3, <1>4 DEF Got
<1>8. \A t \in Slots : icache'[t].ref + Frac(t = 0) = icache[t].ref + Frac(t = g)
  BY <1>4, <1>6, <1>7 DEF Frac
<1> QED
  BY <1>2, <1>4, <1>5, <1>6, <1>7, <1>8 DEF CacheQuiet

-----------------------------------------------------------------------------
(* Quiet steps: one process moves its references, and the disk stays as it is *)

\* The references of a process that it keeps for later, iput's not among them.
Kin(p) == {fd[p], loc[p].at, loc[p].dp, loc[p].ip}

\* The pointers of p come from those it had and from the slot it got.
PtrQuiet(p, g, x) ==
    /\ \A s \in Slots : leaked'[s] + PtrCount(p, s)' + Frac(s = x)
                          = leaked[s] + PtrCount(p, s) + Frac(s = g)
    /\ \A s \in Slots : leaked'[s] >= leaked[s] /\ (leaked'[s] > leaked[s] => s = loc[p].ip)
    /\ Kin(p)' \subseteq Kin(p) \union {0, g}
    /\ \/ loc'[p].put \in Kin(p) \union {0, g}
       \/ loc'[p].put = loc[p].put /\ pc[p] = "iput"

KeepQuiet(p) == \A s \in Slots : Keeps(p, s) => Keeps(p, s)' \/ leaked'[s] > 0

\* It starts and ends no step of create or iput that is under way at the disk, and
\* is as before with respect to links.
LabelQuiet(p) ==
    /\ pc[p] \notin {"createinit", "freed", "trunc"} /\ pc'[p] \notin {"createinit", "freed"}
    /\ pc'[p] = "trunc" => icache'[loc'[p].put].ref = 1 /\ icache'[loc'[p].put].nlink = 0
    /\ Linking(p)' <=> Linking(p)
    /\ Linking(p) => loc'[p].ip = loc[p].ip
    /\ Label(p)' = "unlinkdec" <=> Label(p) = "unlinkdec"
    /\ Label(p) = "unlinkdec" => loc'[p].ip = loc[p].ip
    /\ loc'[p].dp # 0 => dinode[Inum(loc[p].dp)'].type = "dir"

LockMoves(p) ==
    \A s \in Slots :
        /\ lock'[s] = p <=> Holds(p, s)'
        /\ \A q \in Procs : q # p => (lock'[s] = q <=> lock[s] = q)
        /\ lock'[s] # Nobody => lock[s] # Nobody \/ icache'[s].valid
OwnLocks(p) ==
    /\ HoldsIp(p) => loc[p].put # loc[p].ip
    /\ HoldsDp(p) => loc[p].put # loc[p].dp
    /\ Label(p) \in {"createinit", "unlinkip"} => pc[p] \notin Putting

QuietStep(p, g, x) ==
    /\ dinode' = dinode /\ ents' = ents /\ overlap \subseteq overlap'
    /\ Others(p) /\ CacheQuiet(g, x) /\ PtrQuiet(p, g, x) /\ LabelQuiet(p) /\ LockMoves(p)
    /\ ShapeOf(p)' /\ NamedOf(p)' /\ OwnLocks(p)'

LEMMA OthersSame ==
    ASSUME NEW p \in Procs, Others(p)
    PROVE  \A q \in Procs : q # p =>
             /\ fd'[q] = fd[q] /\ loc'[q] = loc[q] /\ pc'[q] = pc[q]
             /\ Label(q)' = Label(q) /\ (Linking(q)' <=> Linking(q))
             /\ (HoldsDp(q)' <=> HoldsDp(q)) /\ (HoldsIp(q)' <=> HoldsIp(q))
             /\ \A s : Holds(q, s)' <=> Holds(q, s)
<1> SUFFICES ASSUME NEW q \in Procs, q # p
             PROVE  /\ fd'[q] = fd[q] /\ loc'[q] = loc[q] /\ pc'[q] = pc[q]
                    /\ Label(q)' = Label(q) /\ (Linking(q)' <=> Linking(q))
                    /\ (HoldsDp(q)' <=> HoldsDp(q)) /\ (HoldsIp(q)' <=> HoldsIp(q))
                    /\ \A s : Holds(q, s)' <=> Holds(q, s)
  OBVIOUS
<1>1. fd'[q] = fd[q] /\ loc'[q] = loc[q] /\ pc'[q] = pc[q]
  BY DEF Others
<1>2. Label(q)' = Label(q)
  BY <1>1 DEF Label
<1>3. (Linking(q)' <=> Linking(q))
  BY <1>1, <1>2 DEF Linking
<1> QED
  BY <1>1, <1>2, <1>3 DEF Holds, HoldsPut, HoldsDp, HoldsIp

LEMMA ShapeStep ==
    ASSUME Shape, NEW p \in Procs, Others(p), ShapeOf(p)'
    PROVE  Shape'
<1> SUFFICES ASSUME NEW q \in Procs, q # p
             PROVE  ShapeOf(q)'
  BY DEF Shape
<1>1. ShapeOf(q)
  BY DEF Shape
<1>2. /\ fd'[q] = fd[q] /\ loc'[q] = loc[q] /\ pc'[q] = pc[q]
      /\ Label(q)' = Label(q) /\ (Linking(q)' <=> Linking(q))
  BY OthersSame
<1> QED
  BY <1>1, <1>2 DEF ShapeOf

LEMMA QuietApart ==
    ASSUME TypeOK, TypeOK', SlotsApart, RefsExact', NEW g, NEW x, CacheQuiet(g, x)
    PROVE  SlotsApart'
<1>1. \A t \in Slots : /\ icache[t].ref \in Nat /\ icache'[t].ref \in Nat /\ t # 0
                       /\ icache'[t].inum \in Inums \union {0} /\ Inum(t) = icache[t].inum
                       /\ icache[t].inum \in Inums \union {0}
  BY Constants DEF TypeOK, Inum
<1>2. \A t \in Slots :
         \/ /\ icache'[t].inum = icache[t].inum /\ (icache'[t].ref = 0 <=> icache[t].ref = 0)
            /\ icache'[t].valid /\ ~icache[t].valid => Inum(t) \in Inums
         \/ t = g /\ Recycled(t) /\ icache'[t].ref = 1
         \/ icache'[t].inum = 0 /\ ~icache'[t].valid /\ icache'[t].ref = 0
  <2> SUFFICES ASSUME NEW t \in Slots
               PROVE  \/ /\ icache'[t].inum = icache[t].inum
                         /\ (icache'[t].ref = 0 <=> icache[t].ref = 0)
                         /\ icache'[t].valid /\ ~icache[t].valid => Inum(t) \in Inums
                      \/ t = g /\ Recycled(t) /\ icache'[t].ref = 1
                      \/ icache'[t].inum = 0 /\ ~icache'[t].valid /\ icache'[t].ref = 0
    OBVIOUS
  <2>1. CASE t = g
    <3>1. icache'[t].ref = icache[t].ref + 1
      BY <1>1, <2>1 DEF CacheQuiet, Frac
    <3>2. (icache[t].ref > 0 /\ SlotQuiet(t)) \/ Recycled(t)
      BY <2>1 DEF CacheQuiet
    <3> QED
      BY <1>1, <2>1, <3>1, <3>2 DEF SlotQuiet, Recycled
  <2>2. CASE t = x /\ t # g
    <3>1. icache'[t].ref + 1 = icache[t].ref
      BY <1>1, <2>2 DEF CacheQuiet, Frac
    <3>2. IF icache[t].ref > 1 THEN SlotQuiet(t)
          ELSE icache'[t].inum = 0 /\ ~icache'[t].valid
      BY <2>2 DEF CacheQuiet
    <3> QED
      BY <1>1, <3>1, <3>2 DEF SlotQuiet
  <2>3. CASE t # x /\ t # g
    <3>1. icache'[t].ref = icache[t].ref /\ SlotQuiet(t)
      BY <1>1, <2>3 DEF CacheQuiet, Frac
    <3> QED
      BY <1>1, <3>1 DEF SlotQuiet
  <2> QED
    BY <2>1, <2>2, <2>3
<1>3. \A t \in Slots : /\ icache[t].ref = 0 <=> icache[t].inum = 0
                       /\ icache[t].ref = 0 => ~icache[t].valid
  BY DEF SlotsApart, Apart
<1>4. \A t \in Slots : icache'[t].ref = 0 <=> icache'[t].inum = 0
  <2> SUFFICES ASSUME NEW t \in Slots
               PROVE  icache'[t].ref = 0 <=> icache'[t].inum = 0
    OBVIOUS
  <2>1. Recycled(t) => icache'[t].inum # 0
    BY Constants DEF Recycled
  <2> QED
    BY <1>2, <1>3, <2>1
<1>5. \A t \in Slots : icache'[t].ref = 0 => ~icache'[t].valid
  <2> SUFFICES ASSUME NEW t \in Slots, icache'[t].ref = 0
               PROVE  ~icache'[t].valid
    OBVIOUS
  <2>1. Inum(t) \in Inums => icache[t].ref # 0
    BY <1>1, <1>3, Constants
  <2> QED
    BY <1>2, <1>3, <2>1
<1>6. \A s, t \in Slots : icache'[s].ref > 0 /\ icache'[s].inum = icache'[t].inum => s = t
  <2> SUFFICES ASSUME NEW s \in Slots, NEW t \in Slots, icache'[s].ref > 0,
                      icache'[s].inum = icache'[t].inum, s # t
               PROVE  FALSE
    OBVIOUS
  <2>1. icache'[s].inum # 0 /\ icache'[t].inum # 0
    BY <1>1, <1>4
  <2>2. icache[s].ref > 0 /\ icache[s].inum = icache[t].inum => s = t
    BY DEF SlotsApart, Apart
  <2>3. CASE s = g /\ Recycled(s)
    <3>1. icache[t].inum # icache'[s].inum
      BY <2>3 DEF Recycled
    <3> QED
      BY <1>2, <2>1, <2>3, <3>1
  <2>4. CASE t = g /\ Recycled(t)
    <3>1. icache[s].inum # icache'[t].inum
      BY <2>4 DEF Recycled
    <3> QED
      BY <1>2, <2>1, <2>4, <3>1
  <2>5. CASE ~(s = g /\ Recycled(s)) /\ ~(t = g /\ Recycled(t))
    <3>1. icache'[s].inum = icache[s].inum /\ icache'[t].inum = icache[t].inum
      BY <1>2, <2>1, <2>5
    <3>2. icache[s].ref > 0
      BY <1>1, <1>3, <2>1, <3>1
    <3> QED
      BY <2>2, <3>1, <3>2
  <2> QED
    BY <2>3, <2>4, <2>5
<1>7. Inum(ROOT)' = ROOTINO
  <2>1. icache'[ROOT].ref = 1 + leaked'[ROOT] + Cardinality(Pointers(ROOT)')
    BY Constants DEF RefsExact, Frac
  <2>2. icache'[ROOT].ref > 0
    <3>1. leaked'[ROOT] \in Nat
      BY Constants DEF TypeOK
    <3>2. Cardinality(Pointers(ROOT)') \in Nat
      BY PointersAre
    <3> QED
      BY <2>1, <3>1, <3>2
  <2>3. icache[ROOT].inum = ROOTINO /\ icache[ROOT].ref # 0
    BY <1>3, Constants DEF SlotsApart, Inum
  <2> QED
    BY <1>2, <2>2, <2>3, Constants DEF Recycled, Inum
<1> QED
  BY <1>4, <1>5, <1>6, <1>7 DEF SlotsApart, Apart

Pointed(s) == \/ s = ROOT \/ leaked[s] > 0
              \/ \E p \in Procs : s \in {fd[p], loc[p].at, loc[p].dp, loc[p].ip, loc[p].put}

\* A slot that has references before and after the step is the same inode's.
LEMMA QuietSlots ==
    ASSUME IInv, TypeOK', RefsExact', SlotsApart', NEW g, NEW x, CacheQuiet(g, x)
    PROVE  \A s \in Slots : Pointed(s)' =>
             /\ Inum(s)' \in Inums
             /\ SlotQuiet(s) \/ (s = g /\ Recycled(s))
             /\ Pointed(s) => SlotQuiet(s) /\ Inum(s) \in Inums /\ Inum(s)' = Inum(s)
<1> SUFFICES ASSUME NEW s \in Slots, Pointed(s)'
             PROVE  /\ Inum(s)' \in Inums
                    /\ SlotQuiet(s) \/ (s = g /\ Recycled(s))
                    /\ Pointed(s) => SlotQuiet(s) /\ Inum(s) \in Inums /\ Inum(s)' = Inum(s)
  OBVIOUS
<1>1. icache'[s].ref > 0 /\ Inum(s)' \in Inums
  BY PointedHasInodeNext DEF Pointed
<1>2. Pointed(s) => icache[s].ref > 0 /\ Inum(s) \in Inums
  BY PointedHasInode DEF Pointed, IInv
<1>3. icache[s].ref \in Nat /\ icache'[s].ref \in Nat /\ 0 \notin Inums
  BY Constants DEF IInv, TypeOK
<1>4. SlotQuiet(s) \/ (s = g /\ Recycled(s))
  <2>1. CASE s = g
    BY <2>1 DEF CacheQuiet
  <2>2. CASE s = x /\ s # g
    <3>1. icache'[s].ref + 1 = icache[s].ref
      BY <1>3, <2>2 DEF CacheQuiet, Frac
    <3> QED
      BY <1>1, <1>3, <2>2, <3>1 DEF CacheQuiet
  <2>3. CASE s # x /\ s # g
    BY <2>3 DEF CacheQuiet
  <2> QED
    BY <2>1, <2>2, <2>3
<1>5. Recycled(s) => icache[s].ref = 0
  BY DEF Recycled
<1> QED
  BY <1>1, <1>2, <1>3, <1>4, <1>5 DEF SlotQuiet, Inum

LEMMA Kinship ==
    ASSUME NEW p \in Procs, NEW s \in Slots, s \in Kin(p) \union {loc[p].put}
    PROVE  Pointed(s)
BY DEF Kin, Pointed

\* Nobody but iputs about to end points to a free inode.
LEMMA KinAlive ==
    ASSUME IInv, NEW p \in Procs, NEW s \in Slots,
           s \in Kin(p) \/ (loc[p].put = s /\ pc[p] = "iput")
    PROVE  Inum(s) \in Inums /\ dinode[Inum(s)].type # "free"
<1>1. Inum(s) \in Inums
  BY PointedHasInode DEF Pointed, Kin, IInv
<1>2. dinode[Inum(s)].type = "free" =>
         Forsaken(s) /\ \A q \in Procs : loc[q].ip # s
  BY <1>1, Constants DEF IInv, Alive
<1> QED
  BY <1>1, <1>2 DEF Kin, Forsaken, Leaving

\* A free inode has no links, and one with links is not free.
LEMMA LinkedNotFree ==
    ASSUME IInv, NEW i \in Inums, dinode[i].nlink > 0
    PROVE  dinode[i].type # "free"
BY DEF IInv, Alive

LEMMA QuietCoherent ==
    ASSUME IInv, TypeOK', RefsExact', SlotsApart', NEW p \in Procs, NEW g, NEW x,
           QuietStep(p, g, x)
    PROVE  Coherent' /\ Locks'
<1>0. /\ dinode' = dinode /\ Others(p) /\ CacheQuiet(g, x) /\ LabelQuiet(p) /\ LockMoves(p)
      /\ OwnLocks(p)'
  BY DEF QuietStep
<1>1. Coherent'
  <2> SUFFICES ASSUME NEW s \in Slots, icache'[s].valid
               PROVE  /\ icache'[s].nlink = dinode[Inum(s)'].nlink
                      /\ icache'[s].type = dinode[Inum(s)'].type \/ Freeing(s)'
    BY <1>0 DEF Coherent
  <2>1. SlotQuiet(s)
    BY <1>0 DEF CacheQuiet, Recycled
  <2>2. Freeing(s) => Freeing(s)'
    BY <1>0, OthersSame DEF Freeing, LabelQuiet
  <2>3. Inum(s)' = Inum(s)
    BY <2>1 DEF SlotQuiet, Inum
  <2> QED
    BY <2>1, <2>2, <2>3 DEF SlotQuiet, IInv, Coherent
<1>2. \A s \in Slots, q \in Procs : lock'[s] = q <=> Holds(q, s)'
  <2> SUFFICES ASSUME NEW s \in Slots, NEW q \in Procs
               PROVE  lock'[s] = q <=> Holds(q, s)'
    OBVIOUS
  <2>1. CASE q = p
    BY <1>0, <2>1 DEF LockMoves
  <2>2. CASE q # p
    <3>1. lock'[s] = q <=> lock[s] = q
      BY <1>0, <2>2 DEF LockMoves
    <3>2. lock[s] = q <=> Holds(q, s)
      BY DEF IInv, Locks
    <3> QED
      BY <1>0, <2>2, <3>1, <3>2, OthersSame
  <2> QED
    BY <2>1, <2>2
<1>3. ASSUME NEW s \in Slots, lock'[s] # Nobody
      PROVE  icache'[s].valid
  <2>1. lock[s] # Nobody \/ icache'[s].valid
    BY <1>0, <1>3 DEF LockMoves
  <2>2. CASE lock[s] # Nobody
    <3>1. icache[s].valid
      BY <2>2 DEF IInv, Locks
    <3>2. PICK q \in Procs : q = lock'[s]
      BY <1>3 DEF TypeOK
    <3>3. Holds(q, s)'
      BY <1>2, <3>2
    <3>4. Pointed(s)'
      BY <3>3 DEF Pointed, Holds
    <3>5. icache[s].ref # 0
      BY <3>1 DEF IInv, SlotsApart, Apart
    <3>6. SlotQuiet(s)
      BY <1>0, <3>4, <3>5, QuietSlots DEF Recycled
    <3> QED
      BY <3>1, <3>6 DEF SlotQuiet
  <2> QED
    BY <2>1, <2>2
<1>4. ASSUME NEW q \in Procs
      PROVE  /\ HoldsIp(q)' => loc'[q].put # loc'[q].ip
             /\ HoldsDp(q)' => loc'[q].put # loc'[q].dp
             /\ Label(q)' \in {"createinit", "unlinkip"} => pc'[q] \notin Putting
  <2>1. CASE q = p
    BY <1>0, <2>1 DEF OwnLocks
  <2>2. CASE q # p
    BY <1>0, <2>2, OthersSame DEF IInv, Locks
  <2> QED
    BY <2>1, <2>2
<1> QED
  BY <1>1, <1>2, <1>3, <1>4 DEF Locks

\* Who else points to a slot is counted besides the process itself.
LEMMA TheirsCount ==
    ASSUME IInv, NEW p \in Procs, NEW q \in Procs, p # q, NEW s \in Slots,
           s \in {fd[q], loc[q].at, loc[q].dp, loc[q].ip, loc[q].put}
    PROVE  leaked[s] + PtrCount(p, s) + 1 <= icache[s].ref
<1>1. TheirsIn(fd, loc, p, s) # {}
  <2>1. \E f \in Fields : PointsIn(fd, loc, q, f) = s
    BY DEF PointsIn, Fields
  <2>2. PICK f \in Fields : PointsIn(fd, loc, q, f) = s
    BY <2>1
  <2>3. <<q, f>> \in TheirsIn(fd, loc, p, s)
    BY <2>2 DEF TheirsIn
  <2> QED
    BY <2>3
<1>2. IsFiniteSet(TheirsIn(fd, loc, p, s))
  BY TheirsFinite
<1>3. PICK n : n = Cardinality(TheirsIn(fd, loc, p, s))
  OBVIOUS
<1>4. n \in Nat /\ n # 0
  BY <1>1, <1>2, <1>3, FS_EmptySet, FS_CardinalityType
<1>5. icache[s].ref = Frac(s = ROOT) + leaked[s] + Cardinality(Pointers(s))
  BY DEF IInv, RefsExact
<1>6. Cardinality(Pointers(s)) = n + PtrCount(p, s)
  BY <1>3, PointersAre, PointersSplit DEF PtrCount
<1>7. leaked[s] \in Nat /\ PtrCount(p, s) \in Nat /\ Frac(s = ROOT) \in Nat
  BY DEF IInv, TypeOK, PtrCount, CountIn, Frac
<1> QED
  BY <1>4, <1>5, <1>6, <1>7

LEMMA QuietForsaken ==
    ASSUME IInv, TypeOK', NEW p \in Procs, NEW g, NEW x, QuietStep(p, g, x),
           NEW s \in Slots, s # g, Forsaken(s), loc[p].ip # s
    PROVE  Forsaken(s)' /\ \A q \in Procs : loc'[q].ip = s => loc[q].ip = s /\ q # p
<1>0. Others(p) /\ PtrQuiet(p, g, x)
  BY DEF QuietStep
<1>1. s \notin Kin(p) /\ s # 0 /\ (loc[p].put = s => Leaving(p))
  BY Constants DEF Kin, Forsaken
<1>2. s \notin Kin(p)' /\ loc'[p].put # s
  BY <1>0, <1>1 DEF PtrQuiet, Leaving
<1>3. leaked'[s] = 0
  <2>1. /\ leaked[s] = 0 /\ leaked'[s] >= leaked[s] /\ ~(leaked'[s] > leaked[s])
        /\ leaked'[s] \in Nat
    BY <1>0 DEF Forsaken, PtrQuiet, TypeOK
  <2> QED
    BY <2>1
<1>4. ASSUME NEW q \in Procs
      PROVE  /\ fd'[q] # s /\ loc'[q].at # s /\ loc'[q].dp # s
             /\ loc'[q].put = s => Leaving(q)'
             /\ loc'[q].ip = s => loc[q].ip = s /\ q # p
  <2>1. CASE q = p
    BY <1>2, <2>1 DEF Kin
  <2>2. CASE q # p
    BY <1>0, <2>2, OthersSame DEF Forsaken, Leaving
  <2> QED
    BY <2>1, <2>2
<1> QED
  BY <1>3, <1>4 DEF Forsaken

LEMMA QuietAlive ==
    ASSUME IInv, TypeOK', RefsExact', SlotsApart', NEW p \in Procs, NEW g, NEW x,
           QuietStep(p, g, x)
    PROVE  Alive'
<1>0. /\ dinode' = dinode /\ ents' = ents /\ Others(p) /\ CacheQuiet(g, x) /\ LabelQuiet(p)
      /\ PtrQuiet(p, g, x)
  BY DEF QuietStep
<1>1. \A s \in Slots : Pointed(s)' =>
             /\ Inum(s)' \in Inums
             /\ SlotQuiet(s) \/ (s = g /\ Recycled(s))
             /\ Pointed(s) => SlotQuiet(s) /\ Inum(s) \in Inums /\ Inum(s)' = Inum(s)
  BY <1>0, QuietSlots
<1>2. \A i \in Inums : dinode[i].type = "free" => dinode[i].nlink = 0
  BY DEF IInv, Alive
<1>3. g \in Slots => Inum(g)' \in Inums /\ dinode[Inum(g)'].type # "free"
  <2> SUFFICES ASSUME g \in Slots
               PROVE  Inum(g)' \in Inums /\ dinode[Inum(g)'].type # "free"
    OBVIOUS
  <2>1. dinode[icache'[g].inum].nlink > 0 /\ icache'[g].ref + Frac(g = x) = icache[g].ref + Frac(g = g)
    BY <1>0 DEF CacheQuiet
  <2>2. g # x /\ icache[g].ref \in Nat /\ icache'[g].ref \in Nat
    <3>1. g # 0 /\ (g = 0 \/ x = 0)
      BY <1>0, Constants DEF CacheQuiet
    <3> QED
      BY <3>1 DEF IInv, TypeOK
  <2>3. icache'[g].ref # 0
    BY <2>1, <2>2 DEF Frac
  <2>4. Inum(g)' \in Inums
    BY <2>3 DEF SlotsApart, Apart, Inum, TypeOK
  <2> QED
    BY <1>2, <2>1, <2>4, LinkedNotFree DEF Inum
<1>4. ASSUME NEW s \in Slots, Inum(s)' # 0, dinode[Inum(s)'].type = "free"
      PROVE  /\ Forsaken(s)' /\ \A q \in Procs : loc'[q].ip # s
             /\ icache'[s].valid => Freeing(s)'
  <2>1. s # g
    BY <1>3, <1>4
  <2>2. Inum(s) = Inum(s)' /\ Inum(s) # 0
    BY <1>0, <1>4, <2>1 DEF CacheQuiet, SlotQuiet, Inum
  <2>3. /\ Forsaken(s) /\ \A q \in Procs : loc[q].ip # s
        /\ icache[s].valid => Freeing(s)
    BY <1>4, <2>2 DEF IInv, Alive
  <2>4. Freeing(s) => Freeing(s)'
    BY <1>0, OthersSame DEF Freeing, LabelQuiet
  <2>5. icache'[s].valid => icache[s].valid
    <3>1. CASE s = x
      <4>1. IF icache[s].ref > 1 THEN SlotQuiet(s) ELSE icache'[s].inum = 0 /\ ~icache'[s].valid
        BY <1>0, <3>1 DEF CacheQuiet
      <4> QED
        BY <1>4, <2>2, <4>1 DEF SlotQuiet, Inum
    <3>2. CASE s # x
      <4>1. SlotQuiet(s)
        BY <1>0, <2>1, <3>2 DEF CacheQuiet
      <4> QED
        BY <1>4, <2>2, <4>1 DEF SlotQuiet, Inum
    <3> QED
      BY <3>1, <3>2
  <2> QED
    BY <2>1, <2>3, <2>4, <2>5, QuietForsaken
<1>5. ASSUME NEW q \in Procs, loc'[q].dp # 0
      PROVE  dinode[Inum(loc[q].dp)'].type = "dir"
  <2>1. CASE q = p
    BY <1>0, <1>5, <2>1 DEF LabelQuiet
  <2>2. CASE q # p
    <3>1. loc'[q].dp = loc[q].dp
      BY <1>0, <2>2, OthersSame
    <3>2. PICK s \in Slots : s = loc[q].dp
      BY <1>5, <3>1 DEF IInv, TypeOK, CallRecs
    <3>3. Pointed(s) /\ Pointed(s)'
      BY <3>1, <3>2 DEF Pointed
    <3>4. icache'[s].inum = icache[s].inum
      BY <1>1, <3>3 DEF Inum
    <3>5. dinode[icache[s].inum].type = "dir"
      BY <1>5, <3>1, <3>2 DEF IInv, Alive, Inum
    <3> QED
      BY <3>1, <3>2, <3>4, <3>5 DEF Inum
  <2> QED
    BY <2>1, <2>2
<1>6. ASSUME NEW q \in Procs, Linking(q)'
      PROVE  dinode[Inum(loc[q].ip)'].type = "file"
  <2>1. Linking(q) /\ loc'[q].ip = loc[q].ip
    BY <1>0, <1>6, OthersSame DEF LabelQuiet
  <2>2. loc[q].ip # 0
    BY <2>1 DEF IInv, Shape, ShapeOf
  <2>3. PICK s \in Slots : s = loc[q].ip
    BY <2>2 DEF IInv, TypeOK, CallRecs
  <2>4. Pointed(s) /\ Pointed(s)'
    BY <2>1, <2>3 DEF Pointed
  <2>5. icache'[s].inum = icache[s].inum
    BY <1>1, <2>4 DEF Inum
  <2>6. dinode[icache[s].inum].type = "file"
    BY <2>1, <2>3 DEF IInv, Alive, Inum
  <2> QED
    BY <2>1, <2>3, <2>5, <2>6 DEF Inum
<1>7. \A i \in Inums : dinode'[i].type = "free" => Entries(i)' = {} /\ dinode'[i].nlink = 0
  BY <1>0 DEF IInv, Alive, Entries
<1>8. /\ dinode'[ROOTINO].type = "dir"
      /\ \A i \in Inums : dinode'[i].type # "dir" => ents'[i] = Empty
  BY <1>0 DEF IInv, Alive
<1> QED
  BY <1>0, <1>4, <1>5, <1>6, <1>7, <1>8 DEF Alive

LEMMA PtrTypes ==
    ASSUME TypeOK, TypeOK', NEW p \in Procs, NEW s \in Slots
    PROVE  /\ PtrCount(p, s) \in Nat /\ PtrCount(p, s)' \in Nat
           /\ leaked[s] \in Nat /\ leaked'[s] \in Nat
           /\ icache[s].ref \in Nat /\ icache'[s].ref \in Nat
BY DEF PtrCount, CountIn, Frac, TypeOK

LEMMA QuietMaking ==
    ASSUME IInv, TypeOK', RefsExact', SlotsApart', NEW p \in Procs, NEW g, NEW x,
           QuietStep(p, g, x)
    PROVE  Making' /\ Truncating'
<1>0. /\ dinode' = dinode /\ ents' = ents /\ Others(p) /\ CacheQuiet(g, x) /\ LabelQuiet(p)
      /\ PtrQuiet(p, g, x)
  BY DEF QuietStep
<1>1. \A s \in Slots : Pointed(s)' =>
             /\ Inum(s)' \in Inums
             /\ SlotQuiet(s) \/ (s = g /\ Recycled(s))
             /\ Pointed(s) => SlotQuiet(s) /\ Inum(s) \in Inums /\ Inum(s)' = Inum(s)
  BY <1>0, QuietSlots
<1>2. ASSUME NEW q \in Procs, pc'[q] = "createinit"
      PROVE  MakingOf(q)'
  <2>1. q # p
    BY <1>0, <1>2 DEF LabelQuiet
  <2>2. loc'[q] = loc[q] /\ pc'[q] = pc[q]
    BY <1>0, <2>1, OthersSame
  <2>3. MakingOf(q) /\ loc[q].ip # 0 /\ loc[q].dp # 0
    BY <1>2, <2>2 DEF IInv, Making, Shape, ShapeOf, Label, Putting
  <2>4. PICK s \in Slots, d \in Slots : s = loc[q].ip /\ d = loc[q].dp
    BY <2>3 DEF IInv, TypeOK, CallRecs
  <2>5. Pointed(s) /\ Pointed(s)' /\ Pointed(d) /\ Pointed(d)'
    BY <2>2, <2>4 DEF Pointed
  <2>6. icache'[s].inum = icache[s].inum /\ icache'[d].inum = icache[d].inum /\ Inum(s) \in Inums
    BY <1>1, <2>5 DEF Inum
  <2>7. /\ dinode[icache[s].inum] = [type |-> TypeFor(loc[q].op), nlink |-> 0]
        /\ Entries(icache[s].inum) = {} /\ ents[icache[s].inum] = Empty
        /\ Forsaken(s) /\ \A r \in Procs : loc[r].ip = s => r = q
        /\ ents[icache[d].inum][Name(q)] = 0
    BY <2>3, <2>4 DEF MakingOf, Inum
  <2>8. s # g
    <3>1. dinode[icache[s].inum].nlink = 0
      BY <2>7
    <3>2. s = g => dinode[icache'[s].inum].nlink > 0
      BY <1>0 DEF CacheQuiet
    <3> QED
      BY <2>6, <3>1, <3>2
  <2>9. Forsaken(s)' /\ \A r \in Procs : loc'[r].ip = s => r = q
    <3>1. loc[p].ip # s
      BY <2>1, <2>7
    <3> QED
      BY <2>7, <2>8, <3>1, QuietForsaken
  <2>10. /\ dinode'[icache'[s].inum] = [type |-> TypeFor(loc'[q].op), nlink |-> 0]
         /\ ents'[icache'[s].inum] = Empty
         /\ ents'[icache'[d].inum][Name(q)'] = 0
    BY <1>0, <2>2, <2>6, <2>7 DEF Name
  <2>11. Entries(icache[s].inum)' = {}
    BY <1>0, <2>6, <2>7 DEF Entries
  <2> QED
    BY <2>2, <2>4, <2>9, <2>10, <2>11 DEF MakingOf, Inum
<1>3. ASSUME NEW q \in Procs, pc'[q] = "trunc"
      PROVE  icache'[loc'[q].put].ref = 1 /\ icache'[loc'[q].put].nlink = 0
  <2>1. CASE q = p
    BY <1>0, <1>3, <2>1 DEF LabelQuiet
  <2>2. CASE q # p
    <3>1. loc'[q] = loc[q] /\ pc'[q] = pc[q]
      BY <1>0, <2>2, OthersSame
    <3>2. loc[q].put # 0
      BY <1>3, <3>1 DEF IInv, Shape, ShapeOf, Putting
    <3>3. PICK s \in Slots : s = loc[q].put
      BY <3>2 DEF IInv, TypeOK, CallRecs
    <3>4. icache[s].ref = 1 /\ icache[s].nlink = 0
      BY <1>3, <3>1, <3>3 DEF IInv, Truncating
    <3>5. icache[s].valid
      <4>1. Holds(q, s)
        BY <1>3, <3>1, <3>3 DEF Holds, HoldsPut
      <4>2. lock[s] = q
        BY <4>1 DEF IInv, Locks
      <4> QED
        BY <4>2, Constants DEF IInv, Locks
    <3>6. Pointed(s) /\ Pointed(s)'
      BY <3>1, <3>3 DEF Pointed
    <3>7. SlotQuiet(s)
      BY <1>1, <3>6
    <3>8. s # g
      <4>1. dinode[icache[s].inum].nlink = 0
        BY <3>4, <3>5 DEF IInv, Coherent, Inum
      <4>2. s = g => dinode[icache'[s].inum].nlink > 0
        BY <1>0 DEF CacheQuiet
      <4> QED
        BY <3>7, <4>1, <4>2 DEF SlotQuiet
    <3>9. s # x
      <4> SUFFICES ASSUME s = x PROVE FALSE
        OBVIOUS
      <4>1. leaked[s] + PtrCount(p, s) + 1 <= icache[s].ref
        BY <2>2, <3>3, TheirsCount
      <4>2. leaked'[s] + PtrCount(p, s)' + 1 = leaked[s] + PtrCount(p, s)
        <5>1. leaked'[s] + PtrCount(p, s)' + 1 = leaked[s] + PtrCount(p, s) + 0
          BY <1>0, <3>8 DEF PtrQuiet, Frac
        <5> QED
          BY <5>1, PtrTypes DEF IInv
      <4> QED
        BY <3>4, <4>1, <4>2, PtrTypes DEF IInv
    <3>10. icache'[s].ref = icache[s].ref
      <4>1. icache'[s].ref + 0 = icache[s].ref + 0
        BY <1>0, <3>8, <3>9 DEF CacheQuiet, Frac
      <4>2. icache'[s].ref \in Nat /\ icache[s].ref \in Nat
        BY DEF TypeOK, IInv
      <4> QED
        BY <4>1, <4>2
    <3> QED
      BY <3>1, <3>3, <3>4, <3>5, <3>7, <3>10 DEF SlotQuiet
  <2> QED
    BY <2>1, <2>2
<1>4. ASSUME NEW q \in Procs, pc'[q] = "freed"
      PROVE  \/ dinode'[Inum(loc[q].put)'].type = "free"
             \/ \E o \in Procs : pc'[o] = "createinit" /\ loc'[o].ip = loc'[q].put
  <2>1. q # p
    BY <1>0, <1>4 DEF LabelQuiet
  <2>2. loc'[q] = loc[q] /\ pc'[q] = pc[q]
    BY <1>0, <2>1, OthersSame
  <2>3. loc[q].put # 0
    BY <1>4, <2>2 DEF IInv, Shape, ShapeOf, Putting
  <2>4. PICK s \in Slots : s = loc[q].put
    BY <2>3 DEF IInv, TypeOK, CallRecs
  <2>5. Pointed(s) /\ Pointed(s)'
    BY <2>2, <2>4 DEF Pointed
  <2>6. icache'[s].inum = icache[s].inum
    BY <1>1, <2>5 DEF Inum
  <2>7. \/ dinode[icache[s].inum].type = "free"
        \/ \E o \in Procs : pc[o] = "createinit" /\ loc[o].ip = s
    BY <1>4, <2>2, <2>4 DEF IInv, Truncating, Inum
  <2>8. ASSUME NEW o \in Procs, pc[o] = "createinit"
        PROVE  pc'[o] = "createinit" /\ loc'[o] = loc[o]
    BY <1>0, <2>8, OthersSame DEF LabelQuiet
  <2> QED
    BY <1>0, <2>2, <2>4, <2>6, <2>7, <2>8 DEF Inum
<1> QED
  BY <1>2, <1>3, <1>4 DEF Making, Truncating

LEMMA QuietCounted ==
    ASSUME IInv, TypeOK', RefsExact', SlotsApart', NEW p \in Procs, NEW g, NEW x,
           QuietStep(p, g, x)
    PROVE  Counted' /\ NoLoops'
<1>0. /\ dinode' = dinode /\ ents' = ents /\ Others(p) /\ CacheQuiet(g, x) /\ LabelQuiet(p)
  BY DEF QuietStep
<1>1. \A s \in Slots : Pointed(s) /\ Pointed(s)' => icache'[s].inum = icache[s].inum
  BY <1>0, QuietSlots DEF Inum
<1>2. \A q \in Procs : /\ Linking(q)' <=> Linking(q)
                       /\ Label(q)' = "unlinkdec" <=> Label(q) = "unlinkdec"
                       /\ Linking(q) \/ Label(q) = "unlinkdec" => loc'[q].ip = loc[q].ip
  BY <1>0, OthersSame DEF LabelQuiet
<1>3. ASSUME NEW q \in Procs, Linking(q) \/ Label(q) = "unlinkdec"
      PROVE  Inum(loc[q].ip)' = Inum(loc[q].ip)
  <2>1. loc[q].ip # 0
    BY <1>3 DEF IInv, Shape, ShapeOf
  <2>2. PICK s \in Slots : s = loc[q].ip
    BY <2>1 DEF IInv, TypeOK, CallRecs
  <2>3. Pointed(s) /\ Pointed(s)'
    BY <1>2, <1>3, <2>2 DEF Pointed
  <2> QED
    BY <1>1, <1>2, <1>3, <2>2, <2>3 DEF Inum
<1>4. \A i : Linkers(i)' = Linkers(i) /\ Unlinkers(i)' = Unlinkers(i)
  BY <1>2, <1>3 DEF Linkers, Unlinkers
<1>5. \A i : Entries(i)' = Entries(i) /\ DirKids(i)' = DirKids(i)
  BY <1>0 DEF Entries, DirKids
<1>6. Counted'
  BY <1>0, <1>4, <1>5 DEF IInv, Counted, FileCounted, DirCounted, Up
<1> QED
  BY <1>0, <1>6 DEF IInv, NoLoops

LEMMA QuietNamed ==
    ASSUME IInv, TypeOK', RefsExact', SlotsApart', NEW p \in Procs, NEW g, NEW x,
           QuietStep(p, g, x)
    PROVE  Named' /\ Known'
<1>0. /\ dinode' = dinode /\ ents' = ents /\ Others(p) /\ CacheQuiet(g, x) /\ LabelQuiet(p)
      /\ PtrQuiet(p, g, x) /\ NamedOf(p)'
  BY DEF QuietStep
<1>1. \A s \in Slots : Pointed(s)' =>
             /\ Inum(s)' \in Inums
             /\ SlotQuiet(s) \/ (s = g /\ Recycled(s))
             /\ Pointed(s) => SlotQuiet(s) /\ Inum(s) \in Inums /\ Inum(s)' = Inum(s)
  BY <1>0, QuietSlots
<1>2. ASSUME NEW q \in Procs, q # p
      PROVE  NamedOf(q)'
  <2>1. fd'[q] = fd[q] /\ loc'[q] = loc[q] /\ pc'[q] = pc[q] /\ Label(q)' = Label(q)
    BY <1>0, <1>2, OthersSame
  <2>2. \A s \in Slots : s \in {loc[q].dp, loc[q].ip, loc[q].put} =>
                            icache'[s].inum = icache[s].inum
    <3> SUFFICES ASSUME NEW s \in Slots, s \in {loc[q].dp, loc[q].ip, loc[q].put}
                 PROVE  icache'[s].inum = icache[s].inum
      OBVIOUS
    <3>1. Pointed(s) /\ Pointed(s)'
      BY <2>1 DEF Pointed
    <3> QED
      BY <1>1, <3>1 DEF Inum
  <2>3. /\ loc[q].dp \in Slots \union {0} /\ loc[q].ip \in Slots \union {0}
        /\ loc[q].put \in Slots \union {0}
    BY DEF IInv, TypeOK, CallRecs
  <2>4. NamedOf(q) /\ ShapeOf(q)
    BY DEF IInv, Named, Shape
  <2>5. CASE Label(q) = "unlinkip"
    <3>1. loc[q].dp # 0 /\ loc[q].ip # 0
      BY <2>4, <2>5 DEF ShapeOf
    <3>2. ents[Inum(loc[q].dp)][Name(q)] = Inum(loc[q].ip)
      BY <2>4, <2>5 DEF NamedOf
    <3>3. Inum(loc[q].dp)' = Inum(loc[q].dp) /\ Inum(loc[q].ip)' = Inum(loc[q].ip)
      BY <2>1, <2>2, <2>3, <3>1 DEF Inum
    <3> QED
      BY <1>0, <2>1, <2>5, <3>2, <3>3 DEF NamedOf, Name
  <2>6. CASE Label(q) \in {"linkclash", "unlinkbad"} /\ pc[q] = "iput"
    <3>1. loc[q].dp # 0 /\ loc[q].put # 0
      BY <2>4, <2>6 DEF ShapeOf, Putting
    <3>2. \E n \in Names : ents[Inum(loc[q].dp)][n] = Inum(loc[q].put)
      BY <2>4, <2>6 DEF NamedOf
    <3>3. Inum(loc[q].dp)' = Inum(loc[q].dp) /\ Inum(loc[q].put)' = Inum(loc[q].put)
      BY <2>1, <2>2, <2>3, <3>1 DEF Inum
    <3> QED
      BY <1>0, <2>1, <2>6, <3>2, <3>3 DEF NamedOf
  <2> QED
    BY <2>1, <2>5, <2>6 DEF NamedOf
<1>3. Named'
  BY <1>0, <1>2 DEF Named
<1>4. ASSUME NEW q \in Procs, NEW s \in Uses(q)'
      PROVE  icache'[s].valid \/ dinode[icache'[s].inum].nlink > 0
  <2>1. s \in Slots
    <3>1. s \in {fd'[q], loc'[q].at, loc'[q].dp, loc'[q].ip, loc'[q].put} /\ s # 0
      BY DEF Uses
    <3> QED
      BY <3>1 DEF TypeOK, CallRecs
  <2>2. Pointed(s)'
    BY <2>1 DEF Uses, Pointed
  <2>3. CASE s \in Uses(q)
    <3>1. Pointed(s)
      BY <2>1, <2>3 DEF Uses, Pointed
    <3>2. icache[s].valid \/ dinode[Inum(s)].nlink > 0
      BY <2>3 DEF IInv, Known
    <3> QED
      BY <1>1, <2>1, <2>2, <3>1, <3>2 DEF SlotQuiet, Inum
  <2>4. CASE s = g
    BY <1>0, <2>1, <2>4 DEF CacheQuiet
  <2>5. CASE s \notin Uses(q) /\ s # g
    <3>1. q = p
      BY <1>0, <2>5, OthersSame DEF Uses
    <3>2. s # 0
      BY <2>1, Constants
    <3>3. s \notin Kin(p)
      BY <1>0, <2>5, <3>1, <3>2 DEF Uses, Kin, LabelQuiet
    <3>4. s \notin Kin(p)'
      BY <1>0, <2>5, <3>2, <3>3 DEF PtrQuiet
    <3>5. loc'[p].put = s /\ pc'[p] = "iput"
      BY <3>1, <3>2, <3>4 DEF Uses, Kin
    <3>6. loc[p].put = s /\ pc[p] = "iput"
      BY <1>0, <2>5, <3>2, <3>3, <3>5 DEF PtrQuiet
    <3> QED
      BY <2>5, <3>1, <3>2, <3>6 DEF Uses
  <2> QED
    BY <2>3, <2>4, <2>5
<1> QED
  BY <1>0, <1>3, <1>4 DEF Known, Inum

LEMMA QuietNoneLost ==
    ASSUME IInv, TypeOK', RefsExact', SlotsApart', NEW p \in Procs, NEW g, NEW x,
           QuietStep(p, g, x), KeepQuiet(p)
    PROVE  NoneLost'
<1>0. /\ dinode' = dinode /\ overlap \subseteq overlap' /\ Others(p) /\ CacheQuiet(g, x)
      /\ PtrQuiet(p, g, x)
  BY DEF QuietStep
<1> SUFFICES ASSUME NEW i \in Inums, dinode[i].type # "free", dinode[i].nlink = 0,
                    i \notin overlap
             PROVE  \E s \in Slots : Inum(s)' = i /\ Kept(s)'
  BY <1>0 DEF NoneLost
<1>1. PICK s \in Slots : Inum(s) = i /\ Kept(s)
  BY DEF IInv, NoneLost
<1>2. Kept(s)'
  <2>1. CASE leaked[s] > 0
    <3>1. leaked'[s] >= leaked[s] /\ leaked[s] \in Nat /\ leaked'[s] \in Nat
      BY <1>0 DEF PtrQuiet, TypeOK, IInv
    <3> QED
      BY <2>1, <3>1 DEF Kept
  <2>2. ASSUME NEW q \in Procs, Keeps(q, s)
        PROVE  Kept(s)'
    <3>1. CASE q = p
      BY <2>2, <3>1 DEF KeepQuiet, Kept
    <3>2. CASE q # p
      BY <1>0, <2>2, <3>2, OthersSame DEF Keeps, Kept
    <3> QED
      BY <3>1, <3>2
  <2> QED
    BY <1>1, <2>1, <2>2 DEF Kept
<1>3. Pointed(s) /\ Pointed(s)'
  BY <1>1, <1>2 DEF Kept, Keeps, Pointed
<1> QED
  BY <1>0, <1>1, <1>2, <1>3, QuietSlots

\* A quiet step keeps the whole invariant.
LEMMA QuietInv ==
    ASSUME IInv, TypeOK', NEW p \in Procs, NEW g, NEW x,
           QuietStep(p, g, x), KeepQuiet(p) \/ NoneLost'
    PROVE  IInv'
<1>0. Others(p) /\ CacheQuiet(g, x) /\ PtrQuiet(p, g, x) /\ ShapeOf(p)'
  BY DEF QuietStep
<1>1. RefsExact'
  <2>1. ASSUME NEW s \in Slots
        PROVE  icache'[s].ref + leaked[s] + PtrCount(p, s)
                 = icache[s].ref + leaked'[s] + PtrCount(p, s)'
    <3>1. icache'[s].ref + Frac(s = x) = icache[s].ref + Frac(s = g)
      BY <1>0 DEF CacheQuiet
    <3>2. leaked'[s] + PtrCount(p, s)' + Frac(s = x) = leaked[s] + PtrCount(p, s) + Frac(s = g)
      BY <1>0 DEF PtrQuiet
    <3>3. Frac(s = x) \in Nat /\ Frac(s = g) \in Nat
      BY DEF Frac
    <3> QED
      BY <3>1, <3>2, <3>3, PtrTypes DEF IInv
  <2> QED
    BY <1>0, <2>1, RefsStep DEF IInv
<1>2. SlotsApart'
  BY <1>0, <1>1, QuietApart DEF IInv
<1>3. Shape'
  BY <1>0, ShapeStep DEF IInv
<1>4. Coherent' /\ Locks'
  BY <1>1, <1>2, QuietCoherent
<1>5. Alive'
  BY <1>1, <1>2, QuietAlive
<1>6. Making' /\ Truncating'
  BY <1>1, <1>2, QuietMaking
<1>7. Counted' /\ NoLoops'
  BY <1>1, <1>2, QuietCounted
<1>8. Named' /\ Known'
  BY <1>1, <1>2, QuietNamed
<1>9. NoneLost'
  BY <1>1, <1>2, QuietNoneLost
<1> QED
  BY <1>1, <1>2, <1>3, <1>4, <1>5, <1>6, <1>7, <1>8, <1>9 DEF IInv

-----------------------------------------------------------------------------
(* What the calls' variables become *)

LEMMA NoCallIs == NoCall \in CallRecs
BY DEF NoCall, CallRecs, PCs

LEMMA PutIs ==
    ASSUME NEW r \in CallRecs, NEW f \in {"at", "dp", "ip"}, NEW ret \in PCs \union {"putip"}
    PROVE  /\ Put(r, f, ret) \in CallRecs
           /\ Put(r, f, ret).put = r[f] /\ Put(r, f, ret).ret = ret
           /\ ret = "idle" => Put(r, f, ret) = [NoCall EXCEPT !.put = r[f]]
           /\ ret # "idle" => Put(r, f, ret) = [r EXCEPT ![f] = 0, !.put = r[f], !.ret = ret]
<1>1. r[f] \in Slots \union {0}
  <2>1. f = "at" => r[f] \in Slots \union {0}
    BY DEF CallRecs
  <2>2. f = "dp" => r[f] \in Slots \union {0}
    BY DEF CallRecs
  <2>3. f = "ip" => r[f] \in Slots \union {0}
    BY DEF CallRecs
  <2> QED
    BY <2>1, <2>2, <2>3
<1>2. CASE ret = "idle"
  BY <1>1, <1>2, NoCallIs DEF Put, CallRecs, NoCall
<1>3. CASE ret # "idle"
  <2>1. PICK x : x = [r EXCEPT ![f] = 0, !.put = r[f], !.ret = ret]
    OBVIOUS
  <2>2. Put(r, f, ret) = x
    BY <1>3, <2>1 DEF Put
  <2>3. PICK z \in Slots \union {0} : z = r[f]
    BY <1>1
  <2>4. x = [r EXCEPT ![f] = 0, !.put = z, !.ret = ret]
    BY <2>1, <2>3
  <2>5. ASSUME f = "at"
        PROVE  x \in CallRecs /\ x.put = z /\ x.ret = ret
    <3>1. x = [r EXCEPT !.at = 0, !.put = z, !.ret = ret]
      BY <2>4, <2>5
    <3> QED
      BY <3>1 DEF CallRecs
  <2>6. ASSUME f = "dp"
        PROVE  x \in CallRecs /\ x.put = z /\ x.ret = ret
    <3>1. x = [r EXCEPT !.dp = 0, !.put = z, !.ret = ret]
      BY <2>4, <2>6
    <3> QED
      BY <3>1 DEF CallRecs
  <2>7. ASSUME f = "ip"
        PROVE  x \in CallRecs /\ x.put = z /\ x.ret = ret
    <3>1. x = [r EXCEPT !.ip = 0, !.put = z, !.ret = ret]
      BY <2>4, <2>7
    <3> QED
      BY <3>1 DEF CallRecs
  <2>8. x \in CallRecs /\ x.put = z /\ x.ret = ret
    BY <2>5, <2>6, <2>7
  <2> QED
    BY <1>3, <2>1, <2>2, <2>3, <2>8
<1> QED
  BY <1>2, <1>3

\* Where a call goes on when only its references and its way change.
Onward(r, n, at, dp, ip, put, ret) ==
    /\ n \in CallRecs
    /\ n.op = r.op /\ n.old = r.old /\ n.new = r.new /\ n.phase = r.phase /\ n.par = r.par
    /\ n.at = at /\ n.dp = dp /\ n.ip = ip /\ n.put = put /\ n.ret = ret

\* A call that is over but for an iput.
Over(n, put) ==
    /\ n \in CallRecs /\ n.op = "none" /\ n.phase = 0 /\ n.ret = "idle"
    /\ n.at = 0 /\ n.dp = 0 /\ n.ip = 0 /\ n.put = put

LEMMA OverIs ==
    ASSUME NEW k \in Slots \union {0}
    PROVE  Over([NoCall EXCEPT !.put = k], k) /\ Over(NoCall, 0)
BY NoCallIs DEF Over, NoCall, CallRecs

LEMMA PutOver ==
    ASSUME NEW r \in CallRecs
    PROVE  /\ Over(Put(r, "at", "idle"), r.at) /\ Over(Put(r, "dp", "idle"), r.dp)
           /\ Over(Put(r, "ip", "idle"), r.ip)
<1>1. r.at \in Slots \union {0} /\ r.dp \in Slots \union {0} /\ r.ip \in Slots \union {0}
  BY DEF CallRecs
<1>2. /\ Put(r, "at", "idle") = [NoCall EXCEPT !.put = r.at]
      /\ Put(r, "dp", "idle") = [NoCall EXCEPT !.put = r.dp]
      /\ Put(r, "ip", "idle") = [NoCall EXCEPT !.put = r.ip]
  BY DEF Put
<1> QED
  BY <1>1, <1>2, OverIs

LEMMA PutOnward ==
    ASSUME NEW r \in CallRecs, NEW ret \in PCs \union {"putip"}, ret # "idle"
    PROVE  /\ Onward(r, Put(r, "at", ret), 0, r.dp, r.ip, r.at, ret)
           /\ Onward(r, Put(r, "dp", ret), r.at, 0, r.ip, r.dp, ret)
           /\ Onward(r, Put(r, "ip", ret), r.at, r.dp, 0, r.ip, ret)
           /\ Put(r, "at", ret).rest = r.rest /\ Put(r, "dp", ret).rest = r.rest
           /\ Put(r, "ip", ret).rest = r.rest
<1>1. /\ Put(r, "at", ret) = [r EXCEPT !.at = 0, !.put = r.at, !.ret = ret]
      /\ Put(r, "dp", ret) = [r EXCEPT !.dp = 0, !.put = r.dp, !.ret = ret]
      /\ Put(r, "ip", ret) = [r EXCEPT !.ip = 0, !.put = r.ip, !.ret = ret]
  BY DEF Put
<1>2. /\ Put(r, "at", ret) \in CallRecs /\ Put(r, "dp", ret) \in CallRecs
      /\ Put(r, "ip", ret) \in CallRecs
  BY PutIs
<1>3. /\ Onward(r, Put(r, "at", ret), 0, r.dp, r.ip, r.at, ret)
      /\ Put(r, "at", ret).rest = r.rest
  BY <1>1, <1>2 DEF Onward, CallRecs
<1>4. /\ Onward(r, Put(r, "dp", ret), r.at, 0, r.ip, r.dp, ret)
      /\ Put(r, "dp", ret).rest = r.rest
  BY <1>1, <1>2 DEF Onward, CallRecs
<1>5. /\ Onward(r, Put(r, "ip", ret), r.at, r.dp, 0, r.ip, ret)
      /\ Put(r, "ip", ret).rest = r.rest
  BY <1>1, <1>2 DEF Onward, CallRecs
<1> QED
  BY <1>3, <1>4, <1>5

LEMMA StepIs ==
    ASSUME TypeOK, NEW p \in Procs, NEW l \in PCs, NEW n \in CallRecs, Step(p, l, n)
    PROVE  /\ pc' \in [Procs -> PCs] /\ loc' \in [Procs -> CallRecs]
           /\ pc'[p] = l /\ loc'[p] = n
           /\ \A q \in Procs : q # p => pc'[q] = pc[q] /\ loc'[q] = loc[q]
BY DEF Step, TypeOK

-----------------------------------------------------------------------------
(* What a process finds *)

LEMMA EntriesFinite == \A i : IsFiniteSet(Entries(i)) /\ Cardinality(Entries(i)) \in Nat
<1>1. IsFiniteSet(Inums \X Names)
  BY Constants, DirAssumption, FS_Product
<1>2. \A i : Entries(i) \subseteq Inums \X Names
  BY DEF Entries
<1> QED
  BY <1>1, <1>2, FS_Subset, FS_CardinalityType

LEMMA CallsFinite ==
    \A i : /\ IsFiniteSet(Linkers(i)) /\ Cardinality(Linkers(i)) \in Nat
           /\ IsFiniteSet(Unlinkers(i)) /\ Cardinality(Unlinkers(i)) \in Nat
           /\ IsFiniteSet(DirKids(i)) /\ Cardinality(DirKids(i)) \in Nat
<1>1. \A i : Linkers(i) \subseteq Procs /\ Unlinkers(i) \subseteq Procs /\ DirKids(i) \subseteq Names
  BY DEF Linkers, Unlinkers, DirKids
<1> QED
  BY <1>1, DirAssumption, FS_Subset, FS_CardinalityType

\* What has a name has a link.
LEMMA NamedLinked ==
    ASSUME IInv, NEW i \in Inums, Entries(i) # {}
    PROVE  dinode[i].nlink > 0 /\ dinode[i].type # "free"
<1>1. dinode[i].type # "free"
  BY DEF IInv, Alive
<1>2. Cardinality(Entries(i)) > 0
  BY EntriesFinite, FS_EmptySet
<1>3. dinode[i].type \in Types /\ dinode[i].nlink \in Nat
  BY DEF IInv, TypeOK
<1>4. CASE dinode[i].type = "file"
  BY <1>2, <1>3, <1>4, EntriesFinite, CallsFinite DEF IInv, Counted, FileCounted
<1>5. CASE dinode[i].type = "dir"
  <2>1. dinode[i].nlink = Cardinality(DirKids(i)) + Up(i)
    BY <1>5 DEF IInv, Counted, DirCounted
  <2>2. Up(i) > 0 /\ Up(i) \in Nat
    BY <1>2, EntriesFinite, CallsFinite DEF Up, Frac
  <2> QED
    BY <1>1, <1>3, <2>1, <2>2, CallsFinite
<1> QED
  BY <1>1, <1>3, <1>4, <1>5 DEF Types

LEMMA EntryIs ==
    ASSUME NEW d \in Inums, NEW n \in Names, NEW i
    PROVE  /\ ents[d][n] = i <=> <<d, n>> \in Entries(i)
           /\ ents'[d][n] = i <=> <<d, n>> \in Entries(i)'
BY DEF Entries

LEMMA EntryLinked ==
    ASSUME IInv, NEW d \in Inums, NEW n \in Names, ents[d][n] # 0
    PROVE  /\ ents[d][n] \in Inums /\ dinode[ents[d][n]].nlink > 0
           /\ dinode[ents[d][n]].type # "free"
<1>1. PICK i : i = ents[d][n]
  OBVIOUS
<1>2. i \in Inums
  BY <1>1 DEF IInv, TypeOK
<1>3. <<d, n>> \in Entries(i)
  BY <1>1 DEF Entries
<1> QED
  BY <1>1, <1>2, <1>3, NamedLinked

LEMMA RootSlot ==
    ASSUME TypeOK, SlotsApart, NEW c, Fresh(c)
    PROVE  SlotOf(c, ROOTINO) = ROOT
<1>1. c \in Caches /\ Apart(c)
  BY FreshApart DEF Fresh
<1>2. PICK g \in Slots : g = SlotOf(c, ROOTINO)
  BY <1>1, SlotOfIs, Constants
<1>3. c[ROOT].inum = ROOTINO
  BY Constants DEF SlotsApart, Fresh, Inum
<1>4. c[g].ref > 0 /\ c[g].inum = ROOTINO
  BY <1>1, <1>2, <1>3, SlotOfIs, Constants
<1> QED
  BY <1>1, <1>2, <1>3, <1>4, Constants DEF Apart

LEMMA RootLinked ==
    ASSUME IInv
    PROVE  dinode[ROOTINO].nlink > 0 /\ SlotOf(icache, ROOTINO) = ROOT
<1>1. dinode[ROOTINO].type = "dir" /\ ROOTINO \in Inums
  BY Constants DEF IInv, Alive
<1>2. dinode[ROOTINO].nlink = Cardinality(DirKids(ROOTINO)) + Up(ROOTINO)
  BY <1>1 DEF IInv, Counted, DirCounted
<1>3. Up(ROOTINO) > 0 /\ Up(ROOTINO) \in Nat
  BY EntriesFinite, CallsFinite DEF Up, Frac
<1>4. dinode[ROOTINO].nlink > 0
  BY <1>2, <1>3, CallsFinite
<1> QED
  BY <1>4, RootSlot, FreshSame DEF IInv

\* The lock of a slot is free or the process's own: nobody else is freeing the inode.
LEMMA NotFreeing ==
    ASSUME IInv, NEW s \in Slots, NEW p \in Procs, lock[s] = Nobody \/ lock[s] = p,
           pc[p] # "freed"
    PROVE  ~Freeing(s)
<1> SUFFICES ASSUME NEW q \in Procs, pc[q] = "freed", loc[q].put = s PROVE FALSE
  BY DEF Freeing
<1>1. Holds(q, s)
  BY DEF Holds, HoldsPut
<1>2. lock[s] = q
  BY <1>1 DEF IInv, Locks
<1> QED
  BY <1>2, Constants

LEMMA LoadedIs ==
    ASSUME IInv, NEW s \in Slots, Inum(s) \in Inums, dinode[Inum(s)].type # "free", ~Freeing(s)
    PROVE  /\ Load(icache, s)[s].type = dinode[Inum(s)].type
           /\ Load(icache, s)[s].nlink = dinode[Inum(s)].nlink
<1>1. CASE icache[s].valid
  BY <1>1 DEF Load, IInv, Coherent
<1>2. CASE ~icache[s].valid
  BY <1>2, LoadIs DEF Fresh, IInv
<1> QED
  BY <1>1, <1>2

\* What iput drops.
LEMMA UnrefQuiet ==
    ASSUME TypeOK, NEW x \in Slots, icache[x].ref > 0, icache' = Unref(icache, x)
    PROVE  CacheQuiet(0, x)
<1>1. icache \in Caches /\ icache[x] \in SlotRec /\ \A t \in Slots : icache[t].ref \in Nat /\ t # 0
  BY TypeOKIs, Constants DEF Caches, SlotRec
<1>2. PICK r : r = IF icache[x].ref > 1 THEN [icache[x] EXCEPT !.ref = @ - 1]
                   ELSE [FreeSlot EXCEPT !.file_type = icache[x].file_type, !.path = icache[x].path]
  OBVIOUS
<1>3. icache' = [icache EXCEPT ![x] = r]
  <2>1. Unref(icache, x) =
           [icache EXCEPT ![x] = IF icache[x].ref > 1 THEN [icache[x] EXCEPT !.ref = @ - 1]
              ELSE [FreeSlot EXCEPT !.file_type = icache[x].file_type, !.path = icache[x].path]]
    BY DEF Unref
  <2> QED
    BY <1>2, <2>1
<1>4. /\ r \in SlotRec /\ r.ref + 1 = icache[x].ref
      /\ icache[x].ref > 1 => /\ r.inum = icache[x].inum /\ r.valid = icache[x].valid
                              /\ r.type = icache[x].type /\ r.nlink = icache[x].nlink
      /\ ~(icache[x].ref > 1) => r.inum = 0 /\ ~r.valid
  <2>1. CASE icache[x].ref > 1
    BY <1>1, <1>2, <2>1 DEF SlotRec
  <2>2. CASE ~(icache[x].ref > 1)
    <3>1. r = [inum |-> 0, ref |-> 0, valid |-> FALSE, type |-> "free", nlink |-> 0,
               file_type |-> icache[x].file_type, path |-> icache[x].path]
      BY <1>2, <2>2 DEF FreeSlot
    <3>2. r \in SlotRec
      BY <1>1, <3>1 DEF SlotRec, Types
    <3>3. icache[x].ref = 1
      BY <1>1, <2>2
    <3> QED
      BY <2>2, <3>1, <3>2, <3>3
  <2> QED
    BY <2>1, <2>2
<1>5. icache' \in Caches /\ icache'[x] = r /\ \A t \in Slots : t # x => icache'[t] = icache[t]
  BY <1>1, <1>3, <1>4 DEF Caches
<1>6. \A t \in Slots : icache'[t].ref + Frac(t = x) = icache[t].ref + Frac(t = 0)
  BY <1>1, <1>4, <1>5 DEF Frac
<1>7. \A t \in Slots : t # x => SlotQuiet(t)
  BY <1>5 DEF SlotQuiet
<1>8. IF icache[x].ref > 1 THEN SlotQuiet(x) ELSE icache'[x].inum = 0 /\ ~icache'[x].valid
  BY <1>4, <1>5 DEF SlotQuiet
<1> QED
  BY <1>1, <1>5, <1>6, <1>7, <1>8 DEF CacheQuiet

LEMMA SameQuiet ==
    ASSUME TypeOK, icache' = icache
    PROVE  CacheQuiet(0, 0)
BY FreshSame, FreshQuiet

-----------------------------------------------------------------------------
(* Locks kept, taken and released *)

LEMMA LockKept ==
    ASSUME IInv, NEW p \in Procs, lock' = lock, \A s \in Slots : Holds(p, s)' <=> Holds(p, s)
    PROVE  LockMoves(p)
BY DEF LockMoves, IInv, Locks

LEMMA LockTaken ==
    ASSUME IInv, NEW p \in Procs, NEW d \in Slots, lock[d] = Nobody,
           lock' = [lock EXCEPT ![d] = p], icache'[d].valid,
           \A s \in Slots : Holds(p, s)' <=> Holds(p, s) \/ s = d
    PROVE  LockMoves(p)
<1>1. \A s \in Slots : lock'[s] = IF s = d THEN p ELSE lock[s]
  BY DEF IInv, TypeOK
<1>2. \A s \in Slots : lock[s] = p <=> Holds(p, s)
  BY DEF IInv, Locks
<1> QED
  BY <1>1, <1>2, Constants DEF LockMoves

LEMMA LockReleased ==
    ASSUME IInv, NEW p \in Procs, NEW d \in Slots, lock' = [lock EXCEPT ![d] = Nobody],
           \A s \in Slots : (Holds(p, s) <=> s = d) /\ ~Holds(p, s)'
    PROVE  LockMoves(p)
<1>1. \A s \in Slots : lock'[s] = IF s = d THEN Nobody ELSE lock[s]
  BY DEF IInv, TypeOK
<1>2. \A s \in Slots : lock[s] = p <=> s = d
  BY DEF IInv, Locks
<1> QED
  BY <1>1, <1>2, Constants DEF LockMoves

-----------------------------------------------------------------------------
(* The quiet actions *)

LEMMA CallKeeps ==
    ASSUME IInv, NEW p \in Procs, NEW op, NEW old \in Paths, NEW new \in Paths \union {<<>>},
           Call(p, op, old, new)
    PROVE  IInv'
<1> DEFINE m == Walk([NoCall EXCEPT !.op = op, !.new = new,
                         !.old = IF op \in {"open", "symlink"} THEN old ELSE <<>>],
                     old, op \in {"create", "mkdir", "unlink"}, 1)
<1>0. TypeOK /\ Fresh(icache) /\ Shape /\ SlotsApart /\ Named /\ ShapeOf(p) /\ pc[p] = "idle"
  BY FreshSame DEF IInv, Call, At, Shape
<1>1. PICK n : n = m
  OBVIOUS
<1>2. op \in Calls /\ old # <<>> /\ old \in Seq(Names) /\ (op \in {"link", "symlink"} <=> new # <<>>)
  BY DirAssumption DEF Call
<1>3. /\ n \in CallRecs /\ n.op = op /\ n.new = new /\ n.rest = old /\ n.phase = 1
      /\ n.par = (op \in {"create", "mkdir", "unlink"})
      /\ n.old = IF op \in {"open", "symlink"} THEN old ELSE <<>>
      /\ n.at = ROOT /\ n.dp = 0 /\ n.ip = 0 /\ n.put = 0 /\ n.ret = "idle"
  <2>1. PICK par \in BOOLEAN : par = (op \in {"create", "mkdir", "unlink"})
    <3>1. (op \in {"create", "mkdir", "unlink"}) \in BOOLEAN
      OBVIOUS
    <3> QED
      BY <3>1, Zenon
  <2>2. n = [op |-> op, old |-> IF op \in {"open", "symlink"} THEN old ELSE <<>>, new |-> new,
             rest |-> old, par |-> par, phase |-> 1, at |-> ROOT, dp |-> 0, ip |-> 0,
             put |-> 0, ret |-> "idle"]
    BY <1>1, <2>1 DEF Walk, NoCall
  <2>3. n \in CallRecs
    BY <1>2, <2>2, Constants DEF CallRecs, PCs
  <2> QED
    BY <2>1, <2>2, <2>3
<1>4. Step(p, "walk", n)
  BY <1>1 DEF Call
<1> HIDE DEF m
<1>5. /\ pc' \in [Procs -> PCs] /\ loc' \in [Procs -> CallRecs]
      /\ pc'[p] = "walk" /\ loc'[p] = n
      /\ \A q \in Procs : q # p => pc'[q] = pc[q] /\ loc'[q] = loc[q]
  BY <1>0, <1>3, <1>4, StepIs DEF PCs
<1>6. /\ dinode' = dinode /\ ents' = ents /\ lock' = lock /\ fd' = fd /\ leaked' = leaked
      /\ panicked' = panicked /\ overlap' = overlap /\ icache' = IGet(icache, ROOTINO)
  BY DEF Call
<1>7. /\ loc[p].at = 0 /\ loc[p].dp = 0 /\ loc[p].ip = 0 /\ loc[p].put = 0 /\ Label(p) = "idle"
      /\ ~Linking(p)
  BY <1>0 DEF ShapeOf, Label, Putting, Linking
<1>8. CacheQuiet(ROOT, 0)
  BY <1>0, <1>6, GetQuiet, RootLinked, Constants
<1>9. TypeOK'
  <2>1. calls' \in 0 .. MaxCalls
    BY <1>0, DirAssumption DEF Call, TypeOK
  <2> QED
    BY <1>0, <1>5, <1>6, <1>8, <2>1 DEF TypeOK, CacheQuiet, Caches, SlotRec
<1>10. Label(p)' = "walk" /\ (Linking(p)' <=> FALSE)
  BY <1>3, <1>5 DEF Label, Putting, Linking
<1>11. ShapeOf(p)'
  <2>1. /\ loc'[p].put # 0 <=> pc'[p] \in Putting
        /\ pc'[p] \notin Putting => loc'[p].ret = "idle"
        /\ Label(p)' \notin Putting
        /\ loc'[p].at # 0 <=> Label(p)' = "walk"
    BY <1>2, <1>3, <1>5, <1>6, <1>10, Constants DEF ShapeOf, Putting
  <2>2. /\ loc'[p].dp # 0 <=> Label(p)' \in {"create", "createinit", "linkentry", "linkclash", "unlink",
                               "unlinkip", "unlinkbad"}
        /\ loc'[p].ip # 0 <=> \/ Label(p)' \in {"createinit", "createold", "created", "opencheck", "openlock",
                                  "linkinc", "symold", "putip", "unlinkip", "unlinkdec"}
                        \/ Linking(p)'
    BY <1>2, <1>3, <1>5, <1>6, <1>10, Constants DEF ShapeOf, Putting
  <2>3. (loc'[p].par <=> ForParent(loc[p])')
    <3>1. n.par <=> op \in {"create", "mkdir", "unlink"}
      BY <1>3
    <3>2. ForParent(loc[p])' <=> op \in {"create", "mkdir", "unlink"}
      BY <1>3, <1>5 DEF ForParent
    <3> QED
      BY <1>5, <3>1, <3>2
  <2>4. op # "none"
    BY <1>2, DirAssumption
  <2> QED
   BY <1>2, <1>3, <1>5, <1>6, <1>10, <2>1, <2>2, <2>3, <2>4, Constants DEF ShapeOf, Putting, Creating, Unlinking, Call
<1>12. NamedOf(p)' /\ OwnLocks(p)'
  BY <1>10 DEF NamedOf, OwnLocks, HoldsIp, HoldsDp
<1>13. LockMoves(p)
  <2>1. \A s \in Slots : ~Holds(p, s) /\ ~Holds(p, s)'
    BY <1>0, <1>5, <1>7, <1>10 DEF Holds, HoldsPut, HoldsDp, HoldsIp
  <2> QED
    BY <1>6, <2>1, LockKept
<1>14. LabelQuiet(p)
  BY <1>0, <1>3, <1>5, <1>7, <1>10 DEF LabelQuiet
<1>15. PtrQuiet(p, ROOT, 0)
  <2>1. \A s \in Slots : leaked'[s] = leaked[s] /\ leaked[s] \in Nat /\ s # 0
    BY <1>0, <1>6, Constants DEF TypeOK
  <2>2. \A s \in Slots : PtrCount(p, s)' = PtrCount(p, s) + Frac(s = ROOT)
    BY <1>3, <1>5, <1>6, <1>7, <2>1 DEF PtrCount, CountIn, Frac
  <2>3. \A s \in Slots : leaked'[s] + PtrCount(p, s)' + Frac(s = 0)
                            = leaked[s] + PtrCount(p, s) + Frac(s = ROOT)
    BY <2>1, <2>2 DEF PtrCount, CountIn, Frac
  <2>4. Kin(p)' \subseteq Kin(p) \union {0, ROOT} /\ loc'[p].put \in Kin(p) \union {0, ROOT}
    BY <1>3, <1>5, <1>6, <1>7 DEF Kin
  <2> QED
    BY <2>1, <2>3, <2>4 DEF PtrQuiet
<1>16. KeepQuiet(p)
  BY <1>3, <1>5, <1>6, <1>7, Constants DEF KeepQuiet, Keeps
<1>17. QuietStep(p, ROOT, 0)
  BY <1>5, <1>6, <1>8, <1>11, <1>12, <1>13, <1>14, <1>15 DEF QuietStep, Others
<1> QED
  BY <1>9, <1>16, <1>17, QuietInv

\* How a call's references may move: one to g is got, one to x dropped.
Moved(r, n, g, x) ==
    \A s \in Slots :
        Frac(n.at = s) + Frac(n.dp = s) + Frac(n.ip = s) + Frac(n.put = s) + Frac(s = x)
          = Frac(r.at = s) + Frac(r.dp = s) + Frac(r.ip = s) + Frac(r.put = s) + Frac(s = g)

\* A step of one process that leaves the disk, the files and what is lost alone.
Plain == /\ dinode' = dinode /\ ents' = ents /\ fd' = fd /\ leaked' = leaked
         /\ panicked' = panicked /\ overlap' = overlap /\ calls' = calls

LEMMA Turn ==
    ASSUME IInv, NEW p \in Procs, NEW l \in PCs, NEW n \in CallRecs, NEW g, NEW x,
           Step(p, l, n), Plain, CacheQuiet(g, x), lock' \in [Slots -> Procs \union {Nobody}],
           LockMoves(p), OwnLocks(p)', ShapeOf(p)', NamedOf(p)', LabelQuiet(p),
           Moved(loc[p], n, g, x),
           {n.at, n.dp, n.ip} \subseteq {loc[p].at, loc[p].dp, loc[p].ip, 0, g},
           n.put \in {loc[p].at, loc[p].dp, loc[p].ip, 0, g}
             \/ (n.put = loc[p].put /\ pc[p] = "iput"),
           {loc[p].at, loc[p].dp, loc[p].ip} \subseteq
             {n.at, n.dp, n.ip, 0, IF l # "unref" THEN n.put ELSE 0},
           loc[p].put \in {n.at, n.dp, n.ip, 0, IF l # "unref" THEN n.put ELSE 0}
             \/ pc[p] = "unref"
    PROVE  IInv'
<1>0. TypeOK
  BY DEF IInv
<1>1. /\ pc' \in [Procs -> PCs] /\ loc' \in [Procs -> CallRecs]
      /\ pc'[p] = l /\ loc'[p] = n
      /\ \A q \in Procs : q # p => pc'[q] = pc[q] /\ loc'[q] = loc[q]
  BY <1>0, StepIs
<1>2. TypeOK'
  BY <1>0, <1>1 DEF Plain, TypeOK, CacheQuiet, Caches, SlotRec
<1>3. Others(p)
  BY <1>1 DEF Plain, Others
<1>4. PtrQuiet(p, g, x)
  <2>1. \A s \in Slots : leaked'[s] = leaked[s] /\ leaked[s] \in Nat
    BY <1>0 DEF Plain, TypeOK
  <2>2. ASSUME NEW s \in Slots
        PROVE  PtrCount(p, s)' + Frac(s = x) = PtrCount(p, s) + Frac(s = g)
    <3>1. Frac(n.at = s) + Frac(n.dp = s) + Frac(n.ip = s) + Frac(n.put = s) + Frac(s = x)
           = Frac(loc[p].at = s) + Frac(loc[p].dp = s) + Frac(loc[p].ip = s)
               + Frac(loc[p].put = s) + Frac(s = g)
      BY DEF Moved
    <3>2. fd'[p] = fd[p]
      BY DEF Plain
    <3>3. PtrCount(p, s)' = Frac(fd[p] = s) + Frac(n.at = s) + Frac(n.dp = s)
                              + Frac(n.ip = s) + Frac(n.put = s)
      BY <1>1, <3>2 DEF PtrCount, CountIn
    <3>4. PtrCount(p, s) = Frac(fd[p] = s) + Frac(loc[p].at = s) + Frac(loc[p].dp = s)
                              + Frac(loc[p].ip = s) + Frac(loc[p].put = s)
      BY DEF PtrCount, CountIn
    <3>5. \A b : Frac(b) \in {0, 1}
      BY DEF Frac
    <3> QED
      BY <3>1, <3>3, <3>4, <3>5
  <2>3. \A s \in Slots : leaked'[s] + PtrCount(p, s)' + Frac(s = x)
                           = leaked[s] + PtrCount(p, s) + Frac(s = g)
    <3>1. \A s \in Slots : /\ PtrCount(p, s)' \in Nat /\ PtrCount(p, s) \in Nat
                           /\ Frac(s = x) \in Nat /\ Frac(s = g) \in Nat
      BY <1>0, <1>2, PtrTypes DEF Frac
    <3> QED
      BY <2>1, <2>2, <3>1
  <2>4. Kin(p)' \subseteq Kin(p) \union {0, g}
    BY <1>1 DEF Kin, Plain
  <2>5. \/ loc'[p].put \in Kin(p) \union {0, g}
        \/ loc'[p].put = loc[p].put /\ pc[p] = "iput"
    BY <1>1 DEF Kin
  <2> QED
    BY <2>1, <2>3, <2>4, <2>5 DEF PtrQuiet
<1>5. KeepQuiet(p)
  <2> SUFFICES ASSUME NEW s \in Slots, Keeps(p, s)
               PROVE  Keeps(p, s)'
    BY DEF KeepQuiet
  <2>1. s # 0
    BY Constants
  <2>2. CASE s = fd[p]
    BY <2>2 DEF Keeps, Plain
  <2>3. CASE s \in {n.at, n.dp, n.ip, IF l # "unref" THEN n.put ELSE 0}
    BY <1>1, <2>1, <2>3 DEF Keeps
  <2> QED
    BY <2>1, <2>2, <2>3 DEF Keeps
<1>6. QuietStep(p, g, x)
  BY <1>3, <1>4 DEF QuietStep, Plain
<1> QED
  BY <1>2, <1>5, <1>6, QuietInv

\* A call that is over, or that puts its last reference, keeps no lock and no name.
LEMMA OverQuiet ==
    ASSUME NEW p \in Procs, NEW put, Over(loc'[p], put),
           \/ pc'[p] = "idle" /\ put = 0
           \/ pc'[p] = "iput" /\ put \in Slots
    PROVE  /\ ShapeOf(p)' /\ NamedOf(p)' /\ OwnLocks(p)' /\ Label(p)' = "idle" /\ ~Linking(p)'
           /\ \A s \in Slots : ~Holds(p, s)'
<1>1. /\ loc'[p].op = "none" /\ loc'[p].phase = 0 /\ loc'[p].ret = "idle"
      /\ loc'[p].at = 0 /\ loc'[p].dp = 0 /\ loc'[p].ip = 0 /\ loc'[p].put = put
  BY DEF Over
<1>2. Label(p)' = "idle"
  BY <1>1 DEF Label, Putting
<1>3. ~Linking(p)'
  BY <1>2 DEF Linking
<1>4. ShapeOf(p)'
  BY <1>1, <1>2, <1>3, Constants DEF ShapeOf, Putting, Creating, Unlinking
<1>5. NamedOf(p)' /\ OwnLocks(p)'
  BY <1>2 DEF NamedOf, OwnLocks, HoldsIp, HoldsDp
<1>6. \A s \in Slots : ~Holds(p, s)'
  BY <1>2 DEF Holds, HoldsPut, HoldsDp, HoldsIp
<1> QED
  BY <1>2, <1>3, <1>4, <1>5, <1>6

\* The last reference of a call goes to iput.
LEMMA LastTurn ==
    ASSUME IInv, NEW p \in Procs, NEW k \in Slots, NEW n, Over(n, k), Step(p, "iput", n), Plain,
           CacheQuiet(0, 0), pc[p] \notin {"createinit", "freed", "trunc"}, ~Linking(p),
           Label(p) # "unlinkdec", Moved(loc[p], n, 0, 0), loc[p].put = 0,
           {loc[p].at, loc[p].dp, loc[p].ip} \subseteq {0, k},
           k \in {loc[p].at, loc[p].dp, loc[p].ip},
           \/ lock' = lock /\ \A s \in Slots : ~Holds(p, s)
           \/ \E d \in Slots : /\ lock' = [lock EXCEPT ![d] = Nobody]
                               /\ \A s \in Slots : Holds(p, s) <=> s = d
    PROVE  IInv'
<1>0. TypeOK /\ n \in CallRecs
  BY DEF IInv, Over
<1>1. pc'[p] = "iput" /\ loc'[p] = n
  BY <1>0, StepIs DEF PCs
<1>2. Over(loc'[p], k)
  BY <1>1
<1>3. /\ ShapeOf(p)' /\ NamedOf(p)' /\ OwnLocks(p)' /\ Label(p)' = "idle" /\ ~Linking(p)'
      /\ \A s \in Slots : ~Holds(p, s)'
  BY <1>1, <1>2, OverQuiet
<1>4. LockMoves(p) /\ lock' \in [Slots -> Procs \union {Nobody}]
  <2>1. CASE lock' = lock /\ \A s \in Slots : ~Holds(p, s)
    BY <1>0, <1>3, <2>1, LockKept DEF TypeOK
  <2>2. CASE \E d \in Slots : /\ lock' = [lock EXCEPT ![d] = Nobody]
                              /\ \A s \in Slots : Holds(p, s) <=> s = d
    <3>1. PICK d \in Slots : /\ lock' = [lock EXCEPT ![d] = Nobody]
                             /\ \A s \in Slots : Holds(p, s) <=> s = d
      BY <2>2
    <3> QED
      BY <1>0, <1>3, <3>1, LockReleased DEF TypeOK
  <2> QED
    BY <2>1, <2>2
<1>5. LabelQuiet(p)
  BY <1>1, <1>3 DEF LabelQuiet, Over
<1>6. n.at = 0 /\ n.dp = 0 /\ n.ip = 0 /\ n.put = k
  BY DEF Over
<1>7. "iput" \in PCs
  BY DEF PCs
<1> QED
  BY <1>0, <1>3, <1>4, <1>5, <1>6, <1>7, Turn

\* What a process in a call finds in its variables.
LEMMA Caller ==
    ASSUME IInv, NEW p \in Procs
    PROVE  /\ TypeOK /\ loc[p] \in CallRecs /\ ShapeOf(p) /\ NamedOf(p) /\ OwnLocks(p)
           /\ pc[p] \in PCs
           /\ \A s \in {loc[p].at, loc[p].dp, loc[p].ip, loc[p].put, fd[p]} \ {0} :
                 s \in Slots /\ Inum(s) \in Inums /\ icache[s].ref > 0
           /\ \A s \in {loc[p].at, loc[p].dp, loc[p].ip, fd[p]} \ {0} : dinode[Inum(s)].type # "free"
<1>1. /\ loc[p] \in CallRecs /\ TypeOK /\ pc[p] \in PCs
      /\ loc[p].at \in Slots \union {0} /\ loc[p].dp \in Slots \union {0}
      /\ loc[p].ip \in Slots \union {0} /\ loc[p].put \in Slots \union {0} /\ fd[p] \in Slots \union {0}
  BY DEF IInv, TypeOK, CallRecs
<1>2. \A s \in {loc[p].at, loc[p].dp, loc[p].ip, loc[p].put, fd[p]} \ {0} :
                 s \in Slots /\ Inum(s) \in Inums /\ icache[s].ref > 0
  BY <1>1, PointedHasInode DEF IInv
<1>3. \A s \in {loc[p].at, loc[p].dp, loc[p].ip, fd[p]} \ {0} : dinode[Inum(s)].type # "free"
  BY <1>1, KinAlive DEF Kin
<1> QED
  BY <1>1, <1>2, <1>3 DEF IInv, Shape, Named, Locks, OwnLocks

LEMMA LoadQuiet ==
    ASSUME IInv, NEW s \in Slots, Inum(s) \in Inums, dinode[Inum(s)].type # "free"
    PROVE  /\ Fresh(Load(icache, s)) /\ Load(icache, s)[s].valid
           /\ icache' = Load(icache, s) => CacheQuiet(0, 0)
<1>1. Fresh(Load(icache, s)) /\ Load(icache, s)[s].valid
  BY LoadIs DEF IInv
<1>2. ASSUME icache' = Load(icache, s)
      PROVE  CacheQuiet(0, 0)
  <2>1. Fresh(icache')
    BY <1>1, <1>2
  <2> QED
    BY <2>1, FreshQuiet DEF IInv
<1> QED
  BY <1>1, <1>2

\* namex: the walk goes on, ends, or finds nothing.
LEMMA WalkKeeps ==
    ASSUME IInv, NEW p \in Procs, WalkStep(p)
    PROVE  IInv'
<1>1. PICK r \in CallRecs, a \in Slots : r = loc[p] /\ a = r.at
  <2>1. pc[p] = "walk"
    BY DEF WalkStep, At
  <2>2. Label(p) = "walk"
    BY <2>1 DEF Label, Putting
  <2>3. loc[p] \in CallRecs /\ ShapeOf(p)
    BY Caller
  <2>4. loc[p].at # 0
    BY <2>2, <2>3 DEF ShapeOf
  <2>5. loc[p].at \in Slots
    BY <2>3, <2>4 DEF CallRecs
  <2> QED
    BY <2>3, <2>5
<1>2. /\ pc[p] = "walk" /\ Label(p) = "walk" /\ lock[a] = Nobody
      /\ r.put = 0 /\ r.ret = "idle" /\ r.dp = 0 /\ r.rest # <<>> /\ r.phase \in 1 .. 3
      /\ r.op \in {"create", "open", "link", "unlink", "mkdir", "symlink"}
      /\ (r.par <=> ForParent(r)) /\ (Linking(p) <=> r.op = "link" /\ r.phase = 2)
      /\ (r.ip # 0 <=> Linking(p)) /\ ShapeOf(p) /\ TypeOK /\ r.rest \in Seq(Names)
      /\ Inum(a) \in Inums
      /\ r.phase = 3 => r.op = "open"
  <2>1. pc[p] = "walk" /\ Label(p) = "walk" /\ lock[a] = Nobody
    BY <1>1 DEF WalkStep, At, Label, Putting
  <2>2. a # 0 /\ Inum(a) \in Inums /\ ShapeOf(p) /\ TypeOK
    BY <1>1, Caller, Constants
  <2>3. Linking(p) <=> r.op = "link" /\ r.phase = 2
    BY <1>1, <2>1 DEF Linking
  <2>4. r.op \in Calls
    BY <1>1, <2>1, <2>2 DEF ShapeOf, CallRecs
  <2>5. r.op \in {"create", "open", "link", "unlink", "mkdir", "symlink"}
    BY <2>4, DirAssumption
  <2> QED
    BY <1>1, <2>1, <2>2, <2>3, <2>5 DEF ShapeOf, Putting, CallRecs
<1>3. PICK c : c = Load(icache, a)
  OBVIOUS
<1>4. Fresh(c) /\ (icache' = c => CacheQuiet(0, 0)) /\ c[a].type = dinode[Inum(a)].type
  <2>1. ~Freeing(a) /\ dinode[Inum(a)].type # "free"
    <3>1. a # 0
      BY Constants
    <3>2. dinode[Inum(a)].type # "free"
      BY <1>1, <3>1, Caller
    <3> QED
      BY <1>2, <3>2, NotFreeing
  <2>2. Fresh(c) /\ (icache' = c => CacheQuiet(0, 0))
    BY <1>2, <1>3, <2>1, LoadQuiet
  <2>3. c[a].type = dinode[Inum(a)].type
    BY <1>2, <1>3, <2>1, LoadedIs
  <2> QED
    BY <2>2, <2>3
<1>5. Plain /\ lock' = lock
  BY DEF WalkStep, Plain
<1>6. \A s \in Slots : ~Holds(p, s)
  BY <1>2 DEF Holds, HoldsPut, HoldsDp, HoldsIp
<1>7. Missed(r) \in {"linkundo", "openself", "idle"} /\ Found(r) \in PCs
  BY <1>2 DEF Missed, Found, PCs
<1>8. lock' \in [Slots -> Procs \union {Nobody}]
  BY <1>2, <1>5 DEF TypeOK
<1>9. CASE Step(p, "iput", Put(r, "at", Missed(r))) /\ icache' = c
  <2>1. CASE Missed(r) = "idle"
    <3>1. PICK n : n = Put(r, "at", "idle")
      OBVIOUS
    <3>2. Over(n, a) /\ Step(p, "iput", n)
      BY <1>1, <1>9, <2>1, <3>1, PutOver
    <3>3. ~Linking(p)
      BY <1>2, <2>1 DEF Missed
    <3>4. r.ip = 0
      BY <1>2, <3>3
    <3>5. Moved(r, n, 0, 0)
      BY <1>1, <1>2, <3>2, <3>4, Constants DEF Moved, Frac, Over
    <3> QED
      BY <1>1, <1>2, <1>4, <1>5, <1>6, <1>9, <3>2, <3>3, <3>4, <3>5, LastTurn
  <2>2. CASE Missed(r) # "idle"
    <3>1. PICK n : n = Put(r, "at", Missed(r))
      OBVIOUS
    <3>2. Onward(r, n, 0, 0, r.ip, a, Missed(r)) /\ n.rest = r.rest /\ Step(p, "iput", n)
      BY <1>1, <1>2, <1>7, <1>9, <2>2, <3>1, PutOnward DEF PCs
    <3>3. /\ n.op = r.op /\ n.phase = r.phase /\ n.at = 0 /\ n.dp = 0 /\ n.ip = r.ip
          /\ n.put = a /\ n.ret = Missed(r) /\ n \in CallRecs
          /\ n.old = r.old /\ n.new = r.new
      BY <3>2 DEF Onward
    <3>4. pc'[p] = "iput" /\ loc'[p] = n
      BY <1>2, <3>2, <3>3, StepIs DEF PCs
    <3>5. Label(p)' = Missed(r)
      BY <3>3, <3>4 DEF Label, Putting
    <3>6. Linking(p)' <=> Linking(p)
      BY <1>2, <1>7, <2>2, <3>5, <3>3, <3>4 DEF Linking, Missed
    <3>7. ShapeOf(p)'
      BY <1>1, <1>2, <1>5, <1>7, <2>2, <3>3, <3>4, <3>5, <3>6, Constants
         DEF ShapeOf, Putting, Missed, Creating, Unlinking, Plain
    <3>8. NamedOf(p)' /\ OwnLocks(p)'
      BY <1>7, <3>5 DEF NamedOf, OwnLocks, HoldsIp, HoldsDp
    <3>9. LockMoves(p)
      <4>1. \A s \in Slots : ~Holds(p, s)'
        BY <1>7, <3>4, <3>5 DEF Holds, HoldsPut, HoldsDp, HoldsIp
      <4> QED
        BY <1>5, <1>6, <4>1, LockKept
    <3>10. LabelQuiet(p)
      BY <1>1, <1>2, <1>7, <3>3, <3>4, <3>5, <3>6 DEF LabelQuiet
    <3>11. Moved(r, n, 0, 0)
      BY <1>1, <1>2, <3>3, Constants DEF Moved, Frac
    <3>12. /\ {n.at, n.dp, n.ip} \subseteq {r.at, r.dp, r.ip, 0, 0}
           /\ n.put \in {r.at, r.dp, r.ip, 0, 0}
           /\ {r.at, r.dp, r.ip} \subseteq {n.at, n.dp, n.ip, 0, n.put}
           /\ r.put \in {n.at, n.dp, n.ip, 0, n.put}
      BY <1>1, <1>2, <3>3
    <3>13. CacheQuiet(0, 0) /\ "iput" \in PCs /\ n \in CallRecs /\ Step(p, "iput", n)
      BY <1>4, <1>9, <3>2, <3>3 DEF PCs
    <3> QED
      BY <1>1, <1>5, <1>8, <3>7, <3>8, <3>9, <3>10, <3>11, <3>12, <3>13, Turn
  <2> QED
    BY <2>1, <2>2
<1>10. CASE c[a].type = "dir" /\ r.par /\ Len(r.rest) = 1 /\ icache' = c
            /\ Step(p, Found(r), [r EXCEPT !.dp = a, !.at = 0])
  <2>1. PICK n : n = [r EXCEPT !.dp = a, !.at = 0]
    OBVIOUS
  <2>2. /\ n \in CallRecs /\ n.op = r.op /\ n.old = r.old /\ n.new = r.new /\ n.phase = r.phase
        /\ n.rest = r.rest /\ n.at = 0 /\ n.dp = a /\ n.ip = r.ip /\ n.put = 0 /\ n.ret = "idle"
    BY <1>1, <1>2, <2>1 DEF CallRecs
  <2>3. pc'[p] = Found(r) /\ loc'[p] = n
    BY <1>2, <1>7, <1>10, <2>1, <2>2, StepIs
  <2>4. Found(r) = IF r.op \in {"create", "mkdir", "symlink"} THEN "create"
                   ELSE IF r.op = "unlink" THEN "unlink" ELSE "linkentry"
    BY <1>2, <1>10 DEF Found, ForParent
  <2>5. Label(p)' = Found(r)
    BY <2>3, <2>4 DEF Label, Putting
  <2>6. Linking(p)' <=> Linking(p)
    BY <1>2, <1>10, <2>2, <2>3, <2>4, <2>5 DEF Linking, ForParent
  <2>7. ShapeOf(p)'
    BY <1>1, <1>2, <1>5, <1>10, <2>2, <2>3, <2>4, <2>5, <2>6, Constants
       DEF ShapeOf, Putting, Creating, Unlinking, ForParent, Plain
  <2>8. NamedOf(p)' /\ OwnLocks(p)'
    BY <2>4, <2>5 DEF NamedOf, OwnLocks, HoldsIp, HoldsDp
  <2>9. LockMoves(p)
    <3>1. \A s \in Slots : ~Holds(p, s)'
      BY <2>3, <2>4, <2>5 DEF Holds, HoldsPut, HoldsDp, HoldsIp
    <3> QED
      BY <1>5, <1>6, <3>1, LockKept
  <2>10. dinode[Inum(loc[p].dp)'].type = "dir"
    <3>1. icache'[a].inum = icache[a].inum
      BY <1>4, <1>10 DEF Fresh
    <3> QED
      BY <1>4, <1>10, <2>2, <2>3, <3>1 DEF Inum
  <2>11. LabelQuiet(p)
    BY <1>1, <1>2, <2>2, <2>3, <2>4, <2>5, <2>6, <2>10 DEF LabelQuiet
  <2>12. Moved(r, n, 0, 0)
    BY <1>1, <1>2, <2>2, Constants DEF Moved, Frac
  <2>13. /\ {n.at, n.dp, n.ip} \subseteq {r.at, r.dp, r.ip, 0, 0}
         /\ n.put \in {r.at, r.dp, r.ip, 0, 0}
         /\ {r.at, r.dp, r.ip} \subseteq {n.at, n.dp, n.ip, 0, n.put}
         /\ r.put \in {n.at, n.dp, n.ip, 0, n.put}
    BY <1>1, <1>2, <2>2
  <2>14. CacheQuiet(0, 0) /\ Found(r) # "unref" /\ Step(p, Found(r), n)
    BY <1>4, <1>10, <2>1, <2>4
  <2> QED
    BY <1>1, <1>5, <1>7, <1>8, <2>2, <2>7, <2>8, <2>9, <2>11, <2>12, <2>13, <2>14, Turn
<1>11. ASSUME c[a].type = "dir", ~(r.par /\ Len(r.rest) = 1), ents[Inum(a)][Name(p)] # 0,
              icache' = IGet(c, ents[Inum(a)][Name(p)]),
              Step(p, "iput", Further(r, SlotOf(c, ents[Inum(a)][Name(p)])))
       PROVE  IInv'
  <2>1. PICK next : next = ents[Inum(a)][Name(p)]
    OBVIOUS
  <2>2. Name(p) \in Names
    BY <1>1, <1>2 DEF Name
  <2>3. next \in Inums /\ dinode[next].nlink > 0
    BY <1>2, <1>11, <2>1, <2>2, EntryLinked
  <2>4. PICK g : g = SlotOf(c, next)
    OBVIOUS
  <2>5. CacheQuiet(g, 0) /\ g \in Slots /\ icache' = IGet(c, next)
    BY <1>2, <1>4, <1>11, <2>1, <2>3, <2>4, GetQuiet DEF IInv
  <2>6. PICK n : n = Further(r, g)
    OBVIOUS
  <2>7. Step(p, "iput", n)
    BY <1>11, <2>1, <2>4, <2>6
  <2>8. CASE Len(r.rest) = 1
    <3>1. ~r.par /\ ~ForParent(r)
      BY <1>2, <1>11, <2>8
    <3>2. r.op = "open" \/ (r.op \in {"link", "symlink"} /\ r.phase = 1)
      BY <1>2, <3>1 DEF ForParent
    <3>3. Found(r) = IF r.op = "open" THEN IF r.phase = 1 THEN "opencheck" ELSE "openlock"
                     ELSE IF r.op = "link" THEN "linkinc" ELSE "symold"
      BY <3>2 DEF Found
    <3>4. PICK m : m = Put(r, "at", Found(r))
      OBVIOUS
    <3>5. Onward(r, m, 0, 0, r.ip, a, Found(r))
      BY <1>1, <1>2, <1>7, <3>3, <3>4, PutOnward
    <3>6. n = [m EXCEPT !.ip = g, !.rest = <<>>]
      BY <2>6, <2>8, <3>4 DEF Further
    <3>7. /\ n \in CallRecs /\ n.op = r.op /\ n.old = r.old /\ n.new = r.new /\ n.phase = r.phase
          /\ n.at = 0 /\ n.dp = 0 /\ n.ip = g /\ n.put = a /\ n.ret = Found(r)
      <4>1. <<>> \in Seq(Names) /\ g \in Slots \union {0}
        BY <2>5
      <4>2. /\ m \in CallRecs /\ m.op = r.op /\ m.old = r.old /\ m.new = r.new
            /\ m.phase = r.phase /\ m.at = 0 /\ m.dp = 0 /\ m.put = a /\ m.ret = Found(r)
        BY <3>5 DEF Onward
      <4> QED
        BY <3>6, <4>1, <4>2 DEF CallRecs
    <3>8. pc'[p] = "iput" /\ loc'[p] = n
      BY <1>2, <2>7, <3>7, StepIs DEF PCs
    <3>9. Label(p)' = Found(r)
      BY <3>7, <3>8 DEF Label, Putting
    <3>10. ~Linking(p)' /\ ~Linking(p) /\ r.ip = 0
      BY <1>2, <3>1, <3>3, <3>9 DEF Linking, ForParent
    <3>11. ShapeOf(p)'
      BY <1>1, <1>2, <1>5, <2>5, <3>2, <3>3, <3>7, <3>8, <3>9, <3>10, Constants
         DEF ShapeOf, Putting, Creating, Unlinking, Plain
    <3>12. NamedOf(p)' /\ OwnLocks(p)'
      BY <3>3, <3>9 DEF NamedOf, OwnLocks, HoldsIp, HoldsDp
    <3>13. LockMoves(p)
      <4>1. \A s \in Slots : ~Holds(p, s)'
        BY <3>3, <3>8, <3>9 DEF Holds, HoldsPut, HoldsDp, HoldsIp
      <4> QED
        BY <1>5, <1>6, <4>1, LockKept
    <3>14. LabelQuiet(p)
      BY <1>1, <1>2, <3>3, <3>7, <3>8, <3>9, <3>10 DEF LabelQuiet
    <3>15. Moved(r, n, g, 0)
      BY <1>1, <1>2, <3>7, <3>10, Constants DEF Moved, Frac
    <3>16. /\ {n.at, n.dp, n.ip} \subseteq {r.at, r.dp, r.ip, 0, g}
           /\ n.put \in {r.at, r.dp, r.ip, 0, g}
           /\ {r.at, r.dp, r.ip} \subseteq {n.at, n.dp, n.ip, 0, n.put}
           /\ r.put \in {n.at, n.dp, n.ip, 0, n.put}
      BY <1>1, <1>2, <3>7, <3>10
    <3>17. "iput" \in PCs
      BY DEF PCs
    <3> QED
      BY <1>1, <1>5, <1>8, <2>5, <2>7, <3>7, <3>11, <3>12, <3>13, <3>14, <3>15, <3>16, <3>17, Turn
  <2>9. CASE Len(r.rest) # 1
    <3>1. PICK m : m = Put(r, "at", "walk")
      OBVIOUS
    <3>2. Onward(r, m, 0, 0, r.ip, a, "walk")
      BY <1>1, <1>2, <3>1, PutOnward DEF PCs
    <3>3. n = [m EXCEPT !.at = g, !.rest = Tail(r.rest)]
      BY <2>6, <2>9, <3>1 DEF Further
    <3>4. Tail(r.rest) \in Seq(Names) /\ Tail(r.rest) # <<>>
      <4>1. PICK q \in Seq(Names) : q = r.rest
        BY <1>2
      <4>2. Len(q) \in Nat /\ Len(q) # 0 /\ Len(q) # 1
        BY <1>2, <2>9, <4>1
      <4>3. Tail(q) \in Seq(Names) /\ Len(Tail(q)) = Len(q) - 1
        BY <4>2
      <4>4. Len(Tail(q)) # 0
        BY <4>2, <4>3
      <4> QED
        BY <4>1, <4>3, <4>4
    <3>5. /\ n \in CallRecs /\ n.op = r.op /\ n.old = r.old /\ n.new = r.new /\ n.phase = r.phase
          /\ n.at = g /\ n.dp = 0 /\ n.ip = r.ip /\ n.put = a /\ n.ret = "walk"
          /\ n.rest = Tail(r.rest) /\ n.par = r.par
      BY <2>5, <3>2, <3>3, <3>4 DEF Onward, CallRecs
    <3>6. pc'[p] = "iput" /\ loc'[p] = n
      BY <1>2, <2>7, <3>5, StepIs DEF PCs
    <3>7. Label(p)' = "walk"
      BY <3>5, <3>6 DEF Label, Putting
    <3>8. Linking(p)' <=> Linking(p)
      BY <1>2, <3>5, <3>6, <3>7 DEF Linking
    <3>9. loc'[p].par <=> ForParent(loc[p])'
      <4>1. ForParent(loc[p])' <=> ForParent(r)
        BY <3>5, <3>6 DEF ForParent
      <4> QED
        BY <1>2, <3>5, <3>6, <4>1
    <3>10. ShapeOf(p)'
      BY <1>1, <1>2, <1>5, <2>5, <3>4, <3>5, <3>6, <3>7, <3>8, <3>9, Constants
         DEF ShapeOf, Putting, Creating, Unlinking, Plain
    <3>11. NamedOf(p)' /\ OwnLocks(p)'
      BY <3>7 DEF NamedOf, OwnLocks, HoldsIp, HoldsDp
    <3>12. LockMoves(p)
      <4>1. \A s \in Slots : ~Holds(p, s)'
        BY <3>6, <3>7 DEF Holds, HoldsPut, HoldsDp, HoldsIp
      <4> QED
        BY <1>5, <1>6, <4>1, LockKept
    <3>13. LabelQuiet(p)
      BY <1>1, <1>2, <3>5, <3>6, <3>7, <3>8 DEF LabelQuiet
    <3>14. Moved(r, n, g, 0)
      BY <1>1, <1>2, <3>5, Constants DEF Moved, Frac
    <3>15. /\ {n.at, n.dp, n.ip} \subseteq {r.at, r.dp, r.ip, 0, g}
           /\ n.put \in {r.at, r.dp, r.ip, 0, g}
           /\ {r.at, r.dp, r.ip} \subseteq {n.at, n.dp, n.ip, 0, n.put}
           /\ r.put \in {n.at, n.dp, n.ip, 0, n.put}
      BY <1>1, <1>2, <3>5
    <3>16. "iput" \in PCs
      BY DEF PCs
    <3> QED
      BY <1>1, <1>5, <1>8, <2>5, <2>7, <3>5, <3>10, <3>11, <3>12, <3>13, <3>14, <3>15, <3>16, Turn
  <2> QED
    BY <2>8, <2>9
<1> QED
  BY <1>1, <1>3, <1>9, <1>10, <1>11 DEF WalkStep, NextGet

\* Two pointers of one process are two references.
LEMMA TwoOwn ==
    ASSUME IInv, NEW p \in Procs, NEW s \in Slots, loc[p].put = s,
           s \in {loc[p].at, loc[p].dp, loc[p].ip}
    PROVE  icache[s].ref > 1
<1>1. PtrCount(p, s) > 1 /\ PtrCount(p, s) \in Nat
  BY DEF PtrCount, CountIn, Frac
<1>2. icache[s].ref = Frac(s = ROOT) + leaked[s] + Cardinality(Pointers(s))
  BY DEF IInv, RefsExact
<1>3. PICK k : k = Cardinality(TheirsIn(fd, loc, p, s))
  OBVIOUS
<1>4. Cardinality(Pointers(s)) = k + PtrCount(p, s) /\ k \in Nat
  BY <1>3, PointersAre, PointersSplit, TheirsFinite, FS_CardinalityType DEF PtrCount
<1>5. leaked[s] \in Nat /\ Frac(s = ROOT) \in Nat
  BY DEF IInv, TypeOK, Frac
<1> QED
  BY <1>1, <1>2, <1>4, <1>5

\* A slot with two references has another pointer than iput's, or a reference nobody puts.
LEMMA AnotherPointer ==
    ASSUME IInv, NEW p \in Procs, NEW s \in Slots, icache[s].ref > 1, loc[p].put = s
    PROVE  \/ s = ROOT \/ leaked[s] > 0
           \/ s \in {fd[p], loc[p].at, loc[p].dp, loc[p].ip}
           \/ \E q \in Procs \ {p} : s \in {fd[q], loc[q].at, loc[q].dp, loc[q].ip, loc[q].put}
<1> SUFFICES ASSUME s # ROOT, ~(leaked[s] > 0)
             PROVE  \/ s \in {fd[p], loc[p].at, loc[p].dp, loc[p].ip}
                    \/ \E q \in Procs \ {p} :
                          s \in {fd[q], loc[q].at, loc[q].dp, loc[q].ip, loc[q].put}
  OBVIOUS
<1>1. icache[s].ref = Frac(s = ROOT) + leaked[s] + Cardinality(Pointers(s))
  BY DEF IInv, RefsExact
<1>2. leaked[s] \in Nat /\ icache[s].ref \in Nat /\ Cardinality(Pointers(s)) \in Nat
  BY PointersAre DEF IInv, TypeOK
<1>3. Cardinality(Pointers(s)) > 1
  BY <1>1, <1>2 DEF Frac
<1>4. ~(Pointers(s) \subseteq {<<p, "put">>})
  <2>1. IsFiniteSet({<<p, "put">>}) /\ Cardinality({<<p, "put">>}) = 1
    BY FS_Singleton
  <2>2. Pointers(s) \subseteq {<<p, "put">>} => Cardinality(Pointers(s)) <= 1
    BY <2>1, FS_Subset
  <2> QED
    BY <1>2, <1>3, <2>2
<1>5. PICK x \in Pointers(s) : x # <<p, "put">>
  BY <1>4
<1>6. PICK q \in Procs, f \in Fields : x = <<q, f>> /\ PointsTo(q, f) = s
  BY <1>5 DEF Pointers
<1>7. q # p \/ f # "put"
  BY <1>5, <1>6
<1>8. s \in {fd[q], loc[q].at, loc[q].dp, loc[q].ip} \/ (f = "put" /\ s = loc[q].put)
  BY <1>6 DEF PointsTo, Fields
<1> QED
  BY <1>7, <1>8

LEMMA IPutCheckKeeps ==
    ASSUME IInv, NEW p \in Procs, IPutCheck(p)
    PROVE  IInv'
<1>1. PICK x \in Slots : x = loc[p].put
  BY Caller DEF ShapeOf, IPutCheck, At, Putting
<1>2. /\ TypeOK /\ ShapeOf(p) /\ NamedOf(p) /\ OwnLocks(p) /\ pc[p] = "iput"
      /\ icache[x].ref > 0 /\ icache[x].ref \in Nat /\ lock[x] = Nobody /\ x # 0
  BY <1>1, Caller, Constants DEF IPutCheck, At, TypeOK
<1>3. /\ dinode' = dinode /\ ents' = ents /\ icache' = icache /\ fd' = fd /\ loc' = loc
      /\ leaked' = leaked /\ panicked' = panicked /\ calls' = calls
      /\ overlap' = IF icache[x].nlink = 0 /\ \E q \in Procs \ {p} : pc[q] = "unref" /\ loc[q].put = x
                    THEN overlap \union {Inum(x)} ELSE overlap
  BY <1>1 DEF IPutCheck
<1>4. PICK l \in {"trunc", "unref"} :
         /\ pc' = [pc EXCEPT ![p] = l]
         /\ l = "trunc" => Unused(x) /\ lock' = [lock EXCEPT ![x] = p]
         /\ l = "unref" => ~Unused(x) /\ lock' = lock
  BY <1>1 DEF IPutCheck
<1>5. /\ pc' \in [Procs -> PCs] /\ pc'[p] = l /\ \A q \in Procs : q # p => pc'[q] = pc[q]
  BY <1>2, <1>4 DEF TypeOK, PCs
<1>6. overlap \subseteq overlap' /\ overlap' \subseteq Inums
  <2>1. Inum(x) \in Inums
    BY <1>1, <1>2, Caller
  <2> QED
    BY <1>2, <1>3, <2>1 DEF TypeOK
<1>7. lock' \in [Slots -> Procs \union {Nobody}]
  BY <1>2, <1>4 DEF TypeOK
<1>8. TypeOK'
  BY <1>2, <1>3, <1>5, <1>6, <1>7 DEF TypeOK
<1>9. Others(p) /\ CacheQuiet(0, 0)
  BY <1>2, <1>3, <1>5, SameQuiet DEF Others
<1>10. Label(p)' = Label(p)
  BY <1>2, <1>3, <1>5 DEF Label, Putting
<1>11. (Linking(p)' <=> Linking(p)) /\ (HoldsDp(p)' <=> HoldsDp(p)) /\ (HoldsIp(p)' <=> HoldsIp(p))
  BY <1>3, <1>10 DEF Linking, HoldsDp, HoldsIp
<1>12. ShapeOf(p)' /\ OwnLocks(p)' /\ NamedOf(p)'
  <2>1. ShapeOf(p)'
    BY <1>2, <1>3, <1>4, <1>5, <1>10, <1>11 DEF ShapeOf, Putting
  <2>2. OwnLocks(p)'
    BY <1>2, <1>3, <1>4, <1>5, <1>10, <1>11 DEF OwnLocks, Putting
  <2>3. Label(p) # "unlinkip" /\ Label(p) # "createinit"
    BY <1>2 DEF OwnLocks, Putting
  <2> QED
    BY <1>5, <1>10, <2>1, <2>2, <2>3 DEF NamedOf
<1>13. LockMoves(p)
  <2>1. CASE l = "trunc"
    <3>1. \A s \in Slots : Holds(p, s)' <=> Holds(p, s) \/ s = x
      BY <1>1, <1>2, <1>3, <1>5, <1>11, <2>1 DEF Holds, HoldsPut
    <3>2. icache'[x].valid
      BY <1>3, <1>4, <2>1 DEF Unused
    <3> QED
      BY <1>2, <1>4, <2>1, <3>1, <3>2, LockTaken
  <2>2. CASE l = "unref"
    <3>1. \A s \in Slots : Holds(p, s)' <=> Holds(p, s)
      BY <1>1, <1>2, <1>3, <1>5, <1>11, <2>2 DEF Holds, HoldsPut
    <3> QED
      BY <1>4, <2>2, <3>1, LockKept
  <2> QED
    BY <2>1, <2>2
<1>14. LabelQuiet(p)
  <2>1. loc'[p].dp # 0 => dinode[Inum(loc[p].dp)'].type = "dir"
    BY <1>3 DEF IInv, Alive, Inum
  <2>2. l = "trunc" => icache'[loc'[p].put].ref = 1 /\ icache'[loc'[p].put].nlink = 0
    BY <1>1, <1>3, <1>4 DEF Unused
  <2>3. Label(p) # "createinit"
    BY <1>2 DEF OwnLocks, Putting
  <2> QED
    BY <1>2, <1>3, <1>5, <1>10, <1>11, <2>1, <2>2 DEF LabelQuiet
<1>15. PtrQuiet(p, 0, 0)
  <2>1. \A s \in Slots : leaked'[s] = leaked[s] /\ leaked[s] \in Nat /\ PtrCount(p, s)' = PtrCount(p, s)
    BY <1>2, <1>3 DEF TypeOK, PtrCount, CountIn
  <2>2. Kin(p)' = Kin(p) /\ loc'[p].put = loc[p].put
    BY <1>3 DEF Kin
  <2> QED
    BY <1>2, <2>1, <2>2 DEF PtrQuiet
<1>16. QuietStep(p, 0, 0)
  BY <1>3, <1>6, <1>9, <1>12, <1>13, <1>14, <1>15 DEF QuietStep
<1>17. CASE l = "trunc"
  <2>1. KeepQuiet(p)
    BY <1>3, <1>5, <1>17 DEF KeepQuiet, Keeps
  <2> QED
    BY <1>8, <1>16, <2>1, QuietInv
<1>18. CASE l = "unref"
  <2>1. ASSUME NEW i \in Inums, dinode[i].type # "free", dinode[i].nlink = 0, i \notin overlap'
        PROVE  \E s \in Slots : Inum(s) = i /\ Kept(s)'
    <3>1. PICK s \in Slots : Inum(s) = i /\ Kept(s)
      BY <1>6, <2>1 DEF IInv, NoneLost
    <3>2. CASE s # x
      <4>1. \A q \in Procs : Keeps(q, s) => Keeps(q, s)'
        BY <1>1, <1>3, <1>5, <3>2 DEF Keeps
      <4> QED
        BY <1>3, <3>1, <4>1 DEF Kept
    <3>3. CASE s = x
      <4>1. icache[x].valid
        <5>1. x \in Uses(p)
          BY <1>1, <1>2 DEF Uses
        <5> QED
          BY <2>1, <3>1, <3>3, <5>1 DEF IInv, Known
      <4>2. icache[x].nlink = 0
        BY <2>1, <3>1, <3>3, <4>1 DEF IInv, Coherent
      <4>3. icache[x].ref > 1
        BY <1>2, <1>4, <1>18, <4>1, <4>2 DEF Unused
      <4>4. \/ x = ROOT \/ leaked[x] > 0
            \/ x \in {fd[p], loc[p].at, loc[p].dp, loc[p].ip}
            \/ \E q \in Procs \ {p} : x \in {fd[q], loc[q].at, loc[q].dp, loc[q].ip, loc[q].put}
        BY <1>1, <4>3, AnotherPointer
      <4>5. \A q \in Procs \ {p} : loc[q].put = x => pc[q] # "unref"
        BY <1>3, <2>1, <3>1, <3>3, <4>2
      <4>6. Kept(x)'
        BY <1>3, <1>5, <4>4, <4>5 DEF Kept, Keeps
      <4> QED
        BY <3>1, <3>3, <4>6
    <3> QED
      BY <3>2, <3>3
  <2>2. NoneLost'
    BY <1>3, <2>1 DEF NoneLost, Inum
  <2> QED
    BY <1>8, <1>16, <2>2, QuietInv
<1> QED
  BY <1>17, <1>18

LEMMA IPutEndKeeps ==
    ASSUME IInv, NEW p \in Procs, IPutEnd(p)
    PROVE  IInv'
<1>1. PICK r \in CallRecs, x \in Slots : r = loc[p] /\ x = r.put
  BY Caller DEF ShapeOf, IPutEnd, At, Putting
<1>2. /\ TypeOK /\ ShapeOf(p) /\ OwnLocks(p) /\ pc[p] = "unref" /\ Label(p) = r.ret
      /\ icache[x].ref > 0 /\ x # 0
  BY <1>1, Caller, Constants DEF IPutEnd, At, Label, Putting
<1>3. Plain /\ lock' = lock /\ icache' = Unref(icache, x)
  BY <1>1 DEF IPutEnd, Plain
<1>4. lock' \in [Slots -> Procs \union {Nobody}] /\ CacheQuiet(0, x)
  BY <1>2, <1>3, UnrefQuiet DEF TypeOK
<1>5. ASSUME NEW n, Over(n, 0), Step(p, "idle", n), r.ret = "idle"
      PROVE  IInv'
  <2>1. r.at = 0 /\ r.dp = 0 /\ r.ip = 0
    BY <1>1, <1>2, <1>5 DEF ShapeOf, Linking
  <2>2. n \in CallRecs /\ n.at = 0 /\ n.dp = 0 /\ n.ip = 0 /\ n.put = 0
    BY <1>5 DEF Over
  <2>3. pc'[p] = "idle" /\ loc'[p] = n
    BY <1>2, <1>5, <2>2, StepIs DEF PCs
  <2>4. Over(loc'[p], 0)
    BY <1>5, <2>3
  <2>5. /\ ShapeOf(p)' /\ NamedOf(p)' /\ OwnLocks(p)' /\ Label(p)' = "idle" /\ ~Linking(p)'
        /\ \A s \in Slots : ~Holds(p, s)'
    BY <2>3, <2>4, OverQuiet
  <2>6. ~Linking(p) /\ \A s \in Slots : ~Holds(p, s)
    BY <1>2, <1>5 DEF Linking, Holds, HoldsPut, HoldsDp, HoldsIp
  <2>7. LockMoves(p)
    BY <1>3, <2>5, <2>6, LockKept
  <2>8. LabelQuiet(p)
    BY <1>2, <1>5, <2>2, <2>3, <2>5, <2>6 DEF LabelQuiet
  <2>9. Moved(r, n, 0, x)
    BY <1>1, <1>2, <2>1, <2>2, Constants DEF Moved, Frac
  <2>10. "idle" \in PCs
    BY DEF PCs
  <2> QED
    BY <1>1, <1>2, <1>3, <1>4, <1>5, <2>1, <2>2, <2>5, <2>7, <2>8, <2>9, <2>10, Turn
<1>6. ASSUME NEW n, Over(n, r.ip), Step(p, "iput", n), r.ret = "putip"
      PROVE  IInv'
  <2>1. r.at = 0 /\ r.dp = 0 /\ r.ip # 0 /\ r.ip \in Slots
    BY <1>1, <1>2, <1>6 DEF ShapeOf, Linking, CallRecs
  <2>2. n \in CallRecs /\ n.at = 0 /\ n.dp = 0 /\ n.ip = 0 /\ n.put = r.ip
    BY <1>6 DEF Over
  <2>3. pc'[p] = "iput" /\ loc'[p] = n
    BY <1>2, <1>6, <2>2, StepIs DEF PCs
  <2>4. Over(loc'[p], r.ip)
    BY <1>6, <2>3
  <2>5. /\ ShapeOf(p)' /\ NamedOf(p)' /\ OwnLocks(p)' /\ Label(p)' = "idle" /\ ~Linking(p)'
        /\ \A s \in Slots : ~Holds(p, s)'
    BY <2>1, <2>3, <2>4, OverQuiet
  <2>6. ~Linking(p) /\ \A s \in Slots : ~Holds(p, s)
    BY <1>2, <1>6 DEF Linking, Holds, HoldsPut, HoldsDp, HoldsIp
  <2>7. LockMoves(p)
    BY <1>3, <2>5, <2>6, LockKept
  <2>8. LabelQuiet(p)
    BY <1>2, <1>6, <2>2, <2>3, <2>5, <2>6 DEF LabelQuiet
  <2>9. Moved(r, n, 0, x)
    BY <1>1, <1>2, <2>1, <2>2, Constants DEF Moved, Frac
  <2>10. "iput" \in PCs
    BY DEF PCs
  <2>11. /\ {n.at, n.dp, n.ip} \subseteq {r.at, r.dp, r.ip, 0, 0}
         /\ n.put \in {r.at, r.dp, r.ip, 0, 0}
         /\ {r.at, r.dp, r.ip} \subseteq {n.at, n.dp, n.ip, 0, n.put}
    BY <2>1, <2>2
  <2> QED
    BY <1>1, <1>2, <1>3, <1>4, <1>6, <2>2, <2>5, <2>7, <2>8, <2>9, <2>10, <2>11, Turn
<1>7. ASSUME r.ret # "idle", r.ret # "putip", Step(p, r.ret, [r EXCEPT !.put = 0, !.ret = "idle"])
      PROVE  IInv'
  <2>1. PICK n : n = [r EXCEPT !.put = 0, !.ret = "idle"]
    OBVIOUS
  <2>2. PICK l \in PCs : l = r.ret
    BY <1>7 DEF CallRecs
  <2>3. /\ n \in CallRecs /\ n.op = r.op /\ n.old = r.old /\ n.new = r.new /\ n.rest = r.rest
        /\ n.par = r.par /\ n.phase = r.phase
        /\ n.at = r.at /\ n.dp = r.dp /\ n.ip = r.ip /\ n.put = 0 /\ n.ret = "idle"
    <3>1. "idle" \in PCs
      BY DEF PCs
    <3> QED
      BY <2>1, <3>1 DEF CallRecs
  <2>4. pc'[p] = l /\ loc'[p] = n
    BY <1>2, <1>7, <2>1, <2>2, <2>3, StepIs
  <2>5. l \notin Putting
    BY <1>2, <2>2 DEF ShapeOf
  <2>6. Label(p)' = l /\ Label(p) = l
    BY <1>2, <2>2, <2>4, <2>5 DEF Label
  <2>7. Linking(p)' <=> Linking(p)
    BY <1>1, <2>3, <2>4, <2>6 DEF Linking
  <2>8. ShapeOf(p)'
    <3>1. ForParent(loc[p])' <=> ForParent(r)
      BY <2>3, <2>4 DEF ForParent
    <3>2. fd' = fd
      BY <1>3 DEF Plain
    <3> QED
      BY <1>1, <1>2, <2>3, <2>4, <2>5, <2>6, <2>7, <3>1, <3>2 DEF ShapeOf
  <2>9. l \notin {"createinit", "unlinkip"}
    BY <1>2, <2>6 DEF OwnLocks, Putting
  <2>10. NamedOf(p)'
    BY <2>4, <2>5, <2>6, <2>9 DEF NamedOf, Putting
  <2>11. r.ip \in Slots \union {0} /\ r.dp \in Slots \union {0} /\ r.at \in Slots \union {0}
    BY DEF CallRecs
  <2>12. OwnLocks(p)'
    <3>1. HoldsIp(p)' => loc'[p].ip # 0
      BY <2>6, <2>8 DEF HoldsIp, ShapeOf
    <3>2. HoldsDp(p)' => loc'[p].dp # 0
      BY <2>6, <2>8 DEF HoldsDp, ShapeOf
    <3> QED
      BY <2>3, <2>4, <2>6, <2>9, <3>1, <3>2 DEF OwnLocks
  <2>13. LockMoves(p)
    <3>1. \A s \in Slots : Holds(p, s)' <=> Holds(p, s)
      BY <1>1, <1>2, <2>3, <2>4, <2>5, <2>6 DEF Holds, HoldsPut, HoldsDp, HoldsIp, Putting
    <3> QED
      BY <1>3, <3>1, LockKept
  <2>14. loc'[p].dp # 0 => dinode[Inum(loc[p].dp)'].type = "dir"
    <3> SUFFICES ASSUME r.dp # 0
                 PROVE  dinode[Inum(loc[p].dp)'].type = "dir"
      BY <2>3, <2>4
    <3>1. PICK d \in Slots : d = r.dp
      BY <2>11
    <3>2. d = x => icache[x].ref > 1
      BY <1>1, <3>1, TwoOwn
    <3>3. SlotQuiet(d)
      BY <1>4, <3>1, <3>2 DEF CacheQuiet
    <3>4. dinode[Inum(d)].type = "dir"
      BY <1>1, <3>1 DEF IInv, Alive
    <3> QED
      BY <2>3, <2>4, <3>1, <3>3, <3>4 DEF SlotQuiet, Inum
  <2>15. LabelQuiet(p)
    BY <1>1, <1>2, <2>3, <2>4, <2>5, <2>6, <2>7, <2>9, <2>14 DEF LabelQuiet, Putting
  <2>16. Moved(r, n, 0, x)
    <3>1. \A s \in Slots : Frac(0 = s) = 0 /\ Frac(s = 0) = 0 /\ Frac(x = s) = Frac(s = x)
      BY Constants DEF Frac
    <3>2. \A b : Frac(b) \in {0, 1}
      BY DEF Frac
    <3> QED
      BY <1>1, <2>3, <3>1, <3>2 DEF Moved
  <2>17. /\ {n.at, n.dp, n.ip} \subseteq {r.at, r.dp, r.ip, 0, 0}
         /\ n.put \in {r.at, r.dp, r.ip, 0, 0}
         /\ {r.at, r.dp, r.ip} \subseteq {n.at, n.dp, n.ip, 0, n.put}
    BY <2>3
  <2>18. l # "unref"
    BY <2>5 DEF Putting
  <2> QED
    BY <1>1, <1>2, <1>3, <1>4, <1>7, <2>1, <2>2, <2>3, <2>8, <2>10, <2>12, <2>13, <2>15, <2>16,
       <2>17, <2>18, Turn
<1>8. Over(NoCall, 0)
  BY OverIs
<1>9. Over(Put(r, "ip", "idle"), r.ip)
  BY <1>1, PutOver
<1> QED
  BY <1>1, <1>5, <1>6, <1>7, <1>8, <1>9 DEF IPutEnd, Done

\* The reference of a call in ip is lost.
LEMMA LeakTurn ==
    ASSUME IInv, TypeOK', NEW p \in Procs, NEW l \in PCs, NEW n \in CallRecs, NEW g, NEW k \in Slots,
           Step(p, l, n), dinode' = dinode, ents' = ents, overlap' = overlap, fd' = fd,
           k = loc[p].ip, leaked' = [leaked EXCEPT ![k] = @ + 1], CacheQuiet(g, 0),
           LockMoves(p), OwnLocks(p)', ShapeOf(p)', NamedOf(p)', LabelQuiet(p),
           loc[p].at = 0, loc[p].dp = 0, loc[p].put = 0,
           n.at = g, n.dp = 0, n.ip = 0, n.put = 0
    PROVE  IInv'
<1>0. TypeOK
  BY DEF IInv
<1>1. /\ pc'[p] = l /\ loc'[p] = n
      /\ \A q \in Procs : q # p => pc'[q] = pc[q] /\ loc'[q] = loc[q]
  BY <1>0, StepIs
<1>2. Others(p)
  BY <1>1 DEF Others
<1>3. \A s \in Slots : /\ leaked'[s] = leaked[s] + Frac(s = k) /\ leaked[s] \in Nat /\ s # 0
  <2>1. leaked \in [Slots -> Nat]
    BY <1>0 DEF TypeOK
  <2>2. \A s \in Slots : leaked'[s] = IF s = k THEN leaked[s] + 1 ELSE leaked[s]
    BY <2>1
  <2>3. \A s \in Slots : leaked[s] \in Nat /\ s # 0
    BY <2>1, Constants
  <2> QED
    BY <2>2, <2>3 DEF Frac
<1>4. ASSUME NEW s \in Slots
      PROVE  leaked'[s] + PtrCount(p, s)' + Frac(s = 0) = leaked[s] + PtrCount(p, s) + Frac(s = g)
  <2>1. PtrCount(p, s)' = Frac(fd[p] = s) + Frac(g = s)
    BY <1>1, <1>3 DEF PtrCount, CountIn, Frac
  <2>2. PtrCount(p, s) = Frac(fd[p] = s) + Frac(k = s)
    BY <1>3 DEF PtrCount, CountIn, Frac
  <2>3. Frac(k = s) = Frac(s = k) /\ Frac(g = s) = Frac(s = g) /\ Frac(s = 0) = 0
    BY <1>3 DEF Frac
  <2>4. \A b : Frac(b) \in Nat
    BY DEF Frac
  <2> QED
    BY <1>3, <2>1, <2>2, <2>3, <2>4
<1>5. \A s \in Slots : leaked'[s] >= leaked[s] /\ (leaked'[s] > leaked[s] => s = k)
  BY <1>3 DEF Frac
<1>6. PtrQuiet(p, g, 0)
  <2>1. Kin(p)' \subseteq Kin(p) \union {0, g} /\ loc'[p].put \in Kin(p) \union {0, g}
    BY <1>1 DEF Kin
  <2> QED
    BY <1>4, <1>5, <2>1 DEF PtrQuiet
<1>7. KeepQuiet(p)
  <2> SUFFICES ASSUME NEW s \in Slots, Keeps(p, s)
               PROVE  Keeps(p, s)' \/ leaked'[s] > 0
    BY DEF KeepQuiet
  <2>1. s = fd[p] \/ s = k
    BY <1>3 DEF Keeps
  <2>2. s = k => leaked'[s] > 0
    BY <1>3 DEF Frac
  <2> QED
    BY <2>1, <2>2 DEF Keeps
<1>8. QuietStep(p, g, 0)
  BY <1>2, <1>6 DEF QuietStep
<1> QED
  BY <1>7, <1>8, QuietInv

\* The reference of a call in ip becomes that of its open file.
LEMMA FileTurn ==
    ASSUME IInv, NEW p \in Procs, NEW k \in Slots, Step(p, "idle", NoCall),
           dinode' = dinode, ents' = ents, leaked' = leaked, panicked' = panicked,
           overlap' = overlap, calls' = calls,
           k = loc[p].ip, fd[p] = 0, fd' = [fd EXCEPT ![p] = k], CacheQuiet(0, 0),
           lock' \in [Slots -> Procs \union {Nobody}], LockMoves(p),
           pc[p] \notin {"createinit", "freed", "trunc"}, ~Linking(p), Label(p) # "unlinkdec",
           loc[p].at = 0, loc[p].dp = 0, loc[p].put = 0
    PROVE  IInv'
<1>0. TypeOK /\ NoCall \in CallRecs /\ "idle" \in PCs
  BY NoCallIs DEF IInv, PCs
<1>1. /\ pc' \in [Procs -> PCs] /\ loc' \in [Procs -> CallRecs]
      /\ pc'[p] = "idle" /\ loc'[p] = NoCall
      /\ \A q \in Procs : q # p => pc'[q] = pc[q] /\ loc'[q] = loc[q]
  BY <1>0, StepIs
<1>2. fd' \in [Procs -> Slots \union {0}] /\ fd'[p] = k /\ \A q \in Procs : q # p => fd'[q] = fd[q]
  BY <1>0 DEF TypeOK
<1>3. TypeOK' /\ Others(p)
  BY <1>0, <1>1, <1>2 DEF TypeOK, CacheQuiet, Caches, SlotRec, Others
<1>4. Over(loc'[p], 0)
  BY <1>1, OverIs
<1>5. /\ ShapeOf(p)' /\ NamedOf(p)' /\ OwnLocks(p)' /\ Label(p)' = "idle" /\ ~Linking(p)'
  BY <1>1, <1>4, OverQuiet
<1>6. /\ loc'[p].at = 0 /\ loc'[p].dp = 0 /\ loc'[p].ip = 0 /\ loc'[p].put = 0
  BY <1>4 DEF Over
<1>7. LabelQuiet(p)
  BY <1>1, <1>5, <1>6 DEF LabelQuiet
<1>8. PtrQuiet(p, 0, 0)
  <2>1. \A s \in Slots : leaked'[s] = leaked[s] /\ leaked[s] \in Nat /\ s # 0
    BY <1>0, Constants DEF TypeOK
  <2>2. \A s \in Slots : PtrCount(p, s)' = PtrCount(p, s)
    BY <1>2, <1>6, <2>1 DEF PtrCount, CountIn, Frac
  <2>3. Kin(p)' \subseteq Kin(p) \union {0, 0} /\ loc'[p].put \in Kin(p) \union {0, 0}
    BY <1>2, <1>6 DEF Kin
  <2> QED
    BY <2>1, <2>2, <2>3 DEF PtrQuiet
<1>9. KeepQuiet(p)
  BY <1>2, Constants DEF KeepQuiet, Keeps
<1>10. QuietStep(p, 0, 0)
  BY <1>3, <1>5, <1>7, <1>8 DEF QuietStep
<1> QED
  BY <1>3, <1>9, <1>10, QuietInv

\* A panic changes nothing else, and a step that stutters nothing at all.
LEMMA PanicKeeps ==
    ASSUME IInv, dinode' = dinode, ents' = ents, icache' = icache, lock' = lock, fd' = fd,
           pc' = pc, loc' = loc, leaked' = leaked, overlap' = overlap, calls' = calls,
           panicked' \in BOOLEAN
    PROVE  IInv'
<1>1. TypeOK'
  BY DEF IInv, TypeOK
<1>2. RefsExact'
  <2>1. \A s \in Slots : Pointers(s)' = Pointers(s)
    BY DEF Pointers, PointsTo
  <2> QED
    BY <2>1 DEF IInv, RefsExact
<1>3. \A p \in Procs : Label(p)' = Label(p) /\ (Linking(p)' <=> Linking(p))
  BY DEF Label, Linking
<1>4. Shape'
  <2>1. \A p \in Procs : ShapeOf(p) => ShapeOf(p)'
    BY <1>3 DEF ShapeOf
  <2> QED
    BY <2>1 DEF IInv, Shape
<1>5. SlotsApart'
  BY DEF IInv, SlotsApart, Apart, Inum
<1>6. Locks'
  BY <1>3 DEF IInv, Locks, Holds, HoldsPut, HoldsDp, HoldsIp
<1>7. Coherent'
  BY DEF IInv, Coherent, Freeing, Inum
<1>8. Alive'
  BY <1>3 DEF IInv, Alive, Forsaken, Leaving, Entries, Freeing, Inum
<1>9. Making'
  BY <1>3 DEF IInv, Making, MakingOf, Forsaken, Leaving, Entries, Inum, Name
<1>10. Truncating' /\ NoLoops'
  BY DEF IInv, Truncating, NoLoops, Inum
<1>11. Counted'
  <2>1. \A i : /\ Entries(i)' = Entries(i) /\ Linkers(i)' = Linkers(i)
               /\ Unlinkers(i)' = Unlinkers(i) /\ DirKids(i)' = DirKids(i)
    BY <1>3 DEF Entries, Linkers, Unlinkers, DirKids, Inum
  <2> QED
    BY <2>1 DEF IInv, Counted, FileCounted, DirCounted, Up
<1>12. Named'
  BY <1>3 DEF IInv, Named, NamedOf, Inum, Name
<1>13. Known'
  BY DEF IInv, Known, Uses, Inum
<1>14. NoneLost'
  BY DEF IInv, NoneLost, Kept, Keeps, Inum
<1> QED
  BY <1>1, <1>2, <1>4, <1>5, <1>6, <1>7, <1>8, <1>9, <1>10, <1>11, <1>12, <1>13, <1>14 DEF IInv

LEMMA CreateOldKeeps ==
    ASSUME IInv, NEW p \in Procs, CreateOld(p)
    PROVE  IInv'
<1>1. PICK r \in CallRecs, k \in Slots : r = loc[p] /\ k = r.ip
  BY Caller DEF ShapeOf, CreateOld, At, Label, Putting
<1>2. /\ TypeOK /\ ShapeOf(p) /\ pc[p] = "createold" /\ Label(p) = "createold" /\ ~Linking(p)
      /\ r.at = 0 /\ r.dp = 0 /\ r.put = 0 /\ r.ret = "idle"
      /\ Inum(k) \in Inums /\ dinode[Inum(k)].type # "free" /\ k # 0 /\ lock[k] = Nobody
  <2>1. TypeOK /\ ShapeOf(p) /\ pc[p] = "createold" /\ Inum(k) \in Inums /\ dinode[Inum(k)].type # "free" /\ k # 0 /\ lock[k] = Nobody
    BY <1>1, Caller, Constants DEF CreateOld, At
  <2>2. Label(p) = "createold"
    BY <2>1 DEF Label, Putting
  <2> QED
    BY <1>1, <2>1, <2>2 DEF ShapeOf, Linking, Putting
<1>3. PICK c : c = Load(icache, k)
  OBVIOUS
<1>4. Fresh(c) /\ c[k].valid /\ icache' = c /\ CacheQuiet(0, 0)
  BY <1>1, <1>2, <1>3, LoadQuiet DEF CreateOld
<1>5. Plain
  BY DEF CreateOld, Plain
<1>6. \A s \in Slots : ~Holds(p, s)
  BY <1>2 DEF Holds, HoldsPut, HoldsDp, HoldsIp
<1>7. ASSUME r.op # "mkdir", lock' = [lock EXCEPT ![k] = p], Step(p, "created", r)
      PROVE  IInv'
  <2>1. pc'[p] = "created" /\ loc'[p] = r
    BY <1>2, <1>7, StepIs DEF PCs
  <2>2. Label(p)' = "created" /\ ~Linking(p)'
    BY <2>1 DEF Label, Linking, Putting
  <2>3. ShapeOf(p)'
    BY <1>1, <1>2, <1>5, <2>1, <2>2 DEF ShapeOf, Putting, Creating, Unlinking, Plain
  <2>4. NamedOf(p)' /\ OwnLocks(p)'
    BY <1>1, <1>2, <2>1, <2>2 DEF NamedOf, OwnLocks, HoldsDp
  <2>5. LockMoves(p)
    <3>1. \A s \in Slots : Holds(p, s)' <=> s = k
      BY <1>1, <2>1, <2>2 DEF Holds, HoldsPut, HoldsDp, HoldsIp
    <3> QED
      BY <1>2, <1>4, <1>6, <1>7, <3>1, LockTaken
  <2>6. LabelQuiet(p)
    BY <1>1, <1>2, <2>1, <2>2 DEF LabelQuiet
  <2>7. Moved(r, r, 0, 0)
    BY DEF Moved
  <2>8. lock' \in [Slots -> Procs \union {Nobody}] /\ "created" \in PCs
    BY <1>2, <1>7 DEF TypeOK, PCs
  <2> QED
    BY <1>1, <1>2, <1>4, <1>5, <1>7, <2>3, <2>4, <2>5, <2>6, <2>7, <2>8, Turn
<1>8. ASSUME lock' = lock, Step(p, "iput", Put(r, "ip", "idle"))
      PROVE  IInv'
  <2>1. PICK n : n = Put(r, "ip", "idle")
    OBVIOUS
  <2>2. Over(n, k) /\ Step(p, "iput", n)
    BY <1>1, <1>8, <2>1, PutOver
  <2>3. Moved(r, n, 0, 0)
    BY <1>1, <1>2, <2>2, Constants DEF Moved, Frac, Over
  <2> QED
    BY <1>1, <1>2, <1>4, <1>5, <1>6, <1>8, <2>2, <2>3, LastTurn
<1> QED
  BY <1>1, <1>7, <1>8 DEF CreateOld

LEMMA CreatedKeeps ==
    ASSUME IInv, NEW p \in Procs, Created(p)
    PROVE  IInv'
<1>1. PICK r \in CallRecs, k \in Slots : r = loc[p] /\ k = r.ip
  BY Caller DEF ShapeOf, Created, At, Label, Putting
<1>2. /\ TypeOK /\ ShapeOf(p) /\ pc[p] = "created" /\ Label(p) = "created" /\ ~Linking(p)
      /\ r.at = 0 /\ r.dp = 0 /\ r.put = 0 /\ r.ret = "idle"
      /\ Inum(k) \in Inums /\ k # 0
  <2>1. TypeOK /\ ShapeOf(p) /\ pc[p] = "created" /\ Inum(k) \in Inums /\ k # 0
    BY <1>1, Caller, Constants DEF Created, At
  <2>2. Label(p) = "created"
    BY <2>1 DEF Label, Putting
  <2> QED
    BY <1>1, <2>1, <2>2 DEF ShapeOf, Linking, Putting
<1>3. \A s \in Slots : Holds(p, s) <=> s = k
  BY <1>1, <1>2 DEF Holds, HoldsPut, HoldsDp, HoldsIp
<1>4. /\ lock' = [lock EXCEPT ![k] = Nobody] /\ lock' \in [Slots -> Procs \union {Nobody}]
      /\ dinode' = dinode /\ ents' = ents /\ panicked' = panicked /\ overlap' = overlap
      /\ calls' = calls
  BY <1>1, <1>2 DEF Created, Release, TypeOK
<1>5. ASSUME r.op = "create", fd' = [fd EXCEPT ![p] = k], Step(p, "idle", NoCall),
             icache' = icache, leaked' = leaked
      PROVE  IInv'
  <2>1. fd[p] = 0
    BY <1>1, <1>2, <1>5 DEF ShapeOf
  <2>2. CacheQuiet(0, 0)
    BY <1>2, <1>5, SameQuiet
  <2>3. LockMoves(p)
    <3>1. pc'[p] = "idle" /\ loc'[p] = NoCall
      BY <1>2, <1>5, NoCallIs, StepIs DEF PCs
    <3>2. Over(loc'[p], 0)
      BY <3>1, OverIs
    <3>3. \A s \in Slots : ~Holds(p, s)'
      BY <3>1, <3>2, OverQuiet
    <3> QED
      BY <1>3, <1>4, <3>3, LockReleased
  <2> QED
    BY <1>1, <1>2, <1>4, <1>5, <2>1, <2>2, <2>3, FileTurn
<1>6. ASSUME Step(p, "iput", Put(r, "ip", "idle")), icache' = icache, leaked' = leaked, fd' = fd
      PROVE  IInv'
  <2>1. PICK n : n = Put(r, "ip", "idle")
    OBVIOUS
  <2>2. Over(n, k) /\ Step(p, "iput", n)
    BY <1>1, <1>6, <2>1, PutOver
  <2>3. Moved(r, n, 0, 0)
    BY <1>1, <1>2, <2>2, Constants DEF Moved, Frac, Over
  <2>4. CacheQuiet(0, 0) /\ Plain
    BY <1>2, <1>4, <1>6, SameQuiet DEF Plain
  <2> QED
    BY <1>1, <1>2, <1>3, <1>4, <2>2, <2>3, <2>4, LastTurn
<1>7. ASSUME r.op = "symlink", leaked' = [leaked EXCEPT ![k] = @ + 1], Step(p, "idle", NoCall),
             icache' = [icache EXCEPT ![k].path = r.old, ![k].file_type = SYMBOLIC], fd' = fd
      PROVE  IInv'
  <2>1. pc' \in [Procs -> PCs] /\ loc' \in [Procs -> CallRecs] /\ pc'[p] = "idle" /\ loc'[p] = NoCall
    BY <1>2, <1>7, NoCallIs, StepIs DEF PCs
  <2>2. Over(loc'[p], 0)
    BY <2>1, OverIs
  <2>3. /\ ShapeOf(p)' /\ NamedOf(p)' /\ OwnLocks(p)' /\ Label(p)' = "idle" /\ ~Linking(p)'
        /\ \A s \in Slots : ~Holds(p, s)'
    BY <2>1, <2>2, OverQuiet
  <2>4. LockMoves(p)
    BY <1>3, <1>4, <2>3, LockReleased
  <2>5. Fresh(icache') /\ CacheQuiet(0, 0)
    <3>1. r.old \in Paths \union {<<>>} /\ SYMBOLIC \in {ORIGIN, SYMBOLIC} /\ Fresh(icache)
      BY <1>2, FreshSame DEF CallRecs
    <3>2. Fresh(icache')
      BY <1>7, <3>1, FreshLink
    <3> QED
      BY <1>2, <3>2, FreshQuiet
  <2>6. TypeOK'
    <3>1. leaked' \in [Slots -> Nat]
      BY <1>2, <1>7 DEF TypeOK
    <3> QED
      BY <1>2, <1>4, <1>7, <2>1, <2>5, <3>1 DEF TypeOK, Fresh, Caches, SlotRec
  <2>7. /\ NoCall.at = 0 /\ NoCall.dp = 0 /\ NoCall.ip = 0 /\ NoCall.put = 0
    BY DEF NoCall
  <2>8. LabelQuiet(p)
    BY <1>2, <2>1, <2>3, <2>7 DEF LabelQuiet
  <2>9. NoCall \in CallRecs /\ "idle" \in PCs
    BY NoCallIs DEF PCs
  <2> QED
    BY <1>1, <1>2, <1>4, <1>7, <2>3, <2>4, <2>5, <2>6, <2>7, <2>8, <2>9, LeakTurn
<1> QED
  BY <1>1, <1>5, <1>6, <1>7 DEF Created, Done

\* A path in the call is walked from the root.
LEMMA WalkIs ==
    ASSUME NEW r \in CallRecs, NEW path \in Paths, NEW b \in BOOLEAN, NEW k \in 1 .. 3,
           NEW n, n = Walk(r, path, b, k)
    PROVE  /\ n \in CallRecs /\ n.op = r.op /\ n.old = r.old /\ n.new = r.new
           /\ n.rest = path /\ n.rest # <<>> /\ n.par = b /\ n.phase = k /\ n.at = ROOT
           /\ n.dp = r.dp /\ n.ip = r.ip /\ n.put = r.put /\ n.ret = r.ret
<1>1. path \in Seq(Names) /\ path # <<>> /\ ROOT \in Slots \union {0} /\ k \in 0 .. 3
  BY DirAssumption, Constants
<1>2. n = [r EXCEPT !.rest = path, !.par = b, !.phase = k, !.at = ROOT]
  BY DEF Walk
<1>3. n \in CallRecs
  BY <1>1, <1>2 DEF CallRecs
<1> QED
  BY <1>1, <1>2, <1>3 DEF CallRecs

LEMMA OpenCheckKeeps ==
    ASSUME IInv, NEW p \in Procs, OpenCheck(p)
    PROVE  IInv'
<1>1. PICK r \in CallRecs, k \in Slots : r = loc[p] /\ k = r.ip
  BY Caller DEF ShapeOf, OpenCheck, At, Label, Putting
<1>2. /\ TypeOK /\ ShapeOf(p) /\ pc[p] = "opencheck" /\ Label(p) = "opencheck" /\ ~Linking(p)
      /\ r.at = 0 /\ r.dp = 0 /\ r.put = 0 /\ r.ret = "idle" /\ r.op = "open" /\ r.old \in Paths
      /\ k # 0
  <2>1. TypeOK /\ ShapeOf(p) /\ pc[p] = "opencheck" /\ k # 0
    BY <1>1, Caller, Constants DEF OpenCheck, At
  <2>2. Label(p) = "opencheck"
    BY <2>1 DEF Label, Putting
  <2> QED
    BY <1>1, <2>1, <2>2 DEF ShapeOf, Linking, Putting
<1>3. \A s \in Slots : ~Holds(p, s)
  BY <1>2 DEF Holds, HoldsPut, HoldsDp, HoldsIp
<1>4. /\ dinode' = dinode /\ ents' = ents /\ lock' = lock /\ fd' = fd
      /\ panicked' = panicked /\ overlap' = overlap /\ calls' = calls
      /\ lock' \in [Slots -> Procs \union {Nobody}]
  BY <1>2 DEF OpenCheck, TypeOK
<1>5. ASSUME icache[k].path # <<>>, icache' = IGet(icache, ROOTINO),
             leaked' = [leaked EXCEPT ![k] = @ + 1],
             Step(p, "walk", [Walk(r, icache[k].path, FALSE, 2) EXCEPT !.ip = 0])
      PROVE  IInv'
  <2>1. PICK path \in Paths : path = icache[k].path
    BY <1>2, <1>5 DEF TypeOK
  <2>2. PICK m : m = Walk(r, path, FALSE, 2)
    OBVIOUS
  <2>3. PICK n : n = [m EXCEPT !.ip = 0]
    OBVIOUS
  <2>4. /\ m \in CallRecs /\ m.op = r.op /\ m.old = r.old /\ m.new = r.new
        /\ m.rest # <<>> /\ m.par = FALSE /\ m.phase = 2 /\ m.at = ROOT
        /\ m.dp = r.dp /\ m.ip = r.ip /\ m.put = r.put /\ m.ret = r.ret
    <3>1. PICK b \in BOOLEAN : b = FALSE
      OBVIOUS
    <3>2. PICK ph \in 1 .. 3 : ph = 2
      OBVIOUS
    <3>3. m = Walk(r, path, b, ph)
      BY <2>2, <3>1, <3>2
    <3>4. /\ m \in CallRecs /\ m.op = r.op /\ m.old = r.old /\ m.new = r.new
          /\ m.rest # <<>> /\ m.par = b /\ m.phase = ph /\ m.at = ROOT
          /\ m.dp = r.dp /\ m.ip = r.ip /\ m.put = r.put /\ m.ret = r.ret
      BY <3>3, WalkIs
    <3> QED
      BY <3>1, <3>2, <3>4
  <2>5. /\ n \in CallRecs /\ n.op = "open" /\ n.old \in Paths
        /\ n.rest # <<>> /\ n.par = FALSE /\ n.phase = 2 /\ n.at = ROOT
        /\ n.dp = 0 /\ n.ip = 0 /\ n.put = 0 /\ n.ret = "idle"
    BY <1>2, <2>3, <2>4 DEF CallRecs
  <2>6. Step(p, "walk", n) /\ "walk" \in PCs
    BY <1>5, <2>1, <2>2, <2>3 DEF PCs
  <2>7. pc' \in [Procs -> PCs] /\ loc' \in [Procs -> CallRecs] /\ pc'[p] = "walk" /\ loc'[p] = n
    BY <1>2, <2>5, <2>6, StepIs
  <2>8. Label(p)' = "walk" /\ ~Linking(p)'
    BY <2>5, <2>7 DEF Label, Linking, Putting
  <2>9. ShapeOf(p)'
    <3>1. fd[p] = 0
      BY <1>1, <1>2 DEF ShapeOf
    <3> QED
      BY <1>4, <2>5, <2>7, <2>8, <3>1, Constants
         DEF ShapeOf, Putting, Creating, Unlinking, ForParent
  <2>10. NamedOf(p)' /\ OwnLocks(p)'
    BY <2>8 DEF NamedOf, OwnLocks, HoldsDp, HoldsIp
  <2>11. LockMoves(p)
    <3>1. \A s \in Slots : ~Holds(p, s)'
      BY <2>7, <2>8 DEF Holds, HoldsPut, HoldsDp, HoldsIp
    <3> QED
      BY <1>3, <1>4, <3>1, LockKept
  <2>12. CacheQuiet(ROOT, 0)
    BY <1>2, <1>5, GetQuiet, RootLinked, FreshSame, Constants DEF IInv
  <2>13. TypeOK'
    <3>1. leaked' \in [Slots -> Nat]
      BY <1>2, <1>5 DEF TypeOK
    <3> QED
      BY <1>2, <1>4, <2>7, <2>12, <3>1 DEF TypeOK, CacheQuiet, Caches, SlotRec
  <2>14. LabelQuiet(p)
    BY <1>2, <2>5, <2>7, <2>8 DEF LabelQuiet
  <2> QED
    BY <1>1, <1>2, <1>4, <1>5, <2>5, <2>6, <2>9, <2>10, <2>11, <2>12, <2>13, <2>14, LeakTurn
<1>6. ASSUME Step(p, "openlock", r), icache' = icache, leaked' = leaked
      PROVE  IInv'
  <2>1. pc'[p] = "openlock" /\ loc'[p] = r
    BY <1>2, <1>6, StepIs DEF PCs
  <2>2. Label(p)' = "openlock" /\ ~Linking(p)'
    BY <2>1 DEF Label, Linking, Putting
  <2>3. ShapeOf(p)'
    BY <1>1, <1>2, <1>4, <2>1, <2>2 DEF ShapeOf, Putting, Creating, Unlinking
  <2>4. NamedOf(p)' /\ OwnLocks(p)'
    BY <2>2 DEF NamedOf, OwnLocks, HoldsDp, HoldsIp
  <2>5. LockMoves(p)
    <3>1. \A s \in Slots : ~Holds(p, s)'
      BY <2>1, <2>2 DEF Holds, HoldsPut, HoldsDp, HoldsIp
    <3> QED
      BY <1>3, <1>4, <3>1, LockKept
  <2>6. LabelQuiet(p)
    BY <1>1, <1>2, <2>1, <2>2 DEF LabelQuiet
  <2>7. Moved(r, r, 0, 0)
    BY DEF Moved
  <2>8. Plain /\ "openlock" \in PCs /\ CacheQuiet(0, 0)
    BY <1>2, <1>4, <1>6, SameQuiet DEF Plain, PCs
  <2> QED
    BY <1>1, <1>2, <1>4, <1>6, <2>3, <2>4, <2>5, <2>6, <2>7, <2>8, Turn
<1> QED
  BY <1>1, <1>5, <1>6 DEF OpenCheck

LEMMA OpenSelfKeeps ==
    ASSUME IInv, NEW p \in Procs, OpenSelf(p)
    PROVE  IInv'
<1>1. PICK r \in CallRecs : r = loc[p]
  BY Caller
<1>2. /\ TypeOK /\ ShapeOf(p) /\ pc[p] = "openself" /\ Label(p) = "openself" /\ ~Linking(p)
      /\ r.at = 0 /\ r.dp = 0 /\ r.ip = 0 /\ r.put = 0 /\ r.ret = "idle" /\ r.op = "open"
      /\ r.old \in Paths
  <2>1. TypeOK /\ ShapeOf(p) /\ pc[p] = "openself"
    BY Caller DEF OpenSelf, At
  <2>2. Label(p) = "openself"
    BY <2>1 DEF Label, Putting
  <2> QED
    BY <1>1, <2>1, <2>2 DEF ShapeOf, Linking, Putting
<1>3. Plain /\ lock' = lock /\ lock' \in [Slots -> Procs \union {Nobody}]
  BY <1>2 DEF OpenSelf, Plain, TypeOK
<1>4. PICK n : n = Walk(r, r.old, FALSE, 3)
  OBVIOUS
<1>5. /\ n \in CallRecs /\ n.op = "open" /\ n.old \in Paths
      /\ n.rest # <<>> /\ n.par = FALSE /\ n.phase = 3 /\ n.at = ROOT
      /\ n.dp = 0 /\ n.ip = 0 /\ n.put = 0 /\ n.ret = "idle"
  <2>1. PICK b \in BOOLEAN : b = FALSE
    OBVIOUS
  <2>2. PICK ph \in 1 .. 3 : ph = 3
    OBVIOUS
  <2>3. n = Walk(r, r.old, b, ph)
    BY <1>4, <2>1, <2>2
  <2>4. PICK old \in Paths : old = r.old
    BY <1>2
  <2>5. /\ n \in CallRecs /\ n.op = r.op /\ n.old = r.old
        /\ n.rest # <<>> /\ n.par = b /\ n.phase = ph /\ n.at = ROOT
        /\ n.dp = r.dp /\ n.ip = r.ip /\ n.put = r.put /\ n.ret = r.ret
    BY <2>3, <2>4, WalkIs
  <2> QED
    BY <1>2, <2>1, <2>2, <2>5
<1>6. Step(p, "walk", n) /\ "walk" \in PCs
  BY <1>1, <1>4 DEF OpenSelf, PCs
<1>7. pc'[p] = "walk" /\ loc'[p] = n
  BY <1>2, <1>5, <1>6, StepIs
<1>8. Label(p)' = "walk" /\ ~Linking(p)'
  BY <1>5, <1>7 DEF Label, Linking, Putting
<1>9. ShapeOf(p)'
  <2>1. fd'[p] = 0
    BY <1>1, <1>2, <1>3 DEF ShapeOf, Plain
  <2> QED
    BY <1>5, <1>7, <1>8, <2>1, Constants DEF ShapeOf, Putting, Creating, Unlinking, ForParent
<1>10. NamedOf(p)' /\ OwnLocks(p)'
  BY <1>8 DEF NamedOf, OwnLocks, HoldsDp, HoldsIp
<1>11. LockMoves(p)
  <2>1. \A s \in Slots : ~Holds(p, s)' /\ ~Holds(p, s)
    BY <1>2, <1>7, <1>8 DEF Holds, HoldsPut, HoldsDp, HoldsIp
  <2> QED
    BY <1>3, <2>1, LockKept
<1>12. CacheQuiet(ROOT, 0)
  <2>1. icache' = IGet(icache, ROOTINO)
    BY DEF OpenSelf
  <2> QED
    BY <1>2, <2>1, GetQuiet, RootLinked, FreshSame, Constants DEF IInv
<1>13. LabelQuiet(p)
  BY <1>2, <1>5, <1>7, <1>8 DEF LabelQuiet
<1>14. Moved(r, n, ROOT, 0)
  BY <1>2, <1>5, Constants DEF Moved, Frac
<1> QED
  BY <1>1, <1>2, <1>3, <1>5, <1>6, <1>9, <1>10, <1>11, <1>12, <1>13, <1>14, Turn

LEMMA OpenLockKeeps ==
    ASSUME IInv, NEW p \in Procs, OpenLock(p)
    PROVE  IInv'
<1>1. PICK r \in CallRecs, k \in Slots : r = loc[p] /\ k = r.ip
  BY Caller DEF ShapeOf, OpenLock, At, Label, Putting
<1>2. /\ TypeOK /\ ShapeOf(p) /\ pc[p] = "openlock" /\ Label(p) = "openlock" /\ ~Linking(p)
      /\ r.at = 0 /\ r.dp = 0 /\ r.put = 0 /\ r.op = "open"
      /\ Inum(k) \in Inums /\ dinode[Inum(k)].type # "free" /\ k # 0 /\ fd[p] = 0
  <2>1. TypeOK /\ ShapeOf(p) /\ pc[p] = "openlock" /\ Inum(k) \in Inums /\ dinode[Inum(k)].type # "free" /\ k # 0
    BY <1>1, Caller, Constants DEF OpenLock, At
  <2>2. Label(p) = "openlock"
    BY <2>1 DEF Label, Putting
  <2> QED
    BY <1>1, <2>1, <2>2 DEF ShapeOf, Linking, Putting
<1>3. PICK c : c = Load(icache, k)
  OBVIOUS
<1>4. Fresh(c) /\ c[k] \in SlotRec
  BY <1>2, <1>3, LoadQuiet DEF Fresh, Caches
<1>5. PICK ft \in {ORIGIN, SYMBOLIC} : ft = IF r.phase > 1 THEN SYMBOLIC ELSE c[k].file_type
  BY <1>4 DEF SlotRec
<1>6. icache' = [c EXCEPT ![k].file_type = ft]
  BY <1>1, <1>3, <1>5 DEF OpenLock
<1>7. CacheQuiet(0, 0)
  <2>1. Fresh([c EXCEPT ![k].file_type = ft])
    <3>1. <<>> \in Paths \union {<<>>}
      OBVIOUS
    <3> QED
      BY <1>4, <3>1, FreshLink
  <2> QED
    BY <1>2, <1>6, <2>1, FreshQuiet
<1>8. /\ dinode' = dinode /\ ents' = ents /\ lock' = lock /\ leaked' = leaked
      /\ panicked' = panicked /\ overlap' = overlap /\ calls' = calls
      /\ lock' \in [Slots -> Procs \union {Nobody}]
      /\ fd' = [fd EXCEPT ![p] = k] /\ Step(p, "idle", NoCall)
  BY <1>1, <1>2 DEF OpenLock, TypeOK, Done
<1>9. LockMoves(p)
  <2>1. pc'[p] = "idle" /\ loc'[p] = NoCall
    BY <1>2, <1>8, NoCallIs, StepIs DEF PCs
  <2>2. Over(loc'[p], 0)
    BY <2>1, OverIs
  <2>3. \A s \in Slots : ~Holds(p, s)'
    BY <2>1, <2>2, OverQuiet
  <2>4. \A s \in Slots : ~Holds(p, s)
    BY <1>2 DEF Holds, HoldsPut, HoldsDp, HoldsIp
  <2> QED
    BY <1>8, <2>3, <2>4, LockKept
<1> QED
  BY <1>1, <1>2, <1>7, <1>8, <1>9, FileTurn

LEMMA CloseKeeps ==
    ASSUME IInv, NEW p \in Procs, Close(p)
    PROVE  IInv'
<1>1. PICK k \in Slots : k = fd[p] /\ k # 0
  BY Constants DEF Close, IInv, TypeOK
<1>2. PICK n : n = [NoCall EXCEPT !.put = k]
  OBVIOUS
<1>3. Over(n, k)
  BY <1>2, OverIs
<1>4. /\ n \in CallRecs /\ n.at = 0 /\ n.dp = 0 /\ n.ip = 0 /\ n.put = k
  BY <1>3 DEF Over
<1>5. /\ TypeOK /\ pc[p] = "idle" /\ Label(p) = "idle" /\ ~Linking(p) /\ ShapeOf(p)
      /\ loc[p].at = 0 /\ loc[p].dp = 0 /\ loc[p].ip = 0 /\ loc[p].put = 0
  <2>1. TypeOK /\ pc[p] = "idle" /\ ShapeOf(p)
    BY Caller DEF Close, At
  <2>2. Label(p) = "idle" /\ ~Linking(p)
    BY <2>1 DEF Label, Putting, Linking
  <2> QED
    BY <2>1, <2>2 DEF ShapeOf, Putting
<1>6. /\ dinode' = dinode /\ ents' = ents /\ icache' = icache /\ lock' = lock /\ leaked' = leaked
      /\ panicked' = panicked /\ overlap' = overlap /\ calls' = calls
      /\ fd' = [fd EXCEPT ![p] = 0] /\ Step(p, "iput", n)
  BY <1>1, <1>2 DEF Close
<1>7. /\ pc' \in [Procs -> PCs] /\ loc' \in [Procs -> CallRecs]
      /\ pc'[p] = "iput" /\ loc'[p] = n
      /\ \A q \in Procs : q # p => pc'[q] = pc[q] /\ loc'[q] = loc[q]
  BY <1>4, <1>5, <1>6, StepIs DEF PCs
<1>8. fd' \in [Procs -> Slots \union {0}] /\ fd'[p] = 0 /\ \A q \in Procs : q # p => fd'[q] = fd[q]
  BY <1>5, <1>6 DEF TypeOK
<1>9. TypeOK' /\ Others(p)
  BY <1>5, <1>6, <1>7, <1>8 DEF TypeOK, Others
<1>10. Over(loc'[p], k)
  BY <1>3, <1>7
<1>11. /\ ShapeOf(p)' /\ NamedOf(p)' /\ OwnLocks(p)' /\ Label(p)' = "idle" /\ ~Linking(p)'
       /\ \A s \in Slots : ~Holds(p, s)'
  BY <1>7, <1>10, OverQuiet
<1>12. LockMoves(p)
  <2>1. \A s \in Slots : ~Holds(p, s)
    BY <1>5 DEF Holds, HoldsPut, HoldsDp, HoldsIp
  <2> QED
    BY <1>6, <1>11, <2>1, LockKept
<1>13. CacheQuiet(0, 0)
  BY <1>5, <1>6, SameQuiet
<1>14. LabelQuiet(p)
  BY <1>4, <1>5, <1>7, <1>11 DEF LabelQuiet
<1>15. PtrQuiet(p, 0, 0)
  <2>1. \A s \in Slots : leaked'[s] = leaked[s] /\ leaked[s] \in Nat /\ s # 0
    BY <1>5, <1>6, Constants DEF TypeOK
  <2>2. \A s \in Slots : PtrCount(p, s)' = PtrCount(p, s)
    BY <1>1, <1>4, <1>5, <1>7, <1>8, <2>1 DEF PtrCount, CountIn, Frac
  <2>3. Kin(p)' \subseteq Kin(p) \union {0, 0} /\ loc'[p].put \in Kin(p) \union {0, 0}
    BY <1>1, <1>4, <1>7, <1>8 DEF Kin
  <2> QED
    BY <2>1, <2>2, <2>3 DEF PtrQuiet
<1>16. KeepQuiet(p)
  BY <1>1, <1>4, <1>5, <1>7, Constants DEF KeepQuiet, Keeps
<1>17. QuietStep(p, 0, 0)
  BY <1>6, <1>9, <1>11, <1>12, <1>13, <1>14, <1>15 DEF QuietStep
<1> QED
  BY <1>9, <1>16, <1>17, QuietInv

LEMMA LinkClashKeeps ==
    ASSUME IInv, NEW p \in Procs, LinkClash(p)
    PROVE  IInv'
<1>1. PICK r \in CallRecs, d \in Slots : r = loc[p] /\ d = r.dp
  BY Caller DEF ShapeOf, LinkClash, At, Label, Putting
<1>2. /\ TypeOK /\ ShapeOf(p) /\ pc[p] = "linkclash" /\ Label(p) = "linkclash" /\ Linking(p)
      /\ r.at = 0 /\ r.ip # 0 /\ r.put = 0 /\ r.op = "link" /\ r.phase = 2 /\ d # 0
  <2>1. TypeOK /\ ShapeOf(p) /\ pc[p] = "linkclash" /\ d # 0
    BY <1>1, Caller, Constants DEF LinkClash, At
  <2>2. Label(p) = "linkclash" /\ Linking(p)
    BY <2>1 DEF Label, Putting, Linking
  <2> QED
    BY <1>1, <2>1, <2>2 DEF ShapeOf, Putting
<1>3. \A s \in Slots : Holds(p, s) <=> s = d
  BY <1>1, <1>2 DEF Holds, HoldsPut, HoldsDp, HoldsIp
<1>4. Plain /\ CacheQuiet(0, 0) /\ lock' = [lock EXCEPT ![d] = Nobody]
      /\ lock' \in [Slots -> Procs \union {Nobody}]
  BY <1>1, <1>2, SameQuiet DEF LinkClash, Plain, Release, TypeOK
<1>5. PICK n : n = Put(r, "dp", "linkundo")
  OBVIOUS
<1>6. Step(p, "iput", n) /\ "iput" \in PCs /\ "linkundo" \in PCs
  BY <1>1, <1>5 DEF LinkClash, PCs
<1>7. /\ n \in CallRecs /\ n.op = r.op /\ n.old = r.old /\ n.new = r.new /\ n.phase = r.phase
      /\ n.at = 0 /\ n.dp = 0 /\ n.ip = r.ip /\ n.put = d /\ n.ret = "linkundo"
  <2>1. PICK ret \in PCs \union {"putip"} : ret = "linkundo"
    BY <1>6
  <2>2. Onward(r, Put(r, "dp", ret), r.at, 0, r.ip, r.dp, ret)
    BY <2>1, PutOnward
  <2> QED
    BY <1>1, <1>2, <1>5, <2>1, <2>2 DEF Onward
<1>8. pc'[p] = "iput" /\ loc'[p] = n
  BY <1>2, <1>6, <1>7, StepIs
<1>9. Label(p)' = "linkundo" /\ Linking(p)'
  BY <1>7, <1>8 DEF Label, Linking, Putting
<1>10. ShapeOf(p)'
  BY <1>1, <1>2, <1>4, <1>7, <1>8, <1>9 DEF ShapeOf, Putting, Creating, Unlinking, Plain
<1>11. NamedOf(p)' /\ OwnLocks(p)'
  BY <1>9 DEF NamedOf, OwnLocks, HoldsDp, HoldsIp
<1>12. LockMoves(p)
  <2>1. \A s \in Slots : ~Holds(p, s)'
    BY <1>8, <1>9 DEF Holds, HoldsPut, HoldsDp, HoldsIp
  <2> QED
    BY <1>3, <1>4, <2>1, LockReleased
<1>13. LabelQuiet(p)
  BY <1>1, <1>2, <1>7, <1>8, <1>9 DEF LabelQuiet
<1>14. Moved(r, n, 0, 0)
  BY <1>1, <1>2, <1>7, Constants DEF Moved, Frac
<1>15. /\ {n.at, n.dp, n.ip} \subseteq {r.at, r.dp, r.ip, 0, 0}
       /\ n.put \in {r.at, r.dp, r.ip, 0, 0}
       /\ {r.at, r.dp, r.ip} \subseteq {n.at, n.dp, n.ip, 0, n.put}
       /\ r.put \in {n.at, n.dp, n.ip, 0, n.put}
  BY <1>1, <1>2, <1>7
<1> QED
  BY <1>1, <1>4, <1>6, <1>7, <1>10, <1>11, <1>12, <1>13, <1>14, <1>15, Turn

LEMMA UnlinkBadKeeps ==
    ASSUME IInv, NEW p \in Procs, UnlinkBad(p)
    PROVE  IInv'
<1>1. PICK r \in CallRecs, d \in Slots : r = loc[p] /\ d = r.dp
  BY Caller DEF ShapeOf, UnlinkBad, At, Label, Putting
<1>2. /\ TypeOK /\ pc[p] = "unlinkbad" /\ Label(p) = "unlinkbad" /\ ~Linking(p)
      /\ r.at = 0 /\ r.ip = 0 /\ r.put = 0 /\ d # 0
  <2>1. TypeOK /\ ShapeOf(p) /\ pc[p] = "unlinkbad" /\ d # 0
    BY <1>1, Caller, Constants DEF UnlinkBad, At
  <2>2. Label(p) = "unlinkbad" /\ ~Linking(p)
    BY <2>1 DEF Label, Putting, Linking
  <2> QED
    BY <1>1, <2>1, <2>2 DEF ShapeOf, Putting
<1>3. \A s \in Slots : Holds(p, s) <=> s = d
  BY <1>1, <1>2 DEF Holds, HoldsPut, HoldsDp, HoldsIp
<1>4. Plain /\ CacheQuiet(0, 0) /\ lock' = [lock EXCEPT ![d] = Nobody]
  BY <1>1, <1>2, SameQuiet DEF UnlinkBad, Plain, Release
<1>5. PICK n : n = Put(r, "dp", "idle")
  OBVIOUS
<1>6. Over(n, d) /\ Step(p, "iput", n)
  BY <1>1, <1>5, PutOver DEF UnlinkBad
<1>7. Moved(r, n, 0, 0)
  BY <1>1, <1>2, <1>6, Constants DEF Moved, Frac, Over
<1> QED
  BY <1>1, <1>2, <1>3, <1>4, <1>6, <1>7, LastTurn

LEMMA SymOldKeeps ==
    ASSUME IInv, NEW p \in Procs, SymOld(p)
    PROVE  IInv'
<1>1. PICK r \in CallRecs, k \in Slots : r = loc[p] /\ k = r.ip
  BY Caller DEF ShapeOf, SymOld, At, Label, Putting
<1>2. /\ TypeOK /\ ShapeOf(p) /\ pc[p] = "symold" /\ Label(p) = "symold" /\ ~Linking(p)
      /\ r.at = 0 /\ r.dp = 0 /\ r.put = 0 /\ r.ret = "idle" /\ r.op = "symlink" /\ r.phase = 1
      /\ r.new \in Paths /\ Inum(k) \in Inums /\ dinode[Inum(k)].type # "free" /\ k # 0
  <2>1. TypeOK /\ ShapeOf(p) /\ pc[p] = "symold" /\ Inum(k) \in Inums /\ dinode[Inum(k)].type # "free" /\ k # 0
    BY <1>1, Caller, Constants DEF SymOld, At
  <2>2. Label(p) = "symold"
    BY <2>1 DEF Label, Putting
  <2> QED
    BY <1>1, <2>1, <2>2 DEF ShapeOf, Linking, Putting
<1>3. PICK c : c = Load(icache, k)
  OBVIOUS
<1>4. Fresh(c) /\ (icache' = c => CacheQuiet(0, 0))
  BY <1>2, <1>3, LoadQuiet
<1>5. \A s \in Slots : ~Holds(p, s)
  BY <1>2 DEF Holds, HoldsPut, HoldsDp, HoldsIp
<1>6. /\ dinode' = dinode /\ ents' = ents /\ lock' = lock /\ fd' = fd
      /\ panicked' = panicked /\ overlap' = overlap /\ calls' = calls
      /\ lock' \in [Slots -> Procs \union {Nobody}]
  BY <1>2 DEF SymOld, TypeOK
<1>7. ASSUME icache' = c, Step(p, "iput", Put(r, "ip", "idle")), leaked' = leaked
      PROVE  IInv'
  <2>1. PICK n : n = Put(r, "ip", "idle")
    OBVIOUS
  <2>2. Over(n, k) /\ Step(p, "iput", n)
    BY <1>1, <1>7, <2>1, PutOver
  <2>3. Moved(r, n, 0, 0)
    BY <1>1, <1>2, <2>2, Constants DEF Moved, Frac, Over
  <2>4. Plain
    BY <1>6, <1>7 DEF Plain
  <2> QED
    BY <1>1, <1>2, <1>4, <1>5, <1>6, <1>7, <2>2, <2>3, <2>4, LastTurn
<1>8. ASSUME icache' = IGet([c EXCEPT ![k].path = r.old], ROOTINO),
             leaked' = [leaked EXCEPT ![k] = @ + 1],
             Step(p, "walk", [Walk(r, r.new, TRUE, 2) EXCEPT !.ip = 0, !.new = <<>>])
      PROVE  IInv'
  <2>1. PICK m : m = Walk(r, r.new, TRUE, 2)
    OBVIOUS
  <2>2. PICK n : n = [m EXCEPT !.ip = 0, !.new = <<>>]
    OBVIOUS
  <2>3. /\ m \in CallRecs /\ m.op = r.op /\ m.old = r.old
        /\ m.rest # <<>> /\ m.par = TRUE /\ m.phase = 2 /\ m.at = ROOT
        /\ m.dp = r.dp /\ m.ip = r.ip /\ m.put = r.put /\ m.ret = r.ret
    <3>1. PICK b \in BOOLEAN : b = TRUE
      OBVIOUS
    <3>2. PICK ph \in 1 .. 3 : ph = 2
      OBVIOUS
    <3>3. PICK path \in Paths : path = r.new
      BY <1>2
    <3>4. m = Walk(r, path, b, ph)
      BY <2>1, <3>1, <3>2, <3>3
    <3>5. /\ m \in CallRecs /\ m.op = r.op /\ m.old = r.old
          /\ m.rest # <<>> /\ m.par = b /\ m.phase = ph /\ m.at = ROOT
          /\ m.dp = r.dp /\ m.ip = r.ip /\ m.put = r.put /\ m.ret = r.ret
      BY <3>4, WalkIs
    <3> QED
      BY <3>1, <3>2, <3>5
  <2>4. /\ n \in CallRecs /\ n.op = "symlink" /\ n.rest # <<>> /\ n.par = TRUE /\ n.phase = 2
        /\ n.at = ROOT /\ n.dp = 0 /\ n.ip = 0 /\ n.put = 0 /\ n.ret = "idle"
    BY <1>2, <2>2, <2>3 DEF CallRecs
  <2>5. Step(p, "walk", n) /\ "walk" \in PCs
    BY <1>8, <2>1, <2>2 DEF PCs
  <2>6. pc' \in [Procs -> PCs] /\ loc' \in [Procs -> CallRecs] /\ pc'[p] = "walk" /\ loc'[p] = n
    BY <1>2, <2>4, <2>5, StepIs
  <2>7. Label(p)' = "walk" /\ ~Linking(p)'
    BY <2>4, <2>6 DEF Label, Linking, Putting
  <2>8. ShapeOf(p)'
    BY <2>4, <2>6, <2>7, Constants DEF ShapeOf, Putting, Creating, Unlinking, ForParent
  <2>9. NamedOf(p)' /\ OwnLocks(p)'
    BY <2>7 DEF NamedOf, OwnLocks, HoldsDp, HoldsIp
  <2>10. LockMoves(p)
    <3>1. \A s \in Slots : ~Holds(p, s)'
      BY <2>6, <2>7 DEF Holds, HoldsPut, HoldsDp, HoldsIp
    <3> QED
      BY <1>5, <1>6, <3>1, LockKept
  <2>11. CacheQuiet(ROOT, 0)
    <3>1. PICK e : e = [c EXCEPT ![k].path = r.old]
      OBVIOUS
    <3>2. Fresh(e)
      <4>1. r.old \in Paths \union {<<>>} /\ ORIGIN \in {ORIGIN, SYMBOLIC}
        BY DEF CallRecs
      <4> QED
        BY <1>4, <3>1, <4>1, FreshLink
    <3>3. SlotOf(e, ROOTINO) = ROOT
      BY <1>2, <3>2, RootSlot DEF IInv
    <3>4. icache' = IGet(e, ROOTINO)
      BY <1>8, <3>1
    <3> QED
      BY <1>2, <3>2, <3>3, <3>4, GetQuiet, RootLinked, Constants DEF IInv
  <2>12. TypeOK'
    <3>1. leaked' \in [Slots -> Nat]
      BY <1>2, <1>8 DEF TypeOK
    <3> QED
      BY <1>2, <1>6, <2>6, <2>11, <3>1 DEF TypeOK, CacheQuiet, Caches, SlotRec
  <2>13. LabelQuiet(p)
    BY <1>2, <2>4, <2>6, <2>7 DEF LabelQuiet
  <2> QED
    BY <1>1, <1>2, <1>6, <1>8, <2>4, <2>5, <2>8, <2>9, <2>10, <2>11, <2>12, <2>13, LeakTurn
<1> QED
  BY <1>1, <1>3, <1>7, <1>8 DEF SymOld

\* What iget gives is as ilock left it, when it was read before.
LEMMA GotValid ==
    ASSUME IInv, NEW s \in Slots, icache[s].ref > 0, Inum(s) \in Inums,
           dinode[Inum(s)].type # "free", NEW i \in Inums,
           icache' = IGet(Load(icache, s), i)
    PROVE  icache'[s].valid
<1>1. PICK c : c = Load(icache, s)
  OBVIOUS
<1>2. Fresh(c) /\ c[s].valid /\ c \in Caches /\ Apart(c)
  BY <1>1, LoadIs, FreshApart DEF IInv, Fresh
<1>3. PICK g \in Slots : g = SlotOf(c, i)
  BY <1>2, SlotOfIs
<1>4. Got(c, icache', g, i)
  BY <1>1, <1>2, <1>3, IGetIs
<1>5. c[s].ref = icache[s].ref
  BY <1>2 DEF Fresh
<1> QED
  BY <1>2, <1>4, <1>5 DEF Got

\* dirlookup under the directory's lock: the slot of what the name leads to.
LEMMA LookedUp ==
    ASSUME IInv, NEW d \in Slots, Inum(d) \in Inums, icache[d].ref > 0, NEW n \in Names,
           dinode[Inum(d)].type # "free",
           ents[Inum(d)][n] # 0, icache' = IGet(Load(icache, d), ents[Inum(d)][n])
    PROVE  LET g == SlotOf(Load(icache, d), ents[Inum(d)][n])
           IN  /\ g \in Slots /\ CacheQuiet(g, 0) /\ g # d /\ icache'[d].valid
               /\ icache'[g].inum = ents[Inum(d)][n] /\ Inum(d)' = Inum(d)
<1>1. PICK i \in Inums : i = ents[Inum(d)][n]
  BY EntryLinked
<1>2. PICK c : c = Load(icache, d)
  OBVIOUS
<1>3. Fresh(c) /\ dinode[i].nlink > 0 /\ icache' = IGet(c, i)
  BY <1>1, <1>2, EntryLinked, LoadIs DEF IInv
<1>4. PICK g \in Slots : g = SlotOf(c, i)
  BY <1>3, GetQuiet DEF IInv
<1>5. CacheQuiet(g, 0) /\ icache'[g].inum = i
  BY <1>3, <1>4, GetQuiet DEF IInv
<1>6. icache'[d].valid
  BY <1>1, GotValid
<1>7. i # Inum(d)
  BY <1>1 DEF IInv, NoLoops
<1>8. Inum(d)' = Inum(d)
  <2>1. icache[d].ref # 0 /\ d # 0
    BY Constants
  <2>2. SlotQuiet(d)
    BY <1>5, <2>1 DEF CacheQuiet, Recycled
  <2> QED
    BY <2>2 DEF SlotQuiet, Inum
<1> QED
  BY <1>1, <1>2, <1>4, <1>5, <1>6, <1>7, <1>8 DEF Inum

\* What a call finds that looks a name up in the directory dp.
LEMMA InParent ==
    ASSUME IInv, NEW p \in Procs, pc[p] \in {"create", "unlink", "linkentry"}
    PROVE  /\ Label(p) = pc[p] /\ (Linking(p) <=> pc[p] = "linkentry") /\ TypeOK /\ ShapeOf(p)
           /\ loc[p] \in CallRecs /\ loc[p].dp \in Slots /\ Inum(loc[p].dp) \in Inums
           /\ icache[loc[p].dp].ref > 0 /\ dinode[Inum(loc[p].dp)].type = "dir"
           /\ loc[p].at = 0 /\ loc[p].put = 0 /\ loc[p].ret = "idle"
           /\ (loc[p].ip = 0 <=> pc[p] # "linkentry") /\ Name(p) \in Names
           /\ \A s \in Slots : ~Holds(p, s)
<1>1. Label(p) = pc[p]
  BY DEF Label, Putting
<1>2. Linking(p) <=> pc[p] = "linkentry"
  BY <1>1 DEF Linking
<1>3. TypeOK /\ ShapeOf(p) /\ loc[p] \in CallRecs
  BY Caller
<1>4. /\ loc[p].at = 0 /\ loc[p].put = 0 /\ loc[p].dp # 0 /\ loc[p].ret = "idle"
      /\ loc[p].rest # <<>> /\ (loc[p].ip = 0 <=> pc[p] # "linkentry")
  BY <1>1, <1>2, <1>3 DEF ShapeOf, Putting
<1>5. Name(p) \in Names
  <2>1. PICK path \in Seq(Names) : path = loc[p].rest
    BY <1>3 DEF CallRecs
  <2> QED
    BY <1>4, <2>1 DEF Name
<1>6. loc[p].dp \in Slots /\ Inum(loc[p].dp) \in Inums /\ icache[loc[p].dp].ref > 0
  BY <1>4, Caller
<1>7. dinode[Inum(loc[p].dp)].type = "dir"
  BY <1>4 DEF IInv, Alive
<1>8. \A s \in Slots : ~Holds(p, s)
  BY <1>1 DEF Holds, HoldsPut, HoldsDp, HoldsIp
<1> QED
  BY <1>1, <1>2, <1>3, <1>4, <1>5, <1>6, <1>7, <1>8

LEMMA LinkIncDirKeeps ==
    ASSUME IInv, NEW p \in Procs, LinkInc(p), icache' = Load(icache, loc[p].ip), dinode' = dinode,
           Step(p, "iput", Put(loc[p], "ip", "idle"))
    PROVE  IInv'
<1>1. PICK r \in CallRecs, k \in Slots : r = loc[p] /\ k = r.ip
  BY Caller DEF ShapeOf, LinkInc, At, Label, Putting
<1>2. /\ pc[p] = "linkinc" /\ Label(p) = "linkinc" /\ ~Linking(p)
      /\ r.at = 0 /\ r.dp = 0 /\ r.put = 0 /\ Inum(k) \in Inums /\ dinode[Inum(k)].type # "free" /\ k # 0
  <2>1. ShapeOf(p) /\ pc[p] = "linkinc" /\ Inum(k) \in Inums /\ dinode[Inum(k)].type # "free" /\ k # 0
    BY <1>1, Caller, Constants DEF LinkInc, At
  <2>2. Label(p) = "linkinc"
    BY <2>1 DEF Label, Putting
  <2> QED
    BY <1>1, <2>1, <2>2 DEF ShapeOf, Linking, Putting
<1>3. PICK n : n = Put(r, "ip", "idle")
  OBVIOUS
<1>4. Over(n, k) /\ Step(p, "iput", n)
  BY <1>1, <1>3, PutOver
<1>5. Moved(r, n, 0, 0)
  BY <1>1, <1>2, <1>4, Constants DEF Moved, Frac, Over
<1>6. CacheQuiet(0, 0)
  BY <1>1, <1>2, LoadQuiet
<1>7. Plain /\ lock' = lock
  BY DEF LinkInc, Plain
<1>8. \A s \in Slots : ~Holds(p, s)
  BY <1>2 DEF Holds, HoldsPut, HoldsDp, HoldsIp
<1> QED
  BY <1>1, <1>2, <1>4, <1>5, <1>6, <1>7, <1>8, LastTurn

LEMMA UnlinkKeeps ==
    ASSUME IInv, NEW p \in Procs, Unlink(p)
    PROVE  IInv'
<1>1. pc[p] = "unlink"
  BY DEF Unlink, At
<1>2. PICK r \in CallRecs, d \in Slots : r = loc[p] /\ d = r.dp
  BY <1>1, InParent
<1>3. /\ Label(p) = "unlink" /\ ~Linking(p) /\ TypeOK /\ ShapeOf(p) /\ d # 0 /\ d \in Slots
      /\ Inum(d) \in Inums /\ icache[d].ref > 0 /\ dinode[Inum(d)].type = "dir"
      /\ r.at = 0 /\ r.put = 0 /\ r.ret = "idle" /\ r.ip = 0 /\ Name(p) \in Names
      /\ \A s \in Slots : ~Holds(p, s)
  BY <1>1, <1>2, InParent, Constants
<1>4. Plain /\ lock[d] = Nobody
  BY <1>2 DEF Unlink, Plain
<1>5. ASSUME icache' = Load(icache, d), Step(p, "iput", Put(r, "dp", "idle")), lock' = lock
      PROVE  IInv'
  <2>1. PICK n : n = Put(r, "dp", "idle")
    OBVIOUS
  <2>2. Over(n, d) /\ Step(p, "iput", n)
    BY <1>2, <1>5, <2>1, PutOver
  <2>3. Moved(r, n, 0, 0)
    BY <1>2, <1>3, <2>2, Constants DEF Moved, Frac, Over
  <2>4. CacheQuiet(0, 0)
    BY <1>3, <1>5, LoadQuiet
  <2> QED
    BY <1>1, <1>2, <1>3, <1>4, <1>5, <2>2, <2>3, <2>4, LastTurn
<1>6. ASSUME ents[Inum(d)][Name(p)] # 0, icache' = IGet(Load(icache, d), ents[Inum(d)][Name(p)]),
             lock' = [lock EXCEPT ![d] = p],
             Step(p, "unlinkip", [r EXCEPT !.ip = SlotOf(Load(icache, d), ents[Inum(d)][Name(p)])])
      PROVE  IInv'
  <2>1. PICK m \in Names : m = Name(p)
    BY <1>3
  <2>2. PICK g : g = SlotOf(Load(icache, d), ents[Inum(d)][m])
    OBVIOUS
  <2>3. /\ g \in Slots /\ CacheQuiet(g, 0) /\ g # d /\ g # 0 /\ icache'[d].valid
        /\ icache'[g].inum = ents[Inum(d)][m] /\ Inum(d)' = Inum(d)
    BY <1>3, <1>6, <2>1, <2>2, LookedUp, Constants
  <2>4. PICK n : n = [r EXCEPT !.ip = g]
    OBVIOUS
  <2>5. /\ n \in CallRecs /\ n.op = r.op /\ n.old = r.old /\ n.new = r.new /\ n.phase = r.phase
        /\ n.par = r.par /\ n.at = 0 /\ n.dp = d /\ n.ip = g /\ n.put = 0 /\ n.ret = "idle"
        /\ n.rest = r.rest
    BY <1>2, <1>3, <2>3, <2>4 DEF CallRecs
  <2>6. Step(p, "unlinkip", n) /\ "unlinkip" \in PCs
    BY <1>6, <2>1, <2>2, <2>4 DEF PCs
  <2>7. pc'[p] = "unlinkip" /\ loc'[p] = n
    BY <1>3, <2>5, <2>6, StepIs
  <2>8. Label(p)' = "unlinkip" /\ ~Linking(p)'
    BY <2>7 DEF Label, Linking, Putting
  <2>9. ShapeOf(p)'
    BY <1>1, <1>2, <1>3, <1>4, <2>3, <2>5, <2>7, <2>8
    DEF ShapeOf, Putting, Creating, Unlinking, Plain
  <2>10. NamedOf(p)'
    <3>1. loc'[p].rest = r.rest /\ ents' = ents
      BY <1>4, <2>5, <2>7 DEF Plain
    <3>2. Name(p)' = m /\ Inum(loc[p].dp)' = Inum(d) /\ Inum(loc[p].ip)' = ents[Inum(d)][m]
      BY <1>2, <2>1, <2>3, <2>5, <2>7, <3>1 DEF Name, Inum
    <3> QED
      BY <2>8, <3>1, <3>2 DEF NamedOf
  <2>11. OwnLocks(p)'
    BY <1>3, <2>5, <2>7, <2>8 DEF OwnLocks, HoldsDp, HoldsIp, Putting
  <2>12. LockMoves(p) /\ lock' \in [Slots -> Procs \union {Nobody}]
    <3>1. \A s \in Slots : Holds(p, s)' <=> Holds(p, s) \/ s = d
      BY <1>3, <2>5, <2>7, <2>8 DEF Holds, HoldsPut, HoldsDp, HoldsIp
    <3>2. lock' \in [Slots -> Procs \union {Nobody}]
      BY <1>3, <1>6 DEF TypeOK
    <3> QED
      BY <1>4, <1>6, <2>3, <3>1, <3>2, LockTaken
  <2>13. LabelQuiet(p)
    BY <1>1, <1>2, <1>3, <2>3, <2>5, <2>7, <2>8 DEF LabelQuiet
  <2>14. Moved(r, n, g, 0)
    BY <1>2, <1>3, <2>3, <2>5, Constants DEF Moved, Frac
  <2>15. /\ {n.at, n.dp, n.ip} \subseteq {r.at, r.dp, r.ip, 0, g}
         /\ n.put \in {r.at, r.dp, r.ip, 0, g}
         /\ {r.at, r.dp, r.ip} \subseteq {n.at, n.dp, n.ip, 0, n.put}
         /\ r.put \in {n.at, n.dp, n.ip, 0, n.put}
    BY <1>2, <1>3, <2>5
  <2> QED
    BY <1>2, <1>4, <2>3, <2>5, <2>6, <2>9, <2>10, <2>11, <2>12, <2>13, <2>14, <2>15, Turn
<1> QED
  BY <1>2, <1>5, <1>6 DEF Unlink

\* create finds the name.
LEMMA CreateFoundKeeps ==
    ASSUME IInv, NEW p \in Procs, pc[p] = "create", Plain, lock' = lock,
           ents[Inum(loc[p].dp)][Name(p)] # 0,
           icache' = IGet(Load(icache, loc[p].dp), ents[Inum(loc[p].dp)][Name(p)]),
           Step(p, "iput", [Put(loc[p], "dp", "createold") EXCEPT
                              !.ip = SlotOf(Load(icache, loc[p].dp), ents[Inum(loc[p].dp)][Name(p)])])
    PROVE  IInv'
<1>2. PICK r \in CallRecs, d \in Slots : r = loc[p] /\ d = r.dp
  BY InParent
<1>3. /\ Label(p) = "create" /\ ~Linking(p) /\ TypeOK /\ ShapeOf(p) /\ d # 0 /\ d \in Slots
      /\ Inum(d) \in Inums /\ icache[d].ref > 0 /\ dinode[Inum(d)].type = "dir"
      /\ r.at = 0 /\ r.put = 0 /\ r.ret = "idle" /\ r.ip = 0 /\ Name(p) \in Names
      /\ \A s \in Slots : ~Holds(p, s)
  BY <1>2, InParent, Constants
<1>4. PICK i \in Names : i = Name(p)
  BY <1>3
<1>5. PICK g : g = SlotOf(Load(icache, d), ents[Inum(d)][i])
  OBVIOUS
<1>6. g \in Slots /\ CacheQuiet(g, 0) /\ g # d /\ g # 0
  <2>1. icache' = IGet(Load(icache, d), ents[Inum(d)][i]) /\ ents[Inum(d)][i] # 0
    BY <1>2, <1>4
  <2> QED
    BY <1>3, <1>5, <2>1, LookedUp, Constants
<1>7. PICK n : n = [Put(r, "dp", "createold") EXCEPT !.ip = g]
  OBVIOUS
<1>8. /\ n \in CallRecs /\ n.op = r.op /\ n.old = r.old /\ n.new = r.new /\ n.phase = r.phase
      /\ n.par = r.par /\ n.at = 0 /\ n.dp = 0 /\ n.ip = g /\ n.put = d /\ n.ret = "createold"
  <2>1. PICK ret \in PCs \union {"putip"} : ret = "createold"
    BY DEF PCs
  <2>2. PICK m : m = Put(r, "dp", ret)
    OBVIOUS
  <2>3. Onward(r, m, r.at, 0, r.ip, r.dp, ret)
    BY <2>1, <2>2, PutOnward
  <2>4. n = [m EXCEPT !.ip = g]
    BY <1>7, <2>1, <2>2
  <2> QED
    BY <1>2, <1>3, <1>6, <2>1, <2>3, <2>4 DEF Onward, CallRecs
<1>9. Step(p, "iput", n) /\ "iput" \in PCs
  BY <1>2, <1>4, <1>5, <1>7 DEF PCs
<1>10. pc'[p] = "iput" /\ loc'[p] = n
  BY <1>3, <1>8, <1>9, StepIs
<1>11. Label(p)' = "createold" /\ ~Linking(p)'
  BY <1>8, <1>10 DEF Label, Linking, Putting
<1>12. ShapeOf(p)'
  BY <1>2, <1>3, <1>6, <1>8, <1>10, <1>11 DEF ShapeOf, Putting, Creating, Unlinking, Plain
<1>13. NamedOf(p)' /\ OwnLocks(p)'
  BY <1>11 DEF NamedOf, OwnLocks, HoldsDp, HoldsIp
<1>14. LockMoves(p) /\ lock' \in [Slots -> Procs \union {Nobody}]
  <2>1. \A s \in Slots : ~Holds(p, s)'
    BY <1>10, <1>11 DEF Holds, HoldsPut, HoldsDp, HoldsIp
  <2> QED
    BY <1>3, <2>1, LockKept DEF TypeOK
<1>15. LabelQuiet(p)
  BY <1>2, <1>3, <1>8, <1>10, <1>11 DEF LabelQuiet
<1>16. Moved(r, n, g, 0)
  BY <1>2, <1>3, <1>6, <1>8, Constants DEF Moved, Frac
<1>17. /\ {n.at, n.dp, n.ip} \subseteq {r.at, r.dp, r.ip, 0, g}
       /\ n.put \in {r.at, r.dp, r.ip, 0, g}
       /\ {r.at, r.dp, r.ip} \subseteq {n.at, n.dp, n.ip, 0, n.put}
       /\ r.put \in {n.at, n.dp, n.ip, 0, n.put}
  BY <1>2, <1>3, <1>8
<1> QED
  BY <1>2, <1>6, <1>8, <1>9, <1>12, <1>13, <1>14, <1>15, <1>16, <1>17, Turn

\* link finds its second name in use.
LEMMA LinkFoundKeeps ==
    ASSUME IInv, NEW p \in Procs, pc[p] = "linkentry", Plain, lock[loc[p].dp] = Nobody,
           lock' = [lock EXCEPT ![loc[p].dp] = p],
           ents[Inum(loc[p].dp)][Name(p)] # 0,
           icache' = IGet(Load(icache, loc[p].dp), ents[Inum(loc[p].dp)][Name(p)]),
           Step(p, "iput", [loc[p] EXCEPT
                              !.put = SlotOf(Load(icache, loc[p].dp), ents[Inum(loc[p].dp)][Name(p)]),
                              !.ret = "linkclash"])
    PROVE  IInv'
<1>2. PICK r \in CallRecs, d \in Slots : r = loc[p] /\ d = r.dp
  BY InParent
<1>3. /\ Label(p) = "linkentry" /\ Linking(p) /\ TypeOK /\ ShapeOf(p) /\ d # 0 /\ d \in Slots
      /\ Inum(d) \in Inums /\ icache[d].ref > 0 /\ dinode[Inum(d)].type = "dir"
      /\ r.at = 0 /\ r.put = 0 /\ r.ret = "idle" /\ r.ip # 0 /\ Name(p) \in Names
      /\ \A s \in Slots : ~Holds(p, s)
  BY <1>2, InParent, Constants
<1>4. PICK m \in Names : m = Name(p)
  BY <1>3
<1>5. PICK g : g = SlotOf(Load(icache, d), ents[Inum(d)][m])
  OBVIOUS
<1>6. /\ g \in Slots /\ CacheQuiet(g, 0) /\ g # d /\ g # 0 /\ icache'[d].valid
      /\ icache'[g].inum = ents[Inum(d)][m] /\ Inum(d)' = Inum(d)
  <2>1. icache' = IGet(Load(icache, d), ents[Inum(d)][m]) /\ ents[Inum(d)][m] # 0
    BY <1>2, <1>4
  <2> QED
    BY <1>3, <1>5, <2>1, LookedUp, Constants
<1>7. PICK n : n = [r EXCEPT !.put = g, !.ret = "linkclash"]
  OBVIOUS
<1>8. /\ n \in CallRecs /\ n.op = r.op /\ n.old = r.old /\ n.new = r.new /\ n.phase = r.phase
      /\ n.par = r.par /\ n.at = 0 /\ n.dp = d /\ n.ip = r.ip /\ n.put = g /\ n.ret = "linkclash"
  <2>1. "linkclash" \in PCs
    BY DEF PCs
  <2> QED
    BY <1>2, <1>3, <1>6, <1>7, <2>1 DEF CallRecs
<1>9. Step(p, "iput", n) /\ "iput" \in PCs
  BY <1>2, <1>4, <1>5, <1>7 DEF PCs
<1>10. pc'[p] = "iput" /\ loc'[p] = n
  BY <1>3, <1>8, <1>9, StepIs
<1>11. Label(p)' = "linkclash" /\ Linking(p)'
  BY <1>8, <1>10 DEF Label, Linking, Putting
<1>12. ShapeOf(p)'
  BY <1>2, <1>3, <1>6, <1>8, <1>10, <1>11 DEF ShapeOf, Putting, Creating, Unlinking, Plain
<1>13. NamedOf(p)'
  <2>1. ents' = ents /\ Inum(loc[p].dp)' = Inum(d) /\ Inum(loc[p].put)' = ents[Inum(d)][m]
    BY <1>6, <1>8, <1>10 DEF Plain, Inum
  <2> QED
    BY <1>11, <2>1 DEF NamedOf
<1>14. OwnLocks(p)'
  BY <1>6, <1>8, <1>10, <1>11 DEF OwnLocks, HoldsDp, HoldsIp
<1>15. LockMoves(p) /\ lock' \in [Slots -> Procs \union {Nobody}]
  <2>1. \A s \in Slots : Holds(p, s)' <=> Holds(p, s) \/ s = d
    BY <1>3, <1>8, <1>10, <1>11 DEF Holds, HoldsPut, HoldsDp, HoldsIp
  <2>2. lock' \in [Slots -> Procs \union {Nobody}]
    BY <1>2, <1>3 DEF TypeOK
  <2> QED
    BY <1>2, <1>6, <2>1, <2>2, LockTaken
<1>16. LabelQuiet(p)
  BY <1>2, <1>3, <1>6, <1>8, <1>10, <1>11 DEF LabelQuiet
<1>17. Moved(r, n, g, 0)
  BY <1>2, <1>3, <1>6, <1>8, Constants DEF Moved, Frac
<1>18. /\ {n.at, n.dp, n.ip} \subseteq {r.at, r.dp, r.ip, 0, g}
       /\ n.put \in {r.at, r.dp, r.ip, 0, g}
       /\ {r.at, r.dp, r.ip} \subseteq {n.at, n.dp, n.ip, 0, n.put}
       /\ r.put \in {n.at, n.dp, n.ip, 0, n.put}
  BY <1>2, <1>3, <1>8
<1> QED
  BY <1>2, <1>6, <1>8, <1>9, <1>12, <1>13, <1>14, <1>15, <1>16, <1>17, <1>18, Turn

\* What unlink has when it comes to lock the inode.
LEMMA AtUnlinkIp ==
    ASSUME IInv, NEW p \in Procs, pc[p] = "unlinkip"
    PROVE  /\ Label(p) = "unlinkip" /\ ~Linking(p) /\ TypeOK /\ ShapeOf(p)
           /\ loc[p] \in CallRecs /\ loc[p].dp \in Slots /\ Inum(loc[p].dp) \in Inums
           /\ loc[p].ip \in Slots /\ Inum(loc[p].ip) \in Inums /\ Name(p) \in Names
           /\ dinode[Inum(loc[p].dp)].type = "dir" /\ icache[loc[p].dp].ref > 0
           /\ loc[p].at = 0 /\ loc[p].put = 0 /\ loc[p].ret = "idle" /\ loc[p].op = "unlink"
           /\ ents[Inum(loc[p].dp)][Name(p)] = Inum(loc[p].ip) /\ loc[p].ip # loc[p].dp
           /\ \A s \in Slots : Holds(p, s) <=> s = loc[p].dp
           /\ lock[loc[p].dp] = p /\ icache[loc[p].dp].valid
<1>1. Label(p) = "unlinkip"
  BY DEF Label, Putting
<1>2. ~Linking(p)
  BY <1>1 DEF Linking
<1>3. TypeOK /\ ShapeOf(p) /\ loc[p] \in CallRecs /\ NamedOf(p)
  BY Caller
<1>4. /\ loc[p].at = 0 /\ loc[p].put = 0 /\ loc[p].dp # 0 /\ loc[p].ip # 0 /\ loc[p].ret = "idle"
      /\ loc[p].rest # <<>> /\ loc[p].op = "unlink"
  BY <1>1, <1>2, <1>3 DEF ShapeOf, Putting, Unlinking
<1>5. Name(p) \in Names
  <2>1. PICK path \in Seq(Names) : path = loc[p].rest
    BY <1>3 DEF CallRecs
  <2> QED
    BY <1>4, <2>1 DEF Name
<1>6. /\ loc[p].dp \in Slots /\ Inum(loc[p].dp) \in Inums /\ icache[loc[p].dp].ref > 0
      /\ loc[p].ip \in Slots /\ Inum(loc[p].ip) \in Inums
  BY <1>4, Caller
<1>7. dinode[Inum(loc[p].dp)].type = "dir"
  BY <1>4 DEF IInv, Alive
<1>8. \A s \in Slots : Holds(p, s) <=> s = loc[p].dp
  BY <1>1 DEF Holds, HoldsPut, HoldsDp, HoldsIp
<1>9. ents[Inum(loc[p].dp)][Name(p)] = Inum(loc[p].ip)
  BY <1>1, <1>3 DEF NamedOf
<1>10. loc[p].ip # loc[p].dp
  BY <1>5, <1>6, <1>9 DEF IInv, NoLoops
<1>11. lock[loc[p].dp] = p /\ icache[loc[p].dp].valid
  <2>1. lock[loc[p].dp] = p /\ p # Nobody
    BY <1>6, <1>8, Constants DEF IInv, Locks
  <2> QED
    BY <1>6, <2>1 DEF IInv, Locks
<1> QED
  BY <1>1, <1>2, <1>3, <1>4, <1>5, <1>6, <1>7, <1>8, <1>9, <1>10, <1>11

\* unlink finds a directory that is not empty.
LEMMA UnlinkNotEmptyKeeps ==
    ASSUME IInv, NEW p \in Procs, pc[p] = "unlinkip", Plain, lock' = lock,
           icache' = Load(icache, loc[p].ip), Step(p, "iput", Put(loc[p], "ip", "unlinkbad"))
    PROVE  IInv'
<1>1. PICK r \in CallRecs, d \in Slots, k \in Slots : r = loc[p] /\ d = r.dp /\ k = r.ip
  BY AtUnlinkIp
<1>2. /\ Label(p) = "unlinkip" /\ ~Linking(p) /\ TypeOK /\ ShapeOf(p) /\ d # 0 /\ k # 0
      /\ Inum(d) \in Inums /\ Inum(k) \in Inums /\ Name(p) \in Names
      /\ dinode[Inum(d)].type = "dir" /\ r.at = 0 /\ r.put = 0 /\ r.ret = "idle"
      /\ r.op = "unlink" /\ ents[Inum(d)][Name(p)] = Inum(k) /\ k # d
      /\ \A s \in Slots : Holds(p, s) <=> s = d
  BY <1>1, AtUnlinkIp, Constants
<1>3. CacheQuiet(0, 0)
  <2>1. dinode[Inum(k)].type # "free"
    BY <1>1, <1>2, Caller
  <2> QED
    BY <1>1, <1>2, <2>1, LoadQuiet
<1>4. Inum(d)' = Inum(d) /\ Inum(k)' = Inum(k)
  BY <1>2, <1>3 DEF CacheQuiet, SlotQuiet, Inum
<1>5. PICK m \in Names : m = Name(p)
  BY <1>2
<1>7. PICK n : n = Put(r, "ip", "unlinkbad")
  OBVIOUS
<1>8. /\ n \in CallRecs /\ n.op = r.op /\ n.old = r.old /\ n.new = r.new /\ n.phase = r.phase
      /\ n.at = 0 /\ n.dp = d /\ n.ip = 0 /\ n.put = k /\ n.ret = "unlinkbad"
  <2>1. PICK ret \in PCs \union {"putip"} : ret = "unlinkbad"
    BY DEF PCs
  <2>2. Onward(r, Put(r, "ip", ret), r.at, r.dp, 0, r.ip, ret)
    BY <2>1, PutOnward
  <2> QED
    BY <1>1, <1>2, <1>7, <2>1, <2>2 DEF Onward
<1>9. Step(p, "iput", n) /\ "iput" \in PCs
  BY <1>1, <1>7 DEF PCs
<1>10. pc'[p] = "iput" /\ loc'[p] = n
  BY <1>2, <1>8, <1>9, StepIs
<1>11. Label(p)' = "unlinkbad" /\ ~Linking(p)'
  BY <1>8, <1>10 DEF Label, Linking, Putting
<1>12. ShapeOf(p)'
  BY <1>1, <1>2, <1>8, <1>10, <1>11 DEF ShapeOf, Putting, Creating, Unlinking, Plain
<1>13. NamedOf(p)'
  <2>1. ents' = ents /\ Inum(loc[p].dp)' = Inum(d) /\ Inum(loc[p].put)' = ents[Inum(d)][m]
    BY <1>2, <1>4, <1>5, <1>8, <1>10 DEF Plain, Inum
  <2> QED
    BY <1>11, <2>1 DEF NamedOf
<1>14. OwnLocks(p)'
  BY <1>2, <1>8, <1>10, <1>11 DEF OwnLocks, HoldsDp, HoldsIp
<1>15. LockMoves(p) /\ lock' \in [Slots -> Procs \union {Nobody}]
  <2>1. \A s \in Slots : Holds(p, s)' <=> Holds(p, s)
    BY <1>2, <1>8, <1>10, <1>11 DEF Holds, HoldsPut, HoldsDp, HoldsIp
  <2> QED
    BY <1>2, <2>1, LockKept DEF TypeOK
<1>16. LabelQuiet(p)
  BY <1>1, <1>2, <1>4, <1>8, <1>10, <1>11 DEF LabelQuiet
<1>17. Moved(r, n, 0, 0)
  BY <1>1, <1>2, <1>8, Constants DEF Moved, Frac
<1>18. /\ {n.at, n.dp, n.ip} \subseteq {r.at, r.dp, r.ip, 0, 0}
       /\ n.put \in {r.at, r.dp, r.ip, 0, 0}
       /\ {r.at, r.dp, r.ip} \subseteq {n.at, n.dp, n.ip, 0, n.put}
       /\ r.put \in {n.at, n.dp, n.ip, 0, n.put}
  BY <1>1, <1>2, <1>8
<1> QED
  BY <1>1, <1>3, <1>8, <1>9, <1>12, <1>13, <1>14, <1>15, <1>16, <1>17, <1>18, Turn

-----------------------------------------------------------------------------
(* The steps that write to the disk while a process keeps its references *)

LEMMA LocksStep ==
    ASSUME IInv, NEW p \in Procs, Others(p), LockMoves(p), OwnLocks(p)',
           \A s \in Slots : lock'[s] # Nobody => icache'[s].valid
    PROVE  Locks'
<1>1. \A s \in Slots, q \in Procs : lock'[s] = q <=> Holds(q, s)'
  <2> SUFFICES ASSUME NEW s \in Slots, NEW q \in Procs
               PROVE  lock'[s] = q <=> Holds(q, s)'
    OBVIOUS
  <2>1. CASE q = p
    BY <2>1 DEF LockMoves
  <2>2. CASE q # p
    <3>1. lock'[s] = q <=> lock[s] = q
      BY <2>2 DEF LockMoves
    <3>2. lock[s] = q <=> Holds(q, s)
      BY DEF IInv, Locks
    <3> QED
      BY <2>2, <3>1, <3>2, OthersSame
  <2> QED
    BY <2>1, <2>2
<1>2. ASSUME NEW q \in Procs
      PROVE  /\ HoldsIp(q)' => loc'[q].put # loc'[q].ip
             /\ HoldsDp(q)' => loc'[q].put # loc'[q].dp
             /\ Label(q)' \in {"createinit", "unlinkip"} => pc'[q] \notin Putting
  <2>1. CASE q = p
    BY <2>1 DEF OwnLocks
  <2>2. CASE q # p
    BY <2>2, OthersSame DEF IInv, Locks
  <2> QED
    BY <2>1, <2>2
<1> QED
  BY <1>1, <1>2 DEF Locks

\* No two slots have the same inode.
LEMMA SameSlot ==
    ASSUME TypeOK, SlotsApart, NEW s \in Slots, NEW t \in Slots, Inum(s) \in Inums, Inum(s) = Inum(t)
    PROVE  s = t
<1>1. icache[s].ref # 0 /\ icache[s].ref \in Nat
  BY Constants DEF SlotsApart, Apart, Inum, TypeOK
<1> QED
  BY <1>1 DEF SlotsApart, Apart, Inum

LEMMA ApartStep ==
    ASSUME TypeOK, SlotsApart, TypeOK',
           \A t \in Slots : /\ icache'[t].inum = icache[t].inum
                            /\ icache'[t].ref = 0 <=> icache[t].ref = 0
                            /\ icache'[t].valid => icache[t].valid \/ icache[t].ref # 0
    PROVE  SlotsApart'
<1>1. \A s \in Slots : icache'[s].ref = 0 <=> icache'[s].inum = 0
  BY DEF SlotsApart, Apart
<1>2. \A s \in Slots : icache'[s].ref = 0 => ~icache'[s].valid
  BY DEF SlotsApart, Apart
<1>3. ASSUME NEW s \in Slots, NEW t \in Slots, icache'[s].ref > 0, icache'[s].inum = icache'[t].inum
      PROVE  s = t
  <2>1. icache[s].ref # 0
    BY <1>3
  <2>2. icache[s].inum # 0 /\ icache[t].inum = icache[s].inum
    BY <1>3, <2>1 DEF SlotsApart, Apart
  <2>4. Inum(s) \in Inums /\ Inum(s) = Inum(t)
    BY <2>2 DEF TypeOK, Inum
  <2> QED
    BY <2>4, SameSlot
<1>4. Inum(ROOT)' = ROOTINO
  BY Constants DEF SlotsApart, Inum
<1> QED
  BY <1>1, <1>2, <1>3, <1>4 DEF SlotsApart, Apart

\* What such a step does.  Locks: of another's slots it changes nothing.  References:
\* they stay, but for one more to the root.  Links: what lost its last one goes to iput.
DiskStep(p) ==
    /\ fd' = fd /\ leaked' = leaked /\ overlap' = overlap /\ Others(p)
    /\ \A t \in Slots :
          /\ icache'[t].inum = icache[t].inum
          /\ icache'[t].ref = icache[t].ref \/ (t = ROOT /\ icache'[t].ref > 0)
          /\ icache[t].valid => icache'[t].valid
          /\ icache'[t].valid /\ ~icache[t].valid => t \in {loc[p].ip, loc[p].dp}
          /\ icache'[t].nlink # icache[t].nlink => lock[t] \in {Nobody, p}
          /\ Inum(t) \in Inums /\ dinode[Inum(t)].nlink > 0 =>
                icache'[t].valid \/ dinode'[Inum(t)].nlink > 0
          /\ t \in {loc'[p].at, loc'[p].ip, loc'[p].put} =>
                icache'[t].valid \/ dinode'[Inum(t)].nlink > 0
    /\ \A i \in Inums :
          /\ dinode'[i].type = dinode[i].type
          /\ dinode'[i].nlink # dinode[i].nlink =>
                \E s \in Slots : s \in {loc[p].dp, loc[p].ip} /\ Inum(s) = i
          /\ dinode'[i].nlink = 0 => \/ dinode[i].nlink = 0
                                     \/ \E s \in Slots : /\ s = loc'[p].put /\ Inum(s) = i
                                                         /\ pc'[p] = "iput"
    /\ \A i \in Inums, n \in Names : ents'[i][n] # ents[i][n] =>
          /\ \E d \in Slots : d = loc[p].dp /\ Inum(d) = i /\ lock[d] \in {Nobody, p}
          /\ ents'[i][n] = 0 \/ \E k \in Slots : k = loc[p].ip /\ ents'[i][n] = Inum(k)
    /\ pc[p] \notin Putting /\ pc'[p] \in {"iput", "walk"}
    /\ pc[p] = "createinit" => lock[loc[p].ip] = Nobody
    /\ loc'[p].dp = 0
    /\ {loc'[p].at, loc'[p].ip, loc'[p].put} \subseteq {0, ROOT, loc[p].dp, loc[p].ip}
    /\ {loc[p].at, loc[p].dp, loc[p].ip} \subseteq
          {0, loc'[p].ip, IF pc'[p] = "iput" THEN loc'[p].put ELSE 0}
    /\ Linking(p)' => dinode[Inum(loc[p].ip)'].type = "file"
    /\ LockMoves(p) /\ OwnLocks(p)' /\ ShapeOf(p)' /\ NamedOf(p)'

LEMMA DiskSame ==
    ASSUME IInv, NEW p \in Procs, DiskStep(p)
    PROVE  /\ \A q \in Procs : q # p =>
                /\ fd'[q] = fd[q] /\ loc'[q] = loc[q] /\ pc'[q] = pc[q]
                /\ Label(q)' = Label(q) /\ (Linking(q)' <=> Linking(q))
                /\ (HoldsDp(q)' <=> HoldsDp(q)) /\ (HoldsIp(q)' <=> HoldsIp(q))
           /\ \A s \in Slots : Inum(s)' = Inum(s)
           /\ \A s \in Slots : Freeing(s) => Freeing(s)'
           /\ \A s \in Slots : s \in {loc[p].dp, loc[p].ip} =>
                 Inum(s) \in Inums /\ dinode[Inum(s)].type # "free"
           /\ loc[p].put = 0
<1>1. Others(p)
  BY DEF DiskStep
<1>2. \A q \in Procs : q # p =>
                /\ fd'[q] = fd[q] /\ loc'[q] = loc[q] /\ pc'[q] = pc[q]
                /\ Label(q)' = Label(q) /\ (Linking(q)' <=> Linking(q))
                /\ (HoldsDp(q)' <=> HoldsDp(q)) /\ (HoldsIp(q)' <=> HoldsIp(q))
  BY <1>1, OthersSame
<1>3. \A s \in Slots : Inum(s)' = Inum(s)
  BY DEF DiskStep, Inum
<1>4. ASSUME NEW s \in Slots, Freeing(s)
      PROVE  Freeing(s)'
  <2>1. PICK q \in Procs : pc[q] = "freed" /\ loc[q].put = s
    BY <1>4 DEF Freeing
  <2>2. q # p
    BY <2>1 DEF DiskStep, Putting
  <2> QED
    BY <1>2, <2>1, <2>2 DEF Freeing
<1>5. \A s \in Slots : s \in {loc[p].dp, loc[p].ip} =>
                 Inum(s) \in Inums /\ dinode[Inum(s)].type # "free"
  BY KinAlive DEF Kin
<1>6. loc[p].put = 0
  <2>1. ShapeOf(p) /\ pc[p] \notin Putting
    BY Caller DEF DiskStep
  <2> QED
    BY <2>1 DEF ShapeOf
<1> QED
  BY <1>2, <1>3, <1>4, <1>5, <1>6

LEMMA DiskForsaken ==
    ASSUME IInv, NEW p \in Procs, DiskStep(p), NEW s \in Slots, Forsaken(s), loc[p].ip # s
    PROVE  Forsaken(s)' /\ \A q \in Procs : loc'[q].ip = s => loc[q].ip = s /\ q # p
<1>1. /\ \A q \in Procs : q # p => fd'[q] = fd[q] /\ loc'[q] = loc[q] /\ pc'[q] = pc[q]
      /\ fd' = fd /\ leaked' = leaked /\ loc'[p].dp = 0
      /\ {loc'[p].at, loc'[p].ip, loc'[p].put} \subseteq {0, ROOT, loc[p].dp, loc[p].ip}
  BY DiskSame DEF DiskStep
<1>2. s \notin {0, ROOT, loc[p].dp, loc[p].ip}
  BY Constants DEF Forsaken
<1>3. loc'[p].at # s /\ loc'[p].ip # s /\ loc'[p].put # s /\ loc'[p].dp # s
  BY <1>1, <1>2
<1>4. Forsaken(s)'
  BY <1>1, <1>3 DEF Forsaken, Leaving
<1> QED
  BY <1>1, <1>3, <1>4

LEMMA DiskAlive ==
    ASSUME IInv, TypeOK', NEW p \in Procs, DiskStep(p)
    PROVE  Alive'
<1>1. /\ \A q \in Procs : q # p =>
                /\ loc'[q] = loc[q] /\ pc'[q] = pc[q] /\ (Linking(q)' <=> Linking(q))
      /\ \A s \in Slots : Inum(s)' = Inum(s)
      /\ \A s \in Slots : Freeing(s) => Freeing(s)'
      /\ \A s \in Slots : s \in {loc[p].dp, loc[p].ip} =>
                 Inum(s) \in Inums /\ dinode[Inum(s)].type # "free"
  BY DiskSame
<1>2. \A i \in Inums : dinode'[i].type = dinode[i].type
  BY DEF DiskStep
<1>3. ASSUME NEW i \in Inums, dinode'[i].type = "free"
      PROVE  Entries(i)' = {} /\ dinode'[i].nlink = 0
  <2>1. dinode[i].type = "free" /\ Entries(i) = {} /\ dinode[i].nlink = 0
    BY <1>2, <1>3 DEF IInv, Alive
  <2>2. dinode'[i].nlink = 0
    BY <1>1, <2>1 DEF DiskStep
  <2>3. ASSUME NEW e \in Inums, NEW n \in Names, ents'[e][n] = i
        PROVE  FALSE
    <3>1. ents[e][n] # i
      BY <2>1, EntryIs
    <3>2. ents'[e][n] = 0 \/ \E k \in Slots : k = loc[p].ip /\ ents'[e][n] = Inum(k)
      BY <2>3, <3>1 DEF DiskStep
    <3> QED
      BY <1>1, <2>1, <2>3, <3>2, Constants
  <2> QED
    BY <2>2, <2>3 DEF Entries
<1>4. ASSUME NEW i \in Inums, dinode'[i].type # "dir"
      PROVE  ents'[i] = Empty
  <2>1. ents[i] = Empty /\ dinode[i].type # "dir"
    BY <1>2, <1>4 DEF IInv, Alive
  <2>2. ASSUME NEW n \in Names
        PROVE  ents'[i][n] = ents[i][n]
    <3> SUFFICES ASSUME ents'[i][n] # ents[i][n] PROVE FALSE
      OBVIOUS
    <3>1. PICK d \in Slots : d = loc[p].dp /\ Inum(d) = i
      BY DEF DiskStep
    <3>2. d # 0
      BY Constants
    <3>3. dinode[Inum(d)].type = "dir"
      BY <3>1, <3>2 DEF IInv, Alive
    <3> QED
      BY <2>1, <3>1, <3>3
  <2>3. ents[i] \in [Names -> Inums \union {0}] /\ ents'[i] \in [Names -> Inums \union {0}]
    BY DEF IInv, TypeOK
  <2> QED
    BY <2>1, <2>2, <2>3 DEF Empty
<1>5. ASSUME NEW s \in Slots, Inum(s)' # 0, dinode'[Inum(s)'].type = "free"
      PROVE  /\ Forsaken(s)' /\ \A q \in Procs : loc'[q].ip # s
             /\ icache'[s].valid => Freeing(s)'
  <2>1. Inum(s) # 0 /\ Inum(s) = Inum(s)' /\ Inum(s) \in Inums
    BY <1>1, <1>5 DEF IInv, TypeOK, Inum
  <2>2. dinode[Inum(s)].type = "free"
    BY <1>2, <1>5, <2>1
  <2>3. /\ Forsaken(s) /\ \A q \in Procs : loc[q].ip # s
        /\ icache[s].valid => Freeing(s)
    BY <2>1, <2>2 DEF IInv, Alive
  <2>4. icache'[s].valid => icache[s].valid
    BY <1>1, <2>2 DEF DiskStep
  <2>5. Forsaken(s)' /\ \A q \in Procs : loc'[q].ip = s => loc[q].ip = s
    BY <2>3, DiskForsaken
  <2> QED
    BY <1>1, <2>3, <2>4, <2>5
<1>6. ASSUME NEW q \in Procs, loc'[q].dp # 0
      PROVE  dinode'[Inum(loc[q].dp)'].type = "dir"
  <2>1. q # p
    BY <1>6 DEF DiskStep
  <2>2. PICK d \in Slots : d = loc[q].dp
    BY <1>1, <1>6, <2>1 DEF IInv, TypeOK, CallRecs
  <2>3. d # 0 /\ Inum(d) \in Inums
    BY <2>2, Caller, Constants
  <2>4. dinode[Inum(d)].type = "dir"
    BY <2>2, <2>3 DEF IInv, Alive
  <2>5. Inum(loc[q].dp)' = Inum(d)
    BY <1>1, <2>1, <2>2 DEF Inum
  <2> QED
    BY <1>2, <2>3, <2>4, <2>5
<1>7. ASSUME NEW q \in Procs, Linking(q)'
      PROVE  dinode'[Inum(loc[q].ip)'].type = "file"
  <2>1. CASE q = p
    <3>1. dinode[Inum(loc[p].ip)'].type = "file"
      BY <1>7, <2>1 DEF DiskStep
    <3>2. loc'[p].ip # 0
      BY <1>7, <2>1 DEF DiskStep, ShapeOf
    <3>3. PICK k \in Slots : k = loc'[p].ip
      BY <3>2 DEF TypeOK, CallRecs
    <3>4. k \in {ROOT, loc[p].dp, loc[p].ip}
      BY <3>2, <3>3 DEF DiskStep
    <3>5. Inum(loc[p].ip)' = Inum(k) /\ Inum(k) \in Inums
      BY <1>1, <3>3, <3>4, Constants DEF Inum, IInv, SlotsApart
    <3> QED
      BY <1>2, <2>1, <3>1, <3>5
  <2>2. CASE q # p
    <3>1. Linking(q) /\ loc'[q] = loc[q]
      BY <1>1, <1>7, <2>2
    <3>2. loc[q].ip # 0
      BY <3>1 DEF IInv, Shape, ShapeOf
    <3>3. PICK k \in Slots : k = loc[q].ip
      BY <3>2 DEF IInv, TypeOK, CallRecs
    <3>4. dinode[Inum(k)].type = "file" /\ Inum(k) \in Inums
      BY <3>1, <3>2, <3>3, Caller DEF IInv, Alive
    <3>5. Inum(loc[q].ip)' = Inum(k)
      BY <1>1, <3>1, <3>3 DEF Inum
    <3> QED
      BY <1>2, <3>4, <3>5
  <2> QED
    BY <2>1, <2>2
<1>8. dinode'[ROOTINO].type = "dir"
  BY <1>2, Constants DEF IInv, Alive
<1> QED
  BY <1>3, <1>4, <1>5, <1>6, <1>7, <1>8 DEF Alive

LEMMA DiskMaking ==
    ASSUME IInv, TypeOK', NEW p \in Procs, DiskStep(p)
    PROVE  Making'
<1>1. /\ \A q \in Procs : q # p => loc'[q] = loc[q] /\ pc'[q] = pc[q]
      /\ \A s \in Slots : Inum(s)' = Inum(s)
  BY DiskSame
<1>2. ASSUME NEW q \in Procs, pc'[q] = "createinit"
      PROVE  MakingOf(q)'
  <2>1. q # p /\ loc'[q] = loc[q] /\ pc[q] = "createinit"
    BY <1>1, <1>2 DEF DiskStep
  <2>2. MakingOf(q) /\ loc[q].ip # 0 /\ loc[q].dp # 0 /\ HoldsDp(q)
    BY <2>1 DEF IInv, Making, Shape, ShapeOf, Label, Putting, HoldsDp
  <2>3. PICK s \in Slots, d \in Slots : s = loc[q].ip /\ d = loc[q].dp
    BY <2>2 DEF IInv, TypeOK, CallRecs
  <2>4. PICK i \in Inums : i = Inum(s)
    BY <2>2, <2>3, Caller
  <2>5. PICK e \in Inums : e = Inum(d)
    BY <2>2, <2>3, Caller
  <2>6. /\ dinode[i] = [type |-> TypeFor(loc[q].op), nlink |-> 0]
        /\ Entries(i) = {} /\ ents[i] = Empty
        /\ Forsaken(s) /\ \A o \in Procs : loc[o].ip = s => o = q
        /\ ents[e][Name(q)] = 0
    BY <2>2, <2>3, <2>4, <2>5 DEF MakingOf
  <2>7. s # loc[p].ip /\ s # loc[p].dp
    BY <2>1, <2>6 DEF Forsaken
  <2>8. \A t \in Slots : t \in {loc[p].ip, loc[p].dp} => Inum(t) # i
    BY <2>4, <2>7, SameSlot DEF IInv
  <2>9. dinode'[i] = dinode[i]
    <3>1. dinode'[i].type = dinode[i].type /\ dinode'[i].nlink = dinode[i].nlink
      BY <2>8 DEF DiskStep
    <3>2. dinode'[i] \in [type : Types, nlink : Nat] /\ dinode[i] \in [type : Types, nlink : Nat]
      BY DEF IInv, TypeOK
    <3> QED
      BY <3>1, <3>2
  <2>10. Entries(i)' = {}
    <3>1. ASSUME NEW a \in Inums, NEW n \in Names, ents'[a][n] = i
          PROVE  FALSE
      <4>1. ents[a][n] # i
        BY <2>6, EntryIs
      <4>2. ents'[a][n] = 0 \/ \E k \in Slots : k = loc[p].ip /\ ents'[a][n] = Inum(k)
        BY <3>1, <4>1 DEF DiskStep
      <4> QED
        BY <2>8, <3>1, <4>2, Constants
    <3> QED
      BY <3>1 DEF Entries
  <2>11. ents'[i] = Empty
    <3>1. \A n \in Names : ents'[i][n] = ents[i][n]
      BY <2>8 DEF DiskStep
    <3>2. ents[i] \in [Names -> Inums \union {0}] /\ ents'[i] \in [Names -> Inums \union {0}]
      BY DEF IInv, TypeOK
    <3> QED
      BY <2>6, <3>1, <3>2 DEF Empty
  <2>12. Forsaken(s)' /\ \A o \in Procs : loc'[o].ip = s => o = q
    BY <2>6, <2>7, DiskForsaken
  <2>13. ents'[e][Name(q)] = 0
    <3> SUFFICES ASSUME ents'[e][Name(q)] # ents[e][Name(q)] PROVE FALSE
      BY <2>6
    <3>1. Name(q) \in Names
      <4>1. PICK path \in Seq(Names) : path = loc[q].rest
        BY DEF IInv, TypeOK, CallRecs
      <4>2. path # <<>>
        BY <2>1, <4>1 DEF IInv, Shape, ShapeOf, Label, Putting
      <4> QED
        BY <4>1, <4>2 DEF Name
    <3>2. PICK c \in Slots : c = loc[p].dp /\ Inum(c) = e /\ lock[c] \in {Nobody, p}
      BY <3>1 DEF DiskStep
    <3>3. c = d
      BY <2>5, <3>2, SameSlot DEF IInv
    <3>4. lock[d] = q
      BY <2>2, <2>3 DEF IInv, Locks, Holds
    <3> QED
      BY <2>1, <3>2, <3>3, <3>4, Constants
  <2>14. Inum(loc[q].ip)' = i /\ Inum(loc[q].dp)' = e /\ Name(q)' = Name(q)
    BY <1>1, <2>1, <2>3, <2>4, <2>5 DEF Inum, Name
  <2> QED
    BY <2>1, <2>3, <2>6, <2>9, <2>10, <2>11, <2>12, <2>13, <2>14 DEF MakingOf
<1> QED
  BY <1>2 DEF Making

\* A lock keeps the others from the slot.
LEMMA DiskTruncating ==
    ASSUME IInv, TypeOK', NEW p \in Procs, DiskStep(p)
    PROVE  Truncating'
<1>1. /\ \A q \in Procs : q # p => loc'[q] = loc[q] /\ pc'[q] = pc[q]
      /\ \A s \in Slots : Inum(s)' = Inum(s)
  BY DiskSame
<1>2. ASSUME NEW q \in Procs, pc'[q] \in {"trunc", "freed"}
      PROVE  \E s \in Slots : /\ q # p /\ loc'[q] = loc[q] /\ pc'[q] = pc[q] /\ s = loc[q].put
                              /\ lock[s] = q /\ icache[s].valid /\ Inum(s) \in Inums
  <2>1. q # p
    BY <1>2 DEF DiskStep
  <2>2. loc'[q] = loc[q] /\ pc'[q] = pc[q]
    BY <1>1, <2>1
  <2>3. loc[q].put # 0 /\ HoldsPut(q)
    BY <1>2, <2>2 DEF IInv, Shape, ShapeOf, Putting, HoldsPut
  <2>4. PICK s \in Slots : s = loc[q].put
    BY <2>3 DEF IInv, TypeOK, CallRecs
  <2>5. lock[s] = q
    BY <2>3, <2>4 DEF IInv, Locks, Holds
  <2>6. icache[s].valid
    BY <2>5, Constants DEF IInv, Locks
  <2>7. Inum(s) \in Inums
    BY <2>3, <2>4, Caller
  <2> QED
    BY <2>1, <2>2, <2>4, <2>5, <2>6, <2>7
<1>3. ASSUME NEW q \in Procs, pc'[q] = "trunc"
      PROVE  icache'[loc'[q].put].ref = 1 /\ icache'[loc'[q].put].nlink = 0
  <2>1. PICK s \in Slots : /\ q # p /\ loc'[q] = loc[q] /\ pc'[q] = pc[q] /\ s = loc[q].put
                           /\ lock[s] = q /\ icache[s].valid /\ Inum(s) \in Inums
    BY <1>2, <1>3
  <2>2. icache[s].ref = 1 /\ icache[s].nlink = 0
    BY <1>3, <2>1 DEF IInv, Truncating
  <2>3. s # ROOT
    <3>1. dinode[Inum(s)].nlink = 0
      BY <2>1, <2>2 DEF IInv, Coherent
    <3> QED
      BY <3>1, RootLinked DEF IInv, SlotsApart
  <2>4. icache'[s].ref = 1 /\ icache'[s].nlink = 0
    BY <2>1, <2>2, <2>3, Constants DEF DiskStep
  <2> QED
    BY <2>1, <2>4
<1>4. ASSUME NEW q \in Procs, pc'[q] = "freed"
      PROVE  \/ dinode'[Inum(loc[q].put)'].type = "free"
             \/ \E o \in Procs : pc'[o] = "createinit" /\ loc'[o].ip = loc'[q].put
  <2>1. PICK s \in Slots : /\ q # p /\ loc'[q] = loc[q] /\ pc'[q] = pc[q] /\ s = loc[q].put
                           /\ lock[s] = q /\ icache[s].valid /\ Inum(s) \in Inums
    BY <1>2, <1>4
  <2>2. Inum(loc[q].put)' = Inum(s)
    BY <1>1, <2>1 DEF Inum
  <2>3. CASE dinode[Inum(s)].type = "free"
    BY <2>1, <2>2, <2>3 DEF DiskStep
  <2>4. CASE \E o \in Procs : pc[o] = "createinit" /\ loc[o].ip = s
    <3>1. PICK o \in Procs : pc[o] = "createinit" /\ loc[o].ip = s
      BY <2>4
    <3>2. o # p
      BY <2>1, <3>1, Constants DEF DiskStep
    <3> QED
      BY <1>1, <2>1, <3>1, <3>2
  <2> QED
    BY <1>4, <2>1, <2>3, <2>4 DEF IInv, Truncating
<1> QED
  BY <1>3, <1>4 DEF Truncating

LEMMA DiskNamed ==
    ASSUME IInv, TypeOK', NEW p \in Procs, DiskStep(p)
    PROVE  Named'
<1>1. /\ \A q \in Procs : q # p => /\ loc'[q] = loc[q] /\ pc'[q] = pc[q]
                                   /\ Label(q)' = Label(q)
      /\ \A s \in Slots : Inum(s)' = Inum(s)
  BY DiskSame
<1>2. ASSUME NEW q \in Procs, q # p
      PROVE  NamedOf(q)'
  <2>1. NamedOf(q) /\ ShapeOf(q) /\ loc[q] \in CallRecs
    BY Caller
  <2>2. loc'[q] = loc[q] /\ pc'[q] = pc[q] /\ Label(q)' = Label(q)
    BY <1>1, <1>2
  <2>3. CASE HoldsDp(q)
    <3>1. loc[q].dp # 0
      BY <2>1, <2>3 DEF ShapeOf, HoldsDp
    <3>2. PICK d \in Slots : d = loc[q].dp
      BY <2>1, <3>1 DEF CallRecs
    <3>3. lock[d] = q /\ Inum(d) \in Inums
      BY <2>3, <3>1, <3>2, Caller DEF IInv, Locks, Holds
    <3>4. \A n \in Names : ents'[Inum(d)][n] = ents[Inum(d)][n]
      <4> SUFFICES ASSUME NEW n \in Names, ents'[Inum(d)][n] # ents[Inum(d)][n] PROVE FALSE
        OBVIOUS
      <4>1. PICK c \in Slots : c = loc[p].dp /\ Inum(c) = Inum(d) /\ lock[c] \in {Nobody, p}
        BY <3>3 DEF DiskStep
      <4>2. c = d
        BY <3>3, <4>1, SameSlot DEF IInv
      <4> QED
        BY <1>2, <3>3, <4>1, <4>2, Constants
    <3>5. Inum(loc[q].dp)' = Inum(d) /\ Inum(loc[q].dp) = Inum(d) /\ Name(q)' = Name(q)
      BY <1>1, <2>2, <3>2 DEF Inum, Name
    <3>6. Label(q) = "unlinkip" => Inum(loc[q].ip)' = Inum(loc[q].ip) /\ Name(q) \in Names
      <4>1. ASSUME Label(q) = "unlinkip"
            PROVE  loc[q].ip \in Slots /\ Name(q) \in Names
        <5>1. PICK path \in Seq(Names) : path = loc[q].rest
          BY <2>1 DEF CallRecs
        <5>2. path # <<>> /\ loc[q].ip # 0
          BY <2>1, <4>1, <5>1 DEF ShapeOf
        <5> QED
          BY <2>1, <5>1, <5>2 DEF CallRecs, Name
      <4> QED
        BY <1>1, <2>2, <4>1 DEF Inum
    <3>7. pc[q] = "iput" => Inum(loc[q].put)' = Inum(loc[q].put)
      <4>1. pc[q] = "iput" => loc[q].put \in Slots
        BY <2>1 DEF ShapeOf, Putting, CallRecs
      <4> QED
        BY <1>1, <2>2, <4>1 DEF Inum
    <3> QED
      BY <2>1, <2>2, <3>4, <3>5, <3>6, <3>7 DEF NamedOf
  <2>4. CASE ~HoldsDp(q)
    BY <2>2, <2>4 DEF NamedOf, HoldsDp
  <2> QED
    BY <2>3, <2>4
<1> QED
  BY <1>2 DEF Named, DiskStep

LEMMA DiskKnown ==
    ASSUME IInv, TypeOK', NEW p \in Procs, DiskStep(p)
    PROVE  Known'
<1>1. /\ \A q \in Procs : q # p => fd'[q] = fd[q] /\ loc'[q] = loc[q] /\ pc'[q] = pc[q]
      /\ \A s \in Slots : Inum(s)' = Inum(s)
  BY DiskSame
<1>2. ASSUME NEW q \in Procs, NEW s \in Uses(q)
      PROVE  icache'[s].valid \/ dinode'[Inum(s)].nlink > 0
  <2>1. s \in Slots /\ Inum(s) \in Inums
    BY <1>2, Caller DEF Uses
  <2>2. icache[s].valid \/ dinode[Inum(s)].nlink > 0
    BY <1>2 DEF IInv, Known
  <2> QED
    BY <2>1, <2>2 DEF DiskStep
<1>3. ASSUME NEW q \in Procs, NEW s \in Uses(q)'
      PROVE  /\ s \in Slots
             /\ icache'[s].valid \/ dinode'[Inum(s)].nlink > 0
  <2>1. CASE q # p
    <3>1. s \in Uses(q)
      BY <1>1, <1>3, <2>1 DEF Uses
    <3> QED
      BY <1>2, <3>1, Caller DEF Uses
  <2>2. CASE q = p
    <3>1. /\ s \in {fd[p], loc'[p].at, loc'[p].ip, loc'[p].put} /\ s # 0
      BY <1>3, <2>2 DEF Uses, DiskStep
    <3>2. s \in Slots
      <4>1. fd[p] \in Slots \union {0}
        BY DEF IInv, TypeOK
      <4>2. loc'[p] \in CallRecs
        BY DEF TypeOK
      <4>3. /\ loc'[p].at \in Slots \union {0} /\ loc'[p].ip \in Slots \union {0}
            /\ loc'[p].put \in Slots \union {0}
        BY <4>2 DEF CallRecs
      <4> QED
        BY <3>1, <4>1, <4>3
    <3>3. CASE s = fd[p]
      <4>1. s \in Uses(p)
        BY <3>1, <3>3 DEF Uses
      <4> QED
        BY <1>2, <3>2, <4>1
    <3>4. CASE s \in {loc'[p].at, loc'[p].ip, loc'[p].put}
      BY <3>2, <3>4 DEF DiskStep
    <3> QED
      BY <3>1, <3>3, <3>4
  <2> QED
    BY <2>1, <2>2
<1>4. \A q \in Procs : \A s \in Uses(q)' : icache'[s].valid \/ dinode'[Inum(s)'].nlink > 0
  BY <1>1, <1>3
<1> QED
  BY <1>4 DEF Known

LEMMA DiskNoneLost ==
    ASSUME IInv, TypeOK', NEW p \in Procs, DiskStep(p)
    PROVE  NoneLost'
<1>1. /\ \A q \in Procs : q # p => fd'[q] = fd[q] /\ loc'[q] = loc[q] /\ pc'[q] = pc[q]
      /\ \A s \in Slots : Inum(s)' = Inum(s)
      /\ loc[p].put = 0
  BY DiskSame
<1>2. ASSUME NEW s \in Slots, Kept(s)
      PROVE  Kept(s)'
  <2>1. CASE s = ROOT \/ leaked[s] > 0
    BY <2>1 DEF Kept, DiskStep
  <2>2. CASE \E q \in Procs : Keeps(q, s)
    <3>1. PICK q \in Procs : Keeps(q, s)
      BY <2>2
    <3>2. CASE q # p
      BY <1>1, <3>1, <3>2 DEF Kept, Keeps
    <3>3. CASE q = p
      <4>1. s # 0
        BY Constants
      <4>2. CASE s = fd[p]
        BY <4>2 DEF Kept, Keeps, DiskStep
      <4>3. CASE s \in {loc'[p].ip, IF pc'[p] = "iput" THEN loc'[p].put ELSE 0}
        BY <4>1, <4>3 DEF Kept, Keeps
      <4> QED
        BY <1>1, <3>1, <3>3, <4>1, <4>2, <4>3 DEF Keeps, DiskStep
    <3> QED
      BY <3>2, <3>3
  <2> QED
    BY <1>2, <2>1, <2>2 DEF Kept
<1>3. ASSUME NEW i \in Inums, dinode'[i].type # "free", dinode'[i].nlink = 0
      PROVE  i \in overlap' \/ \E s \in Slots : Inum(s) = i /\ Kept(s)'
  <2>1. CASE dinode[i].nlink = 0
    <3>1. i \in overlap \/ \E s \in Slots : Inum(s) = i /\ Kept(s)
      BY <1>3, <2>1 DEF IInv, NoneLost, DiskStep
    <3> QED
      BY <1>2, <3>1 DEF DiskStep
  <2>2. CASE \E s \in Slots : s = loc'[p].put /\ Inum(s) = i /\ pc'[p] = "iput"
    BY <2>2 DEF Kept, Keeps
  <2> QED
    BY <1>3, <2>1, <2>2 DEF DiskStep
<1> QED
  BY <1>1, <1>3 DEF NoneLost

\* What is left to show of such a step: references, links and the cache.
LEMMA DiskInv ==
    ASSUME IInv, TypeOK', NEW p \in Procs, DiskStep(p), RefsExact', Coherent', Counted', NoLoops'
    PROVE  IInv'
<1>1. Shape'
  BY ShapeStep DEF DiskStep, IInv
<1>2. SlotsApart'
  <2>1. ASSUME NEW t \in Slots
        PROVE  /\ icache'[t].inum = icache[t].inum
               /\ icache'[t].ref = 0 <=> icache[t].ref = 0
               /\ icache'[t].valid => icache[t].valid \/ icache[t].ref # 0
    <3>1. icache[ROOT].ref # 0
      BY RootLinked, Constants DEF IInv, SlotsApart, Apart, Inum
    <3>2. icache'[t].ref = 0 <=> icache[t].ref = 0
      BY <3>1 DEF DiskStep
    <3>3. t \in {loc[p].ip, loc[p].dp} => icache[t].ref # 0
      BY Caller, Constants
    <3> QED
      BY <3>2, <3>3 DEF DiskStep
  <2> QED
    BY <2>1, ApartStep DEF IInv
<1>3. Locks'
  <2>1. ASSUME NEW s \in Slots, lock'[s] # Nobody
        PROVE  icache'[s].valid
    BY <2>1 DEF DiskStep, LockMoves, IInv, Locks
  <2> QED
    BY <2>1, LocksStep DEF DiskStep
<1> QED
  BY <1>1, <1>2, <1>3, DiskAlive, DiskMaking, DiskTruncating, DiskNamed, DiskKnown, DiskNoneLost
  DEF IInv

LEMMA DiskRefs ==
    ASSUME IInv, TypeOK', NEW p \in Procs, DiskStep(p), NEW g, Moved(loc[p], loc'[p], g, 0),
           \A t \in Slots : icache'[t].ref = icache[t].ref + Frac(t = g)
    PROVE  RefsExact'
<1>1. ASSUME NEW s \in Slots
      PROVE  icache'[s].ref + leaked[s] + PtrCount(p, s)
               = icache[s].ref + leaked'[s] + PtrCount(p, s)'
  <2>1. /\ Frac(loc'[p].at = s) + Frac(loc'[p].dp = s) + Frac(loc'[p].ip = s)
             + Frac(loc'[p].put = s) + Frac(s = 0)
           = Frac(loc[p].at = s) + Frac(loc[p].dp = s) + Frac(loc[p].ip = s)
               + Frac(loc[p].put = s) + Frac(s = g)
    BY DEF Moved
  <2>2. fd'[p] = fd[p] /\ leaked'[s] = leaked[s] /\ s # 0
    BY Constants DEF DiskStep
  <2>3. PtrCount(p, s)' = Frac(fd[p] = s) + Frac(loc'[p].at = s) + Frac(loc'[p].dp = s)
                            + Frac(loc'[p].ip = s) + Frac(loc'[p].put = s)
    BY <2>2 DEF PtrCount, CountIn
  <2>4. PtrCount(p, s) = Frac(fd[p] = s) + Frac(loc[p].at = s) + Frac(loc[p].dp = s)
                            + Frac(loc[p].ip = s) + Frac(loc[p].put = s)
    BY DEF PtrCount, CountIn
  <2>5. \A b : Frac(b) \in {0, 1}
    BY DEF Frac
  <2>6. PtrCount(p, s)' = PtrCount(p, s) + Frac(s = g)
    <3>1. Frac(s = 0) = 0
      BY <2>2 DEF Frac
    <3> QED
      BY <2>1, <2>3, <2>4, <2>5, <3>1
  <2>7. icache'[s].ref = icache[s].ref + Frac(s = g)
    OBVIOUS
  <2> QED
    BY <2>2, <2>5, <2>6, <2>7, PtrTypes DEF IInv
<1> QED
  BY <1>1, RefsStep DEF IInv, DiskStep

\* Two sets that differ in one element at most.
LEMMA CardDiffer ==
    ASSUME NEW S, NEW T, NEW x, IsFiniteSet(S), IsFiniteSet(T), S \ {x} = T \ {x}
    PROVE  Cardinality(T) + Frac(x \in S) = Cardinality(S) + Frac(x \in T)
<1>1. /\ Cardinality(S) \in Nat /\ Cardinality(T) \in Nat
      /\ Cardinality(S \ {x}) = IF x \in S THEN Cardinality(S) - 1 ELSE Cardinality(S)
      /\ Cardinality(T \ {x}) = IF x \in T THEN Cardinality(T) - 1 ELSE Cardinality(T)
  BY FS_CardinalityType, FS_RemoveElement
<1>2. Cardinality(S \ {x}) = Cardinality(T \ {x})
  OBVIOUS
<1> QED
  BY <1>1, <1>2 DEF Frac

LEMMA CallsFiniteNext ==
    \A i : /\ IsFiniteSet(Linkers(i)') /\ Cardinality(Linkers(i)') \in Nat
           /\ IsFiniteSet(Unlinkers(i)') /\ Cardinality(Unlinkers(i)') \in Nat
           /\ IsFiniteSet(DirKids(i)') /\ Cardinality(DirKids(i)') \in Nat
           /\ IsFiniteSet(Entries(i)') /\ Cardinality(Entries(i)') \in Nat
<1>1. \A i : /\ Linkers(i)' \subseteq Procs /\ Unlinkers(i)' \subseteq Procs
             /\ DirKids(i)' \subseteq Names /\ Entries(i)' \subseteq Inums \X Names
  BY DEF Linkers, Unlinkers, DirKids, Entries
<1>2. IsFiniteSet(Inums \X Names)
  BY Constants, DirAssumption, FS_Product
<1> QED
  BY <1>1, <1>2, DirAssumption, FS_Subset, FS_CardinalityType

LEMMA CallerCounts ==
    ASSUME IInv, NEW p \in Procs, DiskStep(p), NEW i \in Inums
    PROVE  /\ Cardinality(Linkers(i)') + Frac(p \in Linkers(i))
                = Cardinality(Linkers(i)) + Frac(p \in Linkers(i)')
           /\ Cardinality(Unlinkers(i)') + Frac(p \in Unlinkers(i))
                = Cardinality(Unlinkers(i)) + Frac(p \in Unlinkers(i)')
<1>1. /\ \A q \in Procs : q # p =>
                /\ loc'[q] = loc[q] /\ Label(q)' = Label(q) /\ (Linking(q)' <=> Linking(q))
      /\ \A s \in Slots : Inum(s)' = Inum(s)
  BY DiskSame
<1>2. \A q \in Procs : q # p /\ (Linking(q) \/ Label(q) = "unlinkdec") =>
         Inum(loc[q].ip)' = Inum(loc[q].ip)
  <2> SUFFICES ASSUME NEW q \in Procs, q # p, Linking(q) \/ Label(q) = "unlinkdec"
               PROVE  Inum(loc[q].ip)' = Inum(loc[q].ip)
    OBVIOUS
  <2>1. loc[q].ip # 0 /\ loc[q] \in CallRecs
    BY Caller DEF ShapeOf
  <2>2. loc[q].ip \in Slots
    BY <2>1 DEF CallRecs
  <2> QED
    BY <1>1, <2>2 DEF Inum
<1>3. Linkers(i)' \ {p} = Linkers(i) \ {p} /\ Unlinkers(i)' \ {p} = Unlinkers(i) \ {p}
  BY <1>1, <1>2 DEF Linkers, Unlinkers
<1> QED
  BY <1>3, CallsFinite, CallsFiniteNext, CardDiffer

\* An entry written to the directory e.
Writes(e, m, v) == ents' = [ents EXCEPT ![e][m] = v]

LEMMA EntryWritten ==
    ASSUME IInv, NEW e \in Inums, NEW m \in Names, NEW v \in Inums \union {0},
           Writes(e, m, v)
    PROVE  /\ ents'[e][m] = v
           /\ \A n \in Names : n # m => ents'[e][n] = ents[e][n]
           /\ \A a \in Inums : a # e => ents'[a] = ents[a]
           /\ ents' \in [Inums -> [Names -> Inums \union {0}]]
<1>1. ents \in [Inums -> [Names -> Inums \union {0}]]
  BY DEF IInv, TypeOK
<1>2. ents' = [ents EXCEPT ![e] = [ents[e] EXCEPT ![m] = v]]
  BY DEF Writes
<1>3. [ents[e] EXCEPT ![m] = v] \in [Names -> Inums \union {0}]
  BY <1>1
<1>4. \A a \in Inums : a # e => ents'[a] = ents[a]
  BY <1>1, <1>2
<1>5. ents'[e] = [ents[e] EXCEPT ![m] = v]
  BY <1>1, <1>2
<1>6. ents'[e][m] = v /\ \A n \in Names : n # m => ents'[e][n] = ents[e][n]
  BY <1>1, <1>5
<1>7. ents' \in [Inums -> [Names -> Inums \union {0}]]
  BY <1>1, <1>2, <1>3
<1> QED
  BY <1>4, <1>6, <1>7

LEMMA EntryCounts ==
    ASSUME IInv, NEW e \in Inums, NEW m \in Names, NEW v \in Inums \union {0},
           Writes(e, m, v)
    PROVE  \A i \in Inums :
             Cardinality(Entries(i)') + Frac(ents[e][m] = i) = Cardinality(Entries(i)) + Frac(v = i)
<1> SUFFICES ASSUME NEW i \in Inums
             PROVE  Cardinality(Entries(i)') + Frac(ents[e][m] = i)
                      = Cardinality(Entries(i)) + Frac(v = i)
  OBVIOUS
<1>1. /\ ents'[e][m] = v
      /\ \A n \in Names : n # m => ents'[e][n] = ents[e][n]
      /\ \A a \in Inums : a # e => ents'[a] = ents[a]
  BY EntryWritten
<1>2. Entries(i)' \ {<<e, m>>} = Entries(i) \ {<<e, m>>}
  <2>1. ASSUME NEW a \in Inums, NEW n \in Names, <<a, n>> # <<e, m>>
        PROVE  <<a, n>> \in Entries(i)' <=> <<a, n>> \in Entries(i)
    <3>1. ents'[a][n] = ents[a][n]
      BY <1>1, <2>1
    <3> QED
      BY <3>1, EntryIs
  <2>2. Entries(i)' \subseteq Inums \X Names /\ Entries(i) \subseteq Inums \X Names
    BY DEF Entries
  <2> QED
    BY <2>1, <2>2
<1>3. (<<e, m>> \in Entries(i) <=> ents[e][m] = i) /\ (<<e, m>> \in Entries(i)' <=> v = i)
  BY <1>1, EntryIs
<1>4. Cardinality(Entries(i)') + Frac(<<e, m>> \in Entries(i))
        = Cardinality(Entries(i)) + Frac(<<e, m>> \in Entries(i)')
  BY <1>2, EntriesFinite, CallsFiniteNext, CardDiffer
<1>5. Frac(<<e, m>> \in Entries(i)) = Frac(ents[e][m] = i) /\ Frac(<<e, m>> \in Entries(i)') = Frac(v = i)
  BY <1>3 DEF Frac
<1> QED
  BY <1>4, <1>5

LEMMA KidCounts ==
    ASSUME IInv, NEW e \in Inums, NEW m \in Names, NEW v \in Inums \union {0},
           Writes(e, m, v),
           \A i \in Inums : dinode'[i].type = dinode[i].type
    PROVE  /\ \A i \in Inums : i # e => DirKids(i)' = DirKids(i)
           /\ Cardinality(DirKids(e)')
                + Frac(ents[e][m] # 0 /\ dinode[ents[e][m]].type = "dir")
              = Cardinality(DirKids(e)) + Frac(v # 0 /\ dinode[v].type = "dir")
<1>1. /\ ents'[e][m] = v
      /\ \A n \in Names : n # m => ents'[e][n] = ents[e][n]
      /\ \A a \in Inums : a # e => ents'[a] = ents[a]
  BY EntryWritten
<1>2. \A a \in Inums, n \in Names : ents[a][n] \in Inums \union {0}
  BY DEF IInv, TypeOK
<1>3. \A i \in Inums : i # e => DirKids(i)' = DirKids(i)
  BY <1>1, <1>2 DEF DirKids
<1>4. DirKids(e)' \ {m} = DirKids(e) \ {m}
  BY <1>1, <1>2 DEF DirKids
<1>5. /\ m \in DirKids(e) <=> (ents[e][m] # 0 /\ dinode[ents[e][m]].type = "dir")
      /\ m \in DirKids(e)' <=> (v # 0 /\ dinode[v].type = "dir")
  BY <1>1 DEF DirKids
<1>6. Cardinality(DirKids(e)') + Frac(m \in DirKids(e)) = Cardinality(DirKids(e)) + Frac(m \in DirKids(e)')
  BY <1>4, CallsFinite, CallsFiniteNext, CardDiffer
<1>7. /\ Frac(m \in DirKids(e)) = Frac(ents[e][m] # 0 /\ dinode[ents[e][m]].type = "dir")
      /\ Frac(m \in DirKids(e)') = Frac(v # 0 /\ dinode[v].type = "dir")
  BY <1>5 DEF Frac
<1> QED
  BY <1>3, <1>6, <1>7

\* The links written to one slot of a cache, or to one inode.
Linked(c, s, n) == [c EXCEPT ![s].nlink = n]

LEMMA LinksWritten ==
    ASSUME NEW c \in Caches, NEW s \in Slots, NEW n \in Nat
    PROVE  /\ Linked(c, s, n) \in Caches /\ \A t \in Slots : t # s => Linked(c, s, n)[t] = c[t]
           /\ Linked(c, s, n)[s].nlink = n /\ Linked(c, s, n)[s].inum = c[s].inum
           /\ Linked(c, s, n)[s].ref = c[s].ref /\ Linked(c, s, n)[s].valid = c[s].valid
           /\ Linked(c, s, n)[s].type = c[s].type
<1>1. c[s] \in SlotRec
  BY DEF Caches
<1>2. PICK r : r = [c[s] EXCEPT !.nlink = n]
  OBVIOUS
<1>3. /\ r \in SlotRec /\ r.nlink = n /\ r.inum = c[s].inum /\ r.ref = c[s].ref
      /\ r.valid = c[s].valid /\ r.type = c[s].type
  BY <1>1, <1>2 DEF SlotRec
<1>4. PICK d : d = Linked(c, s, n)
  OBVIOUS
<1>5. d = [c EXCEPT ![s] = r]
  BY <1>2, <1>4 DEF Linked
<1>6. d \in Caches /\ d[s] = r /\ \A t \in Slots : t # s => d[t] = c[t]
  BY <1>3, <1>5 DEF Caches
<1> QED
  BY <1>3, <1>4, <1>6

Dinodes == [Inums -> [type : Types, nlink : Nat]]

LEMMA DinodeWritten ==
    ASSUME NEW d \in Dinodes, NEW i \in Inums, NEW n, n \in Nat, NEW e, e = Linked(d, i, n)
    PROVE  /\ e \in Dinodes /\ \A a \in Inums : a # i => e[a] = d[a]
           /\ e[i].nlink = n /\ e[i].type = d[i].type
<1>1. d[i] \in [type : Types, nlink : Nat]
  BY DEF Dinodes
<1>2. PICK r : r = [d[i] EXCEPT !.nlink = n]
  OBVIOUS
<1>3. r \in [type : Types, nlink : Nat] /\ r.nlink = n /\ r.type = d[i].type
  BY <1>1, <1>2
<1>4. e = [d EXCEPT ![i] = r]
  BY <1>2 DEF Linked
<1>5. e \in Dinodes /\ e[i] = r /\ \A a \in Inums : a # i => e[a] = d[a]
  BY <1>3, <1>4 DEF Dinodes
<1> QED
  BY <1>3, <1>5

\* The links of an inode that p has to account for, besides the entries.
Owed(p, i) == Frac(p \in Linkers(i)) + Frac(p \in Unlinkers(i))

LEMMA CountedSame ==
    ASSUME IInv, TypeOK', NEW p \in Procs, DiskStep(p), ents' = ents,
           \A i \in Inums : dinode[i].type = "file" =>
              dinode[i].nlink + Owed(p, i)' <= dinode'[i].nlink + Owed(p, i),
           \A i \in Inums : dinode[i].type = "dir" =>
              /\ dinode[i].nlink + Frac(p \in Unlinkers(i)') = dinode'[i].nlink + Frac(p \in Unlinkers(i))
              /\ p \in Unlinkers(i)' => p \in Unlinkers(i)
    PROVE  Counted'
<1> SUFFICES ASSUME NEW i \in Inums
             PROVE  /\ dinode'[i].type = "file" => FileCounted(i)'
                    /\ dinode'[i].type = "dir" => DirCounted(i)'
  BY DEF Counted
<1>1. dinode'[i].type = dinode[i].type
  BY DEF DiskStep
<1>2. DirKids(i)' = DirKids(i)
  <2>1. \A n \in Names : ents[i][n] # 0 => dinode'[ents[i][n]].type = dinode[ents[i][n]].type
    BY DEF DiskStep, IInv, TypeOK
  <2> QED
    BY <2>1 DEF DirKids
<1>3. Entries(i)' = Entries(i)
  BY DEF Entries
<1>4. /\ Cardinality(Linkers(i)') + Frac(p \in Linkers(i))
           = Cardinality(Linkers(i)) + Frac(p \in Linkers(i)')
      /\ Cardinality(Unlinkers(i)') + Frac(p \in Unlinkers(i))
           = Cardinality(Unlinkers(i)) + Frac(p \in Unlinkers(i)')
  BY CallerCounts
<1>5. /\ Cardinality(Linkers(i)) \in Nat /\ Cardinality(Linkers(i)') \in Nat
      /\ Cardinality(Unlinkers(i)) \in Nat /\ Cardinality(Unlinkers(i)') \in Nat
      /\ Cardinality(Entries(i)) \in Nat /\ Cardinality(DirKids(i)) \in Nat
      /\ dinode[i].nlink \in Nat /\ dinode'[i].nlink \in Nat /\ Frac(i = ROOTINO) \in {0, 1}
      /\ Frac(p \in Linkers(i)) \in {0, 1} /\ Frac(p \in Linkers(i)') \in {0, 1}
      /\ Frac(p \in Unlinkers(i)) \in {0, 1} /\ Frac(p \in Unlinkers(i)') \in {0, 1}
  BY CallsFinite, CallsFiniteNext, EntriesFinite DEF IInv, TypeOK, Frac
<1>6. ASSUME dinode[i].type = "file"
      PROVE  FileCounted(i)'
  <2>1. Cardinality(Entries(i)) + Cardinality(Linkers(i)) + Cardinality(Unlinkers(i)) <= dinode[i].nlink
    BY <1>6 DEF IInv, Counted, FileCounted
  <2>2. dinode[i].nlink + (Frac(p \in Linkers(i)') + Frac(p \in Unlinkers(i)'))
          <= dinode'[i].nlink + (Frac(p \in Linkers(i)) + Frac(p \in Unlinkers(i)))
    BY <1>6 DEF Owed
  <2>3. Cardinality(Entries(i)) + Cardinality(Linkers(i)') + Cardinality(Unlinkers(i)') <= dinode'[i].nlink
    BY <1>4, <1>5, <2>1, <2>2
  <2> QED
    BY <1>3, <2>3 DEF FileCounted
<1>7. ASSUME dinode[i].type = "dir"
      PROVE  DirCounted(i)'
  <2>1. Up(i) <= 1 /\ dinode[i].nlink = Cardinality(DirKids(i)) + Up(i)
    BY <1>7 DEF IInv, Counted, DirCounted
  <2>2. /\ Up(i) = Frac(i = ROOTINO) + Cardinality(Entries(i)) + Cardinality(Unlinkers(i))
        /\ Up(i)' = Frac(i = ROOTINO) + Cardinality(Entries(i)) + Cardinality(Unlinkers(i)')
    BY <1>3 DEF Up
  <2>3. Frac(p \in Unlinkers(i)') <= Frac(p \in Unlinkers(i))
    BY <1>7 DEF Frac
  <2>4. Up(i)' + Frac(p \in Unlinkers(i)) = Up(i) + Frac(p \in Unlinkers(i)')
    BY <1>4, <1>5, <2>2
  <2>5. Up(i) \in Nat /\ Up(i)' \in Nat
    BY <1>5, <2>2
  <2>6. Up(i)' <= 1 /\ dinode'[i].nlink = Cardinality(DirKids(i)) + Up(i)'
    BY <1>5, <1>7, <2>1, <2>3, <2>4, <2>5
  <2> QED
    BY <1>2, <2>6 DEF DirCounted
<1> QED
  BY <1>1, <1>6, <1>7

\* The same where the entry m of the directory e becomes v.
LEMMA CountedStep ==
    ASSUME IInv, TypeOK', NEW p \in Procs, DiskStep(p), NEW e \in Inums, NEW m \in Names,
           NEW v \in Inums \union {0}, Writes(e, m, v), NEW o, o = ents[e][m],
           \A i \in Inums : dinode[i].type = "file" =>
              dinode[i].nlink + Owed(p, i)' + Frac(v = i) <= dinode'[i].nlink + Owed(p, i) + Frac(o = i),
           \A i \in Inums : dinode[i].type = "dir" =>
              /\ Up(i) + Frac(p \in Unlinkers(i)') + Frac(v = i)
                   <= 1 + Frac(p \in Unlinkers(i)) + Frac(o = i)
              /\ dinode[i].nlink + Frac(p \in Unlinkers(i)') + Frac(v = i)
                   + Frac(i = e /\ v # 0 /\ dinode[v].type = "dir")
                 = dinode'[i].nlink + Frac(p \in Unlinkers(i)) + Frac(o = i)
                   + Frac(i = e /\ o # 0 /\ dinode[o].type = "dir")
    PROVE  Counted'
<1> SUFFICES ASSUME NEW i \in Inums
             PROVE  /\ dinode'[i].type = "file" => FileCounted(i)'
                    /\ dinode'[i].type = "dir" => DirCounted(i)'
  BY DEF Counted
<1>0. \A b : Frac(b) \in {0, 1}
  BY DEF Frac
<1>1. \A a \in Inums : dinode'[a].type = dinode[a].type
  BY DEF DiskStep
<1>2. Cardinality(DirKids(i)') + Frac(i = e /\ o # 0 /\ dinode[o].type = "dir")
        = Cardinality(DirKids(i)) + Frac(i = e /\ v # 0 /\ dinode[v].type = "dir")
  <2>1. CASE i = e
    <3>1. Cardinality(DirKids(e)') + Frac(o # 0 /\ dinode[o].type = "dir")
            = Cardinality(DirKids(e)) + Frac(v # 0 /\ dinode[v].type = "dir")
      BY <1>1, KidCounts
    <3> QED
      BY <2>1, <3>1 DEF Frac
  <2>2. CASE i # e
    <3>1. DirKids(i)' = DirKids(i)
      BY <1>1, <2>2, KidCounts
    <3> QED
      BY <2>2, <3>1 DEF Frac
  <2> QED
    BY <2>1, <2>2
<1>3. Cardinality(Entries(i)') + Frac(o = i) = Cardinality(Entries(i)) + Frac(v = i)
  <2>1. Cardinality(Entries(i)') + Frac(ents[e][m] = i) = Cardinality(Entries(i)) + Frac(v = i)
    BY EntryCounts
  <2> QED
    BY <2>1
<1>4. /\ Cardinality(Linkers(i)') + Frac(p \in Linkers(i))
           = Cardinality(Linkers(i)) + Frac(p \in Linkers(i)')
      /\ Cardinality(Unlinkers(i)') + Frac(p \in Unlinkers(i))
           = Cardinality(Unlinkers(i)) + Frac(p \in Unlinkers(i)')
  BY CallerCounts
<1>5. /\ Cardinality(Linkers(i)) \in Nat /\ Cardinality(Linkers(i)') \in Nat
      /\ Cardinality(Unlinkers(i)) \in Nat /\ Cardinality(Unlinkers(i)') \in Nat
      /\ Cardinality(Entries(i)) \in Nat /\ Cardinality(DirKids(i)) \in Nat
      /\ Cardinality(Entries(i)') \in Nat /\ Cardinality(DirKids(i)') \in Nat
      /\ dinode[i].nlink \in Nat /\ dinode'[i].nlink \in Nat
  BY CallsFinite, CallsFiniteNext, EntriesFinite DEF IInv, TypeOK
<1>6. ASSUME dinode[i].type = "file"
      PROVE  FileCounted(i)'
  <2>1. Cardinality(Entries(i)) + Cardinality(Linkers(i)) + Cardinality(Unlinkers(i)) <= dinode[i].nlink
    BY <1>6 DEF IInv, Counted, FileCounted
  <2>2. dinode[i].nlink + (Frac(p \in Linkers(i)') + Frac(p \in Unlinkers(i)')) + Frac(v = i)
          <= dinode'[i].nlink + (Frac(p \in Linkers(i)) + Frac(p \in Unlinkers(i))) + Frac(o = i)
    BY <1>6 DEF Owed
  <2>3. Cardinality(Entries(i)') + Cardinality(Linkers(i)') + Cardinality(Unlinkers(i)') <= dinode'[i].nlink
    BY <1>0, <1>3, <1>4, <1>5, <2>1, <2>2
  <2> QED
    BY <2>3 DEF FileCounted
<1>7. ASSUME dinode[i].type = "dir"
      PROVE  DirCounted(i)'
  <2>1. Up(i) <= 1 /\ dinode[i].nlink = Cardinality(DirKids(i)) + Up(i)
    BY <1>7 DEF IInv, Counted, DirCounted
  <2>2. /\ Up(i) = Frac(i = ROOTINO) + Cardinality(Entries(i)) + Cardinality(Unlinkers(i))
        /\ Up(i)' = Frac(i = ROOTINO) + Cardinality(Entries(i)') + Cardinality(Unlinkers(i)')
    BY DEF Up
  <2>3. Up(i)' + Frac(p \in Unlinkers(i)) + Frac(o = i) = Up(i) + Frac(p \in Unlinkers(i)') + Frac(v = i)
    BY <1>0, <1>3, <1>4, <1>5, <2>2
  <2>4. Up(i) \in Nat /\ Up(i)' \in Nat
    BY <1>0, <1>5, <2>2
  <2>5. Up(i) + Frac(p \in Unlinkers(i)') + Frac(v = i) <= 1 + Frac(p \in Unlinkers(i)) + Frac(o = i)
    BY <1>7
  <2>6. Up(i)' <= 1
    BY <1>0, <2>3, <2>4, <2>5
  <2>7. dinode'[i].nlink = Cardinality(DirKids(i)') + Up(i)'
    BY <1>0, <1>2, <1>5, <1>7, <2>1, <2>3, <2>4
  <2> QED
    BY <2>6, <2>7 DEF DirCounted
<1> QED
  BY <1>1, <1>6, <1>7

\* A link of somebody's counts.
LEMMA OwedCounts ==
    ASSUME IInv, NEW p \in Procs, NEW i \in Inums, p \in Linkers(i) \/ p \in Unlinkers(i),
           dinode[i].type # "free"
    PROVE  dinode[i].nlink > 0
<1>1. Cardinality(Linkers(i)) # 0 \/ Cardinality(Unlinkers(i)) # 0
  BY CallsFinite, FS_EmptySet
<1>2. /\ Cardinality(Linkers(i)) \in Nat /\ Cardinality(Unlinkers(i)) \in Nat
      /\ Cardinality(Entries(i)) \in Nat /\ Cardinality(DirKids(i)) \in Nat
      /\ dinode[i].nlink \in Nat /\ Frac(i = ROOTINO) \in Nat
  BY CallsFinite, EntriesFinite DEF IInv, TypeOK, Frac
<1>3. CASE dinode[i].type = "file"
  <2>1. Cardinality(Entries(i)) + Cardinality(Linkers(i)) + Cardinality(Unlinkers(i)) <= dinode[i].nlink
    BY <1>3 DEF IInv, Counted, FileCounted
  <2> QED
    BY <1>1, <1>2, <2>1
<1>4. CASE dinode[i].type = "dir"
  <2>1. p \notin Linkers(i)
    BY <1>4 DEF IInv, Alive, Linkers
  <2>2. Cardinality(Unlinkers(i)) # 0
    BY <2>1, CallsFinite, FS_EmptySet
  <2>3. dinode[i].nlink = Cardinality(DirKids(i))
           + (Frac(i = ROOTINO) + Cardinality(Entries(i)) + Cardinality(Unlinkers(i)))
    BY <1>4 DEF IInv, Counted, DirCounted, Up
  <2> QED
    BY <1>2, <2>2, <2>3
<1>5. dinode[i].type \in {"free", "file", "dir"}
  BY DEF IInv, TypeOK, Types
<1> QED
  BY <1>3, <1>4, <1>5

\* The steps: unlink takes the link off the inode whose entry it erased.
LEMMA UnlinkDecKeeps ==
    ASSUME IInv, NEW p \in Procs, UnlinkDec(p)
    PROVE  IInv'
<1>1. PICK r \in CallRecs, k \in Slots : r = loc[p] /\ k = r.ip
  BY Caller DEF ShapeOf, UnlinkDec, At, Label, Putting
<1>2. /\ TypeOK /\ ShapeOf(p) /\ pc[p] = "unlinkdec" /\ Label(p) = "unlinkdec" /\ ~Linking(p)
      /\ r.at = 0 /\ r.dp = 0 /\ r.put = 0 /\ k # 0 /\ dinode[Inum(k)].type # "free"
      /\ Inum(k) \in Inums
  <2>1. /\ TypeOK /\ ShapeOf(p) /\ pc[p] = "unlinkdec" /\ k # 0 /\ Inum(k) \in Inums
        /\ dinode[Inum(k)].type # "free"
    BY <1>1, Caller, Constants DEF UnlinkDec, At
  <2>2. Label(p) = "unlinkdec"
    BY <2>1 DEF Label, Putting
  <2> QED
    BY <1>1, <2>1, <2>2 DEF ShapeOf, Linking, Putting
<1>3. \A s \in Slots : Holds(p, s) <=> s = k
  BY <1>1, <1>2 DEF Holds, HoldsPut, HoldsDp, HoldsIp
<1>4. lock[k] = p /\ icache[k].valid
  <2>1. lock[k] = p /\ p # Nobody
    BY <1>3, Constants DEF IInv, Locks
  <2> QED
    BY <2>1 DEF IInv, Locks
<1>5. PICK j \in Inums : j = Inum(k)
  BY <1>2
<1>6. /\ p \in Unlinkers(j) /\ \A i \in Inums : i # j => p \notin Unlinkers(i)
      /\ \A i \in Inums : p \notin Linkers(i)
  BY <1>1, <1>2, <1>5 DEF Unlinkers, Linkers
<1>7. PICK u \in Nat : u = icache[k].nlink - 1 /\ dinode[j].nlink = u + 1 /\ icache[k].nlink = u + 1
  <2>1. icache[k].nlink = dinode[j].nlink /\ dinode[j].nlink \in Nat
    BY <1>2, <1>4, <1>5 DEF IInv, Coherent, TypeOK
  <2>2. dinode[j].nlink > 0
    BY <1>2, <1>5, <1>6, OwedCounts
  <2> QED
    BY <2>1, <2>2
<1>8. /\ icache' = [icache EXCEPT ![k].nlink = u] /\ dinode' = [dinode EXCEPT ![j].nlink = u]
      /\ ents' = ents /\ fd' = fd /\ leaked' = leaked /\ panicked' = panicked
      /\ overlap' = overlap /\ calls' = calls /\ lock' = [lock EXCEPT ![k] = Nobody]
  BY <1>1, <1>5, <1>7 DEF UnlinkDec, SetLinks, Release, Inum
<1>9. /\ icache' \in Caches /\ \A t \in Slots : t # k => icache'[t] = icache[t]
      /\ icache'[k].nlink = u /\ icache'[k].inum = icache[k].inum /\ icache'[k].ref = icache[k].ref
      /\ icache'[k].valid = icache[k].valid /\ icache'[k].type = icache[k].type
  <2>1. PICK c \in Caches : c = icache
    BY <1>2, TypeOKIs
  <2>2. icache' = Linked(c, k, u)
    BY <1>8, <2>1 DEF Linked
  <2>3. /\ icache' \in Caches /\ \A t \in Slots : t # k => icache'[t] = c[t]
        /\ icache'[k].nlink = u /\ icache'[k].inum = c[k].inum /\ icache'[k].ref = c[k].ref
        /\ icache'[k].valid = c[k].valid /\ icache'[k].type = c[k].type
    BY <2>2, LinksWritten
  <2> QED
    BY <2>1, <2>3
<1>10. /\ dinode' \in Dinodes /\ \A a \in Inums : a # j => dinode'[a] = dinode[a]
       /\ dinode'[j].nlink = u /\ dinode'[j].type = dinode[j].type
  <2>1. PICK d \in Dinodes : d = dinode
    BY <1>2 DEF TypeOK, Dinodes
  <2>2. dinode' = Linked(d, j, u)
    BY <1>8, <2>1 DEF Linked
  <2>3. /\ dinode' \in Dinodes /\ \A a \in Inums : a # j => dinode'[a] = d[a]
        /\ dinode'[j].nlink = u /\ dinode'[j].type = d[j].type
    BY <2>2, DinodeWritten
  <2> QED
    BY <2>1, <2>3
<1>11. PICK n : n = Put(r, "ip", "idle")
  OBVIOUS
<1>12. Over(n, k) /\ Step(p, "iput", n) /\ n \in CallRecs /\ "iput" \in PCs
  BY <1>1, <1>11, PutOver DEF UnlinkDec, Over, PCs
<1>13. /\ pc' \in [Procs -> PCs] /\ loc' \in [Procs -> CallRecs] /\ pc'[p] = "iput" /\ loc'[p] = n
       /\ \A q \in Procs : q # p => pc'[q] = pc[q] /\ loc'[q] = loc[q]
  BY <1>2, <1>12, StepIs
<1>14. /\ ShapeOf(p)' /\ NamedOf(p)' /\ OwnLocks(p)' /\ Label(p)' = "idle" /\ ~Linking(p)'
       /\ \A s \in Slots : ~Holds(p, s)'
  <2>1. Over(loc'[p], k)
    BY <1>12, <1>13
  <2> QED
    BY <1>13, <2>1, OverQuiet
<1>15. LockMoves(p)
  BY <1>3, <1>8, <1>14, LockReleased
<1>16. TypeOK'
  BY <1>2, <1>8, <1>9, <1>10, <1>13 DEF TypeOK, Caches, SlotRec, Dinodes
<1>17. DiskStep(p)
  <2>1. n.at = 0 /\ n.dp = 0 /\ n.ip = 0 /\ n.put = k
    BY <1>12 DEF Over
  <2>2. fd' = fd /\ leaked' = leaked /\ overlap' = overlap /\ Others(p)
    BY <1>8, <1>13 DEF Others
  <2>3. \A t \in Slots :
          /\ icache'[t].inum = icache[t].inum
          /\ icache'[t].ref = icache[t].ref \/ (t = ROOT /\ icache'[t].ref > 0)
          /\ icache[t].valid => icache'[t].valid
          /\ icache'[t].valid /\ ~icache[t].valid => t \in {loc[p].ip, loc[p].dp}
          /\ icache'[t].nlink # icache[t].nlink => lock[t] \in {Nobody, p}
          /\ Inum(t) \in Inums /\ dinode[Inum(t)].nlink > 0 =>
                icache'[t].valid \/ dinode'[Inum(t)].nlink > 0
          /\ t \in {loc'[p].at, loc'[p].ip, loc'[p].put} =>
                icache'[t].valid \/ dinode'[Inum(t)].nlink > 0
    <3> SUFFICES ASSUME NEW t \in Slots
                 PROVE  /\ icache'[t].inum = icache[t].inum
                        /\ icache'[t].ref = icache[t].ref
                        /\ icache'[t].valid = icache[t].valid
                        /\ icache'[t].nlink # icache[t].nlink => lock[t] \in {Nobody, p}
                        /\ Inum(t) \in Inums /\ dinode[Inum(t)].nlink > 0 =>
                              icache'[t].valid \/ dinode'[Inum(t)].nlink > 0
                        /\ t \in {loc'[p].at, loc'[p].ip, loc'[p].put} => icache'[t].valid
      OBVIOUS
    <3>1. CASE t = k
      BY <1>4, <1>9, <3>1
    <3>2. CASE t # k
      <4>1. Inum(t) \in Inums => Inum(t) # j
        BY <1>2, <1>5, <3>2, SameSlot DEF IInv
      <4>2. t # 0
        BY Constants
      <4> QED
        BY <1>9, <1>10, <1>13, <2>1, <3>2, <4>1, <4>2
    <3> QED
      BY <3>1, <3>2
  <2>4. \A i \in Inums :
          /\ dinode'[i].type = dinode[i].type
          /\ dinode'[i].nlink # dinode[i].nlink =>
                \E s \in Slots : s \in {loc[p].dp, loc[p].ip} /\ Inum(s) = i
          /\ dinode'[i].nlink = 0 => \/ dinode[i].nlink = 0
                                     \/ \E s \in Slots : /\ s = loc'[p].put /\ Inum(s) = i
                                                         /\ pc'[p] = "iput"
    BY <1>1, <1>5, <1>10, <1>13, <2>1
  <2>5. pc[p] \notin Putting /\ pc'[p] \in {"iput", "walk"} /\ pc[p] # "createinit"
    BY <1>2, <1>13 DEF Putting
  <2>6. /\ loc'[p].dp = 0
        /\ {loc'[p].at, loc'[p].ip, loc'[p].put} \subseteq {0, ROOT, loc[p].dp, loc[p].ip}
        /\ {loc[p].at, loc[p].dp, loc[p].ip} \subseteq
              {0, loc'[p].ip, IF pc'[p] = "iput" THEN loc'[p].put ELSE 0}
    BY <1>1, <1>2, <1>13, <2>1
  <2> QED
    BY <1>8, <1>14, <1>15, <2>2, <2>3, <2>4, <2>5, <2>6 DEF DiskStep
<1>18. RefsExact'
  <2>1. Moved(loc[p], loc'[p], 0, 0)
    BY <1>1, <1>2, <1>12, <1>13, Constants DEF Moved, Frac, Over
  <2>2. ASSUME NEW t \in Slots
        PROVE  icache'[t].ref = icache[t].ref + Frac(t = 0)
    <3>1. icache[t].ref \in Nat /\ Frac(t = 0) = 0
      BY <1>2, Constants DEF Frac, TypeOK
    <3>2. icache'[t].ref = icache[t].ref
      BY <1>9
    <3> QED
      BY <3>1, <3>2
  <2> QED
    BY <1>16, <1>17, <2>1, <2>2, DiskRefs
<1>19. Coherent'
  <2> SUFFICES ASSUME NEW s \in Slots, icache'[s].valid
               PROVE  /\ icache'[s].nlink = dinode'[Inum(s)'].nlink
                      /\ icache'[s].type = dinode'[Inum(s)'].type \/ Freeing(s)'
    BY DEF Coherent
  <2>1. Inum(s)' = Inum(s) /\ (Freeing(s) => Freeing(s)') /\ icache[s].valid
    BY <1>4, <1>9, <1>17, DiskSame
  <2>2. icache[s].nlink = dinode[Inum(s)].nlink /\ (icache[s].type = dinode[Inum(s)].type \/ Freeing(s))
    BY <2>1 DEF IInv, Coherent
  <2>3. Inum(s) \in Inums
    BY <1>2, <2>1, Constants DEF IInv, SlotsApart, Apart, Inum, TypeOK
  <2>4. s # k => Inum(s) # j
    BY <1>2, <1>5, <2>3, SameSlot DEF IInv
  <2> QED
    BY <1>5, <1>9, <1>10, <2>1, <2>2, <2>3, <2>4
<1>20. Counted'
  <2>1. \A i \in Inums : p \notin Linkers(i)' /\ p \notin Unlinkers(i)'
    BY <1>14 DEF Linkers, Unlinkers
  <2>2. ASSUME NEW i \in Inums
        PROVE  /\ dinode[i].nlink + Owed(p, i)' <= dinode'[i].nlink + Owed(p, i)
               /\ dinode[i].nlink + Frac(p \in Unlinkers(i)') = dinode'[i].nlink + Frac(p \in Unlinkers(i))
    <3>1. dinode[i].nlink \in Nat
      BY <1>2 DEF TypeOK
    <3>2. Owed(p, i)' = 0 /\ Owed(p, i) = IF i = j THEN 1 ELSE 0
      BY <1>6, <2>1 DEF Owed, Frac
    <3>3. Frac(p \in Unlinkers(i)') = 0 /\ Frac(p \in Unlinkers(i)) = IF i = j THEN 1 ELSE 0
      BY <1>6, <2>1 DEF Frac
    <3> QED
      BY <1>7, <1>10, <3>1, <3>2, <3>3
  <2> QED
    BY <1>8, <1>16, <1>17, <2>1, <2>2, CountedSame
<1>21. NoLoops'
  BY <1>8 DEF IInv, NoLoops
<1> QED
  BY <1>16, <1>17, <1>18, <1>19, <1>20, <1>21, DiskInv

\* One slot is read and gets its links, as does its inode.
LEMMA SetLinksIs ==
    ASSUME IInv, NEW k \in Slots, NEW j \in Inums, Inum(k) = j, dinode[j].type # "free", ~Freeing(k),
           NEW u \in Nat, icache' = Linked(Load(icache, k), k, u), dinode' = Linked(dinode, j, u)
    PROVE  /\ icache' \in Caches /\ \A t \in Slots : t # k => icache'[t] = icache[t]
           /\ icache'[k].nlink = u /\ icache'[k].inum = j /\ icache'[k].ref = icache[k].ref
           /\ icache'[k].valid /\ icache'[k].type = dinode[j].type
           /\ dinode' \in Dinodes /\ \A a \in Inums : a # j => dinode'[a] = dinode[a]
           /\ dinode'[j].nlink = u /\ dinode'[j].type = dinode[j].type
           /\ \A t \in Slots : t # k /\ Inum(t) \in Inums => Inum(t) # j
<1>1. PICK c : c = Load(icache, k)
  OBVIOUS
<1>2. Fresh(c) /\ c[k].valid /\ \A t \in Slots : t # k => c[t] = icache[t]
  BY <1>1, LoadIs DEF IInv
<1>3. c[k].type = dinode[j].type
  BY <1>1, LoadedIs
<1>4. c \in Caches /\ c[k].inum = icache[k].inum /\ c[k].ref = icache[k].ref
  BY <1>2 DEF Fresh
<1>5. icache' = Linked(c, k, u)
  BY <1>1
<1>6. /\ icache' \in Caches /\ \A t \in Slots : t # k => icache'[t] = c[t]
      /\ icache'[k].nlink = u /\ icache'[k].inum = c[k].inum /\ icache'[k].ref = c[k].ref
      /\ icache'[k].valid = c[k].valid /\ icache'[k].type = c[k].type
  BY <1>4, <1>5, LinksWritten
<1>7. PICK d \in Dinodes : d = dinode
  BY DEF IInv, TypeOK, Dinodes
<1>8. dinode' = Linked(d, j, u)
  BY <1>7
<1>9. /\ dinode' \in Dinodes /\ \A a \in Inums : a # j => dinode'[a] = d[a]
      /\ dinode'[j].nlink = u /\ dinode'[j].type = d[j].type
  BY <1>8, DinodeWritten
<1>10. \A t \in Slots : t # k /\ Inum(t) \in Inums => Inum(t) # j
  BY SameSlot DEF IInv
<1> QED
  BY <1>2, <1>3, <1>4, <1>6, <1>7, <1>9, <1>10 DEF Inum

\* A slot that was right before, and is changed with its inode, is right again.
LEMMA CoherentWith ==
    ASSUME IInv, NEW p \in Procs, DiskStep(p), NEW k \in Slots, NEW j \in Inums, Inum(k) = j,
           icache'[k].nlink = dinode'[j].nlink, icache'[k].type = dinode'[j].type,
           \A t \in Slots : t # k => /\ icache'[t].valid => icache[t].valid
                                     /\ icache'[t].nlink = icache[t].nlink
                                     /\ icache'[t].type = icache[t].type,
           \A t \in Slots : t # k /\ Inum(t) \in Inums => dinode'[Inum(t)] = dinode[Inum(t)]
    PROVE  Coherent'
<1> SUFFICES ASSUME NEW s \in Slots, icache'[s].valid
             PROVE  /\ icache'[s].nlink = dinode'[Inum(s)'].nlink
                    /\ icache'[s].type = dinode'[Inum(s)'].type \/ Freeing(s)'
  BY DEF Coherent
<1>1. Inum(s)' = Inum(s) /\ (Freeing(s) => Freeing(s)')
  BY DiskSame
<1>2. CASE s = k
  BY <1>1, <1>2
<1>3. CASE s # k
  <2>1. icache[s].valid /\ icache'[s].nlink = icache[s].nlink /\ icache'[s].type = icache[s].type
    BY <1>3
  <2>2. icache[s].nlink = dinode[Inum(s)].nlink /\ (icache[s].type = dinode[Inum(s)].type \/ Freeing(s))
    BY <2>1 DEF IInv, Coherent
  <2>3. Inum(s) \in Inums
    BY <2>1, Constants DEF IInv, SlotsApart, Apart, Inum, TypeOK
  <2> QED
    BY <1>1, <1>3, <2>1, <2>2, <2>3
<1> QED
  BY <1>2, <1>3

\* A link that fails takes its count back.
LEMMA LinkUndoKeeps ==
    ASSUME IInv, NEW p \in Procs, LinkUndo(p)
    PROVE  IInv'
<1>1. PICK r \in CallRecs, k \in Slots : r = loc[p] /\ k = r.ip
  BY Caller DEF ShapeOf, LinkUndo, At, Label, Putting, Linking
<1>2. /\ TypeOK /\ ShapeOf(p) /\ pc[p] = "linkundo" /\ Label(p) = "linkundo" /\ Linking(p)
      /\ r.at = 0 /\ r.dp = 0 /\ r.put = 0 /\ k # 0 /\ dinode[Inum(k)].type = "file"
      /\ Inum(k) \in Inums /\ lock[k] = Nobody
  <2>1. /\ TypeOK /\ ShapeOf(p) /\ pc[p] = "linkundo" /\ k # 0 /\ Inum(k) \in Inums
        /\ lock[k] = Nobody
    BY <1>1, Caller, Constants DEF LinkUndo, At
  <2>2. Label(p) = "linkundo"
    BY <2>1 DEF Label, Putting
  <2>3. Linking(p)
    BY <2>2 DEF Linking
  <2> QED
    BY <1>1, <2>1, <2>2, <2>3 DEF ShapeOf, Putting, IInv, Alive
<1>3. \A s \in Slots : ~Holds(p, s)
  BY <1>2 DEF Holds, HoldsPut, HoldsDp, HoldsIp
<1>4. ~Freeing(k)
  BY <1>2, NotFreeing
<1>5. PICK j \in Inums : j = Inum(k)
  BY <1>2
<1>6. /\ p \in Linkers(j) /\ \A i \in Inums : i # j => p \notin Linkers(i)
      /\ \A i \in Inums : p \notin Unlinkers(i)
  BY <1>1, <1>2, <1>5 DEF Unlinkers, Linkers
<1>7. PICK u \in Nat : u = Load(icache, k)[k].nlink - 1 /\ dinode[j].nlink = u + 1
  <2>1. Load(icache, k)[k].nlink = dinode[j].nlink /\ dinode[j].nlink \in Nat
    BY <1>2, <1>4, <1>5, LoadedIs DEF IInv, TypeOK
  <2>2. dinode[j].nlink > 0
    BY <1>2, <1>5, <1>6, OwedCounts
  <2> QED
    BY <2>1, <2>2
<1>8. /\ ents' = ents /\ fd' = fd /\ leaked' = leaked /\ panicked' = panicked
      /\ overlap' = overlap /\ calls' = calls /\ lock' = lock
  BY DEF LinkUndo
<1>9. icache' = Linked(Load(icache, k), k, u) /\ dinode' = Linked(dinode, j, u)
  <2>1. Load(icache, k)[k].inum = j
    BY <1>2, <1>5, LoadIs DEF Fresh, Inum
  <2>2. SetLinks(Load(icache, k), dinode, k, u)
    BY <1>1, <1>7 DEF LinkUndo
  <2> QED
    BY <2>1, <2>2 DEF SetLinks, Linked
<1>10. /\ icache' \in Caches /\ \A t \in Slots : t # k => icache'[t] = icache[t]
       /\ icache'[k].nlink = u /\ icache'[k].inum = j /\ icache'[k].ref = icache[k].ref
       /\ icache'[k].valid /\ icache'[k].type = dinode[j].type
       /\ dinode' \in Dinodes /\ \A a \in Inums : a # j => dinode'[a] = dinode[a]
       /\ dinode'[j].nlink = u /\ dinode'[j].type = dinode[j].type
       /\ \A t \in Slots : t # k /\ Inum(t) \in Inums => Inum(t) # j
  BY <1>2, <1>4, <1>5, <1>9, SetLinksIs
<1>11. PICK n : n = Put(r, "ip", "idle")
  OBVIOUS
<1>12. Over(n, k) /\ Step(p, "iput", n) /\ n \in CallRecs /\ "iput" \in PCs
  BY <1>1, <1>11, PutOver DEF LinkUndo, Over, PCs
<1>13. /\ pc' \in [Procs -> PCs] /\ loc' \in [Procs -> CallRecs] /\ pc'[p] = "iput" /\ loc'[p] = n
       /\ \A q \in Procs : q # p => pc'[q] = pc[q] /\ loc'[q] = loc[q]
  BY <1>2, <1>12, StepIs
<1>14. /\ ShapeOf(p)' /\ NamedOf(p)' /\ OwnLocks(p)' /\ Label(p)' = "idle" /\ ~Linking(p)'
       /\ \A s \in Slots : ~Holds(p, s)'
  <2>1. Over(loc'[p], k)
    BY <1>12, <1>13
  <2> QED
    BY <1>13, <2>1, OverQuiet
<1>15. LockMoves(p)
  BY <1>3, <1>8, <1>14, LockKept
<1>16. TypeOK'
  BY <1>2, <1>8, <1>10, <1>13 DEF TypeOK, Caches, SlotRec, Dinodes
<1>17. DiskStep(p)
  <2>1. n.at = 0 /\ n.dp = 0 /\ n.ip = 0 /\ n.put = k
    BY <1>12 DEF Over
  <2>2. fd' = fd /\ leaked' = leaked /\ overlap' = overlap /\ Others(p)
    BY <1>8, <1>13 DEF Others
  <2>3. \A t \in Slots :
          /\ icache'[t].inum = icache[t].inum
          /\ icache'[t].ref = icache[t].ref \/ (t = ROOT /\ icache'[t].ref > 0)
          /\ icache[t].valid => icache'[t].valid
          /\ icache'[t].valid /\ ~icache[t].valid => t \in {loc[p].ip, loc[p].dp}
          /\ icache'[t].nlink # icache[t].nlink => lock[t] \in {Nobody, p}
          /\ Inum(t) \in Inums /\ dinode[Inum(t)].nlink > 0 =>
                icache'[t].valid \/ dinode'[Inum(t)].nlink > 0
          /\ t \in {loc'[p].at, loc'[p].ip, loc'[p].put} =>
                icache'[t].valid \/ dinode'[Inum(t)].nlink > 0
    <3> SUFFICES ASSUME NEW t \in Slots
                 PROVE  /\ icache'[t].inum = icache[t].inum
                        /\ icache'[t].ref = icache[t].ref
                        /\ icache[t].valid => icache'[t].valid
                        /\ icache'[t].valid /\ ~icache[t].valid => t = loc[p].ip
                        /\ icache'[t].nlink # icache[t].nlink => lock[t] \in {Nobody, p}
                        /\ Inum(t) \in Inums /\ dinode[Inum(t)].nlink > 0 =>
                              icache'[t].valid \/ dinode'[Inum(t)].nlink > 0
                        /\ t \in {loc'[p].at, loc'[p].ip, loc'[p].put} => icache'[t].valid
      OBVIOUS
    <3>1. CASE t = k
      BY <1>1, <1>2, <1>5, <1>10, <3>1 DEF Inum
    <3>2. CASE t # k
      <4>1. t # 0
        BY Constants
      <4> QED
        BY <1>10, <1>13, <2>1, <3>2, <4>1
    <3> QED
      BY <3>1, <3>2
  <2>4. \A i \in Inums :
          /\ dinode'[i].type = dinode[i].type
          /\ dinode'[i].nlink # dinode[i].nlink =>
                \E s \in Slots : s \in {loc[p].dp, loc[p].ip} /\ Inum(s) = i
          /\ dinode'[i].nlink = 0 => \/ dinode[i].nlink = 0
                                     \/ \E s \in Slots : /\ s = loc'[p].put /\ Inum(s) = i
                                                         /\ pc'[p] = "iput"
    BY <1>1, <1>5, <1>10, <1>13, <2>1
  <2>5. pc[p] \notin Putting /\ pc'[p] \in {"iput", "walk"} /\ pc[p] # "createinit"
    BY <1>2, <1>13 DEF Putting
  <2>6. /\ loc'[p].dp = 0
        /\ {loc'[p].at, loc'[p].ip, loc'[p].put} \subseteq {0, ROOT, loc[p].dp, loc[p].ip}
        /\ {loc[p].at, loc[p].dp, loc[p].ip} \subseteq
              {0, loc'[p].ip, IF pc'[p] = "iput" THEN loc'[p].put ELSE 0}
    BY <1>1, <1>2, <1>13, <2>1
  <2> QED
    BY <1>8, <1>14, <1>15, <2>2, <2>3, <2>4, <2>5, <2>6 DEF DiskStep
<1>18. RefsExact'
  <2>1. Moved(loc[p], loc'[p], 0, 0)
    BY <1>1, <1>2, <1>12, <1>13, Constants DEF Moved, Frac, Over
  <2>2. ASSUME NEW t \in Slots
        PROVE  icache'[t].ref = icache[t].ref + Frac(t = 0)
    <3>1. icache[t].ref \in Nat /\ Frac(t = 0) = 0
      BY <1>2, Constants DEF Frac, TypeOK
    <3>2. icache'[t].ref = icache[t].ref
      BY <1>10
    <3> QED
      BY <3>1, <3>2
  <2> QED
    BY <1>16, <1>17, <2>1, <2>2, DiskRefs
<1>19. Coherent'
  BY <1>5, <1>10, <1>17, CoherentWith
<1>20. Counted'
  <2>1. \A i \in Inums : p \notin Linkers(i)' /\ p \notin Unlinkers(i)'
    BY <1>14 DEF Linkers, Unlinkers
  <2>2. ASSUME NEW i \in Inums
        PROVE  dinode[i].nlink + Owed(p, i)' <= dinode'[i].nlink + Owed(p, i)
    <3>1. dinode[i].nlink \in Nat
      BY <1>2 DEF TypeOK
    <3>2. Owed(p, i)' = 0 /\ Owed(p, i) = IF i = j THEN 1 ELSE 0
      BY <1>6, <2>1 DEF Owed, Frac
    <3> QED
      BY <1>7, <1>10, <3>1, <3>2
  <2>3. ASSUME NEW i \in Inums, dinode[i].type = "dir"
        PROVE  dinode[i].nlink + Frac(p \in Unlinkers(i)') = dinode'[i].nlink + Frac(p \in Unlinkers(i))
    <3>1. dinode'[i] = dinode[i]
      BY <1>2, <1>5, <1>10, <2>3
    <3>2. Frac(p \in Unlinkers(i)') = 0 /\ Frac(p \in Unlinkers(i)) = 0
      BY <1>6, <2>1 DEF Frac
    <3> QED
      BY <3>1, <3>2
  <2> QED
    BY <1>8, <1>16, <1>17, <2>1, <2>2, <2>3, CountedSame
<1>21. NoLoops'
  BY <1>8 DEF IInv, NoLoops
<1> QED
  BY <1>16, <1>17, <1>18, <1>19, <1>20, <1>21, DiskInv

\* iget of the root changes the root's count alone.
LEMMA GetRoot ==
    ASSUME IInv, NEW c, Fresh(c), NEW d, d = IGet(c, ROOTINO)
    PROVE  /\ d \in Caches /\ \A t \in Slots : t # ROOT => d[t] = c[t]
           /\ d[ROOT].inum = c[ROOT].inum /\ d[ROOT].ref = c[ROOT].ref + 1
           /\ d[ROOT].valid = c[ROOT].valid /\ d[ROOT].type = c[ROOT].type
           /\ d[ROOT].nlink = c[ROOT].nlink
<1>1. SlotOf(c, ROOTINO) = ROOT /\ c \in Caches /\ Apart(c) /\ ROOTINO \in Inums /\ ROOT \in Slots
  BY RootSlot, FreshApart, Constants DEF IInv, Fresh
<1>2. Got(c, d, ROOT, ROOTINO)
  BY <1>1, IGetIs
<1>3. c[ROOT].inum = ROOTINO
  BY <1>1 DEF Fresh, IInv, SlotsApart, Inum
<1> QED
  BY <1>1, <1>2, <1>3 DEF Got

LEMMA LinkIncFileKeeps ==
    ASSUME IInv, NEW p \in Procs, LinkInc(p), Load(icache, loc[p].ip)[loc[p].ip].type # "dir",
           SetLinks(IGet(Load(icache, loc[p].ip), ROOTINO), dinode, loc[p].ip,
                    OneMore(Load(icache, loc[p].ip)[loc[p].ip].nlink)),
           Step(p, "walk", [Walk(loc[p], loc[p].new, TRUE, 2) EXCEPT !.new = <<>>])
    PROVE  IInv'
<1>1. PICK r \in CallRecs, k \in Slots : r = loc[p] /\ k = r.ip
  BY Caller DEF ShapeOf, LinkInc, At, Label, Putting
<1>2. /\ TypeOK /\ ShapeOf(p) /\ pc[p] = "linkinc" /\ Label(p) = "linkinc" /\ ~Linking(p)
      /\ r.at = 0 /\ r.dp = 0 /\ r.put = 0 /\ r.ret = "idle" /\ r.op = "link" /\ r.phase = 1
      /\ r.new \in Paths /\ Inum(k) \in Inums /\ dinode[Inum(k)].type # "free" /\ k # 0
      /\ lock[k] = Nobody
  <2>1. /\ TypeOK /\ ShapeOf(p) /\ pc[p] = "linkinc" /\ Inum(k) \in Inums
        /\ dinode[Inum(k)].type # "free" /\ k # 0 /\ lock[k] = Nobody
    BY <1>1, Caller, Constants DEF LinkInc, At
  <2>2. Label(p) = "linkinc"
    BY <2>1 DEF Label, Putting
  <2> QED
    BY <1>1, <2>1, <2>2 DEF ShapeOf, Linking, Putting
<1>3. \A s \in Slots : ~Holds(p, s)
  BY <1>2 DEF Holds, HoldsPut, HoldsDp, HoldsIp
<1>4. ~Freeing(k)
  BY <1>2, NotFreeing
<1>5. PICK j \in Inums : j = Inum(k)
  BY <1>2
<1>6. PICK c : c = Load(icache, k)
  OBVIOUS
<1>7. /\ Fresh(c) /\ c[k].valid /\ \A t \in Slots : t # k => c[t] = icache[t]
      /\ c[k].type = dinode[j].type /\ c[k].nlink = dinode[j].nlink
  BY <1>2, <1>4, <1>5, <1>6, LoadIs, LoadedIs
<1>8. dinode[j].type = "file"
  <2>1. dinode[j].type \in {"free", "file", "dir"}
    BY <1>2 DEF TypeOK, Types
  <2> QED
    BY <1>1, <1>2, <1>5, <1>6, <1>7, <2>1
<1>9. k # ROOT /\ j # ROOTINO /\ ROOT \in Slots /\ ROOTINO \in Inums /\ Inum(ROOT) = ROOTINO
  BY <1>5, <1>8, Constants DEF IInv, SlotsApart, Alive
<1>10. PICK d : d = IGet(c, ROOTINO)
  OBVIOUS
<1>11. /\ d \in Caches /\ \A t \in Slots : t # ROOT => d[t] = c[t]
       /\ d[ROOT].inum = c[ROOT].inum /\ d[ROOT].ref = c[ROOT].ref + 1
       /\ d[ROOT].valid = c[ROOT].valid /\ d[ROOT].type = c[ROOT].type
       /\ d[ROOT].nlink = c[ROOT].nlink
  BY <1>7, <1>10, GetRoot
<1>12. PICK u \in Nat : u = dinode[j].nlink + 1
  BY <1>2 DEF TypeOK
<1>13. /\ ents' = ents /\ fd' = fd /\ leaked' = leaked /\ panicked' = panicked
       /\ overlap' = overlap /\ calls' = calls /\ lock' = lock
  BY DEF LinkInc
<1>14. icache' = Linked(d, k, u) /\ dinode' = Linked(dinode, j, u)
  <2>1. d[k].inum = j /\ OneMore(c[k].nlink) = u
    BY <1>5, <1>7, <1>9, <1>11, <1>12 DEF Fresh, Inum, OneMore
  <2>2. SetLinks(d, dinode, k, u)
    BY <1>1, <1>6, <1>10, <2>1
  <2> QED
    BY <2>1, <2>2 DEF SetLinks, Linked
<1>15. /\ icache' \in Caches /\ \A t \in Slots : t # k => icache'[t] = d[t]
       /\ icache'[k].nlink = u /\ icache'[k].inum = d[k].inum /\ icache'[k].ref = d[k].ref
       /\ icache'[k].valid = d[k].valid /\ icache'[k].type = d[k].type
  BY <1>11, <1>14, LinksWritten
<1>16. PICK di \in Dinodes : di = dinode
  BY <1>2 DEF TypeOK, Dinodes
<1>17. /\ dinode' \in Dinodes /\ \A a \in Inums : a # j => dinode'[a] = di[a]
       /\ dinode'[j].nlink = u /\ dinode'[j].type = di[j].type
  <2>1. dinode' = Linked(di, j, u)
    BY <1>14, <1>16
  <2> QED
    BY <2>1, DinodeWritten
<1>18. /\ \A t \in Slots : t # k /\ t # ROOT => icache'[t] = icache[t]
       /\ icache'[k].nlink = u /\ icache'[k].inum = j /\ icache'[k].ref = icache[k].ref
       /\ icache'[k].valid /\ icache'[k].type = dinode[j].type
       /\ icache'[ROOT].inum = icache[ROOT].inum /\ icache'[ROOT].ref = icache[ROOT].ref + 1
       /\ icache'[ROOT].valid = icache[ROOT].valid /\ icache'[ROOT].type = icache[ROOT].type
       /\ icache'[ROOT].nlink = icache[ROOT].nlink
  <2>1. c[k].inum = icache[k].inum /\ c[k].ref = icache[k].ref
    BY <1>7 DEF Fresh
  <2> QED
    BY <1>5, <1>7, <1>9, <1>11, <1>15, <2>1 DEF Inum
<1>19. PICK m : m = Walk(r, r.new, TRUE, 2)
  OBVIOUS
<1>20. PICK n : n = [m EXCEPT !.new = <<>>]
  OBVIOUS
<1>21. /\ m \in CallRecs /\ m.op = r.op /\ m.old = r.old
       /\ m.rest # <<>> /\ m.par = TRUE /\ m.phase = 2 /\ m.at = ROOT
       /\ m.dp = r.dp /\ m.ip = r.ip /\ m.put = r.put /\ m.ret = r.ret
  <2>1. PICK b \in BOOLEAN : b = TRUE
    OBVIOUS
  <2>2. PICK ph \in 1 .. 3 : ph = 2
    OBVIOUS
  <2>3. PICK path \in Paths : path = r.new
    BY <1>2
  <2>4. m = Walk(r, path, b, ph)
    BY <1>19, <2>1, <2>2, <2>3
  <2>5. /\ m \in CallRecs /\ m.op = r.op /\ m.old = r.old
        /\ m.rest # <<>> /\ m.par = b /\ m.phase = ph /\ m.at = ROOT
        /\ m.dp = r.dp /\ m.ip = r.ip /\ m.put = r.put /\ m.ret = r.ret
    BY <2>4, WalkIs
  <2> QED
    BY <2>1, <2>2, <2>5
<1>22. /\ n \in CallRecs /\ n.op = "link" /\ n.rest # <<>> /\ n.par = TRUE /\ n.phase = 2
       /\ n.at = ROOT /\ n.dp = 0 /\ n.ip = k /\ n.put = 0 /\ n.ret = "idle"
  BY <1>1, <1>2, <1>20, <1>21 DEF CallRecs
<1>23. Step(p, "walk", n) /\ "walk" \in PCs
  BY <1>1, <1>19, <1>20 DEF PCs
<1>24. /\ pc' \in [Procs -> PCs] /\ loc' \in [Procs -> CallRecs] /\ pc'[p] = "walk" /\ loc'[p] = n
       /\ \A q \in Procs : q # p => pc'[q] = pc[q] /\ loc'[q] = loc[q]
  BY <1>2, <1>22, <1>23, StepIs
<1>25. Label(p)' = "walk" /\ Linking(p)'
  BY <1>22, <1>24 DEF Label, Linking, Putting
<1>26. ShapeOf(p)'
  BY <1>2, <1>22, <1>24, <1>25, Constants DEF ShapeOf, Putting, Creating, Unlinking, ForParent
<1>27. NamedOf(p)' /\ OwnLocks(p)'
  BY <1>25 DEF NamedOf, OwnLocks, HoldsDp, HoldsIp
<1>28. LockMoves(p)
  <2>1. \A s \in Slots : ~Holds(p, s)'
    BY <1>24, <1>25 DEF Holds, HoldsPut, HoldsDp, HoldsIp
  <2> QED
    BY <1>3, <1>13, <2>1, LockKept
<1>29. TypeOK'
  BY <1>2, <1>13, <1>15, <1>17, <1>24 DEF TypeOK, Caches, SlotRec, Dinodes
<1>30. icache[ROOT].ref \in Nat /\ \A t \in Slots : t # k /\ Inum(t) \in Inums => Inum(t) # j
  BY <1>2, <1>5, <1>9, SameSlot DEF TypeOK, IInv
<1>31. DiskStep(p)
  <2>1. fd' = fd /\ leaked' = leaked /\ overlap' = overlap /\ Others(p)
    BY <1>13, <1>24 DEF Others
  <2>2. \A t \in Slots :
          /\ icache'[t].inum = icache[t].inum
          /\ icache'[t].ref = icache[t].ref \/ (t = ROOT /\ icache'[t].ref > 0)
          /\ icache[t].valid => icache'[t].valid
          /\ icache'[t].valid /\ ~icache[t].valid => t \in {loc[p].ip, loc[p].dp}
          /\ icache'[t].nlink # icache[t].nlink => lock[t] \in {Nobody, p}
          /\ Inum(t) \in Inums /\ dinode[Inum(t)].nlink > 0 =>
                icache'[t].valid \/ dinode'[Inum(t)].nlink > 0
          /\ t \in {loc'[p].at, loc'[p].ip, loc'[p].put} =>
                icache'[t].valid \/ dinode'[Inum(t)].nlink > 0
    <3> SUFFICES ASSUME NEW t \in Slots
                 PROVE  /\ icache'[t].inum = icache[t].inum
                        /\ icache'[t].ref = icache[t].ref \/ (t = ROOT /\ icache'[t].ref > 0)
                        /\ icache[t].valid => icache'[t].valid
                        /\ icache'[t].valid /\ ~icache[t].valid => t = loc[p].ip
                        /\ icache'[t].nlink # icache[t].nlink => lock[t] \in {Nobody, p}
                        /\ Inum(t) \in Inums /\ dinode[Inum(t)].nlink > 0 =>
                              icache'[t].valid \/ dinode'[Inum(t)].nlink > 0
                        /\ t \in {loc'[p].at, loc'[p].ip, loc'[p].put} =>
                              icache'[t].valid \/ dinode'[Inum(t)].nlink > 0
      OBVIOUS
    <3>1. CASE t = k
      BY <1>1, <1>2, <1>5, <1>18, <3>1 DEF Inum
    <3>2. CASE t = ROOT
      <4>1. Inum(t) = ROOTINO /\ dinode'[ROOTINO] = dinode[ROOTINO] /\ dinode[ROOTINO].nlink > 0
        BY <1>9, <1>16, <1>17, <3>2, RootLinked
      <4>2. icache'[t].ref > 0
        BY <1>18, <1>30, <3>2
      <4> QED
        BY <1>18, <3>2, <4>1, <4>2
    <3>3. CASE t # k /\ t # ROOT
      <4>1. t # 0 /\ icache'[t] = icache[t]
        BY <1>18, <3>3, Constants
      <4>2. Inum(t) \in Inums => dinode'[Inum(t)] = dinode[Inum(t)]
        BY <1>16, <1>17, <1>30, <3>3
      <4>3. t \notin {loc'[p].at, loc'[p].ip, loc'[p].put}
        BY <1>22, <1>24, <3>3, <4>1
      <4> QED
        BY <4>1, <4>2, <4>3
    <3> QED
      BY <3>1, <3>2, <3>3
  <2>3. \A i \in Inums :
          /\ dinode'[i].type = dinode[i].type
          /\ dinode'[i].nlink # dinode[i].nlink =>
                \E s \in Slots : s \in {loc[p].dp, loc[p].ip} /\ Inum(s) = i
          /\ dinode'[i].nlink = 0 => \/ dinode[i].nlink = 0
                                     \/ \E s \in Slots : /\ s = loc'[p].put /\ Inum(s) = i
                                                         /\ pc'[p] = "iput"
    <3> SUFFICES ASSUME NEW i \in Inums
                 PROVE  /\ dinode'[i].type = dinode[i].type
                        /\ dinode'[i].nlink # dinode[i].nlink =>
                              \E s \in Slots : s \in {loc[p].dp, loc[p].ip} /\ Inum(s) = i
                        /\ dinode'[i].nlink = 0 => dinode[i].nlink = 0
      OBVIOUS
    <3>1. CASE i = j
      <4>1. u # 0
        BY <1>2, <1>12 DEF TypeOK
      <4> QED
        BY <1>1, <1>5, <1>16, <1>17, <3>1, <4>1
    <3>2. CASE i # j
      BY <1>16, <1>17, <3>2
    <3> QED
      BY <3>1, <3>2
  <2>4. pc[p] \notin Putting /\ pc'[p] \in {"iput", "walk"} /\ pc[p] # "createinit"
    BY <1>2, <1>24 DEF Putting
  <2>5. /\ loc'[p].dp = 0
        /\ {loc'[p].at, loc'[p].ip, loc'[p].put} \subseteq {0, ROOT, loc[p].dp, loc[p].ip}
        /\ {loc[p].at, loc[p].dp, loc[p].ip} \subseteq
              {0, loc'[p].ip, IF pc'[p] = "iput" THEN loc'[p].put ELSE 0}
    BY <1>1, <1>2, <1>22, <1>24
  <2>6. dinode[Inum(loc[p].ip)'].type = "file"
    BY <1>1, <1>8, <1>18, <1>22, <1>24 DEF Inum
  <2> QED
    BY <1>13, <1>26, <1>27, <1>28, <2>1, <2>2, <2>3, <2>4, <2>5, <2>6 DEF DiskStep
<1>32. RefsExact'
  <2>1. Moved(loc[p], loc'[p], ROOT, 0)
    BY <1>1, <1>2, <1>22, <1>24, Constants DEF Moved, Frac
  <2>2. ASSUME NEW t \in Slots
        PROVE  icache'[t].ref = icache[t].ref + Frac(t = ROOT)
    <3>1. icache[t].ref \in Nat
      BY <1>2 DEF TypeOK
    <3>2. t # ROOT => icache'[t].ref = icache[t].ref
      BY <1>18
    <3>3. Frac(t = ROOT) = IF t = ROOT THEN 1 ELSE 0
      BY DEF Frac
    <3> QED
      BY <1>18, <3>1, <3>2, <3>3
  <2> QED
    BY <1>29, <1>31, <2>1, <2>2, DiskRefs
<1>33. Coherent'
  <2>1. /\ icache'[k].nlink = dinode'[j].nlink /\ icache'[k].type = dinode'[j].type
        /\ \A t \in Slots : t # k => /\ icache'[t].valid => icache[t].valid
                                     /\ icache'[t].nlink = icache[t].nlink
                                     /\ icache'[t].type = icache[t].type
    BY <1>16, <1>17, <1>18
  <2>2. \A t \in Slots : t # k /\ Inum(t) \in Inums => dinode'[Inum(t)] = dinode[Inum(t)]
    BY <1>16, <1>17, <1>30
  <2> QED
    BY <1>5, <1>31, <2>1, <2>2, CoherentWith
<1>34. Counted'
  <2>1. /\ \A i \in Inums : p \notin Unlinkers(i)' /\ p \notin Unlinkers(i) /\ p \notin Linkers(i)
        /\ \A i \in Inums : p \in Linkers(i)' <=> i = j
    BY <1>2, <1>18, <1>22, <1>24, <1>25 DEF Linkers, Unlinkers, Inum
  <2>2. ASSUME NEW i \in Inums
        PROVE  dinode[i].nlink + Owed(p, i)' <= dinode'[i].nlink + Owed(p, i)
    <3>1. dinode[i].nlink \in Nat
      BY <1>2 DEF TypeOK
    <3>2. Owed(p, i) = 0 /\ Owed(p, i)' = IF i = j THEN 1 ELSE 0
      BY <2>1 DEF Owed, Frac
    <3>3. dinode'[i].nlink = IF i = j THEN dinode[i].nlink + 1 ELSE dinode[i].nlink
      BY <1>12, <1>16, <1>17
    <3> QED
      BY <3>1, <3>2, <3>3
  <2>3. ASSUME NEW i \in Inums, dinode[i].type = "dir"
        PROVE  /\ dinode[i].nlink + Frac(p \in Unlinkers(i)') = dinode'[i].nlink + Frac(p \in Unlinkers(i))
               /\ p \in Unlinkers(i)' => p \in Unlinkers(i)
    <3>1. dinode'[i] = dinode[i]
      BY <1>8, <1>16, <1>17, <2>3
    <3>2. Frac(p \in Unlinkers(i)') = 0 /\ Frac(p \in Unlinkers(i)) = 0
      BY <2>1 DEF Frac
    <3> QED
      BY <2>1, <3>1, <3>2
  <2> QED
    BY <1>13, <1>29, <1>31, <2>2, <2>3, CountedSame
<1>35. NoLoops'
  BY <1>13 DEF IInv, NoLoops
<1> QED
  BY <1>29, <1>31, <1>32, <1>33, <1>34, <1>35, DiskInv

\* A slot is right after a step that writes it, or leaves it and its inode.
LEMMA CoherentStep ==
    ASSUME IInv, NEW p \in Procs, DiskStep(p),
           \A t \in Slots : icache'[t].valid /\ Inum(t) \in Inums =>
              \/ /\ icache'[t].nlink = dinode'[Inum(t)].nlink
                 /\ icache'[t].type = dinode'[Inum(t)].type
              \/ /\ icache[t].valid /\ icache'[t].nlink = icache[t].nlink
                 /\ icache'[t].type = icache[t].type /\ dinode'[Inum(t)] = dinode[Inum(t)],
           \A t \in Slots : icache'[t].valid => Inum(t) \in Inums
    PROVE  Coherent'
<1> SUFFICES ASSUME NEW s \in Slots, icache'[s].valid
             PROVE  /\ icache'[s].nlink = dinode'[Inum(s)'].nlink
                    /\ icache'[s].type = dinode'[Inum(s)'].type \/ Freeing(s)'
  BY DEF Coherent
<1>1. Inum(s)' = Inum(s) /\ (Freeing(s) => Freeing(s)') /\ Inum(s) \in Inums
  BY DiskSame
<1>2. CASE icache'[s].nlink = dinode'[Inum(s)].nlink /\ icache'[s].type = dinode'[Inum(s)].type
  BY <1>1, <1>2
<1>3. CASE /\ icache[s].valid /\ icache'[s].nlink = icache[s].nlink
           /\ icache'[s].type = icache[s].type /\ dinode'[Inum(s)] = dinode[Inum(s)]
  <2>1. icache[s].nlink = dinode[Inum(s)].nlink /\ (icache[s].type = dinode[Inum(s)].type \/ Freeing(s))
    BY <1>3 DEF IInv, Coherent
  <2> QED
    BY <1>1, <1>3, <2>1
<1> QED
  BY <1>1, <1>2, <1>3

LEMMA ValidHasInode ==
    ASSUME IInv, NEW t \in Slots, icache[t].valid \/ icache[t].ref # 0
    PROVE  Inum(t) \in Inums /\ icache[t].ref > 0
<1>1. icache[t].ref \in Nat /\ icache[t].inum \in Inums \union {0}
  BY DEF IInv, TypeOK
<1>2. icache[t].ref # 0
  BY DEF IInv, SlotsApart, Apart
<1>3. icache[t].inum # 0
  BY <1>2 DEF IInv, SlotsApart, Apart
<1> QED
  BY <1>1, <1>2, <1>3 DEF Inum

\* No loop comes from an erased entry, nor from one that names an empty directory or a file.
LEMMA NoLoopsStep ==
    ASSUME IInv, NEW e \in Inums, NEW m \in Names, NEW v \in Inums \union {0}, Writes(e, m, v),
           v # 0 => v # e /\ ents[v] = Empty
    PROVE  NoLoops'
<1>1. /\ ents'[e][m] = v
      /\ \A n \in Names : n # m => ents'[e][n] = ents[e][n]
      /\ \A a \in Inums : a # e => ents'[a] = ents[a]
  BY EntryWritten
<1>2. 0 \notin Inums
  BY Constants
<1>3. \A i \in Inums, n \in Names : ents[i][n] # i
  BY DEF IInv, NoLoops
<1>4. \A i, j \in Inums, a, b \in Names : ~(ents[i][a] = j /\ ents[j][b] = i)
  BY DEF IInv, NoLoops
<1>5. v # 0 => \A n \in Names : ents'[v][n] = 0
  <2>1. v # 0 => v \in Inums /\ ents'[v] = Empty
    BY <1>1
  <2> QED
    BY <2>1 DEF Empty
<1>6. \A i \in Inums, n \in Names : ents'[i][n] = ents[i][n] \/ (i = e /\ n = m)
  BY <1>1
<1>7. \A i \in Inums, n \in Names : ents'[i][n] # i
  BY <1>1, <1>2, <1>3, <1>6
<1>8. ASSUME NEW i \in Inums, NEW j \in Inums, NEW a \in Names, NEW b \in Names,
             ents'[i][a] = j, ents'[j][b] = i
      PROVE  FALSE
  <2>1. CASE i = e /\ a = m
    BY <1>1, <1>2, <1>5, <1>8, <2>1
  <2>2. CASE j = e /\ b = m
    BY <1>1, <1>2, <1>5, <1>8, <2>2
  <2>3. CASE ~(i = e /\ a = m) /\ ~(j = e /\ b = m)
    BY <1>4, <1>6, <1>8, <2>3
  <2> QED
    BY <2>1, <2>2, <2>3
<1> QED
  BY <1>7, <1>8 DEF NoLoops

\* link writes the entry.
LEMMA LinkWriteKeeps ==
    ASSUME IInv, NEW p \in Procs, pc[p] = "linkentry", lock[loc[p].dp] = Nobody,
           ents[Inum(loc[p].dp)][Name(p)] = 0, icache' = Load(icache, loc[p].dp),
           Writes(Inum(loc[p].dp), Name(p), Inum(loc[p].ip)),
           dinode' = dinode, fd' = fd, leaked' = leaked, panicked' = panicked,
           overlap' = overlap, calls' = calls, lock' = lock,
           Step(p, "iput", Put(loc[p], "dp", "putip"))
    PROVE  IInv'
<1>1. /\ Label(p) = "linkentry" /\ Linking(p) /\ TypeOK /\ ShapeOf(p)
      /\ loc[p] \in CallRecs /\ loc[p].dp \in Slots /\ Inum(loc[p].dp) \in Inums
      /\ icache[loc[p].dp].ref > 0 /\ dinode[Inum(loc[p].dp)].type = "dir"
      /\ loc[p].at = 0 /\ loc[p].put = 0 /\ loc[p].ret = "idle" /\ loc[p].ip # 0
      /\ Name(p) \in Names /\ \A s \in Slots : ~Holds(p, s)
  BY InParent
<1>2. PICK r \in CallRecs, d \in Slots, e \in Inums, m \in Names :
         r = loc[p] /\ d = r.dp /\ e = Inum(d) /\ m = Name(p)
  BY <1>1
<1>3. loc[p].ip \in Slots /\ Inum(loc[p].ip) \in Inums
  BY <1>1, Caller
<1>4. PICK k \in Slots, j \in Inums : k = r.ip /\ j = Inum(k)
  BY <1>2, <1>3
<1>5. dinode[j].type = "file" /\ dinode[e].type = "dir" /\ j # e /\ ents[j] = Empty
  <2>1. dinode[j].type = "file"
    BY <1>1, <1>2, <1>4 DEF IInv, Alive
  <2> QED
    BY <1>1, <1>2, <2>1 DEF IInv, Alive
<1>6. /\ r.at = 0 /\ r.put = 0 /\ r.op = "link" /\ r.phase = 2 /\ d # 0 /\ k # 0
      /\ r.ret = "idle" /\ d # k
  BY <1>1, <1>2, <1>4, <1>5, Constants DEF ShapeOf
<1>7. /\ p \in Linkers(j) /\ \A i \in Inums : i # j => p \notin Linkers(i)
      /\ \A i \in Inums : p \notin Unlinkers(i)
  BY <1>1, <1>2, <1>4 DEF Unlinkers, Linkers
<1>8. dinode[j].nlink > 0
  BY <1>5, <1>7, OwedCounts
<1>9. /\ Fresh(icache') /\ icache'[d].valid
      /\ \A t \in Slots : t # d => icache'[t] = icache[t]
  BY <1>2, <1>5, LoadIs DEF IInv
<1>10. icache' \in Caches
  BY <1>9 DEF Fresh
<1>11. Writes(e, m, j) /\ ents[e][m] = 0
  BY <1>2, <1>4
<1>12. PICK n : n = Put(r, "dp", "putip")
  OBVIOUS
<1>13. Onward(r, n, 0, 0, k, d, "putip")
  <2>1. PICK ret \in PCs \union {"putip"} : ret = "putip"
    OBVIOUS
  <2>2. n = Put(r, "dp", ret) /\ ret # "idle"
    BY <1>12, <2>1
  <2>3. Onward(r, Put(r, "dp", ret), r.at, 0, r.ip, r.dp, ret)
    BY <2>2, PutOnward
  <2> QED
    BY <1>2, <1>4, <1>6, <2>1, <2>2, <2>3
<1>14. /\ n \in CallRecs /\ n.op = "link" /\ n.phase = 2 /\ n.at = 0 /\ n.dp = 0 /\ n.ip = k
       /\ n.put = d /\ n.ret = "putip"
  BY <1>6, <1>13 DEF Onward
<1>15. Step(p, "iput", n) /\ "iput" \in PCs
  BY <1>2, <1>12 DEF PCs
<1>16. /\ pc' \in [Procs -> PCs] /\ loc' \in [Procs -> CallRecs] /\ pc'[p] = "iput" /\ loc'[p] = n
       /\ \A q \in Procs : q # p => pc'[q] = pc[q] /\ loc'[q] = loc[q]
  BY <1>1, <1>14, <1>15, StepIs
<1>17. Label(p)' = "putip" /\ ~Linking(p)'
  BY <1>14, <1>16 DEF Label, Linking, Putting
<1>18. ShapeOf(p)'
  BY <1>6, <1>14, <1>16, <1>17 DEF ShapeOf, Putting, Creating, Unlinking
<1>19. NamedOf(p)' /\ OwnLocks(p)'
  BY <1>17 DEF NamedOf, OwnLocks, HoldsDp, HoldsIp
<1>20. LockMoves(p)
  <2>1. \A s \in Slots : ~Holds(p, s)'
    BY <1>16, <1>17 DEF Holds, HoldsPut, HoldsDp, HoldsIp
  <2> QED
    BY <1>1, <2>1, LockKept
<1>21. TypeOK'
  <2>1. ents' \in [Inums -> [Names -> Inums \union {0}]]
    BY <1>11, EntryWritten
  <2> QED
    BY <1>1, <1>10, <1>16, <2>1 DEF TypeOK, Caches, SlotRec
<1>22. /\ ents'[e][m] = j
       /\ \A a \in Inums, b \in Names : ents'[a][b] # ents[a][b] => a = e /\ b = m
  BY <1>11, EntryWritten
<1>23. DiskStep(p)
  <2>1. fd' = fd /\ leaked' = leaked /\ overlap' = overlap /\ Others(p)
    BY <1>16 DEF Others
  <2>2. \A t \in Slots :
          /\ icache'[t].inum = icache[t].inum
          /\ icache'[t].ref = icache[t].ref \/ (t = ROOT /\ icache'[t].ref > 0)
          /\ icache[t].valid => icache'[t].valid
          /\ icache'[t].valid /\ ~icache[t].valid => t \in {loc[p].ip, loc[p].dp}
          /\ icache'[t].nlink # icache[t].nlink => lock[t] \in {Nobody, p}
          /\ Inum(t) \in Inums /\ dinode[Inum(t)].nlink > 0 =>
                icache'[t].valid \/ dinode'[Inum(t)].nlink > 0
          /\ t \in {loc'[p].at, loc'[p].ip, loc'[p].put} =>
                icache'[t].valid \/ dinode'[Inum(t)].nlink > 0
    <3> SUFFICES ASSUME NEW t \in Slots
                 PROVE  /\ icache'[t].inum = icache[t].inum
                        /\ icache'[t].ref = icache[t].ref
                        /\ icache[t].valid => icache'[t].valid
                        /\ icache'[t].valid /\ ~icache[t].valid => t \in {loc[p].ip, loc[p].dp}
                        /\ icache'[t].nlink # icache[t].nlink => lock[t] \in {Nobody, p}
                        /\ t \in {loc'[p].at, loc'[p].ip, loc'[p].put} =>
                              icache'[t].valid \/ dinode'[Inum(t)].nlink > 0
      OBVIOUS
    <3>1. /\ icache'[t].inum = icache[t].inum /\ icache'[t].ref = icache[t].ref
          /\ icache[t].valid => icache'[t].valid
      BY <1>9 DEF Fresh
    <3>2. t # d => icache'[t] = icache[t]
      BY <1>9
    <3>3. t \in {loc'[p].at, loc'[p].ip, loc'[p].put} => icache'[t].valid \/ dinode'[Inum(t)].nlink > 0
      <4>1. t # 0
        BY Constants
      <4> QED
        BY <1>4, <1>8, <1>9, <1>14, <1>16, <4>1
    <3> QED
      BY <1>2, <3>1, <3>2, <3>3
  <2>3. \A a \in Inums, b \in Names : ents'[a][b] # ents[a][b] =>
          /\ \E s \in Slots : s = loc[p].dp /\ Inum(s) = a /\ lock[s] \in {Nobody, p}
          /\ ents'[a][b] = 0 \/ \E s \in Slots : s = loc[p].ip /\ ents'[a][b] = Inum(s)
    BY <1>2, <1>4, <1>22
  <2>4. pc[p] \notin Putting /\ pc'[p] \in {"iput", "walk"} /\ pc[p] # "createinit"
    BY <1>16 DEF Putting
  <2>5. /\ loc'[p].dp = 0
        /\ {loc'[p].at, loc'[p].ip, loc'[p].put} \subseteq {0, ROOT, loc[p].dp, loc[p].ip}
        /\ {loc[p].at, loc[p].dp, loc[p].ip} \subseteq
              {0, loc'[p].ip, IF pc'[p] = "iput" THEN loc'[p].put ELSE 0}
    BY <1>2, <1>4, <1>6, <1>14, <1>16
  <2> QED
    BY <1>17, <1>18, <1>19, <1>20, <2>1, <2>2, <2>3, <2>4, <2>5 DEF DiskStep
<1>24. RefsExact'
  <2>1. Moved(loc[p], loc'[p], 0, 0)
    BY <1>2, <1>4, <1>6, <1>14, <1>16, Constants DEF Moved, Frac
  <2>2. ASSUME NEW t \in Slots
        PROVE  icache'[t].ref = icache[t].ref + Frac(t = 0)
    <3>1. icache[t].ref \in Nat /\ Frac(t = 0) = 0
      BY <1>1, Constants DEF Frac, TypeOK
    <3>2. icache'[t].ref = icache[t].ref
      BY <1>9 DEF Fresh
    <3> QED
      BY <3>1, <3>2
  <2> QED
    BY <1>21, <1>23, <2>1, <2>2, DiskRefs
<1>25. Coherent'
  <2>1. \A t \in Slots : icache'[t].valid => Inum(t) \in Inums
    BY <1>2, <1>9, ValidHasInode
  <2>2. icache'[d].nlink = dinode[e].nlink /\ icache'[d].type = dinode[e].type
    <3>1. ~Freeing(d)
      BY <1>2, NotFreeing
    <3> QED
      BY <1>2, <1>5, <3>1, LoadedIs
  <2> QED
    BY <1>2, <1>9, <1>23, <2>1, <2>2, CoherentStep
<1>26. Counted'
  <2>1. \A i \in Inums : p \notin Linkers(i)' /\ p \notin Unlinkers(i)'
    BY <1>17 DEF Linkers, Unlinkers
  <2>2. PICK o : o = ents[e][m]
    OBVIOUS
  <2>3. ASSUME NEW i \in Inums
        PROVE  /\ dinode[i].nlink \in Nat /\ Frac(o = i) = 0 /\ Frac(j = i) = Owed(p, i)
               /\ Owed(p, i)' = 0 /\ Owed(p, i) \in Nat
               /\ Frac(p \in Unlinkers(i)') = 0 /\ Frac(p \in Unlinkers(i)) = 0
    <3>1. dinode[i].nlink \in Nat
      BY <1>1 DEF TypeOK
    <3>2. o # i
      BY <1>11, <2>2, Constants
    <3>3. Frac(o = i) = 0
      BY <3>2 DEF Frac
    <3>4. Owed(p, i) = IF i = j THEN 1 ELSE 0
      BY <1>7 DEF Owed, Frac
    <3>5. Frac(j = i) = IF i = j THEN 1 ELSE 0
      BY DEF Frac
    <3>6. /\ Owed(p, i)' = 0 /\ Frac(p \in Unlinkers(i)') = 0
          /\ Frac(p \in Unlinkers(i)) = 0
      BY <1>7, <2>1 DEF Owed, Frac
    <3> QED
      BY <3>1, <3>3, <3>4, <3>5, <3>6
  <2>4. ASSUME NEW i \in Inums
        PROVE  dinode[i].nlink + Owed(p, i)' + Frac(j = i) <= dinode'[i].nlink + Owed(p, i) + Frac(o = i)
    BY <2>3
  <2>5. ASSUME NEW i \in Inums, dinode[i].type = "dir"
        PROVE  /\ Up(i) + Frac(p \in Unlinkers(i)') + Frac(j = i)
                    <= 1 + Frac(p \in Unlinkers(i)) + Frac(o = i)
               /\ dinode[i].nlink + Frac(p \in Unlinkers(i)') + Frac(j = i)
                    + Frac(i = e /\ j # 0 /\ dinode[j].type = "dir")
                  = dinode'[i].nlink + Frac(p \in Unlinkers(i)) + Frac(o = i)
                    + Frac(i = e /\ o # 0 /\ dinode[o].type = "dir")
    <3>1. Frac(j = i) = 0 /\ Frac(i = e /\ j # 0 /\ dinode[j].type = "dir") = 0
      BY <1>5, <2>5 DEF Frac
    <3>2. Frac(i = e /\ o # 0 /\ dinode[o].type = "dir") = 0
      BY <1>11, <2>2 DEF Frac
    <3>3. Up(i) <= 1 /\ Up(i) \in Nat
      BY <2>5, CallsFinite, EntriesFinite DEF IInv, Counted, DirCounted, Up, Frac
    <3> QED
      BY <2>3, <3>1, <3>2, <3>3
  <2> QED
    BY <1>11, <1>21, <1>23, <2>2, <2>4, <2>5, CountedStep
<1>27. NoLoops'
  BY <1>5, <1>11, NoLoopsStep
<1> QED
  BY <1>21, <1>23, <1>24, <1>25, <1>26, <1>27, DiskInv

\* A call lets the lock of one slot go and takes that of another.
SwapsLocks(p, d, k) ==
    /\ d # k /\ lock[k] = Nobody /\ lock'[d] = Nobody /\ lock'[k] = p
    /\ \A s \in Slots \ {d, k} : lock'[s] = lock[s]
    /\ \A s \in Slots : (Holds(p, s) <=> s = d) /\ (Holds(p, s)' <=> s = k)
    /\ icache'[k].valid

LEMMA LockSwapped ==
    ASSUME IInv, NEW p \in Procs, NEW d \in Slots, NEW k \in Slots, SwapsLocks(p, d, k)
    PROVE  LockMoves(p)
<1>0. /\ d # k /\ lock[k] = Nobody /\ lock'[d] = Nobody /\ lock'[k] = p
      /\ \A s \in Slots \ {d, k} : lock'[s] = lock[s]
      /\ \A s \in Slots : (Holds(p, s) <=> s = d) /\ (Holds(p, s)' <=> s = k)
      /\ icache'[k].valid
  BY DEF SwapsLocks
<1>1. lock[d] = p /\ \A s \in Slots : s # d => lock[s] # p
  BY <1>0 DEF IInv, Locks
<1>2. p # Nobody /\ \A q \in Procs : q # Nobody
  BY Constants
<1> SUFFICES ASSUME NEW s \in Slots
             PROVE  /\ lock'[s] = p <=> Holds(p, s)'
                    /\ \A q \in Procs : q # p => (lock'[s] = q <=> lock[s] = q)
                    /\ lock'[s] # Nobody => lock[s] # Nobody \/ icache'[s].valid
  BY DEF LockMoves
<1>3. CASE s = d
  BY <1>0, <1>1, <1>2, <1>3
<1>4. CASE s = k
  BY <1>0, <1>1, <1>2, <1>4
<1>5. CASE s # d /\ s # k
  BY <1>0, <1>1, <1>2, <1>5
<1> QED
  BY <1>3, <1>4, <1>5

\* The links of the directory that keep an erased name's ".." or not.
UpLeft(c, d, k) == IF c[k].type = "dir" THEN c[d].nlink - 1 ELSE c[d].nlink

\* unlink erases the entry and, for a directory, the link its ".." was.
LEMMA UnlinkEraseKeeps ==
    ASSUME IInv, NEW p \in Procs, pc[p] = "unlinkip", lock[loc[p].ip] = Nobody,
           ~(Load(icache, loc[p].ip)[loc[p].ip].type = "dir" /\ ents[Inum(loc[p].ip)] # Empty),
           Writes(Inum(loc[p].dp), Name(p), 0),
           icache' = Linked(Load(icache, loc[p].ip), loc[p].dp,
                            UpLeft(Load(icache, loc[p].ip), loc[p].dp, loc[p].ip)),
           Load(icache, loc[p].ip)[loc[p].ip].type = "dir" =>
              dinode' = Linked(dinode, Inum(loc[p].dp),
                               UpLeft(Load(icache, loc[p].ip), loc[p].dp, loc[p].ip)),
           Load(icache, loc[p].ip)[loc[p].ip].type # "dir" => dinode' = dinode,
           lock' = [lock EXCEPT ![loc[p].dp] = Nobody, ![loc[p].ip] = p],
           fd' = fd, leaked' = leaked, panicked' = panicked, overlap' = overlap, calls' = calls,
           Step(p, "iput", Put(loc[p], "dp", "unlinkdec"))
    PROVE  IInv'
<1>1. PICK r \in CallRecs, d \in Slots, k \in Slots, m \in Names :
         r = loc[p] /\ d = r.dp /\ k = r.ip /\ m = Name(p)
  BY AtUnlinkIp
<1>2. /\ Label(p) = "unlinkip" /\ ~Linking(p) /\ TypeOK /\ ShapeOf(p) /\ d # 0 /\ k # 0
      /\ Inum(d) \in Inums /\ Inum(k) \in Inums
      /\ dinode[Inum(d)].type = "dir" /\ r.at = 0 /\ r.put = 0 /\ r.ret = "idle"
      /\ r.op = "unlink" /\ ents[Inum(d)][m] = Inum(k) /\ k # d
      /\ \A s \in Slots : Holds(p, s) <=> s = d
      /\ lock[d] = p /\ icache[d].valid
  BY <1>1, AtUnlinkIp, Constants
<1>3. PICK e \in Inums, j \in Inums : e = Inum(d) /\ j = Inum(k)
  BY <1>2
<1>4. /\ ents[e][m] = j /\ j # e /\ dinode[e].type = "dir" /\ dinode[j].type # "free"
      /\ ~Freeing(k) /\ lock[k] = Nobody
  <2>1. ents[e][m] = j /\ dinode[e].type = "dir" /\ lock[k] = Nobody
    BY <1>1, <1>2, <1>3
  <2>2. j # e
    BY <2>1 DEF IInv, NoLoops
  <2>3. dinode[j].type # "free"
    BY <1>1, <1>2, <1>3, Caller
  <2>4. ~Freeing(k)
    BY <2>1, NotFreeing
  <2> QED
    BY <2>1, <2>2, <2>3, <2>4
<1>30. PICK c : c = Load(icache, k)
  OBVIOUS
<1>5. /\ Fresh(c) /\ c[k].valid /\ c[k].type = dinode[j].type /\ c[k].nlink = dinode[j].nlink
      /\ \A t \in Slots : t # k => c[t] = icache[t]
  BY <1>3, <1>4, <1>30, LoadIs, LoadedIs DEF IInv
<1>6. ~(dinode[j].type = "dir" /\ ents[j] # Empty)
  BY <1>1, <1>3, <1>5, <1>30
<1>7. PICK b \in {0, 1} : b = Frac(dinode[j].type = "dir")
  BY DEF Frac
<1>8. PICK up \in Nat : /\ up = UpLeft(c, d, k) /\ up + b = dinode[e].nlink
                        /\ dinode[e].nlink \in Nat /\ c[d].nlink = dinode[e].nlink
  <2>1. dinode[e].nlink \in Nat /\ c[d].nlink = dinode[e].nlink
    BY <1>2, <1>3, <1>5 DEF IInv, Coherent, TypeOK
  <2>2. dinode[j].type = "dir" => dinode[e].nlink > 0
    <3> SUFFICES ASSUME dinode[j].type = "dir" PROVE dinode[e].nlink > 0
      OBVIOUS
    <3>1. m \in DirKids(e)
      BY <1>4, Constants DEF DirKids
    <3>2. IsFiniteSet(DirKids(e)) /\ Cardinality(DirKids(e)) \in Nat /\ Cardinality(DirKids(e)) # 0
      BY <3>1, CallsFinite, FS_EmptySet
    <3>3. dinode[e].nlink = Cardinality(DirKids(e)) + Up(e)
      BY <1>4 DEF IInv, Counted, DirCounted
    <3>4. Up(e) \in Nat
      BY CallsFinite, EntriesFinite DEF Up, Frac
    <3> QED
      BY <3>2, <3>3, <3>4
  <2>3. UpLeft(c, d, k) = IF dinode[j].type = "dir" THEN dinode[e].nlink - 1 ELSE dinode[e].nlink
    BY <1>5, <2>1 DEF UpLeft
  <2>4. dinode[j].type # "dir" => UpLeft(c, d, k) \in Nat /\ UpLeft(c, d, k) + b = dinode[e].nlink
    BY <1>7, <2>1, <2>3 DEF Frac
  <2>5. dinode[j].type = "dir" => UpLeft(c, d, k) \in Nat /\ UpLeft(c, d, k) + b = dinode[e].nlink
    BY <1>7, <2>1, <2>2, <2>3 DEF Frac
  <2> QED
    BY <2>1, <2>4, <2>5
<1>9. /\ icache' \in Caches /\ \A t \in Slots : t # d => icache'[t] = c[t]
      /\ icache'[d].nlink = up /\ icache'[d].inum = c[d].inum /\ icache'[d].ref = c[d].ref
      /\ icache'[d].valid = c[d].valid /\ icache'[d].type = c[d].type
  <2>1. c \in Caches
    BY <1>5 DEF Fresh
  <2>2. icache' = Linked(c, d, up)
    BY <1>1, <1>8, <1>30
  <2> QED
    BY <1>8, <2>1, <2>2, LinksWritten
<1>10. /\ dinode' \in Dinodes /\ \A a \in Inums : a # e => dinode'[a] = dinode[a]
       /\ dinode'[e].nlink = up /\ dinode'[e].type = dinode[e].type
  <2>1. PICK di \in Dinodes : di = dinode
    BY <1>2 DEF TypeOK, Dinodes
  <2>2. CASE dinode[j].type = "dir"
    <3>1. dinode' = Linked(di, e, up)
      BY <1>1, <1>3, <1>5, <1>8, <1>30, <2>1, <2>2
    <3>2. /\ dinode' \in Dinodes /\ \A a \in Inums : a # e => dinode'[a] = di[a]
          /\ dinode'[e].nlink = up /\ dinode'[e].type = di[e].type
      <4>1. di \in Dinodes /\ e \in Inums /\ up \in Nat
        BY <1>8
      <4> QED
        BY <3>1, <4>1, DinodeWritten
    <3> QED
      BY <2>1, <3>2
  <2>3. CASE dinode[j].type # "dir"
    <3>1. dinode' = dinode
      BY <1>1, <1>5, <1>30, <2>3
    <3>2. up = dinode[e].nlink
      BY <1>5, <1>8, <2>3 DEF UpLeft
    <3> QED
      BY <2>1, <3>1, <3>2
  <2> QED
    BY <2>2, <2>3
<1>11. /\ \A t \in Slots : t # d /\ t # k => icache'[t] = icache[t]
       /\ icache'[k].inum = j /\ icache'[k].ref = icache[k].ref /\ icache'[k].valid
       /\ icache'[k].nlink = dinode[j].nlink /\ icache'[k].type = dinode[j].type
       /\ icache'[d].inum = e /\ icache'[d].ref = icache[d].ref /\ icache'[d].valid
       /\ icache'[d].nlink = up /\ icache'[d].type = icache[d].type
       /\ icache[k].inum = j /\ icache[d].inum = e
  <2>1. c[k].inum = icache[k].inum /\ c[k].ref = icache[k].ref /\ c[d] = icache[d]
    BY <1>2, <1>5 DEF Fresh
  <2>2. icache[k].inum = j /\ icache[d].inum = e
    BY <1>3 DEF Inum
  <2>3. k # d /\ icache[d].valid
    BY <1>2
  <2>4. \A t \in Slots : t # d /\ t # k => icache'[t] = icache[t]
    BY <1>5, <1>9
  <2>5. /\ icache'[k].inum = j /\ icache'[k].ref = icache[k].ref /\ icache'[k].valid
        /\ icache'[k].nlink = dinode[j].nlink /\ icache'[k].type = dinode[j].type
    <3>1. icache'[k] = c[k]
      BY <1>9, <2>3
    <3> QED
      BY <1>5, <2>1, <2>2, <3>1
  <2>6. /\ icache'[d].inum = e /\ icache'[d].ref = icache[d].ref /\ icache'[d].valid
        /\ icache'[d].nlink = up /\ icache'[d].type = icache[d].type
    BY <1>9, <2>1, <2>2, <2>3
  <2> QED
    BY <2>2, <2>4, <2>5, <2>6
<1>12. Writes(e, m, 0)
  BY <1>1, <1>3
<1>13. PICK n : n = Put(r, "dp", "unlinkdec")
  OBVIOUS
<1>14. /\ n \in CallRecs /\ n.op = "unlink" /\ n.phase = r.phase /\ n.at = 0 /\ n.dp = 0 /\ n.ip = k
       /\ n.put = d /\ n.ret = "unlinkdec"
  <2>1. PICK ret \in PCs \union {"putip"} : ret = "unlinkdec"
    BY DEF PCs
  <2>2. Onward(r, Put(r, "dp", ret), r.at, 0, r.ip, r.dp, ret)
    BY <2>1, PutOnward
  <2> QED
    BY <1>1, <1>2, <1>13, <2>1, <2>2 DEF Onward
<1>15. Step(p, "iput", n) /\ "iput" \in PCs
  BY <1>1, <1>13 DEF PCs
<1>16. /\ pc' \in [Procs -> PCs] /\ loc' \in [Procs -> CallRecs] /\ pc'[p] = "iput" /\ loc'[p] = n
       /\ \A q \in Procs : q # p => pc'[q] = pc[q] /\ loc'[q] = loc[q]
  BY <1>2, <1>14, <1>15, StepIs
<1>17. Label(p)' = "unlinkdec" /\ ~Linking(p)'
  BY <1>14, <1>16 DEF Label, Linking, Putting
<1>18. ShapeOf(p)'
  BY <1>1, <1>2, <1>14, <1>16, <1>17 DEF ShapeOf, Putting, Creating, Unlinking
<1>19. NamedOf(p)' /\ OwnLocks(p)'
  BY <1>2, <1>14, <1>16, <1>17 DEF NamedOf, OwnLocks, HoldsDp, HoldsIp
<1>20. LockMoves(p) /\ lock' \in [Slots -> Procs \union {Nobody}]
  <2>1. \A s \in Slots : Holds(p, s)' <=> s = k
    BY <1>14, <1>16, <1>17 DEF Holds, HoldsPut, HoldsDp, HoldsIp
  <2>2. lock \in [Slots -> Procs \union {Nobody}]
    BY <1>2 DEF TypeOK
  <2>3. lock' = [lock EXCEPT ![d] = Nobody, ![k] = p]
    BY <1>1
  <2>4. lock'[d] = Nobody /\ lock'[k] = p /\ \A s \in Slots \ {d, k} : lock'[s] = lock[s]
    BY <1>2, <2>2, <2>3
  <2>5. LockMoves(p)
    <3>1. \A s \in Slots : (Holds(p, s) <=> s = d) /\ (Holds(p, s)' <=> s = k)
      BY <1>2, <2>1
    <3>2. icache'[k].valid /\ d # k /\ lock[k] = Nobody
      BY <1>2, <1>4, <1>11
    <3>3. lock'[d] = Nobody /\ lock'[k] = p /\ \A s \in Slots \ {d, k} : lock'[s] = lock[s]
      BY <2>4
    <3> QED
      <4>1. SwapsLocks(p, d, k)
        BY <3>1, <3>2, <3>3 DEF SwapsLocks
      <4> QED
        BY <4>1, LockSwapped
  <2>6. lock' \in [Slots -> Procs \union {Nobody}]
    BY ONLY <2>2, <2>3
  <2> QED
    BY ONLY <2>5, <2>6
<1>21. TypeOK'
  <2>1. ents' \in [Inums -> [Names -> Inums \union {0}]]
    BY <1>12, EntryWritten
  <2> QED
    BY <1>2, <1>9, <1>10, <1>16, <1>20, <2>1 DEF TypeOK, Caches, SlotRec, Dinodes
<1>22. /\ ents'[e][m] = 0
       /\ \A a \in Inums, x \in Names : ents'[a][x] # ents[a][x] => a = e /\ x = m
  BY <1>12, EntryWritten
<1>23. \A t \in Slots : t # d /\ Inum(t) \in Inums => Inum(t) # e
  BY <1>2, <1>3, SameSlot DEF IInv
<1>24. DiskStep(p)
  <2>1. fd' = fd /\ leaked' = leaked /\ overlap' = overlap /\ Others(p)
    BY <1>16 DEF Others
  <2>2. \A t \in Slots :
          /\ icache'[t].inum = icache[t].inum
          /\ icache'[t].ref = icache[t].ref \/ (t = ROOT /\ icache'[t].ref > 0)
          /\ icache[t].valid => icache'[t].valid
          /\ icache'[t].valid /\ ~icache[t].valid => t \in {loc[p].ip, loc[p].dp}
          /\ icache'[t].nlink # icache[t].nlink => lock[t] \in {Nobody, p}
          /\ Inum(t) \in Inums /\ dinode[Inum(t)].nlink > 0 =>
                icache'[t].valid \/ dinode'[Inum(t)].nlink > 0
          /\ t \in {loc'[p].at, loc'[p].ip, loc'[p].put} =>
                icache'[t].valid \/ dinode'[Inum(t)].nlink > 0
    <3> SUFFICES ASSUME NEW t \in Slots
                 PROVE  /\ icache'[t].inum = icache[t].inum
                        /\ icache'[t].ref = icache[t].ref
                        /\ icache[t].valid => icache'[t].valid
                        /\ icache'[t].valid /\ ~icache[t].valid => t \in {loc[p].ip, loc[p].dp}
                        /\ icache'[t].nlink # icache[t].nlink => lock[t] \in {Nobody, p}
                        /\ Inum(t) \in Inums /\ dinode[Inum(t)].nlink > 0 =>
                              icache'[t].valid \/ dinode'[Inum(t)].nlink > 0
                        /\ t \in {loc'[p].at, loc'[p].ip, loc'[p].put} => icache'[t].valid
      OBVIOUS
    <3>1. CASE t = k
      BY <1>1, <1>4, <1>11, <3>1
    <3>2. CASE t = d
      BY <1>2, <1>11, <3>2
    <3>3. CASE t # k /\ t # d
      <4>1. t # 0 /\ icache'[t] = icache[t]
        BY <1>11, <3>3, Constants
      <4>2. Inum(t) \in Inums => dinode'[Inum(t)] = dinode[Inum(t)]
        BY <1>10, <1>23, <3>3
      <4>3. t \notin {loc'[p].at, loc'[p].ip, loc'[p].put}
        BY <1>14, <1>16, <3>3, <4>1
      <4> QED
        BY <4>1, <4>2, <4>3
    <3> QED
      BY <3>1, <3>2, <3>3
  <2>3. \A i \in Inums :
          /\ dinode'[i].type = dinode[i].type
          /\ dinode'[i].nlink # dinode[i].nlink =>
                \E s \in Slots : s \in {loc[p].dp, loc[p].ip} /\ Inum(s) = i
          /\ dinode'[i].nlink = 0 => \/ dinode[i].nlink = 0
                                     \/ \E s \in Slots : /\ s = loc'[p].put /\ Inum(s) = i
                                                         /\ pc'[p] = "iput"
    BY <1>1, <1>3, <1>10, <1>14, <1>16
  <2>4. \A a \in Inums, x \in Names : ents'[a][x] # ents[a][x] =>
          /\ \E s \in Slots : s = loc[p].dp /\ Inum(s) = a /\ lock[s] \in {Nobody, p}
          /\ ents'[a][x] = 0 \/ \E s \in Slots : s = loc[p].ip /\ ents'[a][x] = Inum(s)
    BY <1>1, <1>2, <1>3, <1>22
  <2>5. pc[p] \notin Putting /\ pc'[p] \in {"iput", "walk"} /\ pc[p] # "createinit"
    BY <1>16 DEF Putting
  <2>6. /\ loc'[p].dp = 0
        /\ {loc'[p].at, loc'[p].ip, loc'[p].put} \subseteq {0, ROOT, loc[p].dp, loc[p].ip}
        /\ {loc[p].at, loc[p].dp, loc[p].ip} \subseteq
              {0, loc'[p].ip, IF pc'[p] = "iput" THEN loc'[p].put ELSE 0}
    BY <1>1, <1>2, <1>14, <1>16
  <2> QED
    BY <1>17, <1>18, <1>19, <1>20, <2>1, <2>2, <2>3, <2>4, <2>5, <2>6 DEF DiskStep
<1>25. RefsExact'
  <2>1. Moved(loc[p], loc'[p], 0, 0)
    BY <1>1, <1>2, <1>14, <1>16, Constants DEF Moved, Frac
  <2>2. ASSUME NEW t \in Slots
        PROVE  icache'[t].ref = icache[t].ref + Frac(t = 0)
    <3>1. icache[t].ref \in Nat /\ Frac(t = 0) = 0
      BY <1>2, Constants DEF Frac, TypeOK
    <3>2. icache'[t].ref = icache[t].ref
      BY <1>11
    <3> QED
      BY <3>1, <3>2
  <2> QED
    BY <1>21, <1>24, <2>1, <2>2, DiskRefs
<1>26. Coherent'
  <2>1. \A t \in Slots : icache'[t].valid => Inum(t) \in Inums
    BY <1>2, <1>11, ValidHasInode
  <2>2. icache[d].type = dinode[e].type
    <3>1. ~Freeing(d)
      BY <1>2, NotFreeing
    <3> QED
      BY <1>2, <1>3, <3>1 DEF IInv, Coherent
  <2>3. \A t \in Slots : icache'[t].valid /\ Inum(t) \in Inums =>
              \/ /\ icache'[t].nlink = dinode'[Inum(t)].nlink
                 /\ icache'[t].type = dinode'[Inum(t)].type
              \/ /\ icache[t].valid /\ icache'[t].nlink = icache[t].nlink
                 /\ icache'[t].type = icache[t].type /\ dinode'[Inum(t)] = dinode[Inum(t)]
    <3> SUFFICES ASSUME NEW t \in Slots, icache'[t].valid, Inum(t) \in Inums
                 PROVE  \/ /\ icache'[t].nlink = dinode'[Inum(t)].nlink
                           /\ icache'[t].type = dinode'[Inum(t)].type
                        \/ /\ icache[t].valid /\ icache'[t].nlink = icache[t].nlink
                           /\ icache'[t].type = icache[t].type /\ dinode'[Inum(t)] = dinode[Inum(t)]
      OBVIOUS
    <3>1. CASE t = d
      <4>1. /\ icache'[d].nlink = up /\ icache'[d].type = icache[d].type
            /\ dinode'[e].nlink = up /\ dinode'[e].type = dinode[e].type /\ e = Inum(d)
        BY ONLY <1>3, <1>10, <1>11
      <4> QED
        BY ONLY <2>2, <3>1, <4>1
    <3>2. CASE t = k
      <4>1. /\ icache'[k].nlink = dinode[j].nlink /\ icache'[k].type = dinode[j].type
            /\ dinode'[j] = dinode[j] /\ j = Inum(k)
        BY ONLY <1>3, <1>4, <1>10, <1>11
      <4> QED
        BY ONLY <3>2, <4>1
    <3>3. CASE t # d /\ t # k
      BY <1>10, <1>11, <1>23, <3>3
    <3> QED
      BY <3>1, <3>2, <3>3
  <2> QED
    BY <1>24, <2>1, <2>3, CoherentStep
<1>27. Counted'
  <2>1. /\ \A i \in Inums : p \notin Linkers(i)' /\ p \notin Linkers(i) /\ p \notin Unlinkers(i)
        /\ \A i \in Inums : p \in Unlinkers(i)' <=> i = j
    <3>1. \A i \in Inums : p \notin Linkers(i)' /\ p \notin Linkers(i) /\ p \notin Unlinkers(i)
      BY <1>2, <1>17 DEF Linkers, Unlinkers
    <3>2. Inum(loc[p].ip)' = j
      BY <1>11, <1>14, <1>16 DEF Inum
    <3>3. \A i \in Inums : p \in Unlinkers(i)' <=> i = j
      BY <1>17, <3>2 DEF Unlinkers
    <3> QED
      BY <3>1, <3>3
  <2>2. PICK v \in Inums \union {0} : v = 0
    OBVIOUS
  <2>3. ASSUME NEW i \in Inums
        PROVE  /\ dinode[i].nlink \in Nat /\ Frac(j = i) \in {0, 1} /\ Frac(v = i) = 0
               /\ Owed(p, i)' = Frac(j = i) /\ Owed(p, i) = 0
               /\ Frac(p \in Unlinkers(i)') = Frac(j = i) /\ Frac(p \in Unlinkers(i)) = 0
    <3>1. dinode[i].nlink \in Nat
      BY <1>2 DEF TypeOK
    <3>2. Frac(v = i) = 0
      BY <2>2, Constants DEF Frac
    <3>3. Frac(j = i) = IF i = j THEN 1 ELSE 0
      BY DEF Frac
    <3>4. Owed(p, i) = 0 /\ Frac(p \in Unlinkers(i)) = 0
      BY <2>1 DEF Owed, Frac
    <3>5. /\ Owed(p, i)' = IF i = j THEN 1 ELSE 0
          /\ Frac(p \in Unlinkers(i)') = IF i = j THEN 1 ELSE 0
      BY <2>1 DEF Owed, Frac
    <3> QED
      BY <3>1, <3>2, <3>3, <3>4, <3>5
  <2>4. ASSUME NEW i \in Inums, dinode[i].type = "file"
        PROVE  dinode[i].nlink + Owed(p, i)' + Frac(v = i) <= dinode'[i].nlink + Owed(p, i) + Frac(j = i)
    <3>1. dinode'[i] = dinode[i]
      BY <1>4, <1>10, <2>4
    <3> QED
      BY <2>3, <3>1
  <2>5. ASSUME NEW i \in Inums, dinode[i].type = "dir"
        PROVE  /\ Up(i) + Frac(p \in Unlinkers(i)') + Frac(v = i)
                    <= 1 + Frac(p \in Unlinkers(i)) + Frac(j = i)
               /\ dinode[i].nlink + Frac(p \in Unlinkers(i)') + Frac(v = i)
                    + Frac(i = e /\ v # 0 /\ dinode[v].type = "dir")
                  = dinode'[i].nlink + Frac(p \in Unlinkers(i)) + Frac(j = i)
                    + Frac(i = e /\ j # 0 /\ dinode[j].type = "dir")
    <3>1. Frac(i = e /\ v # 0 /\ dinode[v].type = "dir") = 0
      BY <2>2 DEF Frac
    <3>2. Up(i) <= 1 /\ Up(i) \in Nat
      BY <2>5, CallsFinite, EntriesFinite DEF IInv, Counted, DirCounted, Up, Frac
    <3>3. Frac(i = e /\ j # 0 /\ dinode[j].type = "dir") = IF i = e THEN b ELSE 0
      BY <1>7, Constants DEF Frac
    <3>4. dinode'[i].nlink + (IF i = e THEN b ELSE 0) = dinode[i].nlink
      BY <1>8, <1>10, <2>3
    <3>5. dinode'[i].nlink \in Nat
      BY <1>10 DEF Dinodes
    <3> QED
      BY <2>3, <3>1, <3>2, <3>3, <3>4, <3>5
  <2>6. Writes(e, m, v) /\ j = ents[e][m]
    BY <1>4, <1>12, <2>2
  <2> QED
    BY <1>21, <1>24, <2>4, <2>5, <2>6, CountedStep
<1>28. NoLoops'
  <2>1. PICK v \in Inums \union {0} : v = 0
    OBVIOUS
  <2>2. Writes(e, m, v)
    BY <1>12, <2>1
  <2> QED
    BY <2>1, <2>2, NoLoopsStep
<1> QED
  BY <1>21, <1>24, <1>25, <1>26, <1>27, <1>28, DiskInv

\* create's writes to the new inode and to the directory.
Entered(c, k, ty, d, up) == [c EXCEPT ![k].nlink = 1, ![k].type = ty, ![d].nlink = up]

LEMMA EnteredIs ==
    ASSUME NEW c \in Caches, NEW k \in Slots, NEW d \in Slots, k # d, NEW ty \in Types,
           NEW up, up \in Nat, NEW x, x = Entered(c, k, ty, d, up)
    PROVE  /\ x \in Caches /\ \A t \in Slots : t # k /\ t # d => x[t] = c[t]
           /\ x[k].nlink = 1 /\ x[k].type = ty /\ x[k].inum = c[k].inum
           /\ x[k].ref = c[k].ref /\ x[k].valid = c[k].valid
           /\ x[d].nlink = up /\ x[d].type = c[d].type /\ x[d].inum = c[d].inum
           /\ x[d].ref = c[d].ref /\ x[d].valid = c[d].valid
<1>1. c[k] \in SlotRec /\ c[d] \in SlotRec
  BY DEF Caches
<1>2. PICK a : a = [c[k] EXCEPT !.nlink = 1]
  OBVIOUS
<1>3. PICK b : b = [a EXCEPT !.type = ty]
  OBVIOUS
<1>4. PICK f : f = [c[d] EXCEPT !.nlink = up]
  OBVIOUS
<1>5. /\ a \in SlotRec /\ a.nlink = 1 /\ a.inum = c[k].inum /\ a.ref = c[k].ref
      /\ a.valid = c[k].valid
  BY <1>1, <1>2 DEF SlotRec
<1>6. /\ b \in SlotRec /\ b.nlink = 1 /\ b.type = ty /\ b.inum = c[k].inum /\ b.ref = c[k].ref
      /\ b.valid = c[k].valid
  BY <1>3, <1>5 DEF SlotRec
<1>7. /\ f \in SlotRec /\ f.nlink = up /\ f.type = c[d].type /\ f.inum = c[d].inum
      /\ f.ref = c[d].ref /\ f.valid = c[d].valid
  BY <1>1, <1>4 DEF SlotRec
<1>9. PICK y : y = [c EXCEPT ![k].nlink = 1]
  OBVIOUS
<1>10. PICK z : z = [y EXCEPT ![k].type = ty]
  OBVIOUS
<1>11. x = [z EXCEPT ![d].nlink = up]
  BY <1>9, <1>10 DEF Entered
<1>12. y \in Caches /\ y[k] = a /\ \A t \in Slots : t # k => y[t] = c[t]
  <2>1. y = [c EXCEPT ![k] = a]
    BY <1>2, <1>9
  <2> QED
    BY <1>5, <2>1 DEF Caches
<1>13. z \in Caches /\ z[k] = b /\ \A t \in Slots : t # k => z[t] = c[t]
  <2>1. z = [y EXCEPT ![k] = b]
    BY <1>3, <1>10, <1>12
  <2> QED
    BY <1>6, <1>12, <2>1 DEF Caches
<1>14. x \in Caches /\ x[k] = b /\ x[d] = f /\ \A t \in Slots : t # k /\ t # d => x[t] = c[t]
  <2>1. x = [z EXCEPT ![d] = f]
    BY <1>4, <1>11, <1>13
  <2> QED
    BY <1>7, <1>13, <2>1 DEF Caches
<1> QED
  BY <1>6, <1>7, <1>14

Marked(di, j, new, e, up) == [di EXCEPT ![j] = new, ![e].nlink = up]

LEMMA MarkedIs ==
    ASSUME NEW di \in Dinodes, NEW j \in Inums, NEW e \in Inums, j # e,
           NEW new \in [type : Types, nlink : Nat], NEW up, up \in Nat,
           NEW x, x = Marked(di, j, new, e, up)
    PROVE  /\ x \in Dinodes /\ \A a \in Inums : a # j /\ a # e => x[a] = di[a]
           /\ x[j] = new /\ x[e].nlink = up /\ x[e].type = di[e].type
<1>1. di[e] \in [type : Types, nlink : Nat]
  BY DEF Dinodes
<1>2. PICK r : r = [di[e] EXCEPT !.nlink = up]
  OBVIOUS
<1>3. r \in [type : Types, nlink : Nat] /\ r.nlink = up /\ r.type = di[e].type
  BY <1>1, <1>2
<1>4. PICK y : y = [di EXCEPT ![j] = new]
  OBVIOUS
<1>5. x = [y EXCEPT ![e].nlink = up]
  BY <1>4 DEF Marked
<1>6. y \in Dinodes /\ y[j] = new /\ \A a \in Inums : a # j => y[a] = di[a]
  BY <1>4 DEF Dinodes
<1>7. x = [y EXCEPT ![e] = r]
  BY <1>2, <1>5, <1>6
<1>8. x \in Dinodes /\ x[j] = new /\ x[e] = r /\ \A a \in Inums : a # j /\ a # e => x[a] = di[a]
  BY <1>3, <1>6, <1>7 DEF Dinodes
<1> QED
  BY <1>3, <1>8

LEMMA AtCreateInit ==
    ASSUME IInv, NEW p \in Procs, pc[p] = "createinit"
    PROVE  /\ Label(p) = "createinit" /\ ~Linking(p) /\ TypeOK /\ ShapeOf(p)
           /\ loc[p] \in CallRecs /\ loc[p].dp \in Slots /\ Inum(loc[p].dp) \in Inums
           /\ loc[p].ip \in Slots /\ Inum(loc[p].ip) \in Inums /\ Name(p) \in Names
           /\ dinode[Inum(loc[p].dp)].type = "dir" /\ icache[loc[p].dp].ref > 0
           /\ loc[p].at = 0 /\ loc[p].put = 0 /\ loc[p].ret = "idle"
           /\ loc[p].op \in {"create", "mkdir", "symlink"} /\ loc[p].ip # loc[p].dp
           /\ MakingOf(p)
           /\ \A s \in Slots : Holds(p, s) <=> s = loc[p].dp
           /\ lock[loc[p].dp] = p /\ icache[loc[p].dp].valid
<1>1. Label(p) = "createinit"
  BY DEF Label, Putting
<1>2. ~Linking(p) /\ TypeOK /\ ShapeOf(p) /\ loc[p] \in CallRecs
  BY <1>1, Caller DEF Linking
<1>3. /\ loc[p].at = 0 /\ loc[p].put = 0 /\ loc[p].dp # 0 /\ loc[p].ip # 0
      /\ loc[p].ret = "idle" /\ loc[p].rest # <<>> /\ loc[p].op \in {"create", "mkdir", "symlink"}
  BY <1>1, <1>2 DEF ShapeOf, Putting, Creating
<1>4. Name(p) \in Names
  <2>1. PICK path \in Seq(Names) : path = loc[p].rest
    BY <1>2 DEF CallRecs
  <2> QED
    BY <1>3, <2>1 DEF Name
<1>5. /\ loc[p].dp \in Slots /\ Inum(loc[p].dp) \in Inums /\ icache[loc[p].dp].ref > 0
      /\ loc[p].ip \in Slots /\ Inum(loc[p].ip) \in Inums
  BY <1>3, Caller
<1>6. dinode[Inum(loc[p].dp)].type = "dir"
  BY <1>3 DEF IInv, Alive
<1>7. MakingOf(p)
  BY DEF IInv, Making
<1>8. loc[p].ip # loc[p].dp
  BY <1>7 DEF MakingOf, Forsaken
<1>9. \A s \in Slots : Holds(p, s) <=> s = loc[p].dp
  BY <1>1 DEF Holds, HoldsPut, HoldsDp, HoldsIp
<1>10. lock[loc[p].dp] = p /\ icache[loc[p].dp].valid
  <2>1. lock[loc[p].dp] = p /\ p # Nobody
    BY <1>5, <1>9, Constants DEF IInv, Locks
  <2> QED
    BY <1>5, <2>1 DEF IInv, Locks
<1> QED
  BY <1>1, <1>2, <1>3, <1>4, <1>5, <1>6, <1>7, <1>8, <1>9, <1>10

\* create enters the new inode.
LEMMA CreateInitKeeps ==
    ASSUME IInv, NEW p \in Procs, CreateInit(p)
    PROVE  IInv'
<1>0. pc[p] = "createinit"
  BY DEF CreateInit, At
<1>1. PICK r \in CallRecs, d \in Slots, k \in Slots, m \in Names :
         r = loc[p] /\ d = r.dp /\ k = r.ip /\ m = Name(p)
  BY <1>0, AtCreateInit
<1>2. /\ Label(p) = "createinit" /\ ~Linking(p) /\ TypeOK /\ ShapeOf(p) /\ d # 0 /\ k # 0
      /\ Inum(d) \in Inums /\ Inum(k) \in Inums
      /\ dinode[Inum(d)].type = "dir" /\ r.at = 0 /\ r.put = 0 /\ r.ret = "idle"
      /\ r.op \in {"create", "mkdir", "symlink"} /\ k # d
      /\ \A s \in Slots : Holds(p, s) <=> s = d
      /\ lock[d] = p /\ icache[d].valid /\ lock[k] = Nobody
  <2>1. /\ Label(p) = "createinit" /\ ~Linking(p) /\ TypeOK /\ ShapeOf(p)
        /\ d # 0 /\ k # 0
    BY <1>0, AtCreateInit, Constants
  <2>2. /\ Inum(d) \in Inums /\ Inum(k) \in Inums /\ dinode[Inum(d)].type = "dir"
        /\ lock[d] = p /\ icache[d].valid /\ k # d
        /\ \A s \in Slots : Holds(p, s) <=> s = d
    BY <1>0, <1>1, AtCreateInit
  <2>3. /\ r.at = 0 /\ r.put = 0 /\ r.ret = "idle" /\ r.op \in {"create", "mkdir", "symlink"}
    BY <1>0, <1>1, AtCreateInit
  <2>4. lock[k] = Nobody
    BY <1>1 DEF CreateInit
  <2> QED
    BY <2>1, <2>2, <2>3, <2>4
<1>3. PICK e \in Inums, j \in Inums : e = Inum(d) /\ j = Inum(k)
  BY <1>2
<1>4. PICK ty \in Types : ty = TypeFor(r.op) /\ ty # "free"
  BY DEF TypeFor, Types
<1>5. /\ dinode[j].type = ty /\ dinode[j].nlink = 0 /\ ents[j] = Empty /\ ents[e][m] = 0
      /\ j # e /\ dinode[e].type = "dir" /\ ~Freeing(k) /\ ~Freeing(d)
  <2>1. dinode[j] = [type |-> ty, nlink |-> 0] /\ ents[j] = Empty /\ ents[e][m] = 0
    BY <1>0, <1>1, <1>3, <1>4, AtCreateInit DEF MakingOf
  <2>2. j # e
    BY <1>2, <1>3, SameSlot DEF IInv
  <2>3. ~Freeing(k) /\ ~Freeing(d)
    BY <1>0, <1>2, NotFreeing
  <2> QED
    BY <1>2, <1>3, <2>1, <2>2, <2>3
<1>6. PICK c : c = Load(icache, k)
  OBVIOUS
<1>7. /\ Fresh(c) /\ c[k].valid /\ \A t \in Slots : t # k => c[t] = icache[t]
  BY <1>3, <1>4, <1>5, <1>6, LoadIs DEF IInv
<1>8. PICK b \in {0, 1} : b = Frac(ty = "dir")
  BY DEF Frac
<1>9. DotDot(r.op) = b /\ (r.op = "mkdir" <=> b = 1)
  BY <1>4, <1>8 DEF DotDot, TypeFor, Frac
<1>10. PICK up \in Nat : /\ up = icache[d].nlink + DotDot(r.op) /\ up = dinode[e].nlink + b
                         /\ dinode[e].nlink \in Nat
  <2>1. dinode[e].nlink \in Nat /\ icache[d].nlink = dinode[e].nlink
    BY <1>2, <1>3 DEF IInv, Coherent, TypeOK
  <2> QED
    BY <1>9, <2>1
<1>11. /\ fd' = fd /\ leaked' = leaked /\ panicked' = panicked /\ overlap' = overlap /\ calls' = calls
       /\ lock' = [lock EXCEPT ![k] = p, ![d] = Nobody]
       /\ icache' = Entered(c, k, ty, d, up) /\ Writes(e, m, j)
  BY <1>1, <1>3, <1>4, <1>6, <1>10 DEF CreateInit, Entered, Writes
<1>12. PICK new \in [type : Types, nlink : Nat] : new = [type |-> ty, nlink |-> 1]
  OBVIOUS
<1>13. /\ dinode' \in Dinodes /\ \A a \in Inums : a # j /\ a # e => dinode'[a] = dinode[a]
       /\ dinode'[j] = new /\ dinode'[e].nlink = up /\ dinode'[e].type = dinode[e].type
  <2>1. PICK di \in Dinodes : di = dinode
    BY <1>2 DEF TypeOK, Dinodes
  <2>2. dinode' = [di EXCEPT ![j] = new, ![e].nlink = IF r.op = "mkdir" THEN up ELSE @]
    BY <1>1, <1>3, <1>4, <1>10, <1>12, <2>1 DEF CreateInit
  <2>3. di[e].nlink = dinode[e].nlink /\ (r.op # "mkdir" => up = di[e].nlink)
    BY <1>9, <1>10, <2>1
  <2>4. dinode' = Marked(di, j, new, e, up)
    BY <1>5, <2>2, <2>3 DEF Marked, Dinodes
  <2>5. /\ dinode' \in Dinodes /\ \A a \in Inums : a # j /\ a # e => dinode'[a] = di[a]
        /\ dinode'[j] = new /\ dinode'[e].nlink = up /\ dinode'[e].type = di[e].type
    <3>1. j # e /\ up \in Nat
      BY <1>5, <1>10
    <3> QED
      BY <2>4, <3>1, MarkedIs
  <2> QED
    BY <2>1, <2>5
<1>14. /\ icache' \in Caches /\ \A t \in Slots : t # d /\ t # k => icache'[t] = icache[t]
       /\ icache'[k].inum = j /\ icache'[k].ref = icache[k].ref /\ icache'[k].valid
       /\ icache'[k].nlink = 1 /\ icache'[k].type = ty
       /\ icache'[d].inum = e /\ icache'[d].ref = icache[d].ref /\ icache'[d].valid
       /\ icache'[d].nlink = up /\ icache'[d].type = icache[d].type
       /\ icache[k].inum = j /\ icache[d].inum = e
  <2>1. c \in Caches /\ c[k].inum = icache[k].inum /\ c[k].ref = icache[k].ref /\ c[d] = icache[d]
    BY <1>2, <1>7 DEF Fresh
  <2>2. /\ icache' \in Caches /\ \A t \in Slots : t # k /\ t # d => icache'[t] = c[t]
        /\ icache'[k].nlink = 1 /\ icache'[k].type = ty /\ icache'[k].inum = c[k].inum
        /\ icache'[k].ref = c[k].ref /\ icache'[k].valid = c[k].valid
        /\ icache'[d].nlink = up /\ icache'[d].type = c[d].type /\ icache'[d].inum = c[d].inum
        /\ icache'[d].ref = c[d].ref /\ icache'[d].valid = c[d].valid
    <3>1. c \in Caches /\ k # d /\ icache' = Entered(c, k, ty, d, up)
      BY <1>2, <1>11, <2>1
    <3>2. up \in Nat
      BY <1>10
    <3> QED
      BY <3>1, <3>2, EnteredIs
  <2> QED
    BY <1>2, <1>3, <1>7, <2>1, <2>2 DEF Inum
<1>15. PICK n : n = Put(r, "dp", "created")
  OBVIOUS
<1>16. /\ n \in CallRecs /\ n.op = r.op /\ n.phase = r.phase /\ n.at = 0 /\ n.dp = 0 /\ n.ip = k
       /\ n.put = d /\ n.ret = "created" /\ n.old = r.old /\ n.new = r.new
  <2>1. PICK ret \in PCs \union {"putip"} : ret = "created"
    BY DEF PCs
  <2>2. Onward(r, Put(r, "dp", ret), r.at, 0, r.ip, r.dp, ret)
    BY <2>1, PutOnward
  <2> QED
    BY <1>1, <1>2, <1>15, <2>1, <2>2 DEF Onward
<1>17. Step(p, "iput", n) /\ "iput" \in PCs
  BY <1>1, <1>15 DEF PCs, CreateInit
<1>18. /\ pc' \in [Procs -> PCs] /\ loc' \in [Procs -> CallRecs] /\ pc'[p] = "iput" /\ loc'[p] = n
       /\ \A q \in Procs : q # p => pc'[q] = pc[q] /\ loc'[q] = loc[q]
  BY <1>2, <1>16, <1>17, StepIs
<1>19. Label(p)' = "created" /\ ~Linking(p)'
  BY <1>16, <1>18 DEF Label, Linking, Putting
<1>20. ShapeOf(p)'
  BY <1>1, <1>2, <1>11, <1>16, <1>18, <1>19 DEF ShapeOf, Putting, Creating, Unlinking
<1>21. NamedOf(p)' /\ OwnLocks(p)'
  BY <1>2, <1>16, <1>18, <1>19 DEF NamedOf, OwnLocks, HoldsDp, HoldsIp
<1>22. LockMoves(p) /\ lock' \in [Slots -> Procs \union {Nobody}]
  <2>1. \A s \in Slots : (Holds(p, s) <=> s = d) /\ (Holds(p, s)' <=> s = k)
    BY <1>2, <1>16, <1>18, <1>19 DEF Holds, HoldsPut, HoldsDp, HoldsIp
  <2>2. lock \in [Slots -> Procs \union {Nobody}]
    BY <1>2 DEF TypeOK
  <2>3. lock'[d] = Nobody /\ lock'[k] = p /\ \A s \in Slots \ {d, k} : lock'[s] = lock[s]
    BY <1>2, <1>11, <2>2
  <2>4. LockMoves(p)
    <3>1. SwapsLocks(p, d, k)
      BY <1>2, <1>14, <2>1, <2>3 DEF SwapsLocks
    <3> QED
      BY <3>1, LockSwapped
  <2> QED
    BY <1>11, <2>2, <2>4
<1>23. TypeOK'
  <2>1. ents' \in [Inums -> [Names -> Inums \union {0}]]
    BY <1>11, EntryWritten
  <2> QED
    BY <1>2, <1>11, <1>13, <1>14, <1>18, <1>22, <2>1 DEF TypeOK, Caches, SlotRec, Dinodes
<1>24. /\ ents'[e][m] = j
       /\ \A a \in Inums, x \in Names : ents'[a][x] # ents[a][x] => a = e /\ x = m
  BY <1>11, EntryWritten
<1>25. /\ \A t \in Slots : t # d /\ Inum(t) \in Inums => Inum(t) # e
       /\ \A t \in Slots : t # k /\ Inum(t) \in Inums => Inum(t) # j
  BY <1>2, <1>3, SameSlot DEF IInv
<1>26. DiskStep(p)
  <2>1. fd' = fd /\ leaked' = leaked /\ overlap' = overlap /\ Others(p)
    BY <1>11, <1>18 DEF Others
  <2>2. \A t \in Slots :
          /\ icache'[t].inum = icache[t].inum
          /\ icache'[t].ref = icache[t].ref \/ (t = ROOT /\ icache'[t].ref > 0)
          /\ icache[t].valid => icache'[t].valid
          /\ icache'[t].valid /\ ~icache[t].valid => t \in {loc[p].ip, loc[p].dp}
          /\ icache'[t].nlink # icache[t].nlink => lock[t] \in {Nobody, p}
          /\ Inum(t) \in Inums /\ dinode[Inum(t)].nlink > 0 =>
                icache'[t].valid \/ dinode'[Inum(t)].nlink > 0
          /\ t \in {loc'[p].at, loc'[p].ip, loc'[p].put} =>
                icache'[t].valid \/ dinode'[Inum(t)].nlink > 0
    <3> SUFFICES ASSUME NEW t \in Slots
                 PROVE  /\ icache'[t].inum = icache[t].inum
                        /\ icache'[t].ref = icache[t].ref
                        /\ icache[t].valid => icache'[t].valid
                        /\ icache'[t].valid /\ ~icache[t].valid => t \in {loc[p].ip, loc[p].dp}
                        /\ icache'[t].nlink # icache[t].nlink => lock[t] \in {Nobody, p}
                        /\ Inum(t) \in Inums /\ dinode[Inum(t)].nlink > 0 =>
                              icache'[t].valid \/ dinode'[Inum(t)].nlink > 0
                        /\ t \in {loc'[p].at, loc'[p].ip, loc'[p].put} => icache'[t].valid
      OBVIOUS
    <3>1. CASE t = k
      BY <1>1, <1>2, <1>14, <3>1
    <3>2. CASE t = d
      BY <1>2, <1>14, <3>2
    <3>3. CASE t # k /\ t # d
      <4>1. t # 0 /\ icache'[t] = icache[t]
        BY <1>14, <3>3, Constants
      <4>2. Inum(t) \in Inums => dinode'[Inum(t)] = dinode[Inum(t)]
        BY <1>13, <1>25, <3>3
      <4>3. t \notin {loc'[p].at, loc'[p].ip, loc'[p].put}
        BY <1>16, <1>18, <3>3, <4>1
      <4> QED
        BY <4>1, <4>2, <4>3
    <3> QED
      BY <3>1, <3>2, <3>3
  <2>3. \A i \in Inums :
          /\ dinode'[i].type = dinode[i].type
          /\ dinode'[i].nlink # dinode[i].nlink =>
                \E s \in Slots : s \in {loc[p].dp, loc[p].ip} /\ Inum(s) = i
          /\ dinode'[i].nlink = 0 => \/ dinode[i].nlink = 0
                                     \/ \E s \in Slots : /\ s = loc'[p].put /\ Inum(s) = i
                                                         /\ pc'[p] = "iput"
    <3> SUFFICES ASSUME NEW i \in Inums
                 PROVE  /\ dinode'[i].type = dinode[i].type
                        /\ dinode'[i].nlink # dinode[i].nlink =>
                              \E s \in Slots : s \in {loc[p].dp, loc[p].ip} /\ Inum(s) = i
                        /\ dinode'[i].nlink = 0 => dinode[i].nlink = 0
      OBVIOUS
    <3>1. CASE i = j
      BY <1>1, <1>3, <1>5, <1>12, <1>13, <3>1
    <3>2. CASE i = e
      BY <1>1, <1>3, <1>10, <1>13, <3>2
    <3>3. CASE i # j /\ i # e
      BY <1>13, <3>3
    <3> QED
      BY <3>1, <3>2, <3>3
  <2>4. \A a \in Inums, x \in Names : ents'[a][x] # ents[a][x] =>
          /\ \E s \in Slots : s = loc[p].dp /\ Inum(s) = a /\ lock[s] \in {Nobody, p}
          /\ ents'[a][x] = 0 \/ \E s \in Slots : s = loc[p].ip /\ ents'[a][x] = Inum(s)
    BY <1>1, <1>2, <1>3, <1>24
  <2>5. /\ pc[p] \notin Putting /\ pc'[p] \in {"iput", "walk"}
        /\ pc[p] = "createinit" => lock[loc[p].ip] = Nobody
    BY <1>0, <1>1, <1>2, <1>18 DEF Putting
  <2>6. /\ loc'[p].dp = 0
        /\ {loc'[p].at, loc'[p].ip, loc'[p].put} \subseteq {0, ROOT, loc[p].dp, loc[p].ip}
        /\ {loc[p].at, loc[p].dp, loc[p].ip} \subseteq
              {0, loc'[p].ip, IF pc'[p] = "iput" THEN loc'[p].put ELSE 0}
    BY <1>1, <1>2, <1>16, <1>18
  <2> QED
    BY <1>19, <1>20, <1>21, <1>22, <2>1, <2>2, <2>3, <2>4, <2>5, <2>6 DEF DiskStep
<1>27. RefsExact'
  <2>1. Moved(loc[p], loc'[p], 0, 0)
    BY <1>1, <1>2, <1>16, <1>18, Constants DEF Moved, Frac
  <2>2. ASSUME NEW t \in Slots
        PROVE  icache'[t].ref = icache[t].ref + Frac(t = 0)
    <3>1. icache[t].ref \in Nat /\ Frac(t = 0) = 0
      BY <1>2, Constants DEF Frac, TypeOK
    <3>2. icache'[t].ref = icache[t].ref
      BY <1>14
    <3> QED
      BY <3>1, <3>2
  <2> QED
    BY <1>23, <1>26, <2>1, <2>2, DiskRefs
<1>28. Coherent'
  <2>1. \A t \in Slots : icache'[t].valid => Inum(t) \in Inums
    BY <1>2, <1>14, ValidHasInode
  <2>2. icache[d].type = dinode[e].type
    BY <1>2, <1>3, <1>5 DEF IInv, Coherent
  <2>3. \A t \in Slots : icache'[t].valid /\ Inum(t) \in Inums =>
              \/ /\ icache'[t].nlink = dinode'[Inum(t)].nlink
                 /\ icache'[t].type = dinode'[Inum(t)].type
              \/ /\ icache[t].valid /\ icache'[t].nlink = icache[t].nlink
                 /\ icache'[t].type = icache[t].type /\ dinode'[Inum(t)] = dinode[Inum(t)]
    <3> SUFFICES ASSUME NEW t \in Slots, icache'[t].valid, Inum(t) \in Inums
                 PROVE  \/ /\ icache'[t].nlink = dinode'[Inum(t)].nlink
                           /\ icache'[t].type = dinode'[Inum(t)].type
                        \/ /\ icache[t].valid /\ icache'[t].nlink = icache[t].nlink
                           /\ icache'[t].type = icache[t].type /\ dinode'[Inum(t)] = dinode[Inum(t)]
      OBVIOUS
    <3>1. CASE t = d
      BY <1>3, <1>13, <1>14, <2>2, <3>1
    <3>2. CASE t = k
      BY <1>3, <1>12, <1>13, <1>14, <3>2
    <3>3. CASE t # d /\ t # k
      BY <1>13, <1>14, <1>25, <3>3
    <3> QED
      BY <3>1, <3>2, <3>3
  <2> QED
    BY <1>26, <2>1, <2>3, CoherentStep
<1>29. Counted'
  <2>1. \A i \in Inums : /\ p \notin Linkers(i)' /\ p \notin Linkers(i) /\ p \notin Unlinkers(i)
                         /\ p \notin Unlinkers(i)'
    BY <1>2, <1>19 DEF Linkers, Unlinkers
  <2>2. PICK v \in Inums \union {0}, o \in {0} : v = j /\ o = 0
    OBVIOUS
  <2>3. ASSUME NEW i \in Inums
        PROVE  /\ dinode[i].nlink \in Nat /\ dinode'[i].nlink \in Nat /\ Frac(o = i) = 0
               /\ Frac(v = i) = (IF i = j THEN 1 ELSE 0)
               /\ Owed(p, i)' = 0 /\ Owed(p, i) = 0
               /\ Frac(p \in Unlinkers(i)') = 0 /\ Frac(p \in Unlinkers(i)) = 0
    <3>1. dinode[i].nlink \in Nat /\ dinode'[i].nlink \in Nat
      BY <1>2, <1>13 DEF TypeOK, Dinodes
    <3>2. Frac(o = i) = 0
      BY <2>2, Constants DEF Frac
    <3>3. Frac(v = i) = IF i = j THEN 1 ELSE 0
      BY <2>2 DEF Frac
    <3>4. Owed(p, i) = 0 /\ Frac(p \in Unlinkers(i)) = 0
      BY <2>1 DEF Owed, Frac
    <3>5. Owed(p, i)' = 0 /\ Frac(p \in Unlinkers(i)') = 0
      BY <2>1 DEF Owed, Frac
    <3> QED
      BY <3>1, <3>2, <3>3, <3>4, <3>5
  <2>4. ASSUME NEW i \in Inums
        PROVE  dinode'[i].nlink = IF i = j THEN 1 ELSE IF i = e THEN dinode[i].nlink + b
                                  ELSE dinode[i].nlink
    BY <1>10, <1>12, <1>13
  <2>5. ASSUME NEW i \in Inums, dinode[i].type = "file"
        PROVE  dinode[i].nlink + Owed(p, i)' + Frac(v = i) <= dinode'[i].nlink + Owed(p, i) + Frac(o = i)
    BY <1>5, <2>3, <2>4, <2>5
  <2>6. ASSUME NEW i \in Inums, dinode[i].type = "dir"
        PROVE  /\ Up(i) + Frac(p \in Unlinkers(i)') + Frac(v = i)
                    <= 1 + Frac(p \in Unlinkers(i)) + Frac(o = i)
               /\ dinode[i].nlink + Frac(p \in Unlinkers(i)') + Frac(v = i)
                    + Frac(i = e /\ v # 0 /\ dinode[v].type = "dir")
                  = dinode'[i].nlink + Frac(p \in Unlinkers(i)) + Frac(o = i)
                    + Frac(i = e /\ o # 0 /\ dinode[o].type = "dir")
    <3>1. Frac(i = e /\ o # 0 /\ dinode[o].type = "dir") = 0
      BY <2>2 DEF Frac
    <3>2. /\ Up(i) <= 1 /\ Up(i) \in Nat /\ dinode[i].nlink = Cardinality(DirKids(i)) + Up(i)
          /\ Cardinality(DirKids(i)) \in Nat
      BY <2>6, CallsFinite, EntriesFinite DEF IInv, Counted, DirCounted, Up, Frac
    <3>3. i = j => Up(i) = 0
      BY <1>5, <3>2
    <3>4. Frac(i = e /\ v # 0 /\ dinode[v].type = "dir") = IF i = e THEN b ELSE 0
      BY <1>5, <1>8, <2>2, Constants DEF Frac
    <3>5. Up(i) + (IF i = j THEN 1 ELSE 0) <= 1
      BY <3>2, <3>3
    <3>6. dinode[i].nlink + (IF i = j THEN 1 ELSE 0) + (IF i = e THEN b ELSE 0) = dinode'[i].nlink
      BY <1>5, <2>3, <2>4
    <3> QED
      BY <2>3, <3>1, <3>2, <3>4, <3>5, <3>6
  <2>7. Writes(e, m, v) /\ o = ents[e][m]
    BY <1>5, <1>11, <2>2
  <2> QED
    BY <1>23, <1>26, <2>5, <2>6, <2>7, CountedStep
<1>30. NoLoops'
  BY <1>5, <1>11, NoLoopsStep
<1> QED
  BY <1>23, <1>26, <1>27, <1>28, <1>29, <1>30, DiskInv

-----------------------------------------------------------------------------
(* The actions with a branch that writes *)

LEMMA LinkIncKeeps ==
    ASSUME IInv, NEW p \in Procs, LinkInc(p)
    PROVE  IInv'
<1>1. CASE /\ icache' = Load(icache, loc[p].ip) /\ dinode' = dinode
           /\ Step(p, "iput", Put(loc[p], "ip", "idle"))
  BY <1>1, LinkIncDirKeeps
<1>2. CASE /\ Load(icache, loc[p].ip)[loc[p].ip].type # "dir"
           /\ SetLinks(IGet(Load(icache, loc[p].ip), ROOTINO), dinode, loc[p].ip,
                       OneMore(Load(icache, loc[p].ip)[loc[p].ip].nlink))
           /\ Step(p, "walk", [Walk(loc[p], loc[p].new, TRUE, 2) EXCEPT !.new = <<>>])
  BY <1>2, LinkIncFileKeeps
<1> QED
  BY <1>1, <1>2 DEF LinkInc

LEMMA LinkEntryKeeps ==
    ASSUME IInv, NEW p \in Procs, LinkEntry(p)
    PROVE  IInv'
<1> DEFINE c == Load(icache, loc[p].dp)
           i == ents[Inum(loc[p].dp)][Name(p)]
<1>0. /\ pc[p] = "linkentry" /\ lock[loc[p].dp] = Nobody /\ dinode' = dinode /\ fd' = fd
      /\ leaked' = leaked /\ panicked' = panicked /\ overlap' = overlap /\ calls' = calls
  BY DEF LinkEntry, At
<1>1. CASE /\ i # 0 /\ icache' = IGet(c, i) /\ lock' = [lock EXCEPT ![loc[p].dp] = p]
           /\ Step(p, "iput", [loc[p] EXCEPT !.put = SlotOf(c, i), !.ret = "linkclash"])
           /\ ents' = ents
  <2>1. Plain
    BY <1>0, <1>1 DEF Plain
  <2> QED
    BY <1>0, <1>1, <2>1, LinkFoundKeeps
<1>2. CASE /\ i = 0 /\ icache' = c /\ lock' = lock
           /\ Writes(Inum(loc[p].dp), Name(p), Inum(loc[p].ip))
           /\ Step(p, "iput", Put(loc[p], "dp", "putip"))
  BY <1>0, <1>2, LinkWriteKeeps
<1> QED
  BY <1>1, <1>2 DEF LinkEntry, Writes

LEMMA UnlinkEntryKeeps ==
    ASSUME IInv, NEW p \in Procs, UnlinkEntry(p)
    PROVE  IInv'
<1> DEFINE d == loc[p].dp
           k == loc[p].ip
           c == Load(icache, k)
<1>0. /\ pc[p] = "unlinkip" /\ lock[k] = Nobody /\ fd' = fd /\ leaked' = leaked
      /\ overlap' = overlap /\ calls' = calls
  BY DEF UnlinkEntry, At
<1>1. CASE /\ panicked' = TRUE /\ dinode' = dinode /\ ents' = ents /\ icache' = icache
           /\ lock' = lock /\ pc' = pc /\ loc' = loc
  BY <1>0, <1>1, PanicKeeps
<1>2. CASE /\ icache' = c /\ Step(p, "iput", Put(loc[p], "ip", "unlinkbad"))
           /\ dinode' = dinode /\ ents' = ents /\ lock' = lock /\ panicked' = panicked
  <2>1. Plain
    BY <1>0, <1>2 DEF Plain
  <2> QED
    BY <1>0, <1>2, <2>1, UnlinkNotEmptyKeeps
<1>3. CASE /\ ~(c[k].type = "dir" /\ ents[Inum(k)] # Empty)
           /\ Writes(Inum(d), Name(p), 0)
           /\ icache' = Linked(c, d, UpLeft(c, d, k))
           /\ c[k].type = "dir" => dinode' = Linked(dinode, Inum(d), UpLeft(c, d, k))
           /\ c[k].type # "dir" => dinode' = dinode
           /\ lock' = [lock EXCEPT ![d] = Nobody, ![k] = p]
           /\ Step(p, "iput", Put(loc[p], "dp", "unlinkdec"))
           /\ panicked' = panicked
  BY <1>0, <1>3, UnlinkEraseKeeps
<1> QED
  BY <1>1, <1>2, <1>3 DEF UnlinkEntry, Writes, Linked, UpLeft

-----------------------------------------------------------------------------
(* iput frees an inode, and create takes a free one *)

\* A slot with one reference is nobody else's.
LEMMA OnlyOne ==
    ASSUME IInv, NEW p \in Procs, NEW s \in Slots, loc[p].put = s, icache[s].ref = 1
    PROVE  /\ s # ROOT /\ leaked[s] = 0 /\ s \notin {fd[p], loc[p].at, loc[p].dp, loc[p].ip}
           /\ \A q \in Procs : q # p =>
                 s \notin {fd[q], loc[q].at, loc[q].dp, loc[q].ip, loc[q].put}
<1>1. icache[s].ref = Frac(s = ROOT) + leaked[s] + Cardinality(Pointers(s))
  BY DEF IInv, RefsExact
<1>2. PICK k : k = Cardinality(TheirsIn(fd, loc, p, s))
  OBVIOUS
<1>3. Cardinality(Pointers(s)) = k + PtrCount(p, s) /\ k \in Nat
  BY <1>2, PointersAre, PointersSplit, TheirsFinite, FS_CardinalityType DEF PtrCount
<1>4. leaked[s] \in Nat /\ Frac(s = ROOT) \in Nat
  BY DEF IInv, TypeOK, Frac
<1>5. /\ PtrCount(p, s) \in Nat /\ PtrCount(p, s) >= 1
      /\ s \in {fd[p], loc[p].at, loc[p].dp, loc[p].ip} => PtrCount(p, s) > 1
  BY DEF PtrCount, CountIn, Frac
<1>6. leaked[s] = 0 /\ Frac(s = ROOT) = 0 /\ PtrCount(p, s) = 1
  BY <1>1, <1>3, <1>4, <1>5
<1>7. s # ROOT
  BY <1>6 DEF Frac
<1>8. ASSUME NEW q \in Procs, q # p, s \in {fd[q], loc[q].at, loc[q].dp, loc[q].ip, loc[q].put}
      PROVE  FALSE
  <2>1. leaked[s] + PtrCount(p, s) + 1 <= icache[s].ref
    BY <1>8, TheirsCount
  <2> QED
    BY <1>6, <2>1
<1> QED
  BY <1>5, <1>6, <1>7, <1>8

\* A process that goes on with its iput is where it was otherwise.
LEMMA PuttingSame ==
    ASSUME IInv, NEW p \in Procs, NEW l \in Putting, pc[p] \in Putting,
           pc' = [pc EXCEPT ![p] = l], loc' = loc, fd' = fd
    PROVE  /\ Others(p) /\ pc'[p] = l /\ pc' \in [Procs -> PCs]
           /\ \A q \in Procs : /\ q # p => pc'[q] = pc[q]
                               /\ Label(q)' = Label(q) /\ (Linking(q)' <=> Linking(q))
                               /\ (HoldsDp(q)' <=> HoldsDp(q)) /\ (HoldsIp(q)' <=> HoldsIp(q))
           /\ Shape'
<1>1. pc'[p] = l /\ pc' \in [Procs -> PCs] /\ \A q \in Procs : q # p => pc'[q] = pc[q]
  BY DEF IInv, TypeOK, PCs, Putting
<1>2. \A q \in Procs : Label(q)' = Label(q)
  BY <1>1 DEF Label
<1>3. \A q \in Procs : /\ (Linking(q)' <=> Linking(q))
                       /\ (HoldsDp(q)' <=> HoldsDp(q)) /\ (HoldsIp(q)' <=> HoldsIp(q))
  BY <1>2 DEF Linking, HoldsDp, HoldsIp
<1>4. \A q \in Procs : pc'[q] \in Putting <=> pc[q] \in Putting
  BY <1>1
<1>5. Shape'
  <2>1. \A q \in Procs : ShapeOf(q) => ShapeOf(q)'
    BY <1>2, <1>3, <1>4 DEF ShapeOf
  <2> QED
    BY <2>1 DEF IInv, Shape
<1>6. Others(p)
  BY <1>1 DEF Others
<1> QED
  BY <1>1, <1>2, <1>3, <1>5, <1>6

LEMMA IPutFreeKeeps ==
    ASSUME IInv, NEW p \in Procs, IPutFree(p)
    PROVE  IInv'
<1>0. pc[p] = "trunc" /\ TypeOK /\ SlotsApart
  BY DEF IPutFree, At, IInv
<1>1. PICK s \in Slots : s = loc[p].put
  BY <1>0, Caller DEF ShapeOf, Putting
<1>2. PICK i \in Inums : i = Inum(s)
  BY <1>1, Caller, Constants
<1>3. /\ icache[s].ref = 1 /\ icache[s].nlink = 0 /\ lock[s] = p /\ icache[s].valid /\ ~Freeing(s)
  <2>1. icache[s].ref = 1 /\ icache[s].nlink = 0
    BY <1>0, <1>1 DEF IInv, Truncating
  <2>2. Holds(p, s)
    BY <1>0, <1>1 DEF Holds, HoldsPut
  <2>3. lock[s] = p /\ p # Nobody
    BY <2>2, Constants DEF IInv, Locks
  <2>4. icache[s].valid
    BY <2>3 DEF IInv, Locks
  <2>5. ~Freeing(s)
    BY <1>0, <2>3, NotFreeing
  <2> QED
    BY <2>1, <2>3, <2>4, <2>5
<1>4. /\ s # ROOT /\ leaked[s] = 0 /\ s \notin {fd[p], loc[p].at, loc[p].dp, loc[p].ip}
      /\ \A q \in Procs : q # p => s \notin {fd[q], loc[q].at, loc[q].dp, loc[q].ip, loc[q].put}
  BY <1>1, <1>3, OnlyOne
<1>5. \A t \in Slots : t # s => Inum(t) # i
  BY <1>0, <1>2, SameSlot
<1>6. dinode[i].nlink = 0 /\ dinode[i].type # "free" /\ Entries(i) = {} /\ i # ROOTINO
  <2>1. dinode[i].nlink = 0
    BY <1>2, <1>3 DEF IInv, Coherent
  <2>2. dinode[i].type # "free"
    <3>1. dinode[i].type = "free" => Forsaken(s)
      BY <1>2, Constants DEF IInv, Alive
    <3>2. ~Leaving(p)
      BY <1>0 DEF Leaving
    <3> QED
      BY <1>1, <3>1, <3>2 DEF Forsaken
  <2>3. Entries(i) = {}
    BY <2>1, NamedLinked
  <2>4. i # ROOTINO
    BY <2>1, RootLinked
  <2> QED
    BY <2>1, <2>2, <2>3, <2>4
<1>7. PICK gone \in [type : Types, nlink : Nat] : gone = [type |-> "free", nlink |-> 0]
  BY DEF Types
<1>8. /\ dinode' = [dinode EXCEPT ![i] = gone] /\ icache' = [icache EXCEPT ![s].type = "free"]
      /\ ents' = [ents EXCEPT ![i] = Empty] /\ pc' = [pc EXCEPT ![p] = "freed"]
      /\ lock' = lock /\ fd' = fd /\ loc' = loc /\ leaked' = leaked /\ panicked' = panicked
      /\ overlap' = overlap /\ calls' = calls
  BY <1>1, <1>2, <1>7 DEF IPutFree
<1>9. /\ dinode' \in [Inums -> [type : Types, nlink : Nat]] /\ dinode'[i] = gone
      /\ dinode'[i].type = "free" /\ dinode'[i].nlink = 0
      /\ \A a \in Inums : a # i => dinode'[a] = dinode[a]
  BY <1>0, <1>7, <1>8 DEF TypeOK
<1>10. /\ ents' \in [Inums -> [Names -> Inums \union {0}]] /\ ents'[i] = Empty
       /\ \A a \in Inums : a # i => ents'[a] = ents[a]
       /\ \A n \in Names : ents'[i][n] = 0
  BY <1>0, <1>8 DEF TypeOK, Empty
<1>11. /\ icache' \in Caches /\ \A t \in Slots : t # s => icache'[t] = icache[t]
       /\ \A t \in Slots : /\ icache'[t].inum = icache[t].inum /\ icache'[t].ref = icache[t].ref
                           /\ icache'[t].valid = icache[t].valid
                           /\ icache'[t].nlink = icache[t].nlink
  <2>1. PICK c \in Caches : c = icache
    BY <1>0, TypeOKIs
  <2>2. PICK r : r = [c[s] EXCEPT !.type = "free"]
    OBVIOUS
  <2>3. /\ r \in SlotRec /\ r.inum = c[s].inum /\ r.ref = c[s].ref /\ r.valid = c[s].valid
        /\ r.nlink = c[s].nlink
    BY <2>2 DEF Caches, SlotRec, Types
  <2>4. icache' = [c EXCEPT ![s] = r]
    BY <1>8, <2>1, <2>2
  <2>5. icache' \in Caches /\ icache'[s] = r /\ \A t \in Slots : t # s => icache'[t] = c[t]
    BY <2>3, <2>4 DEF Caches
  <2> QED
    BY <2>1, <2>3, <2>5
<1>12. \A t \in Slots : Inum(t)' = Inum(t)
  BY <1>11 DEF Inum
<1>13. /\ Others(p) /\ pc'[p] = "freed" /\ pc' \in [Procs -> PCs]
       /\ \A q \in Procs : /\ q # p => pc'[q] = pc[q]
                           /\ Label(q)' = Label(q) /\ (Linking(q)' <=> Linking(q))
                           /\ (HoldsDp(q)' <=> HoldsDp(q)) /\ (HoldsIp(q)' <=> HoldsIp(q))
       /\ Shape'
  <2>1. "freed" \in Putting /\ pc[p] \in Putting
    BY <1>0 DEF Putting
  <2> QED
    BY <1>8, <2>1, PuttingSame
<1>14. TypeOK'
  BY <1>0, <1>8, <1>9, <1>10, <1>11, <1>13 DEF TypeOK, Caches, SlotRec
<1>15. RefsExact'
  <2>1. \A t \in Slots : Pointers(t)' = Pointers(t)
    BY <1>8 DEF Pointers, PointsTo
  <2> QED
    BY <1>8, <1>11, <2>1 DEF IInv, RefsExact
<1>16. SlotsApart'
  BY <1>0, <1>11, <1>14, ApartStep
<1>17. Locks'
  <2>1. \A t \in Slots : Holds(p, t)' <=> Holds(p, t)
    BY <1>0, <1>8, <1>13 DEF Holds, HoldsPut
  <2>2. LockMoves(p)
    BY <1>8, <2>1, LockKept
  <2>3. OwnLocks(p)'
    <3>1. OwnLocks(p)
      BY Caller
    <3> QED
      BY <1>0, <1>8, <1>13, <3>1 DEF OwnLocks, Putting
  <2>4. \A t \in Slots : lock'[t] # Nobody => icache'[t].valid
    BY <1>8, <1>11 DEF IInv, Locks
  <2> QED
    BY <1>13, <2>2, <2>3, <2>4, LocksStep
<1>18. \A t \in Slots : Freeing(t)' <=> Freeing(t) \/ t = s
  BY <1>0, <1>1, <1>8, <1>13 DEF Freeing
<1>19. Coherent'
  <2> SUFFICES ASSUME NEW t \in Slots, icache'[t].valid
               PROVE  /\ icache'[t].nlink = dinode'[Inum(t)'].nlink
                      /\ icache'[t].type = dinode'[Inum(t)'].type \/ Freeing(t)'
    BY DEF Coherent
  <2>1. CASE t = s
    BY <1>2, <1>3, <1>9, <1>11, <1>12, <1>18, <2>1
  <2>2. CASE t # s
    <3>1. icache[t].valid /\ Inum(t) \in Inums
      BY <1>11, ValidHasInode
    <3>2. dinode'[Inum(t)] = dinode[Inum(t)]
      BY <1>5, <1>9, <2>2, <3>1
    <3> QED
      BY <1>11, <1>12, <1>18, <2>2, <3>1, <3>2 DEF IInv, Coherent
  <2> QED
    BY <2>1, <2>2
<1>20. \A a \in Inums : Entries(a)' \subseteq Entries(a)
  BY <1>10, Constants DEF Entries
<1>21. \A q \in Procs : Leaving(q) => Leaving(q)'
  BY <1>13 DEF Leaving
<1>22. \A t \in Slots : Forsaken(t) => Forsaken(t)'
  BY <1>8, <1>21 DEF Forsaken
<1>23. Alive'
  <2>1. dinode'[ROOTINO].type = "dir"
    BY <1>6, <1>9, Constants DEF IInv, Alive
  <2>2. ASSUME NEW a \in Inums, dinode'[a].type = "free"
        PROVE  Entries(a)' = {} /\ dinode'[a].nlink = 0
    BY <1>6, <1>9, <1>20, <2>2 DEF IInv, Alive
  <2>3. ASSUME NEW a \in Inums, dinode'[a].type # "dir"
        PROVE  ents'[a] = Empty
    BY <1>9, <1>10, <2>3 DEF IInv, Alive
  <2>4. ASSUME NEW t \in Slots, Inum(t)' # 0, dinode'[Inum(t)'].type = "free"
        PROVE  /\ Forsaken(t)' /\ \A q \in Procs : loc'[q].ip # t
               /\ icache'[t].valid => Freeing(t)'
    <3>1. CASE t = s
      <4>1. Forsaken(s)'
        BY <1>4, <1>8, <1>13 DEF Forsaken, Leaving
      <4> QED
        BY <1>4, <1>8, <1>18, <3>1, <4>1
    <3>2. CASE t # s
      <4>1. Inum(t) \in Inums /\ Inum(t) # 0
        BY <1>0, <1>12, <2>4 DEF TypeOK, Inum
      <4>2. dinode[Inum(t)].type = "free"
        BY <1>5, <1>9, <1>12, <2>4, <3>2, <4>1
      <4>3. /\ Forsaken(t) /\ \A q \in Procs : loc[q].ip # t
            /\ icache[t].valid => Freeing(t)
        BY <4>1, <4>2 DEF IInv, Alive
      <4> QED
        BY <1>8, <1>11, <1>18, <1>22, <4>3
    <3> QED
      BY <3>1, <3>2
  <2>5. ASSUME NEW q \in Procs, loc'[q].dp # 0
        PROVE  dinode'[Inum(loc[q].dp)'].type = "dir"
    <3>1. PICK d \in Slots : d = loc[q].dp
      BY <1>8, <2>5, Caller
    <3>2. d # s /\ d # 0 /\ Inum(d) \in Inums
      BY <1>4, <3>1, Caller, Constants
    <3>3. dinode[Inum(d)].type = "dir"
      BY <3>1, <3>2 DEF IInv, Alive
    <3>4. Inum(loc[q].dp)' = Inum(d)
      BY <1>8, <1>12, <3>1 DEF Inum
    <3> QED
      BY <1>5, <1>9, <3>2, <3>3, <3>4
  <2>6. ASSUME NEW q \in Procs, Linking(q)'
        PROVE  dinode'[Inum(loc[q].ip)'].type = "file"
    <3>1. Linking(q) /\ loc[q].ip # 0
      BY <1>13, <2>6 DEF IInv, Shape, ShapeOf
    <3>2. PICK k \in Slots : k = loc[q].ip
      BY <3>1, Caller
    <3>3. k # s /\ Inum(k) \in Inums
      BY <1>4, <3>1, <3>2, Caller
    <3>4. dinode[Inum(k)].type = "file"
      BY <3>1, <3>2 DEF IInv, Alive
    <3>5. Inum(loc[q].ip)' = Inum(k)
      BY <1>8, <1>12, <3>2 DEF Inum
    <3> QED
      BY <1>5, <1>9, <3>3, <3>4, <3>5
  <2> QED
    BY <2>1, <2>2, <2>3, <2>4, <2>5, <2>6 DEF Alive
<1>24. Making'
  <2> SUFFICES ASSUME NEW q \in Procs, pc'[q] = "createinit"
               PROVE  MakingOf(q)'
    BY DEF Making
  <2>1. q # p /\ pc[q] = "createinit"
    BY <1>13
  <2>2. PICK d \in Slots, k \in Slots : d = loc[q].dp /\ k = loc[q].ip
    BY <2>1, AtCreateInit
  <2>3. PICK e \in Inums, j \in Inums : e = Inum(d) /\ j = Inum(k)
    BY <2>1, <2>2, AtCreateInit
  <2>4. d # s /\ k # s /\ e # i /\ j # i
    BY <1>4, <1>5, <2>1, <2>2, <2>3
  <2>5. /\ Inum(loc[q].dp)' = e /\ Inum(loc[q].ip)' = j /\ Name(q)' = Name(q) /\ loc'[q] = loc[q]
    BY <1>8, <1>12, <2>2, <2>3 DEF Inum, Name
  <2>6. /\ dinode[j] = [type |-> TypeFor(loc[q].op), nlink |-> 0]
        /\ Entries(j) = {} /\ ents[j] = Empty
        /\ Forsaken(k) /\ \A u \in Procs : loc[u].ip = k => u = q
        /\ ents[e][Name(q)] = 0
    BY <2>1, <2>2, <2>3, AtCreateInit DEF MakingOf
  <2>7. Entries(j)' = {}
    BY <1>20, <2>6
  <2>8. ents'[e][Name(q)'] = 0 /\ ents'[j] = Empty /\ dinode'[j] = dinode[j]
    BY <1>9, <1>10, <2>4, <2>5, <2>6
  <2>9. Forsaken(loc[q].ip)'
    <3>1. Forsaken(k)'
      BY <1>22, <2>6
    <3>2. loc'[q].ip = k
      BY <2>2, <2>5
    <3> QED
      BY <3>1, <3>2 DEF Forsaken
  <2>10. \A u \in Procs : loc'[u].ip = loc'[q].ip => u = q
    BY <1>8, <2>2, <2>6
  <2>11. Entries(Inum(loc[q].ip))' = {}
    BY <2>5, <2>7 DEF Entries
  <2> QED
    BY <2>5, <2>6, <2>8, <2>9, <2>10, <2>11 DEF MakingOf
<1>25. Truncating'
  <2>1. ASSUME NEW q \in Procs, pc'[q] = "trunc"
        PROVE  icache'[loc'[q].put].ref = 1 /\ icache'[loc'[q].put].nlink = 0
    <3>1. pc[q] = "trunc" /\ loc'[q].put = loc[q].put
      BY <1>8, <1>13, <2>1
    <3>2. loc[q].put \in Slots
      BY <3>1, Caller DEF ShapeOf, Putting
    <3> QED
      BY <1>11, <3>1, <3>2 DEF IInv, Truncating
  <2>2. ASSUME NEW q \in Procs, pc'[q] = "freed"
        PROVE  \/ dinode'[Inum(loc[q].put)'].type = "free"
               \/ \E u \in Procs : pc'[u] = "createinit" /\ loc'[u].ip = loc'[q].put
    <3>1. PICK t \in Slots : t = loc[q].put
      <4>1. pc[q] \in Putting
        BY <1>0, <1>13, <2>2 DEF Putting
      <4> QED
        BY <4>1, Caller DEF ShapeOf
    <3>2. Inum(loc[q].put)' = Inum(t) /\ Inum(t) \in Inums
      BY <1>8, <1>12, <3>1, Caller, Constants DEF Inum
    <3>3. CASE q = p
      BY <1>1, <1>2, <1>9, <3>1, <3>2, <3>3
    <3>4. CASE q # p
      <4>1. pc[q] = "freed"
        BY <1>13, <2>2, <3>4
      <4>2. CASE dinode[Inum(t)].type = "free"
        BY <1>9, <3>2, <4>2
      <4>3. CASE \E u \in Procs : pc[u] = "createinit" /\ loc[u].ip = t
        <5>1. PICK u \in Procs : pc[u] = "createinit" /\ loc[u].ip = t
          BY <4>3
        <5>2. pc'[u] = "createinit" /\ loc'[u].ip = loc'[q].put
          BY <1>0, <1>8, <1>13, <3>1, <5>1
        <5> QED
          BY <5>2
      <4> QED
        BY <3>1, <4>1, <4>2, <4>3 DEF IInv, Truncating
    <3> QED
      BY <3>3, <3>4
  <2> QED
    BY <2>1, <2>2 DEF Truncating
<1>26. DirKids(i) = {} \/ dinode[i].type = "file"
  <2>1. CASE dinode[i].type = "dir"
    <3>1. dinode[i].nlink = Cardinality(DirKids(i)) + Up(i)
      BY <2>1 DEF IInv, Counted, DirCounted
    <3>2. Up(i) \in Nat /\ Cardinality(DirKids(i)) \in Nat
      BY CallsFinite, EntriesFinite DEF Up, Frac
    <3>3. Cardinality(DirKids(i)) = 0
      BY <1>6, <3>1, <3>2
    <3> QED
      BY <3>3, CallsFinite, FS_EmptySet
  <2> QED
    BY <1>0, <1>6, <2>1 DEF TypeOK, Types
<1>27. Counted'
  <2>1. \A a \in Inums : Linkers(a)' = Linkers(a) /\ Unlinkers(a)' = Unlinkers(a)
    <3>1. \A q \in Procs : Linking(q) \/ Label(q) = "unlinkdec" => loc[q].ip \in Slots
      BY Caller DEF ShapeOf
    <3>2. \A q \in Procs : Linking(q) \/ Label(q) = "unlinkdec" => Inum(loc[q].ip)' = Inum(loc[q].ip)
      BY <1>8, <1>12, <3>1 DEF Inum
    <3> QED
      BY <1>13, <3>2 DEF Linkers, Unlinkers
  <2>2. ASSUME NEW a \in Inums, dinode'[a].type = "file"
        PROVE  FileCounted(a)'
    <3>1. a # i /\ dinode'[a] = dinode[a]
      BY <1>9, <2>2
    <3>2. FileCounted(a)
      BY <2>2, <3>1 DEF IInv, Counted
    <3>3. Cardinality(Entries(a)') <= Cardinality(Entries(a)) /\ Cardinality(Entries(a)') \in Nat
      BY <1>20, EntriesFinite, FS_Subset, FS_CardinalityType
    <3>4. dinode[a].nlink \in Nat
      BY <1>0 DEF TypeOK
    <3> QED
      BY <2>1, <3>1, <3>2, <3>3, <3>4, CallsFinite, EntriesFinite DEF FileCounted
  <2>3. ASSUME NEW a \in Inums, dinode'[a].type = "dir"
        PROVE  DirCounted(a)'
    <3>1. a # i /\ dinode'[a] = dinode[a]
      BY <1>9, <2>3
    <3>2. DirCounted(a)
      BY <2>3, <3>1 DEF IInv, Counted
    <3>3. Entries(a)' = Entries(a)
      <4>1. \A n \in Names : ents[i][n] # a
        <5>1. ASSUME NEW n \in Names, ents[i][n] = a
              PROVE  FALSE
          <6>1. n \in DirKids(i)
            BY <2>3, <3>1, <5>1, Constants DEF DirKids
          <6>2. dinode[i].type = "file" /\ ents[i] = Empty
            BY <1>26, <6>1 DEF IInv, Alive
          <6> QED
            BY <5>1, <6>2, Constants DEF Empty
        <5> QED
          BY <5>1
      <4>2. \A b \in Inums, n \in Names : ents'[b][n] = a <=> ents[b][n] = a
        BY <1>10, <4>1, Constants
      <4> QED
        BY <4>2 DEF Entries
    <3>4. DirKids(a)' = DirKids(a)
      <4>1. ents'[a] = ents[a]
        BY <1>10, <3>1
      <4>2. ASSUME NEW n \in Names, ents[a][n] # 0
            PROVE  dinode'[ents[a][n]] = dinode[ents[a][n]]
        <5>1. ents[a][n] \in Inums
          BY <4>2, EntryLinked
        <5>2. ents[a][n] # i
          BY <1>6, EntryIs
        <5> QED
          BY <1>9, <5>1, <5>2
      <4> QED
        BY <4>1, <4>2 DEF DirKids
    <3>5. Up(a)' = Up(a)
      BY <2>1, <3>3 DEF Up
    <3> QED
      BY <3>1, <3>2, <3>4, <3>5 DEF DirCounted
  <2> QED
    BY <2>2, <2>3 DEF Counted
<1>28. Named'
  <2> SUFFICES ASSUME NEW q \in Procs
               PROVE  NamedOf(q)'
    BY DEF Named
  <2>0. NamedOf(q) /\ Label(q)' = Label(q) /\ loc'[q] = loc[q] /\ (pc'[q] = "iput" => pc[q] = "iput")
    BY <1>8, <1>13, Caller
  <2>1. ASSUME Label(q)' = "unlinkip"
        PROVE  ents'[Inum(loc[q].dp)'][Name(q)'] = Inum(loc[q].ip)'
    <3>1. Label(q) = "unlinkip"
      BY <2>0, <2>1
    <3>2. PICK d \in Slots, k \in Slots : d = loc[q].dp /\ k = loc[q].ip
      BY <3>1, Caller DEF ShapeOf
    <3>3. d # s /\ Inum(d) \in Inums /\ Inum(d) # i
      BY <1>4, <1>5, <3>2, Caller, Constants
    <3>4. ents[Inum(d)][Name(q)] = Inum(k)
      BY <2>0, <3>1, <3>2 DEF NamedOf
    <3>5. Inum(loc[q].dp)' = Inum(d) /\ Inum(loc[q].ip)' = Inum(k) /\ Name(q)' = Name(q)
      BY <1>12, <2>0, <3>2 DEF Inum, Name
    <3> QED
      BY <1>10, <3>3, <3>4, <3>5
  <2>2. ASSUME Label(q)' \in {"linkclash", "unlinkbad"}, pc'[q] = "iput"
        PROVE  \E n \in Names : ents'[Inum(loc[q].dp)'][n] = Inum(loc[q].put)'
    <3>1. Label(q) \in {"linkclash", "unlinkbad"} /\ pc[q] = "iput"
      BY <2>0, <2>2
    <3>2. PICK d \in Slots, k \in Slots : d = loc[q].dp /\ k = loc[q].put
      BY <3>1, Caller DEF ShapeOf, Putting
    <3>3. d # s /\ Inum(d) \in Inums /\ Inum(d) # i
      BY <1>4, <1>5, <3>2, Caller, Constants
    <3>4. PICK n \in Names : ents[Inum(d)][n] = Inum(k)
      BY <2>0, <3>1, <3>2 DEF NamedOf
    <3>5. Inum(loc[q].dp)' = Inum(d) /\ Inum(loc[q].put)' = Inum(k)
      BY <1>12, <2>0, <3>2 DEF Inum
    <3> QED
      BY <1>10, <3>3, <3>4, <3>5
  <2> QED
    BY <2>1, <2>2 DEF NamedOf
<1>29. NoLoops'
  <2>1. \A a, b \in Inums, n \in Names : ents'[a][n] = b => ents[a][n] = b
    BY <1>10, Constants
  <2> QED
    BY <2>1 DEF IInv, NoLoops
<1>30. Known'
  <2> SUFFICES ASSUME NEW q \in Procs, NEW t \in Uses(q)'
               PROVE  icache'[t].valid \/ dinode'[Inum(t)'].nlink > 0
    BY DEF Known
  <2>1. t \in Uses(q) /\ t # s
    BY <1>0, <1>4, <1>8, <1>13 DEF Uses
  <2>2. t \in Slots /\ Inum(t) \in Inums
    BY <2>1, Caller DEF Uses
  <2>3. icache[t].valid \/ dinode[Inum(t)].nlink > 0
    BY <2>1 DEF IInv, Known
  <2> QED
    BY <1>5, <1>9, <1>11, <1>12, <2>1, <2>2, <2>3
<1>31. NoneLost'
  <2> SUFFICES ASSUME NEW a \in Inums, dinode'[a].type # "free", dinode'[a].nlink = 0
               PROVE  a \in overlap' \/ \E t \in Slots : Inum(t)' = a /\ Kept(t)'
    BY DEF NoneLost
  <2>1. dinode'[a] = dinode[a]
    BY <1>9
  <2>2. a \in overlap \/ \E t \in Slots : Inum(t) = a /\ Kept(t)
    BY <2>1 DEF IInv, NoneLost
  <2>3. \A q \in Procs : pc[q] # "unref" => pc'[q] # "unref"
    BY <1>13
  <2>4. \A t \in Slots : Kept(t) => Kept(t)'
    BY <1>8, <2>3 DEF Kept, Keeps
  <2> QED
    BY <1>8, <1>12, <2>2, <2>4
<1> QED
  BY <1>13, <1>14, <1>15, <1>16, <1>17, <1>19, <1>23, <1>24, <1>25, <1>27, <1>28, <1>29, <1>30, <1>31
     DEF IInv

LEMMA IPutInvalidKeeps ==
    ASSUME IInv, NEW p \in Procs, IPutInvalid(p)
    PROVE  IInv'
<1>0. pc[p] = "freed" /\ TypeOK /\ SlotsApart
  BY DEF IPutInvalid, At, IInv
<1>1. PICK s \in Slots : s = loc[p].put
  BY <1>0, Caller DEF ShapeOf, Putting
<1>2. PICK i \in Inums : i = Inum(s)
  BY <1>1, Caller, Constants
<1>3. lock[s] = p /\ p # Nobody
  <2>1. Holds(p, s)
    BY <1>0, <1>1 DEF Holds, HoldsPut
  <2> QED
    BY <2>1, Constants DEF IInv, Locks
\* The inode is free, or another's that still waits to enter it.
<1>4. /\ Forsaken(s)
      /\ \A q \in Procs : loc[q].ip = s => pc[q] = "createinit"
      /\ dinode[i].type # "free" => \E q \in Procs : pc[q] = "createinit" /\ loc[q].ip = s
  <2>1. CASE dinode[i].type = "free"
    <3>1. Forsaken(s) /\ \A q \in Procs : loc[q].ip # s
      BY <1>2, <2>1, Constants DEF IInv, Alive
    <3> QED
      BY <2>1, <3>1
  <2>2. CASE \E q \in Procs : pc[q] = "createinit" /\ loc[q].ip = s
    <3>1. PICK q \in Procs : pc[q] = "createinit" /\ loc[q].ip = s
      BY <2>2
    <3>2. MakingOf(q)
      BY <3>1 DEF IInv, Making
    <3>3. Forsaken(s) /\ \A u \in Procs : loc[u].ip = s => u = q
      BY <3>1, <3>2 DEF MakingOf
    <3> QED
      BY <3>1, <3>3
  <2> QED
    BY <1>0, <1>1, <1>2, <2>1, <2>2 DEF IInv, Truncating
<1>5. /\ icache' = [icache EXCEPT ![s].valid = FALSE] /\ lock' = [lock EXCEPT ![s] = Nobody]
      /\ pc' = [pc EXCEPT ![p] = "unref"] /\ dinode' = dinode /\ ents' = ents
      /\ fd' = fd /\ loc' = loc /\ leaked' = leaked /\ panicked' = panicked
      /\ overlap' = overlap /\ calls' = calls
  BY <1>1 DEF IPutInvalid
<1>6. /\ icache' \in Caches /\ ~icache'[s].valid
      /\ \A t \in Slots : t # s => icache'[t] = icache[t]
      /\ \A t \in Slots : /\ icache'[t].inum = icache[t].inum /\ icache'[t].ref = icache[t].ref
                          /\ icache'[t].nlink = icache[t].nlink
                          /\ icache'[t].valid => icache[t].valid
  <2>1. PICK c \in Caches : c = icache
    BY <1>0, TypeOKIs
  <2>2. PICK r : r = [c[s] EXCEPT !.valid = FALSE]
    OBVIOUS
  <2>3. /\ r \in SlotRec /\ r.inum = c[s].inum /\ r.ref = c[s].ref /\ ~r.valid
        /\ r.nlink = c[s].nlink
    BY <2>2 DEF Caches, SlotRec
  <2>4. icache' = [c EXCEPT ![s] = r]
    BY <1>5, <2>1, <2>2
  <2>5. icache' \in Caches /\ icache'[s] = r /\ \A t \in Slots : t # s => icache'[t] = c[t]
    BY <2>3, <2>4 DEF Caches
  <2> QED
    BY <2>1, <2>3, <2>5
<1>7. \A t \in Slots : Inum(t)' = Inum(t)
  BY <1>6 DEF Inum
<1>8. /\ Others(p) /\ pc'[p] = "unref" /\ pc' \in [Procs -> PCs]
      /\ \A q \in Procs : /\ q # p => pc'[q] = pc[q]
                          /\ Label(q)' = Label(q) /\ (Linking(q)' <=> Linking(q))
                          /\ (HoldsDp(q)' <=> HoldsDp(q)) /\ (HoldsIp(q)' <=> HoldsIp(q))
      /\ Shape'
  <2>1. "unref" \in Putting /\ pc[p] \in Putting
    BY <1>0 DEF Putting
  <2> QED
    BY <1>5, <2>1, PuttingSame
<1>9. lock' \in [Slots -> Procs \union {Nobody}] /\ lock'[s] = Nobody
      /\ \A t \in Slots : t # s => lock'[t] = lock[t]
  BY <1>0, <1>5 DEF TypeOK
<1>10. TypeOK'
  BY <1>0, <1>5, <1>6, <1>8, <1>9 DEF TypeOK, Caches, SlotRec
<1>11. RefsExact'
  <2>1. \A t \in Slots : Pointers(t)' = Pointers(t)
    BY <1>5 DEF Pointers, PointsTo
  <2> QED
    BY <1>5, <1>6, <2>1 DEF IInv, RefsExact
<1>12. SlotsApart'
  BY <1>0, <1>6, <1>10, ApartStep
<1>13. Locks'
  <2>1. OwnLocks(p)
    BY Caller
  <2>2. \A t \in Slots : Holds(p, t)' <=> Holds(p, t) /\ t # s
    <3>1. ~HoldsPut(p)' /\ HoldsPut(p)
      BY <1>0, <1>8 DEF HoldsPut
    <3>2. (HoldsDp(p) => loc[p].dp # s) /\ (HoldsIp(p) => loc[p].ip # s)
      BY <1>1, <2>1 DEF OwnLocks
    <3> QED
      BY <1>1, <1>5, <1>8, <3>1, <3>2 DEF Holds
  <2>3. LockMoves(p)
    <3> SUFFICES ASSUME NEW t \in Slots
                 PROVE  /\ lock'[t] = p <=> Holds(p, t)'
                        /\ \A q \in Procs : q # p => (lock'[t] = q <=> lock[t] = q)
                        /\ lock'[t] # Nobody => lock[t] # Nobody
      BY DEF LockMoves
    <3>1. CASE t = s
      BY <1>3, <1>9, <2>2, <3>1, Constants
    <3>2. CASE t # s
      <4>1. lock[t] = p <=> Holds(p, t)
        BY DEF IInv, Locks
      <4> QED
        BY <1>9, <2>2, <3>2, <4>1
    <3> QED
      BY <3>1, <3>2
  <2>4. OwnLocks(p)'
    BY <1>0, <1>5, <1>8, <2>1 DEF OwnLocks, Putting
  <2>5. \A t \in Slots : lock'[t] # Nobody => icache'[t].valid
    BY <1>6, <1>9 DEF IInv, Locks
  <2> QED
    BY <1>8, <2>3, <2>4, <2>5, LocksStep
<1>14. \A t \in Slots : Freeing(t) => Freeing(t)' \/ t = s
  BY <1>0, <1>1, <1>5, <1>8 DEF Freeing
<1>15. Coherent'
  <2> SUFFICES ASSUME NEW t \in Slots, icache'[t].valid
               PROVE  /\ icache'[t].nlink = dinode[Inum(t)'].nlink
                      /\ icache'[t].type = dinode[Inum(t)'].type \/ Freeing(t)'
    BY <1>5 DEF Coherent
  <2>1. t # s
    BY <1>6
  <2> QED
    BY <1>6, <1>7, <1>14, <2>1 DEF IInv, Coherent
<1>16. \A q \in Procs : Leaving(q) => Leaving(q)'
  BY <1>8 DEF Leaving
<1>17. \A t \in Slots : Forsaken(t) => Forsaken(t)'
  BY <1>5, <1>16 DEF Forsaken
<1>18. \A a \in Inums : Entries(a)' = Entries(a)
  BY <1>5 DEF Entries
<1>19. Alive'
  <2>1. /\ dinode'[ROOTINO].type = "dir"
        /\ \A a \in Inums : dinode'[a].type = "free" => Entries(a)' = {} /\ dinode'[a].nlink = 0
        /\ \A a \in Inums : dinode'[a].type # "dir" => ents'[a] = Empty
    BY <1>5, <1>18 DEF IInv, Alive
  <2>2. ASSUME NEW t \in Slots, Inum(t)' # 0, dinode'[Inum(t)'].type = "free"
        PROVE  /\ Forsaken(t)' /\ \A q \in Procs : loc'[q].ip # t
               /\ icache'[t].valid => Freeing(t)'
    <3>1. /\ Forsaken(t) /\ \A q \in Procs : loc[q].ip # t
          /\ icache[t].valid => Freeing(t)
      BY <1>5, <1>7, <2>2 DEF IInv, Alive
    <3>2. icache'[t].valid => Freeing(t)'
      BY <1>6, <1>14, <3>1
    <3> QED
      BY <1>5, <1>17, <3>1, <3>2
  <2>3. ASSUME NEW q \in Procs, loc'[q].dp # 0
        PROVE  dinode'[Inum(loc[q].dp)'].type = "dir"
    <3>1. PICK d \in Slots : d = loc[q].dp
      BY <1>5, <2>3, Caller
    <3>2. dinode[Inum(d)].type = "dir"
      BY <1>5, <2>3, <3>1 DEF IInv, Alive
    <3>3. Inum(loc[q].dp)' = Inum(d)
      BY <1>5, <1>7, <3>1 DEF Inum
    <3> QED
      BY <1>5, <3>2, <3>3
  <2>4. ASSUME NEW q \in Procs, Linking(q)'
        PROVE  dinode'[Inum(loc[q].ip)'].type = "file"
    <3>1. Linking(q) /\ loc[q].ip # 0
      BY <1>8, <2>4 DEF IInv, Shape, ShapeOf
    <3>2. PICK k \in Slots : k = loc[q].ip
      BY <3>1, Caller
    <3>3. dinode[Inum(k)].type = "file"
      BY <3>1, <3>2 DEF IInv, Alive
    <3>4. Inum(loc[q].ip)' = Inum(k)
      BY <1>5, <1>7, <3>2 DEF Inum
    <3> QED
      BY <1>5, <3>3, <3>4
  <2> QED
    BY <2>1, <2>2, <2>3, <2>4 DEF Alive
<1>20. Making'
  <2> SUFFICES ASSUME NEW q \in Procs, pc'[q] = "createinit"
               PROVE  MakingOf(q)'
    BY DEF Making
  <2>1. q # p /\ pc[q] = "createinit"
    BY <1>8
  <2>2. PICK d \in Slots, k \in Slots : d = loc[q].dp /\ k = loc[q].ip
    BY <2>1, AtCreateInit
  <2>3. PICK e \in Inums, j \in Inums : e = Inum(d) /\ j = Inum(k)
    BY <2>1, <2>2, AtCreateInit
  <2>4. /\ Inum(loc[q].dp)' = e /\ Inum(loc[q].ip)' = j /\ Name(q)' = Name(q) /\ loc'[q] = loc[q]
    BY <1>5, <1>7, <2>2, <2>3 DEF Inum, Name
  <2>5. /\ dinode[j] = [type |-> TypeFor(loc[q].op), nlink |-> 0]
        /\ Entries(j) = {} /\ ents[j] = Empty
        /\ Forsaken(k) /\ \A u \in Procs : loc[u].ip = k => u = q
        /\ ents[e][Name(q)] = 0
    BY <2>1, <2>2, <2>3, AtCreateInit DEF MakingOf
  <2>6. Forsaken(loc[q].ip)'
    <3>1. Forsaken(k)'
      BY <1>17, <2>5
    <3>2. loc'[q].ip = k
      BY <2>2, <2>4
    <3> QED
      BY <3>1, <3>2 DEF Forsaken
  <2>7. \A u \in Procs : loc'[u].ip = loc'[q].ip => u = q
    BY <1>5, <2>2, <2>5
  <2>8. Entries(Inum(loc[q].ip))' = {}
    BY <1>18, <2>4, <2>5 DEF Entries
  <2> QED
    BY <1>5, <2>4, <2>5, <2>6, <2>7, <2>8 DEF MakingOf
<1>21. Truncating'
  <2>1. ASSUME NEW q \in Procs, pc'[q] = "trunc"
        PROVE  icache'[loc'[q].put].ref = 1 /\ icache'[loc'[q].put].nlink = 0
    <3>1. pc[q] = "trunc" /\ loc'[q].put = loc[q].put
      BY <1>5, <1>8, <2>1
    <3>2. loc[q].put \in Slots
      BY <3>1, Caller DEF ShapeOf, Putting
    <3> QED
      BY <1>6, <3>1, <3>2 DEF IInv, Truncating
  <2>2. ASSUME NEW q \in Procs, pc'[q] = "freed"
        PROVE  \/ dinode'[Inum(loc[q].put)'].type = "free"
               \/ \E u \in Procs : pc'[u] = "createinit" /\ loc'[u].ip = loc'[q].put
    <3>0. pc[q] = "freed"
      BY <1>8, <2>2
    <3>1. PICK t \in Slots : t = loc[q].put
      BY <3>0, Caller DEF ShapeOf, Putting
    <3>2. Inum(loc[q].put)' = Inum(t)
      BY <1>5, <1>7, <3>1 DEF Inum
    <3>3. CASE dinode[Inum(t)].type = "free"
      BY <1>5, <3>2, <3>3
    <3>4. CASE \E u \in Procs : pc[u] = "createinit" /\ loc[u].ip = t
      <4>1. PICK u \in Procs : pc[u] = "createinit" /\ loc[u].ip = t
        BY <3>4
      <4>2. pc'[u] = "createinit" /\ loc'[u].ip = loc'[q].put
        BY <1>0, <1>5, <1>8, <3>1, <4>1
      <4> QED
        BY <4>2
    <3> QED
      BY <3>0, <3>1, <3>3, <3>4 DEF IInv, Truncating
  <2> QED
    BY <2>1, <2>2 DEF Truncating
<1>22. Counted'
  <2>1. \A a \in Inums : Linkers(a)' = Linkers(a) /\ Unlinkers(a)' = Unlinkers(a)
    <3>1. \A q \in Procs : Linking(q) \/ Label(q) = "unlinkdec" => loc[q].ip \in Slots
      BY Caller DEF ShapeOf
    <3>2. \A q \in Procs : Linking(q) \/ Label(q) = "unlinkdec" => Inum(loc[q].ip)' = Inum(loc[q].ip)
      BY <1>5, <1>7, <3>1 DEF Inum
    <3> QED
      BY <1>8, <3>2 DEF Linkers, Unlinkers
  <2>2. \A a \in Inums : DirKids(a)' = DirKids(a)
    BY <1>5 DEF DirKids
  <2>3. \A a \in Inums : (FileCounted(a)' <=> FileCounted(a)) /\ (DirCounted(a)' <=> DirCounted(a))
    BY <1>5, <1>18, <2>1, <2>2 DEF FileCounted, DirCounted, Up
  <2> QED
    BY <1>5, <2>3 DEF IInv, Counted
<1>23. Named'
  <2> SUFFICES ASSUME NEW q \in Procs
               PROVE  NamedOf(q)'
    BY DEF Named
  <2>0. NamedOf(q) /\ Label(q)' = Label(q) /\ loc'[q] = loc[q] /\ (pc'[q] = "iput" => pc[q] = "iput")
    BY <1>5, <1>8, Caller
  <2>1. ASSUME Label(q)' = "unlinkip"
        PROVE  ents'[Inum(loc[q].dp)'][Name(q)'] = Inum(loc[q].ip)'
    <3>1. Label(q) = "unlinkip"
      BY <2>0, <2>1
    <3>2. PICK d \in Slots, k \in Slots : d = loc[q].dp /\ k = loc[q].ip
      BY <3>1, Caller DEF ShapeOf
    <3>3. ents[Inum(d)][Name(q)] = Inum(k)
      BY <2>0, <3>1, <3>2 DEF NamedOf
    <3>4. Inum(loc[q].dp)' = Inum(d) /\ Inum(loc[q].ip)' = Inum(k) /\ Name(q)' = Name(q)
      BY <1>7, <2>0, <3>2 DEF Inum, Name
    <3> QED
      BY <1>5, <3>3, <3>4
  <2>2. ASSUME Label(q)' \in {"linkclash", "unlinkbad"}, pc'[q] = "iput"
        PROVE  \E n \in Names : ents'[Inum(loc[q].dp)'][n] = Inum(loc[q].put)'
    <3>1. Label(q) \in {"linkclash", "unlinkbad"} /\ pc[q] = "iput"
      BY <2>0, <2>2
    <3>2. PICK d \in Slots, k \in Slots : d = loc[q].dp /\ k = loc[q].put
      BY <3>1, Caller DEF ShapeOf, Putting
    <3>3. PICK n \in Names : ents[Inum(d)][n] = Inum(k)
      BY <2>0, <3>1, <3>2 DEF NamedOf
    <3>4. Inum(loc[q].dp)' = Inum(d) /\ Inum(loc[q].put)' = Inum(k)
      BY <1>7, <2>0, <3>2 DEF Inum
    <3> QED
      BY <1>5, <3>3, <3>4
  <2> QED
    BY <2>1, <2>2 DEF NamedOf
<1>24. NoLoops'
  BY <1>5 DEF IInv, NoLoops
<1>25. Known'
  <2> SUFFICES ASSUME NEW q \in Procs, NEW t \in Uses(q)'
               PROVE  icache'[t].valid \/ dinode'[Inum(t)'].nlink > 0
    BY DEF Known
  <2>1. t \in Uses(q)
    BY <1>0, <1>5, <1>8 DEF Uses
  <2>2. t \in Slots
    BY <2>1, Caller DEF Uses
  <2>3. t # s
    <3>1. t \in {fd[q], loc[q].at, loc[q].dp} => t # s
      BY <1>4 DEF Forsaken
    <3>2. loc[q].ip = t /\ pc[q] # "createinit" => t # s
      BY <1>4
    <3>3. loc[q].put = t /\ pc[q] = "iput" => t # s
      BY <1>4 DEF Forsaken, Leaving
    <3> QED
      BY <2>1, <3>1, <3>2, <3>3 DEF Uses
  <2>4. icache[t].valid \/ dinode[Inum(t)].nlink > 0
    BY <2>1 DEF IInv, Known
  <2> QED
    BY <1>5, <1>6, <1>7, <2>2, <2>3, <2>4
<1>26. NoneLost'
  <2> SUFFICES ASSUME NEW a \in Inums, dinode[a].type # "free", dinode[a].nlink = 0, a \notin overlap
               PROVE  \E t \in Slots : Inum(t) = a /\ Kept(t)'
    BY <1>5, <1>7 DEF NoneLost
  <2>1. PICK t \in Slots : Inum(t) = a /\ Kept(t)
    BY DEF IInv, NoneLost
  <2>2. CASE t # s
    <3>1. \A q \in Procs : Keeps(q, t) => Keeps(q, t)'
      BY <1>1, <1>5, <1>8, <2>2 DEF Keeps
    <3> QED
      BY <1>5, <2>1, <3>1 DEF Kept
  <2>3. CASE t = s
    <3>1. PICK q \in Procs : loc[q].ip = s
      BY <1>2, <1>4, <2>1, <2>3
    <3>2. Keeps(q, s)'
      BY <1>5, <3>1 DEF Keeps
    <3> QED
      BY <2>1, <2>3, <3>2 DEF Kept
  <2> QED
    BY <2>2, <2>3
<1> QED
  BY <1>8, <1>10, <1>11, <1>12, <1>13, <1>15, <1>19, <1>20, <1>21, <1>22, <1>23, <1>24, <1>25, <1>26
     DEF IInv

\* iget for an inode that ialloc marked: nobody else uses its slot.
LEMMA NewSlot ==
    ASSUME IInv, NEW d \in Slots, Inum(d) \in Inums, icache[d].ref > 0,
           dinode[Inum(d)].type # "free", NEW new \in Inums, dinode[new].type = "free",
           NEW k, k = SlotOf(Load(icache, d), new), icache' = IGet(Load(icache, d), new)
    PROVE  /\ k \in Slots /\ k # d /\ Forsaken(k) /\ \A q \in Procs : loc[q].ip # k
           /\ icache' \in Caches /\ SlotsApart' /\ icache'[d].valid
           /\ Inum(k)' = new /\ \A t \in Slots : t # k => Inum(t)' = Inum(t) /\ Inum(t) # new
           /\ \A t \in Slots :
                /\ icache[t].ref > 0 => Inum(t)' = Inum(t)
                /\ icache'[t].ref = icache[t].ref + Frac(t = k)
                /\ icache[t].valid => /\ icache'[t].valid /\ icache'[t].nlink = icache[t].nlink
                                      /\ icache'[t].type = icache[t].type
                /\ icache'[t].valid /\ ~icache[t].valid =>
                      /\ t # k /\ Inum(t) \in Inums /\ icache'[t].type = dinode[Inum(t)].type
                      /\ icache'[t].nlink = dinode[Inum(t)].nlink /\ icache'[t].type # "free"
<1>1. PICK c : c = Load(icache, d)
  OBVIOUS
<1>2. /\ Fresh(c) /\ c[d].valid /\ \A t \in Slots : t # d => c[t] = icache[t]
  BY <1>1, LoadIs DEF IInv
<1>3. c \in Caches /\ Apart(c)
  BY <1>2, FreshApart DEF IInv, Fresh
<1>4. Got(c, icache', k, new)
  BY <1>1, <1>3, IGetIs
<1>5. /\ icache' \in Caches /\ k \in Slots /\ \A t \in Slots : t # k => icache'[t] = c[t]
      /\ icache'[k].inum = new /\ icache'[k].ref = c[k].ref + 1
  BY <1>4 DEF Got
<1>6. \/ /\ c[k].inum = new /\ c[k].ref > 0
         /\ icache'[k].valid = c[k].valid /\ icache'[k].type = c[k].type
         /\ icache'[k].nlink = c[k].nlink
      \/ c[k].ref = 0 /\ ~icache'[k].valid /\ \A t \in Slots : c[t].inum # new
  BY <1>4 DEF Got
<1>7. \A t \in Slots : c[t].inum = Inum(t) /\ c[t].ref = icache[t].ref
  BY <1>2 DEF Fresh, Inum
<1>8. /\ \A t \in Slots : icache[t].ref \in Nat
      /\ \A t \in Slots : icache[t].ref = 0 <=> Inum(t) = 0
      /\ \A t \in Slots : icache[t].ref = 0 => ~icache[t].valid
  BY DEF IInv, TypeOK, SlotsApart, Apart, Inum
<1>9. k # d
  BY <1>6, <1>7, <1>8
<1>10. Forsaken(k) /\ (\A q \in Procs : loc[q].ip # k)
  <2>1. CASE Inum(k) = new
    BY <1>5, <2>1, Constants DEF IInv, Alive
  <2>2. CASE icache[k].ref = 0
    <3>1. ~(k = ROOT \/ leaked[k] > 0)
      BY <1>5, <2>2, PointedHasInode DEF IInv
    <3>2. \A q \in Procs : k \notin {fd[q], loc[q].at, loc[q].dp, loc[q].ip, loc[q].put}
      BY <1>5, <2>2, PointedHasInode DEF IInv
    <3>3. leaked[k] \in Nat
      BY <1>5 DEF IInv, TypeOK
    <3> QED
      BY <3>1, <3>2, <3>3 DEF Forsaken
  <2> QED
    BY <1>5, <1>6, <1>7, <2>1, <2>2
<1>11. \A t \in Slots : t # k => Inum(t)' = Inum(t) /\ Inum(t) # new
  <2> SUFFICES ASSUME NEW t \in Slots, t # k
               PROVE  Inum(t)' = Inum(t) /\ Inum(t) # new
    OBVIOUS
  <2>1. Inum(t)' = Inum(t)
    BY <1>5, <1>7 DEF Inum
  <2>2. Inum(t) # new
    <3>1. CASE Inum(k) = new
      BY <1>5, <3>1, SameSlot DEF IInv
    <3>2. CASE \A u \in Slots : c[u].inum # new
      BY <1>7, <3>2
    <3> QED
      BY <1>5, <1>6, <1>7, <3>1, <3>2
  <2> QED
    BY <2>1, <2>2
<1>12. Inum(k)' = new
  BY <1>5 DEF Inum
<1>13. ASSUME NEW t \in Slots
       PROVE  /\ icache[t].ref > 0 => Inum(t)' = Inum(t)
              /\ icache'[t].ref = icache[t].ref + Frac(t = k)
  <2>1. CASE t = k
    <3>1. Frac(t = k) = 1
      BY <2>1 DEF Frac
    <3>2. icache[t].ref > 0 => Inum(k) = new
      BY <1>5, <1>6, <1>7, <1>8, <2>1
    <3> QED
      BY <1>5, <1>7, <1>12, <2>1, <3>1, <3>2
  <2>2. CASE t # k
    <3>1. Frac(t = k) = 0
      BY <2>2 DEF Frac
    <3>2. icache'[t].ref = icache[t].ref
      BY <1>5, <1>7, <2>2
    <3> QED
      BY <1>8, <1>11, <2>2, <3>1, <3>2
  <2> QED
    BY <2>1, <2>2
<1>14. ASSUME NEW t \in Slots
       PROVE  /\ icache[t].valid => /\ icache'[t].valid /\ icache'[t].nlink = icache[t].nlink
                                    /\ icache'[t].type = icache[t].type
              /\ icache'[t].valid /\ ~icache[t].valid =>
                    /\ t # k /\ Inum(t) \in Inums /\ icache'[t].type = dinode[Inum(t)].type
                    /\ icache'[t].nlink = dinode[Inum(t)].nlink /\ icache'[t].type # "free"
  <2>1. CASE t = k
    <3>1. c[k] = icache[k]
      BY <1>2, <1>5, <1>9
    <3> QED
      BY <1>5, <1>6, <1>8, <2>1, <3>1
  <2>2. CASE t # k
    <3>1. icache'[t] = c[t]
      BY <1>5, <2>2
    <3> QED
      BY <1>2, <2>2, <3>1 DEF Fresh
  <2> QED
    BY <2>1, <2>2
<1>15. icache'[d].valid
  BY <1>2, <1>5, <1>9
<1>16. SlotsApart'
  <2>1. ASSUME NEW t \in Slots
        PROVE  (icache'[t].ref = 0 <=> icache'[t].inum = 0) /\ (icache'[t].ref = 0 => ~icache'[t].valid)
    <3>1. CASE t = k
      BY <1>5, <1>7, <1>8, <3>1, Constants
    <3>2. CASE t # k
      <4>1. icache'[t] = c[t]
        BY <1>5, <3>2
      <4> QED
        BY <1>3, <4>1 DEF Apart
    <3> QED
      BY <3>1, <3>2
  <2>2. ASSUME NEW t \in Slots, NEW u \in Slots, icache'[t].ref > 0, icache'[t].inum = icache'[u].inum
        PROVE  t = u
    <3>1. CASE t = k
      BY <1>5, <1>11, <2>2, <3>1 DEF Inum
    <3>2. CASE u = k
      BY <1>5, <1>11, <2>2, <3>2 DEF Inum
    <3>3. CASE t # k /\ u # k
      <4>1. icache'[t] = c[t] /\ icache'[u] = c[u]
        BY <1>5, <3>3
      <4> QED
        BY <1>3, <2>2, <4>1 DEF Apart
    <3> QED
      BY <3>1, <3>2, <3>3
  <2>3. Inum(ROOT)' = ROOTINO
    <3>1. k # ROOT
      BY <1>10 DEF Forsaken
    <3> QED
      BY <1>11, <3>1, Constants DEF IInv, SlotsApart
  <2> QED
    BY <2>1, <2>2, <2>3 DEF SlotsApart, Apart
<1> QED
  BY <1>5, <1>9, <1>10, <1>11, <1>12, <1>13, <1>14, <1>15, <1>16

LEMMA CreateNewKeeps ==
    ASSUME IInv, NEW p \in Procs, pc[p] = "create", lock[loc[p].dp] = Nobody,
           ents[Inum(loc[p].dp)][Name(p)] = 0, NEW new \in Inums, dinode[new].type = "free",
           dinode' = [dinode EXCEPT ![new] = [type |-> TypeFor(loc[p].op), nlink |-> 0]],
           icache' = IGet(Load(icache, loc[p].dp), new), lock' = [lock EXCEPT ![loc[p].dp] = p],
           Step(p, "createinit", [loc[p] EXCEPT !.ip = SlotOf(Load(icache, loc[p].dp), new)]),
           overlap' = overlap \ {new}, panicked' = panicked, ents' = ents, fd' = fd,
           leaked' = leaked, calls' = calls
    PROVE  IInv'
<1>0. /\ Label(p) = "create" /\ ~Linking(p) /\ TypeOK /\ ShapeOf(p)
      /\ loc[p] \in CallRecs /\ loc[p].dp \in Slots /\ Inum(loc[p].dp) \in Inums
      /\ icache[loc[p].dp].ref > 0 /\ dinode[Inum(loc[p].dp)].type = "dir"
      /\ loc[p].at = 0 /\ loc[p].put = 0 /\ loc[p].ret = "idle"
      /\ loc[p].ip = 0 /\ Name(p) \in Names /\ \A s \in Slots : ~Holds(p, s)
  BY InParent
<1>1. PICK r \in CallRecs, d \in Slots, m \in Names : r = loc[p] /\ d = r.dp /\ m = Name(p)
  BY <1>0
<1>2. PICK k : k = SlotOf(Load(icache, d), new)
  OBVIOUS
<1>3. PICK e \in Inums : e = Inum(d)
  BY <1>0, <1>1
<1>4. PICK ty \in Types : ty = TypeFor(r.op) /\ ty # "free"
  BY DEF TypeFor, Types
<1>5. /\ r.op \in {"create", "mkdir", "symlink"} /\ r.rest # <<>> /\ d # 0 /\ fd[p] \in Slots \union {0}
      /\ r.at = 0 /\ r.put = 0 /\ r.ret = "idle" /\ r.ip = 0
      /\ dinode[e].type = "dir" /\ ents[e][m] = 0 /\ e # new /\ icache[d].ref > 0 /\ lock[d] = Nobody
  BY <1>0, <1>1, <1>3, Constants DEF ShapeOf, Creating, TypeOK
<1>6. /\ k \in Slots /\ k # d /\ Forsaken(k) /\ \A q \in Procs : loc[q].ip # k
      /\ icache' \in Caches /\ SlotsApart' /\ icache'[d].valid
      /\ Inum(k)' = new /\ \A t \in Slots : t # k => Inum(t)' = Inum(t) /\ Inum(t) # new
      /\ \A t \in Slots :
           /\ icache[t].ref > 0 => Inum(t)' = Inum(t)
           /\ icache'[t].ref = icache[t].ref + Frac(t = k)
           /\ icache[t].valid => /\ icache'[t].valid /\ icache'[t].nlink = icache[t].nlink
                                 /\ icache'[t].type = icache[t].type
           /\ icache'[t].valid /\ ~icache[t].valid =>
                 /\ t # k /\ Inum(t) \in Inums /\ icache'[t].type = dinode[Inum(t)].type
                 /\ icache'[t].nlink = dinode[Inum(t)].nlink /\ icache'[t].type # "free"
  <2>1. Inum(d) \in Inums /\ dinode[Inum(d)].type # "free" /\ icache' = IGet(Load(icache, d), new)
    BY <1>1, <1>3, <1>5
  <2> QED
    BY <1>2, <1>5, <2>1, NewSlot
<1>7. PICK n : n = [r EXCEPT !.ip = k]
  OBVIOUS
<1>8. /\ n \in CallRecs /\ n.op = r.op /\ n.old = r.old /\ n.new = r.new /\ n.rest = r.rest
      /\ n.phase = r.phase /\ n.par = r.par /\ n.at = 0 /\ n.dp = d /\ n.ip = k /\ n.put = 0
      /\ n.ret = "idle" /\ k # 0
  BY <1>1, <1>5, <1>6, <1>7, Constants DEF CallRecs
<1>9. Step(p, "createinit", n) /\ "createinit" \in PCs
  BY <1>1, <1>2, <1>7 DEF PCs
<1>10. /\ pc' \in [Procs -> PCs] /\ loc' \in [Procs -> CallRecs] /\ pc'[p] = "createinit"
       /\ loc'[p] = n /\ \A q \in Procs : q # p => pc'[q] = pc[q] /\ loc'[q] = loc[q]
  BY <1>0, <1>8, <1>9, StepIs
<1>11. Others(p)
  BY <1>10 DEF Others
<1>12. \A q \in Procs : q # p =>
             /\ fd'[q] = fd[q] /\ loc'[q] = loc[q] /\ pc'[q] = pc[q]
             /\ Label(q)' = Label(q) /\ (Linking(q)' <=> Linking(q))
  BY <1>11, OthersSame
<1>13. Label(p)' = "createinit" /\ ~Linking(p)'
  BY <1>10 DEF Label, Linking, Putting
<1>14. ShapeOf(p)'
  <2>1. ShapeOf(p)
    BY <1>0
  <2> QED
    BY <1>0, <1>1, <1>5, <1>8, <1>10, <1>13, <2>1 DEF ShapeOf, Putting, Creating, Unlinking
<1>15. Shape'
  BY <1>11, <1>14, ShapeStep DEF IInv
<1>16. /\ dinode' \in [Inums -> [type : Types, nlink : Nat]]
       /\ dinode'[new] = [type |-> TypeFor(r.op), nlink |-> 0]
       /\ dinode'[new].type = ty /\ dinode'[new].nlink = 0
       /\ \A a \in Inums : a # new => dinode'[a] = dinode[a]
       /\ \A a \in Inums : dinode'[a].nlink = dinode[a].nlink
  <2>1. PICK w \in [type : Types, nlink : Nat] : w = [type |-> ty, nlink |-> 0]
    OBVIOUS
  <2>2. dinode' = [dinode EXCEPT ![new] = w]
    BY <1>1, <1>4, <2>1
  <2>3. /\ dinode' \in [Inums -> [type : Types, nlink : Nat]] /\ dinode'[new] = w
        /\ \A a \in Inums : a # new => dinode'[a] = dinode[a]
    BY <1>0, <2>2 DEF TypeOK
  <2>4. dinode[new].nlink = 0
    BY DEF IInv, Alive
  <2> QED
    BY <1>4, <2>1, <2>3, <2>4
<1>17. lock' \in [Slots -> Procs \union {Nobody}] /\ lock' = [lock EXCEPT ![d] = p]
       /\ lock'[d] = p /\ \A t \in Slots : t # d => lock'[t] = lock[t]
  BY <1>0, <1>1 DEF TypeOK
<1>18. TypeOK'
  BY <1>0, <1>6, <1>10, <1>16, <1>17 DEF TypeOK, Caches, SlotRec
<1>19. RefsExact'
  <2>1. ASSUME NEW t \in Slots
        PROVE  icache'[t].ref + leaked[t] + PtrCount(p, t)
                 = icache[t].ref + leaked'[t] + PtrCount(p, t)'
    <3>1. PtrCount(p, t) = Frac(fd[p] = t) + Frac(r.at = t) + Frac(d = t) + Frac(r.ip = t) + Frac(r.put = t)
      BY <1>1 DEF PtrCount, CountIn
    <3>2. PtrCount(p, t)' = Frac(fd[p] = t) + Frac(n.at = t) + Frac(d = t) + Frac(k = t) + Frac(n.put = t)
      BY <1>8, <1>10 DEF PtrCount, CountIn
    <3>3. /\ Frac(r.at = t) = 0 /\ Frac(r.ip = t) = 0 /\ Frac(r.put = t) = 0
          /\ Frac(n.at = t) = 0 /\ Frac(n.put = t) = 0 /\ Frac(k = t) = Frac(t = k)
      BY <1>5, <1>8, Constants DEF Frac
    <3>4. Frac(fd[p] = t) \in Nat /\ Frac(d = t) \in Nat /\ Frac(t = k) \in Nat
      BY DEF Frac
    <3>5. PtrCount(p, t)' = PtrCount(p, t) + Frac(t = k)
      BY <3>1, <3>2, <3>3, <3>4
    <3>6. icache'[t].ref = icache[t].ref + Frac(t = k) /\ leaked'[t] = leaked[t]
      BY <1>6
    <3> QED
      BY <1>0, <1>18, <3>4, <3>5, <3>6, PtrTypes
  <2> QED
    BY <1>0, <1>11, <1>18, <2>1, RefsStep DEF IInv
<1>20. Locks'
  <2>1. \A t \in Slots : Holds(p, t)' <=> Holds(p, t) \/ t = d
    BY <1>0, <1>8, <1>10, <1>13 DEF Holds, HoldsPut, HoldsDp, HoldsIp
  <2>2. LockMoves(p)
    <3>1. lock[d] = Nobody /\ lock' = [lock EXCEPT ![d] = p] /\ icache'[d].valid
      BY <1>5, <1>6, <1>17
    <3> QED
      BY <2>1, <3>1, LockTaken
  <2>3. OwnLocks(p)'
    BY <1>5, <1>8, <1>10, <1>13 DEF OwnLocks, HoldsDp, HoldsIp, Putting
  <2>4. \A t \in Slots : lock'[t] # Nobody => icache'[t].valid
    BY <1>6, <1>17 DEF IInv, Locks
  <2> QED
    BY <1>11, <2>2, <2>3, <2>4, LocksStep
<1>21. \A t \in Slots : Freeing(t) => Freeing(t)'
  <2> SUFFICES ASSUME NEW t \in Slots, Freeing(t)
               PROVE  Freeing(t)'
    OBVIOUS
  <2>1. PICK q \in Procs : pc[q] = "freed" /\ loc[q].put = t
    BY DEF Freeing
  <2>2. q # p
    BY <2>1
  <2> QED
    BY <1>10, <2>1, <2>2 DEF Freeing
<1>22. Coherent'
  <2> SUFFICES ASSUME NEW t \in Slots, icache'[t].valid
               PROVE  /\ icache'[t].nlink = dinode'[Inum(t)'].nlink
                      /\ icache'[t].type = dinode'[Inum(t)'].type \/ Freeing(t)'
    BY DEF Coherent
  <2>1. CASE ~icache[t].valid
    <3>1. /\ t # k /\ Inum(t) \in Inums /\ icache'[t].type = dinode[Inum(t)].type
          /\ icache'[t].nlink = dinode[Inum(t)].nlink
      BY <1>6, <2>1
    <3>2. Inum(t)' = Inum(t) /\ Inum(t) # new
      BY <1>6, <3>1
    <3> QED
      BY <1>16, <3>1, <3>2
  <2>2. CASE icache[t].valid
    <3>1. Inum(t) \in Inums /\ Inum(t)' = Inum(t)
      BY <1>6, <2>2, ValidHasInode
    <3>2. /\ icache'[t].nlink = dinode[Inum(t)].nlink
          /\ icache'[t].type = dinode[Inum(t)].type \/ Freeing(t)
      BY <1>6, <2>2 DEF IInv, Coherent
    <3>3. CASE Inum(t) = new
      <4>1. dinode[Inum(t)].type = "free" /\ Inum(t) # 0
        BY <3>1, <3>3, Constants
      <4>2. Freeing(t)
        BY <2>2, <4>1 DEF IInv, Alive
      <4> QED
        BY <1>16, <1>21, <3>1, <3>2, <4>2
    <3>4. CASE Inum(t) # new
      BY <1>16, <1>21, <3>1, <3>2, <3>4
    <3> QED
      BY <3>3, <3>4
  <2> QED
    BY <2>1, <2>2
<1>23. \A t \in Slots : t # d /\ t # k /\ Forsaken(t) => Forsaken(t)'
  <2> SUFFICES ASSUME NEW t \in Slots, t # d, t # k, Forsaken(t)
               PROVE  Forsaken(t)'
    OBVIOUS
  <2>1. \A q \in Procs : /\ fd'[q] # t /\ loc'[q].at # t /\ loc'[q].dp # t
                         /\ loc'[q].put = t => Leaving(q)'
    <3> SUFFICES ASSUME NEW q \in Procs
                 PROVE  /\ fd'[q] # t /\ loc'[q].at # t /\ loc'[q].dp # t
                        /\ loc'[q].put = t => Leaving(q)'
      OBVIOUS
    <3>1. CASE q = p
      BY <1>8, <1>10, <3>1, Constants DEF Forsaken
    <3>2. CASE q # p
      BY <1>12, <3>2 DEF Forsaken, Leaving
    <3> QED
      BY <3>1, <3>2
  <2> QED
    BY <2>1 DEF Forsaken
<1>24. \A t \in Slots : Forsaken(t) => t # d
  BY <1>1 DEF Forsaken
<1>25. Forsaken(k)'
  <2>1. \A q \in Procs : /\ fd'[q] # k /\ loc'[q].at # k /\ loc'[q].dp # k
                         /\ loc'[q].put = k => Leaving(q)'
    <3> SUFFICES ASSUME NEW q \in Procs
                 PROVE  /\ fd'[q] # k /\ loc'[q].at # k /\ loc'[q].dp # k
                        /\ loc'[q].put = k => Leaving(q)'
      OBVIOUS
    <3>1. CASE q = p
      BY <1>6, <1>8, <1>10, <3>1, Constants DEF Forsaken
    <3>2. CASE q # p
      BY <1>6, <1>12, <3>2 DEF Forsaken, Leaving
    <3> QED
      BY <3>1, <3>2
  <2> QED
    BY <1>6, <2>1 DEF Forsaken
<1>26. \A a \in Inums : Entries(a)' = Entries(a)
  BY DEF Entries
\* What a variable of a call points to keeps its inode.
<1>27. \A q \in Procs : \A t \in {fd[q], loc[q].at, loc[q].dp, loc[q].ip, loc[q].put} \ {0} :
          t \in Slots /\ Inum(t) \in Inums /\ Inum(t)' = Inum(t)
  BY <1>6, Caller
<1>28. Entries(new) = {} /\ ents[new] = Empty /\ new # ROOTINO
  BY DEF IInv, Alive
<1>29. Alive'
  <2>1. dinode'[ROOTINO].type = "dir"
    BY <1>16, <1>28, Constants DEF IInv, Alive
  <2>2. ASSUME NEW a \in Inums, dinode'[a].type = "free"
        PROVE  Entries(a)' = {} /\ dinode'[a].nlink = 0
    BY <1>4, <1>16, <1>26, <2>2 DEF IInv, Alive
  <2>3. ASSUME NEW a \in Inums, dinode'[a].type # "dir"
        PROVE  ents'[a] = Empty
    BY <1>16, <1>28, <2>3 DEF IInv, Alive
  <2>4. ASSUME NEW t \in Slots, Inum(t)' # 0, dinode'[Inum(t)'].type = "free"
        PROVE  /\ Forsaken(t)' /\ \A q \in Procs : loc'[q].ip # t
               /\ icache'[t].valid => Freeing(t)'
    <3>1. t # k
      BY <1>4, <1>6, <1>16, <2>4
    <3>2. Inum(t)' = Inum(t) /\ Inum(t) # new
      BY <1>6, <3>1
    <3>3. Inum(t) \in Inums
      BY <1>0, <2>4, <3>2 DEF TypeOK, Inum
    <3>4. dinode[Inum(t)].type = "free" /\ Inum(t) # 0
      BY <1>16, <2>4, <3>2, <3>3
    <3>5. /\ Forsaken(t) /\ \A q \in Procs : loc[q].ip # t
          /\ icache[t].valid => Freeing(t)
      BY <3>4 DEF IInv, Alive
    <3>6. icache'[t].valid => icache[t].valid
      BY <1>6, <3>4
    <3>7. Forsaken(t)'
      BY <1>23, <1>24, <3>1, <3>5
    <3>8. \A q \in Procs : loc'[q].ip # t
      BY <1>8, <1>10, <3>1, <3>5
    <3> QED
      BY <1>21, <3>5, <3>6, <3>7, <3>8
  <2>5. ASSUME NEW q \in Procs, loc'[q].dp # 0
        PROVE  dinode'[Inum(loc[q].dp)'].type = "dir"
    <3>1. loc'[q].dp = loc[q].dp
      BY <1>1, <1>8, <1>10
    <3>2. PICK t \in Slots : t = loc[q].dp /\ Inum(t) \in Inums /\ Inum(t)' = Inum(t)
      BY <1>27, <2>5, <3>1
    <3>3. dinode[Inum(t)].type = "dir"
      BY <2>5, <3>1, <3>2 DEF IInv, Alive
    <3>4. Inum(loc[q].dp)' = Inum(t)
      BY <3>1, <3>2 DEF Inum
    <3> QED
      BY <1>16, <3>2, <3>3, <3>4
  <2>6. ASSUME NEW q \in Procs, Linking(q)'
        PROVE  dinode'[Inum(loc[q].ip)'].type = "file"
    <3>1. q # p /\ Linking(q) /\ loc'[q] = loc[q] /\ loc[q].ip # 0
      BY <1>12, <1>13, <2>6 DEF IInv, Shape, ShapeOf
    <3>2. PICK t \in Slots : t = loc[q].ip /\ Inum(t) \in Inums /\ Inum(t)' = Inum(t)
      BY <1>27, <3>1
    <3>3. dinode[Inum(t)].type = "file"
      BY <3>1, <3>2 DEF IInv, Alive
    <3>4. Inum(loc[q].ip)' = Inum(t)
      BY <3>1, <3>2 DEF Inum
    <3> QED
      BY <1>16, <3>2, <3>3, <3>4
  <2> QED
    BY <2>1, <2>2, <2>3, <2>4, <2>5, <2>6 DEF Alive
<1>30. Making'
  <2> SUFFICES ASSUME NEW q \in Procs, pc'[q] = "createinit"
               PROVE  MakingOf(q)'
    BY DEF Making
  <2>1. CASE q = p
    <3>1. Inum(loc[p].ip)' = new
      BY <1>6, <1>8, <1>10 DEF Inum
    <3>2. Inum(loc[p].dp)' = e
      <4>1. Inum(d)' = Inum(d)
        BY <1>6
      <4> QED
        BY <1>3, <1>8, <1>10, <4>1 DEF Inum
    <3>3. Name(p)' = m
      BY <1>1, <1>8, <1>10 DEF Name
    <3>4. Entries(Inum(loc[p].ip))' = {}
      BY <1>26, <1>28, <3>1 DEF Entries
    <3>5. Forsaken(loc[p].ip)'
      BY <1>8, <1>10, <1>25 DEF Forsaken
    <3>6. \A u \in Procs : loc'[u].ip = loc'[p].ip => u = p
      BY <1>6, <1>8, <1>10
    <3> QED
      BY <1>5, <1>8, <1>10, <1>16, <1>28, <2>1, <3>1, <3>2, <3>3, <3>4, <3>5, <3>6 DEF MakingOf
  <2>2. CASE q # p
    <3>1. pc[q] = "createinit" /\ loc'[q] = loc[q]
      BY <1>12, <2>2
    <3>2. PICK b \in Slots, s \in Slots : b = loc[q].dp /\ s = loc[q].ip
      BY <3>1, AtCreateInit
    <3>3. PICK f \in Inums, j \in Inums : f = Inum(b) /\ j = Inum(s)
      BY <3>1, <3>2, AtCreateInit
    <3>4. /\ dinode[j] = [type |-> TypeFor(loc[q].op), nlink |-> 0]
          /\ Entries(j) = {} /\ ents[j] = Empty
          /\ Forsaken(s) /\ \A u \in Procs : loc[u].ip = s => u = q
          /\ ents[f][Name(q)] = 0
      BY <3>1, <3>2, <3>3, AtCreateInit DEF MakingOf
    <3>5. s # k /\ s # d /\ j # new
      <4>1. TypeFor(loc[q].op) # "free"
        BY DEF TypeFor
      <4>2. dinode[j].type # "free"
        BY <3>4, <4>1
      <4> QED
        BY <1>6, <1>24, <3>2, <3>4, <4>2
    <3>6. Inum(loc[q].dp)' = f /\ Inum(loc[q].ip)' = j /\ Name(q)' = Name(q)
      <4>1. b # 0 /\ s # 0
        BY Constants
      <4>2. Inum(b)' = Inum(b) /\ Inum(s)' = Inum(s)
        BY <1>27, <3>2, <4>1
      <4> QED
        BY <3>1, <3>2, <3>3, <4>2 DEF Inum, Name
    <3>7. Forsaken(loc[q].ip)'
      <4>1. Forsaken(s)'
        BY <1>23, <3>4, <3>5
      <4> QED
        BY <3>1, <3>2, <4>1 DEF Forsaken
    <3>8. \A u \in Procs : loc'[u].ip = loc'[q].ip => u = q
      BY <1>8, <1>10, <3>1, <3>2, <3>4, <3>5
    <3>9. Entries(Inum(loc[q].ip))' = {}
      BY <1>26, <3>4, <3>6 DEF Entries
    <3>10. dinode'[j] = dinode[j]
      BY <1>16, <3>5
    <3> QED
      BY <3>1, <3>4, <3>6, <3>7, <3>8, <3>9, <3>10 DEF MakingOf
  <2> QED
    BY <2>1, <2>2
<1>31. Truncating'
  <2>1. ASSUME NEW q \in Procs, pc'[q] = "trunc"
        PROVE  icache'[loc'[q].put].ref = 1 /\ icache'[loc'[q].put].nlink = 0
    <3>1. q # p /\ pc[q] = "trunc" /\ loc'[q] = loc[q]
      BY <1>10, <2>1
    <3>2. PICK t \in Slots : t = loc[q].put
      BY <3>1, Caller DEF ShapeOf, Putting
    <3>3. icache[t].ref = 1 /\ icache[t].nlink = 0
      BY <3>1, <3>2 DEF IInv, Truncating
    <3>4. t # k
      BY <1>6, <3>1, <3>2 DEF Forsaken, Leaving
    <3>5. icache[t].valid
      <4>1. Holds(q, t)
        BY <3>1, <3>2 DEF Holds, HoldsPut
      <4>2. lock[t] = q /\ q # Nobody
        BY <4>1, Constants DEF IInv, Locks
      <4> QED
        BY <4>2 DEF IInv, Locks
    <3>6. icache'[t].nlink = 0 /\ icache'[t].ref = icache[t].ref + Frac(t = k) /\ Frac(t = k) = 0
      BY <1>6, <3>3, <3>4, <3>5 DEF Frac
    <3> QED
      BY <3>1, <3>2, <3>3, <3>6
  <2>2. ASSUME NEW q \in Procs, pc'[q] = "freed"
        PROVE  \/ dinode'[Inum(loc[q].put)'].type = "free"
               \/ \E u \in Procs : pc'[u] = "createinit" /\ loc'[u].ip = loc'[q].put
    <3>0. q # p /\ pc[q] = "freed" /\ loc'[q] = loc[q]
      BY <1>10, <2>2
    <3>1. PICK t \in Slots : t = loc[q].put /\ Inum(t) \in Inums /\ Inum(t)' = Inum(t)
      BY <1>27, <3>0, Caller DEF ShapeOf, Putting
    <3>2. Inum(loc[q].put)' = Inum(t)
      BY <3>0, <3>1 DEF Inum
    <3>3. CASE t = k
      BY <1>8, <1>10, <3>0, <3>1, <3>3
    <3>4. CASE t # k /\ dinode[Inum(t)].type = "free"
      BY <1>6, <1>16, <3>1, <3>2, <3>4
    <3>5. CASE \E u \in Procs : pc[u] = "createinit" /\ loc[u].ip = t
      <4>1. PICK u \in Procs : pc[u] = "createinit" /\ loc[u].ip = t
        BY <3>5
      <4>2. u # p
        BY <4>1
      <4>3. pc'[u] = "createinit" /\ loc'[u].ip = loc'[q].put
        BY <1>10, <3>0, <3>1, <4>1, <4>2
      <4> QED
        BY <4>3
    <3> QED
      BY <3>0, <3>1, <3>3, <3>4, <3>5 DEF IInv, Truncating
  <2> QED
    BY <2>1, <2>2 DEF Truncating
<1>32. Counted'
  <2>1. \A a \in Inums : Linkers(a)' = Linkers(a) /\ Unlinkers(a)' = Unlinkers(a)
    <3>1. \A q \in Procs : Linking(q) \/ Label(q) = "unlinkdec" => loc[q].ip # 0
      BY DEF IInv, Shape, ShapeOf
    <3>2. \A q \in Procs : q # p /\ (Linking(q) \/ Label(q) = "unlinkdec") =>
             Inum(loc[q].ip)' = Inum(loc[q].ip)
      <4> SUFFICES ASSUME NEW q \in Procs, q # p, Linking(q) \/ Label(q) = "unlinkdec"
                   PROVE  Inum(loc[q].ip)' = Inum(loc[q].ip)
        OBVIOUS
      <4>1. PICK t \in Slots : t = loc[q].ip /\ Inum(t)' = Inum(t)
        BY <1>27, <3>1
      <4> QED
        BY <1>12, <4>1 DEF Inum
    <3> QED
      BY <1>0, <1>12, <1>13, <3>2 DEF Linkers, Unlinkers
  <2>2. \A a \in Inums : DirKids(a)' = DirKids(a)
    <3>1. ASSUME NEW a \in Inums, NEW x \in Names, ents[a][x] # 0
          PROVE  dinode'[ents[a][x]] = dinode[ents[a][x]]
      <4>1. ents[a][x] \in Inums /\ dinode[ents[a][x]].type # "free"
        BY <3>1, EntryLinked
      <4> QED
        BY <1>16, <4>1
    <3> QED
      BY <3>1 DEF DirKids
  <2>3. \A a \in Inums : a # new =>
          (FileCounted(a)' <=> FileCounted(a)) /\ (DirCounted(a)' <=> DirCounted(a))
    BY <1>16, <1>26, <2>1, <2>2 DEF FileCounted, DirCounted, Up
  <2>4. FileCounted(new)' /\ DirCounted(new)'
    <3>1. Linkers(new) = {} /\ Unlinkers(new) = {}
      <4> SUFFICES ASSUME NEW q \in Procs, Linking(q) \/ Label(q) = "unlinkdec", Inum(loc[q].ip) = new
                   PROVE  FALSE
        BY DEF Linkers, Unlinkers
      <4>1. loc[q].ip # 0
        BY DEF IInv, Shape, ShapeOf
      <4> QED
        BY <4>1, Caller
    <3>2. DirKids(new) = {}
      BY <1>28 DEF DirKids, Empty
    <3>3. Cardinality({}) = 0
      BY FS_EmptySet
    <3>4. /\ Cardinality(Entries(new)') = 0 /\ Cardinality(Linkers(new)') = 0
          /\ Cardinality(Unlinkers(new)') = 0 /\ Cardinality(DirKids(new)') = 0
      BY <1>26, <1>28, <2>1, <2>2, <3>1, <3>2, <3>3
    <3>5. Up(new)' = 0
      BY <1>28, <3>4 DEF Up, Frac
    <3> QED
      BY <1>16, <3>4, <3>5 DEF FileCounted, DirCounted
  <2> QED
    BY <1>16, <2>3, <2>4 DEF IInv, Counted
<1>33. Named'
  <2> SUFFICES ASSUME NEW q \in Procs
               PROVE  NamedOf(q)'
    BY DEF Named
  <2>1. CASE q = p
    BY <1>13, <2>1 DEF NamedOf
  <2>2. CASE q # p
    <3>0. NamedOf(q) /\ Label(q)' = Label(q) /\ loc'[q] = loc[q] /\ pc'[q] = pc[q]
      BY <1>12, <2>2, Caller
    <3>1. ASSUME Label(q)' = "unlinkip"
          PROVE  ents'[Inum(loc[q].dp)'][Name(q)'] = Inum(loc[q].ip)'
      <4>1. Label(q) = "unlinkip"
        BY <3>0, <3>1
      <4>2. loc[q].dp # 0 /\ loc[q].ip # 0
        BY <4>1, Caller DEF ShapeOf
      <4>3. PICK b \in Slots, s \in Slots : /\ b = loc[q].dp /\ s = loc[q].ip
                                            /\ Inum(b)' = Inum(b) /\ Inum(s)' = Inum(s)
        BY <1>27, <4>2
      <4>4. ents[Inum(b)][Name(q)] = Inum(s)
        BY <3>0, <4>1, <4>3 DEF NamedOf
      <4>5. Inum(loc[q].dp)' = Inum(b) /\ Inum(loc[q].ip)' = Inum(s) /\ Name(q)' = Name(q)
        BY <3>0, <4>3 DEF Inum, Name
      <4> QED
        BY <4>4, <4>5
    <3>2. ASSUME Label(q)' \in {"linkclash", "unlinkbad"}, pc'[q] = "iput"
          PROVE  \E x \in Names : ents'[Inum(loc[q].dp)'][x] = Inum(loc[q].put)'
      <4>1. Label(q) \in {"linkclash", "unlinkbad"} /\ pc[q] = "iput"
        BY <3>0, <3>2
      <4>2. loc[q].dp # 0 /\ loc[q].put # 0
        BY <4>1, Caller DEF ShapeOf, Putting
      <4>3. PICK b \in Slots, s \in Slots : /\ b = loc[q].dp /\ s = loc[q].put
                                            /\ Inum(b)' = Inum(b) /\ Inum(s)' = Inum(s)
        BY <1>27, <4>2
      <4>4. PICK x \in Names : ents[Inum(b)][x] = Inum(s)
        BY <3>0, <4>1, <4>3 DEF NamedOf
      <4>5. Inum(loc[q].dp)' = Inum(b) /\ Inum(loc[q].put)' = Inum(s)
        BY <3>0, <4>3 DEF Inum
      <4> QED
        BY <4>4, <4>5
    <3> QED
      BY <3>1, <3>2 DEF NamedOf
  <2> QED
    BY <2>1, <2>2
<1>34. NoLoops'
  BY DEF IInv, NoLoops
<1>35. Known'
  <2> SUFFICES ASSUME NEW q \in Procs, NEW t \in Uses(q)'
               PROVE  icache'[t].valid \/ dinode'[Inum(t)'].nlink > 0
    BY DEF Known
  <2>1. CASE q = p /\ t = d
    BY <1>6, <2>1
  <2>2. CASE t \in Uses(q)
    <3>1. t \in Slots /\ Inum(t) \in Inums /\ Inum(t)' = Inum(t)
      BY <1>27, <2>2 DEF Uses
    <3>2. icache[t].valid \/ dinode[Inum(t)].nlink > 0
      BY <2>2 DEF IInv, Known
    <3> QED
      BY <1>6, <1>16, <3>1, <3>2
  <2>3. q # p => t \in Uses(q)
    BY <1>12 DEF Uses
  <2>4. q = p => t \in Uses(q) \/ t = d
    BY <1>8, <1>10 DEF Uses
  <2> QED
    BY <2>1, <2>2, <2>3, <2>4
<1>36. NoneLost'
  <2> SUFFICES ASSUME NEW a \in Inums, dinode'[a].type # "free", dinode'[a].nlink = 0
               PROVE  a \in overlap' \/ \E t \in Slots : Inum(t)' = a /\ Kept(t)'
    BY DEF NoneLost
  <2>1. CASE a = new
    <3>1. Keeps(p, k)'
      BY <1>8, <1>10 DEF Keeps
    <3> QED
      BY <1>6, <2>1, <3>1 DEF Kept
  <2>2. CASE a # new
    <3>1. a \in overlap \/ \E t \in Slots : Inum(t) = a /\ Kept(t)
      BY <1>16, <2>2 DEF IInv, NoneLost
    <3>2. ASSUME NEW t \in Slots, Inum(t) = a, Kept(t)
          PROVE  Inum(t)' = a /\ Kept(t)'
      <4>1. \A q \in Procs : Keeps(q, t) => Keeps(q, t)'
        <5> SUFFICES ASSUME NEW q \in Procs, Keeps(q, t)
                     PROVE  Keeps(q, t)'
          OBVIOUS
        <5>1. CASE q # p
          BY <1>12, <5>1 DEF Keeps
        <5>2. CASE q = p
          <6>1. t = fd[p] \/ t = d
            BY <1>1, <1>5, <5>2, Constants DEF Keeps
          <6> QED
            BY <1>8, <1>10, <5>2, <6>1 DEF Keeps
        <5> QED
          BY <5>1, <5>2
      <4>2. Kept(t)'
        BY <3>2, <4>1 DEF Kept
      <4>3. Inum(t)' = a
        <5>1. icache[t].ref > 0
          <6>1. Inum(t) # 0
            BY <3>2, Constants
          <6>2. icache[t].ref # 0 /\ icache[t].ref \in Nat
            BY <6>1 DEF IInv, SlotsApart, Apart, Inum, TypeOK
          <6> QED
            BY <6>2
        <5> QED
          BY <1>6, <3>2, <5>1
      <4> QED
        BY <4>2, <4>3
    <3> QED
      BY <2>2, <3>1, <3>2
  <2> QED
    BY <2>1, <2>2
<1> QED
  BY <1>6, <1>15, <1>18, <1>19, <1>20, <1>22, <1>29, <1>30, <1>31, <1>32, <1>33, <1>34, <1>35, <1>36
     DEF IInv

LEMMA CreateKeeps ==
    ASSUME IInv, NEW p \in Procs, Create(p)
    PROVE  IInv'
<1> DEFINE d == loc[p].dp
           c == Load(icache, d)
           i == ents[Inum(d)][Name(p)]
           new == Min(FreeInums)
<1>0. /\ pc[p] = "create" /\ lock[d] = Nobody /\ fd' = fd /\ leaked' = leaked
      /\ ents' = ents /\ calls' = calls
  BY DEF Create, At
<1>1. CASE /\ i # 0 /\ icache' = IGet(c, i)
           /\ Step(p, "iput", [Put(loc[p], "dp", "createold") EXCEPT !.ip = SlotOf(c, i)])
           /\ dinode' = dinode /\ lock' = lock /\ overlap' = overlap /\ panicked' = panicked
  <2>1. Plain
    BY <1>0, <1>1 DEF Plain
  <2> QED
    BY <1>0, <1>1, <2>1, CreateFoundKeeps
<1>2. CASE /\ i = 0 /\ FreeInums # {}
           /\ dinode' = [dinode EXCEPT ![new] = [type |-> TypeFor(loc[p].op), nlink |-> 0]]
           /\ icache' = IGet(c, new) /\ lock' = [lock EXCEPT ![d] = p]
           /\ Step(p, "createinit", [loc[p] EXCEPT !.ip = SlotOf(c, new)])
           /\ overlap' = overlap \ {new} /\ panicked' = panicked
  <2>1. FreeInums \in SUBSET Nat
    BY Constants DEF FreeInums
  <2>2. new \in FreeInums
    BY <1>2, <2>1, MinIn
  <2>3. new \in Inums /\ dinode[new].type = "free"
    BY <2>2 DEF FreeInums
  <2> HIDE DEF new
  <2> QED
    BY <1>0, <1>2, <2>3, CreateNewKeeps
<1>3. CASE /\ panicked' = TRUE /\ dinode' = dinode /\ icache' = icache /\ lock' = lock
           /\ pc' = pc /\ loc' = loc /\ overlap' = overlap
  BY <1>0, <1>3, PanicKeeps
<1> QED
  BY <1>0, <1>1, <1>2, <1>3 DEF Create

-----------------------------------------------------------------------------
(* The invariant of the specification *)

LEMMA InitInv == Init => IInv
<1> SUFFICES ASSUME Init
             PROVE  IInv
  OBVIOUS
<1>1. /\ \A i \in Inums : /\ dinode[i].type = IF i = ROOTINO THEN "dir" ELSE "free"
                          /\ dinode[i].nlink = IF i = ROOTINO THEN 1 ELSE 0
      /\ dinode \in [Inums -> [type : Types, nlink : Nat]]
  BY DEF Init, Types
<1>2. /\ ents \in [Inums -> [Names -> Inums \union {0}]]
      /\ \A i \in Inums : ents[i] = Empty
      /\ \A i \in Inums, n \in Names : ents[i][n] = 0
  BY DEF Init, Empty
<1>3. /\ icache \in Caches
      /\ \A s \in Slots : /\ icache[s].inum = IF s = ROOT THEN ROOTINO ELSE 0
                          /\ icache[s].ref = IF s = ROOT THEN 1 ELSE 0
                          /\ ~icache[s].valid
  <2>1. /\ FreeSlot \in SlotRec /\ FreeSlot.inum = 0 /\ FreeSlot.ref = 0 /\ ~FreeSlot.valid
    BY DEF FreeSlot, SlotRec, Types
  <2>2. PICK r : r = [FreeSlot EXCEPT !.inum = ROOTINO, !.ref = 1]
    OBVIOUS
  <2>3. r \in SlotRec /\ r.inum = ROOTINO /\ r.ref = 1 /\ ~r.valid
    BY <2>1, <2>2, Constants DEF SlotRec
  <2>4. icache = [s \in Slots |-> IF s = ROOT THEN r ELSE FreeSlot]
    BY <2>2 DEF Init
  <2> QED
    BY <2>1, <2>3, <2>4 DEF Caches
<1>4. /\ \A s \in Slots : lock[s] = Nobody /\ leaked[s] = 0
      /\ lock \in [Slots -> Procs \union {Nobody}] /\ leaked \in [Slots -> Nat]
  BY DEF Init
<1>5. /\ pc \in [Procs -> PCs] /\ fd \in [Procs -> Slots \union {0}] /\ loc \in [Procs -> CallRecs]
      /\ \A p \in Procs : pc[p] = "idle" /\ fd[p] = 0 /\ loc[p] = NoCall
  BY NoCallIs DEF Init, PCs
<1>6. \A p \in Procs : /\ loc[p].op = "none" /\ loc[p].phase = 0 /\ loc[p].ret = "idle"
                       /\ loc[p].at = 0 /\ loc[p].dp = 0 /\ loc[p].ip = 0 /\ loc[p].put = 0
                       /\ Label(p) = "idle" /\ ~Linking(p)
  BY <1>5 DEF NoCall, Label, Linking, Putting
<1>7. TypeOK
  <2>1. overlap \subseteq Inums /\ panicked \in BOOLEAN /\ calls \in 0 .. MaxCalls
    <3>1. overlap = {} /\ panicked = FALSE /\ calls = 0
      BY DEF Init
    <3>2. MaxCalls \in Nat
      BY DirAssumption
    <3>3. calls \in 0 .. MaxCalls
      BY <3>1, <3>2
    <3>4. overlap \subseteq Inums
      BY <3>1
    <3>5. panicked \in BOOLEAN
      BY <3>1
    <3> QED
      BY <3>3, <3>4, <3>5
  <2> QED
    BY <1>1, <1>2, <1>3, <1>4, <1>5, <2>1 DEF TypeOK, Caches, SlotRec
<1>8. RefsExact
  <2> SUFFICES ASSUME NEW s \in Slots
               PROVE  icache[s].ref = Frac(s = ROOT) + leaked[s] + Cardinality(Pointers(s))
    BY DEF RefsExact
  <2>1. \A p \in Procs, f \in Fields : PointsTo(p, f) = 0
    BY <1>5, <1>6 DEF PointsTo, Fields
  <2>2. Pointers(s) = {}
    BY <2>1, Constants DEF Pointers
  <2>3. Cardinality(Pointers(s)) = 0
    BY <2>2, FS_EmptySet
  <2> QED
    BY <1>3, <1>4, <2>3 DEF Frac
<1>9. Shape
  BY <1>5, <1>6 DEF Shape, ShapeOf, Putting, Creating, Unlinking
<1>10. SlotsApart
  BY <1>3, Constants DEF SlotsApart, Apart, Inum
<1>11. Locks
  <2>1. \A p \in Procs : ~HoldsPut(p) /\ ~HoldsDp(p) /\ ~HoldsIp(p)
    BY <1>5, <1>6 DEF HoldsPut, HoldsDp, HoldsIp
  <2>2. \A s \in Slots, p \in Procs : ~Holds(p, s)
    BY <2>1 DEF Holds
  <2>3. \A s \in Slots, p \in Procs : lock[s] # p
    BY <1>4, Constants
  <2> QED
    BY <1>4, <1>6, <2>1, <2>2, <2>3 DEF Locks
<1>12. Coherent
  BY <1>3 DEF Coherent
<1>13. \A i \in Inums : Entries(i) = {}
  BY <1>2, Constants DEF Entries
<1>14. Alive
  <2>1. \A s \in Slots : Inum(s) # 0 => dinode[Inum(s)].type = "dir"
    BY <1>1, <1>3, Constants DEF Inum
  <2> QED
    BY <1>1, <1>2, <1>6, <1>13, <2>1, Constants DEF Alive
<1>15. Making /\ Truncating
  BY <1>5 DEF Making, Truncating
<1>16. Counted
  <2> SUFFICES ASSUME NEW i \in Inums, dinode[i].type # "free"
               PROVE  dinode[i].type = "dir" /\ DirCounted(i)
    BY <1>1 DEF Counted
  <2>1. i = ROOTINO /\ dinode[i].nlink = 1 /\ dinode[i].type = "dir"
    BY <1>1
  <2>2. Unlinkers(i) = {} /\ DirKids(i) = {} /\ Entries(i) = {}
    BY <1>2, <1>6, <1>13 DEF Unlinkers, DirKids
  <2>3. Up(i) = 1 /\ Cardinality(DirKids(i)) = 0
    BY <2>1, <2>2, FS_EmptySet DEF Up, Frac
  <2> QED
    BY <2>1, <2>3 DEF DirCounted
<1>17. Named
  BY <1>6 DEF Named, NamedOf
<1>18. NoLoops
  BY <1>2, Constants DEF NoLoops
<1>19. Known
  BY <1>5, <1>6 DEF Known, Uses
<1>20. NoneLost
  BY <1>1 DEF NoneLost
<1> QED
  BY <1>7, <1>8, <1>9, <1>10, <1>11, <1>12, <1>14, <1>15, <1>16, <1>17, <1>18, <1>19, <1>20 DEF IInv

LEMMA StepInv == IInv /\ [Next]_vars => IInv'
<1> SUFFICES ASSUME IInv, [Next]_vars
             PROVE  IInv'
  OBVIOUS
<1>1. ASSUME NEW p \in Procs, NEW op \in Calls, NEW old \in Paths, NEW new \in Paths \union {<<>>},
             Call(p, op, old, new)
      PROVE  IInv'
  BY <1>1, CallKeeps
<1>2. ASSUME NEW p \in Procs, WalkStep(p)
      PROVE  IInv'
  BY <1>2, WalkKeeps
<1>3. ASSUME NEW p \in Procs, IPutCheck(p) \/ IPutFree(p) \/ IPutInvalid(p) \/ IPutEnd(p)
      PROVE  IInv'
  BY <1>3, IPutCheckKeeps, IPutFreeKeeps, IPutInvalidKeeps, IPutEndKeeps
<1>4. ASSUME NEW p \in Procs, Create(p) \/ CreateInit(p) \/ CreateOld(p) \/ Created(p)
      PROVE  IInv'
  BY <1>4, CreateKeeps, CreateInitKeeps, CreateOldKeeps, CreatedKeeps
<1>5. ASSUME NEW p \in Procs, OpenCheck(p) \/ OpenSelf(p) \/ OpenLock(p) \/ Close(p)
      PROVE  IInv'
  BY <1>5, OpenCheckKeeps, OpenSelfKeeps, OpenLockKeeps, CloseKeeps
<1>6. ASSUME NEW p \in Procs,
             LinkInc(p) \/ LinkEntry(p) \/ LinkClash(p) \/ LinkUndo(p) \/ SymOld(p)
      PROVE  IInv'
  BY <1>6, LinkIncKeeps, LinkEntryKeeps, LinkClashKeeps, LinkUndoKeeps, SymOldKeeps
<1>7. ASSUME NEW p \in Procs, Unlink(p) \/ UnlinkEntry(p) \/ UnlinkBad(p) \/ UnlinkDec(p)
      PROVE  IInv'
  BY <1>7, UnlinkKeeps, UnlinkEntryKeeps, UnlinkBadKeeps, UnlinkDecKeeps
<1>8. CASE UNCHANGED vars
  <2>1. panicked' \in BOOLEAN
    BY <1>8 DEF IInv, TypeOK, vars
  <2> QED
    BY <1>8, <2>1, PanicKeeps DEF vars
<1> QED
  BY <1>1, <1>2, <1>3, <1>4, <1>5, <1>6, <1>7, <1>8 DEF Next

\* The inductive invariant holds of every behaviour: what a call points to, which
\* locks it has, and which links it still owes are what its place in the code says.
THEOREM Invariance == Spec => []IInv
<1>1. Init => IInv
  BY InitInv
<1>2. IInv /\ [Next]_vars => IInv'
  BY StepInv
<1> QED
  BY <1>1, <1>2, PTL DEF Spec

-----------------------------------------------------------------------------
(* What follows from it *)

\* SlotsExact: the count of a slot of the inode cache is that of the pointers to it,
\* and every value stays in its type, also the counts that links and iput lower.
THEOREM SlotsAreExact == Spec => []SlotsExact
<1>1. IInv => SlotsExact
  BY DEF IInv, SlotsExact
<1> QED
  BY <1>1, Invariance, PTL

LEMMA LinksAre ==
    ASSUME IInv
    PROVE  LinksExact
<1>1. ASSUME NEW i \in Inums, dinode[i].type = "file"
      PROVE  Cardinality(Entries(i)) <= dinode[i].nlink
  <2>1. FileCounted(i)
    BY <1>1 DEF IInv, Counted
  <2>2. dinode[i].nlink \in Nat
    BY DEF IInv, TypeOK
  <2> QED
    BY <2>1, <2>2, CallsFinite, EntriesFinite DEF FileCounted
<1>2. ASSUME NEW i \in Inums, dinode[i].type = "dir", i = ROOTINO \/ Entries(i) # {}
      PROVE  dinode[i].nlink = 1 + Cardinality({n \in Names :
                                     ents[i][n] # 0 /\ dinode[ents[i][n]].type = "dir"})
  <2>1. Up(i) <= 1 /\ dinode[i].nlink = Cardinality(DirKids(i)) + Up(i)
    BY <1>2 DEF IInv, Counted, DirCounted
  <2>2. /\ Cardinality(Entries(i)) \in Nat /\ Cardinality(Unlinkers(i)) \in Nat
        /\ Cardinality(DirKids(i)) \in Nat /\ Frac(i = ROOTINO) \in Nat
    BY CallsFinite, EntriesFinite DEF Frac
  <2>3. Frac(i = ROOTINO) > 0 \/ Cardinality(Entries(i)) > 0
    <3>1. Entries(i) # {} => Cardinality(Entries(i)) # 0
      BY EntriesFinite, FS_EmptySet
    <3> QED
      BY <1>2, <2>2, <3>1 DEF Frac
  <2>4. Up(i) = 1
    BY <2>1, <2>2, <2>3 DEF Up
  <2>5. dinode[i].nlink = 1 + Cardinality(DirKids(i))
    BY <2>1, <2>2, <2>4
  <2> QED
    BY <2>5 DEF DirKids
<1> QED
  BY <1>1, <1>2 DEF LinksExact, LinksCover, DirLinks

\* LinksExact: a file is in the directories no more often than its links say, and a
\* directory with a name has a link for it and one for each directory in it, between
\* any two steps of create, link, mkdir and unlink.
THEOREM LinksAreExact == Spec => []LinksExact
BY LinksAre, Invariance, PTL

LEMMA NothingFreed ==
    ASSUME IInv
    PROVE  NothingInUseFreed
<1>1. \A d \in Inums, n \in Names : ents[d][n] # 0 => dinode[ents[d][n]].type # "free"
  BY EntryLinked
<1>2. ASSUME NEW p \in Procs
      PROVE  /\ fd[p] # 0 => dinode[Inum(fd[p])].type # "free"
             /\ \A f \in {"at", "dp", "ip"} :
                   loc[p][f] # 0 => dinode[Inum(loc[p][f])].type # "free"
  BY Caller
<1> QED
  BY <1>1, <1>2 DEF NothingInUseFreed, NoDangling, OpenNotFreed

\* NothingInUseFreed: the inode that iput frees is named by no entry and held by no
\* open file and no other call.
THEOREM NothingInUseIsFreed == Spec => []NothingInUseFreed
BY NothingFreed, Invariance, PTL

LEMMA LastFrees ==
    ASSUME IInv
    PROVE  LastReferenceFrees
<1> SUFFICES ASSUME NEW i \in Inums, dinode[i].type # "free", dinode[i].nlink = 0, i \notin overlap
             PROVE  \E s \in Slots : Inum(s) = i /\ icache[s].ref > 0
  BY DEF LastReferenceFrees
<1>1. PICK s \in Slots : Inum(s) = i
  BY DEF IInv, NoneLost
<1>2. icache[s].ref # 0 /\ icache[s].ref \in Nat
  BY <1>1, Constants DEF IInv, SlotsApart, Apart, Inum, TypeOK
<1> QED
  BY <1>1, <1>2

\* LastReferenceFrees: an inode without links whose last reference is gone is freed,
\* unless two processes put the last two at a time.
THEOREM LastReferenceIsFreed == Spec => []LastReferenceFrees
BY LastFrees, Invariance, PTL

\* What a process that waits for a lock has locked: nothing, or a directory that has
\* what it waits for in it, but for the two places where it puts the directory.
Backwards(p) == pc[p] = "iput" /\ loc[p].ret \in {"created", "unlinkdec"}

LEMMA WaitingWith ==
    ASSUME IInv, NEW p \in Procs, Wants(p) # 0, NEW t \in Slots, Holds(p, t), ~Backwards(p)
    PROVE  /\ Wants(p) \in Slots /\ Inum(Wants(p)) \in Inums /\ Inum(t) \in Inums
           /\ t = loc[p].dp /\ Wants(p) # t
           /\ \/ Forsaken(Wants(p))
              \/ \E n \in Names : ents[Inum(t)][n] = Inum(Wants(p))
<1>0. /\ loc[p] \in CallRecs /\ ShapeOf(p) /\ NamedOf(p) /\ OwnLocks(p) /\ pc[p] \in PCs
      /\ \A s \in {loc[p].at, loc[p].dp, loc[p].ip, loc[p].put, fd[p]} \ {0} :
            s \in Slots /\ Inum(s) \in Inums
  BY Caller
<1>1. pc[p] \in {"iput", "createinit", "unlinkip"}
  <2>1. pc[p] \in {"trunc", "freed"} \/ Label(p) \in {"createinit", "unlinkip", "linkclash",
                                                       "unlinkbad", "created", "unlinkdec"}
    BY DEF Holds, HoldsPut, HoldsDp, HoldsIp
  <2>2. pc[p] \in Putting \/ Label(p) = pc[p]
    BY DEF Label
  <2> QED
    BY <2>1, <2>2 DEF Wants, Putting
<1>2. CASE pc[p] = "createinit"
  <2>1. Wants(p) = loc[p].ip
    BY <1>2 DEF Wants
  <2>2. /\ t = loc[p].dp /\ loc[p].ip \in Slots /\ Inum(loc[p].ip) \in Inums
        /\ Inum(loc[p].dp) \in Inums /\ loc[p].ip # loc[p].dp /\ MakingOf(p)
    BY <1>2, AtCreateInit
  <2>3. Forsaken(loc[p].ip)
    BY <2>2 DEF MakingOf
  <2>4. PICK s \in Slots : s = loc[p].ip
    BY <2>2
  <2> QED
    BY <2>1, <2>2, <2>3, <2>4
<1>3. CASE pc[p] = "unlinkip"
  <2>1. Wants(p) = loc[p].ip
    BY <1>3 DEF Wants
  <2>2. /\ t = loc[p].dp /\ loc[p].ip \in Slots /\ Inum(loc[p].ip) \in Inums
        /\ Inum(loc[p].dp) \in Inums /\ loc[p].ip # loc[p].dp /\ Name(p) \in Names
        /\ ents[Inum(loc[p].dp)][Name(p)] = Inum(loc[p].ip)
    BY <1>3, AtUnlinkIp
  <2> QED
    BY <2>1, <2>2
<1>4. CASE pc[p] = "iput"
  <2>1. Wants(p) = loc[p].put /\ Label(p) = loc[p].ret
    BY <1>4 DEF Wants, Label, Putting
  <2>2. ~HoldsPut(p) /\ ~HoldsIp(p)
    BY <1>4, <2>1 DEF HoldsPut, HoldsIp, Backwards
  <2>3. HoldsDp(p) /\ t = loc[p].dp
    BY <2>2 DEF Holds
  <2>4. loc[p].put # loc[p].dp /\ Label(p) \in {"linkclash", "unlinkbad"}
    BY <1>0, <1>4, <2>3 DEF OwnLocks, HoldsDp, Putting
  <2>5. \E n \in Names : ents[Inum(loc[p].dp)][n] = Inum(loc[p].put)
    BY <1>0, <1>4, <2>4 DEF NamedOf
  <2>6. t # 0
    BY Constants
  <2>7. loc[p].put \in Slots /\ Inum(loc[p].put) \in Inums /\ Inum(t) \in Inums
    BY <1>0, <2>1, <2>3, <2>6
  <2> QED
    BY <2>1, <2>3, <2>4, <2>5, <2>7
<1> QED
  BY <1>1, <1>2, <1>3, <1>4

\* No process waits for a lock that it has.
LEMMA NotItsOwn ==
    ASSUME IInv, NEW p \in Procs, Wants(p) # 0
    PROVE  Wants(p) \in Slots /\ ~Holds(p, Wants(p))
<1>1. PICK s : s = Wants(p)
  OBVIOUS
<1>2. s \in Slots
  <2>1. s \in {loc[p].at, loc[p].dp, loc[p].ip, loc[p].put}
    BY <1>1 DEF Wants
  <2> QED
    BY <1>1, <2>1, Caller
<1>3. CASE Backwards(p)
  <2>1. OwnLocks(p)
    BY Caller
  <2>2. s = loc[p].put /\ Label(p) = loc[p].ret
    BY <1>1, <1>3 DEF Wants, Label, Putting, Backwards
  <2>3. ~HoldsPut(p) /\ HoldsIp(p) /\ ~HoldsDp(p)
    BY <1>3, <2>2 DEF HoldsPut, HoldsIp, HoldsDp, Backwards
  <2> QED
    BY <1>1, <1>2, <2>1, <2>2, <2>3 DEF Holds, OwnLocks
<1>4. CASE ~Backwards(p)
  <2>1. \A t \in Slots : Holds(p, t) => Wants(p) # t
    BY <1>4, WaitingWith
  <2> QED
    BY <1>1, <1>2, <2>1
<1> QED
  BY <1>3, <1>4

LEMMA InOrder ==
    ASSUME IInv
    PROVE  LockOrder
<1> SUFFICES ASSUME NEW p \in Procs, NEW q \in Procs, WaitsFor(p, q), WaitsFor(q, p)
             PROVE  p # q /\ (Backwards(p) \/ Backwards(q))
  BY DEF LockOrder, Backwards
<1>1. PICK s \in Slots, t \in Slots : s = Wants(p) /\ t = Wants(q)
  BY NotItsOwn DEF WaitsFor
<1>2. Wants(p) # 0 /\ Wants(q) # 0 /\ lock[s] = q /\ lock[t] = p
  BY <1>1 DEF WaitsFor
<1>3. Holds(q, s) /\ Holds(p, t)
  BY <1>2 DEF IInv, Locks
<1>4. p # q
  <2>1. ~Holds(p, s)
    BY <1>1, <1>2, NotItsOwn
  <2> QED
    BY <1>3, <2>1
<1>5. ASSUME ~Backwards(p), ~Backwards(q)
      PROVE  FALSE
  <2>1. /\ Inum(s) \in Inums /\ Inum(t) \in Inums /\ t = loc[p].dp
        /\ Forsaken(s) \/ \E n \in Names : ents[Inum(t)][n] = Inum(s)
    BY <1>1, <1>2, <1>3, <1>5, WaitingWith
  <2>2. /\ s = loc[q].dp
        /\ Forsaken(t) \/ \E n \in Names : ents[Inum(s)][n] = Inum(t)
    BY <1>1, <1>2, <1>3, <1>5, WaitingWith
  <2>3. ~Forsaken(s) /\ ~Forsaken(t)
    BY <2>1, <2>2 DEF Forsaken
  <2> QED
    BY <2>1, <2>2, <2>3 DEF IInv, NoLoops
<1> QED
  BY <1>4, <1>5

\* LockOrder: nobody waits for a lock of his own, and when two processes wait for each
\* other's, one of them is in the iput by which create or unlink lets the directory go
\* while it has the inode below locked.
THEOREM LocksInOrder == Spec => []LockOrder
BY InOrder, Invariance, PTL

=============================================================================
