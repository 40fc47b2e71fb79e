---------------------------- MODULE UserMemProof ----------------------------
(***************************************************************************)
(* The sizes, the limits, the pages and the kernel stacks of the processes *)
(* of Project_2, for every number of slots, pages and frames.              *)
(***************************************************************************)
EXTENDS UserMem, TLAPS, FiniteSetTheorems

-----------------------------------------------------------------------------
(* The inductive invariant *)

\* What a slot, a page and a call of exec are.
Proc ==
    [state : {"unused", "live", "zombie"}, pid : Pids \union {0}, main : Slots \union {0},
     sz : 0 .. KERNBASE, memlim : Nat, kstack : {"none", "held", "freed"}]

Page == 0 .. KERNBASE

Execs ==
    [at : {"none", "load", "stack", "check", "commit"}, new : SUBSET Page,
     sz : 0 .. KERNBASE]

Typed ==
    /\ proc \in [Slots -> Proc] /\ exec \in [Slots -> Execs]
    /\ pages \in [Pids -> SUBSET Page] /\ gone \in [Pids -> SUBSET Page]
    /\ broken \subseteq Pids /\ twice \subseteq Slots /\ refused \subseteq Slots

\* A kernel stack that was freed and left in its slot is that of a refused thread.
StackInv == \A t \in Slots : proc[t].kstack = "freed" => t \in refused

\* The slots of a process: all name one main thread, which is not reused before them.
FamilyInv ==
    /\ \A s \in Slots :
          /\ proc[s].state # "unused" => proc[s].pid # 0
          /\ proc[s].pid # 0 =>
                /\ proc[s].main \in Slots /\ proc[proc[s].main].pid = proc[s].pid
                /\ \/ proc[proc[s].main].state = "live"
                   \/ proc[proc[s].main].state = "zombie" /\ proc[s].state = "zombie"
    /\ \A s, t \in Slots : proc[s].pid = proc[t].pid /\ proc[s].pid # 0 =>
          proc[s].main = proc[t].main /\ proc[s].memlim = proc[t].memlim

\* Who is in exec is the only thread of its process.
AloneInv ==
    \A s \in Slots : exec[s] # NoExec =>
        /\ exec[s].at # "none" /\ proc[s].state = "live"
        /\ \A t \in Slots : proc[t].pid = proc[s].pid => t = s

\* Pages belong to a process.
OwnedInv == \A p \in Pids : Of(p) = {} => pages[p] = {}

\* The slots whose size is that of the table: exec stores no size before it loads.
Sound(s) ==
    /\ proc[s].state = "live" /\ proc[s].pid \notin broken
    /\ exec[s].at \in {"none", "load"}

MaxGrow == Max(Grows \union {2 * PGSIZE})

SizeInv ==
    /\ \A s, t \in Slots : Sound(s) /\ Sound(t) /\ proc[s].pid = proc[t].pid =>
          proc[s].sz = proc[t].sz
    /\ \A s \in Slots : Sound(s) =>
          /\ gone[proc[s].pid] \subseteq Below(proc[s].sz)
          /\ pages[proc[s].pid] = Below(proc[s].sz) \ gone[proc[s].pid]
          /\ proc[s].memlim > 0 => proc[s].sz + 2 * PGSIZE <= proc[s].memlim + MaxGrow

\* The table that exec makes is as large as it says, and within the limit when
\* that has been tested, also after another setmemorylimit.
NewInv ==
    \A s \in Slots :
        /\ exec[s].at \in {"none", "load"} => exec[s].new = {}
        /\ exec[s].at \in {"stack", "check", "commit"} =>
              exec[s].new = Below(exec[s].sz) /\ proc[s].sz = exec[s].sz
        /\ exec[s].at = "commit" /\ proc[s].memlim > 0 => exec[s].sz <= proc[s].memlim

FramesInv == FreeFrames \in 0 .. NFRAMES

IInv ==
    /\ Typed /\ FamilyInv /\ AloneInv /\ OwnedInv /\ SizeInv /\ NewInv /\ FramesInv

-----------------------------------------------------------------------------
(* Numbers *)

\* What \div is, which is all that the next lemma needs.
LEMMA DivMod ==
    ASSUME NEW x \in Int, NEW n \in Nat \ {0}
    PROVE  /\ x \div n \in Int /\ x % n \in 0 .. n - 1
           /\ x = n * (x \div n) + (x % n)
  OBVIOUS

\* A page is at or above an address if its number is not below the rounded one.
LEMMA RoundUp ==
    ASSUME NEW sz \in Nat, NEW a \in Nat
    PROVE  /\ PGROUNDUP(sz) \in Nat
           /\ PGROUNDUP(sz) <= a <=> sz <= a * PGSIZE
  <1> DEFINE x == sz + PGSIZE - 1
             k == x \div PGSIZE
             r == x % PGSIZE
  <1>1. PGSIZE \in Nat \ {0} /\ x \in Nat
    BY UserMemAssumption
  <1>2. k \in Int /\ r \in 0 .. PGSIZE - 1 /\ x = PGSIZE * k + r
    BY <1>1, DivMod
  <1>3. k = PGROUNDUP(sz)
    BY DEF PGROUNDUP
  <1> HIDE DEF k, r
  <1>4. PGSIZE * k >= sz /\ PGSIZE * k < sz + PGSIZE
    BY <1>1, <1>2
  <1>5. k \in Nat
    BY <1>1, <1>2, <1>4
  <1>6. ASSUME k <= a
        PROVE  sz <= a * PGSIZE
    <2>1. PGSIZE * k <= PGSIZE * a
      BY <1>1, <1>5, <1>6
    <2> QED
      BY <1>1, <1>4, <1>5, <2>1
  <1>7. ASSUME ~(k <= a)
        PROVE  ~(sz <= a * PGSIZE)
    <2>1. a + 1 <= k
      BY <1>5, <1>7
    <2>2. PGSIZE * (a + 1) <= PGSIZE * k
      BY <1>1, <1>5, <2>1
    <2>3. PGSIZE * (a + 1) = PGSIZE * a + PGSIZE
      BY <1>1
    <2> QED
      BY <1>1, <1>4, <1>5, <2>2, <2>3
  <1> QED
    BY <1>3, <1>5, <1>6, <1>7

\* The pages between two sizes, without the rounding.
LEMMA BetweenIs ==
    ASSUME NEW old \in Nat, NEW new \in Int
    PROVE  Between(old, new) = {a \in Page : old <= a * PGSIZE /\ a * PGSIZE < new}
  <1>1. \A a \in Page : PGROUNDUP(old) <= a <=> old <= a * PGSIZE
    BY UserMemAssumption, RoundUp DEF Page
  <1> QED
    BY <1>1 DEF Between, Page

LEMMA BelowIs ==
    ASSUME NEW new \in Int
    PROVE  Below(new) = {a \in Page : a * PGSIZE < new}
  <1>1. \A a \in Page : 0 <= a * PGSIZE
    BY UserMemAssumption DEF Page
  <1> QED
    BY <1>1, BetweenIs DEF Below

\* A process that grows gets the pages that it does not have.
LEMMA GrowBelow ==
    ASSUME NEW old \in Nat, NEW new \in Nat, old <= new
    PROVE  /\ Below(new) = Below(old) \union Between(old, new)
           /\ Below(old) \intersect Between(old, new) = {}
  <1>1. \A a \in Page : a * PGSIZE \in Nat
    BY UserMemAssumption DEF Page
  <1>2. Below(new) = Below(old) \union Between(old, new)
    BY <1>1, BetweenIs, BelowIs
  <1>3. Below(old) \intersect Between(old, new) = {}
    BY <1>1, BetweenIs, BelowIs
  <1> QED
    BY <1>2, <1>3

\* The stack begins at the next page, and leaves nothing out.
LEMMA RoundedBelow ==
    ASSUME NEW sz \in Nat
    PROVE  /\ PGROUNDUP(sz) * PGSIZE \in Nat /\ sz <= PGROUNDUP(sz) * PGSIZE
           /\ Below(PGROUNDUP(sz) * PGSIZE) = Below(sz)
  <1> DEFINE k == PGROUNDUP(sz)
  <1>1. k \in Nat /\ sz <= k * PGSIZE
    <2>1. k \in Nat
      BY RoundUp
    <2> QED
      BY <2>1, RoundUp
  <1>2. \A a \in Nat : k <= a <=> sz <= a * PGSIZE
    BY RoundUp
  <1> HIDE DEF k
  <1>3. k * PGSIZE \in Nat
    BY <1>1, UserMemAssumption
  <1>4. ASSUME NEW a \in Page
        PROVE  a * PGSIZE < k * PGSIZE <=> a * PGSIZE < sz
    <2>1. a \in Nat /\ a * PGSIZE \in Nat
      BY UserMemAssumption DEF Page
    <2>2. k <= a => k * PGSIZE <= a * PGSIZE
      BY <1>1, <2>1, UserMemAssumption
    <2> QED
      BY <1>1, <1>2, <1>3, <2>1, <2>2
  <1>5. Below(k * PGSIZE) = Below(sz)
    <2>1. Below(k * PGSIZE) = {a \in Page : a * PGSIZE < k * PGSIZE}
      BY <1>3, BelowIs
    <2>2. Below(sz) = {a \in Page : a * PGSIZE < sz}
      BY BelowIs
    <2> QED
      BY <1>4, <2>1, <2>2
  <1> QED
    BY <1>1, <1>3, <1>5 DEF k

LEMMA BetweenPages ==
    ASSUME NEW old, NEW new
    PROVE  Between(old, new) \subseteq Page /\ Below(new) \subseteq Page
  BY DEF Between, Below, Page

\* A set of numbers that is not empty has a least one.
LEMMA MinIn ==
    ASSUME NEW S \in SUBSET Nat, S # {}
    PROVE  Min(S) \in S
  <1>1. PICK s \in S : \A t \in S : <<t, s>> \notin OpToRel(<, Nat)
    BY NatLessThanWellFounded, WFMin
  <1>2. ASSUME NEW t \in S
        PROVE  s <= t
    <2>1. t < s => <<t, s>> \in OpToRel(<, Nat)
      BY Zenon DEF OpToRel
    <2>2. ~(t < s)
      BY <1>1, <2>1, Zenon
    <2>3. s \in Nat /\ t \in Nat
      OBVIOUS
    <2> QED
      BY <2>2, <2>3
  <1>3. \E x \in S : \A y \in S : x <= y
    BY <1>2
  <1> QED
    BY <1>3 DEF Min

\* A finite set of numbers that has elements has a greatest one: of the sets of
\* those that are not below a given one, take a smallest.
LEMMA MaxIs ==
    ASSUME NEW S \in SUBSET Int, IsFiniteSet(S), S # {}
    PROVE  Max(S) \in S /\ \A y \in S : Max(S) >= y
  <1> DEFINE Up(x) == {y \in S : x <= y}
             T == {Up(x) : x \in S}
  <1>1. T # {} /\ T \subseteq FiniteSubsetsOf(S)
    <2>1. \A x \in S : Up(x) \in SUBSET S
      OBVIOUS
    <2>2. \A x \in S : IsFiniteSet(Up(x))
      BY <2>1, FS_Subset
    <2> QED
      BY <2>1, <2>2 DEF FiniteSubsetsOf
  <1> HIDE DEF T
  <1>2. PICK u \in T : \A v \in T : <<v, u>> \notin StrictSubsetOrdering(S)
    BY <1>1, FS_StrictSubsetOrderingWellFounded, WFMin
  <1>3. PICK x \in S : u = Up(x)
    BY DEF T
  <1>4. ASSUME NEW y \in S, ~(x >= y)
        PROVE  FALSE
    <2>1. x \in Int /\ y \in Int /\ x < y
      BY <1>4
    <2>2. \A z \in S : y <= z => x <= z
      BY <2>1
    <2>3. Up(y) \subseteq Up(x)
      BY <2>2
    <2>4. x \in Up(x) /\ x \notin Up(y)
      BY <2>1
    <2>5. Up(y) \in T
      BY DEF T
    <2>6. Up(y) \subseteq S /\ Up(x) \subseteq S
      OBVIOUS
    <2> HIDE DEF Up
    <2>7. <<Up(y), Up(x)>> \in StrictSubsetOrdering(S)
      BY <2>3, <2>4, <2>6 DEF StrictSubsetOrdering
    <2> QED
      BY <2>5, <2>7, <1>2, <1>3
  <1>5. \E z \in S : \A y \in S : z >= y
    BY <1>4
  <1> QED
    BY <1>5 DEF Max

LEMMA MaxGrowIs ==
    /\ MaxGrow \in Int /\ 2 * PGSIZE <= MaxGrow
    /\ \A n \in Grows : n <= MaxGrow
  <1> DEFINE S == Grows \union {2 * PGSIZE}
  <1>1. IsFiniteSet(S) /\ S \in SUBSET Int /\ S # {}
    BY UserMemAssumption, FS_AddElement
  <1>2. MaxGrow \in S /\ \A y \in S : MaxGrow >= y
    BY <1>1, MaxIs DEF MaxGrow
  <1>3. MaxGrow \in Int
    BY <1>1, <1>2
  <1> QED
    BY <1>1, <1>2, <1>3

-----------------------------------------------------------------------------
(* Frames *)

LEMMA PagesFinite ==
    ASSUME NEW S \in SUBSET Page
    PROVE  IsFiniteSet(S) /\ Cardinality(S) \in Nat
  <1>1. IsFiniteSet(Page)
    BY UserMemAssumption, FS_Interval DEF Page
  <1>2. IsFiniteSet(S)
    BY <1>1, FS_Subset
  <1> QED
    BY <1>2, FS_CardinalityType

\* One table of several is exchanged for another.
LEMMA AllPagesChange ==
    ASSUME NEW I, IsFiniteSet(I), NEW f \in [I -> SUBSET Page], NEW i \in I,
           NEW S \in SUBSET Page
    PROVE  /\ Cardinality(AllPages(f)) \in Nat
           /\ Cardinality(AllPages([f EXCEPT ![i] = S])) \in Nat
           /\ Cardinality(AllPages([f EXCEPT ![i] = S])) - Cardinality(S) =
              Cardinality(AllPages(f)) - Cardinality(f[i])
  <1> DEFINE rest == UNION {{j} \X f[j] : j \in I \ {i}}
  <1>1. AllPages(f) = rest \union ({i} \X f[i])
    BY DEF AllPages
  <1>2. AllPages([f EXCEPT ![i] = S]) = rest \union ({i} \X S)
    BY DEF AllPages
  <1>3. \A T : rest \intersect ({i} \X T) = {}
    OBVIOUS
  <1>4. IsFiniteSet(rest)
    <2>1. rest \in SUBSET (I \X Page)
      OBVIOUS
    <2>2. IsFiniteSet(I \X Page)
      <3>1. IsFiniteSet(Page)
        BY PagesFinite
      <3> QED
        BY <3>1, FS_Product
    <2> HIDE DEF rest
    <2> QED
      BY <2>1, <2>2, FS_Subset
  <1>5. ASSUME NEW T \in SUBSET Page
        PROVE  /\ IsFiniteSet(rest \union ({i} \X T))
               /\ Cardinality(rest \union ({i} \X T)) = Cardinality(rest) + Cardinality(T)
    <2>1. IsFiniteSet({i}) /\ Cardinality({i}) = 1
      BY FS_Singleton
    <2>2. IsFiniteSet(T) /\ Cardinality(T) \in Nat
      BY PagesFinite
    <2>3. IsFiniteSet({i} \X T) /\ Cardinality({i} \X T) = 1 * Cardinality(T)
      BY <2>1, <2>2, FS_Product
    <2>4. Cardinality({i} \X T) = Cardinality(T)
      BY <2>2, <2>3
    <2>5. rest \intersect ({i} \X T) = {}
      BY <1>3
    <2> HIDE DEF rest
    <2>6. Cardinality(rest) \in Nat
      BY <1>4, FS_CardinalityType
    <2>7. Cardinality({}) = 0
      BY FS_EmptySet
    <2>8. /\ IsFiniteSet(rest \union ({i} \X T))
          /\ Cardinality(rest \union ({i} \X T)) = Cardinality(rest) + Cardinality({i} \X T) - 0
      BY <1>4, <2>3, <2>5, <2>7, FS_Union
    <2> QED
      BY <2>2, <2>4, <2>6, <2>8
  <1> HIDE DEF rest
  <1>6. Cardinality(rest) \in Nat /\ Cardinality(S) \in Nat /\ Cardinality(f[i]) \in Nat
    <2>1. f[i] \in SUBSET Page
      OBVIOUS
    <2> QED
      BY <1>4, <2>1, FS_CardinalityType, PagesFinite
  <1>7. /\ Cardinality(AllPages(f)) = Cardinality(rest) + Cardinality(f[i])
        /\ Cardinality(AllPages([f EXCEPT ![i] = S])) = Cardinality(rest) + Cardinality(S)
    BY <1>1, <1>2, <1>5
  <1> QED
    BY <1>6, <1>7

NewTables == [s \in Slots |-> exec[s].new]

LEMMA FreeFramesIs ==
    ASSUME Typed
    PROVE  /\ FreeFrames = NFRAMES - Cardinality(AllPages(pages))
                                   - Cardinality(AllPages(NewTables))
           /\ pages \in [Pids -> SUBSET Page] /\ NewTables \in [Slots -> SUBSET Page]
           /\ IsFiniteSet(Pids) /\ IsFiniteSet(Slots)
           /\ Cardinality(AllPages(pages)) \in Nat
           /\ Cardinality(AllPages(NewTables)) \in Nat
  <1>1. /\ FreeFrames = NFRAMES - Cardinality(AllPages(pages))
                                - Cardinality(AllPages(NewTables))
        /\ pages \in [Pids -> SUBSET Page]
    BY DEF FreeFrames, NewTables, Typed
  <1>2. NewTables \in [Slots -> SUBSET Page]
    BY DEF NewTables, Typed, Execs
  <1>3. IsFiniteSet(Pids) /\ IsFiniteSet(Slots) /\ 1 \in Pids /\ 1 \in Slots
    BY UserMemAssumption, FS_Interval DEF Pids, Slots
  <1>4. {} \in SUBSET Page
    OBVIOUS
  <1>5. /\ Cardinality(AllPages(pages)) \in Nat
        /\ Cardinality(AllPages(NewTables)) \in Nat
    BY <1>1, <1>2, <1>3, <1>4, AllPagesChange
  <1> QED
    BY <1>1, <1>2, <1>3, <1>5

LEMMA SameFrames ==
    ASSUME Typed, FramesInv, pages' = pages, \A s \in Slots : exec'[s].new = exec[s].new
    PROVE  FramesInv'
  <1>1. NewTables' = NewTables
    BY DEF NewTables
  <1> QED
    BY <1>1 DEF FramesInv, FreeFrames, NewTables

\* The table of a process and one that exec makes change.
Exchanged(p, S, s, T) ==
    /\ pages' = [pages EXCEPT ![p] = S]
    /\ \A t \in Slots : exec'[t].new = IF t = s THEN T ELSE exec[t].new

LEMMA TablesFrames ==
    ASSUME Typed, FramesInv, NEW p \in Pids, NEW S \in SUBSET Page,
           NEW s \in Slots, NEW T \in SUBSET Page,
           Cardinality(S) + Cardinality(T) <=
               Cardinality(pages[p]) + Cardinality(exec[s].new) + FreeFrames,
           Exchanged(p, S, s, T)
    PROVE  FramesInv'
  <1>1. NewTables' = [NewTables EXCEPT ![s] = T]
    BY DEF NewTables, Exchanged
  <1>2. FreeFrames' = NFRAMES - Cardinality(AllPages([pages EXCEPT ![p] = S]))
                              - Cardinality(AllPages([NewTables EXCEPT ![s] = T]))
    BY <1>1 DEF FreeFrames, NewTables, Exchanged
  <1> DEFINE b == Cardinality(AllPages(pages))
             c == Cardinality(AllPages([pages EXCEPT ![p] = S]))
             d == Cardinality(AllPages(NewTables))
             e == Cardinality(AllPages([NewTables EXCEPT ![s] = T]))
  <1>3. b \in Nat /\ c \in Nat /\ c - Cardinality(S) = b - Cardinality(pages[p])
    BY FreeFramesIs, AllPagesChange
  <1>4. d \in Nat /\ e \in Nat /\ e - Cardinality(T) = d - Cardinality(exec[s].new)
    <2>1. NewTables[s] = exec[s].new
      BY DEF NewTables
    <2>2. IsFiniteSet(Slots) /\ NewTables \in [Slots -> SUBSET Page]
      BY FreeFramesIs
    <2>3. d \in Nat /\ e \in Nat /\ e - Cardinality(T) = d - Cardinality(NewTables[s])
      BY <2>2, AllPagesChange
    <2> QED
      BY <2>1, <2>3
  <1>5. FreeFrames = NFRAMES - b - d
    BY FreeFramesIs
  <1>6. /\ Cardinality(S) \in Nat /\ Cardinality(pages[p]) \in Nat
        /\ Cardinality(T) \in Nat /\ Cardinality(exec[s].new) \in Nat
    <2>1. exec[s].new \in SUBSET Page /\ pages[p] \in SUBSET Page
      BY DEF Typed, Execs
    <2> QED
      BY <2>1, PagesFinite
  <1> HIDE DEF b, c, d, e
  <1>7. FreeFrames' = NFRAMES - c - e
    BY <1>2 DEF c, e
  <1> QED
    BY <1>3, <1>4, <1>5, <1>6, <1>7, UserMemAssumption DEF FramesInv

\* The table of a process changes.
LEMMA PagesFrames ==
    ASSUME Typed, FramesInv, NEW p \in Pids, NEW S \in SUBSET Page,
           Cardinality(S) <= Cardinality(pages[p]) + FreeFrames,
           pages' = [pages EXCEPT ![p] = S],
           \A s \in Slots : exec'[s].new = exec[s].new
    PROVE  FramesInv'
  <1>1. 1 \in Slots /\ exec[1].new \in SUBSET Page /\ pages[p] \in SUBSET Page
    BY UserMemAssumption DEF Slots, Typed, Execs
  <1>2. /\ Cardinality(S) \in Nat /\ Cardinality(pages[p]) \in Nat
        /\ Cardinality(exec[1].new) \in Nat /\ FreeFrames \in Nat
    BY <1>1, PagesFinite, UserMemAssumption DEF FramesInv
  <1>3. Cardinality(S) + Cardinality(exec[1].new) <=
            Cardinality(pages[p]) + Cardinality(exec[1].new) + FreeFrames
    BY <1>2
  <1>4. Exchanged(p, S, 1, exec[1].new)
    BY DEF Exchanged
  <1> QED
    BY <1>1, <1>3, <1>4, TablesFrames

\* The table that exec makes changes.
LEMMA NewFrames ==
    ASSUME Typed, FramesInv, NEW s \in Slots, NEW S \in SUBSET Page,
           Cardinality(S) <= Cardinality(exec[s].new) + FreeFrames,
           pages' = pages,
           \A t \in Slots : exec'[t].new = (IF t = s THEN S ELSE exec[t].new)
    PROVE  FramesInv'
  <1>1. /\ 1 \in Pids /\ exec[s].new \in SUBSET Page /\ pages[1] \in SUBSET Page
        /\ pages = [pages EXCEPT ![1] = pages[1]]
    BY UserMemAssumption DEF Pids, Typed, Execs
  <1>2. PICK W \in SUBSET Page : W = pages[1]
    BY <1>1
  <1>3. Exchanged(1, W, s, S)
    BY <1>1, <1>2 DEF Exchanged
  <1>4. /\ Cardinality(S) \in Nat /\ Cardinality(pages[1]) \in Nat
        /\ Cardinality(exec[s].new) \in Nat /\ FreeFrames \in Nat
    BY <1>1, PagesFinite, UserMemAssumption DEF FramesInv
  <1>5. Cardinality(W) + Cardinality(S) <=
            Cardinality(pages[1]) + Cardinality(exec[s].new) + FreeFrames
    BY <1>2, <1>4
  <1> QED
    BY <1>1, <1>3, <1>5, TablesFrames

\* What allocuvm returns.
LEMMA AllocIs ==
    ASSUME Typed, FramesInv, NEW dir \in SUBSET Page, NEW old \in Nat, NEW new \in Int
    PROVE  LET a == allocuvm(dir, old, new)
           IN  /\ a.dir \in SUBSET Page
               /\ Cardinality(a.dir) <= Cardinality(dir) + FreeFrames
               /\ a.result = "ok" =>
                     /\ new < KERNBASE /\ a.dir = dir \union Between(old, new)
               /\ a.result # "ok" => a.dir = dir \/ a.dir = dir \ Between(old, new)
  <1> DEFINE wanted == Between(old, new)
             mapped == wanted \intersect dir
             reached == {a \in wanted : \A m \in mapped : a <= m}
             r == allocuvm(dir, old, new)
  <1>1. FreeFrames \in Nat
    BY UserMemAssumption DEF FramesInv
  <1>2. new \in Int /\ KERNBASE \in Int
    BY UserMemAssumption
  <1>3. wanted \in SUBSET Page
    BY BetweenPages
  <1>4. /\ IsFiniteSet(dir) /\ Cardinality(dir) \in Nat
        /\ IsFiniteSet(wanted) /\ Cardinality(wanted) \in Nat
        /\ Cardinality(reached) \in Nat
    <2>1. reached \in SUBSET Page
      BY <1>3
    <2> HIDE DEF wanted, reached
    <2> QED
      BY <1>3, <2>1, PagesFinite
  <1>5. CASE new >= KERNBASE
    <2>1. r = [result |-> "fail", dir |-> dir]
      BY <1>2, <1>5 DEF allocuvm
    <2> HIDE DEF r
    <2> QED
      BY <1>1, <1>4, <2>1 DEF r
  <1>6. CASE new < KERNBASE /\ Cardinality(reached) > FreeFrames
    <2>1. r = [result |-> "fail", dir |-> dir \ wanted]
      BY <1>1, <1>2, <1>4, <1>6 DEF allocuvm, Undone
    <2>2. dir \ wanted \in SUBSET dir
      OBVIOUS
    <2>3. Cardinality(dir \ wanted) <= Cardinality(dir)
      BY <1>4, <2>2, FS_Subset
    <2>4. Cardinality(dir \ wanted) \in Nat
      <3>1. dir \ wanted \in SUBSET Page
        OBVIOUS
      <3> HIDE DEF wanted
      <3> QED
        BY <3>1, PagesFinite
    <2> HIDE DEF r
    <2> QED
      BY <1>1, <1>4, <2>1, <2>3, <2>4 DEF r
  <1>7. CASE new < KERNBASE /\ ~(Cardinality(reached) > FreeFrames) /\ mapped # {}
    <2>1. r = [result |-> "remap", dir |-> dir]
      BY <1>1, <1>2, <1>4, <1>7 DEF allocuvm
    <2> HIDE DEF r
    <2> QED
      BY <1>1, <1>4, <2>1 DEF r
  <1>8. CASE new < KERNBASE /\ ~(Cardinality(reached) > FreeFrames) /\ mapped = {}
    <2>1. r = [result |-> "ok", dir |-> dir \union wanted]
      BY <1>1, <1>2, <1>4, <1>8 DEF allocuvm
    <2>2. reached = wanted
      BY <1>8
    <2>3. Cardinality(wanted) <= FreeFrames
      BY <1>1, <1>4, <1>8, <2>2
    <2>4. dir \union wanted \in SUBSET Page
      BY <1>3
    <2> HIDE DEF wanted
    <2>5. Cardinality(dir \intersect wanted) \in Nat
      <3>1. dir \intersect wanted \in SUBSET Page
        OBVIOUS
      <3> QED
        BY <3>1, PagesFinite
    <2>6. Cardinality(dir \union wanted) =
          Cardinality(dir) + Cardinality(wanted) - Cardinality(dir \intersect wanted)
      BY <1>4, FS_Union
    <2>7. Cardinality(dir \union wanted) <= Cardinality(dir) + FreeFrames
      BY <1>1, <1>4, <2>3, <2>5, <2>6
    <2> HIDE DEF r
    <2> QED
      BY <1>8, <2>1, <2>4, <2>7 DEF r, wanted
  <1> QED
    BY <1>2, <1>5, <1>6, <1>7, <1>8

-----------------------------------------------------------------------------
(* Slots and processes *)

\* A live slot belongs to a process, and so does its main thread.
LEMMA LiveIs ==
    ASSUME IInv, NEW s \in Slots, proc[s].state = "live"
    PROVE  /\ proc[s].pid \in Pids /\ proc[s].pid # 0 /\ proc[s].main \in Slots
           /\ proc[s].sz \in Nat /\ proc[s].sz <= KERNBASE /\ proc[s].memlim \in Nat
           /\ proc[proc[s].main].state = "live" /\ proc[proc[s].main].pid = proc[s].pid
           /\ proc[proc[s].main].main = proc[s].main
           /\ proc[proc[s].main].memlim = proc[s].memlim
           /\ proc[proc[s].main].sz \in Nat /\ proc[proc[s].main].sz <= KERNBASE
  <1>1. proc[s].pid # 0
    BY DEF IInv, FamilyInv
  <1>2. proc[s].main \in Slots /\ proc[proc[s].main].pid = proc[s].pid
    BY <1>1 DEF IInv, FamilyInv
  <1>3. proc[s] \in Proc /\ proc[proc[s].main] \in Proc
    BY <1>2 DEF IInv, Typed
  <1>4. /\ proc[s].pid \in Pids
        /\ proc[s].sz \in Nat /\ proc[s].sz <= KERNBASE /\ proc[s].memlim \in Nat
        /\ proc[proc[s].main].sz \in Nat /\ proc[proc[s].main].sz <= KERNBASE
    BY <1>1, <1>3, UserMemAssumption DEF Proc
  <1>5. proc[proc[s].main].state = "live"
    BY <1>1 DEF IInv, FamilyInv
  <1>6. /\ proc[proc[s].main].main = proc[s].main
        /\ proc[proc[s].main].memlim = proc[s].memlim
    BY <1>1, <1>2 DEF IInv, FamilyInv
  <1> QED
    BY <1>1, <1>2, <1>4, <1>5, <1>6

\* Nobody else is in exec while a thread of the process is not.
LEMMA NobodyInExec ==
    ASSUME IInv, NEW s \in Slots, exec[s] = NoExec, NEW t \in Slots,
           proc[t].pid = proc[s].pid
    PROVE  exec[t] = NoExec
  BY DEF IInv, AloneInv

\* A step that leaves the processes what they are.
SameFamilies ==
    \A t \in Slots : /\ proc'[t].state = proc[t].state /\ proc'[t].pid = proc[t].pid
                     /\ proc'[t].main = proc[t].main /\ proc'[t].memlim = proc[t].memlim

LEMMA FamiliesKept ==
    ASSUME FamilyInv, SameFamilies
    PROVE  FamilyInv' /\ \A p : Of(p)' = Of(p)
  <1>1. \A p : Of(p)' = Of(p)
    BY DEF Of, SameFamilies
  <1>2. ASSUME NEW s \in Slots
        PROVE  /\ proc'[s].state # "unused" => proc'[s].pid # 0
               /\ proc'[s].pid # 0 =>
                     /\ proc'[s].main \in Slots /\ proc'[proc'[s].main].pid = proc'[s].pid
                     /\ \/ proc'[proc'[s].main].state = "live"
                        \/ proc'[proc'[s].main].state = "zombie" /\ proc'[s].state = "zombie"
    BY DEF FamilyInv, SameFamilies
  <1>3. \A s, t \in Slots : proc'[s].pid = proc'[t].pid /\ proc'[s].pid # 0 =>
          proc'[s].main = proc'[t].main /\ proc'[s].memlim = proc'[t].memlim
    BY DEF FamilyInv, SameFamilies
  <1> QED
    BY <1>1, <1>2, <1>3 DEF FamilyInv

\* A step that touches one process, which has the size z after it.
TouchesOnly(p, z) ==
    \A t \in Slots : Sound(t)' =>
        /\ proc'[t].pid # p =>
               /\ Sound(t) /\ proc'[t].pid = proc[t].pid /\ proc'[t].sz = proc[t].sz
               /\ proc'[t].memlim = proc[t].memlim
               /\ pages'[proc[t].pid] = pages[proc[t].pid]
               /\ gone'[proc[t].pid] = gone[proc[t].pid]
        /\ proc'[t].pid = p =>
               /\ proc'[t].sz = z
               /\ gone'[p] \subseteq Below(z) /\ pages'[p] = Below(z) \ gone'[p]
               /\ proc'[t].memlim > 0 => z + 2 * PGSIZE <= proc'[t].memlim + MaxGrow

LEMMA SizeStep ==
    ASSUME SizeInv, NEW p, NEW z, TouchesOnly(p, z)
    PROVE  SizeInv'
  <1>1. ASSUME NEW s \in Slots, NEW t \in Slots, Sound(s)', Sound(t)', proc'[s].pid = proc'[t].pid
        PROVE  proc'[s].sz = proc'[t].sz
    BY <1>1 DEF SizeInv, TouchesOnly
  <1>2. ASSUME NEW s \in Slots, Sound(s)'
        PROVE  /\ gone'[proc'[s].pid] \subseteq Below(proc'[s].sz)
               /\ pages'[proc'[s].pid] = Below(proc'[s].sz) \ gone'[proc'[s].pid]
               /\ proc'[s].memlim > 0 =>
                     proc'[s].sz + 2 * PGSIZE <= proc'[s].memlim + MaxGrow
    <2>1. CASE proc'[s].pid = p
      BY <1>2, <2>1 DEF TouchesOnly
    <2>2. CASE proc'[s].pid # p
      BY <1>2, <2>2 DEF SizeInv, TouchesOnly
    <2> QED
      BY <2>1, <2>2
  <1> QED
    BY <1>1, <1>2 DEF SizeInv, Below, MaxGrow

\* A step that touches no size, no table and no limit.
LEMMA NothingTouched ==
    ASSUME IInv, UNCHANGED <<proc, pages, exec, gone, broken, twice, refused>>
    PROVE  IInv'
  BY DEF IInv, Typed, FamilyInv, AloneInv, OwnedInv, SizeInv, Sound, NewInv, FramesInv,
         FreeFrames, Of

-----------------------------------------------------------------------------
(* sbrk *)

LEMMA SizedIs ==
    ASSUME Typed, NEW pid, NEW z \in 0 .. KERNBASE, proc' = Sized(proc, pid, z)
    PROVE  /\ proc' \in [Slots -> Proc] /\ SameFamilies
           /\ \A t \in Slots : proc'[t].sz = IF proc[t].pid = pid THEN z ELSE proc[t].sz
  <1>1. ASSUME NEW t \in Slots
        PROVE  /\ proc'[t] \in Proc
               /\ proc'[t].state = proc[t].state /\ proc'[t].pid = proc[t].pid
               /\ proc'[t].main = proc[t].main /\ proc'[t].memlim = proc[t].memlim
               /\ proc'[t].sz = IF proc[t].pid = pid THEN z ELSE proc[t].sz
    <2>1. proc[t] \in Proc
      BY DEF Typed
    <2>2. proc'[t] = IF proc[t].pid = pid THEN [proc[t] EXCEPT !.sz = z] ELSE proc[t]
      BY DEF Sized
    <2> QED
      BY <2>1, <2>2 DEF Proc
  <1>2. proc' = [t \in Slots |-> proc'[t]]
    BY DEF Sized
  <1> QED
    BY <1>1, <1>2 DEF SameFamilies

\* Nothing of exec changes, and nobody in exec belongs to the process.
LEMMA NewKept ==
    ASSUME IInv, exec' = exec,
           \A t \in Slots : exec[t] # NoExec =>
               proc'[t].sz = proc[t].sz /\ proc'[t].memlim = proc[t].memlim
    PROVE  NewInv'
  <1>1. ASSUME NEW t \in Slots
        PROVE  /\ exec[t].at \in {"none", "load"} => exec[t].new = {}
               /\ exec[t].at \in {"stack", "check", "commit"} =>
                     exec[t].new = Below(exec[t].sz) /\ proc'[t].sz = exec[t].sz
               /\ exec[t].at = "commit" /\ proc'[t].memlim > 0 =>
                     exec[t].sz <= proc'[t].memlim
    BY DEF IInv, NewInv, NoExec
  <1> QED
    BY <1>1 DEF NewInv, Below

LEMMA GrowKeeps ==
    ASSUME IInv, NEW s \in Slots, NEW n \in Grows, Grow(s, n)
    PROVE  IInv'
  <1> DEFINE pid == proc[s].pid
             sz == proc[s].sz + n
             a == allocuvm(pages[pid], proc[s].sz, sz)
  <1>1. Running(s) /\ n > 0 /\ ~OverLimit(s)
    BY DEF Grow
  <1>2. proc[s].state = "live" /\ exec[s] = NoExec
    BY <1>1 DEF Running
  <1>3. n \in Int /\ n \in Nat /\ PGSIZE \in Nat
    BY <1>1, UserMemAssumption
  <1>4. Typed /\ FramesInv /\ SizeInv
    BY DEF IInv
  <1>5. pid \in Pids /\ pages[pid] \in SUBSET Page /\ sz \in Nat
    BY <1>2, <1>3, <1>4, LiveIs DEF Typed
  <1>6. /\ a.dir \in SUBSET Page
        /\ Cardinality(a.dir) <= Cardinality(pages[pid]) + FreeFrames
        /\ a.result = "ok" => sz < KERNBASE /\ a.dir = pages[pid] \union Between(proc[s].sz, sz)
        /\ a.result # "ok" => a.dir = pages[pid] \/ a.dir = pages[pid] \ Between(proc[s].sz, sz)
    <2>1. proc[s].sz \in Nat /\ sz \in Int
      BY <1>2, <1>5, LiveIs
    <2> QED
      BY <1>4, <1>5, <2>1, AllocIs
  <1>7. CASE a.result = "remap" /\ Panic("remap")
    BY <1>7, NothingTouched DEF Panic
  <1>8. CASE /\ a.result # "remap"
             /\ pages' = [pages EXCEPT ![pid] = a.dir]
             /\ proc' = IF a.result = "ok" THEN Sized(proc, pid, sz) ELSE proc
             /\ UNCHANGED <<exec, gone, broken, twice, refused, panicked>>
    <2> DEFINE z == IF a.result = "ok" THEN sz ELSE proc[s].sz
    <2>1. /\ pages'[pid] = a.dir /\ \A p \in Pids : p # pid => pages'[p] = pages[p]
          /\ exec' = exec /\ gone' = gone /\ broken' = broken
      BY <1>4, <1>5, <1>8 DEF Typed
    <2>2. /\ proc' \in [Slots -> Proc] /\ SameFamilies
          /\ \A t \in Slots : proc[t].pid # pid => proc'[t].sz = proc[t].sz
          /\ a.result = "ok" => \A t \in Slots : proc[t].pid = pid => proc'[t].sz = sz
          /\ a.result # "ok" => proc' = proc
      <3>1. CASE a.result = "ok"
        <4>1. sz \in 0 .. KERNBASE
          BY <1>5, <1>6, <3>1, UserMemAssumption
        <4>2. proc' = Sized(proc, pid, sz)
          BY <1>8, <3>1
        <4> HIDE DEF a, sz, pid
        <4> QED
          BY <1>4, <3>1, <4>1, <4>2, SizedIs
      <3>2. CASE a.result # "ok"
        BY <1>4, <1>8, <3>2 DEF Typed, SameFamilies
      <3> QED
        BY <3>1, <3>2
    <2>3. Typed'
      <3>1. pages' \in [Pids -> SUBSET Page]
        BY <1>4, <1>5, <1>6, <1>8 DEF Typed
      <3> QED
        BY <1>4, <1>8, <2>2, <3>1 DEF Typed, Execs
    <2>4. FamilyInv' /\ \A p : Of(p)' = Of(p)
      BY <2>2, FamiliesKept DEF IInv
    <2>5. AloneInv'
      BY <2>1, <2>2 DEF IInv, AloneInv, SameFamilies
    <2>6. OwnedInv'
      BY <2>1, <2>4 DEF IInv, OwnedInv, Of
    <2>7. SizeInv'
      <3>1. ASSUME NEW t \in Slots, proc'[t].pid # pid, Sound(t)'
            PROVE  /\ Sound(t) /\ proc'[t].pid = proc[t].pid /\ proc'[t].sz = proc[t].sz
                   /\ proc'[t].memlim = proc[t].memlim
                   /\ pages'[proc[t].pid] = pages[proc[t].pid]
                   /\ gone'[proc[t].pid] = gone[proc[t].pid]
        <4>1. Sound(t) /\ proc'[t].pid = proc[t].pid /\ proc'[t].memlim = proc[t].memlim
          BY <2>1, <2>2, <3>1 DEF Sound, SameFamilies
        <4>2. proc[t].pid \in Pids
          BY <4>1, LiveIs DEF Sound
        <4> QED
          BY <2>1, <2>2, <3>1, <4>1, <4>2
      <3>2. ASSUME NEW t \in Slots, proc'[t].pid = pid, Sound(t)'
            PROVE  /\ proc'[t].sz = z
                   /\ gone'[pid] \subseteq Below(z) /\ pages'[pid] = Below(z) \ gone'[pid]
                   /\ proc'[t].memlim > 0 => z + 2 * PGSIZE <= proc'[t].memlim + MaxGrow
        <4>1. Sound(t) /\ proc[t].pid = pid /\ proc'[t].memlim = proc[t].memlim
          BY <2>1, <2>2, <3>2 DEF Sound, SameFamilies
        <4>2. Sound(s)
          BY <1>2, <4>1 DEF Sound, NoExec
        <4>3. /\ gone[pid] \subseteq Below(proc[s].sz)
              /\ pages[pid] = Below(proc[s].sz) \ gone[pid]
              /\ proc[t].sz = proc[s].sz
              /\ proc[s].memlim > 0 => proc[s].sz + 2 * PGSIZE <= proc[s].memlim + MaxGrow
          BY <1>4, <4>1, <4>2 DEF SizeInv
        <4>4. proc[t].memlim = proc[s].memlim
          BY <1>2, <4>1, LiveIs DEF IInv, FamilyInv
        <4>5. /\ Below(sz) = Below(proc[s].sz) \union Between(proc[s].sz, sz)
              /\ Below(proc[s].sz) \intersect Between(proc[s].sz, sz) = {}
          <5>1. proc[s].sz \in Nat /\ sz \in Nat /\ proc[s].sz <= sz
            BY <1>2, <1>3, <1>5, LiveIs
          <5> HIDE DEF sz
          <5> QED
            BY <5>1, GrowBelow
        <4>6. CASE a.result = "ok"
          <5>1. proc'[t].sz = sz /\ z = sz
            BY <2>2, <4>1, <4>6
          <5>2. gone'[pid] \subseteq Below(sz) /\ pages'[pid] = Below(sz) \ gone'[pid]
            BY <1>6, <2>1, <4>3, <4>5, <4>6
          <5>3. proc'[t].memlim > 0 => sz + 2 * PGSIZE <= proc'[t].memlim + MaxGrow
            <6>1. n <= MaxGrow /\ MaxGrow \in Int
              BY MaxGrowIs
            <6>2. proc[s].memlim > 0 => proc[s].sz + 2 * PGSIZE <= proc[s].memlim
              BY <1>1, <1>2, <1>3, LiveIs DEF OverLimit
            <6> QED
              BY <1>2, <1>3, <4>1, <4>4, <6>1, <6>2, LiveIs
          <5> QED
            BY <5>1, <5>2, <5>3
        <4>7. CASE a.result # "ok"
          <5>1. proc'[t].sz = proc[s].sz /\ z = proc[s].sz
            BY <2>2, <4>3, <4>7
          <5>2. a.dir = pages[pid]
            BY <1>6, <4>3, <4>5, <4>7
          <5> QED
            BY <2>1, <4>1, <4>3, <4>4, <5>1, <5>2
        <4> QED
          BY <4>6, <4>7
      <3> HIDE DEF z, a, sz, pid
      <3>3. TouchesOnly(pid, z)
        BY <3>1, <3>2 DEF TouchesOnly
      <3> QED
        BY <1>4, <3>3, SizeStep
    <2>8. NewInv'
      <3>1. ASSUME NEW t \in Slots, exec[t] # NoExec
            PROVE  proc'[t].sz = proc[t].sz /\ proc'[t].memlim = proc[t].memlim
        <4>1. proc[t].pid # pid
          BY <1>2, <3>1, NobodyInExec
        <4> QED
          BY <2>2, <4>1 DEF SameFamilies
      <3> QED
        BY <2>1, <3>1, NewKept
    <2>9. FramesInv'
      <3>1. pages' = [pages EXCEPT ![pid] = a.dir] /\ exec' = exec
        BY <1>8
      <3> HIDE DEF a, pid
      <3> QED
        BY <1>4, <1>5, <1>6, <3>1, PagesFrames
    <2> QED
      BY <2>3, <2>4, <2>5, <2>6, <2>7, <2>8, <2>9 DEF IInv
  <1> QED
    BY <1>7, <1>8 DEF Grow

LEMMA FewerPages ==
    ASSUME Typed, FramesInv, NEW p \in Pids, NEW S \in SUBSET pages[p]
    PROVE  S \in SUBSET Page /\ Cardinality(S) <= Cardinality(pages[p]) + FreeFrames
  <1>1. pages[p] \in SUBSET Page /\ S \in SUBSET Page
    BY DEF Typed
  <1>2. /\ IsFiniteSet(pages[p]) /\ Cardinality(pages[p]) \in Nat
        /\ Cardinality(S) \in Nat
    BY <1>1, PagesFinite
  <1>3. Cardinality(S) <= Cardinality(pages[p])
    BY <1>2, FS_Subset
  <1>4. FreeFrames \in Nat
    BY UserMemAssumption DEF FramesInv
  <1> QED
    BY <1>1, <1>2, <1>3, <1>4

LEMMA ShrinkKeeps ==
    ASSUME IInv, NEW s \in Slots, NEW n \in Grows, Shrink(s, n)
    PROVE  IInv'
  <1> DEFINE pid == proc[s].pid
             cut == Between(proc[s].sz + n, proc[s].sz)
  <1>1. /\ proc[s].state = "live" /\ exec[s] = NoExec /\ n < 0 /\ proc[s].sz + n >= 0
        /\ pages' = [pages EXCEPT ![pid] = @ \ cut]
        /\ gone' = [gone EXCEPT ![pid] = @ \union cut]
        /\ UNCHANGED <<proc, exec, broken, twice, refused, panicked>>
    BY DEF Shrink, Running
  <1>2. Typed /\ FramesInv /\ SizeInv
    BY DEF IInv
  <1>3. pid \in Pids /\ pid # 0 /\ proc[s].sz \in Nat /\ n \in Int
    BY <1>1, LiveIs, UserMemAssumption
  <1>4. cut \in SUBSET Page /\ cut \subseteq Below(proc[s].sz)
    <2>1. proc[s].sz + n \in Nat
      BY <1>1, <1>3
    <2>2. cut = {a \in Page : proc[s].sz + n <= a * PGSIZE /\ a * PGSIZE < proc[s].sz}
      BY <1>3, <2>1, BetweenIs
    <2>3. Below(proc[s].sz) = {a \in Page : a * PGSIZE < proc[s].sz}
      BY <1>3, BelowIs
    <2> QED
      BY <2>2, <2>3
  <1> HIDE DEF cut
  <1>5. Typed'
    BY <1>1, <1>2, <1>3, <1>4 DEF Typed
  <1>6. FamilyInv' /\ (\A p : Of(p)' = Of(p))
    BY <1>1 DEF IInv, FamilyInv, Of
  <1>7. AloneInv'
    BY <1>1 DEF IInv, AloneInv
  <1>8. OwnedInv'
    <2>1. s \in Of(pid)
      BY DEF Of
    <2> QED
      BY <1>1, <1>2, <1>3, <1>6, <2>1 DEF IInv, OwnedInv, Typed
  <1>9. SizeInv'
    <2>1. ASSUME NEW t \in Slots, proc'[t].pid # pid, Sound(t)'
          PROVE  /\ Sound(t) /\ proc'[t].pid = proc[t].pid /\ proc'[t].sz = proc[t].sz
                 /\ proc'[t].memlim = proc[t].memlim
                 /\ pages'[proc[t].pid] = pages[proc[t].pid]
                 /\ gone'[proc[t].pid] = gone[proc[t].pid]
      <3>1. Sound(t)
        BY <1>1, <2>1 DEF Sound
      <3>2. proc[t].pid \in Pids
        BY <3>1, LiveIs DEF Sound
      <3> QED
        BY <1>1, <1>2, <2>1, <3>1, <3>2 DEF Typed
    <2>2. ASSUME NEW t \in Slots, proc'[t].pid = pid, Sound(t)'
          PROVE  /\ proc'[t].sz = proc[s].sz
                 /\ gone'[pid] \subseteq Below(proc[s].sz)
                 /\ pages'[pid] = Below(proc[s].sz) \ gone'[pid]
                 /\ proc'[t].memlim > 0 =>
                        proc[s].sz + 2 * PGSIZE <= proc'[t].memlim + MaxGrow
      <3>1. Sound(t) /\ proc[t].pid = pid
        BY <1>1, <2>2 DEF Sound
      <3>2. Sound(s)
        BY <1>1, <3>1 DEF Sound, NoExec
      <3>3. /\ gone[pid] \subseteq Below(proc[s].sz)
            /\ pages[pid] = Below(proc[s].sz) \ gone[pid]
            /\ proc[t].sz = proc[s].sz
            /\ proc[t].memlim > 0 => proc[s].sz + 2 * PGSIZE <= proc[t].memlim + MaxGrow
        BY <1>2, <3>1, <3>2 DEF SizeInv
      <3>4. pages'[pid] = pages[pid] \ cut /\ gone'[pid] = gone[pid] \union cut
        BY <1>1, <1>2, <1>3 DEF Typed
      <3> QED
        BY <1>1, <1>4, <3>3, <3>4
    <2>3. TouchesOnly(pid, proc[s].sz)
      BY <2>1, <2>2 DEF TouchesOnly
    <2> QED
      BY <1>2, <2>3, SizeStep
  <1>10. NewInv'
    BY <1>1, NewKept
  <1>11. FramesInv'
    <2>1. pages' = [pages EXCEPT ![pid] = pages[pid] \ cut]
      BY <1>1
    <2>2. /\ pages[pid] \ cut \in SUBSET Page
          /\ Cardinality(pages[pid] \ cut) <= Cardinality(pages[pid]) + FreeFrames
      BY <1>2, <1>3, FewerPages
    <2> QED
      BY <1>1, <1>2, <1>3, <2>1, <2>2, PagesFrames
  <1> QED
    BY <1>5, <1>6, <1>7, <1>8, <1>9, <1>10, <1>11 DEF IInv

-----------------------------------------------------------------------------
(* exec and exec2 *)

LEMMA ExecAllocKeeps ==
    ASSUME IInv, NEW s \in Slots, NEW from, NEW old \in Nat, NEW sz \in Nat, NEW to,
           ExecAlloc(s, from, old, sz, to),
           \/ from = "load" /\ to = "stack" /\ old = 0
           \/ from = "stack" /\ to = "check" /\ exec[s].sz <= sz
                             /\ Below(old) = Below(exec[s].sz) /\ old <= sz
    PROVE  IInv'
  <1> DEFINE pid == proc[s].pid
             a == allocuvm(exec[s].new, old, sz)
  <1>1. /\ proc[s].state = "live" /\ exec[s].at = from /\ a.result = "ok"
        /\ exec' = [exec EXCEPT ![s] = [at |-> to, new |-> a.dir, sz |-> sz]]
        /\ proc' = Sized(proc, pid, sz)
        /\ UNCHANGED <<pages, gone, broken, twice, refused, panicked, calls>>
    BY DEF ExecAlloc, ExecAt
  <1>2. Typed /\ FramesInv /\ SizeInv
    BY DEF IInv
  <1>3. exec[s] # NoExec /\ exec[s].at # "none"
    BY <1>1 DEF NoExec
  <1>4. \A t \in Slots : proc[t].pid = pid => t = s
    BY <1>3 DEF IInv, AloneInv
  <1>5. /\ a.dir \in SUBSET Page
        /\ Cardinality(a.dir) <= Cardinality(exec[s].new) + FreeFrames
        /\ sz < KERNBASE /\ a.dir = exec[s].new \union Between(old, sz)
    <2>1. exec[s].new \in SUBSET Page
      BY <1>2 DEF Typed, Execs
    <2>2. sz \in Int
      OBVIOUS
    <2> QED
      BY <1>1, <1>2, <2>1, <2>2, AllocIs
  <1> HIDE DEF a
  <1>6. a.dir = Below(sz)
    <2>1. CASE from = "load"
      <3>1. exec[s].new = {} /\ old = 0
        BY <1>1, <2>1 DEF IInv, NewInv
      <3> QED
        BY <1>5, <3>1 DEF Below
    <2>2. CASE from = "stack"
      <3>1. exec[s].new = Below(old) /\ old <= sz
        BY <1>1, <2>2 DEF IInv, NewInv
      <3> QED
        BY <1>5, <3>1, GrowBelow
    <2> QED
      BY <2>1, <2>2
  <1>7. /\ proc' \in [Slots -> Proc] /\ SameFamilies
        /\ \A t \in Slots : proc'[t].sz = IF t = s THEN sz ELSE proc[t].sz
    <2>1. sz \in 0 .. KERNBASE
      BY <1>5, UserMemAssumption
    <2> HIDE DEF pid
    <2>2. /\ proc' \in [Slots -> Proc] /\ SameFamilies
          /\ \A t \in Slots : proc'[t].sz = IF proc[t].pid = pid THEN sz ELSE proc[t].sz
      BY <1>1, <1>2, <2>1, SizedIs
    <2> QED
      BY <1>4, <2>2 DEF pid
  <1>8. /\ exec'[s] = [at |-> to, new |-> a.dir, sz |-> sz]
        /\ \A t \in Slots : t # s => exec'[t] = exec[t]
        /\ exec' \in [Slots -> Execs]
    <2>1. sz \in 0 .. KERNBASE
      BY <1>5, UserMemAssumption
    <2>2. [at |-> to, new |-> a.dir, sz |-> sz] \in Execs
      BY <1>5, <2>1 DEF Execs
    <2> QED
      BY <1>1, <1>2, <2>2 DEF Typed
  <1>9. Typed'
    BY <1>1, <1>2, <1>7, <1>8 DEF Typed
  <1>10. FamilyInv' /\ \A p : Of(p)' = Of(p)
    BY <1>7, FamiliesKept DEF IInv
  <1>11. AloneInv'
    <2>1. exec'[s].at = to /\ to # "none"
      BY <1>8
    <2> QED
      BY <1>1, <1>3, <1>7, <1>8, <2>1 DEF IInv, AloneInv, SameFamilies
  <1>12. OwnedInv'
    BY <1>1, <1>10 DEF IInv, OwnedInv
  <1>13. SizeInv'
    <2>1. ~Sound(s)'
      BY <1>8 DEF Sound
    <2>2. TouchesOnly(0, 0)
      <3>1. ASSUME NEW t \in Slots, Sound(t)'
            PROVE  /\ Sound(t) /\ proc'[t].pid = proc[t].pid /\ proc'[t].sz = proc[t].sz
                   /\ proc'[t].memlim = proc[t].memlim /\ proc'[t].pid # 0
        <4>1. t # s
          BY <2>1, <3>1
        <4>2. Sound(t)
          BY <1>1, <1>7, <1>8, <3>1, <4>1 DEF Sound, SameFamilies
        <4>3. proc[t].pid # 0
          BY <4>2, LiveIs DEF Sound
        <4> QED
          BY <1>7, <4>1, <4>2, <4>3 DEF SameFamilies
      <3> QED
        BY <1>1, <3>1 DEF TouchesOnly
    <2> QED
      BY <1>2, <2>2, SizeStep
  <1>14. NewInv'
    <2>1. ASSUME NEW t \in Slots
          PROVE  /\ exec'[t].at \in {"none", "load"} => exec'[t].new = {}
                 /\ exec'[t].at \in {"stack", "check", "commit"} =>
                       exec'[t].new = Below(exec'[t].sz) /\ proc'[t].sz = exec'[t].sz
                 /\ exec'[t].at = "commit" /\ proc'[t].memlim > 0 =>
                       exec'[t].sz <= proc'[t].memlim
      <3>1. CASE t = s
        BY <1>6, <1>7, <1>8, <3>1
      <3>2. CASE t # s
        BY <1>7, <1>8, <3>2 DEF IInv, NewInv, SameFamilies
      <3> QED
        BY <3>1, <3>2
    <2> QED
      BY <2>1 DEF NewInv, Below
  <1>15. FramesInv'
    <2>1. \A t \in Slots : exec'[t].new = (IF t = s THEN a.dir ELSE exec[t].new)
      BY <1>8
    <2> QED
      BY <1>1, <1>2, <1>5, <2>1, NewFrames
  <1> QED
    BY <1>9, <1>10, <1>11, <1>12, <1>13, <1>14, <1>15 DEF IInv

\* Sizes, limits, tables and processes stay; a Sound slot was one before.
LEMMA SizesStay ==
    ASSUME IInv,
           \A t \in Slots : Sound(t)' =>
               /\ Sound(t) /\ proc'[t].pid = proc[t].pid /\ proc'[t].sz = proc[t].sz
               /\ proc'[t].memlim = proc[t].memlim
               /\ pages'[proc[t].pid] = pages[proc[t].pid]
               /\ gone'[proc[t].pid] = gone[proc[t].pid]
    PROVE  SizeInv'
  <1>1. ASSUME NEW t \in Slots, Sound(t)'
        PROVE  proc'[t].pid # 0
    BY <1>1, LiveIs DEF Sound
  <1>2. TouchesOnly(0, 0)
    BY <1>1 DEF TouchesOnly
  <1> QED
    BY <1>2, SizeStep DEF IInv

LEMMA ExecLoadKeeps ==
    ASSUME IInv, NEW s \in Slots, NEW image \in Images, ExecLoad(s, image)
    PROVE  IInv'
  <1>1. image \in Nat /\ 0 \in Nat
    BY UserMemAssumption
  <1>2. ExecAlloc(s, "load", 0, image, "stack")
    BY DEF ExecLoad
  <1> QED
    BY <1>1, <1>2, ExecAllocKeeps

LEMMA ExecStackKeeps ==
    ASSUME IInv, NEW s \in Slots, NEW n \in Stacks, ExecStack(s, n)
    PROVE  IInv'
  <1> DEFINE top == PGROUNDUP(exec[s].sz) * PGSIZE
             sz == top + n * PGSIZE
  <1>1. exec[s].sz \in Nat
    BY UserMemAssumption DEF IInv, Typed, Execs
  <1>2. top \in Nat /\ exec[s].sz <= top /\ Below(top) = Below(exec[s].sz)
    BY <1>1, RoundedBelow
  <1> HIDE DEF top
  <1>3. n * PGSIZE \in Nat
    BY UserMemAssumption
  <1>4. sz \in Nat /\ top <= sz /\ exec[s].sz <= sz
    BY <1>1, <1>2, <1>3
  <1>5. ExecAlloc(s, "stack", top, sz, "check")
    BY DEF ExecStack, top
  <1> HIDE DEF sz
  <1> QED
    BY <1>2, <1>4, <1>5, ExecAllocKeeps

LEMMA ExecCheckKeeps ==
    ASSUME IInv, NEW s \in Slots, ExecCheck(s)
    PROVE  IInv'
  <1>1. /\ proc[s].state = "live" /\ exec[s].at = "check"
        /\ ~(proc[s].memlim > 0 /\ proc[s].memlim < exec[s].sz)
        /\ exec' = [exec EXCEPT ![s].at = "commit"]
        /\ UNCHANGED <<proc, pages, gone, broken, twice, refused, panicked, calls>>
    BY DEF ExecCheck, ExecAt
  <1>2. Typed /\ FramesInv
    BY DEF IInv
  <1>3. /\ exec'[s].at = "commit" /\ exec'[s].new = exec[s].new /\ exec'[s].sz = exec[s].sz
        /\ \A t \in Slots : t # s => exec'[t] = exec[t]
        /\ exec' \in [Slots -> Execs]
    BY <1>1, <1>2 DEF Typed, Execs
  <1>4. Typed'
    BY <1>1, <1>2, <1>3 DEF Typed
  <1>5. FamilyInv' /\ OwnedInv'
    BY <1>1 DEF IInv, FamilyInv, OwnedInv, Of
  <1>6. AloneInv'
    <2>1. exec[s] # NoExec
      BY <1>1 DEF NoExec
    <2> QED
      BY <1>1, <1>3, <2>1 DEF IInv, AloneInv
  <1>7. SizeInv'
    <2>1. \A t \in Slots : Sound(t)' => Sound(t)
      BY <1>1, <1>3 DEF Sound
    <2> QED
      BY <1>1, <2>1, SizesStay
  <1>8. NewInv'
    <2>1. proc[s].memlim > 0 => exec[s].sz <= proc[s].memlim
      <3>1. exec[s].sz \in Nat
        BY <1>2, UserMemAssumption DEF Typed, Execs
      <3> QED
        BY <1>1, <3>1, LiveIs
    <2> QED
      BY <1>1, <1>3, <2>1 DEF IInv, NewInv, Below
  <1>9. FramesInv'
    BY <1>1, <1>2, <1>3, SameFrames
  <1> QED
    BY <1>4, <1>5, <1>6, <1>7, <1>8, <1>9 DEF IInv

LEMMA ExecCommitKeeps ==
    ASSUME IInv, NEW s \in Slots, ExecCommit(s)
    PROVE  IInv'
  <1> DEFINE pid == proc[s].pid
             z == exec[s].sz
  <1>1. /\ proc[s].state = "live" /\ exec[s].at = "commit"
        /\ pages' = [pages EXCEPT ![pid] = exec[s].new]
        /\ proc' = [proc EXCEPT ![s].sz = z]
        /\ gone' = [gone EXCEPT ![pid] = {}]
        /\ broken' = broken \ {pid}
        /\ exec' = [exec EXCEPT ![s] = NoExec]
        /\ UNCHANGED <<twice, refused, panicked, calls>>
    BY DEF ExecCommit, ExecAt
  <1>2. Typed /\ FramesInv /\ SizeInv
    BY DEF IInv
  <1>3. pid \in Pids /\ pid # 0
    BY <1>1, LiveIs
  <1>4. \A t \in Slots : proc[t].pid = pid => t = s
    <2>1. exec[s] # NoExec
      BY <1>1 DEF NoExec
    <2> QED
      BY <2>1 DEF IInv, AloneInv
  <1>5. /\ exec[s].new \in SUBSET Page /\ exec[s].new = Below(z)
        /\ z \in 0 .. KERNBASE /\ z \in Nat
        /\ proc[s].memlim > 0 => z <= proc[s].memlim
    BY <1>1, <1>2, UserMemAssumption DEF Typed, Execs, IInv, NewInv
  <1>6. /\ proc' \in [Slots -> Proc] /\ proc'[s].sz = z /\ SameFamilies
        /\ \A t \in Slots : t # s => proc'[t] = proc[t]
    BY <1>1, <1>2, <1>5 DEF Typed, Proc, SameFamilies
  <1>7. /\ exec'[s] = NoExec /\ \A t \in Slots : t # s => exec'[t] = exec[t]
        /\ exec' \in [Slots -> Execs]
    <2>1. NoExec \in Execs
      BY UserMemAssumption DEF NoExec, Execs
    <2> QED
      BY <1>1, <1>2, <2>1 DEF Typed
  <1>8. /\ pages' \in [Pids -> SUBSET Page] /\ pages'[pid] = Below(z)
        /\ gone' \in [Pids -> SUBSET Page] /\ gone'[pid] = {}
        /\ \A p \in Pids : p # pid => pages'[p] = pages[p] /\ gone'[p] = gone[p]
    BY <1>1, <1>2, <1>3, <1>5 DEF Typed
  <1>9. Typed'
    BY <1>1, <1>2, <1>6, <1>7, <1>8 DEF Typed
  <1>10. FamilyInv' /\ \A p : Of(p)' = Of(p)
    BY <1>6, FamiliesKept DEF IInv
  <1>11. AloneInv'
    BY <1>1, <1>6, <1>7 DEF IInv, AloneInv, SameFamilies
  <1>12. OwnedInv'
    <2>1. s \in Of(pid)
      BY DEF Of
    <2> QED
      BY <1>8, <1>10, <2>1 DEF IInv, OwnedInv
  <1>13. SizeInv'
    <2>1. ASSUME NEW t \in Slots, proc'[t].pid # pid, Sound(t)'
          PROVE  /\ Sound(t) /\ proc'[t].pid = proc[t].pid /\ proc'[t].sz = proc[t].sz
                 /\ proc'[t].memlim = proc[t].memlim
                 /\ pages'[proc[t].pid] = pages[proc[t].pid]
                 /\ gone'[proc[t].pid] = gone[proc[t].pid]
      <3>1. t # s /\ proc'[t] = proc[t] /\ exec'[t] = exec[t]
        BY <1>6, <1>7, <2>1 DEF SameFamilies
      <3>2. Sound(t)
        BY <1>1, <2>1, <3>1 DEF Sound
      <3>3. proc[t].pid \in Pids
        BY <3>2, LiveIs DEF Sound
      <3> QED
        BY <1>8, <2>1, <3>1, <3>2, <3>3
    <2>2. ASSUME NEW t \in Slots, proc'[t].pid = pid, Sound(t)'
          PROVE  /\ proc'[t].sz = z
                 /\ gone'[pid] \subseteq Below(z) /\ pages'[pid] = Below(z) \ gone'[pid]
                 /\ proc'[t].memlim > 0 => z + 2 * PGSIZE <= proc'[t].memlim + MaxGrow
      <3>1. t = s /\ proc'[t].memlim = proc[s].memlim
        BY <1>4, <1>6, <2>2 DEF SameFamilies
      <3>2. proc[s].memlim > 0 => z + 2 * PGSIZE <= proc[s].memlim + MaxGrow
        BY <1>1, <1>5, LiveIs, MaxGrowIs, UserMemAssumption
      <3> QED
        BY <1>6, <1>8, <3>1, <3>2
    <2>3. TouchesOnly(pid, z)
      BY <2>1, <2>2 DEF TouchesOnly
    <2> QED
      BY <1>2, <2>3, SizeStep
  <1>14. NewInv'
    <2>1. ASSUME NEW t \in Slots
          PROVE  /\ exec'[t].at \in {"none", "load"} => exec'[t].new = {}
                 /\ exec'[t].at \in {"stack", "check", "commit"} =>
                       exec'[t].new = Below(exec'[t].sz) /\ proc'[t].sz = exec'[t].sz
                 /\ exec'[t].at = "commit" /\ proc'[t].memlim > 0 =>
                       exec'[t].sz <= proc'[t].memlim
      <3>1. CASE t = s
        BY <1>7, <3>1 DEF NoExec
      <3>2. CASE t # s
        BY <1>6, <1>7, <3>2 DEF IInv, NewInv
      <3> QED
        BY <3>1, <3>2
    <2> QED
      BY <2>1 DEF NewInv, Below
  <1>15. FramesInv'
    <2>1. {} \in SUBSET Page /\ Cardinality({}) = 0
      BY FS_EmptySet
    <2>2. pages[pid] \in SUBSET Page
      BY <1>2, <1>3 DEF Typed
    <2>3. /\ Cardinality(exec[s].new) \in Nat /\ Cardinality(pages[pid]) \in Nat
          /\ FreeFrames \in Nat
      BY <1>2, <1>5, <2>2, PagesFinite, UserMemAssumption DEF FramesInv
    <2>4. Cardinality(exec[s].new) + Cardinality({}) <=
              Cardinality(pages[pid]) + Cardinality(exec[s].new) + FreeFrames
      BY <2>1, <2>3
    <2>5. Exchanged(pid, exec[s].new, s, {})
      BY <1>1, <1>7 DEF NoExec, Exchanged
    <2> QED
      BY <1>2, <1>3, <1>5, <2>1, <2>4, <2>5, TablesFrames
  <1> QED
    BY <1>9, <1>10, <1>11, <1>12, <1>13, <1>14, <1>15 DEF IInv

LEMMA ExecBadKeeps ==
    ASSUME IInv, NEW s \in Slots, ExecBad(s)
    PROVE  IInv'
  <1>1. /\ proc[s].state = "live" /\ exec[s] # NoExec
        /\ exec' = [exec EXCEPT ![s] = NoExec]
        /\ broken' = IF exec[s].at = "load" THEN broken ELSE broken \union {proc[s].pid}
        /\ UNCHANGED <<proc, pages, gone, twice, refused, panicked, calls>>
    BY DEF ExecBad
  <1>2. Typed /\ FramesInv
    BY DEF IInv
  <1>3. exec[s].at # "none" /\ proc[s].pid \in Pids
    BY <1>1, LiveIs DEF IInv, AloneInv
  <1>4. /\ exec'[s] = NoExec /\ \A t \in Slots : t # s => exec'[t] = exec[t]
        /\ exec' \in [Slots -> Execs]
    <2>1. NoExec \in Execs
      BY UserMemAssumption DEF NoExec, Execs
    <2> QED
      BY <1>1, <1>2, <2>1 DEF Typed
  <1>5. Typed'
    BY <1>1, <1>2, <1>3, <1>4 DEF Typed
  <1>6. FamilyInv' /\ OwnedInv'
    BY <1>1 DEF IInv, FamilyInv, OwnedInv, Of
  <1>7. AloneInv'
    BY <1>1, <1>4 DEF IInv, AloneInv
  <1>8. SizeInv'
    <2>1. ASSUME NEW t \in Slots, Sound(t)'
          PROVE  Sound(t)
      <3>1. CASE t = s
        BY <1>1, <2>1, <3>1 DEF Sound
      <3>2. CASE t # s
        BY <1>1, <1>4, <2>1, <3>2 DEF Sound
      <3> QED
        BY <3>1, <3>2
    <2> QED
      BY <1>1, <2>1, SizesStay
  <1>9. NewInv'
    <2>1. ASSUME NEW t \in Slots
          PROVE  /\ exec'[t].at \in {"none", "load"} => exec'[t].new = {}
                 /\ exec'[t].at \in {"stack", "check", "commit"} =>
                       exec'[t].new = Below(exec'[t].sz) /\ proc'[t].sz = exec'[t].sz
                 /\ exec'[t].at = "commit" /\ proc'[t].memlim > 0 =>
                       exec'[t].sz <= proc'[t].memlim
      <3>1. CASE t = s
        BY <1>4, <3>1 DEF NoExec
      <3>2. CASE t # s
        BY <1>1, <1>4, <3>2 DEF IInv, NewInv
      <3> QED
        BY <3>1, <3>2
    <2> QED
      BY <2>1 DEF NewInv, Below
  <1>10. FramesInv'
    <2>1. {} \in SUBSET Page /\ Cardinality({}) = 0
      BY FS_EmptySet
    <2>2. exec[s].new \in SUBSET Page
      BY <1>2 DEF Typed, Execs
    <2>3. Cardinality(exec[s].new) \in Nat /\ FreeFrames \in Nat
      BY <1>2, <2>2, PagesFinite, UserMemAssumption DEF FramesInv
    <2>4. Cardinality({}) <= Cardinality(exec[s].new) + FreeFrames
      BY <2>1, <2>3
    <2>5. \A t \in Slots : exec'[t].new = (IF t = s THEN {} ELSE exec[t].new)
      BY <1>4 DEF NoExec
    <2> QED
      BY <1>1, <1>2, <2>1, <2>4, <2>5, NewFrames
  <1> QED
    BY <1>5, <1>6, <1>7, <1>8, <1>9, <1>10 DEF IInv

-----------------------------------------------------------------------------
(* The ends of threads and processes *)

LEMMA ThreadExitKeeps ==
    ASSUME IInv, NEW s \in Slots, ThreadExit(s)
    PROVE  IInv'
  <1>1. /\ proc[s].state = "live" /\ exec[s] = NoExec /\ proc[s].main # s
        /\ proc' = [proc EXCEPT ![s].state = "zombie"]
        /\ UNCHANGED <<pages, exec, gone, broken, twice, refused, panicked, calls>>
    BY DEF ThreadExit, Running
  <1>2. Typed /\ FramesInv
    BY DEF IInv
  <1>3. /\ proc' \in [Slots -> Proc] /\ proc'[s].state = "zombie"
        /\ \A t \in Slots : t # s => proc'[t] = proc[t]
        /\ \A t \in Slots :
              /\ proc'[t].pid = proc[t].pid /\ proc'[t].main = proc[t].main
              /\ proc'[t].sz = proc[t].sz /\ proc'[t].memlim = proc[t].memlim
    BY <1>1, <1>2 DEF Typed, Proc
  <1>4. Typed'
    BY <1>1, <1>2, <1>3 DEF Typed
  <1>5. FamilyInv'
    <2>1. ASSUME NEW t \in Slots
          PROVE  /\ proc'[t].state # "unused" => proc'[t].pid # 0
                 /\ proc'[t].pid # 0 =>
                       /\ proc'[t].main \in Slots /\ proc'[proc'[t].main].pid = proc'[t].pid
                       /\ \/ proc'[proc'[t].main].state = "live"
                          \/ proc'[proc'[t].main].state = "zombie" /\ proc'[t].state = "zombie"
      <3>1. proc[t].pid # 0 => proc[t].main # s
        BY <1>1 DEF IInv, FamilyInv
      <3> QED
        BY <1>1, <1>3, <3>1 DEF IInv, FamilyInv
    <2> QED
      BY <1>3, <2>1 DEF IInv, FamilyInv
  <1>6. AloneInv'
    BY <1>1, <1>3 DEF IInv, AloneInv
  <1>7. OwnedInv'
    <2>1. \A p : Of(p)' = Of(p)
      BY <1>3 DEF Of
    <2> QED
      BY <1>1, <2>1 DEF IInv, OwnedInv
  <1>8. SizeInv'
    <2>1. \A t \in Slots : Sound(t)' => Sound(t)
      BY <1>1, <1>3 DEF Sound
    <2> QED
      BY <1>1, <1>3, <2>1, SizesStay
  <1>9. NewInv'
    BY <1>1, <1>3, NewKept
  <1>10. FramesInv'
    BY <1>1, <1>2, SameFrames
  <1> QED
    BY <1>4, <1>5, <1>6, <1>7, <1>8, <1>9, <1>10 DEF IInv

LEMMA FreeSlotIs == FreeSlot \in Proc
  BY UserMemAssumption DEF FreeSlot, Proc

LEMMA JoinKeeps ==
    ASSUME IInv, NEW s \in Slots, NEW t \in Slots, Join(s, t)
    PROVE  IInv'
  <1>1. /\ proc[s].state = "live" /\ exec[s] = NoExec /\ s # t
        /\ proc[t].state = "zombie" /\ proc[t].pid = proc[s].pid
        /\ proc' = [proc EXCEPT ![t] = FreeSlot]
        /\ UNCHANGED <<pages, exec, gone, broken, twice, refused, panicked, calls>>
    BY DEF Join, Running, Joined
  <1>2. Typed /\ FramesInv
    BY DEF IInv
  <1>3. /\ proc' \in [Slots -> Proc] /\ proc'[t] = FreeSlot
        /\ \A u \in Slots : u # t => proc'[u] = proc[u]
    BY <1>1, <1>2, FreeSlotIs DEF Typed
  <1>4. Typed'
    BY <1>1, <1>2, <1>3 DEF Typed
  <1>5. \A u \in Slots : proc[u].pid # 0 => proc[u].main # t
    <2>1. ASSUME NEW u \in Slots, proc[u].pid # 0, proc[u].main = t
          PROVE  FALSE
      <3>1. proc[u].pid = proc[s].pid
        BY <1>1, <2>1 DEF IInv, FamilyInv
      <3>2. proc[s].main = t
        BY <2>1, <3>1 DEF IInv, FamilyInv
      <3> QED
        BY <1>1, <3>2, LiveIs
    <2> QED
      BY <2>1
  <1>6. FamilyInv'
    <2>1. ASSUME NEW u \in Slots
          PROVE  /\ proc'[u].state # "unused" => proc'[u].pid # 0
                 /\ proc'[u].pid # 0 =>
                       /\ proc'[u].main \in Slots /\ proc'[proc'[u].main].pid = proc'[u].pid
                       /\ \/ proc'[proc'[u].main].state = "live"
                          \/ proc'[proc'[u].main].state = "zombie" /\ proc'[u].state = "zombie"
      <3>1. CASE u = t
        BY <1>3, <3>1 DEF FreeSlot
      <3>2. CASE u # t
        BY <1>3, <1>5, <3>2 DEF IInv, FamilyInv
      <3> QED
        BY <3>1, <3>2
    <2>2. ASSUME NEW u \in Slots, NEW v \in Slots,
                 proc'[u].pid = proc'[v].pid, proc'[u].pid # 0
          PROVE  proc'[u].main = proc'[v].main /\ proc'[u].memlim = proc'[v].memlim
      <3>1. u # t /\ v # t
        BY <1>3, <2>2 DEF FreeSlot
      <3> QED
        BY <1>3, <2>2, <3>1 DEF IInv, FamilyInv
    <2> QED
      BY <2>1, <2>2 DEF FamilyInv
  <1>7. AloneInv'
    <2>1. ASSUME NEW u \in Slots, exec[u] # NoExec
          PROVE  /\ exec[u].at # "none" /\ proc'[u].state = "live"
                 /\ \A v \in Slots : proc'[v].pid = proc'[u].pid => v = u
      <3>1. /\ exec[u].at # "none" /\ proc[u].state = "live"
            /\ \A v \in Slots : proc[v].pid = proc[u].pid => v = u
        BY <2>1 DEF IInv, AloneInv
      <3>2. u # t /\ proc[u].pid # 0
        BY <1>1, <3>1, LiveIs
      <3> QED
        BY <1>3, <3>1, <3>2 DEF FreeSlot
    <2> QED
      BY <1>1, <2>1 DEF AloneInv
  <1>8. OwnedInv'
    <2>1. ASSUME NEW p \in Pids, Of(p)' = {}
          PROVE  Of(p) = {}
      <3>1. \A u \in Slots : u # t => proc[u].pid # p
        BY <1>3, <2>1 DEF Of
      <3>2. proc[t].pid # p
        BY <1>1, <3>1
      <3> QED
        BY <3>1, <3>2 DEF Of
    <2> QED
      BY <1>1, <2>1 DEF IInv, OwnedInv
  <1>9. SizeInv'
    <2>1. ASSUME NEW u \in Slots, Sound(u)'
          PROVE  u # t /\ Sound(u)
      BY <1>1, <1>3, <2>1 DEF Sound, FreeSlot
    <2> QED
      BY <1>1, <1>3, <2>1, SizesStay
  <1>10. NewInv'
    <2>1. \A u \in Slots : exec[u] # NoExec => u # t
      BY <1>1 DEF IInv, AloneInv
    <2> QED
      BY <1>1, <1>3, <2>1, NewKept
  <1>11. FramesInv'
    BY <1>1, <1>2, SameFrames
  <1> QED
    BY <1>4, <1>6, <1>7, <1>8, <1>9, <1>10, <1>11 DEF IInv

LEMMA ExitKeeps ==
    ASSUME IInv, NEW s \in Slots, Exit(s)
    PROVE  IInv'
  <1> DEFINE pid == proc[s].pid
  <1>1. /\ proc[s].state = "live" /\ exec[s] = NoExec
        /\ proc' = [t \in Slots |-> IF proc[t].pid = pid
                                    THEN [proc[t] EXCEPT !.state = "zombie"] ELSE proc[t]]
        /\ UNCHANGED <<pages, exec, gone, broken, twice, refused, panicked, calls>>
    BY DEF Exit, Running
  <1>2. Typed /\ FramesInv
    BY DEF IInv
  <1>3. /\ proc' \in [Slots -> Proc]
        /\ \A t \in Slots :
              /\ proc'[t].pid = proc[t].pid /\ proc'[t].main = proc[t].main
              /\ proc'[t].sz = proc[t].sz /\ proc'[t].memlim = proc[t].memlim
              /\ proc'[t].state = IF proc[t].pid = pid THEN "zombie" ELSE proc[t].state
    <2>1. ASSUME NEW t \in Slots
          PROVE  /\ proc'[t] \in Proc
                 /\ proc'[t].pid = proc[t].pid /\ proc'[t].main = proc[t].main
                 /\ proc'[t].sz = proc[t].sz /\ proc'[t].memlim = proc[t].memlim
                 /\ proc'[t].state = IF proc[t].pid = pid THEN "zombie" ELSE proc[t].state
      <3>1. proc[t] \in Proc
        BY <1>2 DEF Typed
      <3>2. proc'[t] = IF proc[t].pid = pid THEN [proc[t] EXCEPT !.state = "zombie"]
                       ELSE proc[t]
        BY <1>1
      <3> QED
        BY <3>1, <3>2 DEF Proc
    <2>2. proc' = [t \in Slots |-> proc'[t]]
      BY <1>1
    <2> QED
      BY <2>1, <2>2
  <1>4. pid # 0
    BY <1>1, LiveIs
  <1>5. Typed'
    BY <1>1, <1>2, <1>3 DEF Typed
  <1>6. FamilyInv'
    <2>1. ASSUME NEW t \in Slots
          PROVE  /\ proc'[t].state # "unused" => proc'[t].pid # 0
                 /\ proc'[t].pid # 0 =>
                       /\ proc'[t].main \in Slots /\ proc'[proc'[t].main].pid = proc'[t].pid
                       /\ \/ proc'[proc'[t].main].state = "live"
                          \/ proc'[proc'[t].main].state = "zombie" /\ proc'[t].state = "zombie"
      BY <1>3, <1>4 DEF IInv, FamilyInv
    <2> QED
      BY <1>3, <2>1 DEF IInv, FamilyInv
  <1>7. AloneInv'
    <2>1. \A t \in Slots : exec[t] # NoExec => proc[t].pid # pid
      BY <1>1, NobodyInExec
    <2> QED
      BY <1>1, <1>3, <2>1 DEF IInv, AloneInv
  <1>8. OwnedInv'
    <2>1. \A p : Of(p)' = Of(p)
      BY <1>3 DEF Of
    <2> QED
      BY <1>1, <2>1 DEF IInv, OwnedInv
  <1>9. SizeInv'
    <2>1. \A t \in Slots : Sound(t)' => Sound(t)
      BY <1>1, <1>3 DEF Sound
    <2> QED
      BY <1>1, <1>3, <2>1, SizesStay
  <1>10. NewInv'
    BY <1>1, <1>3, NewKept
  <1>11. FramesInv'
    BY <1>1, <1>2, SameFrames
  <1> QED
    BY <1>5, <1>6, <1>7, <1>8, <1>9, <1>10, <1>11 DEF IInv

LEMMA WaitKeeps ==
    ASSUME IInv, NEW pid \in Pids, Wait(pid)
    PROVE  IInv'
  <1>1. /\ \E s \in Of(pid) : proc[s].state = "zombie" /\ proc[s].main = s
        /\ twice' = twice \union {t \in Of(pid) : proc[t].kstack = "freed"}
        /\ proc' = [t \in Slots |-> IF t \in Of(pid) THEN FreeSlot ELSE proc[t]]
        /\ pages' = [pages EXCEPT ![pid] = {}]
        /\ gone' = [gone EXCEPT ![pid] = {}]
        /\ broken' = broken \ {pid}
        /\ UNCHANGED <<exec, refused, panicked, calls>>
    BY DEF Wait, FreeStacks
  <1>2. Typed /\ FramesInv
    BY DEF IInv
  <1>3. pid # 0
    BY UserMemAssumption DEF Pids
  <1>4. /\ \A t \in Slots : proc'[t] = IF proc[t].pid = pid THEN FreeSlot ELSE proc[t]
        /\ proc' \in [Slots -> Proc]
    BY <1>1, <1>2, FreeSlotIs DEF Of, Typed
  <1>5. \A t \in Slots : proc[t].pid = pid => proc[t].state = "zombie"
    <2>1. PICK s \in Slots : proc[s].pid = pid /\ proc[s].state = "zombie" /\ proc[s].main = s
      BY <1>1 DEF Of
    <2>2. \A t \in Slots : proc[t].pid = pid => proc[t].main = s
      BY <1>3, <2>1 DEF IInv, FamilyInv
    <2> QED
      BY <1>3, <2>1, <2>2 DEF IInv, FamilyInv
  <1>6. /\ pages' \in [Pids -> SUBSET Page] /\ gone' \in [Pids -> SUBSET Page]
        /\ pages'[pid] = {}
        /\ \A p \in Pids : p # pid => pages'[p] = pages[p] /\ gone'[p] = gone[p]
    BY <1>1, <1>2 DEF Typed
  <1>7. Typed'
    BY <1>1, <1>2, <1>4, <1>6 DEF Typed, Of
  <1>8. FamilyInv'
    <2>1. ASSUME NEW t \in Slots
          PROVE  /\ proc'[t].state # "unused" => proc'[t].pid # 0
                 /\ proc'[t].pid # 0 =>
                       /\ proc'[t].main \in Slots /\ proc'[proc'[t].main].pid = proc'[t].pid
                       /\ \/ proc'[proc'[t].main].state = "live"
                          \/ proc'[proc'[t].main].state = "zombie" /\ proc'[t].state = "zombie"
      <3>1. CASE proc[t].pid = pid
        BY <1>4, <3>1 DEF FreeSlot
      <3>2. CASE proc[t].pid # pid
        BY <1>4, <3>2 DEF IInv, FamilyInv
      <3> QED
        BY <3>1, <3>2
    <2>2. ASSUME NEW t \in Slots, NEW u \in Slots,
                 proc'[t].pid = proc'[u].pid, proc'[t].pid # 0
          PROVE  proc'[t].main = proc'[u].main /\ proc'[t].memlim = proc'[u].memlim
      <3>1. proc[t].pid # pid /\ proc[u].pid # pid
        BY <1>4, <2>2 DEF FreeSlot
      <3> QED
        BY <1>4, <2>2, <3>1 DEF IInv, FamilyInv
    <2> QED
      BY <2>1, <2>2 DEF FamilyInv
  <1>9. AloneInv'
    <2>1. ASSUME NEW t \in Slots, exec[t] # NoExec
          PROVE  /\ exec[t].at # "none" /\ proc'[t].state = "live"
                 /\ \A u \in Slots : proc'[u].pid = proc'[t].pid => u = t
      <3>1. /\ exec[t].at # "none" /\ proc[t].state = "live"
            /\ \A u \in Slots : proc[u].pid = proc[t].pid => u = t
        BY <2>1 DEF IInv, AloneInv
      <3>2. proc[t].pid # pid /\ proc[t].pid # 0
        BY <1>5, <3>1, LiveIs
      <3> QED
        BY <1>4, <3>1, <3>2 DEF FreeSlot
    <2> QED
      BY <1>1, <2>1 DEF AloneInv
  <1>10. OwnedInv'
    <2>1. ASSUME NEW p \in Pids, p # pid, Of(p)' = {}
          PROVE  Of(p) = {}
      BY <1>4, <2>1 DEF Of
    <2> QED
      BY <1>6, <2>1 DEF IInv, OwnedInv
  <1>11. SizeInv'
    <2>1. ASSUME NEW t \in Slots, Sound(t)'
          PROVE  /\ Sound(t) /\ proc'[t] = proc[t] /\ proc[t].pid # pid
                 /\ pages'[proc[t].pid] = pages[proc[t].pid]
                 /\ gone'[proc[t].pid] = gone[proc[t].pid]
      <3>1. proc[t].pid # pid /\ proc'[t] = proc[t]
        BY <1>4, <2>1 DEF Sound, FreeSlot
      <3>2. Sound(t)
        BY <1>1, <2>1, <3>1 DEF Sound
      <3>3. proc[t].pid \in Pids
        BY <3>2, LiveIs DEF Sound
      <3> QED
        BY <1>6, <3>1, <3>2, <3>3
    <2> QED
      BY <2>1, SizesStay
  <1>12. NewInv'
    <2>1. \A t \in Slots : exec[t] # NoExec => proc[t].pid # pid
      BY <1>5 DEF IInv, AloneInv
    <2> QED
      BY <1>1, <1>4, <2>1, NewKept
  <1>13. FramesInv'
    <2>1. /\ {} \in SUBSET Page
          /\ Cardinality({}) <= Cardinality(pages[pid]) + FreeFrames
      BY <1>2, FewerPages
    <2> QED
      BY <1>1, <1>2, <2>1, PagesFrames
  <1> QED
    BY <1>7, <1>8, <1>9, <1>10, <1>11, <1>12, <1>13 DEF IInv

-----------------------------------------------------------------------------
(* setmemorylimit and the beginning of exec *)

LEMMA SetLimitKeeps ==
    ASSUME IInv, NEW p \in Slots, NEW limit \in Limits, SetLimit(p, limit)
    PROVE  IInv'
  <1> DEFINE pid == proc[p].pid
  <1>1. /\ pid # 0 /\ proc[p].main = p /\ ~TooLow(proc[p].sz, limit)
        /\ proc' = [t \in Slots |-> IF pid = proc[t].pid
                                    THEN [proc[t] EXCEPT !.memlim = limit] ELSE proc[t]]
        /\ UNCHANGED <<pages, exec, gone, broken, twice, refused, panicked>>
    BY DEF SetLimit, Limited
  <1>2. Typed /\ FramesInv /\ SizeInv
    BY DEF IInv
  <1>3. limit \in Nat
    BY UserMemAssumption
  <1>4. /\ proc' \in [Slots -> Proc]
        /\ \A t \in Slots :
              /\ proc'[t].state = proc[t].state /\ proc'[t].pid = proc[t].pid
              /\ proc'[t].main = proc[t].main /\ proc'[t].sz = proc[t].sz
              /\ proc'[t].memlim = IF proc[t].pid = pid THEN limit ELSE proc[t].memlim
    <2>1. ASSUME NEW t \in Slots
          PROVE  /\ proc'[t] \in Proc
                 /\ proc'[t].state = proc[t].state /\ proc'[t].pid = proc[t].pid
                 /\ proc'[t].main = proc[t].main /\ proc'[t].sz = proc[t].sz
                 /\ proc'[t].memlim = IF proc[t].pid = pid THEN limit ELSE proc[t].memlim
      <3>1. proc[t] \in Proc
        BY <1>2 DEF Typed
      <3>2. proc'[t] = IF proc[t].pid = pid THEN [proc[t] EXCEPT !.memlim = limit]
                       ELSE proc[t]
        BY <1>1
      <3> QED
        BY <1>3, <3>1, <3>2 DEF Proc
    <2>2. proc' = [t \in Slots |-> proc'[t]]
      BY <1>1
    <2> QED
      BY <2>1, <2>2
  <1>5. proc[p].sz \in Nat /\ (limit > 0 => proc[p].sz <= limit)
    <2>1. proc[p].sz \in Nat
      BY <1>2, UserMemAssumption DEF Typed, Proc
    <2> QED
      BY <1>1, <1>3, <2>1 DEF TooLow
  <1>6. Typed'
    BY <1>1, <1>2, <1>4 DEF Typed
  <1>7. FamilyInv'
    BY <1>4 DEF IInv, FamilyInv
  <1>8. AloneInv'
    BY <1>1, <1>4 DEF IInv, AloneInv
  <1>9. OwnedInv'
    <2>1. \A q : Of(q)' = Of(q)
      BY <1>4 DEF Of
    <2> QED
      BY <1>1, <2>1 DEF IInv, OwnedInv
  <1>10. SizeInv'
    <2>1. ASSUME NEW t \in Slots, proc'[t].pid # pid, Sound(t)'
          PROVE  /\ Sound(t) /\ proc'[t].pid = proc[t].pid /\ proc'[t].sz = proc[t].sz
                 /\ proc'[t].memlim = proc[t].memlim
                 /\ pages'[proc[t].pid] = pages[proc[t].pid]
                 /\ gone'[proc[t].pid] = gone[proc[t].pid]
      BY <1>1, <1>4, <2>1 DEF Sound
    <2>2. ASSUME NEW t \in Slots, proc'[t].pid = pid, Sound(t)'
          PROVE  /\ proc'[t].sz = proc[p].sz
                 /\ gone'[pid] \subseteq Below(proc[p].sz)
                 /\ pages'[pid] = Below(proc[p].sz) \ gone'[pid]
                 /\ proc'[t].memlim > 0 =>
                        proc[p].sz + 2 * PGSIZE <= proc'[t].memlim + MaxGrow
      <3>1. Sound(t) /\ proc[t].pid = pid /\ proc[t].state = "live"
        BY <1>1, <1>4, <2>2 DEF Sound
      <3>2. proc[t].main = p
        BY <1>1, <3>1 DEF IInv, FamilyInv
      <3>3. proc[p].state = "live"
        BY <3>1, <3>2, LiveIs
      <3>4. exec[p].at \in {"none", "load"}
        <4>1. CASE exec[t] = NoExec
          BY <3>1, <4>1, NobodyInExec DEF NoExec
        <4>2. CASE exec[t] # NoExec
          <5>1. p = t
            BY <3>1, <4>2 DEF IInv, AloneInv
          <5> QED
            BY <3>1, <5>1 DEF Sound
        <4> QED
          BY <4>1, <4>2
      <3>5. Sound(p)
        BY <3>1, <3>3, <3>4 DEF Sound
      <3>6. /\ gone[pid] \subseteq Below(proc[p].sz)
            /\ pages[pid] = Below(proc[p].sz) \ gone[pid]
            /\ proc[t].sz = proc[p].sz
        BY <1>2, <3>1, <3>5 DEF SizeInv
      <3>7. limit > 0 => proc[p].sz + 2 * PGSIZE <= limit + MaxGrow
        BY <1>3, <1>5, MaxGrowIs, UserMemAssumption
      <3> QED
        BY <1>1, <1>4, <3>1, <3>6, <3>7
    <2>3. TouchesOnly(pid, proc[p].sz)
      BY <2>1, <2>2 DEF TouchesOnly
    <2> QED
      BY <1>2, <2>3, SizeStep
  <1>11. NewInv'
    <2>1. ASSUME NEW t \in Slots
          PROVE  /\ exec[t].at \in {"none", "load"} => exec[t].new = {}
                 /\ exec[t].at \in {"stack", "check", "commit"} =>
                       exec[t].new = Below(exec[t].sz) /\ proc'[t].sz = exec[t].sz
                 /\ exec[t].at = "commit" /\ proc'[t].memlim > 0 =>
                       exec[t].sz <= proc'[t].memlim
      <3>1. /\ exec[t].at \in {"none", "load"} => exec[t].new = {}
            /\ exec[t].at \in {"stack", "check", "commit"} =>
                  exec[t].new = Below(exec[t].sz) /\ proc[t].sz = exec[t].sz
            /\ exec[t].at = "commit" /\ proc[t].memlim > 0 => exec[t].sz <= proc[t].memlim
        BY DEF IInv, NewInv
      <3>2. CASE proc[t].pid # pid
        BY <1>4, <3>1, <3>2
      <3>3. CASE proc[t].pid = pid
        <4>1. exec[t].at = "commit" => p = t
          BY <3>3 DEF IInv, AloneInv, NoExec
        <4> QED
          BY <1>4, <1>5, <3>1, <3>3, <4>1
      <3> QED
        BY <3>2, <3>3
    <2> QED
      BY <1>1, <2>1 DEF NewInv, Below
  <1>12. FramesInv'
    BY <1>1, <1>2, SameFrames
  <1> QED
    BY <1>6, <1>7, <1>8, <1>9, <1>10, <1>11, <1>12 DEF IInv

LEMMA ExecKeeps ==
    ASSUME IInv, NEW s \in Slots, Exec(s)
    PROVE  IInv'
  <1> DEFINE pid == proc[s].pid
             others == Of(pid) \ {s}
  <1>1. /\ proc[s].state = "live" /\ exec[s] = NoExec
        /\ twice' = twice \union {t \in others : proc[t].kstack = "freed"}
        /\ proc' = [t \in Slots |->
              IF t = s THEN [proc[s] EXCEPT !.memlim = 0, !.main = s]
              ELSE IF t \in others THEN FreeSlot ELSE proc[t]]
        /\ exec' = [exec EXCEPT ![s].at = "load"]
        /\ UNCHANGED <<pages, gone, broken, refused, panicked>>
    BY DEF Exec, Running, FreeStacks
  <1>2. Typed /\ FramesInv /\ SizeInv
    BY DEF IInv
  <1>3. pid \in Pids /\ pid # 0
    BY <1>1, LiveIs
  <1>4. /\ proc' \in [Slots -> Proc]
        /\ proc'[s].state = "live" /\ proc'[s].pid = pid /\ proc'[s].main = s
        /\ proc'[s].sz = proc[s].sz /\ proc'[s].memlim = 0
        /\ \A t \in Slots : t # s =>
              proc'[t] = IF proc[t].pid = pid THEN FreeSlot ELSE proc[t]
    <2>1. proc[s] \in Proc /\ s \in Slots
      BY <1>2 DEF Typed
    <2>2. proc'[s] = [proc[s] EXCEPT !.memlim = 0, !.main = s]
      BY <1>1
    <2>3. /\ proc'[s] \in Proc
          /\ proc'[s].state = "live" /\ proc'[s].pid = pid /\ proc'[s].main = s
          /\ proc'[s].sz = proc[s].sz /\ proc'[s].memlim = 0
      BY <1>1, <2>1, <2>2 DEF Proc
    <2>4. \A t \in Slots : t # s =>
              proc'[t] = IF proc[t].pid = pid THEN FreeSlot ELSE proc[t]
      BY <1>1 DEF Of
    <2>5. \A t \in Slots : proc'[t] \in Proc
      BY <1>2, <2>3, <2>4, FreeSlotIs DEF Typed
    <2>6. proc' = [t \in Slots |-> proc'[t]]
      BY <1>1
    <2> QED
      BY <2>3, <2>4, <2>5, <2>6
  <1>5. /\ exec' \in [Slots -> Execs] /\ exec'[s].at = "load" /\ exec'[s].new = {}
        /\ \A t \in Slots : t # s => exec'[t] = exec[t]
    BY <1>1, <1>2 DEF Typed, Execs, NoExec
  <1>6. \A t \in Slots : proc[t].pid = pid => exec[t] = NoExec
    BY <1>1, NobodyInExec
  <1>7. Typed'
    BY <1>1, <1>2, <1>4, <1>5 DEF Typed, Of
  <1>8. FamilyInv'
    <2>1. ASSUME NEW t \in Slots
          PROVE  /\ proc'[t].state # "unused" => proc'[t].pid # 0
                 /\ proc'[t].pid # 0 =>
                       /\ proc'[t].main \in Slots /\ proc'[proc'[t].main].pid = proc'[t].pid
                       /\ \/ proc'[proc'[t].main].state = "live"
                          \/ proc'[proc'[t].main].state = "zombie" /\ proc'[t].state = "zombie"
      <3>1. CASE t = s
        BY <1>3, <1>4, <3>1
      <3>2. CASE t # s /\ proc[t].pid = pid
        BY <1>4, <3>2 DEF FreeSlot
      <3>3. CASE t # s /\ proc[t].pid # pid
        BY <1>4, <3>3 DEF IInv, FamilyInv
      <3> QED
        BY <3>1, <3>2, <3>3
    <2>2. ASSUME NEW t \in Slots, NEW u \in Slots,
                 proc'[t].pid = proc'[u].pid, proc'[t].pid # 0
          PROVE  proc'[t].main = proc'[u].main /\ proc'[t].memlim = proc'[u].memlim
      <3>1. \A v \in Slots : v # s /\ proc'[v].pid # 0 =>
                proc'[v] = proc[v] /\ proc[v].pid # pid
        BY <1>4 DEF FreeSlot
      <3>2. CASE t = s \/ u = s
        BY <1>4, <2>2, <3>1, <3>2
      <3>3. CASE t # s /\ u # s
        BY <2>2, <3>1, <3>3 DEF IInv, FamilyInv
      <3> QED
        BY <3>2, <3>3
    <2> QED
      BY <2>1, <2>2 DEF FamilyInv
  <1>9. AloneInv'
    <2>1. ASSUME NEW t \in Slots, exec'[t] # NoExec
          PROVE  /\ exec'[t].at # "none" /\ proc'[t].state = "live"
                 /\ \A u \in Slots : proc'[u].pid = proc'[t].pid => u = t
      <3>1. CASE t = s
        BY <1>3, <1>4, <1>5, <3>1 DEF FreeSlot
      <3>2. CASE t # s
        <4>1. /\ exec[t].at # "none" /\ proc[t].state = "live"
              /\ \A u \in Slots : proc[u].pid = proc[t].pid => u = t
          BY <1>5, <2>1, <3>2 DEF IInv, AloneInv
        <4>2. proc[t].pid # pid /\ proc[t].pid # 0
          BY <3>2, <4>1, LiveIs
        <4> QED
          BY <1>4, <1>5, <3>2, <4>1, <4>2 DEF FreeSlot
      <3> QED
        BY <3>1, <3>2
    <2> QED
      BY <2>1 DEF AloneInv, NoExec
  <1>10. OwnedInv'
    <2>1. ASSUME NEW p \in Pids, Of(p)' = {}
          PROVE  Of(p) = {}
      <3>1. p # pid
        BY <1>4, <2>1 DEF Of
      <3> QED
        BY <1>4, <2>1, <3>1 DEF Of
    <2> QED
      BY <1>1, <2>1 DEF IInv, OwnedInv
  <1>11. SizeInv'
    <2>1. ASSUME NEW t \in Slots, proc'[t].pid # pid, Sound(t)'
          PROVE  /\ Sound(t) /\ proc'[t].pid = proc[t].pid /\ proc'[t].sz = proc[t].sz
                 /\ proc'[t].memlim = proc[t].memlim
                 /\ pages'[proc[t].pid] = pages[proc[t].pid]
                 /\ gone'[proc[t].pid] = gone[proc[t].pid]
      <3>1. t # s /\ proc'[t] = proc[t]
        BY <1>4, <2>1 DEF Sound, FreeSlot
      <3> QED
        BY <1>1, <1>5, <2>1, <3>1 DEF Sound
    <2>2. ASSUME NEW t \in Slots, proc'[t].pid = pid, Sound(t)'
          PROVE  /\ proc'[t].sz = proc[s].sz
                 /\ gone'[pid] \subseteq Below(proc[s].sz)
                 /\ pages'[pid] = Below(proc[s].sz) \ gone'[pid]
                 /\ proc'[t].memlim > 0 =>
                        proc[s].sz + 2 * PGSIZE <= proc'[t].memlim + MaxGrow
      <3>1. t = s
        BY <1>3, <1>4, <2>2 DEF FreeSlot
      <3>2. Sound(s)
        BY <1>1, <1>4, <2>2, <3>1 DEF Sound, NoExec
      <3> QED
        BY <1>1, <1>2, <1>4, <3>1, <3>2 DEF SizeInv
    <2>3. TouchesOnly(pid, proc[s].sz)
      BY <2>1, <2>2 DEF TouchesOnly
    <2> QED
      BY <1>2, <2>3, SizeStep
  <1>12. NewInv'
    <2>1. ASSUME NEW t \in Slots
          PROVE  /\ exec'[t].at \in {"none", "load"} => exec'[t].new = {}
                 /\ exec'[t].at \in {"stack", "check", "commit"} =>
                       exec'[t].new = Below(exec'[t].sz) /\ proc'[t].sz = exec'[t].sz
                 /\ exec'[t].at = "commit" /\ proc'[t].memlim > 0 =>
                       exec'[t].sz <= proc'[t].memlim
      <3>1. CASE t = s
        BY <1>5, <3>1
      <3>2. CASE t # s /\ proc[t].pid = pid
        BY <1>5, <1>6, <3>2 DEF NoExec
      <3>3. CASE t # s /\ proc[t].pid # pid
        BY <1>4, <1>5, <3>3 DEF IInv, NewInv
      <3> QED
        BY <3>1, <3>2, <3>3
    <2> QED
      BY <2>1 DEF NewInv, Below
  <1>13. FramesInv'
    <2>1. \A t \in Slots : exec'[t].new = exec[t].new
      BY <1>1, <1>5 DEF NoExec
    <2> QED
      BY <1>1, <1>2, <2>1, SameFrames
  <1> QED
    BY <1>7, <1>8, <1>9, <1>10, <1>11, <1>12, <1>13 DEF IInv

-----------------------------------------------------------------------------
(* New processes and threads *)

\* A free slot is nobody's main thread and not in exec.
LEMMA NewSlotIs ==
    ASSUME IInv, Unused # {}
    PROVE  /\ NewSlot \in Slots /\ proc[NewSlot].state = "unused"
           /\ exec[NewSlot] = NoExec
           /\ \A s \in Slots : proc[s].pid # 0 => proc[s].main # NewSlot
  <1>1. Unused \in SUBSET Nat
    BY UserMemAssumption DEF Unused, Slots
  <1>2. NewSlot \in Unused
    BY <1>1, MinIn DEF NewSlot
  <1>3. NewSlot \in Slots /\ proc[NewSlot].state = "unused"
    BY <1>2 DEF Unused
  <1>4. exec[NewSlot] = NoExec
    BY <1>3 DEF IInv, AloneInv
  <1>5. \A s \in Slots : proc[s].pid # 0 => proc[s].main # NewSlot
    BY <1>3 DEF IInv, FamilyInv
  <1> QED
    BY <1>3, <1>4, <1>5

\* There are more pids than slots, so that one is always free.
LEMMA NewPidIs ==
    ASSUME Typed
    PROVE  NewPid \in Pids /\ Of(NewPid) = {} /\ NewPid # 0
  <1> DEFINE P == {p \in Pids : Of(p) = {}}
             T == {proc[s].pid : s \in Slots}
             f == [s \in Slots |-> proc[s].pid]
  <1>1. P # {}
    <2>1. IsFiniteSet(Slots) /\ Cardinality(Slots) = NPROC
      BY UserMemAssumption, FS_Interval DEF Slots
    <2>2. IsFiniteSet(Pids) /\ Cardinality(Pids) = NPROC + 1
      BY UserMemAssumption, FS_Interval DEF Pids
    <2>3. f \in Surjection(Slots, T)
      BY DEF Surjection
    <2>4. IsFiniteSet(T) /\ Cardinality(T) <= NPROC
      BY <2>1, <2>3, FS_Surjection
    <2> HIDE DEF T
    <2>5. ~(Pids \subseteq T)
      <3>1. SUFFICES ASSUME Pids \in SUBSET T
                     PROVE  FALSE
        OBVIOUS
      <3>2. Cardinality(Pids) <= Cardinality(T)
        BY <2>4, <3>1, FS_Subset
      <3>3. Cardinality(T) \in Nat
        BY <2>4, FS_CardinalityType
      <3> QED
        BY <2>2, <2>4, <3>2, <3>3, UserMemAssumption
    <2>6. PICK p \in Pids : p \notin T
      BY <2>5
    <2>7. Of(p) = {}
      BY <2>6 DEF Of, T
    <2> QED
      BY <2>7
  <1>2. P \in SUBSET Nat /\ 0 \notin Pids
    BY UserMemAssumption DEF Pids
  <1>3. NewPid \in P
    BY <1>1, <1>2, MinIn DEF NewPid
  <1> QED
    BY <1>2, <1>3

\* The slot t becomes the main thread of a process of its own.
Starts(t) ==
    /\ proc'[t].pid # 0 /\ \A u \in Slots : proc[u].pid # proc'[t].pid
    /\ proc'[t].main = t /\ proc'[t].state = "live"

\* The slot t becomes one of the process of s.
Joins(t, s) ==
    /\ proc[s].state = "live" /\ exec[s] = NoExec
    /\ proc'[t].pid = proc[s].pid /\ proc'[t].main = proc[s].main
    /\ proc'[t].memlim = proc[s].memlim

\* What a step needs that gives a process a free slot and leaves the others.
Taken(t) ==
    /\ proc[t].state = "unused" /\ exec[t] = NoExec /\ exec' = exec
    /\ \A u \in Slots : proc[u].pid # 0 => proc[u].main # t
    /\ \A u \in Slots : u # t =>
          /\ proc'[u].state = proc[u].state /\ proc'[u].pid = proc[u].pid
          /\ proc'[u].main = proc[u].main /\ proc'[u].memlim = proc[u].memlim

LEMMA SlotTaken ==
    ASSUME IInv, NEW t \in Slots, Taken(t), NEW s \in Slots, Starts(t) \/ Joins(t, s)
    PROVE  FamilyInv' /\ AloneInv' /\ \A p \in Pids : Of(p)' = {} => Of(p) = {}
  <1>1. FamilyInv /\ AloneInv
    BY DEF IInv
  <1>2. ASSUME Joins(t, s)
        PROVE  /\ proc'[t].pid # 0 /\ proc'[t].main \in Slots /\ proc'[t].main # t
               /\ proc[proc'[t].main].pid = proc'[t].pid
               /\ proc[proc'[t].main].state = "live"
               /\ \A u \in Slots : exec[u] # NoExec => proc[u].pid # proc'[t].pid
    BY <1>2, LiveIs, NobodyInExec DEF Joins, Taken
  <1>3. ASSUME NEW u \in Slots
        PROVE  /\ proc'[u].state # "unused" => proc'[u].pid # 0
               /\ proc'[u].pid # 0 =>
                     /\ proc'[u].main \in Slots /\ proc'[proc'[u].main].pid = proc'[u].pid
                     /\ \/ proc'[proc'[u].main].state = "live"
                        \/ proc'[proc'[u].main].state = "zombie" /\ proc'[u].state = "zombie"
    <2>1. CASE u # t
      BY <1>1, <2>1 DEF FamilyInv, Taken
    <2>2. CASE u = t /\ Starts(t)
      BY <2>2 DEF Starts
    <2>3. CASE u = t /\ Joins(t, s)
      BY <1>2, <2>3 DEF Taken
    <2> QED
      BY <2>1, <2>2, <2>3
  <1>4. ASSUME NEW u \in Slots, NEW v \in Slots,
               proc'[u].pid = proc'[v].pid, proc'[u].pid # 0
        PROVE  proc'[u].main = proc'[v].main /\ proc'[u].memlim = proc'[v].memlim
    <2>1. CASE u # t /\ v # t
      BY <1>1, <1>4, <2>1 DEF FamilyInv, Taken
    <2>2. CASE u = t /\ v = t
      BY <2>2
    <2>3. CASE (u = t) # (v = t) /\ Starts(t)
      BY <1>4, <2>3 DEF Starts, Taken
    <2>4. CASE (u = t) # (v = t) /\ Joins(t, s)
      <3>1. PICK w \in Slots : w # t /\ proc'[w].pid = proc'[t].pid /\ {u, v} = {w, t}
        BY <1>4, <2>4
      <3>2. proc[w].pid = proc[s].pid /\ proc[w].pid # 0
        BY <1>2, <2>4, <3>1 DEF Joins, Taken
      <3>3. proc[w].main = proc[s].main /\ proc[w].memlim = proc[s].memlim
        BY <1>1, <3>2 DEF FamilyInv
      <3>4. proc'[w].main = proc'[t].main /\ proc'[w].memlim = proc'[t].memlim
        BY <2>4, <3>1, <3>3 DEF Joins, Taken
      <3> QED
        BY <3>1, <3>4
    <2> QED
      BY <2>1, <2>2, <2>3, <2>4
  <1>5. FamilyInv'
    BY <1>3, <1>4 DEF FamilyInv
  <1>6. AloneInv'
    <2>1. ASSUME NEW u \in Slots, exec[u] # NoExec
          PROVE  /\ exec[u].at # "none" /\ proc'[u].state = "live"
                 /\ \A v \in Slots : proc'[v].pid = proc'[u].pid => v = u
      <3>1. /\ exec[u].at # "none" /\ proc[u].state = "live" /\ u # t
            /\ \A v \in Slots : proc[v].pid = proc[u].pid => v = u
        BY <1>1, <2>1 DEF AloneInv, Taken
      <3>2. proc'[t].pid # proc[u].pid
        <4>1. CASE Starts(t)
          BY <4>1 DEF Starts
        <4>2. CASE Joins(t, s)
          BY <1>2, <2>1, <4>2
        <4> QED
          BY <4>1, <4>2
      <3> QED
        BY <3>1, <3>2 DEF Taken
    <2> QED
      BY <2>1 DEF AloneInv, Taken
  <1>7. ASSUME NEW p \in Pids, Of(p)' = {}
        PROVE  Of(p) = {}
    <2>1. \A u \in Slots : u # t => proc[u].pid # p
      BY <1>7 DEF Of, Taken
    <2>2. proc[t].pid # p
      <3>1. SUFFICES ASSUME proc[t].pid = p
                     PROVE  FALSE
        OBVIOUS
      <3>2. p # 0
        BY UserMemAssumption DEF Pids
      <3>3. proc[t].main \in Slots /\ proc[proc[t].main].pid = p /\ proc[t].main # t
        BY <1>1, <3>1, <3>2 DEF FamilyInv, Taken
      <3> QED
        BY <2>1, <3>3
    <2> QED
      BY <2>1, <2>2 DEF Of
  <1> QED
    BY <1>5, <1>6, <1>7

LEMMA ForkKeeps ==
    ASSUME IInv, NEW s \in Slots, Fork(s)
    PROVE  IInv'
  <1> DEFINE pid == proc[s].pid
             all == Below(proc[s].sz)
             missing == all \ pages[pid]
             copied == {a \in all : \A m \in missing : a < m}
             rec == [state |-> "live", pid |-> NewPid, main |-> NewSlot,
                     sz |-> proc[proc[s].main].sz, memlim |-> proc[s].memlim,
                     kstack |-> "held"]
  <1>1. CASE Panic("page not present") \/ Panic("ptable.lock kept")
    BY <1>1, NothingTouched DEF Panic
  <1>2. CASE /\ missing = {} /\ Cardinality(copied) <= FreeFrames
             /\ proc' = [proc EXCEPT ![NewSlot] = rec]
             /\ pages' = [pages EXCEPT ![NewPid] = all]
             /\ gone' = [gone EXCEPT ![NewPid] = {}]
             /\ broken' = IF pid \in broken THEN broken \union {NewPid} ELSE broken
             /\ refused' = refused \ {NewSlot} /\ twice' = twice \ {NewSlot}
             /\ UNCHANGED <<exec, panicked>>
    <2>1. proc[s].state = "live" /\ exec[s] = NoExec /\ Unused # {}
      BY DEF Fork, Running
    <2>2. Typed /\ FramesInv /\ SizeInv
      BY DEF IInv
    <2>3. PICK np, q : np = NewSlot /\ q = NewPid
      OBVIOUS
    <2>4. /\ np \in Slots /\ proc[np].state = "unused" /\ exec[np] = NoExec
          /\ \A t \in Slots : proc[t].pid # 0 => proc[t].main # np
      BY <2>1, <2>3, NewSlotIs
    <2>5. q \in Pids /\ q # 0 /\ \A t \in Slots : proc[t].pid # q
      BY <2>2, <2>3, NewPidIs DEF Of
    <2>6. /\ pid \in Pids /\ proc[s].main \in Slots /\ proc[proc[s].main].state = "live"
          /\ proc[proc[s].main].pid = pid
          /\ proc[proc[s].main].sz \in 0 .. KERNBASE /\ proc[s].memlim \in Nat
      BY <2>1, LiveIs, UserMemAssumption
    <2>7. rec \in Proc
      BY <2>3, <2>4, <2>5, <2>6 DEF Proc
    <2>8. /\ proc' \in [Slots -> Proc]
          /\ proc'[np].state = "live" /\ proc'[np].pid = q /\ proc'[np].main = np
          /\ proc'[np].sz = proc[proc[s].main].sz /\ proc'[np].memlim = proc[s].memlim
          /\ \A t \in Slots : t # np => proc'[t] = proc[t]
      BY <1>2, <2>2, <2>3, <2>4, <2>7 DEF Typed
    <2>9. /\ all \in SUBSET Page
          /\ pages' \in [Pids -> SUBSET Page] /\ gone' \in [Pids -> SUBSET Page]
          /\ pages'[q] = all /\ gone'[q] = {}
          /\ \A p \in Pids : p # q => pages'[p] = pages[p] /\ gone'[p] = gone[p]
      <3>1. all \in SUBSET Page
        BY BetweenPages
      <3> HIDE DEF all
      <3> QED
        BY <1>2, <2>2, <2>3, <2>5, <3>1 DEF Typed
    <2>10. Typed'
      <3>1. broken' \subseteq Pids
        BY <1>2, <2>2, <2>3, <2>5 DEF Typed
      <3> QED
        BY <1>2, <2>2, <2>8, <2>9, <3>1 DEF Typed
    <2>11. FamilyInv' /\ AloneInv' /\ \A p \in Pids : Of(p)' = {} => Of(p) = {}
      <3>1. Taken(np)
        BY <1>2, <2>4, <2>8 DEF Taken
      <3>2. Starts(np)
        BY <2>5, <2>8 DEF Starts
      <3> QED
        BY <2>4, <3>1, <3>2, SlotTaken
    <2>12. OwnedInv'
      <3>1. np \in Of(q)'
        BY <2>4, <2>8 DEF Of
      <3> QED
        BY <2>9, <2>11, <3>1 DEF IInv, OwnedInv
    <2>13. SizeInv'
      <3>1. ASSUME NEW t \in Slots, proc'[t].pid # q, Sound(t)'
            PROVE  /\ Sound(t) /\ proc'[t].pid = proc[t].pid /\ proc'[t].sz = proc[t].sz
                   /\ proc'[t].memlim = proc[t].memlim
                   /\ pages'[proc[t].pid] = pages[proc[t].pid]
                   /\ gone'[proc[t].pid] = gone[proc[t].pid]
        <4>1. t # np /\ proc'[t] = proc[t]
          BY <2>8, <3>1
        <4>2. Sound(t)
          BY <1>2, <3>1, <4>1 DEF Sound
        <4>3. proc[t].pid \in Pids
          BY <4>2, LiveIs DEF Sound
        <4> QED
          BY <2>9, <3>1, <4>1, <4>2, <4>3
      <3>2. ASSUME NEW t \in Slots, proc'[t].pid = q, Sound(t)'
            PROVE  /\ proc'[t].sz = proc[s].sz
                   /\ gone'[q] \subseteq all /\ pages'[q] = all \ gone'[q]
                   /\ proc'[t].memlim > 0 =>
                          proc[s].sz + 2 * PGSIZE <= proc'[t].memlim + MaxGrow
        <4>1. t = np
          BY <2>5, <2>8, <3>2
        <4>2. pid \notin broken
          BY <1>2, <2>3, <3>2 DEF Sound
        <4>3. Sound(s) /\ Sound(proc[s].main)
          <5>1. exec[proc[s].main] = NoExec
            BY <2>1, <2>6, NobodyInExec
          <5> QED
            BY <2>1, <2>6, <4>2, <5>1 DEF Sound, NoExec
        <4>4. proc[proc[s].main].sz = proc[s].sz
          BY <2>2, <2>6, <4>3 DEF SizeInv
        <4>5. proc[s].memlim > 0 => proc[s].sz + 2 * PGSIZE <= proc[s].memlim + MaxGrow
          BY <2>2, <4>3 DEF SizeInv
        <4> QED
          BY <2>8, <2>9, <4>1, <4>4, <4>5
      <3>3. TouchesOnly(q, proc[s].sz)
        BY <3>1, <3>2 DEF TouchesOnly
      <3> QED
        BY <2>2, <3>3, SizeStep
    <2>14. NewInv'
      BY <1>2, <2>4, <2>8, NewKept
    <2>15. FramesInv'
      <3>1. copied = all
        BY <1>2
      <3>2. pages[q] = {}
        BY <2>5 DEF IInv, OwnedInv, Of
      <3>3. Cardinality(all) <= Cardinality(pages[q]) + FreeFrames
        <4>1. Cardinality(pages[q]) = 0
          BY <3>2, FS_EmptySet
        <4>2. FreeFrames \in Nat
          BY <2>2, UserMemAssumption DEF FramesInv
        <4>3. Cardinality(all) <= FreeFrames
          BY <1>2, <3>1
        <4> HIDE DEF all
        <4> QED
          BY <4>1, <4>2, <4>3
      <3>4. pages' = [pages EXCEPT ![q] = all] /\ exec' = exec
        BY <1>2, <2>3
      <3> HIDE DEF all
      <3> QED
        BY <2>2, <2>5, <2>9, <3>3, <3>4, PagesFrames
    <2> QED
      BY <2>10, <2>11, <2>12, <2>13, <2>14, <2>15 DEF IInv
  <1> QED
    BY <1>1, <1>2 DEF Fork

LEMMA ThreadCreateKeeps ==
    ASSUME IInv, NEW s \in Slots, ThreadCreate(s)
    PROVE  IInv'
  <1> DEFINE pid == proc[s].pid
             main == proc[s].main
             sz == proc[main].sz + 2 * PGSIZE
             a == allocuvm(pages[pid], proc[main].sz, sz)
             new == [state |-> "live", pid |-> pid, main |-> main, sz |-> proc[NewSlot].sz,
                     memlim |-> proc[s].memlim, kstack |-> "held"]
  <1>1. Running(s) /\ Unused # {}
    BY DEF ThreadCreate
  <1>2. proc[s].state = "live" /\ exec[s] = NoExec
    BY <1>1 DEF Running
  <1>3. Typed /\ FramesInv /\ SizeInv
    BY DEF IInv
  <1>4. PICK t : t = NewSlot
    OBVIOUS
  <1>5. /\ t \in Slots /\ proc[t].state = "unused" /\ exec[t] = NoExec
        /\ \A u \in Slots : proc[u].pid # 0 => proc[u].main # t
    BY <1>1, <1>4, NewSlotIs
  <1>6. /\ pid \in Pids /\ pid # 0 /\ main \in Slots /\ main # t /\ s # t
        /\ proc[main].state = "live" /\ proc[main].pid = pid
        /\ proc[main].memlim = proc[s].memlim
        /\ proc[main].sz \in Nat /\ proc[s].memlim \in Nat
        /\ exec[main] = NoExec
    <2>1. /\ pid \in Pids /\ pid # 0 /\ main \in Slots
          /\ proc[main].state = "live" /\ proc[main].pid = pid
          /\ proc[main].memlim = proc[s].memlim
          /\ proc[main].sz \in Nat /\ proc[s].memlim \in Nat
      BY <1>2, LiveIs
    <2> QED
      BY <1>2, <1>5, <2>1, NobodyInExec
  <1>7. PGSIZE \in Nat /\ sz \in Nat /\ proc[main].sz <= sz
    BY <1>6, UserMemAssumption
  <1>8. \A u \in Slots : exec[u] # NoExec => u # t /\ proc[u].pid # pid
    BY <1>2, <1>5, NobodyInExec
  <1>9. new \in Proc
    <2>1. proc[t].sz \in 0 .. KERNBASE
      BY <1>3, <1>5 DEF Typed, Proc
    <2> QED
      BY <1>4, <1>6, <2>1 DEF Proc
  <1>10. CASE /\ proc' = [proc EXCEPT ![t] = [new EXCEPT !.state = "unused", !.kstack = "freed"]]
              /\ refused' = refused \union {t} /\ twice' = twice \ {t}
              /\ UNCHANGED <<pages, exec, gone, broken, panicked>>
    <2>1. /\ proc' \in [Slots -> Proc]
          /\ proc'[t].state = "unused" /\ proc'[t].pid = pid /\ proc'[t].main = main
          /\ proc'[t].memlim = proc[s].memlim
          /\ \A u \in Slots : u # t => proc'[u] = proc[u]
      <3>1. [new EXCEPT !.state = "unused", !.kstack = "freed"] \in Proc
        BY <1>9 DEF Proc
      <3> QED
        BY <1>3, <1>5, <1>10, <3>1 DEF Typed
    <2>2. Typed'
      BY <1>3, <1>5, <1>10, <2>1 DEF Typed
    <2>3. FamilyInv' /\ AloneInv' /\ \A p \in Pids : Of(p)' = {} => Of(p) = {}
      <3>1. Taken(t) /\ Joins(t, s)
        BY <1>2, <1>5, <1>10, <2>1 DEF Taken, Joins
      <3> QED
        BY <1>5, <3>1, SlotTaken
    <2>4. OwnedInv'
      BY <1>10, <2>3 DEF IInv, OwnedInv
    <2>5. SizeInv'
      <3>1. \A u \in Slots : Sound(u)' => u # t /\ Sound(u)
        BY <1>10, <2>1 DEF Sound
      <3> QED
        BY <1>10, <2>1, <3>1, SizesStay
    <2>6. NewInv'
      BY <1>8, <1>10, <2>1, NewKept
    <2>7. FramesInv'
      BY <1>3, <1>10, SameFrames
    <2> QED
      BY <2>2, <2>3, <2>4, <2>5, <2>6, <2>7 DEF IInv
  <1>11. CASE Panic("remap")
    BY <1>11, NothingTouched DEF Panic
  <1>12. CASE /\ ~OverLimit(main)
              /\ pages' = [pages EXCEPT ![pid] = a.dir]
              /\ IF a.result = "ok"
                 THEN /\ proc' = Sized([proc EXCEPT ![t] = new], pid, sz)
                      /\ UNCHANGED broken
                 ELSE /\ proc' = [proc EXCEPT ![t] = [new EXCEPT !.sz = 0], ![main].sz = 0]
                      /\ broken' = broken \union {pid}
              /\ refused' = refused \ {t} /\ twice' = twice \ {t}
              /\ UNCHANGED <<exec, gone, panicked>>
    <2>1. /\ a.dir \in SUBSET Page
          /\ Cardinality(a.dir) <= Cardinality(pages[pid]) + FreeFrames
          /\ a.result = "ok" =>
                sz < KERNBASE /\ a.dir = pages[pid] \union Between(proc[main].sz, sz)
      <3>1. pages[pid] \in SUBSET Page /\ sz \in Int
        BY <1>3, <1>6, <1>7 DEF Typed
      <3> DEFINE old == proc[main].sz
      <3>2. old \in Nat
        BY <1>6
      <3> HIDE DEF sz, old, pid
      <3>3. /\ allocuvm(pages[pid], old, sz).dir \in SUBSET Page
            /\ Cardinality(allocuvm(pages[pid], old, sz).dir) <= Cardinality(pages[pid]) + FreeFrames
            /\ allocuvm(pages[pid], old, sz).result = "ok" =>
                  sz < KERNBASE /\ allocuvm(pages[pid], old, sz).dir =
                                       pages[pid] \union Between(old, sz)
        BY <1>3, <3>1, <3>2, AllocIs
      <3> QED
        BY <3>3 DEF old
    <2>2. /\ proc' \in [Slots -> Proc]
          /\ proc'[t].state = "live" /\ proc'[t].pid = pid /\ proc'[t].main = main
          /\ proc'[t].memlim = proc[s].memlim
          /\ \A u \in Slots : u # t =>
                /\ proc'[u].state = proc[u].state /\ proc'[u].pid = proc[u].pid
                /\ proc'[u].main = proc[u].main /\ proc'[u].memlim = proc[u].memlim
                /\ proc[u].pid # pid => proc'[u].sz = proc[u].sz
          /\ a.result = "ok" =>
                \A u \in Slots : proc'[u].pid = pid => proc'[u].sz = sz
      <3>1. CASE a.result = "ok"
        <4> DEFINE P == [proc EXCEPT ![t] = new]
        <4>1. sz \in 0 .. KERNBASE
          BY <1>7, <2>1, <3>1, UserMemAssumption
        <4>2. P \in [Slots -> Proc] /\ P[t] = new /\ \A u \in Slots : u # t => P[u] = proc[u]
          BY <1>3, <1>5, <1>9 DEF Typed
        <4>3. \A u \in Slots :
                  proc'[u] = IF P[u].pid = pid THEN [P[u] EXCEPT !.sz = sz] ELSE P[u]
          BY <1>12, <3>1 DEF Sized
        <4>4. proc' = [u \in Slots |-> proc'[u]]
          BY <1>12, <3>1 DEF Sized
        <4> HIDE DEF P, sz
        <4>5. ASSUME NEW u \in Slots
              PROVE  /\ proc'[u] \in Proc
                     /\ proc'[u].state = P[u].state /\ proc'[u].pid = P[u].pid
                     /\ proc'[u].main = P[u].main /\ proc'[u].memlim = P[u].memlim
                     /\ P[u].pid # pid => proc'[u].sz = P[u].sz
                     /\ P[u].pid = pid => proc'[u].sz = sz
          BY <4>1, <4>2, <4>3 DEF Proc
        <4>6. /\ P[t].state = "live" /\ P[t].pid = pid /\ P[t].main = main
              /\ P[t].memlim = proc[s].memlim
          BY <4>2
        <4>7. proc' \in [Slots -> Proc]
          BY <4>4, <4>5
        <4> QED
          BY <1>5, <4>2, <4>5, <4>6, <4>7
      <3>2. CASE a.result # "ok"
        <4>1. proc' = [[proc EXCEPT ![t] = [new EXCEPT !.sz = 0]]
                            EXCEPT ![main] = [proc[main] EXCEPT !.sz = 0]]
          <5>1. proc' = [proc EXCEPT ![t] = [new EXCEPT !.sz = 0], ![main].sz = 0]
            BY <1>12, <3>2
          <5> QED
            BY <1>5, <1>6, <5>1 DEF Typed
        <4>2. 0 \in 0 .. KERNBASE
          BY UserMemAssumption
        <4>3. [new EXCEPT !.sz = 0] \in Proc
          BY <1>9, <4>2 DEF Proc
        <4>4. /\ [proc[main] EXCEPT !.sz = 0] \in Proc
              /\ [proc[main] EXCEPT !.sz = 0].state = proc[main].state
              /\ [proc[main] EXCEPT !.sz = 0].pid = proc[main].pid
              /\ [proc[main] EXCEPT !.sz = 0].main = proc[main].main
              /\ [proc[main] EXCEPT !.sz = 0].memlim = proc[main].memlim
          <5>1. proc[main] \in Proc
            BY <1>3, <1>6 DEF Typed
          <5> QED
            BY <4>2, <5>1 DEF Proc
        <4>5. /\ proc' \in [Slots -> Proc]
              /\ proc'[t] = [new EXCEPT !.sz = 0]
              /\ proc'[main] = [proc[main] EXCEPT !.sz = 0]
              /\ \A u \in Slots : u # t /\ u # main => proc'[u] = proc[u]
          BY <1>3, <1>5, <1>6, <4>1, <4>3, <4>4 DEF Typed
        <4>6. /\ proc'[t].state = "live" /\ proc'[t].pid = pid /\ proc'[t].main = main
              /\ proc'[t].memlim = proc[s].memlim
          BY <4>5
        <4> QED
          BY <1>6, <3>2, <4>4, <4>5, <4>6, ZenonT(60)
      <3> QED
        BY <3>1, <3>2
    <2>3. /\ pages' \in [Pids -> SUBSET Page] /\ pages'[pid] = a.dir
          /\ \A p \in Pids : p # pid => pages'[p] = pages[p]
      <3> HIDE DEF a
      <3> QED
        BY <1>3, <1>6, <1>12, <2>1 DEF Typed
    <2>4. broken' \subseteq Pids /\ (a.result # "ok" => pid \in broken')
          /\ \A p : p # pid => (p \in broken' <=> p \in broken)
      BY <1>3, <1>6, <1>12 DEF Typed
    <2>5. Typed'
      BY <1>3, <1>5, <1>12, <2>2, <2>3, <2>4 DEF Typed
    <2>6. FamilyInv' /\ AloneInv' /\ \A p \in Pids : Of(p)' = {} => Of(p) = {}
      <3>1. Taken(t) /\ Joins(t, s)
        BY <1>2, <1>5, <1>12, <2>2 DEF Taken, Joins
      <3> QED
        BY <1>5, <3>1, SlotTaken
    <2>7. OwnedInv'
      <3>1. PICK q : q = pid
        OBVIOUS
      <3>2. t \in Of(q)'
        BY <1>5, <2>2, <3>1 DEF Of
      <3> HIDE DEF pid
      <3> QED
        BY <2>3, <2>6, <3>1, <3>2 DEF IInv, OwnedInv
    <2>8. SizeInv'
      <3>1. ASSUME NEW u \in Slots, proc'[u].pid # pid, Sound(u)'
            PROVE  /\ Sound(u) /\ proc'[u].pid = proc[u].pid /\ proc'[u].sz = proc[u].sz
                   /\ proc'[u].memlim = proc[u].memlim
                   /\ pages'[proc[u].pid] = pages[proc[u].pid]
                   /\ gone'[proc[u].pid] = gone[proc[u].pid]
        <4>1. /\ u # t /\ proc[u].pid # pid
              /\ proc'[u].state = proc[u].state /\ proc'[u].pid = proc[u].pid
              /\ proc'[u].memlim = proc[u].memlim /\ proc'[u].sz = proc[u].sz
          BY <2>2, <3>1
        <4>2. Sound(u)
          BY <1>12, <2>4, <3>1, <4>1 DEF Sound
        <4>3. proc[u].pid \in Pids
          BY <4>2, LiveIs DEF Sound
        <4> QED
          BY <1>12, <2>3, <4>1, <4>2, <4>3
      <3>2. ASSUME NEW u \in Slots, proc'[u].pid = pid, Sound(u)'
            PROVE  /\ proc'[u].sz = sz
                   /\ gone'[pid] \subseteq Below(sz) /\ pages'[pid] = Below(sz) \ gone'[pid]
                   /\ proc'[u].memlim > 0 => sz + 2 * PGSIZE <= proc'[u].memlim + MaxGrow
        <4>1. a.result = "ok" /\ pid \notin broken
          BY <1>12, <2>4, <3>2 DEF Sound
        <4>2. Sound(main)
          BY <1>6, <4>1 DEF Sound, NoExec
        <4>3. /\ gone[pid] \subseteq Below(proc[main].sz)
              /\ pages[pid] = Below(proc[main].sz) \ gone[pid]
          BY <1>3, <1>6, <4>2 DEF SizeInv
        <4>4. /\ Below(sz) = Below(proc[main].sz) \union Between(proc[main].sz, sz)
              /\ Below(proc[main].sz) \intersect Between(proc[main].sz, sz) = {}
          <5> HIDE DEF sz
          <5> QED
            BY <1>6, <1>7, GrowBelow
        <4>5. proc'[u].memlim = proc[s].memlim
          <5>1. CASE u = t
            BY <2>2, <5>1
          <5>2. CASE u # t
            <6>1. proc[u].pid = proc[s].pid /\ proc'[u].memlim = proc[u].memlim
              BY <2>2, <3>2, <5>2
            <6> QED
              BY <1>6, <6>1 DEF IInv, FamilyInv
          <5> QED
            BY <5>1, <5>2
        <4>6. proc[s].memlim > 0 => sz + 2 * PGSIZE <= proc[s].memlim + MaxGrow
          <5>1. proc[s].memlim > 0 => proc[main].sz + 2 * PGSIZE <= proc[s].memlim
            BY <1>6, <1>7, <1>12 DEF OverLimit
          <5>2. 2 * PGSIZE <= MaxGrow /\ MaxGrow \in Int
            BY MaxGrowIs
          <5> QED
            BY <1>6, <1>7, <5>1, <5>2
        <4>7. proc'[u].sz = sz
          BY <2>2, <3>2, <4>1
        <4>8. gone'[pid] \subseteq Below(sz) /\ pages'[pid] = Below(sz) \ gone'[pid]
          BY <1>12, <2>1, <2>3, <4>1, <4>3, <4>4
        <4> QED
          BY <4>5, <4>6, <4>7, <4>8
      <3> HIDE DEF sz
      <3>3. TouchesOnly(pid, sz)
        BY <3>1, <3>2 DEF TouchesOnly
      <3> QED
        BY <1>3, <3>3, SizeStep
    <2>9. NewInv'
      <3>1. \A u \in Slots : exec[u] # NoExec =>
                proc'[u].sz = proc[u].sz /\ proc'[u].memlim = proc[u].memlim
        BY <1>8, <2>2
      <3> QED
        BY <1>12, <3>1, NewKept
    <2>10. FramesInv'
      <3>1. pages' = [pages EXCEPT ![pid] = a.dir] /\ exec' = exec
        BY <1>12
      <3> HIDE DEF a
      <3> QED
        BY <1>3, <1>6, <2>1, <3>1, PagesFrames
    <2> QED
      BY <2>5, <2>6, <2>7, <2>8, <2>9, <2>10 DEF IInv
  <1> QED
    BY <1>4, <1>10, <1>11, <1>12 DEF ThreadCreate

-----------------------------------------------------------------------------
(* The invariant is inductive *)

LEMMA InitKept ==
    ASSUME Init
    PROVE  IInv
  <1>1. /\ PGSIZE \in Nat \ {0} /\ PGSIZE < KERNBASE /\ KERNBASE \in Nat
        /\ NFRAMES \in Nat \ {0} /\ 1 \in Slots /\ 1 \in Pids
        /\ Slots \subseteq Nat \ {0} /\ Pids \subseteq Nat \ {0}
        /\ PGSIZE \in 0 .. KERNBASE /\ 0 \in 0 .. KERNBASE
    BY UserMemAssumption DEF Slots, Pids
  <1>2. NoExec \in Execs /\ NoExec.at = "none" /\ NoExec.new = {}
    BY <1>1 DEF NoExec, Execs
  <1> DEFINE first == [state |-> "live", pid |-> 1, main |-> 1, sz |-> PGSIZE, memlim |-> 0,
                       kstack |-> "held"]
  <1>3. /\ \A s \in Slots : proc[s] = IF s = 1 THEN first ELSE FreeSlot
        /\ proc = [s \in Slots |-> proc[s]]
    BY DEF Init, InitProc
  <1>4. /\ pages = [p \in Pids |-> IF p = 1 THEN {0} ELSE {}]
        /\ exec = [s \in Slots |-> NoExec] /\ gone = [p \in Pids |-> {}]
        /\ broken = {} /\ twice = {} /\ refused = {}
    BY DEF Init
  <1>5. first \in Proc
    BY <1>1 DEF Proc
  <1> HIDE DEF Init
  <1>6. Typed
    <2>1. proc \in [Slots -> Proc]
      BY <1>3, <1>5, FreeSlotIs
    <2>2. pages \in [Pids -> SUBSET Page] /\ gone \in [Pids -> SUBSET Page]
      <3>1. {0} \in SUBSET Page /\ {} \in SUBSET Page
        BY <1>1 DEF Page
      <3> QED
        BY <1>4, <3>1
    <2>3. exec \in [Slots -> Execs]
      BY <1>2, <1>4
    <2> QED
      BY <1>4, <2>1, <2>2, <2>3 DEF Typed
  <1>7. \A s \in Slots : /\ s = 1 => /\ proc[s].state = "live" /\ proc[s].pid = 1
                                     /\ proc[s].main = 1 /\ proc[s].sz = PGSIZE
                                     /\ proc[s].memlim = 0
                         /\ s # 1 => proc[s].state = "unused" /\ proc[s].pid = 0
    BY <1>3 DEF FreeSlot
  <1>8. FamilyInv
    BY <1>1, <1>7 DEF FamilyInv
  <1>9. AloneInv
    BY <1>4 DEF AloneInv
  <1>10. OwnedInv
    <2>1. 1 \in Of(1)
      BY <1>1, <1>7 DEF Of
    <2> QED
      BY <1>4, <2>1 DEF OwnedInv
  <1>11. SizeInv
    <2>1. Below(PGSIZE) = {0}
      <3>1. Below(PGSIZE) = {a \in Page : a * PGSIZE < PGSIZE}
        BY <1>1, BelowIs
      <3>2. ASSUME NEW a \in Page
            PROVE  a * PGSIZE < PGSIZE <=> a = 0
        <4>1. a \in Nat
          BY <1>1 DEF Page
        <4>2. a = 0 => a * PGSIZE = 0
          BY <1>1
        <4>3. a # 0 => a * PGSIZE >= PGSIZE
          BY <1>1, <4>1
        <4> QED
          BY <1>1, <4>1, <4>2, <4>3
      <3>3. 0 \in Page
        BY <1>1 DEF Page
      <3> QED
        BY <3>1, <3>2, <3>3
    <2>2. \A s \in Slots : Sound(s) => s = 1
      BY <1>7 DEF Sound
    <2>3. pages[1] = {0} /\ gone[1] = {}
      BY <1>1, <1>4
    <2> QED
      BY <1>7, <2>1, <2>2, <2>3 DEF SizeInv
  <1>12. NewInv
    BY <1>2, <1>4 DEF NewInv
  <1>13. FramesInv
    <2>1. AllPages(pages) = {<<1, 0>>}
      <3>1. AllPages(pages) = UNION {{p} \X pages[p] : p \in Pids}
        BY <1>4 DEF AllPages
      <3>2. \A x : x \in AllPages(pages) <=> \E p \in Pids : x \in {p} \X pages[p]
        BY <3>1
      <3>3. \A p \in Pids : pages[p] = IF p = 1 THEN {0} ELSE {}
        BY <1>4
      <3>4. \A p \in Pids : {p} \X pages[p] = IF p = 1 THEN {<<1, 0>>} ELSE {}
        BY <3>3
      <3>5. \A x : x \in AllPages(pages) <=> x = <<1, 0>>
        BY <1>1, <3>2, <3>4
      <3> QED
        BY <3>5
    <2>2. AllPages([s \in Slots |-> exec[s].new]) = {}
      <3>1. \A s \in Slots : exec[s].new = {}
        BY <1>2, <1>4
      <3> QED
        BY <3>1 DEF AllPages
    <2>3. Cardinality({<<1, 0>>}) = 1 /\ Cardinality({}) = 0
      BY FS_Singleton, FS_EmptySet
    <2>4. FreeFrames = NFRAMES - 1 - 0
      BY <2>1, <2>2, <2>3 DEF FreeFrames
    <2> QED
      BY <1>1, <2>4 DEF FramesInv
  <1> QED
    BY <1>6, <1>8, <1>9, <1>10, <1>11, <1>12, <1>13 DEF IInv

LEMMA NextKept ==
    ASSUME IInv, [Next]_vars
    PROVE  IInv'
  <1>1. ASSUME NEW s \in Slots, NEW n \in Grows, Grow(s, n) \/ Shrink(s, n)
        PROVE  IInv'
    BY <1>1, GrowKeeps, ShrinkKeeps
  <1>2. ASSUME NEW s \in Slots, Fork(s) \/ ThreadCreate(s) \/ ThreadExit(s) \/ Exit(s)
        PROVE  IInv'
    BY <1>2, ForkKeeps, ThreadCreateKeeps, ThreadExitKeeps, ExitKeeps
  <1>3. ASSUME NEW s \in Slots, NEW t \in Slots, Join(s, t)
        PROVE  IInv'
    BY <1>3, JoinKeeps
  <1>4. ASSUME NEW s \in Slots, Exec(s) \/ ExecCheck(s) \/ ExecCommit(s) \/ ExecBad(s)
        PROVE  IInv'
    BY <1>4, ExecKeeps, ExecCheckKeeps, ExecCommitKeeps, ExecBadKeeps
  <1>5. ASSUME NEW s \in Slots, NEW image \in Images, ExecLoad(s, image)
        PROVE  IInv'
    BY <1>5, ExecLoadKeeps
  <1>6. ASSUME NEW s \in Slots, NEW n \in Stacks, ExecStack(s, n)
        PROVE  IInv'
    BY <1>6, ExecStackKeeps
  <1>7. ASSUME NEW s \in Slots, NEW limit \in Limits, SetLimit(s, limit)
        PROVE  IInv'
    BY <1>7, SetLimitKeeps
  <1>8. ASSUME NEW pid \in Pids, Wait(pid)
        PROVE  IInv'
    BY <1>8, WaitKeeps
  <1>9. CASE UNCHANGED vars
    BY <1>9, NothingTouched DEF vars
  <1> QED
    BY <1>1, <1>2, <1>3, <1>4, <1>5, <1>6, <1>7, <1>8, <1>9 DEF Next

\* The invariant holds in every reachable state.
THEOREM SizesKept == Spec => []IInv
  <1>1. Init => IInv
    BY InitKept
  <1>2. IInv /\ [Next]_vars => IInv'
    BY NextKept
  <1> QED
    BY <1>1, <1>2, PTL DEF Spec

\* Size, limit, table and frames agree, whichever thread calls sbrk (growproc),
\* thread_create, fork, exec or setmemorylimit, and wherever memory runs out: no
\* frame is in two tables or lost, the threads' copies agree, and the page table
\* is what the size says but for what sbrk has freed.
THEOREM ImagesExact == Spec => []SizesExact
  <1>1. IInv => SizesExact
    <2> SUFFICES ASSUME IInv
                 PROVE  SizesExact
      OBVIOUS
    <2>1. TypeOK
      BY DEF IInv, Typed, FramesInv, TypeOK, Proc, Page
    <2>2. \A s \in Slots : Settled(s) => Sound(s)
      BY DEF Settled, Sound, NoExec
    <2>3. \A s \in Slots : Settled(s) => proc[s].pid # 0
      BY LiveIs DEF Settled
    <2>4. CopiesAgree
      BY <2>2, <2>3 DEF IInv, SizeInv, FamilyInv, CopiesAgree
    <2>5. ImageExact
      BY <2>2 DEF IInv, SizeInv, ImageExact
    <2> QED
      BY <2>1, <2>4, <2>5 DEF SizesExact
  <1> QED
    BY <1>1, SizesKept, PTL

\* How far a process can get beyond its limit, whatever sbrk is called with and
\* whoever calls setmemorylimit, also while the process is in exec.
THEOREM OvershootBounded == Spec => []LimitKept
  <1>1. IInv => LimitKept
    <2> SUFFICES ASSUME IInv, NEW s \in Slots, Settled(s), proc[s].memlim > 0
                 PROVE  proc[s].sz + 2 * PGSIZE <= proc[s].memlim + MaxGrow
      BY DEF LimitKept, MaxGrow
    <2>1. Sound(s)
      BY DEF Settled, Sound, NoExec
    <2> QED
      BY <2>1 DEF IInv, SizeInv
  <1> QED
    BY <1>1, SizesKept, PTL

-----------------------------------------------------------------------------
(* Kernel stacks *)

\* A step that at most takes pointers to stacks away, and may free stacks.
Clears ==
    /\ \A t \in Slots : proc'[t].kstack \in {"none", proc[t].kstack}
    /\ refused' = refused
    /\ twice' \subseteq twice \union {t \in Slots : proc[t].kstack = "freed"}

\* A step that gives the slot t a stack, which it may free again.
Gives(t) ==
    /\ \A u \in Slots : u # t => proc'[u].kstack = proc[u].kstack
    /\ \/ proc'[t].kstack = "held" /\ refused' = refused \ {t}
       \/ refused' = refused \union {t}
    /\ twice' = twice \ {t}

LEMMA StepClearsOrGives ==
    ASSUME IInv, [Next]_vars
    PROVE  Clears \/ \E t \in Slots : Gives(t)
  <1>1. Typed
    BY DEF IInv
  <1>2. ASSUME proc' = proc \/ \A t \in Slots : proc'[t].kstack = proc[t].kstack,
               UNCHANGED <<refused, twice>>
        PROVE  Clears
    BY <1>2 DEF Clears
  <1>3. ASSUME NEW why, Panic(why)
        PROVE  Clears
    BY <1>2, <1>3 DEF Panic
  <1>4. ASSUME NEW pid, NEW z, proc' = Sized(proc, pid, z), UNCHANGED <<refused, twice>>
        PROVE  Clears
    <2>1. \A t \in Slots : proc'[t].kstack = proc[t].kstack
      BY <1>1, <1>4 DEF Sized, Typed, Proc
    <2> QED
      BY <1>2, <1>4, <2>1
  <1>5. ASSUME NEW s \in Slots, NEW n \in Grows, Grow(s, n)
        PROVE  Clears
    <2> DEFINE pid == proc[s].pid
               z == proc[s].sz + n
               ok == allocuvm(pages[pid], proc[s].sz, proc[s].sz + n).result = "ok"
    <2>1. CASE Panic("remap")
      BY <1>3, <2>1
    <2>2. CASE /\ proc' = IF ok THEN Sized(proc, pid, z) ELSE proc
               /\ UNCHANGED <<refused, twice>>
      <3> HIDE DEF pid, z, ok
      <3>1. CASE ok
        BY <1>4, <2>2, <3>1
      <3>2. CASE ~ok
        BY <1>2, <2>2, <3>2
      <3> QED
        BY <3>1, <3>2
    <2> QED
      BY <1>5, <2>1, <2>2 DEF Grow
  <1>6. ASSUME NEW s \in Slots, NEW n \in Grows, Shrink(s, n)
        PROVE  Clears
    BY <1>2, <1>6 DEF Shrink
  <1>7. ASSUME NEW s \in Slots, Fork(s)
        PROVE  Clears \/ \E t \in Slots : Gives(t)
    <2>1. CASE Panic("page not present") \/ Panic("ptable.lock kept")
      BY <1>3, <2>1
    <2>2. CASE ~(Panic("page not present") \/ Panic("ptable.lock kept"))
      <3>1. PICK t : t = NewSlot
        OBVIOUS
      <3>2. t \in Slots
        BY <1>7, <3>1, NewSlotIs DEF Fork
      <3> DEFINE r == [state |-> "live", pid |-> NewPid, main |-> NewSlot,
                       sz |-> proc[proc[s].main].sz, memlim |-> proc[s].memlim,
                       kstack |-> "held"]
      <3>3. proc' = [proc EXCEPT ![t] = r] /\ r.kstack = "held"
        BY <1>7, <2>2, <3>1 DEF Fork
      <3> HIDE DEF r
      <3>4. refused' = refused \ {t} /\ twice' = twice \ {t}
        BY <1>7, <2>2, <3>1 DEF Fork
      <3>5. Gives(t)
        BY <1>1, <3>2, <3>3, <3>4 DEF Gives, Typed
      <3> QED
        BY <3>2, <3>5
    <2> QED
      BY <2>1, <2>2
  <1>8. ASSUME NEW s \in Slots, ThreadCreate(s)
        PROVE  Clears \/ \E t \in Slots : Gives(t)
    <2> DEFINE pid == proc[s].pid
               main == proc[s].main
               sz == proc[main].sz + 2 * PGSIZE
               ok == allocuvm(pages[pid], proc[main].sz, sz).result = "ok"
               new == [state |-> "live", pid |-> pid, main |-> main,
                       sz |-> proc[NewSlot].sz, memlim |-> proc[s].memlim,
                       kstack |-> "held"]
    <2>1. PICK t : t = NewSlot
      OBVIOUS
    <2>2. t \in Slots /\ main \in Slots
      <3>1. Unused # {} /\ proc[s].state = "live"
        BY <1>8 DEF ThreadCreate, Running
      <3> QED
        BY <2>1, <3>1, NewSlotIs, LiveIs
    <2>3. CASE Panic("remap")
      BY <1>3, <2>3
    <2>4. CASE /\ proc' = [proc EXCEPT ![t] = [new EXCEPT !.state = "unused", !.kstack = "freed"]]
               /\ refused' = refused \union {t} /\ twice' = twice \ {t}
      <3>1. Gives(t)
        BY <1>1, <2>2, <2>4 DEF Gives, Typed
      <3> QED
        BY <2>2, <3>1
    <2>5. CASE /\ ok /\ proc' = Sized([proc EXCEPT ![t] = new], pid, sz)
               /\ refused' = refused \ {t} /\ twice' = twice \ {t}
      <3> DEFINE P == [proc EXCEPT ![t] = new]
      <3>1. \A u \in Slots :
                /\ P[u] = IF u = t THEN new ELSE proc[u]
                /\ proc'[u] = IF P[u].pid = pid THEN [P[u] EXCEPT !.sz = sz] ELSE P[u]
        BY <1>1, <2>5 DEF Sized, Typed
      <3> HIDE DEF P, sz
      <3>2. ASSUME NEW u \in Slots, u # t
            PROVE  proc'[u].kstack = proc[u].kstack
        <4>1. proc[u] \in Proc
          BY <1>1 DEF Typed
        <4>2. [proc[u] EXCEPT !.sz = sz].kstack = proc[u].kstack
          BY <4>1 DEF Proc
        <4>3. proc'[u] \in {[proc[u] EXCEPT !.sz = sz], proc[u]}
          BY <3>1, <3>2
        <4> QED
          BY <4>2, <4>3
      <3>3. proc'[t].kstack = "held"
        <4>1. [new EXCEPT !.sz = sz].kstack = "held" /\ new.kstack = "held"
          OBVIOUS
        <4>2. proc'[t] \in {[new EXCEPT !.sz = sz], new}
          BY <2>2, <3>1
        <4> HIDE DEF new
        <4> QED
          BY <4>1, <4>2
      <3>4. Gives(t)
        BY <2>5, <3>2, <3>3 DEF Gives
      <3> QED
        BY <2>2, <3>4
    <2>6. CASE /\ proc' = [proc EXCEPT ![t] = [new EXCEPT !.sz = 0], ![main].sz = 0]
               /\ refused' = refused \ {t} /\ twice' = twice \ {t}
      <3>1. t # main
        BY <1>8, <2>1, NewSlotIs, LiveIs DEF ThreadCreate, Running
      <3> DEFINE other == [proc[main] EXCEPT !.sz = 0]
                 own == [new EXCEPT !.sz = 0]
      <3>2. other.kstack = proc[main].kstack /\ own.kstack = "held"
        BY <1>1, <2>2 DEF Typed, Proc
      <3>3. /\ proc'[main] = other /\ proc'[t] = own
            /\ \A u \in Slots : u # t /\ u # main => proc'[u] = proc[u]
        <4>1. proc' = [[proc EXCEPT ![t] = own] EXCEPT ![main] = other]
          BY <1>1, <2>2, <2>6, <3>1 DEF Typed
        <4> HIDE DEF own, other
        <4> QED
          BY <1>1, <2>2, <3>1, <4>1 DEF Typed
      <3> HIDE DEF own, other
      <3>4. Gives(t)
        BY <2>2, <2>6, <3>2, <3>3 DEF Gives
      <3> QED
        BY <2>2, <3>4
    <2> QED
      BY <1>8, <2>1, <2>3, <2>4, <2>5, <2>6 DEF ThreadCreate
  <1>9. ASSUME NEW s \in Slots, ThreadExit(s)
        PROVE  Clears
    <2>1. \A t \in Slots : proc'[t].kstack = proc[t].kstack
      BY <1>1, <1>9 DEF ThreadExit, Typed, Proc
    <2> QED
      BY <1>2, <1>9, <2>1 DEF ThreadExit
  <1>10. ASSUME NEW s \in Slots, Exit(s)
        PROVE  Clears
    <2>1. \A t \in Slots : proc'[t].kstack = proc[t].kstack
      BY <1>1, <1>10 DEF Exit, Typed, Proc
    <2> QED
      BY <1>2, <1>10, <2>1 DEF Exit
  <1>11. ASSUME NEW s \in Slots, NEW t \in Slots, Join(s, t)
         PROVE  Clears
    <2>1. \A u \in Slots : proc'[u].kstack \in {"none", proc[u].kstack}
      BY <1>1, <1>11 DEF Join, Joined, FreeSlot, Typed
    <2> QED
      BY <1>11, <2>1 DEF Join, Clears
  <1>12. ASSUME NEW s \in Slots, Exec(s)
         PROVE  Clears
    <2>1. \A u \in Slots : proc'[u].kstack \in {"none", proc[u].kstack}
      <3>1. proc' = [t \in Slots |->
              IF t = s THEN [proc[s] EXCEPT !.memlim = 0, !.main = s]
              ELSE IF t \in Of(proc[s].pid) \ {s} THEN FreeSlot ELSE proc[t]]
        BY <1>12 DEF Exec
      <3>2. [proc[s] EXCEPT !.memlim = 0, !.main = s].kstack = proc[s].kstack
        BY <1>1 DEF Typed, Proc
      <3> QED
        BY <3>1, <3>2 DEF FreeSlot
    <2> QED
      BY <1>12, <2>1 DEF Exec, FreeStacks, Of, Clears
  <1>13. ASSUME NEW s \in Slots, NEW from, NEW old, NEW sz, NEW to,
                ExecAlloc(s, from, old, sz, to)
         PROVE  Clears
    BY <1>4, <1>13 DEF ExecAlloc
  <1>14. ASSUME NEW s \in Slots, ExecCheck(s) \/ ExecBad(s)
         PROVE  Clears
    BY <1>2, <1>14 DEF ExecCheck, ExecBad
  <1>15. ASSUME NEW s \in Slots, ExecCommit(s)
         PROVE  Clears
    <2>1. \A t \in Slots : proc'[t].kstack = proc[t].kstack
      BY <1>1, <1>15 DEF ExecCommit, Typed, Proc
    <2> QED
      BY <1>2, <1>15, <2>1 DEF ExecCommit
  <1>16. ASSUME NEW p \in Slots, NEW limit \in Limits, SetLimit(p, limit)
         PROVE  Clears
    <2>1. \A t \in Slots : proc'[t].kstack = proc[t].kstack
      BY <1>1, <1>16 DEF SetLimit, Typed, Proc
    <2> QED
      BY <1>2, <1>16, <2>1 DEF SetLimit
  <1>17. ASSUME NEW pid \in Pids, Wait(pid)
         PROVE  Clears
    BY <1>17 DEF Wait, FreeStacks, Of, FreeSlot, Clears
  <1>18. CASE UNCHANGED vars
    BY <1>2, <1>18 DEF vars
  <1> QED
    BY <1>5, <1>6, <1>7, <1>8, <1>9, <1>10, <1>11, <1>12, <1>13, <1>14, <1>15, <1>16, <1>17,
       <1>18 DEF Next, ExecLoad, ExecStack

\* A kernel stack is freed a second time (by wait or exec) only if a refused
\* thread_create freed it first and left its slot with pid and pointer: the ways
\* through thread_exit, thread_join, exit, wait and exec free each stack once.
THEOREM StacksFreedOnce == Spec => []StackFreedOnce
  <1> DEFINE J == StackInv /\ StackFreedOnce
  <1>1. Init => J
    BY DEF Init, StackInv, StackFreedOnce, FreeSlot
  <1>2. IInv /\ J /\ [Next]_vars => J'
    <2> SUFFICES ASSUME IInv, J, [Next]_vars
                 PROVE  J'
      OBVIOUS
    <2>1. CASE Clears
      BY <2>1 DEF Clears, StackInv, StackFreedOnce
    <2>2. ASSUME NEW t \in Slots, Gives(t)
          PROVE  J'
      BY <2>2 DEF Gives, StackInv, StackFreedOnce
    <2> QED
      BY <2>1, <2>2, StepClearsOrGives
  <1> QED
    BY <1>1, <1>2, SizesKept, PTL DEF Spec

=============================================================================
