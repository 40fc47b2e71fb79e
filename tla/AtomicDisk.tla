----------------------------- MODULE AtomicDisk -----------------------------
(***************************************************************************)
(* What the file-system log promises to its callers.                       *)
(*                                                                         *)
(* File-system calls run as operations: they begin, write blocks in memory *)
(* and end.  The disk only ever moves from the contents after some set of  *)
(* whole operations to the contents after a larger such set, in one step.  *)
(* After a crash the memory holds again what the disk holds.               *)
(***************************************************************************)
CONSTANTS Procs,    \* the processes that make file-system calls
          Blocks,   \* the home blocks of the file system
          Vals      \* contents of one block

VARIABLES mem,      \* what a process reads, [Blocks -> Vals]
          stable,   \* what a machine that crashed now would read, [Blocks -> Vals]
          active    \* the processes inside an operation

vars == <<mem, stable, active>>

TypeOK == /\ mem \in [Blocks -> Vals]
          /\ stable \in [Blocks -> Vals]
          /\ active \subseteq Procs

Init == /\ mem \in [Blocks -> Vals]
        /\ stable = mem
        /\ active = {}

\* An operation that starts when no other is running finds everything that
\* ended before it on the disk; otherwise it joins the group that is running.
Begin(p) == /\ p \notin active
            /\ active # {} \/ stable = mem
            /\ active' = active \union {p}
            /\ UNCHANGED <<mem, stable>>

Write(p, b, v) == /\ p \in active
                  /\ mem' = [mem EXCEPT ![b] = v]
                  /\ UNCHANGED <<stable, active>>

End(p) == /\ p \in active
          /\ active' = active \ {p}
          /\ UNCHANGED <<mem, stable>>

\* The whole group reaches the disk at once, and only between operations.
Commit == /\ active = {}
          /\ stable' = mem
          /\ UNCHANGED <<mem, active>>

Crash == /\ mem' = stable
         /\ active' = {}
         /\ UNCHANGED stable

Next == \/ \E p \in Procs : Begin(p) \/ End(p)
        \/ \E p \in Procs, b \in Blocks, v \in Vals : Write(p, b, v)
        \/ Commit
        \/ Crash

Spec == Init /\ [][Next]_vars
=============================================================================
