----------------------------- MODULE BlockStore -----------------------------
(***************************************************************************)
(* What the buffer cache promises to the file system ("Return a locked buf *)
(* with the contents of the indicated block", bio.c): a process has a      *)
(* block to itself between bread and brelse and sees what was stored in it *)
(* last, wherever the contents have been in between.                       *)
(***************************************************************************)
CONSTANTS Procs, Blocks, Vals

VARIABLES
    view,      \* the block that each process holds and what it sees there
    data,      \* the contents of each block
    disk       \* what each block has on the disk

vars == <<view, data, disk>>

NoView == [blk |-> "none", val |-> "none"]

Init ==
    /\ view = [p \in Procs |-> NoView]
    /\ data \in [Blocks -> Vals]
    /\ disk = data

Get(p, b) ==
    /\ view[p] = NoView /\ \A q \in Procs : view[q].blk # b
    /\ view' = [view EXCEPT ![p] = [blk |-> b, val |-> data[b]]]
    /\ UNCHANGED <<data, disk>>

Store(p, v) ==
    /\ view[p] # NoView
    /\ view' = [view EXCEPT ![p].val = v]
    /\ data' = [data EXCEPT ![view[p].blk] = v]
    /\ UNCHANGED disk

\* The block that reaches the disk is one that somebody holds.
Sync(p) ==
    /\ view[p] # NoView
    /\ disk' = [disk EXCEPT ![view[p].blk] = data[view[p].blk]]
    /\ UNCHANGED <<view, data>>

Put(p) ==
    /\ view[p] # NoView
    /\ view' = [view EXCEPT ![p] = NoView]
    /\ UNCHANGED <<data, disk>>

Next ==
    \E p \in Procs :
        \/ \E b \in Blocks : Get(p, b)
        \/ \E v \in Vals : Store(p, v)
        \/ Sync(p)
        \/ Put(p)

Spec == Init /\ [][Next]_vars
=============================================================================
